------------------------------- MODULE Daemon -------------------------------
(***************************************************************************)
(* How the windows of angr management come to share one daemon process     *)
(* (daemon/server.py, MainWindow._run_daemon, __main__.py), over the lock  *)
(* file of SingleInstance.                                                 *)
(*                                                                         *)
(* A client asks daemon_exists, which takes the lock and gives it back; if *)
(* it got the lock it starts a daemon process, and then it connects.  A    *)
(* daemon takes the lock, binds the port and serves until its monitor has  *)
(* seen no connection for a while.                                         *)
(***************************************************************************)
EXTENDS SingleInstance

CONSTANTS
    Clients,    \* processes that connect
    UrlClients, \* those that handle an URL and try to connect only once
    Daemons,    \* daemon processes; a client starts one at most
    Mortal,     \* processes that may be killed
    IdleLimit   \* polls of the monitor without a connection, 300 in the code

ASSUME DaemonAssumption ==
    /\ Procs = Clients \cup Daemons
    /\ Clients \cap Daemons = {}
    /\ UrlClients \subseteq Clients
    /\ Mortal \subseteq Procs
    /\ Cardinality(Daemons) >= Cardinality(Clients)
    /\ IdleLimit \in Nat

VARIABLES
    pc,        \* what each process is doing
    port,      \* the daemon that listens
    conns,     \* CONNECTIONS of that daemon
    idle,      \* polls since its monitor last saw a connection
    ended      \* history: a daemon that served stopped, or a process was killed

daemonVars == <<port, conns, idle, ended>>
vars == <<lockVars, pc, daemonVars>>

ClientPcs == {"start", "connecting", "accepted", "connected", "gone"}
DaemonPcs == {"off", "up", "serving", "closing", "exiting", "dead"}

Init ==
    /\ LockInit
    /\ pc = [p \in Procs |-> IF p \in Clients THEN "start" ELSE "off"]
    /\ port = None
    /\ conns = {}
    /\ idle = 0
    /\ ended = FALSE

Goto(p, q) == pc' = [pc EXCEPT ![p] = q]

HasConnection(c) == pc[c] \in {"accepted", "connected"}

-----------------------------------------------------------------------------
(***************************************************************************)
(* SingleInstance() and its deletion, in clients and in daemons.           *)
(***************************************************************************)
Acquire(p) ==
    /\ pc[p] \in {"start", "up"}
    /\ Open(p) \/ Lock(p)
    /\ UNCHANGED <<pc, daemonVars>>

\* Mutant of Release: daemon_exists forgets to delete the instance.
ReleaseAtExit(p) ==
    /\ pc[p] = "exiting"
    /\ Unlock(p) \/ CheckFile(p) \/ Unlink(p)
    /\ UNCHANGED <<pc, daemonVars>>

\* daemon_exists deletes the instance at once, a daemon when it exits.
Release(p) ==
    /\ pc[p] \in {"start", "exiting"}
    /\ Unlock(p) \/ CheckFile(p) \/ Unlink(p)
    /\ UNCHANGED <<pc, daemonVars>>

-----------------------------------------------------------------------------
(***************************************************************************)
(* Clients.                                                                *)
(***************************************************************************)
\* daemon_exists returned True.
FindDaemon(c) ==
    /\ pc[c] = "start" /\ at[c] = "refused"
    /\ Goto(c, "connecting")
    /\ UNCHANGED <<lockVars, daemonVars>>

\* Mutant of RunDaemonProcess: the lock is deleted after the daemon was started.
RunBeforeRelease(c) ==
    /\ pc[c] = "start" /\ at[c] = "held"
    /\ \E d \in Daemons :
         /\ pc[d] = "off"
         /\ pc' = [pc EXCEPT ![c] = "connecting", ![d] = "up"]
    /\ UNCHANGED <<lockVars, daemonVars>>

\* daemon_exists returned False.
RunDaemonProcess(c) ==
    /\ pc[c] = "start" /\ at[c] = "released"
    /\ \E d \in Daemons :
         /\ pc[d] = "off"
         /\ pc' = [pc EXCEPT ![c] = "connecting", ![d] = "up"]
    /\ UNCHANGED <<lockVars, daemonVars>>

Connect(c) ==
    /\ pc[c] = "connecting" /\ port # None
    /\ Goto(c, "accepted")
    /\ UNCHANGED <<lockVars, daemonVars>>

\* ConnectionRefusedError: a window tries again, an URL handler ends.
ConnectionRefused(c) ==
    /\ pc[c] = "connecting" /\ port = None
    /\ c \in UrlClients
    /\ Goto(c, "gone")
    /\ UNCHANGED <<lockVars, daemonVars>>

\* on_connect runs in a thread of the daemon after the connection was accepted.
OnConnect(c) ==
    /\ pc[c] = "accepted"
    /\ conns' = conns \cup {c}
    /\ Goto(c, "connected")
    /\ UNCHANGED <<lockVars, port, idle, ended>>

Disconnect(c) ==
    /\ pc[c] = "connected"
    /\ Goto(c, "gone")
    /\ UNCHANGED <<lockVars, daemonVars>>

\* Mutant of OnDisconnect: only the service forgets the connection.
OnDisconnectKeeps(c) ==
    /\ c \in conns /\ pc[c] = "gone"
    /\ UNCHANGED vars

OnDisconnect(c) ==
    /\ c \in conns /\ pc[c] = "gone"
    /\ conns' = conns \ {c}
    /\ UNCHANGED <<lockVars, pc, port, idle, ended>>

-----------------------------------------------------------------------------
(***************************************************************************)
(* Daemons.                                                                *)
(***************************************************************************)
\* start_daemon returns: another instance holds the lock.
GiveUp(d) ==
    /\ pc[d] = "up" /\ at[d] = "refused"
    /\ Goto(d, "dead")
    /\ UNCHANGED <<lockVars, daemonVars>>

\* ThreadedServer() binds the port, or raises when another daemon listens.
StartServer(d) ==
    /\ pc[d] = "up" /\ at[d] = "held"
    /\ \/ /\ port = None
          /\ port' = d /\ conns' = {} /\ idle' = 0
          /\ Goto(d, "serving")
          /\ UNCHANGED ended
       \/ /\ port # None
          /\ Goto(d, "exiting")
          /\ UNCHANGED daemonVars
    /\ UNCHANGED lockVars

\* One round of monitor_thread.
\* IF   there is a connection
\* THEN start counting anew
\* ELSE decide to close the server when it has been idle for long enough.
Poll(d) ==
    /\ pc[d] = "serving"
    /\ idle' = IF conns # {} THEN 0 ELSE IF idle < IdleLimit THEN idle + 1 ELSE idle
    /\ IF conns = {} /\ idle = IdleLimit THEN Goto(d, "closing") ELSE UNCHANGED pc
    /\ UNCHANGED <<lockVars, port, conns, ended>>

\* The server is gone: nobody listens, and its connections break.
ServerEnds(d, q) ==
    /\ pc' = [p \in Procs |-> IF p = d THEN q ELSE IF HasConnection(p) THEN "gone" ELSE pc[p]]
    /\ port' = None /\ conns' = {} /\ idle' = 0

\* server.close(), then start_daemon returns and the process exits.
CloseServer(d) ==
    /\ pc[d] = "closing"
    /\ ServerEnds(d, "exiting")
    /\ ended' = TRUE
    /\ UNCHANGED lockVars

\* The process has ended, or is killed before that.
Killed(p) ==
    /\ p \in Mortal
    /\ pc[p] \notin {"off", "dead", "gone"}
    /\ LockDies(p)
    /\ IF port = p THEN ServerEnds(p, "dead")
       ELSE /\ Goto(p, IF p \in Daemons THEN "dead" ELSE "gone")
            /\ UNCHANGED <<port, conns, idle>>
    /\ ended' = TRUE

\* The interpreter of a daemon may end without deleting the instance.
ExitDaemon(d) ==
    /\ pc[d] = "exiting"
    /\ \/ at[d] = "held" /\ LockDies(d)
       \/ at[d] = "released" /\ UNCHANGED lockVars
    /\ Goto(d, "dead")
    /\ UNCHANGED daemonVars

-----------------------------------------------------------------------------
ClientStep(c) ==
    \/ FindDaemon(c) \/ RunDaemonProcess(c) \/ Connect(c) \/ ConnectionRefused(c)
    \/ OnConnect(c) \/ OnDisconnect(c)

DaemonStep(d) ==
    \/ GiveUp(d) \/ StartServer(d) \/ Poll(d) \/ CloseServer(d) \/ ExitDaemon(d)

Next ==
    \/ \E p \in Procs : Acquire(p) \/ Release(p) \/ Killed(p)
    \/ \E c \in Clients : ClientStep(c) \/ Disconnect(c)
    \/ \E d \in Daemons : DaemonStep(d)

Spec == Init /\ [][Next]_vars

(***************************************************************************)
(* Processes run: each does its next step, and a window tries to connect   *)
(* again and again.  Nobody has to close a window.                         *)
(***************************************************************************)
Fairness ==
    /\ \A p \in Procs : WF_vars(Acquire(p)) /\ WF_vars(Release(p))
    /\ \A c \in Clients : WF_vars(ClientStep(c))
    /\ \A d \in Daemons : WF_vars(DaemonStep(d))

FairSpec == Spec /\ Fairness

-----------------------------------------------------------------------------
WillStart(c) == pc[c] = "start" /\ at[c] \in {"held", "unlocked", "unlinking", "released"}

\* A window that waits for the port waits for something: a daemon listens or is
\* starting, or a client is about to start one, even though the probes of other
\* clients and the daemons they start refuse each other the lock.
WaiterHasDaemon ==
    \A c \in Clients : pc[c] = "connecting" =>
        \/ ended
        \/ port # None
        \/ \E d \in Daemons : pc[d] = "up"
        \/ \E q \in Clients : WillStart(q)

\* A window that waits for a daemon gets its connection, if none has ended.
WaiterConnects ==
    \A c \in Clients \ UrlClients :
        pc[c] = "connecting" ~> pc[c] # "connecting" \/ ended

\* "kills the server after the last active connection is gone": no daemon keeps
\* the port for ever once every client is gone.
IdleDaemonEnds ==
    (\A c \in Clients : pc[c] = "gone") ~> [](port = None)
=============================================================================
