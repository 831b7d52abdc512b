---------------------------- MODULE DaemonProofs ----------------------------
(***************************************************************************)
(* Theorems about Daemon, and so about SingleInstance, for any finite      *)
(* number of clients and daemons.                                          *)
(***************************************************************************)
EXTENDS Daemon, FunctionTheorems, FiniteSetTheorems, TLAPS

-----------------------------------------------------------------------------
(***************************************************************************)
(* The inductive invariant.  The parts about the lock say that it is held  *)
(* by a process that has not released it; LockPhases ties the progress of  *)
(* a process in SingleInstance to what it does with it.                    *)
(***************************************************************************)
TypeOK ==
    /\ path \in Files \cup {None}
    /\ holder \in [Files -> Procs \cup {None}]
    /\ fd \in [Procs -> Files \cup {None}]
    /\ at \in [Procs -> Points]
    /\ pc \in [Procs -> ClientPcs \cup DaemonPcs]
    /\ port \in Daemons \cup {None}
    /\ ended \in BOOLEAN

\* Who holds the lock of a file is past lockf and has not released it.
HoldersHold == \A f \in Files : holder[f] # None => at[holder[f]] = "held"

OpenedIsFile == \A p \in Procs : at[p] = "opened" => fd[p] \in Files

\* Who believes to hold the lock has locked the file it opened.
HeldIsLocked == \A p \in Procs : at[p] = "held" => fd[p] \in Files /\ holder[fd[p]] = p

ClientPhase(c) ==
    \/ pc[c] = "start"
    \/ pc[c] \in {"connecting", "accepted", "connected"} /\ at[c] \in {"refused", "released"}
    \/ pc[c] = "gone" /\ at[c] \in {"none", "refused", "released"}

\* A daemon that serves holds the lock and the port, and one that exits without
\* having served found the port taken.
DaemonPhase(d) ==
    \/ pc[d] = "off" /\ at[d] = "none"
    \/ pc[d] = "up" /\ at[d] \in {"none", "opened", "held", "refused"}
    \/ pc[d] \in {"serving", "closing"} /\ at[d] = "held" /\ port = d
    \/ pc[d] = "exiting" /\ (ended \/ port # None)
    \/ pc[d] = "dead" /\ at[d] \in {"none", "refused", "released"}

LockPhases == (\A c \in Clients : ClientPhase(c)) /\ (\A d \in Daemons : DaemonPhase(d))

\* There is a daemon, or somebody who will not be refused the lock any more
\* before there is one.
WillServe(d) == pc[d] = "up" /\ at[d] # "refused"

Hope ==
    \/ port # None
    \/ \E d \in Daemons : WillServe(d)
    \/ \E c \in Clients : WillStart(c)

\* Whoever was refused the lock, or went on to connect, was right to hope.
HopeLasts ==
    (\E c \in Clients : pc[c] = "connecting") \/ (\E p \in Procs : at[p] = "refused")
    => ended \/ Hope

LockInv == TypeOK /\ HoldersHold /\ OpenedIsFile /\ HeldIsLocked /\ LockPhases
DaemonInv == LockInv /\ HopeLasts

LEMMA InitDaemonInv == Init => DaemonInv
  BY LockAssumption, DaemonAssumption
  DEF Init, LockInit, DaemonInv, LockInv, TypeOK, HoldersHold, OpenedIsFile, HeldIsLocked, LockPhases,
      ClientPhase, DaemonPhase, HopeLasts, Points, ClientPcs, DaemonPcs

-----------------------------------------------------------------------------
(***************************************************************************)
(* The lock file.                                                          *)
(***************************************************************************)
\* There is always a file to create: each process has at most one open.
LEMMA FreshFile == TypeOK /\ path = None => Fresh # {}
  <1> SUFFICES ASSUME TypeOK, path = None, Fresh = {} PROVE FALSE
    OBVIOUS
  <1> DEFINE g == [f \in Files |-> CHOOSE p \in Procs : fd[p] = f]
  <1>1. \A f \in Files : g[f] \in Procs /\ fd[g[f]] = f
    BY LockAssumption DEF Fresh
  <1>2. g \in Injection(Files, Procs)
    BY <1>1, Fun_IsInj
  <1>3. IsFiniteSet(Files) /\ Cardinality(Files) <= Cardinality(Procs)
    BY <1>2, FS_Injection, LockAssumption
  <1>4. Cardinality(Files) \in Nat /\ Cardinality(Procs) \in Nat
    BY <1>3, FS_CardinalityType, LockAssumption
  <1> QED BY <1>3, <1>4, LockAssumption

\* A lock is held by somebody who brings a daemon about, if nothing has ended.
LEMMA HolderIsHope ==
    ASSUME LockInv, NEW f \in Files, holder[f] # None, ~ended
    PROVE  \/ port # None
           \/ \E d \in Daemons : pc[d] = "up" /\ at[d] = "held"
           \/ \E c \in Clients : pc[c] = "start" /\ at[c] = "held"
  <1>1. PICK p \in Procs : p = holder[f] /\ at[p] = "held"
    BY DEF LockInv, TypeOK, HoldersHold
  <1>2. CASE p \in Clients
    BY <1>1, <1>2 DEF LockInv, LockPhases, ClientPhase
  <1>3. CASE p \in Daemons
    BY <1>1, <1>3, LockAssumption, DaemonAssumption DEF LockInv, LockPhases, DaemonPhase
  <1> QED BY <1>1, <1>2, <1>3, DaemonAssumption

-----------------------------------------------------------------------------
(***************************************************************************)
(* The steps of SingleInstance.                                            *)
(***************************************************************************)
\* The invariant when only one process moves, to another point of the lock, and
\* the program of every process stays where it is.
LEMMA LockStepPhases ==
    ASSUME LockInv, NEW p \in Procs, NEW point \in Points, At(p, point),
           UNCHANGED <<pc, port, ended>>,
           p \in Clients => pc[p] = "start",
           p \in Daemons => \/ pc[p] = "up" /\ point \in {"none", "opened", "held", "refused"}
                            \/ pc[p] = "exiting"
    PROVE  LockPhases' /\ at' \in [Procs -> Points]
  <1>1. at' \in [Procs -> Points] /\ at'[p] = point /\ \A q \in Procs \ {p} : at'[q] = at[q]
    BY DEF At, LockInv, TypeOK
  <1>2. ASSUME NEW c \in Clients PROVE ClientPhase(c)'
    BY <1>1, DaemonAssumption DEF ClientPhase, LockInv, LockPhases
  <1>3. ASSUME NEW d \in Daemons PROVE DaemonPhase(d)'
    BY <1>1, DaemonAssumption DEF DaemonPhase, LockInv, LockPhases
  <1> QED BY <1>1, <1>2, <1>3 DEF LockPhases

LEMMA AcquireKeepsInv ==
    ASSUME DaemonInv, NEW p \in Procs, Acquire(p) PROVE DaemonInv'
  <1> USE DEF Acquire, DaemonInv, LockInv, daemonVars
  <1>p. /\ p \in Clients => pc[p] = "start"
        /\ p \in Daemons => pc[p] = "up"
    BY DaemonAssumption DEF LockPhases, ClientPhase, DaemonPhase
  <1>1. CASE Open(p)
    <2>1. path' \in Files
      BY <1>1, FreshFile DEF Open, TypeOK, Fresh
    <2>2. LockPhases' /\ at' \in [Procs -> Points]
      BY <1>1, <1>p, LockStepPhases DEF Open, Points
    <2>3. TypeOK'
      BY <1>1, <2>1, <2>2 DEF Open, TypeOK
    <2>4. at'[p] = "opened" /\ fd'[p] \in Files
          /\ \A q \in Procs \ {p} : at'[q] = at[q] /\ fd'[q] = fd[q]
      BY <1>1, <2>1 DEF Open, At, TypeOK
    <2>5. HoldersHold' /\ OpenedIsFile' /\ HeldIsLocked'
      BY <1>1, <2>4 DEF Open, HoldersHold, OpenedIsFile, HeldIsLocked, TypeOK
    <2>6. Hope => Hope'
      BY <1>1, <2>4, DaemonAssumption DEF Open, Hope, WillServe, WillStart
    <2>7. HopeLasts'
      BY <1>1, <2>4, <2>6 DEF HopeLasts
    <2> QED BY <2>2, <2>3, <2>5, <2>7
  <1>2. CASE Lock(p) /\ holder[fd[p]] = None
    <2>1. /\ fd[p] \in Files /\ holder' = [holder EXCEPT ![fd[p]] = p] /\ At(p, "held")
          /\ at[p] = "opened"
      BY <1>2 DEF Lock, OpenedIsFile
    <2>2. LockPhases' /\ at' \in [Procs -> Points]
      BY <1>2, <1>p, <2>1, LockStepPhases DEF Points
    <2>3. at'[p] = "held" /\ \A q \in Procs \ {p} : at'[q] = at[q]
      BY <2>1 DEF At, TypeOK
    <2>f. /\ holder'[fd[p]] = p /\ \A f \in Files \ {fd[p]} : holder'[f] = holder[f]
          /\ holder' \in [Files -> Procs \cup {None}] /\ fd' = fd
      BY <1>2, <2>1 DEF Lock, TypeOK
    <2>4. TypeOK' /\ HoldersHold' /\ OpenedIsFile' /\ HeldIsLocked'
      <3>1. TypeOK'
        BY <1>2, <2>2, <2>f DEF Lock, TypeOK
      <3>2. HoldersHold' /\ OpenedIsFile'
        BY <2>3, <2>f, LockAssumption DEF TypeOK, HoldersHold, OpenedIsFile
      <3>3. HeldIsLocked'
        BY <1>2, <2>1, <2>3, <2>f, LockAssumption DEF HeldIsLocked
      <3> QED BY <3>1, <3>2, <3>3
    <2>5. Hope => Hope'
      BY <1>2, <2>3, DaemonAssumption DEF Hope, WillServe, WillStart
    <2>6. HopeLasts'
      BY <1>2, <2>3, <2>5 DEF HopeLasts
    <2> QED BY <2>2, <2>4, <2>6
  <1>3. CASE Lock(p) /\ holder[fd[p]] # None
    <2>1. /\ fd[p] \in Files /\ At(p, "refused") /\ CloseFile(p) /\ UNCHANGED <<holder, path>>
          /\ at[p] = "opened"
      BY <1>3 DEF Lock, OpenedIsFile
    <2>2. LockPhases' /\ at' \in [Procs -> Points]
      BY <1>3, <1>p, <2>1, LockStepPhases DEF Points
    <2>3. at'[p] = "refused" /\ \A q \in Procs \ {p} : at'[q] = at[q] /\ fd'[q] = fd[q]
      BY <2>1 DEF At, CloseFile, TypeOK
    <2>4. TypeOK' /\ HoldersHold' /\ OpenedIsFile' /\ HeldIsLocked'
      BY <1>3, <2>1, <2>2, <2>3 DEF CloseFile, TypeOK, HoldersHold, OpenedIsFile, HeldIsLocked
    <2>5. ended \/ Hope'
      <3>1. ended \/ \/ port # None
                     \/ \E d \in Daemons : pc[d] = "up" /\ at[d] = "held"
                     \/ \E c \in Clients : pc[c] = "start" /\ at[c] = "held"
        BY <1>3, <2>1, HolderIsHope
      <3> QED BY <1>3, <2>1, <2>3, <3>1, DaemonAssumption DEF Hope, WillServe, WillStart
    <2>6. HopeLasts'
      BY <1>3, <2>5 DEF HopeLasts
    <2> QED BY <2>2, <2>4, <2>6
  <1> QED BY <1>1, <1>2, <1>3 DEF Lock

LEMMA ReleaseKeepsInv ==
    ASSUME DaemonInv, NEW p \in Procs, Release(p) PROVE DaemonInv'
  <1> USE DEF Release, DaemonInv, LockInv, daemonVars
  <1>p. /\ p \in Clients => pc[p] = "start"
        /\ p \in Daemons => pc[p] = "exiting"
    BY DaemonAssumption DEF LockPhases, ClientPhase, DaemonPhase
  <1>1. PICK point \in {"unlocked", "unlinking", "released"} : At(p, point)
    BY DEF Unlock, CheckFile, Unlink
  <1>2. LockPhases' /\ at' \in [Procs -> Points]
    BY <1>1, <1>p, LockStepPhases DEF Points
  <1>3. at'[p] = point /\ \A q \in Procs \ {p} : at'[q] = at[q]
    BY <1>1 DEF At, TypeOK
  <1>4. /\ path' \in {path, None} /\ fd' \in {fd, [fd EXCEPT ![p] = None]}
        /\ at[p] \in {"held", "unlocked", "unlinking"}
        /\ \/ at[p] # "held" /\ holder' = holder
           \/ holder' = [f \in Files |-> IF holder[f] = p THEN None ELSE holder[f]]
    BY DEF Unlock, CheckFile, Unlink, FreeLocks, CloseFile
  <1>5. TypeOK'
    BY <1>2, <1>4 DEF TypeOK
  <1>6. HoldersHold'
    BY <1>3, <1>4 DEF HoldersHold, TypeOK
  <1>7. OpenedIsFile' /\ HeldIsLocked'
    BY <1>3, <1>4 DEF OpenedIsFile, HeldIsLocked, TypeOK
  <1>8. Hope => Hope'
    BY <1>3, <1>4, <1>p, DaemonAssumption DEF Hope, WillServe, WillStart
  <1>9. HopeLasts'
    BY <1>3, <1>8 DEF HopeLasts
  <1> QED BY <1>2, <1>5, <1>6, <1>7, <1>9

-----------------------------------------------------------------------------
(***************************************************************************)
(* The steps of clients and daemons.                                       *)
(***************************************************************************)
\* A step that leaves the lock file alone keeps what the lock is about.
LEMMA LockFileStays ==
    ASSUME LockInv, UNCHANGED lockVars, pc' \in [Procs -> ClientPcs \cup DaemonPcs],
           port' \in Daemons \cup {None}, ended' \in BOOLEAN, LockPhases'
    PROVE  LockInv'
  BY DEF LockInv, lockVars, TypeOK, HoldersHold, OpenedIsFile, HeldIsLocked

\* A client moves on, and no daemon does.
LEMMA ClientMoves ==
    ASSUME DaemonInv, NEW c \in Clients, NEW q \in ClientPcs, Goto(c, q),
           UNCHANGED <<lockVars, port, ended>>,
           \/ q = "gone" /\ at[c] \in {"none", "refused", "released"}
           \/ q \in {"connecting", "accepted", "connected"} /\ at[c] \in {"refused", "released"},
           ~WillStart(c),
           q = "connecting" => at[c] = "refused"
    PROVE  DaemonInv'
  <1> USE DEF DaemonInv
  <1>1. pc' = [pc EXCEPT ![c] = q] /\ pc \in [Procs -> ClientPcs \cup DaemonPcs] /\ c \in Procs
    BY DaemonAssumption DEF Goto, LockInv, TypeOK
  <1>2. pc'[c] = q /\ \A p \in Procs \ {c} : pc'[p] = pc[p]
    BY <1>1
  <1>3. LockPhases'
    <2>1. ASSUME NEW k \in Clients PROVE ClientPhase(k)'
      BY <1>1, <1>2, DaemonAssumption DEF LockInv, LockPhases, ClientPhase, lockVars
    <2>2. ASSUME NEW d \in Daemons PROVE DaemonPhase(d)'
      BY <1>1, <1>2, DaemonAssumption DEF LockInv, LockPhases, DaemonPhase, lockVars
    <2> QED BY <2>1, <2>2 DEF LockPhases
  <1>4. LockInv'
    BY <1>1, <1>3, LockFileStays DEF LockInv, TypeOK
  <1>5. Hope => Hope'
    BY <1>2, DaemonAssumption DEF Hope, WillServe, WillStart, lockVars
  <1>6. HopeLasts'
    BY <1>1, <1>2, <1>5, DaemonAssumption DEF HopeLasts, lockVars
  <1> QED BY <1>4, <1>6

LEMMA StutterKeepsInv == DaemonInv /\ UNCHANGED <<lockVars, pc, port, ended>> => DaemonInv'
  BY DEF DaemonInv, LockInv, TypeOK, HoldersHold, OpenedIsFile, HeldIsLocked, LockPhases, ClientPhase,
     DaemonPhase, HopeLasts, Hope, WillServe, WillStart, lockVars

LEMMA ClientKeepsInv ==
    ASSUME DaemonInv, NEW c \in Clients, ClientStep(c) \/ Disconnect(c) PROVE DaemonInv'
  <1>p. ClientPhase(c) /\ c \in Procs
    BY DaemonAssumption DEF DaemonInv, LockInv, LockPhases
  <1>1. CASE FindDaemon(c)
    BY <1>1, ClientMoves DEF FindDaemon, WillStart, ClientPcs, daemonVars
  <1>2. CASE RunDaemonProcess(c)
    <2>1. PICK d \in Daemons : pc[d] = "off" /\ pc' = [pc EXCEPT ![c] = "connecting", ![d] = "up"]
      BY <1>2 DEF RunDaemonProcess
    <2>2. /\ pc'[c] = "connecting" /\ pc'[d] = "up" /\ \A p \in Procs \ {c, d} : pc'[p] = pc[p]
          /\ pc' \in [Procs -> ClientPcs \cup DaemonPcs] /\ at[c] = "released"
          /\ UNCHANGED <<lockVars, port, ended>> /\ c # d
      BY <1>2, <1>p, <2>1, DaemonAssumption
      DEF RunDaemonProcess, DaemonInv, LockInv, TypeOK, ClientPcs, DaemonPcs, daemonVars
    <2>3. at[d] = "none"
      BY <2>1 DEF DaemonInv, LockInv, LockPhases, DaemonPhase
    <2>4. LockPhases'
      <3>1. ASSUME NEW k \in Clients PROVE ClientPhase(k)'
        BY <2>2, DaemonAssumption DEF DaemonInv, LockInv, LockPhases, ClientPhase, lockVars
      <3>2. ASSUME NEW k \in Daemons PROVE DaemonPhase(k)'
        BY <2>2, <2>3, DaemonAssumption DEF DaemonInv, LockInv, LockPhases, DaemonPhase, lockVars
      <3> QED BY <3>1, <3>2 DEF LockPhases
    <2>5. LockInv'
      BY <2>2, <2>4, LockFileStays DEF DaemonInv, LockInv, TypeOK
    <2>6. Hope'
      BY <2>2, <2>3 DEF Hope, WillServe, lockVars
    <2> QED BY <2>5, <2>6 DEF DaemonInv, HopeLasts
  <1>3. CASE Connect(c)
    BY <1>3, <1>p, ClientMoves DEF Connect, WillStart, ClientPcs, daemonVars, ClientPhase
  <1>4. CASE ConnectionRefused(c)
    BY <1>4, <1>p, ClientMoves DEF ConnectionRefused, WillStart, ClientPcs, daemonVars, ClientPhase
  <1>5. CASE OnConnect(c)
    BY <1>5, <1>p, ClientMoves DEF OnConnect, WillStart, ClientPcs, ClientPhase
  <1>6. CASE OnDisconnect(c)
    BY <1>6, StutterKeepsInv DEF OnDisconnect
  <1>7. CASE Disconnect(c)
    BY <1>7, <1>p, ClientMoves DEF Disconnect, WillStart, ClientPcs, daemonVars, ClientPhase
  <1> QED BY <1>1, <1>2, <1>3, <1>4, <1>5, <1>6, <1>7 DEF ClientStep

\* One daemon moves on; no client does.
LEMMA DaemonMoves ==
    ASSUME DaemonInv, NEW d \in Daemons, NEW q \in DaemonPcs, Goto(d, q),
           UNCHANGED <<lockVars, ended>>,
           port' = port \/ (port = None /\ port' = d),
           \/ q \in {"serving", "closing"} /\ at[d] = "held" /\ port' = d
           \/ q = "exiting" /\ port # None
           \/ q = "dead" /\ at[d] \in {"none", "refused", "released"},
           WillServe(d) => port' # None
    PROVE  DaemonInv'
  <1> USE DEF DaemonInv
  <1>1. pc' = [pc EXCEPT ![d] = q] /\ pc \in [Procs -> ClientPcs \cup DaemonPcs] /\ d \in Procs
    BY DaemonAssumption DEF Goto, LockInv, TypeOK
  <1>2. pc'[d] = q /\ \A p \in Procs \ {d} : pc'[p] = pc[p]
    BY <1>1
  <1>3. LockPhases'
    <2>1. ASSUME NEW k \in Clients PROVE ClientPhase(k)'
      BY <1>1, <1>2, DaemonAssumption DEF LockInv, LockPhases, ClientPhase, lockVars
    <2>2. ASSUME NEW k \in Daemons PROVE DaemonPhase(k)'
      <3>1. CASE k = d
        BY <1>2, <3>1, LockAssumption, DaemonAssumption DEF DaemonPhase, lockVars
      <3>2. CASE k # d
        BY <1>1, <1>2, <3>2, LockAssumption, DaemonAssumption
        DEF LockInv, LockPhases, DaemonPhase, lockVars
      <3> QED BY <3>1, <3>2
    <2> QED BY <2>1, <2>2 DEF LockPhases
  <1>4. LockInv'
    BY <1>1, <1>3, LockFileStays DEF LockInv, TypeOK
  <1>5. Hope => Hope'
    BY <1>2, LockAssumption, DaemonAssumption DEF Hope, WillServe, WillStart, lockVars
  <1>6. HopeLasts'
    BY <1>1, <1>2, <1>5, DaemonAssumption DEF HopeLasts, lockVars
  <1> QED BY <1>4, <1>6

\* The listener, or a process, ends: from then on nothing is promised.
LEMMA EndingKeepsInv ==
    ASSUME DaemonInv, LockInv', ended' PROVE DaemonInv'
  BY DEF DaemonInv, HopeLasts

\* What ServerEnds leaves of the programs of the processes.
LEMMA AfterServerEnds ==
    ASSUME LockInv, NEW d \in Daemons, NEW q \in DaemonPcs, ServerEnds(d, q), port = d
    PROVE  /\ pc' \in [Procs -> ClientPcs \cup DaemonPcs] /\ port' = None
           /\ pc'[d] = q
           /\ \A k \in Daemons \ {d} : pc'[k] = pc[k] /\ pc[k] \notin {"serving", "closing"}
           /\ \A c \in Clients : \/ pc'[c] = pc[c]
                                 \/ pc'[c] = "gone" /\ at[c] \in {"refused", "released"}
  <1>1. /\ pc' = [p \in Procs |-> IF p = d THEN q ELSE IF HasConnection(p) THEN "gone" ELSE pc[p]]
        /\ port' = None
    BY DEF ServerEnds
  <1>2. \A k \in Daemons \ {d} : ~HasConnection(k) /\ pc[k] \notin {"serving", "closing"}
    BY DEF LockInv, LockPhases, DaemonPhase, HasConnection
  <1>3. \A c \in Clients : HasConnection(c) => at[c] \in {"refused", "released"}
    BY DEF LockInv, LockPhases, ClientPhase, HasConnection
  <1> QED BY <1>1, <1>2, <1>3, DaemonAssumption DEF LockInv, TypeOK, ClientPcs

LEMMA DaemonKeepsInv ==
    ASSUME DaemonInv, NEW d \in Daemons, DaemonStep(d) PROVE DaemonInv'
  <1>p. DaemonPhase(d) /\ d \in Procs /\ d # None
    BY LockAssumption, DaemonAssumption DEF DaemonInv, LockInv, LockPhases
  <1>1. CASE GiveUp(d)
    BY <1>1, DaemonMoves DEF GiveUp, DaemonPcs, WillServe, daemonVars
  <1>2. CASE StartServer(d)
    <2>1. CASE port = None
      BY <1>2, <1>p, <2>1, DaemonMoves DEF StartServer, DaemonPcs, daemonVars
    <2>2. CASE port # None
      BY <1>2, <1>p, <2>2, DaemonMoves DEF StartServer, DaemonPcs, daemonVars
    <2> QED BY <2>1, <2>2
  <1>3. CASE Poll(d)
    <2>1. CASE pc' = pc
      BY <1>3, <2>1, StutterKeepsInv DEF Poll
    <2>2. CASE Goto(d, "closing")
      BY <1>3, <1>p, <2>2, DaemonMoves DEF Poll, DaemonPcs, DaemonPhase, WillServe
    <2> QED BY <1>3, <2>1, <2>2 DEF Poll
  <1>4. CASE CloseServer(d)
    <2>1. port = d /\ ServerEnds(d, "exiting") /\ ended' = TRUE /\ UNCHANGED lockVars
      BY <1>4, <1>p DEF CloseServer, DaemonPhase
    <2>2. /\ pc' \in [Procs -> ClientPcs \cup DaemonPcs] /\ port' = None /\ pc'[d] = "exiting"
          /\ \A k \in Daemons \ {d} : pc'[k] = pc[k] /\ pc[k] \notin {"serving", "closing"}
          /\ \A c \in Clients : \/ pc'[c] = pc[c]
                                \/ pc'[c] = "gone" /\ at[c] \in {"refused", "released"}
      BY <2>1, AfterServerEnds DEF DaemonInv, DaemonPcs
    <2>3. LockPhases'
      <3>1. ASSUME NEW c \in Clients PROVE ClientPhase(c)'
        BY <2>1, <2>2 DEF DaemonInv, LockInv, LockPhases, ClientPhase, lockVars
      <3>2. ASSUME NEW k \in Daemons PROVE DaemonPhase(k)'
        BY <2>1, <2>2 DEF DaemonInv, LockInv, LockPhases, DaemonPhase, lockVars
      <3> QED BY <3>1, <3>2 DEF LockPhases
    <2>4. LockInv'
      BY <2>1, <2>2, <2>3, LockFileStays DEF DaemonInv
    <2> QED BY <2>1, <2>4, EndingKeepsInv
  <1>5. CASE ExitDaemon(d) /\ at[d] = "released"
    BY <1>5, <1>p, DaemonMoves DEF ExitDaemon, DaemonPcs, WillServe, daemonVars
  <1>6. CASE ExitDaemon(d) /\ at[d] # "released"
    <2>1. /\ pc[d] = "exiting" /\ LockDies(d) /\ Goto(d, "dead")
          /\ UNCHANGED <<port, ended>> /\ (ended \/ port # None)
      BY <1>6, <1>p DEF ExitDaemon, daemonVars, DaemonPhase
    <2> USE DEF DaemonInv, LockInv
    <2>2. /\ pc' \in [Procs -> ClientPcs \cup DaemonPcs] /\ pc'[d] = "dead"
          /\ at'[d] = "none" /\ at' \in [Procs -> Points]
          /\ \A q \in Procs \ {d} : pc'[q] = pc[q] /\ at'[q] = at[q]
      BY <1>p, <2>1 DEF TypeOK, LockDies, At, Goto, Points, DaemonPcs
    <2>3. TypeOK' /\ HoldersHold' /\ OpenedIsFile' /\ HeldIsLocked'
      BY <2>1, <2>2 DEF TypeOK, LockDies, FreeLocks, CloseFile, HoldersHold, OpenedIsFile, HeldIsLocked
    <2>4. LockPhases'
      <3>1. ASSUME NEW c \in Clients PROVE ClientPhase(c)'
        BY <2>1, <2>2, DaemonAssumption DEF LockPhases, ClientPhase
      <3>2. ASSUME NEW k \in Daemons PROVE DaemonPhase(k)'
        BY <2>1, <2>2, DaemonAssumption DEF LockPhases, DaemonPhase
      <3> QED BY <3>1, <3>2 DEF LockPhases
    <2>5. HopeLasts'
      BY <2>1 DEF HopeLasts, Hope
    <2> QED BY <2>3, <2>4, <2>5
  <1> QED BY <1>1, <1>2, <1>3, <1>4, <1>5, <1>6 DEF DaemonStep

LEMMA KilledKeepsInv ==
    ASSUME DaemonInv, NEW p \in Procs, Killed(p) PROVE DaemonInv'
  <1> USE DEF DaemonInv, LockInv
  <1>1. /\ at' \in [Procs -> Points] /\ at'[p] = "none" /\ \A q \in Procs \ {p} : at'[q] = at[q]
        /\ ended' = TRUE /\ LockDies(p)
    BY DEF Killed, LockDies, At, TypeOK, Points
  <1>2. /\ pc' \in [Procs -> ClientPcs \cup DaemonPcs] /\ port' \in {port, None}
        /\ pc'[p] = IF p \in Daemons THEN "dead" ELSE "gone"
        /\ \A k \in Daemons \ {p} : /\ pc'[k] = pc[k]
                                    /\ port' # port => pc[k] \notin {"serving", "closing"}
        /\ \A c \in Clients \ {p} : \/ pc'[c] = pc[c]
                                    \/ pc'[c] = "gone" /\ at[c] \in {"refused", "released"}
    <2>1. CASE port = p
      <3>1. ServerEnds(p, "dead") /\ p \in Daemons
        BY <2>1, LockAssumption DEF Killed, TypeOK
      <3> QED BY <2>1, <3>1, AfterServerEnds DEF DaemonPcs
    <2>2. CASE port # p
      <3>1. Goto(p, IF p \in Daemons THEN "dead" ELSE "gone") /\ port' = port
        BY <2>2 DEF Killed
      <3> QED BY <3>1, DaemonAssumption DEF Goto, TypeOK, ClientPcs, DaemonPcs
    <2> QED BY <2>1, <2>2
  <1>3. TypeOK'
    BY <1>1, <1>2 DEF TypeOK, LockDies, FreeLocks, CloseFile
  <1>5. HoldersHold' /\ OpenedIsFile' /\ HeldIsLocked'
    BY <1>1 DEF TypeOK, LockDies, FreeLocks, CloseFile, HoldersHold, OpenedIsFile, HeldIsLocked
  <1>4. LockPhases'
    <2>1. ASSUME NEW c \in Clients PROVE ClientPhase(c)'
      BY <1>1, <1>2, DaemonAssumption DEF LockPhases, ClientPhase
    <2>2. ASSUME NEW k \in Daemons PROVE DaemonPhase(k)'
      BY <1>1, <1>2, DaemonAssumption DEF LockPhases, DaemonPhase
    <2> QED BY <2>1, <2>2 DEF LockPhases
  <1> QED BY <1>1, <1>3, <1>4, <1>5, EndingKeepsInv

LEMMA NextKeepsInv == DaemonInv /\ [Next]_vars => DaemonInv'
  <1>1. DaemonInv /\ UNCHANGED vars => DaemonInv'
    BY StutterKeepsInv DEF vars, daemonVars
  <1> QED BY <1>1, AcquireKeepsInv, ReleaseKeepsInv, KilledKeepsInv, ClientKeepsInv,
             DaemonKeepsInv DEF Next

LEMMA SpecDaemonInv == Spec => []DaemonInv
  BY InitDaemonInv, NextKeepsInv, PTL DEF Spec

\* However many windows start at once, and however their probes of the lock
\* refuse each other and the daemons they start: a window that tries to connect
\* has a daemon to wait for, until one has ended.
THEOREM WaiterAlwaysHasDaemon == Spec => []WaiterHasDaemon
  <1>1. DaemonInv => WaiterHasDaemon
    BY DEF DaemonInv, HopeLasts, Hope, WillServe, WaiterHasDaemon
  <1> QED BY SpecDaemonInv, <1>1, PTL

\* A file is locked by one process at a time, and each process that has an
\* instance has locked the file it opened: two instances on one machine are
\* always on two files, so the path no longer names one of them.
THEOREM LockIsExclusive ==
    Spec => [](\A p, q \in Procs :
        at[p] = "held" /\ at[q] = "held" /\ p # q => fd[p] # fd[q])
  <1>1. DaemonInv => \A p, q \in Procs :
            at[p] = "held" /\ at[q] = "held" /\ p # q => fd[p] # fd[q]
    BY DEF DaemonInv, LockInv, HeldIsLocked
  <1> QED BY SpecDaemonInv, <1>1, PTL
=============================================================================
