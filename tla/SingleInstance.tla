--------------------------- MODULE SingleInstance ---------------------------
(***************************************************************************)
(* The lock file of logic/singleton.py on POSIX, taken and released by     *)
(* several processes.  A lock belongs to the file a process has open, not  *)
(* to the path: once the file is unlinked, the next process that opens the *)
(* path creates another one.  The system calls of __init__ and __del__ are *)
(* steps of their own.                                                     *)
(***************************************************************************)
EXTENDS Naturals, FiniteSets

CONSTANTS
    Procs,   \* processes
    Files,   \* files that may exist at once
    None     \* no file, no process

\* Each process has at most one file open, so that there is always a fresh one.
ASSUME LockAssumption ==
    /\ None \notin Procs \cup Files
    /\ IsFiniteSet(Procs)
    /\ Cardinality(Files) > Cardinality(Procs)

VARIABLES
    path,    \* the file the path of the lock file names
    holder,  \* the process that has locked each file
    fd,      \* the file each process has open
    at       \* how far each process is in __init__ and __del__

lockVars == <<path, holder, fd, at>>

Points == {"none", "opened", "held", "refused", "unlocked", "unlinking", "released"}

LockInit ==
    /\ path = None
    /\ holder = [f \in Files |-> None]
    /\ fd = [p \in Procs |-> None]
    /\ at = [p \in Procs |-> "none"]

\* The files that do not exist: the path does not name them, nobody has them open.
Fresh == {f \in Files : f # path /\ \A p \in Procs : fd[p] # f}

At(p, point) == at' = [at EXCEPT ![p] = point]
CloseFile(p) == fd' = [fd EXCEPT ![p] = None]
FreeLocks(p) == holder' = [f \in Files |-> IF holder[f] = p THEN None ELSE holder[f]]

\* open(lockfile, "w") opens the file or creates it.
Open(p) ==
    /\ at[p] = "none"
    /\ path' = IF path = None THEN CHOOSE f \in Fresh : TRUE ELSE path
    /\ fd' = [fd EXCEPT ![p] = path']
    /\ At(p, "opened")
    /\ UNCHANGED holder

\* lockf(LOCK_EX | LOCK_NB).
\* IF   nobody has locked the file that was opened
\* THEN the process holds the lock
\* ELSE SingleInstanceException.
Lock(p) ==
    /\ at[p] = "opened"
    /\ \/ /\ holder[fd[p]] = None
          /\ holder' = [holder EXCEPT ![fd[p]] = p]
          /\ At(p, "held")
          /\ UNCHANGED fd
       \/ /\ holder[fd[p]] # None
          /\ At(p, "refused")
          /\ CloseFile(p)
          /\ UNCHANGED holder
    /\ UNCHANGED path

\* lockf(LOCK_UN).
Unlock(p) ==
    /\ at[p] = "held"
    /\ FreeLocks(p)
    /\ At(p, "unlocked")
    /\ UNCHANGED <<path, fd>>

\* os.path.isfile(lockfile).
CheckFile(p) ==
    /\ at[p] = "unlocked"
    /\ \/ path # None /\ At(p, "unlinking") /\ UNCHANGED fd
       \/ path = None /\ At(p, "released") /\ CloseFile(p)
    /\ UNCHANGED <<path, holder>>

\* os.unlink(lockfile), whichever file the path names by now.
Unlink(p) ==
    /\ at[p] = "unlinking"
    /\ path' = None
    /\ At(p, "released")
    /\ CloseFile(p)
    /\ UNCHANGED holder

\* The process ends: the system closes its file and drops its lock.
LockDies(p) ==
    /\ FreeLocks(p)
    /\ CloseFile(p)
    /\ At(p, "none")
    /\ UNCHANGED path

-----------------------------------------------------------------------------
\* "Class that can be instantiated only once per machine": two processes never
\* both have a SingleInstance.
InstantiatedOnce == Cardinality({p \in Procs : at[p] = "held"}) <= 1
=============================================================================
