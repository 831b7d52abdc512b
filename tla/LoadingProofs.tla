--------------------------- MODULE LoadingProofs ---------------------------
(***************************************************************************)
(* Theorems about Loading, for any set of files and any number of jobs, and *)
(* about FeatureMap, the strip that the CFG job fills.                      *)
(***************************************************************************)
EXTENDS Loading, FeatureMap, SequenceTheorems, FiniteSetTheorems, WellFoundedInduction,
        TLAPS

-----------------------------------------------------------------------------
(***************************************************************************)
(* The inductive invariant.  ResultsOfProject needs the results still on   *)
(* their way, in the running job and in the queued events, to be of the    *)
(* current project; SettledIsFinal needs to know what will replace a       *)
(* temporary result.                                                       *)
(***************************************************************************)
Owners    == Projects \cup {NoProject}
Results   == [of : Owners, temp : BOOLEAN, job : Nat]
States    == {"PENDING", "RUNNING", "CANCELLED", "FINISHED", "FAILED"}
JobKinds  == {"binary", "database", "cfg"}
JobRecs   == [kind : JobKinds, file : Owners, state : States]
EventKinds == {"starting", "finished", "exception", "callback", "peek", "analyse"}
Events    == [kind : EventKinds, job : Nat, cfg : Results, cfb : Results]
RunPcs    == {"binary", "waiting", "built", "database", "cfg", "begin", "recover"}
Instances == [project : Owners, cfg : Results, cfb : Results, vars : Owners]

IsJob(j) == j \in 1 .. Len(jobs)

TypeOK ==
    /\ inst \in Instances
    /\ jobs \in Seq(JobRecs)
    /\ work \in Seq(Nat) /\ \A i \in 1 .. Len(work) : IsJob(work[i])
    /\ active \in Nat /\ pc \in RunPcs \cup {"idle"}
    /\ made \in [cfb : Owners, cfg : Owners]
    /\ signals \in Seq(Events)
    /\ \A i \in 1 .. Len(signals) : signals[i].kind # "analyse" => IsJob(signals[i].job)
    /\ dialogs \in Nat
    /\ watchers \subseteq Nat /\ overtaken \subseteq Nat

\* The worker is inside run() exactly while it has a job, at a point of that kind
\* of job.
RunsJob ==
    /\ pc = "idle" <=> active = 0
    /\ active # 0 => IsJob(active)
    /\ pc \in {"binary", "waiting", "built"} => jobs[active].kind = "binary"
    /\ pc = "database" => jobs[active].kind = "database"
    /\ pc \in {"cfg", "begin", "recover"} => jobs[active].kind = "cfg"

\* The worker that asked the GUI thread for the new project waits for it, so
\* nothing comes behind its call.
CallbackIsLast ==
    \A i \in 1 .. Len(signals) : signals[i].kind = "callback" =>
        i = Len(signals) /\ pc = "waiting" /\ signals[i].job = active

\* A result of job j is of project p.
Current(p, j) == p = inst.project \/ j \in overtaken
Made(r, j) == r.job = j /\ Current(r.of, j)

\* The results an event carries: those of a CFG job are of the current project,
\* unless it was overtaken; those of a database are of its own file.
EventOK(e) ==
    /\ e.kind = "peek" =>
           jobs[e.job].kind = "cfg" /\ Made(e.cfg, e.job) /\ Made(e.cfb, e.job)
    /\ e.kind = "finished" /\ jobs[e.job].kind = "cfg" =>
           Made(e.cfg, e.job) /\ Made(e.cfb, e.job) /\ ~e.cfg.temp /\ ~e.cfb.temp
    /\ e.kind = "finished" /\ jobs[e.job].kind = "database" /\ e.cfg # Empty =>
           e.cfg = Result(jobs[e.job].file, FALSE, 0) /\ e.cfb = e.cfg
    /\ e.kind = "finished" /\ jobs[e.job].kind = "binary" => e.cfg = Empty

EventsMade == \A i \in 1 .. Len(signals) : EventOK(signals[i])

\* What a CFG job has made so far.
WorkMade ==
    /\ pc \in {"begin", "recover"} => Current(made.cfb, active)
    /\ pc = "recover" => Current(made.cfg, active)

\* What will replace a temporary result: the end of its job, if it comes.
Stopped(j) == State(j) \in {"FAILED", "CANCELLED"}
FinalAfter(i, j) ==
    \E k \in 1 .. Len(signals) : k > i /\ signals[k].kind = "finished" /\ signals[k].job = j
Replaced(i, j) == Stopped(j) \/ (active = j /\ pc = "recover") \/ FinalAfter(i, j)

PeeksReplaced ==
    \A i \in 1 .. Len(signals) : signals[i].kind = "peek" => Replaced(i, signals[i].job)

ShownReplaced ==
    \A r \in {inst.cfg, inst.cfb} : r.temp =>
        IsJob(r.job) /\ jobs[r.job].kind = "cfg" /\ Replaced(0, r.job)

LoadingInv ==
    /\ TypeOK /\ RunsJob /\ CallbackIsLast
    /\ EventsMade /\ WorkMade /\ ResultsOfProject
    /\ PeeksReplaced /\ ShownReplaced

LEMMA ResultTypes ==
    /\ Empty \in Results /\ Nothing \in [cfb : Owners, cfg : Owners]
    /\ \A p \in Owners, temp \in BOOLEAN, j \in Nat :
           /\ Result(p, temp, j) \in Results
           /\ Result(p, temp, j).of = p /\ Result(p, temp, j).temp = temp
           /\ Result(p, temp, j).job = j
  BY DEF Empty, Nothing, Results, Owners, Result

LEMMA EventTypes ==
    ASSUME NEW kind \in EventKinds, NEW j \in Nat, NEW cfg \in Results, NEW blanket \in Results
    PROVE  /\ Event(kind, j, cfg, blanket) \in Events
           /\ Event(kind, j, cfg, blanket).kind = kind /\ Event(kind, j, cfg, blanket).job = j
           /\ Event(kind, j, cfg, blanket).cfg = cfg /\ Event(kind, j, cfg, blanket).cfb = blanket
  BY DEF Event, Events

LEMMA InitLoadingInv == LoadingInit => LoadingInv
  <1> SUFFICES ASSUME LoadingInit PROVE LoadingInv
    OBVIOUS
  <1>1. TypeOK
    <2>1. \A S : <<>> \in Seq(S) /\ Len(<<>>) = 0
      BY EmptySeq
    <2>2. inst \in Instances
      BY ResultTypes DEF LoadingInit, Instances, Owners
    <2>3. /\ jobs \in Seq(JobRecs) /\ work \in Seq(Nat) /\ signals \in Seq(Events)
          /\ 1 .. Len(work) = {} /\ 1 .. Len(signals) = {}
      BY <2>1 DEF LoadingInit
    <2> QED BY <2>2, <2>3, ResultTypes DEF LoadingInit, TypeOK
  <1>2. RunsJob /\ CallbackIsLast /\ EventsMade /\ WorkMade /\ PeeksReplaced
    BY DEF LoadingInit, RunsJob, CallbackIsLast, EventsMade, WorkMade, PeeksReplaced
  <1>3. ResultsOfProject /\ ShownReplaced
    BY DEF LoadingInit, ResultsOfProject, ShownReplaced, Empty
  <1> QED BY <1>1, <1>2, <1>3 DEF LoadingInv

-----------------------------------------------------------------------------
(***************************************************************************)
(* The list of jobs only grows: a job stays what it is, and one that was   *)
(* cancelled or failed stays so.                                           *)
(***************************************************************************)
JobsGrow ==
    /\ jobs' \in Seq(JobRecs) /\ Len(jobs') >= Len(jobs)
    /\ \A j \in 1 .. Len(jobs) :
           /\ jobs'[j].kind = jobs[j].kind /\ jobs'[j].file = jobs[j].file
           /\ Stopped(j) => Stopped(j)'

LEMMA JobsSame == TypeOK /\ UNCHANGED jobs => JobsGrow
  BY LenProperties DEF TypeOK, JobsGrow, Stopped, State

LEMMA JobAdded ==
    ASSUME TypeOK, NEW kind \in JobKinds, NEW file \in Owners, AddJob(kind, file)
    PROVE  /\ JobsGrow /\ work' \in Seq(Nat)
           /\ \A i \in 1 .. Len(work') : IsJob(work[i])'
  <1> DEFINE new == [kind |-> kind, file |-> file, state |-> "PENDING"]
             n == Len(jobs)
  <1>1. /\ jobs \in Seq(JobRecs) /\ n \in Nat /\ new \in JobRecs
        /\ jobs' = Append(jobs, new) /\ work' = Append(work, n + 1)
        /\ work \in Seq(Nat) /\ Len(work) \in Nat
    BY LenProperties DEF TypeOK, AddJob, JobRecs, States
  <1> HIDE DEF new, n
  <1>2. /\ jobs' \in Seq(JobRecs) /\ Len(jobs') = Len(jobs) + 1
        /\ \A j \in 1 .. Len(jobs) : jobs'[j] = jobs[j]
    BY <1>1, AppendProperties
  <1>3. /\ work' \in Seq(Nat) /\ Len(work') = Len(work) + 1 /\ work'[Len(work) + 1] = n + 1
        /\ \A i \in 1 .. Len(work) : work'[i] = work[i]
    BY <1>1, AppendProperties
  <1>4. JobsGrow
    BY <1>1, <1>2 DEF JobsGrow, Stopped, State, n
  <1>5. \A i \in 1 .. Len(work') : i \in 1 .. Len(work) \/ i = Len(work) + 1
    BY <1>1, <1>3
  <1>6. \A i \in 1 .. Len(work') : IsJob(work[i])'
    <2> SUFFICES ASSUME NEW i \in 1 .. Len(work') PROVE work'[i] \in 1 .. Len(jobs')
      BY DEF IsJob
    <2>1. CASE i \in 1 .. Len(work)
      <3>1. work'[i] = work[i] /\ work[i] \in 1 .. n
        BY <1>3, <2>1 DEF TypeOK, IsJob, n
      <3> QED BY <1>1, <1>2, <3>1 DEF n
    <2>2. CASE i = Len(work) + 1
      BY <1>1, <1>2, <1>3, <2>2 DEF n
    <2> QED BY <1>5, <2>1, <2>2
  <1> QED BY <1>3, <1>4, <1>6

LEMMA StateSet ==
    ASSUME TypeOK, NEW j, IsJob(j), NEW s \in States,
           jobs' = [jobs EXCEPT ![j].state = s],
           Stopped(j) => s \in {"FAILED", "CANCELLED"}
    PROVE  JobsGrow /\ Len(jobs') = Len(jobs) /\ jobs'[j].state = s
  <1> DEFINE new == [jobs[j] EXCEPT !.state = s]
  <1>1. jobs \in Seq(JobRecs) /\ Len(jobs) \in Nat /\ j \in 1 .. Len(jobs)
    BY LenProperties DEF TypeOK, IsJob
  <1>2. jobs[j] \in JobRecs
    BY <1>1, ElementOfSeq
  <1>3. /\ new \in JobRecs /\ new.kind = jobs[j].kind /\ new.file = jobs[j].file
        /\ new.state = s
    BY <1>2 DEF JobRecs
  <1>4. jobs' = [jobs EXCEPT ![j] = new]
    OBVIOUS
  <1> HIDE DEF new
  <1>5. /\ jobs' \in Seq(JobRecs) /\ Len(jobs') = Len(jobs)
        /\ \A i \in 1 .. Len(jobs) : jobs'[i] = IF i = j THEN new ELSE jobs[i]
    BY <1>1, <1>3, <1>4, ExceptSeq
  <1> QED BY <1>1, <1>3, <1>5 DEF JobsGrow, Stopped, State

-----------------------------------------------------------------------------
(***************************************************************************)
(* What a step keeps when the list of jobs grows.                          *)
(***************************************************************************)
LEMMA EventKept ==
    ASSUME TypeOK, JobsGrow, NEW e \in Events, EventOK(e),
           e.kind # "analyse" => IsJob(e.job),
           \A p \in Owners :
               IsJob(e.job) /\ jobs[e.job].kind = "cfg" /\ Current(p, e.job) => Current(p, e.job)'
    PROVE  EventOK(e)'
  <1>1. e.cfg.of \in Owners /\ e.cfb.of \in Owners
    BY DEF Events, Results
  <1>2. CASE e.kind \notin {"peek", "finished"}
    BY <1>2 DEF EventOK
  <1>3. CASE e.kind \in {"peek", "finished"}
    <2>1. /\ e.job \in 1 .. Len(jobs) /\ jobs'[e.job].kind = jobs[e.job].kind
          /\ jobs'[e.job].file = jobs[e.job].file
      BY <1>3 DEF IsJob, JobsGrow
    <2>2. jobs[e.job].kind = "cfg" =>
              /\ Made(e.cfg, e.job) => Made(e.cfg, e.job)'
              /\ Made(e.cfb, e.job) => Made(e.cfb, e.job)'
      BY <1>1, <2>1 DEF Made, IsJob
    <2> QED BY <1>3, <2>1, <2>2 DEF EventOK
  <1> QED BY <1>2, <1>3

LEMMA RunsJobKept ==
    ASSUME TypeOK, RunsJob, JobsGrow, UNCHANGED <<active, pc>>
    PROVE  RunsJob'
  <1>1. active # 0 => active \in 1 .. Len(jobs')
    <2>1. Len(jobs) \in Nat /\ Len(jobs') \in Nat
      BY LenProperties DEF TypeOK, JobsGrow
    <2> QED BY <2>1 DEF RunsJob, IsJob, JobsGrow
  <1>2. active # 0 => jobs'[active].kind = jobs[active].kind
    BY DEF RunsJob, IsJob, JobsGrow
  <1> QED BY <1>1, <1>2 DEF RunsJob, IsJob

LEMMA JobsKept == ASSUME TypeOK, JobsGrow, NEW j, IsJob(j) PROVE IsJob(j)'
  BY LenProperties DEF TypeOK, JobsGrow, IsJob

\* A step in which no event is queued or handled.
LEMMA SilentStep ==
    ASSUME LoadingInv, TypeOK', RunsJob', WorkMade', JobsGrow,
           UNCHANGED <<inst, overtaken, signals>>,
           pc \in {"waiting", "recover"} => UNCHANGED <<active, pc>>
    PROVE  LoadingInv'
  <1> USE DEF LoadingInv
  <1>1. /\ Len(signals) \in Nat
        /\ \A i \in 1 .. Len(signals) :
              signals[i] \in Events /\ (signals[i].kind # "analyse" => IsJob(signals[i].job))
    BY LenProperties, ElementOfSeq DEF TypeOK
  <1>2. CallbackIsLast'
    BY DEF CallbackIsLast
  <1>3. EventsMade'
    <2> SUFFICES ASSUME NEW i \in 1 .. Len(signals) PROVE EventOK(signals[i])'
      BY DEF EventsMade
    <2>1. PICK e \in Events : e = signals[i] /\ e = signals'[i]
      BY <1>1
    <2>2. EventOK(e)'
      BY <1>1, <2>1, EventKept DEF EventsMade, Current
    <2> QED BY <2>1, <2>2
  <1>4. ResultsOfProject'
    BY DEF ResultsOfProject
  <1>5. ASSUME NEW i, NEW j, IsJob(j), Replaced(i, j) PROVE Replaced(i, j)'
    BY <1>5 DEF Replaced, FinalAfter, JobsGrow, IsJob
  <1>6. PeeksReplaced'
    BY <1>1, <1>5 DEF PeeksReplaced
  <1>7. ShownReplaced'
    BY <1>5, JobsKept DEF ShownReplaced, JobsGrow, IsJob
  <1> QED BY <1>2, <1>3, <1>4, <1>6, <1>7

\* A step of the worker that queues the event e.
LEMMA WorkerSays ==
    ASSUME LoadingInv, TypeOK', RunsJob', WorkMade', JobsGrow,
           UNCHANGED <<inst, overtaken>>, pc # "waiting",
           NEW e \in Events, signals' = Append(signals, e), EventOK(e)',
           e.kind = "callback" => pc' = "waiting" /\ e.job = active',
           e.kind = "peek" => pc' = "recover" /\ e.job = active',
           pc = "recover" => \/ UNCHANGED <<active, pc>>
                             \/ jobs'[active].state \in {"FAILED", "CANCELLED"}
                             \/ e.kind = "finished" /\ e.job = active
    PROVE  LoadingInv'
  <1> USE DEF LoadingInv
  <1>1. /\ Len(signals) \in Nat
        /\ \A i \in 1 .. Len(signals) :
              signals[i] \in Events /\ (signals[i].kind # "analyse" => IsJob(signals[i].job))
    BY LenProperties, ElementOfSeq DEF TypeOK
  <1>2. /\ Len(signals') = Len(signals) + 1 /\ signals'[Len(signals) + 1] = e
        /\ \A i \in 1 .. Len(signals) : signals'[i] = signals[i]
    BY AppendProperties DEF TypeOK
  <1>3. CallbackIsLast'
    <2> SUFFICES ASSUME NEW i \in 1 .. Len(signals'), signals'[i].kind = "callback"
                 PROVE  i = Len(signals') /\ pc' = "waiting" /\ signals'[i].job = active'
      BY DEF CallbackIsLast
    <2>1. i = Len(signals) + 1
      BY <1>1, <1>2 DEF CallbackIsLast
    <2> QED BY <1>2, <2>1
  <1>4. EventsMade'
    <2> SUFFICES ASSUME NEW i \in 1 .. Len(signals') PROVE EventOK(signals[i])'
      BY DEF EventsMade
    <2>1. CASE i = Len(signals) + 1
      BY <1>2, <2>1
    <2>2. CASE i \in 1 .. Len(signals)
      <3>1. PICK f \in Events : f = signals[i] /\ f = signals'[i]
        BY <1>1, <1>2, <2>2
      <3>2. EventOK(f)'
        BY <1>1, <2>2, <3>1, EventKept DEF EventsMade, Current
      <3> QED BY <3>1, <3>2
    <2> QED BY <1>1, <1>2, <2>1, <2>2
  <1>5. ResultsOfProject'
    BY DEF ResultsOfProject
  <1>6. ASSUME NEW i \in 0 .. Len(signals), NEW j, IsJob(j), Replaced(i, j)
        PROVE  Replaced(i, j)'
    <2>1. CASE Stopped(j)
      BY <1>6, <2>1 DEF Replaced, JobsGrow, IsJob
    <2>2. CASE active = j /\ pc = "recover"
      BY <1>1, <1>2, <2>2 DEF Replaced, FinalAfter, Stopped, State
    <2>3. CASE FinalAfter(i, j)
      <3>1. PICK k \in 1 .. Len(signals) :
                k > i /\ signals[k].kind = "finished" /\ signals[k].job = j
        BY <2>3 DEF FinalAfter
      <3> QED BY <1>1, <1>2, <3>1 DEF Replaced, FinalAfter
    <2> QED BY <1>6, <2>1, <2>2, <2>3 DEF Replaced
  <1>7. PeeksReplaced'
    <2> SUFFICES ASSUME NEW i \in 1 .. Len(signals'), signals'[i].kind = "peek"
                 PROVE  Replaced(i, signals[i].job)'
      BY DEF PeeksReplaced
    <2>1. CASE i = Len(signals) + 1
      BY <1>2, <2>1 DEF Replaced
    <2>2. CASE i \in 1 .. Len(signals)
      <3>1. PICK j : j = signals[i].job /\ j = signals'[i].job
        BY <1>2, <2>2
      <3>2. IsJob(j) /\ Replaced(i, j) /\ i \in 0 .. Len(signals)
        BY <1>1, <1>2, <2>2, <3>1 DEF PeeksReplaced
      <3>3. Replaced(i, j)'
        BY <1>6, <3>2
      <3> QED BY <3>1, <3>3
    <2> QED BY <1>1, <1>2, <2>1, <2>2
  <1>8. ShownReplaced'
    <2> SUFFICES ASSUME NEW r \in {inst.cfg, inst.cfb}, r.temp
                 PROVE  IsJob(r.job)' /\ jobs'[r.job].kind = "cfg" /\ Replaced(0, r.job)'
      BY DEF ShownReplaced
    <2>1. IsJob(r.job) /\ jobs[r.job].kind = "cfg" /\ Replaced(0, r.job) /\ 0 \in 0 .. Len(signals)
      BY <1>1 DEF ShownReplaced
    <2> QED BY <1>6, <2>1, JobsKept DEF JobsGrow, IsJob
  <1> QED BY <1>3, <1>4, <1>5, <1>7, <1>8

-----------------------------------------------------------------------------
(***************************************************************************)
(* The steps of the user and of the threads that refresh.                  *)
(***************************************************************************)
LEMMA QueuesKept ==
    ASSUME TypeOK, JobsGrow
    PROVE  /\ \A i \in 1 .. Len(work) : work[i] \in 1 .. Len(jobs')
           /\ \A i \in 1 .. Len(signals) :
                  signals[i].kind # "analyse" => signals[i].job \in 1 .. Len(jobs')
  <1>1. Len(jobs) \in Nat /\ Len(jobs') \in Nat /\ Len(jobs') >= Len(jobs)
    BY LenProperties DEF TypeOK, JobsGrow
  <1> QED BY <1>1 DEF TypeOK, IsJob

LEMMA UserKeeps ==
    ASSUME LoadingInv, JobsGrow,
           work' \in Seq(Nat), \A i \in 1 .. Len(work') : work'[i] \in 1 .. Len(jobs'),
           dialogs' \in Nat, watchers' \subseteq Nat,
           UNCHANGED <<inst, active, pc, made, signals, overtaken>>
    PROVE  LoadingInv'
  <1>1. TypeOK'
    BY QueuesKept DEF LoadingInv, TypeOK, JobsGrow, IsJob
  <1>2. RunsJob'
    BY RunsJobKept DEF LoadingInv
  <1>3. WorkMade'
    BY DEF LoadingInv, WorkMade, Current
  <1> QED BY <1>1, <1>2, <1>3, SilentStep

LEMMA LoadFileStep ==
    ASSUME LoadingInv, NEW p \in Projects, NEW kind \in {"binary", "database"},
           LoadFile(kind, p)
    PROVE  LoadingInv'
  <1>1. kind \in JobKinds /\ p \in Owners /\ AddJob(kind, p) /\ TypeOK
    BY DEF JobKinds, Owners, LoadFile, LoadingInv
  <1>2. /\ JobsGrow /\ work' \in Seq(Nat)
        /\ \A i \in 1 .. Len(work') : work'[i] \in 1 .. Len(jobs')
    BY <1>1, JobAdded DEF IsJob
  <1>3. /\ UNCHANGED <<inst, active, pc, made, signals, overtaken>>
        /\ dialogs' \in Nat /\ watchers' \subseteq Nat
    BY <1>1 DEF LoadFile, GuiOnly, TypeOK
  <1> QED BY <1>2, <1>3, UserKeeps

LEMMA DialogStep ==
    ASSUME LoadingInv,
           RunAnalysis \/ \E accepted \in BOOLEAN : AnswerDialog(accepted)
    PROVE  LoadingInv'
  <1> USE DEF LoadingInv
  <1>1. /\ UNCHANGED <<inst, active, pc, made, signals, overtaken>>
        /\ dialogs' \in Nat /\ watchers' \subseteq Nat
    <2>1. dialogs \in Nat /\ watchers \subseteq Nat
      BY DEF TypeOK
    <2>2. CASE RunAnalysis
      BY <2>1, <2>2 DEF RunAnalysis, GuiOnly
    <2>3. CASE \E accepted \in BOOLEAN : AnswerDialog(accepted)
      BY <2>1, <2>3 DEF AnswerDialog, GuiOnly
    <2> QED BY <2>2, <2>3
  <1>2. /\ JobsGrow /\ work' \in Seq(Nat)
        /\ \A i \in 1 .. Len(work') : work'[i] \in 1 .. Len(jobs')
    <2>1. CASE AddJob("cfg", NoProject)
      <3>1. "cfg" \in JobKinds /\ NoProject \in Owners
        BY DEF JobKinds, Owners
      <3> QED BY <2>1, <3>1, JobAdded DEF IsJob
    <2>2. CASE UNCHANGED <<jobs, work>>
      BY <2>2, JobsSame, QueuesKept DEF TypeOK
    <2> QED BY <2>1, <2>2 DEF RunAnalysis, AnswerDialog
  <1> QED BY <1>1, <1>2, UserKeeps

LEMMA CancelStep ==
    ASSUME LoadingInv, NEW j \in 1 .. Len(jobs), CancelJob(j)
    PROVE  LoadingInv'
  <1>1. JobsGrow
    BY StateSet DEF LoadingInv, CancelJob, IsJob, States
  <1> QED BY <1>1, QueuesKept, UserKeeps DEF LoadingInv, TypeOK, CancelJob, GuiOnly

LEMMA WatcherStep ==
    ASSUME LoadingInv, NEW j \in 1 .. Len(jobs), EndWatcher(j)
    PROVE  LoadingInv'
  BY JobsSame, QueuesKept, UserKeeps DEF LoadingInv, TypeOK, EndWatcher

-----------------------------------------------------------------------------
(***************************************************************************)
(* The steps of the worker.                                                *)
(***************************************************************************)
LEMMA SignalsGrow ==
    ASSUME TypeOK, JobsGrow, NEW e \in Events, signals' = Append(signals, e),
           e.kind # "analyse" => e.job \in 1 .. Len(jobs')
    PROVE  /\ signals' \in Seq(Events)
           /\ \A i \in 1 .. Len(signals') :
                  signals'[i].kind # "analyse" => signals'[i].job \in 1 .. Len(jobs')
  <1>1. /\ Len(signals) \in Nat /\ signals' \in Seq(Events)
        /\ Len(signals') = Len(signals) + 1 /\ signals'[Len(signals) + 1] = e
        /\ \A i \in 1 .. Len(signals) : signals'[i] = signals[i]
    BY AppendProperties, LenProperties DEF TypeOK
  <1>2. \A i \in 1 .. Len(signals') : i \in 1 .. Len(signals) \/ i = Len(signals) + 1
    BY <1>1
  <1> QED BY <1>1, <1>2, QueuesKept

\* The end of a job, which changes its state and reports the event e.
LEMMA JobEnds ==
    ASSUME LoadingInv, active # 0, pc # "waiting", Leave, WorkerOnly, JobsGrow,
           NEW e \in Events, signals' = Append(signals, e), e.job = active,
           e.kind \in {"finished", "exception"}, EventOK(e)',
           e.kind = "finished" \/ jobs'[active].state \in {"FAILED", "CANCELLED"}
    PROVE  LoadingInv'
  <1> USE DEF LoadingInv
  <1>1. active \in 1 .. Len(jobs')
    BY LenProperties DEF RunsJob, IsJob, JobsGrow, TypeOK
  <1>2. TypeOK'
    <2>1. /\ signals' \in Seq(Events)
          /\ \A i \in 1 .. Len(signals') :
                 signals'[i].kind # "analyse" => signals'[i].job \in 1 .. Len(jobs')
      BY <1>1, SignalsGrow
    <2>2. made' \in [cfb : Owners, cfg : Owners] /\ active' \in Nat /\ pc' = "idle"
      BY ResultTypes DEF Leave
    <2>3. /\ jobs' \in Seq(JobRecs) /\ UNCHANGED <<inst, work, dialogs, watchers, overtaken>>
          /\ \A i \in 1 .. Len(work) : work[i] \in 1 .. Len(jobs')
      BY QueuesKept DEF JobsGrow, Leave, WorkerOnly
    <2> QED BY <2>1, <2>2, <2>3 DEF TypeOK, IsJob
  <1>3. RunsJob' /\ WorkMade'
    BY DEF Leave, RunsJob, WorkMade
  <1> QED BY <1>2, <1>3, WorkerSays DEF WorkerOnly, Leave

LEMMA ActiveJob ==
    ASSUME LoadingInv, active # 0
    PROVE  active \in 1 .. Len(jobs) /\ jobs[active] \in JobRecs /\ active \in Nat
  BY ElementOfSeq DEF LoadingInv, RunsJob, IsJob, TypeOK

\* run() returned what EventOK asks of it.
LEMMA FinishStep ==
    ASSUME LoadingInv, active # 0, pc # "waiting", WorkerOnly,
           NEW cfg \in Results, NEW blanket \in Results, Finish(cfg, blanket),
           /\ jobs[active].kind = "cfg" =>
                  Made(cfg, active) /\ Made(blanket, active) /\ ~cfg.temp /\ ~blanket.temp
           /\ jobs[active].kind = "database" /\ cfg # Empty =>
                  cfg = Result(jobs[active].file, FALSE, 0) /\ blanket = cfg
           /\ jobs[active].kind = "binary" => cfg = Empty
    PROVE  LoadingInv'
  <1>1. PICK e \in Events : /\ e = Event("finished", active, cfg, blanket)
                            /\ e.kind = "finished" /\ e.job = active
                            /\ e.cfg = cfg /\ e.cfb = blanket
    BY EventTypes, ActiveJob DEF EventKinds
  <1>2. JobsGrow
    <2>1. PICK t \in States : /\ t = IF State(active) = "RUNNING" THEN "FINISHED" ELSE State(active)
                              /\ Stopped(active) => t \in {"FAILED", "CANCELLED"}
      BY ActiveJob DEF States, State, Stopped, JobRecs
    <2>2. jobs' = [jobs EXCEPT ![active].state = t]
      BY <2>1 DEF Finish, State
    <2> QED BY <2>1, <2>2, StateSet, ActiveJob DEF LoadingInv, IsJob
  <1>3. EventOK(e)'
    <2>1. jobs'[active].kind = jobs[active].kind /\ jobs'[active].file = jobs[active].file
      BY <1>2, ActiveJob DEF JobsGrow
    <2> QED BY <1>1, <2>1 DEF EventOK, Made, Current, WorkerOnly
  <1> QED BY <1>1, <1>2, <1>3, JobEnds DEF Finish

LEMMA RaiseStep == ASSUME LoadingInv, Raise PROVE LoadingInv'
  <1>1. PICK e \in Events : /\ e = Notice("exception", active)
                            /\ e.kind = "exception" /\ e.job = active
    BY EventTypes, ActiveJob, ResultTypes DEF EventKinds, Notice, Raise
  <1>2. JobsGrow /\ jobs'[active].state \in {"FAILED", "CANCELLED"}
    <2>1. CASE State(active) = "CANCELLED" /\ UNCHANGED jobs
      BY <2>1, JobsSame DEF LoadingInv, State
    <2>2. CASE jobs' = [jobs EXCEPT ![active].state = "FAILED"]
      BY <2>2, StateSet, ActiveJob DEF LoadingInv, IsJob, States, Raise
    <2> QED BY <2>1, <2>2 DEF Raise
  <1>3. EventOK(e)'
    BY <1>1 DEF EventOK
  <1> QED BY <1>1, <1>2, <1>3, JobEnds DEF Raise

LEMMA GiveUpStep == ASSUME LoadingInv, GiveUpLoading PROVE LoadingInv'
  <1>1. /\ active # 0 /\ jobs[active].kind \in {"binary", "database"}
        /\ Finish(Empty, Empty) /\ WorkerOnly
    BY DEF GiveUpLoading, LoadingInv, RunsJob
  <1> QED BY <1>1, FinishStep, ResultTypes DEF GiveUpLoading

LEMMA ReturnStep == ASSUME LoadingInv, ReturnFromLoading PROVE LoadingInv'
  <1>1. /\ active # 0 /\ jobs[active].kind = "binary"
        /\ Finish(Empty, Empty) /\ WorkerOnly
    BY DEF ReturnFromLoading, LoadingInv, RunsJob
  <1> QED BY <1>1, FinishStep, ResultTypes DEF ReturnFromLoading

LEMMA LoadDatabaseStep == ASSUME LoadingInv, LoadDatabase PROVE LoadingInv'
  <1>1. PICK r : r = Result(jobs[active].file, FALSE, 0)
    OBVIOUS
  <1>2. /\ active # 0 /\ jobs[active].kind = "database" /\ pc # "waiting"
        /\ Finish(r, r) /\ WorkerOnly
    BY <1>1 DEF LoadDatabase, LoadingInv, RunsJob
  <1>3. r \in Results
    <2>1. jobs[active].file \in Owners
      BY <1>2, ActiveJob DEF JobRecs
    <2> QED BY <1>1, <2>1, ResultTypes
  <1> QED BY <1>1, <1>2, <1>3, FinishStep

LEMMA MakeFinalStep == ASSUME LoadingInv, MakeFinalCfb PROVE LoadingInv'
  <1>1. /\ active # 0 /\ jobs[active].kind = "cfg" /\ pc # "waiting"
        /\ made.cfg \in Owners /\ inst.project \in Owners /\ Current(made.cfg, active)
    BY DEF MakeFinalCfb, LoadingInv, RunsJob, WorkMade, TypeOK, Instances
  <1>2. PICK cfg \in Results, blanket \in Results :
            /\ cfg = Result(made.cfg, FALSE, active) /\ blanket = Result(inst.project, FALSE, active)
            /\ cfg.of = made.cfg /\ blanket.of = inst.project
            /\ cfg.job = active /\ blanket.job = active /\ ~cfg.temp /\ ~blanket.temp
    <2>1. active \in Nat
      BY <1>1, ActiveJob
    <2>2. PICK cfg \in Results, blanket \in Results :
              /\ cfg = Result(made.cfg, FALSE, active)
              /\ blanket = Result(inst.project, FALSE, active)
      BY <1>1, <2>1, ResultTypes
    <2>3. /\ cfg.of = made.cfg /\ blanket.of = inst.project
          /\ cfg.job = active /\ blanket.job = active /\ ~cfg.temp /\ ~blanket.temp
      BY <2>2 DEF Result
    <2> QED BY <2>2, <2>3
  <1>3. Made(cfg, active) /\ Made(blanket, active)
    BY <1>1, <1>2 DEF Made, Current
  <1>4. Finish(cfg, blanket) /\ WorkerOnly
    BY <1>2 DEF MakeFinalCfb
  <1> QED BY <1>1, <1>3, <1>4, <1>2, FinishStep

LEMMA TakeJobStep == ASSUME LoadingInv, TakeJob PROVE LoadingInv'
  <1> USE DEF LoadingInv
  <1>1. PICK j : j = Head(work)
    OBVIOUS
  <1>2. /\ j \in 1 .. Len(jobs) /\ j \in Nat /\ j # 0 /\ jobs[j] \in JobRecs
        /\ work' \in Seq(Nat) /\ \A i \in 1 .. Len(work') : IsJob(work'[i])
    <2>1. /\ work' \in Seq(Nat) /\ work # <<>> /\ work' = Tail(work)
          /\ Len(work) \in Nat /\ Len(work) # 0 /\ j = work[1]
          /\ Len(work') = Len(work) - 1
          /\ \A i \in 1 .. Len(work') : work'[i] = work[i + 1]
      <3>1. work \in Seq(Nat) /\ work # <<>> /\ work' = Tail(work)
        BY DEF TakeJob, TypeOK
      <3> QED BY <1>1, <3>1, HeadTailProperties, EmptySeq, LenProperties
    <2>2. j \in 1 .. Len(jobs) /\ \A i \in 1 .. Len(work') : IsJob(work'[i])
      BY <2>1 DEF TypeOK, IsJob
    <2> QED BY <2>1, <2>2, ElementOfSeq, LenProperties DEF TypeOK
  <1>3. CASE State(j) # "PENDING"
    <2>1. UNCHANGED <<inst, jobs, active, pc, made, signals, overtaken>>
      BY <1>1, <1>3 DEF TakeJob, WorkerOnly
    <2>2. TypeOK'
      BY <1>2, <2>1 DEF TypeOK, IsJob, TakeJob, WorkerOnly
    <2>3. RunsJob' /\ WorkMade' /\ JobsGrow
      BY <2>1, RunsJobKept, JobsSame DEF WorkMade, Current
    <2> QED BY <2>1, <2>2, <2>3, SilentStep
  <1>4. CASE State(j) = "PENDING"
    <2>1. PICK e \in Events : /\ e = Notice("starting", j)
                              /\ e.kind = "starting" /\ e.job = j
      BY <1>2, EventTypes, ResultTypes DEF EventKinds, Notice
    <2>2. /\ jobs' = [jobs EXCEPT ![j].state = "RUNNING"]
          /\ active' = j /\ pc' = jobs[j].kind /\ signals' = Append(signals, e)
          /\ UNCHANGED made /\ WorkerOnly /\ pc = "idle"
      BY <1>1, <1>4, <2>1 DEF TakeJob
    <2>3. JobsGrow
      BY <1>2, <1>4, <2>2, StateSet DEF IsJob, States, Stopped
    <2>4. /\ Len(jobs) \in Nat /\ Len(jobs') \in Nat /\ j \in 1 .. Len(jobs')
          /\ jobs'[j].kind = jobs[j].kind
          /\ \A i \in 1 .. Len(work') : work'[i] \in 1 .. Len(jobs')
      <3>1. /\ jobs \in Seq(JobRecs) /\ jobs' \in Seq(JobRecs) /\ Len(jobs') >= Len(jobs)
            /\ jobs'[j].kind = jobs[j].kind
        BY <1>2, <2>3 DEF JobsGrow, TypeOK
      <3>2. Len(jobs) \in Nat /\ Len(jobs') \in Nat
        BY <3>1, LenProperties
      <3>3. \A i \in 1 .. Len(work') : work'[i] \in 1 .. Len(jobs)
        BY <1>2 DEF IsJob
      <3> QED BY <1>2, <3>1, <3>2, <3>3
    <2>5. pc' \in JobKinds
      BY <1>2, <2>2 DEF JobRecs
    <2>6. TypeOK'
      <3>1. /\ signals' \in Seq(Events)
            /\ \A i \in 1 .. Len(signals') :
                   signals'[i].kind # "analyse" => signals'[i].job \in 1 .. Len(jobs')
        BY <2>1, <2>2, <2>3, <2>4, SignalsGrow
      <3>2. pc' \in RunPcs /\ jobs' \in Seq(JobRecs)
        BY <2>3, <2>5 DEF RunPcs, JobKinds, JobsGrow
      <3> QED BY <1>2, <2>2, <2>4, <3>1, <3>2 DEF TypeOK, IsJob, WorkerOnly
    <2>7. RunsJob' /\ WorkMade'
      BY <1>2, <2>2, <2>4, <2>5 DEF RunsJob, WorkMade, IsJob, JobKinds
    <2>8. EventOK(e)'
      BY <2>1 DEF EventOK
    <2> QED BY <2>1, <2>2, <2>3, <2>6, <2>7, <2>8, WorkerSays DEF WorkerOnly
  <1> QED BY <1>3, <1>4

LEMMA BuildStep == ASSUME LoadingInv, BuildProject PROVE LoadingInv'
  <1> USE DEF LoadingInv
  <1>1. active # 0 /\ IsJob(active) /\ active \in Nat /\ jobs[active].kind = "binary"
    BY DEF BuildProject, RunsJob, TypeOK
  <1>2. PICK e \in Events : /\ e = Notice("callback", active)
                            /\ e.kind = "callback" /\ e.job = active
    BY <1>1, EventTypes, ResultTypes DEF EventKinds, Notice
  <1>3. /\ JobsGrow /\ pc' = "waiting" /\ signals' = Append(signals, e)
        /\ UNCHANGED <<inst, jobs, work, active, made, dialogs, watchers, overtaken>>
    BY <1>2, JobsSame DEF BuildProject, WorkerOnly
  <1>4. TypeOK'
    <2>1. /\ signals' \in Seq(Events)
          /\ \A i \in 1 .. Len(signals') :
                 signals'[i].kind # "analyse" => signals'[i].job \in 1 .. Len(jobs')
      BY <1>1, <1>2, <1>3, SignalsGrow DEF IsJob
    <2> QED BY <1>3, <2>1 DEF TypeOK, IsJob, RunPcs
  <1>5. RunsJob' /\ WorkMade'
    BY <1>1, <1>3 DEF RunsJob, WorkMade, IsJob
  <1>6. EventOK(e)'
    BY <1>2 DEF EventOK
  <1> QED BY <1>2, <1>3, <1>4, <1>5, <1>6, WorkerSays DEF BuildProject

LEMMA AnalysisStep ==
    ASSUME LoadingInv, MakeTemporaryCfb \/ BeginCfg
    PROVE  LoadingInv'
  <1> USE DEF LoadingInv
  <1>1. /\ JobsGrow /\ pc \in {"cfg", "begin"} /\ pc' \in {"begin", "recover"}
        /\ UNCHANGED <<inst, jobs, work, active, signals, dialogs, watchers, overtaken>>
    BY JobsSame DEF MakeTemporaryCfb, BeginCfg, WorkerOnly
  <1>2. made' \in [cfb : Owners, cfg : Owners] /\ WorkMade'
    <2>1. inst.project \in Owners /\ made \in [cfb : Owners, cfg : Owners]
      BY DEF TypeOK, Instances
    <2>2. CASE MakeTemporaryCfb
      BY <1>1, <2>1, <2>2, ResultTypes DEF MakeTemporaryCfb, Nothing, WorkMade, Current
    <2>3. CASE BeginCfg
      BY <1>1, <2>1, <2>3 DEF BeginCfg, WorkMade, Current
    <2> QED BY <2>2, <2>3
  <1>3. TypeOK'
    BY <1>1, <1>2 DEF TypeOK, RunPcs, IsJob
  <1>4. RunsJob'
    BY <1>1 DEF RunsJob, IsJob
  <1> QED BY <1>1, <1>2, <1>3, <1>4, SilentStep

LEMMA ProgressStep == ASSUME LoadingInv, ProgressCallback PROVE LoadingInv'
  <1> USE DEF LoadingInv
  <1>1. /\ active # 0 /\ IsJob(active) /\ active \in Nat /\ jobs[active].kind = "cfg"
        /\ made.cfg \in Owners /\ made.cfb \in Owners
        /\ Current(made.cfg, active) /\ Current(made.cfb, active)
    BY DEF ProgressCallback, RunsJob, TypeOK, WorkMade
  <1>2. PICK cfg \in Results, blanket \in Results :
            /\ cfg = Result(made.cfg, TRUE, active) /\ blanket = Result(made.cfb, TRUE, active)
            /\ Made(cfg, active) /\ Made(blanket, active)
    <2>1. PICK cfg \in Results, blanket \in Results :
              cfg = Result(made.cfg, TRUE, active) /\ blanket = Result(made.cfb, TRUE, active)
      BY <1>1, ResultTypes
    <2>2. ASSUME NEW p \in Owners
          PROVE  Result(p, TRUE, active).of = p /\ Result(p, TRUE, active).job = active
      BY <1>1, ResultTypes
    <2>3. /\ cfg.of = made.cfg /\ blanket.of = made.cfb
          /\ cfg.job = active /\ blanket.job = active
      BY <1>1, <2>1, <2>2
    <2> QED BY <1>1, <2>1, <2>3 DEF Made
  <1>3. PICK e \in Events : /\ e = Event("peek", active, cfg, blanket)
                            /\ e.kind = "peek" /\ e.job = active
                            /\ e.cfg = cfg /\ e.cfb = blanket
    BY <1>1, EventTypes DEF EventKinds
  <1>4. /\ JobsGrow /\ pc = "recover" /\ signals' = Append(signals, e)
        /\ UNCHANGED <<inst, jobs, work, active, pc, made, dialogs, watchers, overtaken>>
    BY <1>2, <1>3, JobsSame DEF ProgressCallback, WorkerOnly
  <1>5. TypeOK'
    <2>1. /\ signals' \in Seq(Events)
          /\ \A i \in 1 .. Len(signals') :
                 signals'[i].kind # "analyse" => signals'[i].job \in 1 .. Len(jobs')
      BY <1>1, <1>3, <1>4, SignalsGrow DEF IsJob
    <2> QED BY <1>4, <2>1 DEF TypeOK, IsJob
  <1>6. RunsJob' /\ WorkMade'
    BY <1>4, RunsJobKept DEF WorkMade, Current
  <1>7. EventOK(e)'
    BY <1>1, <1>2, <1>3, <1>4 DEF EventOK, Made, Current
  <1> QED BY <1>3, <1>4, <1>5, <1>6, <1>7, WorkerSays

-----------------------------------------------------------------------------
(***************************************************************************)
(* The events the GUI thread handles.                                      *)
(***************************************************************************)
LEMMA SignalsShift ==
    ASSUME TypeOK, signals # <<>>
    PROVE  /\ Len(signals) \in Nat /\ Len(signals) >= 1
           /\ Head(signals) = signals[1] /\ signals[1] \in Events
           /\ signals[1].kind # "analyse" => IsJob(signals[1].job)
           /\ Tail(signals) \in Seq(Events) /\ Len(Tail(signals)) = Len(signals) - 1
           /\ \A i \in 1 .. Len(Tail(signals)) : Tail(signals)[i] = signals[i + 1]
  <1>1. signals \in Seq(Events) /\ Len(signals) \in Nat /\ Len(signals) # 0
    BY EmptySeq, LenProperties DEF TypeOK
  <1>2. 1 \in 1 .. Len(signals)
    BY <1>1
  <1> QED BY <1>1, <1>2, HeadTailProperties, ElementOfSeq DEF TypeOK

\* What still counts on the results of job j once the first event is handled.
Pending(j) == j = active \/ \E i \in 2 .. Len(signals) : signals[i].job = j

LEMMA EventHandled ==
    ASSUME LoadingInv, signals # <<>>, signals' = Tail(signals), signals[1].kind # "callback",
           UNCHANGED <<jobs, work, active, pc, made>>,
           inst' \in Instances, dialogs' \in Nat, watchers' \subseteq Nat, overtaken' \subseteq Nat,
           \A p \in Owners, j \in Nat :
               IsJob(j) /\ jobs[j].kind = "cfg" /\ Pending(j) /\ Current(p, j) => Current(p, j)',
           ResultsOfProject',
           \A r \in {inst'.cfg, inst'.cfb} : r.temp =>
               IsJob(r.job) /\ jobs[r.job].kind = "cfg" /\ Replaced(1, r.job)
    PROVE  LoadingInv'
  <1> USE DEF LoadingInv
  <1>1. /\ Len(signals) \in Nat /\ Len(signals') \in Nat /\ Len(signals) = Len(signals') + 1
        /\ signals' \in Seq(Events) /\ JobsGrow
        /\ \A i \in 1 .. Len(signals') : /\ signals'[i] = signals[i + 1]
                                        /\ i + 1 \in 2 .. Len(signals)
                                        /\ i + 1 \in 1 .. Len(signals)
        /\ \A i \in 2 .. Len(signals) : /\ i - 1 \in 1 .. Len(signals')
                                       /\ signals'[i - 1] = signals[i]
    <2>1. /\ Len(signals) \in Nat /\ Len(signals') = Len(signals) - 1 /\ Len(signals) >= 1
          /\ signals' \in Seq(Events) /\ JobsGrow
          /\ \A i \in 1 .. Len(signals') : signals'[i] = signals[i + 1]
      BY SignalsShift, JobsSame
    <2> QED BY <2>1
  <1>2. \A i \in 1 .. Len(signals) :
            signals[i] \in Events /\ (signals[i].kind # "analyse" => IsJob(signals[i].job))
    BY ElementOfSeq DEF TypeOK
  <1>3. TypeOK'
    BY <1>1, <1>2 DEF TypeOK, IsJob
  <1>4. RunsJob'
    BY <1>1, RunsJobKept
  <1>5. CallbackIsLast'
    <2> SUFFICES ASSUME NEW i \in 1 .. Len(signals'), signals'[i].kind = "callback"
                 PROVE  i = Len(signals') /\ pc' = "waiting" /\ signals'[i].job = active'
      BY DEF CallbackIsLast
    <2>1. PICK k \in 1 .. Len(signals) : k = i + 1 /\ signals'[i] = signals[k]
      BY <1>1
    <2>2. k = Len(signals) /\ pc = "waiting" /\ signals[k].job = active
      BY <2>1 DEF CallbackIsLast
    <2>3. i = Len(signals')
      <3>1. Len(signals) = Len(signals') + 1 /\ Len(signals') \in Nat
        BY <1>1
      <3> HIDE DEF LoadingInv
      <3> QED BY <2>1, <2>2, <3>1
    <2> QED BY <2>1, <2>2, <2>3
  <1>6. EventsMade'
    <2> SUFFICES ASSUME NEW i \in 1 .. Len(signals') PROVE EventOK(signals[i])'
      BY DEF EventsMade
    <2>1. PICK e \in Events : e = signals[i + 1] /\ e = signals'[i]
      BY <1>1, <1>2
    <2>2. /\ EventOK(e) /\ (e.kind # "analyse" => IsJob(e.job)) /\ Pending(e.job)
          /\ e.job \in Nat
      BY <1>1, <1>2, <2>1 DEF EventsMade, Pending, Events
    <2>3. EventOK(e)'
      BY <1>1, <2>2, EventKept
    <2> QED BY <2>1, <2>3
  <1>7. WorkMade'
    <2>1. made.cfb \in Owners /\ made.cfg \in Owners /\ active \in Nat /\ Pending(active)
      BY DEF TypeOK, Pending
    <2>2. pc \in {"begin", "recover"} => IsJob(active) /\ jobs[active].kind = "cfg"
      BY DEF RunsJob
    <2>3. \A p \in Owners : pc \in {"begin", "recover"} /\ Current(p, active) =>
              p = inst'.project \/ active \in overtaken'
      <3>1. PICK j \in Nat : j = active
        BY <2>1
      <3>2. \A p \in Owners : pc \in {"begin", "recover"} /\ Current(p, j) => Current(p, j)'
        BY <2>1, <2>2, <3>1
      <3> QED BY <3>1, <3>2 DEF Current
    <2> QED BY <2>1, <2>3 DEF WorkMade, Current
  <1>8. ASSUME NEW i \in 1 .. Len(signals), NEW j, Replaced(i, j) PROVE Replaced(i - 1, j)'
    <2>1. CASE FinalAfter(i, j)
      <3>1. PICK k \in 1 .. Len(signals) :
                k > i /\ signals[k].kind = "finished" /\ signals[k].job = j
        BY <2>1 DEF FinalAfter
      <3>2. k \in 2 .. Len(signals) /\ k - 1 > i - 1
        BY <1>1, <3>1
      <3>3. /\ k - 1 \in 1 .. Len(signals') /\ signals'[k - 1].kind = "finished"
            /\ signals'[k - 1].job = j
        BY <1>1, <3>1, <3>2
      <3> QED BY <3>2, <3>3 DEF Replaced, FinalAfter
    <2> QED BY <1>8, <2>1 DEF Replaced, Stopped, State
  <1>9. PeeksReplaced'
    <2> SUFFICES ASSUME NEW i \in 1 .. Len(signals'), signals'[i].kind = "peek"
                 PROVE  Replaced(i, signals[i].job)'
      BY DEF PeeksReplaced
    <2>1. PICK j : j = signals[i + 1].job /\ j = signals'[i].job
      BY <1>1
    <2>2. PICK k \in 1 .. Len(signals) : k = i + 1 /\ k - 1 = i
      BY <1>1
    <2>3. Replaced(k, j)
      BY <1>1, <2>1, <2>2 DEF PeeksReplaced
    <2>4. Replaced(i, j)'
      BY <1>8, <2>2, <2>3
    <2> QED BY <2>1, <2>4
  <1>10. ShownReplaced'
    <2> SUFFICES ASSUME NEW r \in {inst'.cfg, inst'.cfb}, r.temp
                 PROVE  IsJob(r.job)' /\ jobs'[r.job].kind = "cfg" /\ Replaced(0, r.job)'
      BY DEF ShownReplaced
    <2>1. IsJob(r.job) /\ jobs[r.job].kind = "cfg" /\ Replaced(1, r.job)
      OBVIOUS
    <2>2. 1 \in 1 .. Len(signals) /\ 1 - 1 = 0
      BY <1>1
    <2>3. Replaced(0, r.job)'
      BY <1>8, <2>1, <2>2
    <2> QED BY <2>1, <2>3 DEF IsJob
  <1> QED BY <1>3, <1>4, <1>5, <1>6, <1>7, <1>9, <1>10

\* What is shown waits for an event that is still to come, unless the first
\* event is the end of its job.
LEMMA ShownWaits ==
    ASSUME LoadingInv, signals # <<>>, NEW j, Replaced(0, j),
           ~(signals[1].kind = "finished" /\ signals[1].job = j)
    PROVE  Replaced(1, j)
  <1>1. Len(signals) \in Nat
    BY SignalsShift DEF LoadingInv
  <1>2. CASE FinalAfter(0, j)
    BY <1>1, <1>2 DEF FinalAfter, Replaced
  <1> QED BY <1>2 DEF Replaced

\* An event that changes nothing of the instance.
LEMMA NothingStored ==
    ASSUME LoadingInv, signals # <<>>, signals' = Tail(signals), signals[1].kind # "callback",
           UNCHANGED <<inst, jobs, work, active, pc, made, overtaken>>,
           dialogs' \in Nat, watchers' \subseteq Nat,
           signals[1].kind # "finished" \/ jobs[signals[1].job].kind # "cfg"
    PROVE  LoadingInv'
  <1>1. \A p \in Owners, j \in Nat : Current(p, j) => Current(p, j)'
    BY DEF Current
  <1>2. ResultsOfProject'
    BY DEF LoadingInv, ResultsOfProject
  <1>3. \A r \in {inst'.cfg, inst'.cfb} : r.temp =>
            IsJob(r.job) /\ jobs[r.job].kind = "cfg" /\ Replaced(1, r.job)
    BY ShownWaits DEF LoadingInv, ShownReplaced
  <1>4. inst' \in Instances /\ overtaken' \subseteq Nat
    BY DEF LoadingInv, TypeOK
  <1> QED BY <1>1, <1>2, <1>3, <1>4, EventHandled

\* A peek into the CFG or a finished job stores the results of the event.
LEMMA ResultsStored ==
    ASSUME LoadingInv, signals # <<>>, signals' = Tail(signals), signals[1].kind # "callback",
           UNCHANGED <<jobs, work, active, pc, made, dialogs, watchers, overtaken>>,
           NEW e \in Events, e = signals[1], OnCfgGenerated(e),
           IsJob(e.job), jobs[e.job].kind = "cfg",
           Made(e.cfg, e.job), Made(e.cfb, e.job),
           (e.cfg.temp \/ e.cfb.temp) => Replaced(1, e.job)
    PROVE  LoadingInv'
  <1>1. /\ inst' \in Instances /\ inst'.project = inst.project
        /\ inst'.cfg = e.cfg /\ inst'.cfb = e.cfb
    BY DEF LoadingInv, TypeOK, OnCfgGenerated, Instances, Events
  <1>2. \A p \in Owners, j \in Nat : Current(p, j) => Current(p, j)'
    BY <1>1 DEF Current
  <1>3. ResultsOfProject'
    BY <1>1 DEF ResultsOfProject, Made, Current
  <1>4. \A r \in {inst'.cfg, inst'.cfb} : r.temp =>
            IsJob(r.job) /\ jobs[r.job].kind = "cfg" /\ Replaced(1, r.job)
    BY <1>1 DEF Made
  <1>5. dialogs' \in Nat /\ watchers' \subseteq Nat /\ overtaken' \subseteq Nat
    BY DEF LoadingInv, TypeOK
  <1> QED BY <1>1, <1>2, <1>3, <1>4, <1>5, EventHandled

\* A database that comes replaces the project under the CFG jobs that still run
\* or whose events are still queued: they are overtaken.
LEMMA DatabaseStored ==
    ASSUME LoadingInv, signals # <<>>, signals' = Tail(signals), signals[1].kind # "callback",
           UNCHANGED <<jobs, work, active, pc, made, dialogs, watchers>>,
           NEW e \in Events, e = signals[1], OnDatabaseLoaded(e), IsJob(e.job),
           e.cfg = Result(jobs[e.job].file, FALSE, 0), e.cfb = e.cfg
    PROVE  LoadingInv'
  <1>1. PICK p \in Owners : p = jobs[e.job].file
    <2>1. jobs[e.job] \in JobRecs
      BY ElementOfSeq DEF LoadingInv, TypeOK, IsJob
    <2> QED BY <2>1 DEF JobRecs
  <1>2. /\ inst' = [project |-> p, cfg |-> e.cfg, cfb |-> e.cfb, vars |-> p]
        /\ overtaken' = overtaken \cup {j \in CfgEvents : j # 0 /\ jobs[j].kind = "cfg"}
    BY <1>1 DEF OnDatabaseLoaded
  <1>3. e.cfg \in Results /\ e.cfg.of = p /\ e.cfb.of = p /\ ~e.cfg.temp /\ ~e.cfb.temp
    <2>1. e.cfg = Result(p, FALSE, 0)
      BY <1>1
    <2> QED BY <2>1 DEF Result, Results
  <1>4. inst' \in Instances
    BY <1>2, <1>3 DEF Instances
  <1>5. CfgEvents \subseteq Nat /\ \A j \in Nat : Pending(j) => j \in CfgEvents
    <2>1. active \in Nat /\ \A i \in 2 .. Len(signals) : signals[i].job \in Nat
      <3>1. Len(signals) \in Nat
        BY LenProperties DEF LoadingInv, TypeOK
      <3>2. \A i \in 2 .. Len(signals) : signals[i] \in Events
        BY <3>1, ElementOfSeq DEF LoadingInv, TypeOK
      <3> QED BY <3>2 DEF Events, LoadingInv, TypeOK
    <2> QED BY <2>1 DEF CfgEvents, Pending
  <1>6. overtaken' \subseteq Nat
    BY <1>2, <1>5 DEF LoadingInv, TypeOK
  <1>7. \A q \in Owners, j \in Nat :
            IsJob(j) /\ jobs[j].kind = "cfg" /\ Pending(j) /\ Current(q, j) => Current(q, j)'
    <2> SUFFICES ASSUME NEW j \in Nat, IsJob(j), jobs[j].kind = "cfg", Pending(j)
                 PROVE  j \in overtaken'
      BY DEF Current
    <2>1. j # 0
      BY DEF IsJob
    <2> QED BY <1>2, <1>5, <2>1
  <1>8. ResultsOfProject'
    BY <1>2, <1>3 DEF ResultsOfProject
  <1>9. \A r \in {inst'.cfg, inst'.cfb} : r.temp =>
            IsJob(r.job) /\ jobs[r.job].kind = "cfg" /\ Replaced(1, r.job)
    BY <1>2, <1>3
  <1>10. dialogs' \in Nat /\ watchers' \subseteq Nat
    BY DEF LoadingInv, TypeOK
  <1> QED BY <1>4, <1>6, <1>7, <1>8, <1>9, <1>10, EventHandled

LEMMA FinishedStep ==
    ASSUME LoadingInv, signals # <<>>, signals' = Tail(signals),
           UNCHANGED <<jobs, work, active, pc, made, dialogs, watchers>>,
           NEW e \in Events, e = signals[1], e.kind = "finished", OnFinished(e)
    PROVE  LoadingInv'
  <1> USE DEF LoadingInv
  <1>1. /\ IsJob(e.job) /\ EventOK(e) /\ 1 \in 1 .. Len(signals)
        /\ dialogs' \in Nat /\ watchers' \subseteq Nat
    <2>1. 1 \in 1 .. Len(signals) /\ IsJob(e.job)
      BY SignalsShift
    <2> QED BY <2>1 DEF EventsMade, TypeOK
  <1>2. jobs[e.job].kind \in JobKinds /\ e.job # 0
    <2>1. jobs \in Seq(JobRecs) /\ e.job \in 1 .. Len(jobs)
      BY <1>1 DEF TypeOK, IsJob
    <2>2. jobs[e.job] \in JobRecs
      BY <2>1, ElementOfSeq
    <2> QED BY <2>1, <2>2 DEF JobRecs
  <1>3. CASE UNCHANGED <<inst, overtaken>> /\ jobs[e.job].kind # "cfg"
    BY <1>1, <1>3, NothingStored
  <1>4. CASE jobs[e.job].kind = "cfg"
    <2>1. /\ Made(e.cfg, e.job) /\ Made(e.cfb, e.job) /\ ~e.cfg.temp /\ ~e.cfb.temp
      BY <1>1, <1>4 DEF EventOK
    <2>2. e.cfg # Empty
      BY <1>2, <2>1 DEF Made, Empty
    <2>3. OnCfgGenerated(e) /\ UNCHANGED overtaken
      BY <1>4, <2>2 DEF OnFinished
    <2> QED BY <1>1, <1>4, <2>1, <2>3, ResultsStored
  <1>5. CASE OnDatabaseLoaded(e) /\ jobs[e.job].kind = "database" /\ e.cfg # Empty
    BY <1>1, <1>5, DatabaseStored DEF EventOK
  <1>6. jobs[e.job].kind = "binary" => e.cfg = Empty
    BY <1>1 DEF EventOK
  <1> QED BY <1>2, <1>3, <1>4, <1>5, <1>6 DEF OnFinished, JobKinds

\* The call that sets the new project is the only event there is, and no CFG job
\* runs: the job that asked for it waits.
LEMMA ProjectSet ==
    ASSUME LoadingInv, signals # <<>>, UNCHANGED <<jobs, work, active, made>>,
           NEW e \in Events, e = signals[1], e.kind = "callback", OnProjectBuilt(e.job)
    PROVE  LoadingInv'
  <1> USE DEF LoadingInv
  <1>1. /\ Len(signals) = 1 /\ pc = "waiting" /\ active = e.job /\ IsJob(e.job)
    <2>1. TypeOK /\ CallbackIsLast /\ RunsJob
      OBVIOUS
    <2>2. 1 \in 1 .. Len(signals) /\ IsJob(e.job)
      BY <2>1, SignalsShift
    <2>3. 1 = Len(signals) /\ pc = "waiting" /\ signals[1].job = active
      BY <2>1, <2>2 DEF CallbackIsLast
    <2> QED BY <2>2, <2>3
  <1>2. PICK a \in Events : a = Notice("analyse", 0) /\ a.kind = "analyse"
    BY EventTypes, ResultTypes DEF EventKinds, Notice
  <1>3. /\ signals' \in Seq(Events) /\ Len(signals') = 1 /\ signals'[1] = a
    <2>1. Tail(signals) \in Seq(Events) /\ Len(Tail(signals)) = 0
      BY <1>1, SignalsShift
    <2>2. PICK t \in Seq(Events) : Len(t) = 0 /\ signals' = Append(t, a)
      BY <1>2, <2>1 DEF OnProjectBuilt
    <2> QED BY <2>2, AppendProperties
  <1>4. PICK p \in Owners : p = jobs[e.job].file
    <2>1. jobs[e.job] \in JobRecs
      BY <1>1, ElementOfSeq DEF TypeOK, IsJob
    <2> QED BY <2>1 DEF JobRecs
  <1>5. /\ inst' \in Instances /\ inst'.cfg = Empty /\ inst'.cfb = Empty /\ ~Empty.temp
        /\ pc' = "built" /\ UNCHANGED <<dialogs, watchers, overtaken>>
    <2>1. inst.vars \in Owners /\ Empty \in Results
      BY ResultTypes DEF TypeOK, Instances
    <2>2. inst' = [project |-> p, cfg |-> Empty, cfb |-> Empty,
                   vars |-> IF inst.vars = NoProject THEN p ELSE inst.vars]
      BY <1>4 DEF OnProjectBuilt
    <2>3. pc' = "built" /\ UNCHANGED <<dialogs, watchers, overtaken>>
      BY <1>1 DEF OnProjectBuilt
    <2>4. ~Empty.temp
      BY DEF Empty
    <2> QED BY <2>1, <2>2, <2>3, <2>4 DEF Instances
  <1>6. TypeOK'
    BY <1>2, <1>3, <1>5 DEF TypeOK, IsJob, RunPcs
  <1>7. RunsJob' /\ WorkMade'
    BY <1>1, <1>5 DEF RunsJob, WorkMade, IsJob
  <1>8. \A i \in 1 .. Len(signals') : signals'[i].kind = "analyse"
    BY <1>2, <1>3
  <1>9. CallbackIsLast' /\ EventsMade' /\ PeeksReplaced'
    BY <1>8 DEF CallbackIsLast, EventsMade, PeeksReplaced, EventOK
  <1>10. ResultsOfProject' /\ ShownReplaced'
    BY <1>5 DEF ResultsOfProject, ShownReplaced
  <1> QED BY <1>6, <1>7, <1>9, <1>10

LEMMA HandleStep == ASSUME LoadingInv, HandleEvent PROVE LoadingInv'
  <1>1. TypeOK /\ signals # <<>> /\ UNCHANGED <<jobs, work, active, made>>
    BY DEF LoadingInv, HandleEvent
  <1>2. PICK e \in Events : e = signals[1] /\ e = Head(signals)
    BY <1>1, SignalsShift
  <1>3. /\ 1 \in 1 .. Len(signals) /\ e.kind \in EventKinds
        /\ e.kind # "analyse" => IsJob(e.job)
    BY <1>1, <1>2, SignalsShift DEF Events
  <1>4. CASE e.kind = "callback"
    <2>1. OnProjectBuilt(e.job)
      BY <1>2, <1>4 DEF HandleEvent
    <2> QED BY <1>1, <1>2, <1>4, <2>1, ProjectSet
  <1>5. CASE e.kind # "callback"
    <2>1. signals' = Tail(signals) /\ UNCHANGED pc
      BY <1>2, <1>5 DEF HandleEvent
    <2>2. dialogs \in Nat /\ watchers \subseteq Nat
      BY <1>1 DEF TypeOK
    <2>3. CASE e.kind = "finished"
      <3>1. OnFinished(e) /\ UNCHANGED <<dialogs, watchers>>
        BY <1>2, <2>3 DEF HandleEvent
      <3> QED BY <1>1, <1>2, <2>1, <2>3, <3>1, FinishedStep
    <2>4. CASE e.kind = "peek"
      <3>1. OnCfgGenerated(e) /\ UNCHANGED <<dialogs, watchers, overtaken>>
        BY <1>2, <2>4 DEF HandleEvent, OnCfgGenerated
      <3>2. /\ IsJob(e.job) /\ jobs[e.job].kind = "cfg"
            /\ Made(e.cfg, e.job) /\ Made(e.cfb, e.job) /\ Replaced(1, e.job)
        BY <1>2, <1>3, <2>4 DEF LoadingInv, EventsMade, PeeksReplaced, EventOK
      <3> QED BY <1>1, <1>2, <2>1, <2>4, <3>1, <3>2, ResultsStored
    <2>5. CASE e.kind = "starting"
      <3>1. OnJobStarted(e.job) /\ UNCHANGED <<inst, dialogs, overtaken>>
        BY <1>2, <2>5 DEF HandleEvent
      <3>2. watchers' \subseteq Nat
        <4>1. e.job \in Nat
          BY <1>3 DEF Events
        <4> QED BY <2>2, <3>1, <4>1 DEF OnJobStarted
      <3> QED BY <1>1, <1>2, <2>1, <2>2, <2>5, <3>1, <3>2, NothingStored
    <2>6. CASE e.kind = "analyse"
      <3>1. dialogs' = dialogs + 1 /\ UNCHANGED <<inst, watchers, overtaken>>
        BY <1>2, <2>6 DEF HandleEvent
      <3> QED BY <1>1, <1>2, <2>1, <2>2, <2>6, <3>1, NothingStored
    <2>7. CASE e.kind = "exception"
      <3>1. UNCHANGED <<inst, dialogs, watchers, overtaken>>
        BY <1>2, <2>7 DEF HandleEvent
      <3> QED BY <1>1, <1>2, <2>1, <2>2, <2>7, <3>1, NothingStored
    <2> QED BY <1>3, <1>5, <2>3, <2>4, <2>5, <2>6, <2>7 DEF EventKinds
  <1> QED BY <1>4, <1>5

-----------------------------------------------------------------------------
LEMMA NextLoadingInv == LoadingInv /\ [LoadingNext]_vars => LoadingInv'
  <1> SUFFICES ASSUME LoadingInv, [LoadingNext]_vars PROVE LoadingInv'
    OBVIOUS
  <1>1. CASE \E p \in Projects : LoadFile("binary", p) \/ LoadFile("database", p)
    BY <1>1, LoadFileStep
  <1>2. CASE RunAnalysis \/ \E accepted \in BOOLEAN : AnswerDialog(accepted)
    BY <1>2, DialogStep
  <1>3. CASE \E j \in 1 .. Len(jobs) : CancelJob(j) \/ EndWatcher(j)
    BY <1>3, CancelStep, WatcherStep
  <1>4. CASE WorkerStep
    BY <1>4, TakeJobStep, RaiseStep, BuildStep, GiveUpStep, ReturnStep, LoadDatabaseStep,
       AnalysisStep, ProgressStep, MakeFinalStep DEF WorkerStep
  <1>5. CASE HandleEvent
    BY <1>5, HandleStep
  <1>6. CASE UNCHANGED vars
    <2>1. TypeOK' /\ RunsJob' /\ WorkMade' /\ JobsGrow
      BY <1>6, JobsSame DEF vars, LoadingInv, TypeOK, IsJob, RunsJob, WorkMade, Current
    <2> QED BY <1>6, <2>1, SilentStep DEF vars
  <1> QED BY <1>1, <1>2, <1>3, <1>4, <1>5, <1>6 DEF LoadingNext

LEMMA LoadingInvariant == LoadingSpec => []LoadingInv
  <1>1. LoadingInit => LoadingInv
    BY InitLoadingInv
  <1>2. LoadingInv /\ [LoadingNext]_vars => LoadingInv'
    BY NextLoadingInv
  <1> QED BY <1>1, <1>2, PTL DEF LoadingSpec

(* The CFG and the CFB an instance shows are always of the project it has loaded,
   unless a database replaced the project while the CFG job that made them ran:
   for any files, any number of jobs, and every point at which the user can load
   something else. *)
THEOREM LoadedResultsOfProject == LoadingSpec => []ResultsOfProject
  <1>1. LoadingInv => ResultsOfProject
    BY DEF LoadingInv
  <1> QED BY <1>1, LoadingInvariant, PTL

(* Once no job is left and every event is handled, a temporary CFB is on show
   only when the job that published it failed or was cancelled. *)
THEOREM LoadedResultIsFinal == LoadingSpec => []SettledIsFinal
  <1>1. LoadingInv => SettledIsFinal
    <2> SUFFICES ASSUME LoadingInv, Quiet, NEW r \in {inst.cfg, inst.cfb}, r.temp
                 PROVE  State(r.job) \in {"FAILED", "CANCELLED"}
      BY DEF SettledIsFinal
    <2>1. IsJob(r.job) /\ Replaced(0, r.job)
      BY DEF LoadingInv, ShownReplaced
    <2>2. r.job # active
      BY <2>1 DEF Quiet, IsJob
    <2>3. ~FinalAfter(0, r.job)
      BY EmptySeq DEF Quiet, FinalAfter
    <2> QED BY <2>1, <2>2, <2>3 DEF Replaced, Stopped
  <1> QED BY <1>1, LoadingInvariant, PTL

-----------------------------------------------------------------------------
(***************************************************************************)
(* FeatureMap: who fills the strip while a CFG is made, and what is left of *)
(* it when the CFG is there.  SettledMapIsCfb is not inductive: that the    *)
(* final CFB stays what is shown needs that the end of a job is the last    *)
(* call that waits, so that neither a peek nor an object of the same job    *)
(* can come behind it.                                                      *)
(***************************************************************************)
\* The calls posted to the GUI thread.
Calls == {"refresh", "peek", "generated"}
\* The end of a job is the last call that waits, and no job runs behind it.
EndIsLast ==
  \A i \in 1 .. Len(posted) : posted[i] = "generated" => i = Len(posted) /\ ~job.on
\* The final CFB of the last job is there to stay, with all that is shown of it.
FinalIsSettled ==
  cfb.made = <<job.n, "final">> =>
    /\ ~job.on /\ posted = <<>> /\ ~pending
    /\ content = ContentOf(cfb.items) /\ layout = LaidOut(cfb, layout.width)
MapInv ==
  /\ posted \in Seq(Calls) /\ job \in [n : Nat, on : BOOLEAN]
  /\ cfb.made \in Nat \X {"none", "temporary", "final"} /\ cfb.made[1] <= job.n
  /\ pending \in BOOLEAN /\ stuck \in BOOLEAN
  /\ EndIsLast /\ FinalIsSettled /\ RefreshIsComing

\* What is laid out has the width it was given.
LEMMA Laid ==
  ASSUME NEW c, NEW w
  PROVE  LaidOut(c, w).width = w
  BY DEF LaidOut

\* Taking the first of the calls that wait.
LEMMA CallTaken ==
  ASSUME NEW s \in Seq(Calls), s # <<>>
  PROVE  /\ Tail(s) \in Seq(Calls) /\ Head(s) = s[1] /\ Len(Tail(s)) = Len(s) - 1 /\ Len(s) \in Nat \ {0}
         /\ \A i \in 1 .. Len(s) - 1 : Tail(s)[i] = s[i + 1]
         /\ \A c : c \in ToSet(s) /\ c # Head(s) => c \in ToSet(Tail(s))
<1>1. /\ Tail(s) \in Seq(Calls) /\ Head(s) = s[1] /\ Len(Tail(s)) = Len(s) - 1 /\ Len(s) \in Nat \ {0}
      /\ \A i \in 1 .. Len(s) - 1 : Tail(s)[i] = s[i + 1]
  BY HeadTailProperties, EmptySeq, LenProperties
<1>2. ASSUME NEW c, c \in ToSet(s), c # Head(s) PROVE c \in ToSet(Tail(s))
  <2>1. PICK i \in 1 .. Len(s) : c = s[i]
    BY <1>2, LenProperties DEF ToSet
  <2>2. i - 1 \in 1 .. Len(s) - 1 /\ Tail(s)[i - 1] = c
    BY <1>1, <1>2, <2>1
  <2>3. DOMAIN Tail(s) = 1 .. Len(s) - 1
    BY <1>1, LenProperties
  <2> QED
    BY <2>2, <2>3 DEF ToSet
<1> QED
  BY <1>1, <1>2

\* Posting one more call.
LEMMA CallPosted ==
  ASSUME NEW s \in Seq(Calls), NEW c \in Calls
  PROVE  /\ s \o <<c>> \in Seq(Calls) /\ Len(s \o <<c>>) = Len(s) + 1 /\ Len(s) \in Nat
         /\ \A i \in 1 .. Len(s) : (s \o <<c>>)[i] = s[i]
         /\ (s \o <<c>>)[Len(s) + 1] = c
         /\ ToSet(s \o <<c>>) = ToSet(s) \cup {c}
<1>1. <<c>> \in Seq(Calls) /\ Len(<<c>>) = 1 /\ <<c>>[1] = c
  OBVIOUS
<1>2. PICK t : t = s \o <<c>>
  OBVIOUS
<1>3. /\ t \in Seq(Calls) /\ Len(t) = Len(s) + 1 /\ Len(s) \in Nat
      /\ \A i \in 1 .. Len(s) : t[i] = s[i]
      /\ t[Len(s) + 1] = c
  BY <1>1, <1>2, ConcatProperties, LenProperties
<1>4. DOMAIN s = 1 .. Len(s) /\ DOMAIN t = 1 .. Len(s) + 1
  BY <1>3, LenProperties
<1>5. ToSet(t) = ToSet(s) \cup {c}
  BY <1>3, <1>4 DEF ToSet
<1> QED
  BY <1>2, <1>3, <1>5

\* Before there is a project nothing is posted and no CFB is there.
LEMMA MapInit == Init => MapInv
<1> SUFFICES ASSUME Init PROVE MapInv
  OBVIOUS
<1>1. /\ posted = <<>> /\ job = [n |-> 0, on |-> FALSE] /\ pending = FALSE /\ stuck = FALSE
      /\ cfb.made = <<0, "none">>
  BY DEF Init, NoCfb
<1>2. posted \in Seq(Calls) /\ job \in [n : Nat, on : BOOLEAN] /\ EndIsLast
  BY <1>1 DEF EndIsLast
<1>3. /\ cfb.made \in Nat \X {"none", "temporary", "final"} /\ cfb.made[1] <= job.n
      /\ FinalIsSettled
  BY <1>1 DEF FinalIsSettled
<1>4. pending \in BOOLEAN /\ stuck \in BOOLEAN /\ RefreshIsComing
  BY <1>1 DEF RefreshIsComing
<1> QED
  BY <1>2, <1>3, <1>4 DEF MapInv

\* refresh() either does all of its work or fails before it resets the mark.
LEMMA Refreshed ==
  ASSUME NEW c, NEW w, NEW h, RefreshWith(c, w, h), pending \in BOOLEAN, stuck \in BOOLEAN
  PROVE  /\ pending' \in BOOLEAN /\ stuck' \in BOOLEAN
         /\ pending' => pending /\ stuck'
         /\ h = NoHover => ~pending'
         /\ layout' = LaidOut(c, layout'.width)
  BY Laid DEF RefreshWith

\* One step for each action of the worker, the GUI thread and the user.
LEMMA MapStep == MapInv /\ [Next]_mapVars => MapInv'
<1> SUFFICES ASSUME MapInv, [Next]_mapVars PROVE MapInv'
  OBVIOUS
<1>1. /\ posted \in Seq(Calls) /\ job \in [n : Nat, on : BOOLEAN]
      /\ cfb.made \in Nat \X {"none", "temporary", "final"} /\ cfb.made[1] <= job.n
      /\ pending \in BOOLEAN /\ stuck \in BOOLEAN
      /\ EndIsLast /\ FinalIsSettled /\ RefreshIsComing
  BY DEF MapInv
<1>a. job.n \in Nat /\ \A i \in 1 .. Len(posted) : posted[i] = "generated" => i = Len(posted) /\ ~job.on
  BY <1>1 DEF EndIsLast
<1>2. /\ NoCfb.made = <<0, "none">> /\ \A k, i : Cfb(k, i).made = <<job.n, k>> /\ Cfb(k, i).items = i
      /\ <<>> \in Seq(Calls) /\ Calls = {"refresh", "peek", "generated"}
  BY DEF NoCfb, Cfb, Calls
<1>3. ASSUME NEW b \in DOMAIN Binaries, LoadProject(b) PROVE MapInv'
  <2>1. posted = <<>> /\ posted' = posted /\ job' = job /\ cfb' = NoCfb /\ RefreshWith(NoCfb, layout.width, NoHover)
    BY <1>3 DEF LoadProject, ReloadWith
  <2>2. pending' = FALSE /\ stuck' \in BOOLEAN
    BY <1>1, <2>1, Refreshed
  <2>3. cfb'.made = <<0, "none">> /\ cfb'.made # <<job'.n, "final">>
    BY <1>2, <2>1
  <2>4. EndIsLast' /\ FinalIsSettled' /\ RefreshIsComing'
    BY <2>1, <2>2, <2>3 DEF EndIsLast, FinalIsSettled, RefreshIsComing
  <2>5. cfb'.made \in Nat \X {"none", "temporary", "final"} /\ cfb'.made[1] <= job'.n
    BY <1>1, <2>1, <2>3
  <2> QED
    BY <1>1, <2>1, <2>2, <2>4, <2>5 DEF MapInv
<1>4. ASSUME NEW o, ObjectAdded(o) PROVE MapInv'
  <2>1. job.on /\ job' = job /\ cfb' = cfb /\ stuck' = stuck /\ cfb.made # <<job.n, "final">>
    BY <1>1, <1>4 DEF ObjectAdded, FinalIsSettled
  <2>2. CASE UNCHANGED <<pending, posted>>
    BY <1>1, <2>1, <2>2 DEF MapInv, EndIsLast, FinalIsSettled, RefreshIsComing
  <2>3. CASE pending' = TRUE /\ posted' = posted \o <<"refresh">>
    <3>1. /\ posted' \in Seq(Calls) /\ Len(posted') = Len(posted) + 1 /\ Len(posted) \in Nat
          /\ \A i \in 1 .. Len(posted) : posted'[i] = posted[i]
          /\ posted'[Len(posted) + 1] = "refresh"
          /\ "refresh" \in ToSet(posted')
      BY <1>1, <1>2, <2>3, CallPosted
    <3>2. EndIsLast'
      BY <1>1, <2>1, <3>1 DEF EndIsLast
    <3>3. FinalIsSettled' /\ RefreshIsComing'
      BY <2>1, <3>1 DEF FinalIsSettled, RefreshIsComing
    <3> QED
      BY <1>1, <2>1, <2>3, <3>1, <3>2, <3>3 DEF MapInv
  <2> QED
    BY <1>4, <2>2, <2>3 DEF ObjectAdded, Announce, Post
<1>5. CASE StartCfg
  <2>1. /\ job' = [n |-> job.n + 1, on |-> TRUE] /\ posted = <<>> /\ posted' = posted
        /\ cfb' = cfb /\ pending' = pending /\ stuck' = stuck
    BY <1>5 DEF StartCfg
  <2>2. job' \in [n : Nat, on : BOOLEAN] /\ job'.n = job.n + 1 /\ cfb.made[1] <= job'.n
    BY <1>1, <2>1
  <2>3. cfb'.made # <<job'.n, "final">>
    BY <1>1, <2>1, <2>2
  <2>4. EndIsLast' /\ FinalIsSettled' /\ RefreshIsComing'
    BY <1>1, <2>1, <2>3 DEF EndIsLast, FinalIsSettled, RefreshIsComing
  <2> QED
    BY <1>1, <2>1, <2>2, <2>4 DEF MapInv
<1>6. CASE Peek
  <2>1. /\ job.on /\ job' = job /\ cfb' = cfb /\ stuck' = stuck /\ pending' = pending
        /\ cfb.made # <<job.n, "final">> /\ posted' = posted \o <<"peek">>
    BY <1>1, <1>6 DEF Peek, Post, FinalIsSettled
  <2>2. /\ posted' \in Seq(Calls) /\ Len(posted') = Len(posted) + 1 /\ Len(posted) \in Nat
        /\ \A i \in 1 .. Len(posted) : posted'[i] = posted[i]
        /\ posted'[Len(posted) + 1] = "peek"
        /\ ToSet(posted) \subseteq ToSet(posted')
    BY <1>1, <1>2, <2>1, CallPosted
  <2>3. EndIsLast'
    BY <1>1, <2>1, <2>2 DEF EndIsLast
  <2>4. FinalIsSettled' /\ RefreshIsComing'
    BY <1>1, <2>1, <2>2 DEF FinalIsSettled, RefreshIsComing
  <2> QED
    BY <1>1, <2>1, <2>2, <2>3, <2>4 DEF MapInv
<1>7. ASSUME EndCfg(<<>>) \/ EndCfg(<<"generated">>) PROVE MapInv'
  <2>1. /\ job.on /\ job' = [job EXCEPT !.on = FALSE] /\ cfb' = cfb /\ stuck' = stuck /\ pending' = pending
        /\ cfb.made # <<job.n, "final">> /\ (posted' = posted \o <<>> \/ posted' = posted \o <<"generated">>)
    BY <1>1, <1>7 DEF EndCfg, Post, FinalIsSettled
  <2>2. job' \in [n : Nat, on : BOOLEAN] /\ job'.n = job.n /\ job'.on = FALSE
    BY <1>1, <2>1
  <2>3. FinalIsSettled'
    BY <2>1, <2>2 DEF FinalIsSettled
  <2>4. CASE posted' = posted \o <<>>
    <3>1. posted' = posted
      BY <1>1, <2>4, ConcatEmptySeq
    <3>2. EndIsLast' /\ RefreshIsComing'
      BY <1>1, <2>1, <2>2, <3>1 DEF EndIsLast, RefreshIsComing
    <3> QED
      BY <1>1, <2>1, <2>2, <2>3, <3>1, <3>2 DEF MapInv
  <2>5. CASE posted' = posted \o <<"generated">>
    <3>1. /\ posted' \in Seq(Calls) /\ Len(posted') = Len(posted) + 1 /\ Len(posted) \in Nat
          /\ \A i \in 1 .. Len(posted) : posted'[i] = posted[i]
          /\ ToSet(posted) \subseteq ToSet(posted')
      BY <1>1, <1>2, <2>5, CallPosted
    <3>2. EndIsLast'
      <4>1. ASSUME NEW i \in 1 .. Len(posted'), posted'[i] = "generated"
            PROVE  i = Len(posted') /\ ~job'.on
        <5>1. i \notin 1 .. Len(posted)
          BY <1>a, <2>1, <3>1, <4>1
        <5>2. i = Len(posted')
          BY <3>1, <4>1, <5>1
        <5> QED
          BY <2>2, <5>2
      <4> QED
        BY <4>1 DEF EndIsLast
    <3>3. RefreshIsComing'
      BY <1>1, <2>1, <3>1 DEF RefreshIsComing
    <3> QED
      BY <1>1, <2>1, <2>2, <2>3, <3>1, <3>2, <3>3 DEF MapInv
  <2> QED
    BY <2>1, <2>4, <2>5
<1>8. ASSUME UNCHANGED <<job, cfb, content, layout, pending, stuck, posted>> PROVE MapInv'
  BY <1>1, <1>8 DEF MapInv, EndIsLast, FinalIsSettled, RefreshIsComing
<1>9. ASSUME NEW c, posted # <<>>, Head(posted) = c, posted' = Tail(posted), job' = job
      PROVE  /\ posted' \in Seq(Calls) /\ EndIsLast' /\ (c = "generated" => posted' = <<>> /\ ~job.on)
             /\ (pending /\ c # "refresh" => "refresh" \in ToSet(posted') \/ stuck)
             /\ cfb.made # <<job.n, "final">>
  <2>1. /\ posted' \in Seq(Calls) /\ Head(posted) = posted[1] /\ Len(posted') = Len(posted) - 1
        /\ Len(posted) \in Nat \ {0}
        /\ \A i \in 1 .. Len(posted) - 1 : posted'[i] = posted[i + 1]
        /\ \A d : d \in ToSet(posted) /\ d # c => d \in ToSet(posted')
    BY <1>1, <1>9, CallTaken
  <2>2. EndIsLast'
    <3> SUFFICES ASSUME NEW i \in 1 .. Len(posted'), posted'[i] = "generated"
                 PROVE  i = Len(posted') /\ ~job'.on
      BY DEF EndIsLast
    <3>1. posted[i + 1] = "generated" /\ i + 1 \in 1 .. Len(posted)
      BY <2>1
    <3> QED
      <4>1. i + 1 = Len(posted) /\ ~job.on
        BY <1>a, <3>1
      <4>2. Len(posted') = i
        BY <2>1, <4>1
      <4>3. ~job'.on
        BY <1>9, <4>1
      <4> QED
        BY <4>2, <4>3
  <2>3. c = "generated" => posted' = <<>> /\ ~job.on
    <3> SUFFICES ASSUME c = "generated" PROVE posted' = <<>> /\ ~job.on
      OBVIOUS
    <3>1. Len(posted) = 1 /\ ~job.on
      <4>1. posted[1] = "generated" /\ 1 \in 1 .. Len(posted)
        BY <1>9, <2>1
      <4> QED
        BY <1>a, <4>1
    <3> QED
      BY <2>1, <3>1, EmptySeq
  <2> QED
    BY <1>1, <1>9, <2>1, <2>2, <2>3 DEF FinalIsSettled, RefreshIsComing
<1>10. CASE GuiRefresh
  <2>1. /\ posted # <<>> /\ posted' = Tail(posted) /\ job' = job /\ cfb' = cfb
        /\ RefreshWith(cfb, layout.width, hover)
    BY <1>10 DEF GuiRefresh, TakePosted
  <2>2. posted' \in Seq(Calls) /\ EndIsLast' /\ cfb.made # <<job.n, "final">>
    BY <1>9, <2>1
  <2>3. pending' \in BOOLEAN /\ stuck' \in BOOLEAN /\ (pending' => stuck')
    BY <1>1, <2>1, Refreshed
  <2>4. FinalIsSettled' /\ RefreshIsComing'
    BY <2>1, <2>2, <2>3 DEF FinalIsSettled, RefreshIsComing
  <2> QED
    BY <1>1, <2>1, <2>2, <2>3, <2>4 DEF MapInv
<1>11. CASE GuiPeek
  <2>1. /\ posted # <<>> /\ posted' = Tail(posted) /\ Head(posted) = "peek" /\ job' = job
        /\ cfb' = Cfb("temporary", {}) /\ pending' = pending /\ stuck' = stuck
    BY <1>11 DEF GuiPeek, TakePosted
  <2>2. posted' \in Seq(Calls) /\ EndIsLast' /\ (pending => "refresh" \in ToSet(posted') \/ stuck)
    BY <1>9, <2>1
  <2>3. cfb'.made = <<job.n, "temporary">> /\ cfb'.made # <<job'.n, "final">>
    BY <1>2, <2>1
  <2>4. FinalIsSettled' /\ RefreshIsComing'
    BY <2>1, <2>2, <2>3 DEF FinalIsSettled, RefreshIsComing
  <2>5. cfb'.made \in Nat \X {"none", "temporary", "final"} /\ cfb'.made[1] <= job'.n
    BY <1>1, <2>1, <2>3
  <2> QED
    BY <1>1, <2>1, <2>2, <2>4, <2>5 DEF MapInv
<1>12. CASE GuiCfgGenerated
  <2>1. /\ posted # <<>> /\ posted' = Tail(posted) /\ Head(posted) = "generated" /\ job' = job
        /\ cfb' = Cfb("final", Binaries[binary].items) /\ ReloadWith(cfb')
    BY <1>12 DEF GuiCfgGenerated, TakePosted
  <2>2. posted' = <<>> /\ ~job.on
    BY <1>9, <2>1
  <2>3. cfb'.made = <<job.n, "final">> /\ cfb' # NoCfb
    BY <1>2, <2>1
  <2>4. content' = ContentOf(cfb'.items) /\ RefreshWith(cfb', layout.width, NoHover)
    BY <2>1, <2>3 DEF ReloadWith
  <2>5. ~pending' /\ pending' \in BOOLEAN /\ stuck' \in BOOLEAN /\ layout' = LaidOut(cfb', layout'.width)
    <3>1. PICK c : c = cfb'
      OBVIOUS
    <3>2. RefreshWith(c, layout.width, NoHover)
      BY <2>4, <3>1
    <3>3. ~pending' /\ pending' \in BOOLEAN /\ stuck' \in BOOLEAN /\ layout' = LaidOut(c, layout'.width)
      BY <1>1, <3>2, Refreshed
    <3> QED
      BY <3>1, <3>3
  <2>6. EndIsLast' /\ FinalIsSettled' /\ RefreshIsComing'
    BY <2>1, <2>2, <2>4, <2>5 DEF EndIsLast, FinalIsSettled, RefreshIsComing
  <2>7. cfb'.made \in Nat \X {"none", "temporary", "final"} /\ cfb'.made[1] <= job'.n
    <3>1. PICK m : m = cfb'.made
      OBVIOUS
    <3>2. m = <<job.n, "final">>
      BY <2>3, <3>1
    <3>3. m \in Nat \X {"none", "temporary", "final"} /\ m[1] <= job.n
      BY <1>a, <3>2
    <3> QED
      BY <2>1, <3>1, <3>3
  <2> QED
    BY <1>1, <1>2, <2>1, <2>2, <2>5, <2>6, <2>7 DEF MapInv
<1>13. ASSUME NEW w, Resize(w) PROVE MapInv'
  <2>1. /\ RefreshWith(cfb, w, hover) /\ posted' = posted /\ job' = job /\ cfb' = cfb
        /\ content' = content
    BY <1>13 DEF Resize
  <2>2. /\ pending' \in BOOLEAN /\ stuck' \in BOOLEAN /\ (pending' => pending /\ stuck')
        /\ layout' = LaidOut(cfb, layout'.width)
    BY <1>1, <2>1, Refreshed
  <2>3. EndIsLast' /\ FinalIsSettled' /\ RefreshIsComing'
    BY <1>1, <2>1, <2>2 DEF EndIsLast, FinalIsSettled, RefreshIsComing
  <2> QED
    BY <1>1, <2>1, <2>2, <2>3 DEF MapInv
<1>14. CASE TimePasses
  BY <1>8, <1>14 DEF TimePasses
<1>15. ASSUME NEW x, HoverAt(x) PROVE MapInv'
  BY <1>8, <1>15 DEF HoverAt
<1>16. CASE HoverLeave
  BY <1>8, <1>16 DEF HoverLeave
<1>17. CASE UNCHANGED mapVars
  BY <1>8, <1>17 DEF mapVars
<1> QED
  BY <1>3, <1>4, <1>5, <1>6, <1>7, <1>10, <1>11, <1>12, <1>13, <1>14, <1>15, <1>16, <1>17 DEF Next

\* Whatever the worker announces and the user does, MapInv holds.
THEOREM MapAlwaysInv == Spec => []MapInv
  BY MapInit, MapStep, PTL DEF Spec

(* Once the last job has delivered its CFB the strip shows that CFB and nothing that was
   announced on the way, laid out in its regions, with no refresh owed, for all binaries,
   levels of detail and numbers of jobs. *)
THEOREM SettledMapIsFinal == Spec => []SettledMapIsCfb
<1>1. MapInv => SettledMapIsCfb
  BY DEF MapInv, FinalIsSettled, SettledMapIsCfb
<1> QED
  BY <1>1, MapAlwaysInv, PTL

(* While a refresh is marked as pending one is on its way to the GUI thread, unless the
   mark was left by a refresh that failed half way. *)
THEOREM RefreshAlwaysComing == Spec => []RefreshIsComing
<1>1. MapInv => RefreshIsComing
  BY DEF MapInv
<1> QED
  BY <1>1, MapAlwaysInv, PTL

-----------------------------------------------------------------------------
(***************************************************************************)
(* TaggedIntervals: what the maps below the strip say.  An address has the *)
(* tags of the stop that governs it, the last one not behind it; a stop can *)
(* be left out when it repeats the tags of the stop before it; what is      *)
(* added is rounded outwards to the bins it has a part in.                  *)
(***************************************************************************)
\* The least and the greatest of a set of stops.
LEMMA LeastIs ==
  ASSUME NEW S, S \subseteq Nat, S # {}
  PROVE  Min(S) \in S /\ \A x \in S : Min(S) <= x
<1>1. PICK R : R = {ss \in Nat \X Nat : ss[1] < ss[2]}
  OBVIOUS
<1>2. IsWellFoundedOn(R, Nat)
  BY <1>1, NatLessThanWellFounded, Zenon DEF OpToRel
<1>3. PICK x \in S : \A y \in S : <<y, x>> \notin R
  BY <1>2, WFMin
<1>4. ASSUME NEW y \in S PROVE x <= y
  <2>1. x \in Nat /\ y \in Nat /\ <<y, x>> \in Nat \X Nat
    OBVIOUS
  <2>2. ~(y < x)
    BY <1>1, <1>3, <2>1
  <2> QED
    BY <2>1, <2>2
<1> QED
  BY <1>3, <1>4 DEF Min

LEMMA GreatestIs ==
  ASSUME NEW S, S \subseteq Nat, S # {}, IsFiniteSet(S)
  PROVE  Max(S) \in S /\ \A x \in S : x <= Max(S)
<1> DEFINE From(x) == {y \in S : y >= x}
<1>1. \A x \in S : IsFiniteSet(From(x)) /\ Cardinality(From(x)) \in Nat
  BY FS_Subset, FS_CardinalityType
<1>2. PICK T : T = {n \in Nat : \E x \in S : n = Cardinality(From(x))}
  OBVIOUS
<1>3. T \subseteq Nat /\ T # {}
  BY <1>1, <1>2
<1>4. PICK n \in T : \A k \in T : n <= k
  BY <1>3, LeastIs
<1>5. PICK x \in S : n = Cardinality(From(x))
  BY <1>2, <1>4
<1>6. \A y \in S : y <= x
  <2> SUFFICES ASSUME NEW y \in S, y > x PROVE FALSE
    OBVIOUS
  <2>1. From(y) \subseteq From(x) /\ From(y) # From(x)
    <3>1. x \in From(x) /\ x \notin From(y)
      OBVIOUS
    <3>2. ASSUME NEW z \in From(y) PROVE z \in From(x)
      <4>1. z \in S /\ z >= y /\ x \in Nat /\ y \in Nat /\ z \in Nat
        OBVIOUS
      <4> QED
        BY <4>1
    <3> QED
      BY <3>1, <3>2, Zenon
  <2>2. Cardinality(From(y)) < Cardinality(From(x))
    BY <1>1, <2>1, FS_Subset
  <2>3. Cardinality(From(y)) \in T
    BY <1>1, <1>2
  <2> QED
    BY <1>1, <1>3, <1>4, <1>5, <2>2, <2>3
<1> QED
  BY <1>6 DEF Max

-----------------------------------------------------------------------------
Stops(m) == DOMAIN m \subseteq Nat /\ IsFiniteSet(DOMAIN m)
\* The interval an address falls into begins at s; none begins between p and s.
Governs(m, s, a) == s \in DOMAIN m /\ s <= a /\ \A t \in DOMAIN m : ~(s < t /\ t <= a)
Precedes(m, p, s) == p \in DOMAIN m /\ p < s /\ \A t \in DOMAIN m : ~(p < t /\ t < s)
IsFirst(m, s) == \A t \in DOMAIN m : t >= s
IsLast(m, s) == \A t \in DOMAIN m : t <= s
TagsBefore(m, s) == IF s = 0 THEN {} ELSE TagsAt(m, s - 1)

LEMMA GovernorIs ==
  ASSUME NEW m, Stops(m), NEW a \in Nat
  PROVE  (\E s \in DOMAIN m : Governs(m, s, a)) \/ \A t \in DOMAIN m : t > a
<1>1. UpTo(m, a) \subseteq Nat /\ IsFiniteSet(UpTo(m, a)) /\ UpTo(m, a) = {s \in DOMAIN m : s <= a}
  BY FS_Subset DEF Stops, UpTo
<1>2. CASE UpTo(m, a) = {}
  BY <1>1, <1>2 DEF Stops
<1>3. CASE UpTo(m, a) # {}
  <2>1. PICK s : s = Max(UpTo(m, a))
    OBVIOUS
  <2>2. s \in UpTo(m, a) /\ \A x \in UpTo(m, a) : x <= s
    BY <1>1, <1>3, <2>1, GreatestIs
  <2> QED
    BY <1>1, <2>2 DEF Stops, Governs
<1> QED
  BY <1>2, <1>3

LEMMA TagsOfGovernor ==
  ASSUME NEW m, Stops(m), NEW a \in Nat, NEW s, Governs(m, s, a)
  PROVE  TagsAt(m, a) = m[s]
<1>1. UpTo(m, a) \subseteq Nat /\ IsFiniteSet(UpTo(m, a)) /\ UpTo(m, a) = {t \in DOMAIN m : t <= a}
  BY FS_Subset DEF Stops, UpTo
<1>2. s \in UpTo(m, a) /\ s \in Nat
  BY <1>1 DEF Governs, Stops
<1>3. PICK g : g = Max(UpTo(m, a))
  OBVIOUS
<1>4. g \in UpTo(m, a) /\ \A x \in UpTo(m, a) : x <= g
  BY <1>1, <1>2, <1>3, GreatestIs
<1>5. g = s
  BY <1>1, <1>2, <1>4 DEF Governs, Stops
<1> QED
  BY <1>2, <1>3, <1>5 DEF TagsAt

LEMMA TagsOfNone ==
  ASSUME NEW m, Stops(m), NEW a \in Nat, \A t \in DOMAIN m : t > a
  PROVE  TagsAt(m, a) = {}
<1>1. UpTo(m, a) = {}
  BY DEF Stops, UpTo
<1> QED
  BY <1>1 DEF TagsAt

LEMMA TagsBeforeFirst ==
  ASSUME NEW m, Stops(m), NEW s \in Nat, IsFirst(m, s)
  PROVE  TagsBefore(m, s) = {}
<1>1. CASE s # 0
  <2>1. s - 1 \in Nat /\ \A t \in DOMAIN m : t > s - 1
    BY <1>1 DEF IsFirst, Stops
  <2> QED
    BY <1>1, <2>1, TagsOfNone DEF TagsBefore
<1> QED
  BY <1>1 DEF TagsBefore

LEMMA TagsBeforeOther ==
  ASSUME NEW m, Stops(m), NEW s \in Nat, NEW p, Precedes(m, p, s)
  PROVE  TagsBefore(m, s) = m[p] /\ ~IsFirst(m, s)
<1>1. p \in Nat /\ p < s /\ s # 0 /\ s - 1 \in Nat
  BY DEF Precedes, Stops
<1>2. Governs(m, p, s - 1)
  BY <1>1 DEF Precedes, Governs, Stops
<1>3. ~IsFirst(m, s)
  BY <1>1 DEF IsFirst, Precedes
<1> QED
  BY <1>1, <1>2, <1>3, TagsOfGovernor DEF TagsBefore

LEMMA PrecedesOrFirst ==
  ASSUME NEW m, Stops(m), NEW s \in Nat
  PROVE  (\E p \in DOMAIN m : Precedes(m, p, s)) \/ IsFirst(m, s)
<1>1. CASE s = 0
  BY <1>1 DEF IsFirst, Stops
<1>2. CASE s # 0
  <2>1. s - 1 \in Nat
    BY <1>2
  <2>2. CASE \A t \in DOMAIN m : t > s - 1
    BY <2>1, <2>2 DEF IsFirst, Stops
  <2>3. ASSUME NEW p \in DOMAIN m, Governs(m, p, s - 1) PROVE Precedes(m, p, s)
    BY <2>1, <2>3 DEF Governs, Precedes, Stops
  <2> QED
    BY <2>1, <2>2, <2>3, GovernorIs
<1> QED
  BY <1>1, <1>2

\* Whether two maps with the same governing tags agree: the tags at an address depend
\* on its governor alone.
LEMMA SameBefore ==
  ASSUME NEW m, NEW n, NEW s \in Nat,
         s # 0 => TagsAt(n, s - 1) = TagsAt(m, s - 1)
  PROVE  TagsBefore(n, s) = TagsBefore(m, s)
  BY DEF TagsBefore

-----------------------------------------------------------------------------
\* _insert_stop: a stop more, and the same tags everywhere.
LEMMA StopInserted ==
  ASSUME NEW m, Stops(m), NEW a \in Nat
  PROVE  /\ Stops(InsertStop(m, a)) /\ DOMAIN InsertStop(m, a) = DOMAIN m \cup {a}
         /\ \A s \in DOMAIN m : InsertStop(m, a)[s] = m[s]
         /\ a \notin DOMAIN m => InsertStop(m, a)[a] = TagsAt(m, a)
<1>1. PICK n : n = InsertStop(m, a)
  OBVIOUS
<1>2. n = [s \in DOMAIN m \cup {a} |-> IF s \in DOMAIN m THEN m[s] ELSE TagsAt(m, a)]
  BY <1>1 DEF InsertStop, TagsAt
<1>3. DOMAIN n = DOMAIN m \cup {a}
  BY <1>2
<1>4. (a \notin DOMAIN m => n[a] = TagsAt(m, a)) /\ \A s \in DOMAIN m : n[s] = m[s]
  BY <1>2
<1>5. IsFiniteSet(DOMAIN n)
  BY <1>3, FS_AddElement DEF Stops
<1> QED
  BY <1>1, <1>3, <1>4, <1>5 DEF Stops

LEMMA InsertedTags ==
  ASSUME NEW m, Stops(m), NEW a \in Nat, NEW n, n = InsertStop(m, a), NEW b \in Nat
  PROVE  TagsAt(n, b) = TagsAt(m, b)
<1>1. /\ Stops(n) /\ DOMAIN n = DOMAIN m \cup {a}
      /\ \A s \in DOMAIN m : n[s] = m[s]
      /\ a \notin DOMAIN m => n[a] = TagsAt(m, a)
  BY StopInserted
<1>2. CASE a \notin DOMAIN m /\ Governs(n, a, b)
  <2>1. n[a] = TagsAt(m, a) /\ TagsAt(n, b) = n[a]
    BY <1>1, <1>2, TagsOfGovernor
  <2>2. CASE \E s \in DOMAIN m : Governs(m, s, a)
    <3>1. PICK s \in DOMAIN m : Governs(m, s, a)
      BY <2>2
    <3>2. Governs(m, s, b)
      BY <1>1, <1>2, <3>1 DEF Governs, Stops
    <3> QED
      BY <2>1, <3>1, <3>2, TagsOfGovernor
  <2>3. CASE \A t \in DOMAIN m : t > a
    <3>1. \A t \in DOMAIN m : t > b
      BY <1>1, <1>2, <2>3 DEF Governs, Stops
    <3> QED
      BY <2>1, <2>3, <3>1, TagsOfNone
  <2> QED
    BY <2>2, <2>3, GovernorIs
<1>4. ASSUME NEW s \in DOMAIN m, Governs(n, s, b) PROVE TagsAt(n, b) = TagsAt(m, b)
  <2>1. Governs(m, s, b) /\ n[s] = m[s]
    BY <1>1, <1>4 DEF Governs
  <2> QED
    BY <1>1, <1>4, <2>1, TagsOfGovernor
<1>5. CASE \A t \in DOMAIN n : t > b
  BY <1>1, <1>5, TagsOfNone
<1> QED
  BY <1>1, <1>2, <1>4, <1>5, GovernorIs

\* The loop of add: the tags from lo to hi, and no other, are OR'd.
LEMMA RangeTagged ==
  ASSUME NEW m, Stops(m), NEW lo \in DOMAIN m, NEW hi \in DOMAIN m, lo < hi, NEW tags,
         NEW n, n = TagRange(m, lo, hi, tags), NEW a \in Nat
  PROVE  /\ Stops(n) /\ DOMAIN n = DOMAIN m
         /\ TagsAt(n, a) = IF lo <= a /\ a < hi THEN TagsAt(m, a) \cup tags ELSE TagsAt(m, a)
<1>1. /\ Stops(n) /\ DOMAIN n = DOMAIN m
      /\ \A s \in DOMAIN m : n[s] = IF lo <= s /\ s < hi THEN m[s] \cup tags ELSE m[s]
  BY DEF TagRange, Stops
<1>2. CASE \A t \in DOMAIN m : t > a
  <2>1. TagsAt(n, a) = {} /\ TagsAt(m, a) = {}
    BY <1>1, <1>2, TagsOfNone
  <2> QED
    BY <1>1, <1>2, <2>1 DEF Stops
<1>3. ASSUME NEW s \in DOMAIN m, Governs(m, s, a)
      PROVE  TagsAt(n, a) = IF lo <= a /\ a < hi THEN TagsAt(m, a) \cup tags ELSE TagsAt(m, a)
  <2>1. Governs(n, s, a)
    BY <1>1, <1>3 DEF Governs
  <2>2. TagsAt(n, a) = n[s] /\ TagsAt(m, a) = m[s]
    BY <1>1, <1>3, <2>1, TagsOfGovernor
  <2>3. (lo <= a /\ a < hi) <=> (lo <= s /\ s < hi)
    BY <1>3 DEF Governs, Stops
  <2> QED
    BY <1>1, <2>2, <2>3
<1> QED
  BY <1>1, <1>2, <1>3, GovernorIs

-----------------------------------------------------------------------------
\* Stops that have the tags of the stop before them.
Repeats(m, e) == \E p \in DOMAIN m : Precedes(m, p, e) /\ m[p] = m[e]

SameTags(m, n) == \A a \in Nat : TagsAt(n, a) = TagsAt(m, a)
Dropped(m, n, E) ==
  /\ E \subseteq DOMAIN m /\ \A e \in E : Repeats(m, e)
  /\ DOMAIN n = DOMAIN m \ E /\ \A s \in DOMAIN n : n[s] = m[s]

\* However many of them go at once, the tags stay where they are.
LEMMA RepeatsGone ==
  ASSUME NEW m, Stops(m), NEW E, NEW n, Dropped(m, n, E)
  PROVE  Stops(n) /\ SameTags(m, n)
<1>0. /\ E \subseteq DOMAIN m /\ \A e \in E : Repeats(m, e)
      /\ DOMAIN n = DOMAIN m \ E /\ \A s \in DOMAIN n : n[s] = m[s]
  BY DEF Dropped
<1>1. Stops(n)
  BY <1>0, FS_Subset DEF Stops
<1>2. ASSUME NEW a \in Nat, NEW g \in DOMAIN m, Governs(m, g, a) PROVE TagsAt(n, a) = TagsAt(m, a)
  <2>1. PICK K : K = {s \in DOMAIN m : s <= g /\ \A t \in DOMAIN m : s <= t /\ t <= g => m[t] = m[g]}
    OBVIOUS
  <2>2. K \subseteq Nat /\ g \in K
    BY <2>1 DEF Stops
  <2>3. PICK k \in K : \A x \in K : k <= x
    BY <2>2, LeastIs
  <2>4. k \notin E
    <3> SUFFICES ASSUME k \in E PROVE FALSE
      OBVIOUS
    <3>1. PICK p \in DOMAIN m : Precedes(m, p, k) /\ m[p] = m[k]
      BY <1>0 DEF Repeats
    <3>2. k \in DOMAIN m /\ k <= g /\ m[k] = m[g] /\ p < k /\ p \in Nat /\ k \in Nat /\ g \in Nat
      BY <2>1, <2>3, <3>1 DEF Precedes, Stops
    <3>3. ASSUME NEW t \in DOMAIN m, p <= t, t <= g PROVE m[t] = m[g]
      <4>1. CASE t = p
        BY <3>1, <3>2, <4>1
      <4>2. CASE k <= t
        BY <2>1, <2>3, <3>3, <4>2
      <4>3. ~(p < t /\ t < k) /\ t \in Nat
        BY <3>1 DEF Precedes, Stops
      <4> QED
        BY <3>2, <3>3, <4>1, <4>2, <4>3
    <3>4. p \in K
      BY <2>1, <3>2, <3>3
    <3> QED
      BY <2>3, <3>2, <3>4
  <2>5. k \in DOMAIN n /\ k <= a /\ k \in Nat /\ g \in Nat
    BY <1>0, <1>2, <2>1, <2>2, <2>3, <2>4 DEF Governs, Stops
  <2>6. PICK s \in DOMAIN n : Governs(n, s, a)
    BY <1>1, <2>5, GovernorIs DEF Stops
  <2>7. k <= s /\ s <= g /\ s \in DOMAIN m /\ s \in Nat
    BY <1>0, <1>1, <1>2, <2>5, <2>6 DEF Governs, Stops
  <2>8. m[s] = m[g] /\ n[s] = m[s]
    BY <1>0, <2>1, <2>3, <2>6, <2>7
  <2> QED
    BY <1>1, <1>2, <2>6, <2>8, TagsOfGovernor
<1>3. ASSUME NEW a \in Nat, \A t \in DOMAIN m : t > a PROVE TagsAt(n, a) = TagsAt(m, a)
  BY <1>0, <1>1, <1>3, TagsOfNone
<1>4. SameTags(m, n)
  BY <1>2, <1>3, GovernorIs DEF SameTags
<1> QED
  BY <1>1, <1>4

\* What irange looks at: all stops from the one before lo, or else the first of all, to
\* the one behind hi, or else the last of all.
Reach(m, first, last, lo, hi) ==
  /\ first \in DOMAIN m /\ last \in DOMAIN m
  /\ \A s \in DOMAIN m : s < lo => s <= first
  /\ first < lo \/ IsFirst(m, first)
  /\ last > hi \/ IsLast(m, last)

LEMMA IrangeStopsAre ==
  ASSUME NEW m, Stops(m), DOMAIN m # {}, NEW lo \in Nat, NEW hi \in Nat
  PROVE  \E first \in DOMAIN m, last \in DOMAIN m :
           /\ Reach(m, first, last, lo, hi)
           /\ IrangeStops(m, lo, hi) = {s \in DOMAIN m : first <= s /\ s <= last}
<1>1. PICK before : before = {s \in DOMAIN m : s < lo}
  OBVIOUS
<1>2. PICK first : first = IF before = {} THEN Min(DOMAIN m) ELSE Max(before)
  OBVIOUS
<1>3. PICK last : last = IF Behind(m, hi) = {} THEN Max(DOMAIN m) ELSE Min(Behind(m, hi))
  OBVIOUS
<1>4. IrangeStops(m, lo, hi) = {s \in DOMAIN m : first <= s /\ s <= last}
  BY <1>1, <1>2, <1>3 DEF IrangeStops
<1>5. /\ DOMAIN m \subseteq Nat /\ IsFiniteSet(DOMAIN m) /\ IsFiniteSet(before)
      /\ before \subseteq Nat
  BY <1>1, FS_Subset DEF Stops
<1>6. /\ first \in DOMAIN m /\ (first < lo \/ IsFirst(m, first))
      /\ \A s \in DOMAIN m : s < lo => s <= first
  <2>1. CASE before = {}
    <3>1. first \in DOMAIN m /\ \A x \in DOMAIN m : first <= x
      BY <1>2, <1>5, <2>1, LeastIs
    <3> QED
      BY <1>1, <1>5, <2>1, <3>1 DEF IsFirst
  <2>2. CASE before # {}
    <3>1. first \in before /\ \A x \in before : x <= first
      BY <1>2, <1>5, <2>2, GreatestIs
    <3> QED
      BY <1>1, <1>5, <3>1
  <2> QED
    BY <2>1, <2>2
<1>7. last \in DOMAIN m /\ (last > hi \/ IsLast(m, last))
  <2>1. Behind(m, hi) = {s \in DOMAIN m : s > hi}
    BY DEF Behind
  <2>2. CASE Behind(m, hi) = {}
    <3>1. last \in DOMAIN m /\ \A x \in DOMAIN m : x <= last
      BY <1>3, <1>5, <2>2, GreatestIs
    <3> QED
      BY <3>1 DEF IsLast
  <2>3. CASE Behind(m, hi) # {}
    <3>1. last \in Behind(m, hi)
      BY <1>3, <1>5, <2>1, <2>3, LeastIs
    <3> QED
      BY <2>1, <3>1
  <2> QED
    BY <2>2, <2>3
<1>8. Reach(m, first, last, lo, hi)
  BY <1>6, <1>7 DEF Reach
<1> QED
  BY <1>4, <1>6, <1>7, <1>8

LEMMA ReachOfIrange ==
  ASSUME NEW m, Stops(m), NEW lo \in DOMAIN m, NEW hi \in DOMAIN m, lo < hi
  PROVE  \E S : /\ S = IrangeStops(m, lo, hi) /\ S \subseteq DOMAIN m /\ S # {} /\ m # NoStops
                /\ \A s \in S, t \in S, x \in DOMAIN m : s <= x /\ x <= t => x \in S
                /\ \A s \in DOMAIN m : lo <= s /\ s <= hi => s \in S
                /\ \A s \in DOMAIN m, p \in DOMAIN m :
                      lo <= s /\ s <= hi /\ Precedes(m, p, s) => p \in S
                /\ \A s \in DOMAIN m, t \in DOMAIN m :
                      lo <= s /\ s <= hi /\ t > s => \E x \in S : x > s
<1>1. DOMAIN m \subseteq Nat /\ lo \in Nat /\ hi \in Nat
  BY DEF Stops
<1>2. PICK first \in DOMAIN m, last \in DOMAIN m :
        /\ Reach(m, first, last, lo, hi)
        /\ IrangeStops(m, lo, hi) = {s \in DOMAIN m : first <= s /\ s <= last}
  <2>1. DOMAIN m # {} /\ Stops(m) /\ lo \in Nat /\ hi \in Nat
    BY <1>1
  <2> HIDE <1>1
  <2> QED
    BY <2>1, IrangeStopsAre
<1>3. PICK S : S = {s \in DOMAIN m : first <= s /\ s <= last}
  OBVIOUS
<1>4. first <= lo /\ last >= hi /\ (last > hi \/ IsLast(m, last))
  BY <1>1, <1>2 DEF Reach, IsFirst, IsLast
<1>5. /\ S \subseteq DOMAIN m /\ first \in S
      /\ \A s \in S, t \in S, x \in DOMAIN m : s <= x /\ x <= t => x \in S
      /\ \A s \in DOMAIN m : lo <= s /\ s <= hi => s \in S
  BY <1>1, <1>3, <1>4
<1>6. ASSUME NEW s \in DOMAIN m, NEW p \in DOMAIN m, lo <= s, s <= hi, Precedes(m, p, s)
      PROVE  p \in S
  <2>1. p < s /\ ~(p < first /\ first < s)
    BY <1>6 DEF Precedes
  <2>2. first <= p
    <3>1. CASE IsFirst(m, first)
      BY <1>1, <3>1 DEF IsFirst
    <3>2. CASE first < lo
      BY <1>1, <1>6, <2>1, <3>2
    <3> QED
      BY <1>2, <3>1, <3>2 DEF Reach
  <2> QED
    BY <1>1, <1>3, <1>4, <1>6, <2>1, <2>2
<1>7. ASSUME NEW s \in DOMAIN m, NEW t \in DOMAIN m, lo <= s, s <= hi, t > s
      PROVE  \E x \in S : x > s
  <2>1. last \in S
    BY <1>1, <1>3, <1>4
  <2>2. last > s
    BY <1>1, <1>4, <1>7 DEF IsLast
  <2> QED
    BY <2>1, <2>2
<1>8. m # NoStops
  <2>1. DOMAIN m # {}
    OBVIOUS
  <2>2. DOMAIN NoStops = {}
    BY DEF NoStops
  <2> QED
    BY <2>1, <2>2
<1> QED
  BY <1>2, <1>3, <1>5, <1>6, <1>7, <1>8

\* The interval of irange that begins at s ends at the next of the stops looked at.
Piece(m, S, s) == [addr |-> s, size |-> Min({t \in S : t > s}) - s, tags |-> m[s]]
End(r) == r.addr + r.size
Follows(S, s, e) == e \in S /\ s < e /\ \A x \in S : x > s => e <= x

IsPiece(m, S, s, r) == r.addr = s /\ r.tags = m[s] /\ Follows(S, s, End(r))

LEMMA PieceIs ==
  ASSUME NEW m, NEW S, S \subseteq Nat, IsFiniteSet(S), NEW s \in S, s # Max(S),
         NEW r, r = Piece(m, S, s)
  PROVE  IsPiece(m, S, s, r)
<1>1. PICK top : top = Max(S)
  OBVIOUS
<1>2. {t \in S : t > s} \subseteq Nat /\ {t \in S : t > s} # {}
  <2>1. top \in S /\ s <= top /\ s # top
    BY <1>1, GreatestIs
  <2>2. top > s
    BY <2>1
  <2> QED
    BY <2>1, <2>2
<1>3. PICK e : e = Min({t \in S : t > s})
  OBVIOUS
<1>4. e \in {t \in S : t > s} /\ \A x \in {t \in S : t > s} : e <= x
  BY <1>2, <1>3, LeastIs
<1>5. Follows(S, s, e) /\ e \in Nat
  BY <1>4 DEF Follows
<1>6. s + (e - s) = e
  BY <1>5
<1> QED
  BY <1>3, <1>5, <1>6 DEF Piece, End, IsPiece

LEMMA PiecesOfIrange ==
  ASSUME NEW m, m # NoStops, NEW lo, NEW hi, NEW S, S = IrangeStops(m, lo, hi)
  PROVE  Irange(m, lo, hi) = {Piece(m, S, s) : s \in S \ {Max(S)}}
  BY DEF Irange, Between, Piece

LEMMA ExtraneousAre ==
  ASSUME NEW m, Stops(m), NEW lo \in DOMAIN m, NEW hi \in DOMAIN m, lo < hi,
         NEW E, E = ExtraneousStops(m, lo, hi)
  PROVE  /\ E \subseteq DOMAIN m
         /\ \A e \in E : Repeats(m, e)
         /\ \A s \in DOMAIN m : lo <= s /\ s <= hi /\ Repeats(m, s) /\ ~IsLast(m, s) => s \in E
<1>1. PICK S : /\ S = IrangeStops(m, lo, hi) /\ S \subseteq DOMAIN m /\ S # {} /\ m # NoStops
               /\ \A s \in S, t \in S, x \in DOMAIN m : s <= x /\ x <= t => x \in S
               /\ \A s \in DOMAIN m : lo <= s /\ s <= hi => s \in S
               /\ \A s \in DOMAIN m, p \in DOMAIN m :
                     lo <= s /\ s <= hi /\ Precedes(m, p, s) => p \in S
               /\ \A s \in DOMAIN m, t \in DOMAIN m :
                     lo <= s /\ s <= hi /\ t > s => \E x \in S : x > s
  BY ReachOfIrange
<1>2. S \subseteq Nat /\ IsFiniteSet(S) /\ DOMAIN m \subseteq Nat
  BY <1>1, FS_Subset DEF Stops
<1>3. PICK I : I = Irange(m, lo, hi)
  OBVIOUS
<1>4. I = {Piece(m, S, s) : s \in S \ {Max(S)}}
  BY <1>1, <1>3, PiecesOfIrange
<1>5. E = {r.addr : r \in {r \in I : \E q \in I : q.addr + q.size = r.addr /\ q.tags = r.tags}}
  BY <1>3 DEF ExtraneousStops
<1>6. ASSUME NEW e \in E PROVE e \in DOMAIN m /\ Repeats(m, e)
  <2>1. PICK r \in I, q \in I : r.addr = e /\ q.addr + q.size = e /\ q.tags = r.tags
    BY <1>5
  <2>2. PICK p \in S \ {Max(S)} : q = Piece(m, S, p)
    BY <1>4
  <2>3. PICK s \in S \ {Max(S)} : r = Piece(m, S, s)
    BY <1>4
  <2>4. s = e /\ r.tags = m[e]
    <3>1. IsPiece(m, S, s, r)
      BY <1>2, <2>3, PieceIs
    <3> QED
      BY <2>1, <3>1 DEF IsPiece
  <2>5. q.tags = m[p] /\ Follows(S, p, e)
    <3>1. IsPiece(m, S, p, q)
      BY <1>2, <2>2, PieceIs
    <3> QED
      BY <2>1, <3>1 DEF IsPiece, End
  <2>6. Precedes(m, p, e)
    <3>1. p \in S /\ e \in S /\ p < e /\ p \in DOMAIN m /\ e \in DOMAIN m
      BY <1>1, <2>3, <2>4, <2>5 DEF Follows
    <3>2. ASSUME NEW t \in DOMAIN m, p < t, t < e PROVE FALSE
      <4>1. t \in S
        BY <1>1, <1>2, <3>1, <3>2
      <4> QED
        BY <1>2, <2>5, <3>1, <3>2, <4>1 DEF Follows
    <3> QED
      BY <3>1, <3>2 DEF Precedes
  <2> QED
    BY <1>1, <2>1, <2>2, <2>3, <2>4, <2>5, <2>6 DEF Repeats
<1>7. ASSUME NEW s \in DOMAIN m, lo <= s, s <= hi, Repeats(m, s), ~IsLast(m, s) PROVE s \in E
  <2>1. PICK p \in DOMAIN m : Precedes(m, p, s) /\ m[p] = m[s]
    BY <1>7 DEF Repeats
  <2>2. s \in S /\ p \in S /\ p < s
    BY <1>1, <1>7, <2>1 DEF Precedes
  <2>3. PICK t \in DOMAIN m : t > s
    BY <1>2, <1>7 DEF IsLast
  <2>4. PICK x \in S : x > s
    BY <1>1, <1>7, <2>3
  <2>5. s # Max(S) /\ p # Max(S)
    <3>1. PICK top : top = Max(S)
      OBVIOUS
    <3>2. top \in Nat /\ x <= top /\ s \in Nat /\ p \in Nat /\ x \in Nat
      BY <1>2, <2>2, <3>1, GreatestIs
    <3>3. s # top /\ p # top
      BY <2>2, <2>4, <3>2
    <3> QED
      BY <3>1, <3>3
  <2>6. PICK r : r = Piece(m, S, s)
    OBVIOUS
  <2>7. PICK q : q = Piece(m, S, p)
    OBVIOUS
  <2>8. r \in I /\ q \in I
    BY <1>4, <2>2, <2>5, <2>6, <2>7
  <2>9. r.addr = s /\ r.tags = m[s]
    <3>1. IsPiece(m, S, s, r)
      BY <1>2, <2>2, <2>5, <2>6, PieceIs
    <3> QED
      BY <3>1 DEF IsPiece
  <2>10. q.tags = m[p] /\ Follows(S, p, q.addr + q.size)
    <3>1. IsPiece(m, S, p, q)
      BY <1>2, <2>2, <2>5, <2>7, PieceIs
    <3> QED
      BY <3>1 DEF IsPiece, End
  <2>11. q.addr + q.size = s
    <3>1. PICK f : f = q.addr + q.size
      OBVIOUS
    <3>2. f \in S /\ p < f /\ f <= s
      BY <2>2, <2>10, <3>1 DEF Follows
    <3>3. ~(p < f /\ f < s)
      BY <1>1, <2>1, <3>2 DEF Precedes
    <3>4. f = s
      BY <1>2, <2>2, <3>2, <3>3
    <3> QED
      BY <3>1, <3>4
  <2> QED
    BY <1>5, <2>1, <2>8, <2>9, <2>10, <2>11
<1> QED
  BY <1>6, <1>7

-----------------------------------------------------------------------------
\* "adjacent intervals in the interval map have unique tags", the last stop ends the
\* last interval, and no stop can be left out.
IntervalMap(m) ==
  /\ Stops(m)
  /\ \A s \in DOMAIN m : m[s] # TagsBefore(m, s)
  /\ \A s \in DOMAIN m : IsLast(m, s) => m[s] = {}

\* The tags of an interval that was added.
Ored(m, a, lo, hi, tags) == TagsAt(m, a) \cup IF lo <= a /\ a < hi THEN tags ELSE {}

TaggedMap(m, n, lo, hi, tags) ==
  /\ Stops(n) /\ DOMAIN n = DOMAIN m \cup {lo, hi}
  /\ \A a \in Nat : TagsAt(n, a) = Ored(m, a, lo, hi, tags)
  /\ \A s \in DOMAIN n : lo <= s /\ s < hi => tags \subseteq n[s]
  /\ \A s \in DOMAIN n : ~(lo <= s /\ s <= hi) => s \in DOMAIN m /\ n[s] = m[s]
  /\ \A s \in DOMAIN n : IsLast(n, s) => n[s] = {}

LEMMA Tagged ==
  ASSUME NEW m, IntervalMap(m), NEW lo \in Nat, NEW hi \in Nat, lo < hi, NEW tags,
         NEW n, n = TagRange(InsertStop(InsertStop(m, lo), hi), lo, hi, tags)
  PROVE  TaggedMap(m, n, lo, hi, tags)
<1>1. PICK k : k = InsertStop(m, lo)
  OBVIOUS
<1>2. PICK i : i = InsertStop(k, hi)
  OBVIOUS
<1>3. n = TagRange(i, lo, hi, tags) /\ Stops(m)
  BY <1>1, <1>2 DEF IntervalMap
<1>4. /\ Stops(k) /\ DOMAIN k = DOMAIN m \cup {lo}
      /\ \A s \in DOMAIN m : k[s] = m[s]
      /\ \A a \in Nat : TagsAt(k, a) = TagsAt(m, a)
  BY <1>1, <1>3, StopInserted, InsertedTags
<1>5. /\ Stops(i) /\ DOMAIN i = DOMAIN k \cup {hi}
      /\ \A s \in DOMAIN k : i[s] = k[s]
      /\ hi \notin DOMAIN k => i[hi] = TagsAt(k, hi)
      /\ \A a \in Nat : TagsAt(i, a) = TagsAt(k, a)
  <2>1. /\ Stops(i) /\ DOMAIN i = DOMAIN k \cup {hi}
        /\ \A s \in DOMAIN k : i[s] = k[s]
        /\ hi \notin DOMAIN k => i[hi] = TagsAt(k, hi)
    BY <1>2, <1>4, StopInserted
  <2>2. ASSUME NEW a \in Nat PROVE TagsAt(i, a) = TagsAt(k, a)
    BY <1>2, <1>4, InsertedTags
  <2> QED
    BY <2>1, <2>2
<1>6. lo \in DOMAIN i /\ hi \in DOMAIN i /\ DOMAIN i = DOMAIN m \cup {lo, hi}
  BY <1>4, <1>5
<1>7. Stops(n) /\ DOMAIN n = DOMAIN i
  BY <1>3, <1>5, <1>6, RangeTagged
<1>8. \A s \in DOMAIN i : n[s] = IF lo <= s /\ s < hi THEN i[s] \cup tags ELSE i[s]
  BY <1>3 DEF TagRange
<1>9. \A a \in Nat : TagsAt(n, a) = Ored(m, a, lo, hi, tags)
  <2> SUFFICES ASSUME NEW a \in Nat PROVE TagsAt(n, a) = Ored(m, a, lo, hi, tags)
    OBVIOUS
  <2>1. TagsAt(n, a) = IF lo <= a /\ a < hi THEN TagsAt(i, a) \cup tags ELSE TagsAt(i, a)
    BY <1>3, <1>5, <1>6, RangeTagged
  <2>2. TagsAt(i, a) = TagsAt(m, a)
    BY <1>4, <1>5
  <2> QED
    BY <2>1, <2>2 DEF Ored
<1>10. \A s \in DOMAIN n : lo <= s /\ s < hi => tags \subseteq n[s]
  BY <1>7, <1>8
<1>11. ASSUME NEW s \in DOMAIN n, ~(lo <= s /\ s <= hi) PROVE s \in DOMAIN m /\ n[s] = m[s]
  <2>1. s # lo /\ s # hi /\ ~(lo <= s /\ s < hi) /\ s \in DOMAIN i
    BY <1>6, <1>7, <1>11 DEF Stops
  <2>2. s \in DOMAIN m /\ s \in DOMAIN k
    BY <1>4, <1>6, <2>1
  <2> QED
    BY <1>4, <1>5, <1>8, <2>1, <2>2
<1>12. ASSUME NEW s \in DOMAIN n, IsLast(n, s) PROVE n[s] = {}
  <2>1. s >= hi /\ s \in Nat /\ hi \in Nat /\ lo \in Nat /\ s \in DOMAIN i
    BY <1>6, <1>7, <1>12 DEF IsLast, Stops
  <2>2. n[s] = i[s]
    <3>1. ~(lo <= s /\ s < hi)
      BY <2>1
    <3> QED
      BY <1>8, <2>1, <3>1
  <2>3. CASE s \in DOMAIN m
    <3>1. IsLast(m, s)
      BY <1>6, <1>7, <1>12 DEF IsLast
    <3>2. i[s] = m[s] /\ m[s] = {}
      BY <1>4, <1>5, <2>3, <3>1 DEF IntervalMap
    <3> QED
      BY <2>2, <3>2
  <2>4. CASE s \notin DOMAIN m
    <3>1. s = hi /\ hi \notin DOMAIN k
      BY <1>4, <1>6, <2>1, <2>4
    <3>2. i[s] = TagsAt(m, s)
      BY <1>4, <1>5, <2>1, <3>1
    <3>3. CASE \A t \in DOMAIN m : t > s
      BY <1>3, <2>1, <2>2, <3>2, <3>3, TagsOfNone
    <3>4. ASSUME NEW g \in DOMAIN m, Governs(m, g, s) PROVE n[s] = {}
      <4>1. IsLast(m, g)
        BY <1>3, <1>6, <1>7, <1>12, <2>1, <3>4 DEF IsLast, Governs, Stops
      <4>2. m[g] = {} /\ TagsAt(m, s) = m[g]
        BY <1>3, <2>1, <3>4, <4>1, TagsOfGovernor DEF IntervalMap
      <4> QED
        BY <2>2, <3>2, <4>2
    <3> QED
      BY <1>3, <2>1, <3>3, <3>4, GovernorIs
  <2> QED
    BY <2>3, <2>4
<1> QED
  BY <1>6, <1>7, <1>9, <1>10, <1>11, <1>12 DEF TaggedMap

\* What add makes of a map, between two stops of its own.
Added(m, lo, hi, tags) ==
  IF IsAlreadyCovered(m, lo, hi, tags) THEN m
  ELSE EliminateExtraneousStops(TagRange(InsertStop(InsertStop(m, lo), hi), lo, hi, tags), lo, hi)

LEMMA CoveredTags ==
  ASSUME NEW m, Stops(m), NEW lo \in Nat, NEW hi \in Nat, NEW tags,
         IsAlreadyCovered(m, lo, hi, tags), NEW a \in Nat, lo <= a, a < hi
  PROVE  TagsAt(m, a) = tags
<1>1. /\ UpTo(m, lo) # {} /\ UpTo(m, lo) \subseteq Nat /\ IsFiniteSet(UpTo(m, lo))
      /\ UpTo(m, lo) = {s \in DOMAIN m : s <= lo}
  BY FS_Subset DEF Stops, UpTo, IsAlreadyCovered
<1>2. /\ Behind(m, lo) # {} /\ Behind(m, lo) \subseteq Nat
      /\ Behind(m, lo) = {s \in DOMAIN m : s > lo}
  BY DEF Stops, Behind, IsAlreadyCovered
<1>3. PICK s : s = Max(UpTo(m, lo))
  OBVIOUS
<1>4. PICK n : n = Min(Behind(m, lo))
  OBVIOUS
<1>5. hi <= n /\ m[s] = tags
  BY <1>3, <1>4 DEF IsAlreadyCovered
<1>6. s \in UpTo(m, lo) /\ \A x \in UpTo(m, lo) : x <= s
  BY <1>1, <1>3, GreatestIs
<1>7. n \in Behind(m, lo) /\ \A x \in Behind(m, lo) : n <= x
  BY <1>2, <1>4, LeastIs
<1>8. s \in DOMAIN m /\ s \in Nat /\ n \in Nat /\ s <= lo
  BY <1>1, <1>2, <1>6, <1>7
<1>9. ASSUME NEW t \in DOMAIN m, s < t, t <= a PROVE FALSE
  <2>1. t \in Nat
    BY DEF Stops
  <2>2. CASE t <= lo
    BY <1>1, <1>6, <1>8, <1>9, <2>1, <2>2
  <2>3. CASE t > lo
    BY <1>2, <1>5, <1>7, <1>8, <1>9, <2>1, <2>3
  <2> QED
    BY <2>1, <2>2, <2>3
<1>10. Governs(m, s, a)
  BY <1>8, <1>9 DEF Governs
<1> QED
  BY <1>5, <1>10, TagsOfGovernor

LEMMA AddedRight ==
  ASSUME NEW m, IntervalMap(m), NEW lo \in Nat, NEW hi \in Nat, lo < hi, NEW tags, tags # {},
         NEW o, o = Added(m, lo, hi, tags)
  PROVE  IntervalMap(o) /\ \A a \in Nat : TagsAt(o, a) = Ored(m, a, lo, hi, tags)
<1>0. Stops(m)
  BY DEF IntervalMap
<1>1. CASE IsAlreadyCovered(m, lo, hi, tags)
  <2>1. o = m
    BY <1>1 DEF Added
  <2>2. ASSUME NEW a \in Nat PROVE TagsAt(o, a) = Ored(m, a, lo, hi, tags)
    <3>1. CASE lo <= a /\ a < hi
      BY <1>0, <1>1, <2>1, <3>1, CoveredTags DEF Ored
    <3>2. CASE ~(lo <= a /\ a < hi)
      BY <2>1, <3>2 DEF Ored
    <3> QED
      BY <3>1, <3>2
  <2> QED
    BY <2>1, <2>2
<1>2. CASE ~IsAlreadyCovered(m, lo, hi, tags)
  <2>1. PICK n : n = TagRange(InsertStop(InsertStop(m, lo), hi), lo, hi, tags)
    OBVIOUS
  <2>2. /\ Stops(n) /\ DOMAIN n = DOMAIN m \cup {lo, hi}
        /\ \A a \in Nat : TagsAt(n, a) = Ored(m, a, lo, hi, tags)
        /\ \A s \in DOMAIN n : lo <= s /\ s < hi => tags \subseteq n[s]
        /\ \A s \in DOMAIN n : ~(lo <= s /\ s <= hi) => s \in DOMAIN m /\ n[s] = m[s]
        /\ \A s \in DOMAIN n : IsLast(n, s) => n[s] = {}
    <3>1. TaggedMap(m, n, lo, hi, tags)
      BY <2>1, Tagged
    <3> QED
      BY <3>1 DEF TaggedMap
  <2>3. PICK E : E = ExtraneousStops(n, lo, hi)
    OBVIOUS
  <2>4. /\ E \subseteq DOMAIN n
        /\ \A e \in E : Repeats(n, e)
        /\ \A s \in DOMAIN n : lo <= s /\ s <= hi /\ Repeats(n, s) /\ ~IsLast(n, s) => s \in E
    <3>1. lo \in DOMAIN n /\ hi \in DOMAIN n
      BY <2>2
    <3> QED
      BY <2>2, <2>3, <3>1, ExtraneousAre
  <2>5. o = [s \in DOMAIN n \ E |-> n[s]]
    BY <1>2, <2>1, <2>3 DEF Added, EliminateExtraneousStops, Restrict
  <2>6. DOMAIN o = DOMAIN n \ E /\ \A s \in DOMAIN o : o[s] = n[s]
    BY <2>5
  <2>7. Stops(o) /\ \A a \in Nat : TagsAt(o, a) = TagsAt(n, a)
    <3>1. Dropped(n, o, E)
      BY <2>4, <2>6 DEF Dropped
    <3> QED
      BY <2>2, <3>1, RepeatsGone DEF SameTags
  <2>8. \A a \in Nat : TagsAt(o, a) = Ored(m, a, lo, hi, tags)
    BY <2>2, <2>7
  <2>9. ASSUME NEW s \in DOMAIN o PROVE s \in DOMAIN n /\ s \in Nat /\ s \notin E /\ o[s] = n[s]
    BY <2>6, <2>7 DEF Stops
  <2>10. ASSUME NEW s \in DOMAIN o PROVE o[s] # TagsBefore(o, s)
    <3>1. s \in DOMAIN n /\ s \in Nat /\ s \notin E /\ o[s] = n[s]
      BY <2>9
    <3>2. CASE lo <= s /\ s <= hi
      <4>1. TagsBefore(o, s) = TagsBefore(n, s)
        <5>1. s # 0 => TagsAt(o, s - 1) = TagsAt(n, s - 1)
          BY <2>7, <3>1
        <5> QED
          BY <3>1, <5>1, SameBefore
      <4>2. CASE IsFirst(n, s)
        <5>1. s = lo
          BY <2>2, <3>1, <3>2, <4>2 DEF IsFirst
        <5>2. n[s] # {} /\ TagsBefore(n, s) = {}
          BY <2>2, <3>1, <4>2, <5>1, TagsBeforeFirst
        <5> QED
          BY <3>1, <4>1, <5>2
      <4>3. ASSUME NEW p \in DOMAIN n, Precedes(n, p, s) PROVE o[s] # TagsBefore(o, s)
        <5>1. TagsBefore(n, s) = n[p]
          BY <2>2, <3>1, <4>3, TagsBeforeOther
        <5>2. CASE IsLast(n, s)
          <6>1. s = hi /\ n[s] = {}
            BY <2>2, <3>1, <3>2, <5>2 DEF IsLast
          <6>2. lo <= p /\ p < hi
            <7>1. lo \in DOMAIN n /\ ~(p < lo /\ lo < s) /\ p < s /\ p \in Nat
              BY <2>2, <4>3 DEF Precedes, Stops
            <7> QED
              BY <6>1, <7>1
          <6>3. n[p] # {}
            BY <2>2, <6>2
          <6> QED
            BY <3>1, <4>1, <5>1, <6>1, <6>3
        <5>3. CASE ~IsLast(n, s)
          <6>1. ~Repeats(n, s)
            BY <2>4, <3>1, <3>2, <5>3
          <6>2. n[p] # n[s]
            BY <4>3, <6>1 DEF Repeats
          <6> QED
            BY <3>1, <4>1, <5>1, <6>2
        <5> QED
          BY <5>2, <5>3
      <4> QED
        BY <2>2, <3>1, <4>2, <4>3, PrecedesOrFirst
    <3>3. CASE ~(lo <= s /\ s <= hi)
      <4>1. s \in DOMAIN m /\ n[s] = m[s]
        BY <2>2, <3>1, <3>3
      <4>2. ASSUME s # 0 PROVE TagsAt(o, s - 1) = TagsAt(m, s - 1)
        <5>1. s - 1 \in Nat /\ ~(lo <= s - 1 /\ s - 1 < hi)
          BY <3>1, <3>3, <4>2
        <5> QED
          BY <2>8, <5>1 DEF Ored
      <4>3. TagsBefore(o, s) = TagsBefore(m, s)
        BY <3>1, <4>2, SameBefore
      <4> QED
        BY <3>1, <4>1, <4>3 DEF IntervalMap
    <3> QED
      BY <3>2, <3>3
  <2>11. ASSUME NEW s \in DOMAIN o, IsLast(o, s) PROVE o[s] = {}
    <3>1. s \in DOMAIN n /\ s \in Nat /\ s \notin E /\ o[s] = n[s]
      BY <2>9
    <3>2. PICK z \in DOMAIN n : IsLast(n, z)
      <4>1. DOMAIN n \subseteq Nat /\ IsFiniteSet(DOMAIN n) /\ DOMAIN n # {}
        BY <2>2, <3>1 DEF Stops
      <4>2. PICK z : z = Max(DOMAIN n)
        OBVIOUS
      <4>3. z \in DOMAIN n /\ \A x \in DOMAIN n : x <= z
        BY <4>1, <4>2, GreatestIs
      <4> QED
        BY <4>3 DEF IsLast
    <3>3. z \in Nat /\ n[z] = {} /\ s <= z
      BY <2>2, <3>1, <3>2 DEF IsLast, Stops
    <3>4. Governs(n, z, z)
      BY <2>2, <3>2, <3>3 DEF Governs, IsLast, Stops
    <3>5. TagsAt(n, z) = {}
      BY <2>2, <3>3, <3>4, TagsOfGovernor
    <3>6. Governs(o, s, z)
      BY <2>7, <2>11, <3>3 DEF Governs, IsLast, Stops
    <3> QED
      BY <2>7, <3>3, <3>5, <3>6, TagsOfGovernor
  <2> QED
    BY <2>7, <2>8, <2>10, <2>11 DEF IntervalMap
<1> QED
  BY <1>1, <1>2

-----------------------------------------------------------------------------
\* Bins.
LEMMA Multiples ==
  ASSUME NEW x \in Int, NEW y \in Int, NEW w \in Nat
  PROVE  x * w \in Int /\ (x <= y => x * w <= y * w) /\ (x + 1) * w = x * w + w
<1>1. PICK d \in Int : d = y - x
  OBVIOUS
<1>2. y * w = x * w + d * w
  BY <1>1
<1>3. d >= 0 => d * w >= 0
  OBVIOUS
<1>4. x * w \in Int /\ y * w \in Int /\ d * w \in Int
  OBVIOUS
<1>5. x <= y => x * w <= y * w
  BY <1>1, <1>2, <1>3, <1>4
<1>6. (x + 1) * w = x * w + w
  OBVIOUS
<1> QED
  BY <1>4, <1>5, <1>6

LEMMA Quotient ==
  ASSUME NEW a \in Nat, NEW w \in Nat, w # 0
  PROVE  a \div w \in Nat /\ (a \div w) * w <= a /\ a < (a \div w) * w + w
  OBVIOUS

LEMMA WholeQuotient ==
  ASSUME NEW a \in Nat, NEW w \in Nat, w # 0, a % w = 0
  PROVE  a = (a \div w) * w
<1>1. PICK n \in Nat : n = a \div w
  BY Quotient
<1>2. PICK m : m = a % w
  OBVIOUS
<1>3. a = w * n + m
  BY <1>1, <1>2
<1>4. w * n = n * w /\ w * n \in Int
  OBVIOUS
<1> QED
  BY <1>1, <1>2, <1>3, <1>4

LEMMA QuotientsOrdered ==
  ASSUME NEW a \in Nat, NEW b \in Nat, a <= b, NEW w \in Nat, w # 0
  PROVE  a \div w <= b \div w
<1>1. PICK p \in Nat : p = a \div w /\ p * w <= a
  BY Quotient
<1>2. PICK q \in Nat : q = b \div w /\ b < q * w + w
  BY Quotient
<1>3. CASE q + 1 <= p
  <2>1. (q + 1) * w <= p * w /\ (q + 1) * w = q * w + w /\ p * w \in Int /\ q * w \in Int
    BY <1>3, Multiples
  <2> QED
    BY <1>1, <1>2, <2>1
<1> QED
  BY <1>1, <1>2, <1>3

LEMMA BinStart ==
  ASSUME NEW q \in Nat, NEW a \in Nat, NEW w \in Nat, w # 0, q * w <= a, a < q * w + w
  PROVE  a \div w = q
<1>1. PICK p \in Nat : p = a \div w /\ p * w <= a /\ a < p * w + w
  BY Quotient
<1>2. p * w \in Int /\ q * w \in Int
  BY Multiples
<1>3. CASE q + 1 <= p
  <2>1. (q + 1) * w <= p * w /\ (q + 1) * w = q * w + w
    BY <1>3, Multiples
  <2> QED
    BY <1>1, <1>2, <2>1
<1>4. CASE p + 1 <= q
  <2>1. (p + 1) * w <= q * w /\ (p + 1) * w = p * w + w
    BY <1>4, Multiples
  <2> QED
    BY <1>1, <1>2, <2>1
<1> QED
  BY <1>1, <1>3, <1>4

SameBin(a, b, w) == RoundDown(a, w) = RoundDown(b, w)
LEMMA BinIs ==
  ASSUME NEW a \in Nat, NEW b \in Nat, NEW w \in Nat, w # 0
  PROVE  SameBin(a, b, w) <=> a \div w = b \div w
<1>1. PICK p \in Nat : p = a \div w
  BY Quotient
<1>2. PICK q \in Nat : q = b \div w
  BY Quotient
<1>3. p * w \in Int /\ q * w \in Int
  BY Multiples
<1>4. CASE p + 1 <= q
  <2>1. (p + 1) * w <= q * w /\ (p + 1) * w = p * w + w
    BY <1>4, Multiples
  <2>2. p * w # q * w
    BY <1>3, <2>1
  <2> QED
    BY <1>1, <1>2, <1>4, <2>2 DEF SameBin, RoundDown
<1>5. CASE q + 1 <= p
  <2>1. (q + 1) * w <= p * w /\ (q + 1) * w = q * w + w
    BY <1>5, Multiples
  <2>2. p * w # q * w
    BY <1>3, <2>1
  <2> QED
    BY <1>1, <1>2, <1>5, <2>2 DEF SameBin, RoundDown
<1>6. CASE p = q
  BY <1>1, <1>2, <1>6 DEF SameBin, RoundDown
<1> QED
  BY <1>4, <1>5, <1>6

\* Ends are rounded outwards: an address lies between them when its bin is that of one
\* of the addresses from addr to addr + size - 1.
InReach(addr, size, a, w) == \E b \in addr .. addr + size - 1 : SameBin(b, a, w)
LEMMA RoundedOutwards ==
  ASSUME NEW addr \in Nat, NEW size \in Nat, size # 0, NEW w \in Nat, w # 0, NEW a \in Nat,
         NEW lo, lo = RoundDown(addr, w), NEW hi, hi = RoundUp(addr + size, w)
  PROVE  /\ lo \in Nat /\ hi \in Nat /\ lo < hi
         /\ (lo <= a /\ a < hi) <=> InReach(addr, size, a, w)
<1>1. PICK q \in Nat : q = addr \div w /\ q * w <= addr /\ addr < q * w + w
  BY Quotient
<1>2. PICK e \in Nat : e = addr + size + w - 1
  OBVIOUS
<1>3. PICK r \in Nat : r = e \div w /\ r * w <= e /\ e < r * w + w
  BY Quotient
<1>4. PICK p \in Nat : p = a \div w /\ p * w <= a /\ a < p * w + w
  BY Quotient
<1>5. q * w \in Nat /\ r * w \in Nat /\ p * w \in Nat
  <2>1. \A x \in Nat : x * w \in Nat
    OBVIOUS
  <2> QED
    BY <2>1
<1>6. lo = q * w /\ hi = r * w
  BY <1>1, <1>2, <1>3 DEF RoundDown, RoundUp
<1>7. lo < hi
  BY <1>1, <1>2, <1>3, <1>5, <1>6
<1>8. ASSUME lo <= a, a < hi PROVE \E b \in addr .. addr + size - 1 : SameBin(b, a, w)
  <2>1. q <= p
    <3>1. CASE p + 1 <= q
      <4>1. (p + 1) * w <= q * w /\ (p + 1) * w = p * w + w
        BY <3>1, Multiples
      <4> QED
        BY <1>4, <1>5, <1>6, <1>8, <4>1
    <3> QED
      BY <3>1
  <2>2. p + 1 <= r
    <3>1. CASE r <= p
      <4>1. r * w <= p * w
        BY <3>1, Multiples
      <4> QED
        BY <1>4, <1>5, <1>6, <1>8, <4>1
    <3> QED
      BY <3>1
  <2>3. q * w <= p * w /\ p * w + w <= r * w
    <3>1. q * w <= p * w
      BY <2>1, Multiples
    <3>2. (p + 1) * w <= r * w /\ (p + 1) * w = p * w + w
      BY <2>2, Multiples
    <3> QED
      BY <3>1, <3>2
  <2>4. PICK b \in Nat : b = IF addr <= p * w THEN p * w ELSE addr
    BY <1>5
  <2>5. b \in addr .. addr + size - 1
    BY <1>2, <1>3, <1>5, <2>3, <2>4
  <2>6. p * w <= b /\ b < p * w + w
    BY <1>1, <1>5, <2>3, <2>4
  <2>7. b \div w = p
    BY <2>6, BinStart
  <2>8. SameBin(b, a, w)
    BY <1>4, <2>7, BinIs
  <2> QED
    BY <2>5, <2>8
<1>9. ASSUME NEW b \in addr .. addr + size - 1, SameBin(b, a, w) PROVE lo <= a /\ a < hi
  <2>1. b \in Nat /\ addr <= b /\ b + w <= e
    BY <1>2
  <2>2. b \div w = p
    BY <1>4, <1>9, <2>1, BinIs
  <2>3. q <= p
    BY <1>1, <2>1, <2>2, QuotientsOrdered
  <2>4. p * w <= b
    BY <2>1, <2>2, Quotient
  <2>5. p + 1 <= r
    <3>1. CASE r <= p
      <4>1. r * w <= p * w
        BY <3>1, Multiples
      <4> QED
        BY <1>2, <1>3, <1>5, <2>1, <2>4, <4>1
    <3> QED
      BY <3>1
  <2>6. q * w <= p * w /\ (p + 1) * w <= r * w /\ (p + 1) * w = p * w + w
    BY <2>3, <2>5, Multiples
  <2> QED
    BY <1>4, <1>5, <1>6, <2>6
<1> QED
  BY <1>5, <1>6, <1>7, <1>8, <1>9 DEF InReach

-----------------------------------------------------------------------------
\* What an item gives to the bins it has a part in.
Hits(o, a, w) == InReach(o.addr, o.size, a, w)
GivenToBin(S, a, w) == UNION {o.tags : o \in {q \in S : Hits(q, a, w)}}
MapOf(m, S, w) == IntervalMap(m) /\ \A a \in Nat : TagsAt(m, a) = GivenToBin(S, a, w)
IsItem(o) == o.addr \in Nat /\ o.size \in Nat /\ o.tags # {}

\* The tags of an address once an item is added.
WithTags(m, o, a, w) == TagsAt(m, a) \cup IF Hits(o, a, w) THEN o.tags ELSE {}

(* TaggedIntervalMap.add: the tags of an item are OR'd into the bins it has a part in and
   nowhere else, and no two adjacent intervals have the same tags afterwards, for any
   map, item and granularity. *)
THEOREM AddIntervalIsRight ==
  ASSUME NEW m, IntervalMap(m), NEW o, IsItem(o), NEW w \in Nat, w # 0,
         NEW n, n = AddInterval(m, o.addr, o.size, o.tags, w)
  PROVE  IntervalMap(n) /\ \A a \in Nat : TagsAt(n, a) = WithTags(m, o, a, w)
<1>1. PICK addr \in Nat, size \in Nat : addr = o.addr /\ size = o.size
  BY DEF IsItem
<1>2. PICK tags : tags = o.tags /\ tags # {}
  BY DEF IsItem
<1>3. CASE size = 0
  <2>1. n = m
    BY <1>1, <1>3 DEF AddInterval
  <2>2. \A a \in Nat : ~Hits(o, a, w)
    BY <1>1, <1>3 DEF Hits, InReach
  <2> QED
    BY <2>1, <2>2 DEF WithTags
<1>4. CASE size # 0
  <2>1. PICK lo : lo = RoundDown(addr, w)
    OBVIOUS
  <2>2. PICK hi : hi = RoundUp(addr + size, w)
    OBVIOUS
  <2>3. lo \in Nat /\ hi \in Nat /\ lo < hi
    BY <1>4, <2>1, <2>2, RoundedOutwards
  <2>4. n = Added(m, lo, hi, tags)
    BY <1>1, <1>2, <1>4, <2>1, <2>2 DEF AddInterval, Added
  <2>5. IntervalMap(n) /\ \A a \in Nat : TagsAt(n, a) = Ored(m, a, lo, hi, tags)
    BY <1>2, <2>3, <2>4, AddedRight
  <2>6. ASSUME NEW a \in Nat PROVE Ored(m, a, lo, hi, tags) = WithTags(m, o, a, w)
    <3>1. (lo <= a /\ a < hi) <=> Hits(o, a, w)
      BY <1>1, <1>4, <2>1, <2>2, RoundedOutwards DEF Hits
    <3> QED
      BY <1>2, <3>1 DEF Ored, WithTags
  <2> QED
    BY <2>5, <2>6
<1> QED
  BY <1>3, <1>4

LEMMA NoStopsIsMap == MapOf(NoStops, {}, 1) /\ \A w : MapOf(NoStops, {}, w)
<1>1. DOMAIN NoStops = {} /\ Stops(NoStops)
  BY FS_EmptySet DEF NoStops, Stops
<1>2. \A a \in Nat : TagsAt(NoStops, a) = {}
  BY <1>1, TagsOfNone
<1> QED
  BY <1>1, <1>2 DEF MapOf, IntervalMap, GivenToBin

LEMMA BinGivenMore ==
  ASSUME NEW S, NEW o \in S, NEW a, NEW w
  PROVE  GivenToBin(S, a, w) = GivenToBin(S \ {o}, a, w) \cup IF Hits(o, a, w) THEN o.tags ELSE {}
  BY DEF GivenToBin

\* The addresses of an interval are those its stop governs.
LEMMA PieceCovers ==
  ASSUME NEW m, Stops(m), NEW s \in DOMAIN m, s # Max(DOMAIN m), NEW r, r = Piece(m, DOMAIN m, s)
  PROVE  /\ r.addr = s /\ r.tags = m[s] /\ r.addr \in Nat /\ r.size \in Nat
         /\ \A b \in Nat : b \in r.addr .. r.addr + r.size - 1 <=> Governs(m, s, b)
<1>1. DOMAIN m \subseteq Nat /\ IsFiniteSet(DOMAIN m) /\ s \in Nat
  BY DEF Stops
<1>2. r.addr = s /\ r.tags = m[s] /\ Follows(DOMAIN m, s, End(r))
  <2>1. IsPiece(m, DOMAIN m, s, r)
    BY <1>1, PieceIs
  <2> QED
    BY <2>1 DEF IsPiece
<1>3. PICK e : e = Min({t \in DOMAIN m : t > s})
  OBVIOUS
<1>4. End(r) = s + (e - s) /\ r.size = e - s
  BY <1>3 DEF Piece, End
<1>5. e \in Nat /\ e > s
  <2>1. {t \in DOMAIN m : t > s} \subseteq Nat /\ {t \in DOMAIN m : t > s} # {}
    BY <1>1, <1>2 DEF Follows
  <2>2. e \in {t \in DOMAIN m : t > s}
    BY <1>3, <2>1, LeastIs
  <2> QED
    BY <1>1, <2>2
<1>6. e \in DOMAIN m /\ \A x \in DOMAIN m : x > s => e <= x
  <2>1. End(r) = e
    BY <1>1, <1>4, <1>5
  <2> QED
    BY <1>2, <2>1 DEF Follows
<1>7. ASSUME NEW b \in Nat PROVE b \in r.addr .. r.addr + r.size - 1 <=> Governs(m, s, b)
  <2>1. b \in r.addr .. r.addr + r.size - 1 <=> s <= b /\ b < e
    BY <1>1, <1>2, <1>4, <1>5
  <2>2. Governs(m, s, b) <=> s <= b /\ b < e
    BY <1>1, <1>5, <1>6 DEF Governs
  <2> QED
    BY <2>1, <2>2
<1> QED
  BY <1>1, <1>2, <1>4, <1>5, <1>7

Pieces(m) == {r \in IF m = NoStops THEN {} ELSE Between(m, DOMAIN m) : r.tags # {}}
LEMMA PiecesAre ==
  ASSUME NEW m, Stops(m)
  PROVE  /\ \A r \in Pieces(m) : /\ r.tags # {}
                                 /\ \E s \in DOMAIN m \ {Max(DOMAIN m)} : r = Piece(m, DOMAIN m, s)
         /\ \A s \in DOMAIN m \ {Max(DOMAIN m)} :
               m[s] # {} => Piece(m, DOMAIN m, s) \in Pieces(m)
         /\ IsFiniteSet(Pieces(m))
<1>1. Between(m, DOMAIN m) = {Piece(m, DOMAIN m, s) : s \in DOMAIN m \ {Max(DOMAIN m)}}
  BY DEF Between, Piece
<1>2. \A s : Piece(m, DOMAIN m, s).tags = m[s]
  BY DEF Piece
<1>3. DOMAIN NoStops = {}
  BY DEF NoStops
<1>4. PICK B : B = {Piece(m, DOMAIN m, s) : s \in DOMAIN m \ {Max(DOMAIN m)}}
  OBVIOUS
<1>5. IsFiniteSet(B)
  <2>1. PICK f : f = [s \in DOMAIN m \ {Max(DOMAIN m)} |-> Piece(m, DOMAIN m, s)]
    OBVIOUS
  <2>2. f \in Surjection(DOMAIN m \ {Max(DOMAIN m)}, B)
    BY <1>4, <2>1 DEF Surjection
  <2>3. IsFiniteSet(DOMAIN m \ {Max(DOMAIN m)})
    BY FS_Subset DEF Stops
  <2> QED
    BY <2>2, <2>3, FS_Surjection
<1>6. Pieces(m) \subseteq B
  BY <1>1, <1>4 DEF Pieces
<1>7. IsFiniteSet(Pieces(m))
  BY <1>5, <1>6, FS_Subset
<1>8. \A r \in Pieces(m) : /\ r.tags # {}
                           /\ \E s \in DOMAIN m \ {Max(DOMAIN m)} : r = Piece(m, DOMAIN m, s)
  BY <1>4, <1>6 DEF Pieces
<1>9. ASSUME NEW s \in DOMAIN m \ {Max(DOMAIN m)}, m[s] # {}
      PROVE  Piece(m, DOMAIN m, s) \in Pieces(m)
  BY <1>1, <1>2, <1>3, <1>9 DEF Pieces
<1> QED
  BY <1>7, <1>8, <1>9

\* A bin of a coarser level is made of whole bins of a finer one.
LEMMA BinsNest ==
  ASSUME NEW v \in Nat, v # 0, NEW w \in Nat, w # 0, w % v = 0,
         NEW a \in Nat, NEW b \in Nat, SameBin(a, b, v)
  PROVE  SameBin(a, b, w)
<1>1. PICK k \in Nat : w = k * v
  <2>1. w \div v \in Nat /\ w = v * (w \div v) + (w % v)
    OBVIOUS
  <2>2. PICK k \in Nat : k = w \div v
    BY <2>1
  <2>3. w = v * k
    BY <2>1, <2>2
  <2> QED
    BY <2>3
<1>2. PICK q \in Nat : q = a \div v /\ q = b \div v
  BY BinIs, Quotient
<1>3. q * v <= a /\ a < q * v + v /\ q * v <= b /\ b < q * v + v
  BY <1>2, Quotient
<1>4. PICK p \in Nat : p = a \div w /\ p * w <= a /\ a < p * w + w
  BY Quotient
<1>5. PICK x \in Nat : x = p * k
  OBVIOUS
<1>6. x * v = p * w /\ (x + k) * v = p * w + w
  BY <1>1, <1>5
<1>7. x <= q
  <2>1. CASE q + 1 <= x
    <3>1. (q + 1) * v <= x * v /\ (q + 1) * v = q * v + v /\ x * v \in Int /\ q * v \in Int
      BY <2>1, Multiples
    <3> QED
      BY <1>3, <1>4, <1>6, <3>1
  <2> QED
    BY <2>1
<1>8. q + 1 <= x + k
  <2>1. CASE x + k <= q
    <3>1. (x + k) * v <= q * v /\ (x + k) * v \in Int /\ q * v \in Int
      BY <2>1, Multiples
    <3> QED
      BY <1>3, <1>4, <1>6, <3>1
  <2> QED
    BY <2>1
<1>9. x * v <= q * v /\ q * v + v <= (x + k) * v /\ q * v \in Int /\ x * v \in Int /\ (x + k) * v \in Int
  <2>1. x * v <= q * v /\ q * v \in Int /\ x * v \in Int
    BY <1>7, Multiples
  <2>2. (q + 1) * v <= (x + k) * v /\ (q + 1) * v = q * v + v /\ (x + k) * v \in Int
    BY <1>8, Multiples
  <2> QED
    BY <2>1, <2>2
<1>10. p * w <= b /\ b < p * w + w
  BY <1>3, <1>6, <1>9
<1>11. b \div w = p
  BY <1>10, BinStart
<1> QED
  BY <1>4, <1>11, BinIs

\* The tags of the addresses from lo to hi, as far as there are any.
Spans(S, lo, hi) ==
  UNION {{<<a, q.tags>> : a \in (lo .. hi) \cap (q.addr .. q.addr + q.size - 1)} :
         q \in {q \in S : q.tags # {}}}

(* TaggedIntervalMap.irange: the intervals it finds give each address from lo to hi the
   tags of the map, once, and no others, whatever stops the map has. *)
THEOREM IrangeIsRight ==
  ASSUME NEW m, IntervalMap(m), NEW lo \in Nat, NEW hi \in Nat
  PROVE  Spans(Irange(m, lo, hi), lo, hi) =
           {e \in {<<a, TagsAt(m, a)>> : a \in lo .. hi} : e[2] # {}}
<1> DEFINE Right == {e \in {<<a, TagsAt(m, a)>> : a \in lo .. hi} : e[2] # {}}
<1>1. Stops(m) /\ \A s \in DOMAIN m : IsLast(m, s) => m[s] = {}
  BY DEF IntervalMap
<1>2. CASE DOMAIN m = {}
  <2>1. Irange(m, lo, hi) = {}
    <3>1. CASE m = NoStops
      BY <3>1 DEF Irange
    <3>2. IrangeStops(m, lo, hi) = {}
      BY <1>2 DEF IrangeStops
    <3>3. Between(m, IrangeStops(m, lo, hi)) = {}
      BY <3>2 DEF Between
    <3> QED
      BY <3>1, <3>3 DEF Irange
  <2>2. \A a \in Nat : TagsAt(m, a) = {}
    BY <1>1, <1>2, TagsOfNone
  <2> QED
    BY <2>1, <2>2 DEF Spans
<1>3. CASE DOMAIN m # {}
  <2>1. PICK first \in DOMAIN m, last \in DOMAIN m :
          /\ Reach(m, first, last, lo, hi)
          /\ IrangeStops(m, lo, hi) = {s \in DOMAIN m : first <= s /\ s <= last}
    BY <1>1, <1>3, IrangeStopsAre
  <2>2. PICK S : S = IrangeStops(m, lo, hi)
    OBVIOUS
  <2>3. S \subseteq DOMAIN m /\ S \subseteq Nat /\ IsFiniteSet(S) /\ DOMAIN m \subseteq Nat
    BY <1>1, <2>1, <2>2, FS_Subset DEF Stops
  <2>4. m # NoStops
    BY <1>3 DEF NoStops
  <2>5. PICK I : I = Irange(m, lo, hi)
    OBVIOUS
  <2>6. I = {Piece(m, S, s) : s \in S \ {Max(S)}}
    BY <2>2, <2>4, <2>5, PiecesOfIrange
  <2>7. ASSUME NEW a \in lo .. hi, NEW s \in S, s # Max(S)
        PROVE  /\ Piece(m, S, s).tags = m[s]
               /\ a \in Piece(m, S, s).addr .. Piece(m, S, s).addr + Piece(m, S, s).size - 1
                    <=> Governs(m, s, a)
    <3>1. PICK r : r = Piece(m, S, s)
      OBVIOUS
    <3>2. r.addr = s /\ r.tags = m[s] /\ Follows(S, s, End(r))
      <4>1. IsPiece(m, S, s, r)
        BY <2>3, <2>7, <3>1, PieceIs
      <4> QED
        BY <4>1 DEF IsPiece
    <3>3. PICK e : e = End(r) /\ e \in S /\ s < e /\ \A x \in S : x > s => e <= x
      BY <3>2 DEF Follows
    <3>4. PICK n : n = Min({t \in S : t > s})
      OBVIOUS
    <3>5. {t \in S : t > s} \subseteq Nat /\ {t \in S : t > s} # {}
      BY <2>3, <3>3
    <3>6. n \in S /\ n \in Nat /\ s \in Nat /\ a \in Nat
      BY <2>3, <3>4, <3>5, LeastIs
    <3>7. e = n /\ r.size = n - s
      <4>1. r.size = n - s /\ e = s + (n - s)
        BY <3>1, <3>3, <3>4 DEF Piece, End
      <4> QED
        BY <3>6, <4>1
    <3>8. a \in r.addr .. r.addr + r.size - 1 <=> s <= a /\ a < e
      BY <3>2, <3>6, <3>7
    <3>9. Governs(m, s, a) <=> s <= a /\ a < e
      <4>1. ASSUME NEW t \in DOMAIN m, s < t, t < e PROVE FALSE
        <5>1. t \in S
          BY <2>1, <2>2, <2>3, <3>3, <4>1
        <5> QED
          BY <2>3, <3>3, <4>1, <5>1
      <4>2. e \in DOMAIN m /\ s \in DOMAIN m
        BY <2>3, <3>3
      <4>3. Governs(m, s, a) => s <= a /\ a < e
        BY <2>3, <3>3, <3>6, <4>2 DEF Governs
      <4>4. s <= a /\ a < e => Governs(m, s, a)
        BY <2>3, <3>3, <3>6, <4>1, <4>2 DEF Governs
      <4> QED
        BY <4>3, <4>4
    <3> QED
      BY <3>1, <3>2, <3>8, <3>9
  <2>8. ASSUME NEW x \in Spans(I, lo, hi) PROVE x \in Right
    <3>1. PICK q \in I : /\ q.tags # {}
                         /\ x \in {<<a, q.tags>> : a \in (lo .. hi) \cap (q.addr .. q.addr + q.size - 1)}
      BY <2>8 DEF Spans
    <3>2. PICK a \in lo .. hi : x = <<a, q.tags>> /\ a \in q.addr .. q.addr + q.size - 1
      BY <3>1
    <3>3. PICK s \in S : s # Max(S) /\ q = Piece(m, S, s)
      BY <2>6
    <3>4. q.tags = m[s] /\ Governs(m, s, a)
      BY <2>7, <3>2, <3>3
    <3>5. TagsAt(m, a) = m[s]
      BY <1>1, <3>4, TagsOfGovernor
    <3> QED
      BY <3>1, <3>2, <3>4, <3>5
  <2>9. ASSUME NEW x \in Right PROVE x \in Spans(I, lo, hi)
    <3>1. PICK a \in lo .. hi : x = <<a, TagsAt(m, a)>> /\ TagsAt(m, a) # {}
      BY <2>9
    <3>2. a \in Nat /\ lo <= a /\ a <= hi
      OBVIOUS
    <3>3. PICK s \in DOMAIN m : Governs(m, s, a)
      BY <1>1, <3>1, <3>2, GovernorIs, TagsOfNone
    <3>4. TagsAt(m, a) = m[s] /\ m[s] # {}
      BY <1>1, <3>1, <3>2, <3>3, TagsOfGovernor
    <3>5. ~IsLast(m, s)
      BY <1>1, <3>4
    <3>6. first <= s
      <4>1. CASE IsFirst(m, first)
        BY <2>3, <4>1 DEF IsFirst
      <4>2. CASE first < lo
        BY <2>3, <3>2, <3>3, <4>2 DEF Governs
      <4> QED
        BY <2>1, <4>1, <4>2 DEF Reach
    <3>7. s < last
      <4>1. CASE IsLast(m, last)
        <5>1. s <= last /\ s # last
          BY <3>5, <4>1 DEF IsLast
        <5> QED
          BY <2>3, <5>1
      <4>2. CASE last > hi
        BY <2>3, <3>2, <3>3, <4>2 DEF Governs
      <4> QED
        BY <2>1, <4>1, <4>2 DEF Reach
    <3>8. s \in S /\ s # Max(S)
      <4>1. s \in S /\ last \in S
        BY <2>1, <2>2, <2>3, <3>6, <3>7
      <4>2. last <= Max(S) /\ Max(S) \in Nat
        BY <2>3, <4>1, GreatestIs
      <4> QED
        BY <2>3, <3>7, <4>1, <4>2
    <3>9. PICK q : q = Piece(m, S, s)
      OBVIOUS
    <3>10. q \in I /\ q.tags = m[s] /\ a \in q.addr .. q.addr + q.size - 1
      BY <2>6, <2>7, <3>3, <3>8, <3>9
    <3>11. x \in {<<b, q.tags>> : b \in (lo .. hi) \cap (q.addr .. q.addr + q.size - 1)}
      BY <3>1, <3>4, <3>10
    <3> QED
      BY <3>4, <3>10, <3>11 DEF Spans
  <2> QED
    BY <2>5, <2>8, <2>9
<1> QED
  BY <1>2, <1>3

-----------------------------------------------------------------------------
(***************************************************************************)
(* FeatureMap: the maps of all levels of detail.  They are built by folds   *)
(* over the items of a CFB and over the levels; what a fold computes is     *)
(* shown by existence of the function it stands for, and by induction over  *)
(* the subsets it goes through.                                            *)
(***************************************************************************)
\* What the folds of the module do with an element and what they have so far, and
\* which element they take next.
Contents   == [of |-> "contents", w |-> 0]
Adding(w)  == [of |-> "adding", w |-> w]
Levels     == [of |-> "levels", w |-> 0]
Taking(rs, q)  == [of |-> "regions", rs |-> rs, q |-> q]
Measuring(rs)  == [of |-> "bytes", rs |-> rs]
Sharing(rs)    == [of |-> "widths", rs |-> rs]
Placing(ws)    == [of |-> "positions", ws |-> ws]
TakeRegion(S, r) == IF \E q \in S : Overlap(r, q) THEN S ELSE S \cup {r}
ShareOut(t, r) ==
  LET w == Max({Round(DisplayedSize(r) * t.width, t.bytes), 1})
  IN  [bytes |-> t.bytes - DisplayedSize(r), width |-> t.width - w, got |-> Append(t.got, w)]
LayoutStep(how, i, v) ==
  IF how.of = "regions" THEN TakeRegion(v, how.rs[how.q[i]])
  ELSE IF how.of = "bytes" THEN v + DisplayedSize(how.rs[i])
  ELSE IF how.of = "widths" THEN ShareOut(v, how.rs[i])
  ELSE Append(v, Last(v) + how.ws[i])
FoldStep(how, x, v) ==
  IF how.of = "contents" THEN WithItem(v, x)
  ELSE IF how.of = "adding" THEN AddInterval(v, x.addr, x.size, x.tags, how.w)
  ELSE IF how.of = "levels" THEN <<Coarser(Head(v), BinWidths[Len(BinWidths) - x])>> \o v
  ELSE LayoutStep(how, x, v)
Picked(how, s) ==
  IF how.of = "contents" \/ how.of = "adding" THEN CHOOSE x \in s : TRUE ELSE Max(s)
Picks(how, S) == \A s \in SUBSET S : s # {} => Picked(how, s) \in s

IsFold(how, base, S, h) ==
  h = [s \in SUBSET S |-> IF s = {} THEN base
                          ELSE FoldStep(how, Picked(how, s), h[s \ {Picked(how, s)}])]

\* Such a fold is well defined on a finite set ...
LEMMA FoldExists ==
  ASSUME NEW how, NEW base, NEW S, IsFiniteSet(S), Picks(how, S)
  PROVE  \E h : IsFold(how, base, S, h)
<1> DEFINE Up(n) == {s \in SUBSET S : Cardinality(s) <= n}
           Def(n, h) == h = [s \in Up(n) |-> IF s = {} THEN base
                                        ELSE FoldStep(how, Picked(how, s), h[s \ {Picked(how, s)}])]
<1>1. \A s \in SUBSET S : IsFiniteSet(s) /\ Cardinality(s) \in Nat /\ Cardinality(s) <= Cardinality(S)
  BY FS_Subset, FS_CardinalityType
<1>2. Up(Cardinality(S)) = SUBSET S /\ Cardinality(S) \in Nat
  BY <1>1
<1>3. SUFFICES ASSUME ~\E h : Def(Cardinality(S), h) PROVE FALSE
  BY <1>2 DEF IsFold
<1>4. PICK B : B = {n \in Nat : ~\E h : Def(n, h)}
  OBVIOUS
<1>5. B \subseteq Nat /\ B # {}
  BY <1>2, <1>3, <1>4
<1>6. PICK n \in B : \A x \in B : n <= x
  BY <1>5, LeastIs
<1>7. n \in Nat /\ ~\E h : Def(n, h)
  BY <1>4
<1>8. n # 0
  <2> SUFFICES ASSUME n = 0 PROVE FALSE
    OBVIOUS
  <2>1. \A s \in Up(0) : s = {}
    BY <1>1, FS_EmptySet
  <2>2. PICK h : h = [s \in Up(0) |-> base]
    OBVIOUS
  <2>3. Def(0, h)
    BY <2>1, <2>2
  <2> QED
    BY <1>7, <2>3
<1>9. PICK g : Def(n - 1, g)
  <2>1. n - 1 \in Nat /\ n - 1 \notin B
    BY <1>6, <1>7, <1>8
  <2> QED
    BY <1>4, <2>1
<1>10. PICK h : h = [s \in Up(n) |-> IF s = {} THEN base
                                    ELSE FoldStep(how, Picked(how, s), g[s \ {Picked(how, s)}])]
  OBVIOUS
<1>11. ASSUME NEW s \in Up(n), s # {}
       PROVE  h[s \ {Picked(how, s)}] = g[s \ {Picked(how, s)}]
  <2>1. PICK x \in s : x = Picked(how, s)
    BY <1>11 DEF Picks
  <2>2. PICK t : t = s \ {x}
    OBVIOUS
  <2>3. t \in SUBSET S /\ Cardinality(t) = Cardinality(s) - 1
    BY <1>1, <2>2, FS_RemoveElement
  <2>4. t \in Up(n - 1) /\ t \in Up(n)
    BY <1>1, <1>7, <2>3
  <2>5. h[t] = IF t = {} THEN base ELSE FoldStep(how, Picked(how, t), g[t \ {Picked(how, t)}])
    BY <1>10, <2>4
  <2>6. g[t] = IF t = {} THEN base ELSE FoldStep(how, Picked(how, t), g[t \ {Picked(how, t)}])
    BY <1>9, <2>4
  <2> QED
    BY <2>1, <2>2, <2>5, <2>6
<1>12. Def(n, h)
  BY <1>10, <1>11
<1> QED
  BY <1>7, <1>12

\* ... and what holds of no element and of one element more holds of all.
LEMMA FoldInduction ==
  ASSUME NEW how, NEW S, IsFiniteSet(S), Picks(how, S), NEW Good, {} \in Good,
         \A s \in SUBSET S : s # {} /\ s \ {Picked(how, s)} \in Good => s \in Good
  PROVE  S \in Good
<1>1. \A s \in SUBSET S : IsFiniteSet(s) /\ Cardinality(s) \in Nat
  BY FS_Subset, FS_CardinalityType
<1>2. PICK B : B = {n \in Nat : \E s \in SUBSET S : s \notin Good /\ n = Cardinality(s)}
  OBVIOUS
<1>3. SUFFICES ASSUME B # {} PROVE FALSE
  BY <1>1, <1>2
<1>4. PICK n \in B : \A x \in B : n <= x
  BY <1>2, <1>3, LeastIs
<1>5. PICK s \in SUBSET S : s \notin Good /\ n = Cardinality(s)
  BY <1>2
<1>6. s # {}
  BY <1>5
<1>7. PICK x \in s : x = Picked(how, s)
  BY <1>6 DEF Picks
<1>8. PICK t : t = s \ {x}
  OBVIOUS
<1>9. t \in SUBSET S /\ Cardinality(t) = n - 1 /\ Cardinality(t) \in Nat /\ n \in Nat
  BY <1>1, <1>5, <1>8, FS_RemoveElement
<1>10. t \notin Good
  BY <1>5, <1>6, <1>7, <1>8
<1>11. n - 1 \in B
  BY <1>2, <1>9, <1>10
<1> QED
  BY <1>4, <1>9, <1>11

-----------------------------------------------------------------------------
Holds(o, a) == o.addr <= a /\ a < o.addr + o.size
Given(items, a) == UNION {o.tags : o \in {q \in items : Holds(q, a)}}

LEMMA GivenMore ==
  ASSUME NEW items, NEW o \in items, NEW a
  PROVE  /\ Given({}, a) = {}
         /\ Given(items, a) = Given(items \ {o}, a) \cup IF Holds(o, a) THEN o.tags ELSE {}
  BY DEF Given

\* The order in which a fold takes the items does not matter to what is given.
LEMMA ContentIs ==
  ASSUME NEW items, IsFiniteSet(items)
  PROVE  ContentOf(items) = [a \in Addr |-> Given(items, a)]
<1> DEFINE Taken(s) == CHOOSE x \in s : TRUE
           Def(h) == h = [s \in SUBSET items |->
                            IF s = {} THEN NoContent ELSE WithItem(h[s \ {Taken(s)}], Taken(s))]
<1>1. /\ Picks(Contents, items) /\ \A s : Picked(Contents, s) = Taken(s)
      /\ \A x, v : FoldStep(Contents, x, v) = WithItem(v, x)
  BY DEF Picks, Picked, Contents, FoldStep
<1>2. \E h : Def(h)
  <2>1. PICK h : IsFold(Contents, NoContent, items, h)
    BY <1>1, FoldExists
  <2>2. Def(h)
    BY <1>1, <2>1 DEF IsFold
  <2> QED
    BY <2>2
<1>3. PICK h : h = CHOOSE g : Def(g)
  OBVIOUS
<1>4. Def(h)
  BY <1>2, <1>3
<1>5. ContentOf(items) = h[items]
  BY <1>3 DEF ContentOf, FoldSet, MapThenFoldSet
<1> DEFINE Right(s) == h[s] = [a \in Addr |-> Given(s, a)]
<1>6. PICK Good : Good = {s \in SUBSET items : Right(s)}
  OBVIOUS
<1>7. {} \in Good
  <2>1. h[{}] = NoContent
    BY <1>4
  <2>2. NoContent = [a \in Addr |-> Given({}, a)]
    BY DEF NoContent, Given
  <2> QED
    BY <1>6, <2>1, <2>2
<1>8. ASSUME NEW s \in SUBSET items, s # {}, s \ {Picked(Contents, s)} \in Good
      PROVE  s \in Good
  <2>1. PICK o \in s : o = Taken(s)
    BY <1>8
  <2>2. PICK t : t = s \ {o}
    OBVIOUS
  <2>3. h[s] = WithItem(h[t], o)
    BY <1>4, <1>8, <2>1, <2>2
  <2>4. t \in Good /\ h[t] = [a \in Addr |-> Given(t, a)]
    BY <1>1, <1>6, <1>8, <2>1, <2>2
  <2>5. ASSUME NEW a \in Addr
        PROVE  Given(s, a) = IF Holds(o, a) THEN h[t][a] \cup o.tags ELSE h[t][a]
    <3>1. h[t][a] = Given(t, a)
      BY <2>4
    <3>2. Given(s, a) = Given(t, a) \cup IF Holds(o, a) THEN o.tags ELSE {}
      BY <2>2, GivenMore
    <3> QED
      BY <3>1, <3>2
  <2>6. WithItem(h[t], o) = [a \in Addr |-> IF Holds(o, a) THEN h[t][a] \cup o.tags ELSE h[t][a]]
    BY DEF WithItem, Holds
  <2>7. h[s] = [a \in Addr |-> Given(s, a)]
    BY <2>3, <2>5, <2>6
  <2> QED
    BY <1>6, <2>7
<1>9. items \in Good
  BY <1>1, <1>7, <1>8, FoldInduction
<1> QED
  BY <1>5, <1>6, <1>9

AddAll(S, w) == FoldSet(LAMBDA o, m : AddInterval(m, o.addr, o.size, o.tags, w), NoStops, S)

\* Items added one by one, in whatever order.
LEMMA AllAdded ==
  ASSUME NEW S, IsFiniteSet(S), \A o \in S : IsItem(o), NEW w \in Nat, w # 0
  PROVE  MapOf(AddAll(S, w), S, w)
<1> DEFINE Taken(s) == CHOOSE x \in s : TRUE
           Put(m, o) == AddInterval(m, o.addr, o.size, o.tags, w)
           Def(h) == h = [s \in SUBSET S |->
                            IF s = {} THEN NoStops ELSE Put(h[s \ {Taken(s)}], Taken(s))]
<1>1. /\ Picks(Adding(w), S) /\ \A s : Picked(Adding(w), s) = Taken(s)
      /\ \A x, v : FoldStep(Adding(w), x, v) = Put(v, x)
  BY DEF Picks, Picked, Adding, FoldStep
<1>2. \E h : Def(h)
  <2>1. PICK h : IsFold(Adding(w), NoStops, S, h)
    BY <1>1, FoldExists
  <2>2. Def(h)
    BY <1>1, <2>1 DEF IsFold
  <2> QED
    BY <2>2
<1>3. PICK h : h = CHOOSE g : Def(g)
  OBVIOUS
<1>4. Def(h)
  BY <1>2, <1>3
<1>5. AddAll(S, w) = h[S]
  BY <1>3 DEF AddAll, FoldSet, MapThenFoldSet
<1>6. PICK Good : Good = {s \in SUBSET S : MapOf(h[s], s, w)}
  OBVIOUS
<1>7. {} \in Good
  <2>1. h[{}] = NoStops
    BY <1>4
  <2> QED
    BY <1>6, <2>1, NoStopsIsMap
<1>8. ASSUME NEW s \in SUBSET S, s # {}, s \ {Picked(Adding(w), s)} \in Good
      PROVE  s \in Good
  <2>1. PICK o \in s : o = Taken(s)
    BY <1>8
  <2>2. PICK t : t = s \ {o}
    OBVIOUS
  <2>3. PICK m : m = h[t]
    OBVIOUS
  <2>4. PICK n : n = h[s]
    OBVIOUS
  <2>5. n = AddInterval(m, o.addr, o.size, o.tags, w)
    BY <1>4, <1>8, <2>1, <2>2, <2>3, <2>4
  <2>6. t \in Good /\ MapOf(m, t, w) /\ IsItem(o)
    BY <1>1, <1>6, <1>8, <2>1, <2>2, <2>3
  <2>7. IntervalMap(n) /\ \A a \in Nat : TagsAt(n, a) = WithTags(m, o, a, w)
    BY <2>5, <2>6, AddIntervalIsRight DEF MapOf
  <2>8. ASSUME NEW a \in Nat PROVE TagsAt(n, a) = GivenToBin(s, a, w)
    <3>1. TagsAt(m, a) = GivenToBin(t, a, w)
      BY <2>6 DEF MapOf
    <3>2. GivenToBin(s, a, w) = GivenToBin(t, a, w) \cup IF Hits(o, a, w) THEN o.tags ELSE {}
      BY <2>2, BinGivenMore
    <3> QED
      BY <2>7, <3>1, <3>2 DEF WithTags
  <2>9. MapOf(n, s, w)
    BY <2>7, <2>8 DEF MapOf
  <2> QED
    BY <1>6, <2>4, <2>9
<1>9. S \in Good
  BY <1>1, <1>7, <1>8, FoldInduction
<1> QED
  BY <1>5, <1>6, <1>9

\* A level is made from the intervals of the next finer one; it is the one the items
\* themselves would have made.
LEMMA CoarserIs ==
  ASSUME NEW m, NEW S, NEW v \in Nat, v # 0, MapOf(m, S, v), \A o \in S : IsItem(o),
         NEW w \in Nat, w # 0, w % v = 0
  PROVE  MapOf(Coarser(m, w), S, w)
<1>1. Stops(m) /\ \A s \in DOMAIN m : IsLast(m, s) => m[s] = {}
  BY DEF MapOf, IntervalMap
<1>2. PICK R : R = Pieces(m)
  OBVIOUS
<1>3. Coarser(m, w) = AddAll(R, w)
  BY <1>2 DEF Coarser, AddAll, FoldSet, MapThenFoldSet, Pieces
<1>4. /\ \A r \in R : /\ r.tags # {}
                      /\ \E s \in DOMAIN m \ {Max(DOMAIN m)} : r = Piece(m, DOMAIN m, s)
      /\ \A s \in DOMAIN m \ {Max(DOMAIN m)} : m[s] # {} => Piece(m, DOMAIN m, s) \in R
      /\ IsFiniteSet(R)
  BY <1>1, <1>2, PiecesAre
<1>5. ASSUME NEW r \in R
      PROVE  /\ IsItem(r)
             /\ \E s \in DOMAIN m : r.tags = m[s] /\ \A b \in Nat :
                  b \in r.addr .. r.addr + r.size - 1 => Governs(m, s, b)
  <2>1. PICK s \in DOMAIN m \ {Max(DOMAIN m)} : r = Piece(m, DOMAIN m, s)
    BY <1>4
  <2>2. /\ r.tags = m[s] /\ r.addr \in Nat /\ r.size \in Nat
        /\ \A b \in Nat : b \in r.addr .. r.addr + r.size - 1 <=> Governs(m, s, b)
    BY <1>1, <2>1, PieceCovers
  <2> QED
    BY <1>4, <2>2 DEF IsItem
<1>6. MapOf(AddAll(R, w), R, w)
  BY <1>4, <1>5, AllAdded
<1>7. ASSUME NEW a \in Nat, NEW x \in GivenToBin(R, a, w) PROVE x \in GivenToBin(S, a, w)
  <2>1. PICK r \in R : Hits(r, a, w) /\ x \in r.tags
    BY <1>7 DEF GivenToBin
  <2>2. IsItem(r)
    BY <1>5
  <2>3. PICK b \in r.addr .. r.addr + r.size - 1 : SameBin(b, a, w)
    BY <2>1 DEF Hits, InReach
  <2>4. b \in Nat
    BY <2>2, <2>3 DEF IsItem
  <2>5. PICK s \in DOMAIN m : r.tags = m[s] /\ Governs(m, s, b)
    BY <1>5, <2>3, <2>4
  <2>6. x \in TagsAt(m, b)
    BY <1>1, <2>1, <2>4, <2>5, TagsOfGovernor
  <2>7. x \in GivenToBin(S, b, v)
    BY <2>4, <2>6 DEF MapOf
  <2>8. PICK o \in S : Hits(o, b, v) /\ x \in o.tags
    BY <2>7 DEF GivenToBin
  <2>9. PICK c \in o.addr .. o.addr + o.size - 1 : SameBin(c, b, v)
    BY <2>8 DEF Hits, InReach
  <2>10. c \in Nat
    BY <2>9 DEF IsItem
  <2>11. SameBin(c, b, w)
    BY <2>4, <2>9, <2>10, BinsNest
  <2>12. SameBin(c, a, w)
    BY <2>3, <2>11 DEF SameBin
  <2>13. Hits(o, a, w)
    BY <2>9, <2>12 DEF Hits, InReach
  <2> QED
    BY <2>8, <2>13 DEF GivenToBin
<1>8. ASSUME NEW a \in Nat, NEW x \in GivenToBin(S, a, w) PROVE x \in GivenToBin(R, a, w)
  <2>1. PICK o \in S : Hits(o, a, w) /\ x \in o.tags
    BY <1>8 DEF GivenToBin
  <2>2. PICK b \in o.addr .. o.addr + o.size - 1 : SameBin(b, a, w)
    BY <2>1 DEF Hits, InReach
  <2>3. b \in Nat
    BY <2>2 DEF IsItem
  <2>4. Hits(o, b, v)
    BY <2>2 DEF Hits, InReach, SameBin
  <2>5. x \in TagsAt(m, b)
    <3>1. x \in GivenToBin(S, b, v)
      BY <2>1, <2>4 DEF GivenToBin
    <3> QED
      BY <2>3, <3>1 DEF MapOf
  <2>6. PICK s \in DOMAIN m : Governs(m, s, b)
    BY <1>1, <2>3, <2>5, GovernorIs, TagsOfNone
  <2>7. x \in m[s]
    BY <1>1, <2>3, <2>5, <2>6, TagsOfGovernor
  <2>8. s # Max(DOMAIN m)
    <3>1. ~IsLast(m, s)
      BY <1>1, <2>7
    <3>2. DOMAIN m \subseteq Nat /\ IsFiniteSet(DOMAIN m) /\ DOMAIN m # {}
      BY <1>1 DEF Stops
    <3>3. \A t \in DOMAIN m : t <= Max(DOMAIN m)
      BY <3>2, GreatestIs
    <3> QED
      BY <3>1, <3>3 DEF IsLast
  <2>9. PICK r : r = Piece(m, DOMAIN m, s)
    OBVIOUS
  <2>10. r \in R
    BY <1>4, <2>7, <2>8, <2>9
  <2>11. r.tags = m[s] /\ b \in r.addr .. r.addr + r.size - 1
    BY <1>1, <2>3, <2>6, <2>8, <2>9, PieceCovers
  <2>12. Hits(r, a, w)
    BY <2>2, <2>11 DEF Hits, InReach
  <2> QED
    BY <2>7, <2>10, <2>11, <2>12 DEF GivenToBin
<1>9. ASSUME NEW a \in Nat PROVE GivenToBin(R, a, w) = GivenToBin(S, a, w)
  BY <1>7, <1>8
<1> QED
  BY <1>3, <1>6, <1>9 DEF MapOf

\* The levels built when k levels have followed the finest one.
Built(ms, k, S) ==
  /\ \E X : ms \in Seq(X)
  /\ Len(ms) = k + 1
  /\ \A j \in 1 .. k + 1 : MapOf(ms[j], S, BinWidths[Len(BinWidths) - 1 - k + j])

LEMMA BuiltOneMore ==
  ASSUME NEW ms, NEW k \in Nat, NEW S, \A o \in S : IsItem(o), k + 1 < Len(BinWidths),
         Built(ms, k, S), NEW n, n = <<Coarser(Head(ms), BinWidths[Len(BinWidths) - (k + 1)])>> \o ms
  PROVE  Built(n, k + 1, S)
<1>1. PICK L \in Nat : /\ L = Len(BinWidths) /\ k + 1 < L
                       /\ \A i \in 1 .. L : BinWidths[i] \in Nat /\ BinWidths[i] # 0
                       /\ \A i \in 2 .. L : BinWidths[i - 1] % BinWidths[i] = 0
  <2>1. PICK L : L = Len(BinWidths)
    OBVIOUS
  <2>2. L \in Nat /\ DOMAIN BinWidths = 1 .. L /\ \A i \in 1 .. L : BinWidths[i] \in Nat \ {0}
    BY <2>1, FeatureMapAssumption, LenProperties
  <2>3. \A i \in 2 .. L : i \in DOMAIN BinWidths \ {1}
    BY <2>2
  <2>4. \A i \in 2 .. L : BinWidths[i - 1] % BinWidths[i] = 0
    BY <2>3, FeatureMapAssumption
  <2>5. \A i \in 1 .. L : BinWidths[i] \in Nat /\ BinWidths[i] # 0
    BY <2>2
  <2> QED
    BY <2>1, <2>2, <2>4, <2>5
<1>2. PICK i \in 1 .. L : i = L - (k + 1)
  BY <1>1
<1>3. PICK X : ms \in Seq(X)
  BY DEF Built
<1>4. Len(ms) = k + 1 /\ \A j \in 1 .. k + 1 : MapOf(ms[j], S, BinWidths[L - 1 - k + j])
  BY <1>1 DEF Built
<1>5. PICK c : c = Coarser(Head(ms), BinWidths[i])
  OBVIOUS
<1>6. MapOf(c, S, BinWidths[i])
  <2>1. Head(ms) = ms[1] /\ L - 1 - k + 1 = i + 1
    BY <1>2, <1>3, <1>4, HeadTailProperties, EmptySeq
  <2>2. MapOf(Head(ms), S, BinWidths[i + 1])
    BY <1>4, <2>1
  <2>3. /\ BinWidths[i] \in Nat /\ BinWidths[i] # 0
        /\ BinWidths[i + 1] \in Nat /\ BinWidths[i + 1] # 0
        /\ BinWidths[i] % BinWidths[i + 1] = 0
    <3>1. i + 1 \in 2 .. L /\ i + 1 - 1 = i
      BY <1>1, <1>2
    <3> QED
      BY <1>1, <3>1
  <2> QED
    BY <1>5, <2>2, <2>3, CoarserIs
<1>7. PICK Y : Y = X \cup {c}
  OBVIOUS
<1>8. <<c>> \in Seq(Y) /\ ms \in Seq(Y) /\ Len(<<c>>) = 1 /\ <<c>>[1] = c
  BY <1>3, <1>7
<1>9. n = <<c>> \o ms
  BY <1>1, <1>2, <1>5
<1>10. /\ n \in Seq(Y) /\ Len(n) = k + 2 /\ n[1] = c
       /\ \A j \in 2 .. k + 2 : n[j] = ms[j - 1]
  BY <1>4, <1>8, <1>9, ConcatProperties
<1>11. ASSUME NEW j \in 1 .. (k + 1) + 1 PROVE MapOf(n[j], S, BinWidths[L - 1 - (k + 1) + j])
  <2>1. CASE j = 1
    <3>1. L - 1 - (k + 1) + 1 = i
      BY <1>2
    <3> QED
      BY <1>6, <1>10, <2>1, <3>1
  <2>2. CASE j # 1
    <3>1. j - 1 \in 1 .. k + 1 /\ L - 1 - k + (j - 1) = L - 1 - (k + 1) + j
      BY <2>2
    <3>2. n[j] = ms[j - 1]
      BY <1>10, <2>2
    <3> QED
      BY <1>4, <3>1, <3>2
  <2> QED
    BY <2>1, <2>2
<1> QED
  BY <1>1, <1>10, <1>11 DEF Built

\* Every level of detail built from a CFB is the map of its items.
LEMMA MapsBuilt ==
  ASSUME NEW items, IsFiniteSet(items), \A o \in items : IsItem(o)
  PROVE  Built(BuildMaps(items), Len(BinWidths) - 1, items)
<1> DEFINE L == Len(BinWidths)
           finest == AddAll(items, 1)
           seq == [i \in 1 .. L - 1 |-> L - i]
           Above(ms, i) == <<Coarser(Head(ms), BinWidths[i])>> \o ms
           Def(h) == h = [s \in SUBSET DOMAIN seq |->
                            IF s = {} THEN <<finest>>
                            ELSE Above(h[s \ {Max(s)}], seq[Max(s)])]
<1>0. L \in Nat /\ L # 0 /\ BinWidths[L] = 1
  BY FeatureMapAssumption
<1>1. DOMAIN seq = 1 .. L - 1 /\ IsFiniteSet(1 .. L - 1) /\ \A i \in 1 .. L - 1 : seq[i] = L - i
  BY <1>0, FS_Interval
<1>2. /\ Picks(Levels, 1 .. L - 1) /\ \A s : Picked(Levels, s) = Max(s)
      /\ \A x, v : FoldStep(Levels, x, v) = <<Coarser(Head(v), BinWidths[L - x])>> \o v
  <2>1. \A s : Picked(Levels, s) = Max(s)
    BY DEF Picked, Levels
  <2>2. ASSUME NEW s \in SUBSET (1 .. L - 1), s # {} PROVE Max(s) \in s
    <3>1. 1 .. L - 1 \subseteq Nat
      BY <1>0
    <3>2. s \subseteq Nat /\ IsFiniteSet(s)
      BY <1>1, <3>1, FS_Subset
    <3> QED
      BY <2>2, <3>2, GreatestIs
  <2>3. Picks(Levels, 1 .. L - 1)
    BY <2>1, <2>2 DEF Picks
  <2>4. \A x, v : FoldStep(Levels, x, v) = <<Coarser(Head(v), BinWidths[L - x])>> \o v
    BY DEF FoldStep, Levels
  <2> QED
    BY <2>1, <2>3, <2>4
<1>3. \E h : Def(h)
  <2>1. PICK h : IsFold(Levels, <<finest>>, 1 .. L - 1, h)
    BY <1>1, <1>2, FoldExists
  <2>2. h = [s \in SUBSET (1 .. L - 1) |-> IF s = {} THEN <<finest>>
                        ELSE FoldStep(Levels, Max(s), h[s \ {Max(s)}])]
    BY <1>2, <2>1 DEF IsFold
  <2>3. ASSUME NEW s \in SUBSET (1 .. L - 1), s # {}
        PROVE  FoldStep(Levels, Max(s), h[s \ {Max(s)}]) = Above(h[s \ {Max(s)}], seq[Max(s)])
    <3>1. Max(s) \in 1 .. L - 1
      BY <1>2, <2>3 DEF Picks
    <3> QED
      BY <1>1, <1>2, <3>1
  <2>4. Def(h)
    BY <1>1, <2>2, <2>3
  <2> QED
    BY <2>4
<1>4. PICK h : h = CHOOSE g : Def(g)
  OBVIOUS
<1>5. Def(h)
  BY <1>3, <1>4
<1>6. BuildMaps(items) = h[1 .. L - 1]
  <2>1. BuildMaps(items) = h[DOMAIN seq]
    BY <1>4 DEF BuildMaps, AddAll, FoldLeft, FoldSet, MapThenFoldSet
  <2> QED
    BY <1>1, <2>1
<1>7. PICK Good : Good = {s \in SUBSET (1 .. L - 1) :
                            \A k \in 0 .. L - 1 : s = 1 .. k => Built(h[s], k, items)}
  OBVIOUS
<1>8. {} \in Good
  <2>1. h[{}] = <<finest>>
    BY <1>5
  <2>2. MapOf(finest, items, 1)
    BY AllAdded
  <2>3. Built(<<finest>>, 0, items)
    <3>1. PICK f : f = finest
      OBVIOUS
    <3>2. <<f>> \in Seq({f}) /\ Len(<<f>>) = 0 + 1 /\ <<f>>[1] = f
      OBVIOUS
    <3>3. ASSUME NEW j \in 1 .. 0 + 1 PROVE MapOf(<<f>>[j], items, BinWidths[Len(BinWidths) - 1 - 0 + j])
      <4>1. j = 1 /\ L - 1 - 0 + j = L
        BY <1>0
      <4> QED
        BY <1>0, <2>2, <3>1, <3>2, <4>1
    <3>4. Built(<<f>>, 0, items)
      BY <3>2, <3>3 DEF Built
    <3> QED
      BY <3>1, <3>4
  <2>4. ASSUME NEW k \in 0 .. L - 1, {} = 1 .. k PROVE k = 0
    <3>1. CASE k # 0
      <4>1. 1 \in 1 .. k
        BY <3>1
      <4> QED
        BY <2>4, <4>1
    <3> QED
      BY <3>1
  <2> QED
    BY <1>7, <2>1, <2>3, <2>4
<1>9. ASSUME NEW s \in SUBSET (1 .. L - 1), s # {}, s \ {Picked(Levels, s)} \in Good
      PROVE  s \in Good
  <2> SUFFICES ASSUME NEW k \in 0 .. L - 1, s = 1 .. k PROVE Built(h[s], k, items)
    BY <1>7
  <2>1. k # 0 /\ k \in Nat
    BY <1>0, <1>9
  <2>2. Max(s) = k
    <3>1. s \subseteq Nat /\ IsFiniteSet(s)
      BY <1>0, <1>1, FS_Subset
    <3>2. Max(s) \in s /\ \A x \in s : x <= Max(s)
      BY <1>9, <3>1, GreatestIs
    <3>3. k \in s
      BY <2>1
    <3> QED
      BY <2>1, <3>1, <3>2, <3>3
  <2>3. PICK j \in Nat : j = k - 1 /\ k = j + 1
    BY <2>1
  <2>4. PICK t : t = s \ {k}
    OBVIOUS
  <2>5. t = 1 .. j /\ t \in Good /\ j \in 0 .. L - 1
    <3>1. t = 1 .. j /\ j \in 0 .. L - 1
      BY <1>0, <2>1, <2>3, <2>4
    <3>2. t \in Good
      BY <1>2, <1>9, <2>2, <2>4
    <3> QED
      BY <3>1, <3>2
  <2>6. Built(h[t], j, items)
    BY <1>7, <2>5
  <2>7. h[s] = <<Coarser(Head(h[t]), BinWidths[L - (j + 1)])>> \o h[t]
    <3>1. h[s] = Above(h[s \ {Max(s)}], seq[Max(s)])
      BY <1>1, <1>5, <1>9
    <3>2. seq[Max(s)] = L - (j + 1)
      BY <1>1, <2>1, <2>2, <2>3
    <3> QED
      BY <2>2, <2>4, <3>1, <3>2
  <2> QED
    <3>1. j + 1 < Len(BinWidths)
      BY <1>0, <2>1, <2>3
    <3> QED
      BY <2>3, <2>6, <2>7, <3>1, BuiltOneMore
<1>10. 1 .. L - 1 \in Good
  <2>1. PICK D : D = 1 .. L - 1
    OBVIOUS
  <2>2. IsFiniteSet(D) /\ Picks(Levels, D)
    BY <1>1, <1>2, <2>1
  <2>3. ASSUME NEW s \in SUBSET D, s # {}, s \ {Picked(Levels, s)} \in Good PROVE s \in Good
    BY <1>9, <2>1, <2>3
  <2>4. D \in Good
    BY <1>8, <2>2, <2>3, FoldInduction
  <2> QED
    BY <2>1, <2>4
<1> QED
  <2>1. L - 1 \in 0 .. L - 1
    BY <1>0
  <2> QED
    BY <1>6, <1>7, <1>10, <2>1

-----------------------------------------------------------------------------
\* MapsAreCanonical, for all addresses and with the map's own shape, is inductive once
\* a job and the calls it posted are known to have a binary.
MapsRight ==
  /\ DOMAIN maps = DOMAIN BinWidths
  /\ \A k \in DOMAIN maps :
       IntervalMap(maps[k]) /\ \A a \in Nat : TagsAt(maps[k], a) = Binned(k, a)
BinaryIsThere ==
  /\ binary \in DOMAIN Binaries \cup {0}
  /\ job.on \/ posted # <<>> => binary \in DOMAIN Binaries
CanonInv == MapsRight /\ BinaryIsThere

LEMMA WidthsAre ==
  /\ Len(BinWidths) \in Nat \ {0} /\ DOMAIN BinWidths = 1 .. Len(BinWidths)
  /\ \A k \in DOMAIN BinWidths : BinWidths[k] \in Nat /\ BinWidths[k] # 0
  BY FeatureMapAssumption, LenProperties

LEMMA ItemsAre ==
  ASSUME NEW b \in DOMAIN Binaries
  PROVE  /\ IsFiniteSet(Binaries[b].items)
         /\ \A o \in Binaries[b].items \cup Binaries[b].tried :
              IsItem(o) /\ \A a \in Nat : Holds(o, a) => a \in Addr
<1>1. IsFiniteSet(Binaries[b].items)
  BY FeatureMapAssumption
<1>2. ASSUME NEW o \in Binaries[b].items \cup Binaries[b].tried
      PROVE  IsItem(o) /\ \A a \in Nat : Holds(o, a) => a \in Addr
  <2>1. IsItem(o) /\ o.addr .. o.addr + o.size - 1 \subseteq Addr
    BY FeatureMapAssumption DEF IsItem
  <2>2. ASSUME NEW a \in Nat, Holds(o, a) PROVE a \in o.addr .. o.addr + o.size - 1
    BY <2>1, <2>2 DEF Holds, IsItem
  <2> QED
    BY <2>1, <2>2
<1> QED
  BY <1>1, <1>2

LEMMA HitsIs ==
  ASSUME NEW o, IsItem(o), NEW a, NEW w
  PROVE  Hits(o, a, w) <=> \E b \in Nat : Holds(o, b) /\ SameBin(b, a, w)
<1>1. \A b \in Nat : Holds(o, b) <=> b \in o.addr .. o.addr + o.size - 1
  BY DEF Holds, IsItem
<1>2. o.addr .. o.addr + o.size - 1 \subseteq Nat
  BY DEF IsItem
<1> QED
  BY <1>1, <1>2 DEF Hits, InReach

\* What is in a bin, of the content given.
InBin(c, a, w) == UNION {c[b] : b \in {b \in Addr : SameBin(b, a, w)}}
LEMMA BinnedIs ==
  ASSUME NEW k, NEW a
  PROVE  Binned(k, a) = InBin(content, a, BinWidths[k])
  BY DEF Binned, InBin, SameBin

LEMMA InBinOfItems ==
  ASSUME NEW S, \A o \in S : IsItem(o) /\ \A a \in Nat : Holds(o, a) => a \in Addr,
         NEW c, c = [a \in Addr |-> Given(S, a)], NEW a \in Nat, NEW w
  PROVE  InBin(c, a, w) = GivenToBin(S, a, w)
<1>0. Addr \subseteq Nat
  BY FeatureMapAssumption
<1>1. ASSUME NEW x \in InBin(c, a, w) PROVE x \in GivenToBin(S, a, w)
  <2>1. PICK b \in Addr : SameBin(b, a, w) /\ x \in c[b]
    BY <1>1 DEF InBin
  <2>2. PICK o \in S : Holds(o, b) /\ x \in o.tags
    <3>1. x \in Given(S, b)
      BY <2>1
    <3> QED
      BY <3>1 DEF Given
  <2>3. Hits(o, a, w)
    BY <1>0, <2>1, <2>2, HitsIs
  <2> QED
    BY <2>2, <2>3 DEF GivenToBin
<1>2. ASSUME NEW x \in GivenToBin(S, a, w) PROVE x \in InBin(c, a, w)
  <2>1. PICK o \in S : Hits(o, a, w) /\ x \in o.tags
    BY <1>2 DEF GivenToBin
  <2>2. PICK b \in Nat : Holds(o, b) /\ SameBin(b, a, w)
    BY <2>1, HitsIs
  <2>3. b \in Addr /\ x \in c[b]
    <3>1. b \in Addr /\ x \in Given(S, b)
      BY <2>1, <2>2 DEF Given
    <3> QED
      BY <3>1
  <2> QED
    BY <2>2, <2>3 DEF InBin
<1> QED
  BY <1>1, <1>2

LEMMA InBinMore ==
  ASSUME NEW c, NEW o, IsItem(o), \A a \in Nat : Holds(o, a) => a \in Addr,
         NEW d, d = WithItem(c, o), NEW a \in Nat, NEW w
  PROVE  InBin(d, a, w) = InBin(c, a, w) \cup IF Hits(o, a, w) THEN o.tags ELSE {}
<1>0. Addr \subseteq Nat
  BY FeatureMapAssumption
<1>1. \A b \in Addr : d[b] = IF Holds(o, b) THEN c[b] \cup o.tags ELSE c[b]
  BY DEF WithItem, Holds
<1>2. ASSUME NEW x \in InBin(d, a, w)
      PROVE  x \in InBin(c, a, w) \cup IF Hits(o, a, w) THEN o.tags ELSE {}
  <2>1. PICK b \in Addr : SameBin(b, a, w) /\ x \in d[b]
    BY <1>2 DEF InBin
  <2>2. CASE x \in c[b]
    BY <2>1, <2>2 DEF InBin
  <2>3. CASE Holds(o, b) /\ x \in o.tags
    BY <1>0, <2>1, <2>3, HitsIs
  <2> QED
    BY <1>1, <2>1, <2>2, <2>3
<1>3. ASSUME NEW x \in InBin(c, a, w) PROVE x \in InBin(d, a, w)
  <2>1. PICK b \in Addr : SameBin(b, a, w) /\ x \in c[b]
    BY <1>3 DEF InBin
  <2>2. x \in d[b]
    BY <1>1, <2>1
  <2> QED
    BY <2>1, <2>2 DEF InBin
<1>4. ASSUME Hits(o, a, w), NEW x \in o.tags PROVE x \in InBin(d, a, w)
  <2>1. PICK b \in Nat : Holds(o, b) /\ SameBin(b, a, w)
    BY <1>4, HitsIs
  <2>2. b \in Addr /\ x \in d[b]
    BY <1>1, <1>4, <2>1
  <2> QED
    BY <2>1, <2>2 DEF InBin
<1> QED
  BY <1>2, <1>3, <1>4

LEMMA CanonInit == Init => CanonInv
<1> SUFFICES ASSUME Init PROVE CanonInv
  OBVIOUS
<1>1. /\ maps = [i \in DOMAIN BinWidths |-> NoStops] /\ content = [a \in Addr |-> {}]
      /\ binary = 0 /\ job.on = FALSE /\ posted = <<>>
  BY DEF Init, NoMaps, NoContent
<1>2. ASSUME NEW k \in DOMAIN maps, NEW a \in Nat
      PROVE  IntervalMap(maps[k]) /\ TagsAt(maps[k], a) = Binned(k, a)
  <2>1. maps[k] = NoStops
    BY <1>1
  <2>2. IntervalMap(NoStops) /\ TagsAt(NoStops, a) = {}
    BY NoStopsIsMap DEF MapOf, GivenToBin
  <2>3. InBin(content, a, BinWidths[k]) = {}
    BY <1>1 DEF InBin
  <2> QED
    BY <2>1, <2>2, <2>3, BinnedIs
<1>3. DOMAIN maps = DOMAIN BinWidths
  BY <1>1
<1>4. MapsRight
  <2>1. ASSUME NEW k \in DOMAIN maps PROVE IntervalMap(maps[k])
    <3>1. 0 \in Nat
      OBVIOUS
    <3> QED
      BY <1>2, <3>1
  <2> QED
    BY <1>2, <1>3, <2>1 DEF MapsRight
<1> QED
  BY <1>1, <1>4 DEF CanonInv, BinaryIsThere

\* An object announced is put into every level.
LEMMA AnnouncedRight ==
  ASSUME MapsRight, NEW o, IsItem(o), \A a \in Nat : Holds(o, a) => a \in Addr,
         maps' = AddItem(maps, o), content' = WithItem(content, o)
  PROVE  MapsRight'
<1>1. /\ DOMAIN maps = DOMAIN BinWidths
      /\ \A k \in DOMAIN maps :
           IntervalMap(maps[k]) /\ \A a \in Nat : TagsAt(maps[k], a) = Binned(k, a)
  BY DEF MapsRight
<1>2. DOMAIN maps' = DOMAIN maps
  BY DEF AddItem
<1>3. ASSUME NEW k \in DOMAIN maps
      PROVE  IntervalMap(maps'[k]) /\ \A a \in Nat : TagsAt(maps'[k], a) = Binned(k, a)'
  <2>1. PICK w \in Nat : w = BinWidths[k] /\ w # 0
    BY <1>1, WidthsAre
  <2>2. PICK m : m = maps[k]
    OBVIOUS
  <2>3. PICK n : n = maps'[k]
    OBVIOUS
  <2>4. n = AddInterval(m, o.addr, o.size, o.tags, w)
    BY <2>1, <2>2, <2>3 DEF AddItem
  <2>5. IntervalMap(n) /\ \A a \in Nat : TagsAt(n, a) = WithTags(m, o, a, w)
    BY <1>1, <2>1, <2>2, <2>4, AddIntervalIsRight
  <2>6. ASSUME NEW a \in Nat PROVE TagsAt(n, a) = Binned(k, a)'
    <3>1. TagsAt(m, a) = InBin(content, a, w)
      BY <1>1, <2>1, <2>2, BinnedIs
    <3>2. InBin(content', a, w) = InBin(content, a, w) \cup IF Hits(o, a, w) THEN o.tags ELSE {}
      <4>1. PICK d : d = content'
        OBVIOUS
      <4>2. InBin(d, a, w) = InBin(content, a, w) \cup IF Hits(o, a, w) THEN o.tags ELSE {}
        BY <4>1, InBinMore
      <4> QED
        BY <4>1, <4>2
    <3>3. Binned(k, a)' = InBin(content', a, w)
      BY <2>1 DEF Binned, InBin, SameBin
    <3> QED
      BY <2>5, <3>1, <3>2, <3>3 DEF WithTags
  <2> QED
    BY <2>3, <2>5, <2>6
<1> QED
  BY <1>1, <1>2, <1>3 DEF MapsRight

\* reload builds every level anew, from the items of the CFB.
LEMMA ReloadedRight ==
  ASSUME NEW S, IsFiniteSet(S), \A o \in S : IsItem(o) /\ \A a \in Nat : Holds(o, a) => a \in Addr,
         maps' = BuildMaps(S), content' = ContentOf(S)
  PROVE  MapsRight'
<1>1. PICK ms : ms = BuildMaps(S)
  OBVIOUS
<1>2. PICK L \in Nat : L = Len(BinWidths) /\ L # 0 /\ DOMAIN BinWidths = 1 .. L
  BY WidthsAre
<1>3. Built(ms, L - 1, S)
  BY <1>1, <1>2, MapsBuilt
<1>4. /\ DOMAIN ms = 1 .. L
      /\ \A j \in 1 .. L : MapOf(ms[j], S, BinWidths[j])
  <2>1. PICK X : ms \in Seq(X)
    BY <1>3 DEF Built
  <2>2. Len(ms) = L
    BY <1>2, <1>3 DEF Built
  <2>3. ASSUME NEW j \in 1 .. L PROVE MapOf(ms[j], S, BinWidths[j])
    <3>1. L - 1 - (L - 1) + j = j /\ j \in 1 .. (L - 1) + 1
      BY <1>2
    <3> QED
      BY <1>2, <1>3, <3>1 DEF Built
  <2> QED
    BY <2>1, <2>2, <2>3, LenProperties
<1>5. content' = [a \in Addr |-> Given(S, a)]
  BY ContentIs
<1>6. ASSUME NEW k \in 1 .. L, NEW a \in Nat PROVE TagsAt(ms[k], a) = Binned(k, a)'
  <2>1. PICK d : d = content'
    OBVIOUS
  <2>2. InBin(d, a, BinWidths[k]) = GivenToBin(S, a, BinWidths[k])
    BY <1>5, <2>1, InBinOfItems
  <2>3. Binned(k, a)' = InBin(d, a, BinWidths[k])
    BY <2>1 DEF Binned, InBin, SameBin
  <2> QED
    BY <1>4, <2>2, <2>3 DEF MapOf
<1>7. maps' = ms
  BY <1>1
<1> QED
  BY <1>2, <1>4, <1>6, <1>7 DEF MapsRight, MapOf

LEMMA CanonStep == CanonInv /\ [Next]_mapVars => CanonInv'
<1> SUFFICES ASSUME CanonInv, [Next]_mapVars PROVE CanonInv'
  OBVIOUS
<1>1. MapsRight /\ BinaryIsThere
  BY DEF CanonInv
<1>2. ASSUME UNCHANGED <<maps, content>> PROVE MapsRight'
  BY <1>1, <1>2 DEF MapsRight, Binned
<1>3. ASSUME UNCHANGED <<binary, job, posted>> PROVE BinaryIsThere'
  BY <1>1, <1>3 DEF BinaryIsThere
<1>4. ASSUME binary' = binary, posted # <<>> PROVE BinaryIsThere'
  BY <1>1, <1>4 DEF BinaryIsThere
<1>5. ASSUME binary' = binary, job.on PROVE BinaryIsThere'
  BY <1>1, <1>5 DEF BinaryIsThere
<1>6. ASSUME NEW b \in DOMAIN Binaries, LoadProject(b) PROVE CanonInv'
  <2>1. UNCHANGED <<maps, content>> /\ binary' = b
    BY <1>6 DEF LoadProject, ReloadWith
  <2> QED
    BY <1>2, <2>1 DEF CanonInv, BinaryIsThere
<1>7. ASSUME NEW b \in DOMAIN Binaries, NEW o \in Binaries[b].tried, ObjectAdded(o) PROVE CanonInv'
  <2>1. job.on /\ binary' = binary /\ maps' = AddItem(maps, o) /\ content' = WithItem(content, o)
    BY <1>7 DEF ObjectAdded, Announce
  <2>2. IsItem(o) /\ \A a \in Nat : Holds(o, a) => a \in Addr
    BY ItemsAre
  <2>3. MapsRight'
    BY <1>1, <2>1, <2>2, AnnouncedRight
  <2> QED
    BY <1>5, <2>1, <2>3 DEF CanonInv
<1>8. CASE StartCfg
  <2>1. UNCHANGED <<maps, content, binary>> /\ binary # 0
    BY <1>8 DEF StartCfg
  <2>2. BinaryIsThere'
    BY <1>1, <2>1 DEF BinaryIsThere
  <2> QED
    BY <1>2, <2>1, <2>2 DEF CanonInv
<1>9. CASE Peek
  BY <1>2, <1>5, <1>9 DEF Peek, CanonInv
<1>10. CASE EndCfg(<<>>) \/ EndCfg(<<"generated">>)
  BY <1>2, <1>5, <1>10 DEF EndCfg, CanonInv
<1>11. CASE TimePasses
  BY <1>2, <1>3, <1>11 DEF TimePasses, CanonInv
<1>12. CASE GuiRefresh
  BY <1>2, <1>4, <1>12 DEF GuiRefresh, TakePosted, CanonInv
<1>13. CASE GuiPeek
  BY <1>2, <1>4, <1>13 DEF GuiPeek, TakePosted, CanonInv
<1>14. CASE GuiCfgGenerated
  <2>1. /\ posted # <<>> /\ binary' = binary /\ cfb' = Cfb("final", Binaries[binary].items)
        /\ ReloadWith(cfb')
    BY <1>14 DEF GuiCfgGenerated, TakePosted
  <2>2. PICK S : S = Binaries[binary].items
    OBVIOUS
  <2>3. cfb'.items = S /\ cfb'.made # NoCfb.made
    BY <2>1, <2>2 DEF Cfb, NoCfb
  <2>4. maps' = BuildMaps(S) /\ content' = ContentOf(S)
    BY <2>1, <2>3 DEF ReloadWith
  <2>5. binary \in DOMAIN Binaries
    BY <1>1, <2>1 DEF BinaryIsThere
  <2>6. MapsRight'
    BY <2>2, <2>4, <2>5, ItemsAre, ReloadedRight
  <2> QED
    BY <1>4, <2>1, <2>6 DEF CanonInv
<1>15. ASSUME NEW x, HoverAt(x) PROVE CanonInv'
  BY <1>2, <1>3, <1>15 DEF HoverAt, CanonInv
<1>16. CASE HoverLeave
  BY <1>2, <1>3, <1>16 DEF HoverLeave, CanonInv
<1>17. ASSUME NEW w, Resize(w) PROVE CanonInv'
  BY <1>2, <1>3, <1>17 DEF Resize, CanonInv
<1>18. CASE UNCHANGED mapVars
  BY <1>2, <1>3, <1>18 DEF mapVars, CanonInv
<1> QED
  BY <1>6, <1>7, <1>8, <1>9, <1>10, <1>11, <1>12, <1>13, <1>14, <1>15, <1>16, <1>17, <1>18 DEF Next

(* The map of each level of detail says of every bin exactly what was announced in it and
   has no two adjacent intervals with the same tags, from each refresh and each
   announcement on the way, for all binaries, numbers of levels and bin widths. *)
THEOREM MapsAlwaysCanonical == Spec => []MapsAreCanonical
<1>1. Spec => []CanonInv
  BY CanonInit, CanonStep, PTL DEF Spec
<1>2. CanonInv => MapsAreCanonical
  <2> SUFFICES ASSUME CanonInv PROVE MapsAreCanonical
    OBVIOUS
  <2>1. ASSUME NEW k \in DOMAIN maps
        PROVE  /\ \A a \in Addr : TagsAt(maps[k], a) = Binned(k, a)
               /\ \A s \in DOMAIN maps[k] : maps[k][s] # IF s = 0 THEN {} ELSE TagsAt(maps[k], s - 1)
    <3>1. IntervalMap(maps[k]) /\ \A a \in Nat : TagsAt(maps[k], a) = Binned(k, a)
      BY DEF CanonInv, MapsRight
    <3>2. Addr \subseteq Nat
      BY FeatureMapAssumption
    <3> QED
      BY <3>1, <3>2 DEF IntervalMap, TagsBefore
  <2> QED
    BY <2>1 DEF MapsAreCanonical
<1> QED
  BY <1>1, <1>2, PTL

-----------------------------------------------------------------------------
(***************************************************************************)
(* FeatureMap: the layout.  The regions are taken largest first, those that *)
(* overlap one taken are left out, the others stand by address; each takes  *)
(* its share of what is left of the strip.                                  *)
(***************************************************************************)
\* Whatever is ordered can be enumerated in its order.
Orders(R, S) ==
  /\ \A x, y, z \in S : <<x, y>> \in R /\ <<y, z>> \in R => <<x, z>> \in R
  /\ \A x, y \in S : x # y => <<x, y>> \in R \/ <<y, x>> \in R
  /\ \A x \in S : <<x, x>> \notin R
ListsAll(q, R, S) ==
  /\ q \in [1 .. Cardinality(S) -> S]
  /\ \A i, j \in 1 .. Cardinality(S) : i < j => <<q[i], q[j]>> \in R

Before(R, S, x) == {y \in S : <<y, x>> \in R}
LEMMA FirstExists ==
  ASSUME NEW S, IsFiniteSet(S), S # {}, NEW R, Orders(R, S)
  PROVE  \E x \in S : \A y \in S \ {x} : <<x, y>> \in R
<1>1. \A x \in S : IsFiniteSet(Before(R, S, x)) /\ Cardinality(Before(R, S, x)) \in Nat
  <2>1. \A x \in S : Before(R, S, x) \in SUBSET S
    BY DEF Before
  <2> QED
    BY <2>1, FS_Subset, FS_CardinalityType
<1>2. PICK T : T = {n \in Nat : \E x \in S : n = Cardinality(Before(R, S, x))}
  OBVIOUS
<1>3. T \subseteq Nat /\ T # {}
  BY <1>1, <1>2
<1>4. PICK n \in T : \A k \in T : n <= k
  BY <1>3, LeastIs
<1>5. PICK x \in S : n = Cardinality(Before(R, S, x))
  BY <1>2, <1>4
<1>6. ASSUME NEW y \in S \ {x}, <<y, x>> \in R PROVE FALSE
  <2>1. Before(R, S, y) \subseteq Before(R, S, x) /\ Before(R, S, y) # Before(R, S, x)
    BY <1>6 DEF Orders, Before
  <2>2. Cardinality(Before(R, S, y)) < Cardinality(Before(R, S, x))
    BY <1>1, <2>1, FS_Subset
  <2>3. Cardinality(Before(R, S, y)) \in T
    BY <1>1, <1>2
  <2>4. PICK c \in Nat : c = Cardinality(Before(R, S, y))
    BY <1>1
  <2>5. c < n
    BY <1>5, <2>2, <2>4
  <2>6. n <= c
    BY <1>4, <2>3, <2>4
  <2> QED
    BY <1>3, <2>5, <2>6
<1> QED
  BY <1>6 DEF Orders

LEMMA SortedExists ==
  ASSUME NEW S, IsFiniteSet(S), NEW R, Orders(R, S)
  PROVE  \E q : ListsAll(q, R, S)
<1>1. SUFFICES ASSUME ~\E q : ListsAll(q, R, S) PROVE FALSE
  OBVIOUS
<1>2. PICK B : B = {k \in Nat : \E T \in SUBSET S : Cardinality(T) = k /\ ~\E q : ListsAll(q, R, T)}
  OBVIOUS
<1>3. B \subseteq Nat /\ B # {}
  <2>1. Cardinality(S) \in Nat
    BY FS_CardinalityType
  <2> QED
    BY <1>1, <1>2, <2>1
<1>4. PICK k \in B : \A j \in B : k <= j
  BY <1>3, LeastIs
<1>5. k \in Nat
  BY <1>3
<1>6. PICK T \in SUBSET S : Cardinality(T) = k /\ ~\E q : ListsAll(q, R, T)
  BY <1>2
<1>7. IsFiniteSet(T) /\ Orders(R, T)
  BY FS_Subset DEF Orders
<1>8. CASE k = 0
  <2>1. T = {}
    BY <1>6, <1>7, <1>8, FS_EmptySet
  <2>2. PICK q : q = [i \in 1 .. 0 |-> i]
    OBVIOUS
  <2>3. q \in [1 .. 0 -> T] /\ 1 .. 0 = {}
    BY <2>1, <2>2
  <2>4. ListsAll(q, R, T)
    BY <1>6, <1>8, <2>3 DEF ListsAll
  <2> QED
    BY <1>6, <2>4
<1>9. CASE k # 0
  <2>1. T # {}
    BY <1>6, <1>9, FS_EmptySet
  <2>2. PICK m \in T : \A y \in T \ {m} : <<m, y>> \in R
    BY <1>7, <2>1, FirstExists
  <2>3. PICK U : U = T \ {m}
    OBVIOUS
  <2>4. Cardinality(U) = k - 1
    BY <1>6, <1>7, <2>3, FS_RemoveElement
  <2>5. U \in SUBSET S /\ k - 1 \in Nat /\ ~(k <= k - 1)
    <3>1. U \in SUBSET S
      BY <1>6, <2>3
    <3> QED
      BY <1>5, <1>9, <3>1
  <2>6. PICK r : ListsAll(r, R, U)
    BY <1>2, <1>4, <2>4, <2>5
  <2>7. \A i \in 1 .. k - 1 : r[i] \in U
    BY <2>4, <2>6 DEF ListsAll
  <2>8. PICK q : q = [i \in 1 .. k |-> IF i = 1 THEN m ELSE r[i - 1]]
    OBVIOUS
  <2>9. q \in [1 .. k -> T]
    <3>1. \A i \in 1 .. k : i # 1 => i - 1 \in 1 .. k - 1
      BY <1>5
    <3>2. \A i \in 1 .. k : (IF i = 1 THEN m ELSE r[i - 1]) \in T
      BY <2>2, <2>3, <2>7, <3>1
    <3> QED
      BY <2>8, <3>2
  <2>10. ASSUME NEW i \in 1 .. k, NEW j \in 1 .. k, i < j PROVE <<q[i], q[j]>> \in R
    <3>1. j # 1 /\ j - 1 \in 1 .. k - 1 /\ q[j] = r[j - 1]
      BY <1>5, <2>8, <2>10
    <3>2. CASE i = 1
      BY <2>2, <2>3, <2>7, <2>8, <3>1, <3>2
    <3>3. CASE i # 1
      <4>1. i - 1 \in 1 .. k - 1 /\ q[i] = r[i - 1] /\ i - 1 < j - 1
        BY <1>5, <2>8, <2>10, <3>3
      <4> QED
        BY <2>4, <2>6, <3>1, <4>1 DEF ListsAll
    <3> QED
      BY <3>2, <3>3
  <2>11. ListsAll(q, R, T)
    BY <1>6, <2>9, <2>10 DEF ListsAll
  <2> QED
    BY <1>6, <2>11
<1> QED
  BY <1>8, <1>9

\* and then nothing is left out.
LEMMA SortedIsAll ==
  ASSUME NEW S, IsFiniteSet(S), NEW R, Orders(R, S), NEW q, ListsAll(q, R, S)
  PROVE  \A x \in S : \E i \in 1 .. Cardinality(S) : q[i] = x
<1>1. PICK n \in Nat : n = Cardinality(S)
  BY FS_CardinalityType
<1>2. q \in [1 .. n -> S]
  BY <1>1 DEF ListsAll
<1>3. ASSUME NEW i \in 1 .. n, NEW j \in 1 .. n, q[i] = q[j] PROVE i = j
  <2>1. ~(i < j) /\ ~(j < i)
    BY <1>1, <1>2, <1>3 DEF ListsAll, Orders
  <2> QED
    BY <2>1
<1>4. q \in Injection(1 .. n, S)
  BY <1>2, <1>3 DEF Injection, IsInjective
<1>5. Cardinality(1 .. n) = n
  BY FS_Interval
<1>6. q \in Surjection(1 .. n, S)
  BY <1>1, <1>4, <1>5, FS_Injection
<1> QED
  BY <1>1, <1>6 DEF Surjection

\* The values a fold over positions goes through, one position after the other.
IsPassing(how, base, n, g) ==
  g[0] = base /\ \A i \in 1 .. n : g[i] = FoldStep(how, i, g[i - 1])
TakesLast(how, n) == \A S \in SUBSET (1 .. n) : S # {} => Picked(how, S) = Max(S)

LEMMA PositionsTaken ==
  ASSUME NEW how, NEW n \in Nat, TakesLast(how, n)
  PROVE  /\ Picks(how, 1 .. n) /\ IsFiniteSet(1 .. n)
         /\ \A S \in SUBSET (1 .. n) : S # {} => \A i \in S : i <= Max(S)
<1>1. PICK D : D = 1 .. n /\ D \subseteq Nat
  OBVIOUS
<1>2. IsFiniteSet(D)
  BY <1>1, FS_Interval
<1>3. ASSUME NEW S \in SUBSET D, S # {} PROVE Max(S) \in S /\ \A i \in S : i <= Max(S)
  <2>1. S \subseteq Nat /\ IsFiniteSet(S)
    BY <1>1, <1>2, FS_Subset
  <2> QED
    BY <1>3, <2>1, GreatestIs
<1> QED
  BY <1>1, <1>2, <1>3 DEF Picks, TakesLast

LEMMA FoldPasses ==
  ASSUME NEW how, NEW base, NEW n \in Nat, TakesLast(how, n), NEW h, IsFold(how, base, 1 .. n, h)
  PROVE  \E g : IsPassing(how, base, n, g) /\ g[n] = h[1 .. n]
<1>1. PICK g : g = [i \in 0 .. n |-> h[1 .. i]]
  OBVIOUS
<1>2. g[0] = base
  <2>1. 1 .. 0 = {} /\ {} \in SUBSET (1 .. n)
    OBVIOUS
  <2>2. h[{}] = base
    BY <2>1 DEF IsFold
  <2> QED
    BY <1>1, <2>1, <2>2
<1>3. ASSUME NEW i \in 1 .. n PROVE g[i] = FoldStep(how, i, g[i - 1])
  <2>1. PICK S : S = 1 .. i
    OBVIOUS
  <2>2. S \in SUBSET (1 .. n) /\ S # {} /\ i \in S
    <3>1. i \in Nat /\ i >= 1 /\ i <= n
      OBVIOUS
    <3>2. i \in S
      BY <2>1, <3>1
    <3>3. \A j \in S : j \in 1 .. n
      BY <2>1, <3>1
    <3> QED
      BY <3>2, <3>3, Zenon
  <2>3. PICK m : m = Picked(how, S)
    OBVIOUS
  <2>4. m \in S /\ \A j \in S : j <= m
    <3>1. m = Max(S)
      BY <2>2, <2>3 DEF TakesLast
    <3>2. m \in S
      BY <2>2, <2>3, PositionsTaken DEF Picks
    <3> QED
      BY <2>2, <3>1, <3>2, PositionsTaken
  <2>5. m = i
    BY <2>1, <2>2, <2>4
  <2>6. S \ {m} = 1 .. i - 1
    BY <2>1, <2>5
  <2>7. h[S] = FoldStep(how, m, h[S \ {m}])
    BY <2>2, <2>3 DEF IsFold
  <2>8. g[i] = h[S] /\ g[i - 1] = h[1 .. i - 1]
    <3>1. i \in 0 .. n /\ i - 1 \in 0 .. n
      OBVIOUS
    <3> QED
      BY <1>1, <2>1, <3>1
  <2> QED
    BY <2>5, <2>6, <2>7, <2>8
<1> QED
  <2>1. g[n] = h[1 .. n]
    BY <1>1
  <2>2. IsPassing(how, base, n, g)
    BY <1>2, <1>3 DEF IsPassing
  <2> QED
    BY <2>1, <2>2

\* So what holds before the first position, and of each once it does of the one before,
\* holds in the end.
LEMMA PassingInduction ==
  ASSUME NEW n \in Nat, NEW Good, 0 \in Good, \A i \in 1 .. n : i - 1 \in Good => i \in Good
  PROVE  \A i \in 0 .. n : i \in Good
<1>1. SUFFICES ASSUME NEW x \in 0 .. n, x \notin Good PROVE FALSE
  OBVIOUS
<1>2. PICK B : B = {k \in 0 .. n : k \notin Good}
  OBVIOUS
<1>3. B \subseteq Nat /\ B # {}
  BY <1>1, <1>2
<1>4. PICK k \in B : \A j \in B : k <= j
  BY <1>3, LeastIs
<1>5. k \in 1 .. n
  BY <1>2
<1>6. k - 1 \in 0 .. n /\ ~(k <= k - 1)
  BY <1>5
<1>7. k - 1 \in Good
  BY <1>2, <1>4, <1>6
<1> QED
  BY <1>2, <1>5, <1>7

Region == [addr : Nat, size : Nat \ {0}, scaled : BOOLEAN]
RegionsAre(rs) == rs \in Seq(Region)

LEMMA DisplayedSizes ==
  ASSUME NEW r \in Region
  PROVE  DisplayedSize(r) \in Nat \ {0}
  BY FeatureMapAssumption DEF Region, DisplayedSize

LEMMA PositionsCounted ==
  ASSUME NEW n \in Nat
  PROVE  Cardinality(1 .. n) = n /\ IsFiniteSet(1 .. n)
<1>1. Cardinality(1 .. n) = n
  BY FS_Interval
<1>2. IsFiniteSet(1 .. n)
  BY FS_Interval
<1> QED
  BY <1>1, <1>2

LEMMA LargestFirstIs ==
  ASSUME NEW rs \in Seq(Region), NEW n \in Nat, n = Len(rs)
  PROVE  LargestFirst(rs) \in [1 .. n -> 1 .. n]
<1>1. PICK D : D = 1 .. n
  OBVIOUS
<1>2. DOMAIN rs = D /\ IsFiniteSet(D) /\ Cardinality(D) = n /\ D \subseteq Nat
  <2>1. Cardinality(1 .. n) = n /\ IsFiniteSet(1 .. n)
    BY PositionsCounted
  <2>2. DOMAIN rs = 1 .. n
    BY LenProperties
  <2> QED
    BY <1>1, <2>1, <2>2
<1>3. PICK R : R = {ij \in D \X D : Larger(rs, ij[1], ij[2])}
  OBVIOUS
<1>4. \A i \in D : i \in Nat /\ rs[i].size \in Nat
  <2> SUFFICES ASSUME NEW i \in D PROVE i \in Nat /\ rs[i].size \in Nat
    OBVIOUS
  <2>1. rs[i] \in Region
    BY <1>1, ElementOfSeq
  <2> QED
    BY <1>2, <2>1 DEF Region
<1>5. \A i, j \in D : <<i, j>> \in R <=> Larger(rs, i, j)
  BY <1>3
<1>6. Orders(R, D)
  <2>1. \A x, y, z \in D : Larger(rs, x, y) /\ Larger(rs, y, z) => Larger(rs, x, z)
    BY <1>4 DEF Larger
  <2>2. \A x, y \in D : x # y => Larger(rs, x, y) \/ Larger(rs, y, x)
    BY <1>4 DEF Larger
  <2>3. \A x \in D : ~Larger(rs, x, x)
    BY <1>4 DEF Larger
  <2> QED
    BY <1>5, <2>1, <2>2, <2>3 DEF Orders
<1>7. PICK q : ListsAll(q, R, D)
  BY <1>2, <1>6, SortedExists
<1>8. q \in [D -> D] /\ \A i, j \in D : i < j => Larger(rs, q[i], q[j])
  BY <1>1, <1>2, <1>5, <1>7 DEF ListsAll
<1>9. \E p \in [D -> D] : \A i, j \in DOMAIN p : i < j => Larger(rs, p[i], p[j])
  BY <1>8
<1> QED
  BY <1>1, <1>2, <1>9 DEF LargestFirst

Disjoint(S) == \A r, q \in S : r # q => ~Overlap(r, q)

\* The regions taken: none of them overlaps another.
LEMMA RegionsTaken ==
  ASSUME NEW rs \in Seq(Region)
  PROVE  /\ IsFiniteSet(AddedRegions(rs)) /\ AddedRegions(rs) \subseteq Region
         /\ Disjoint(AddedRegions(rs))
<1>1. PICK n \in Nat : n = Len(rs)
  BY LenProperties
<1>2. PICK q \in [1 .. n -> 1 .. n] : q = LargestFirst(rs)
  BY <1>1, LargestFirstIs
<1> DEFINE Add(S, i) == IF \E t \in S : Overlap(rs[i], t) THEN S ELSE S \cup {rs[i]}
           Def(h) == h = [s \in SUBSET DOMAIN q |->
                            IF s = {} THEN {} ELSE Add(h[s \ {Max(s)}], q[Max(s)])]
<1>3. DOMAIN q = 1 .. n
  OBVIOUS
<1>4. PICK how : how = Taking(rs, q)
  OBVIOUS
<1>5. TakesLast(how, n) /\ \A i, v : FoldStep(how, i, v) = Add(v, q[i])
  BY <1>4 DEF TakesLast, Picked, Taking, FoldStep, LayoutStep, TakeRegion
<1>6. PICK h : IsFold(how, {}, 1 .. n, h)
  BY <1>5, PositionsTaken, FoldExists
<1>7. ASSUME NEW g PROVE Def(g) <=> IsFold(how, {}, 1 .. n, g)
  <2>1. ASSUME NEW s \in SUBSET (1 .. n)
        PROVE  (IF s = {} THEN {} ELSE Add(g[s \ {Max(s)}], q[Max(s)]))
               = (IF s = {} THEN {} ELSE FoldStep(how, Picked(how, s), g[s \ {Picked(how, s)}]))
    <3>1. s # {} => Picked(how, s) = Max(s)
      BY <1>5 DEF TakesLast
    <3>2. FoldStep(how, Max(s), g[s \ {Max(s)}]) = Add(g[s \ {Max(s)}], q[Max(s)])
      BY <1>5, Zenon
    <3> QED
      BY <3>1, <3>2, Zenon
  <2>2. [s \in SUBSET (1 .. n) |-> IF s = {} THEN {} ELSE Add(g[s \ {Max(s)}], q[Max(s)])]
        = [s \in SUBSET (1 .. n) |->
             IF s = {} THEN {} ELSE FoldStep(how, Picked(how, s), g[s \ {Picked(how, s)}])]
    BY <2>1
  <2> QED
    BY <1>3, <2>2 DEF IsFold
<1>8. PICK f : f = CHOOSE g : Def(g)
  OBVIOUS
<1>9. IsFold(how, {}, 1 .. n, f)
  BY <1>6, <1>7, <1>8
<1>10. AddedRegions(rs) = f[1 .. n]
  <2>1. AddedRegions(rs) = f[DOMAIN q]
    BY <1>2, <1>8 DEF AddedRegions, FoldLeft, MapThenFoldSet
  <2> QED
    BY <1>3, <2>1
<1>11. PICK g : IsPassing(how, {}, n, g) /\ g[n] = f[1 .. n]
  BY <1>5, <1>9, FoldPasses
<1>12. PICK Good : Good = {i \in 0 .. n : IsFiniteSet(g[i]) /\ g[i] \subseteq Region /\ Disjoint(g[i])}
  OBVIOUS
<1>13. 0 \in Good
  <2>1. g[0] = {}
    BY <1>11 DEF IsPassing
  <2>2. IsFiniteSet({})
    BY FS_EmptySet
  <2>3. IsFiniteSet(g[0]) /\ g[0] \subseteq Region /\ Disjoint(g[0])
    BY <2>1, <2>2 DEF Disjoint
  <2> QED
    BY <1>12, <2>3
<1>14. ASSUME NEW i \in 1 .. n, i - 1 \in Good PROVE i \in Good
  <2>1. PICK S : S = g[i - 1]
    OBVIOUS
  <2>2. PICK r : r = rs[q[i]]
    OBVIOUS
  <2>3. g[i] = Add(S, q[i])
    BY <1>5, <1>11, <2>1 DEF IsPassing
  <2>4. IsFiniteSet(S) /\ S \subseteq Region /\ Disjoint(S)
    BY <1>12, <1>14, <2>1
  <2>5. r \in Region
    <3>1. q[i] \in 1 .. n
      OBVIOUS
    <3> QED
      BY <1>1, <2>2, <3>1, ElementOfSeq
  <2>6. CASE \E t \in S : Overlap(r, t)
    BY <1>12, <2>2, <2>3, <2>4, <2>6
  <2>7. CASE ~\E t \in S : Overlap(r, t)
    <3>1. g[i] = S \cup {r}
      BY <2>2, <2>3, <2>7
    <3>2. IsFiniteSet(S \cup {r})
      BY <2>4, FS_AddElement
    <3>3. \A t \in S : ~Overlap(t, r)
      BY <2>7 DEF Overlap
    <3>4. Disjoint(S \cup {r})
      BY <2>4, <2>7, <3>3 DEF Disjoint
    <3>5. IsFiniteSet(g[i]) /\ g[i] \subseteq Region /\ Disjoint(g[i])
      BY <2>4, <2>5, <3>1, <3>2, <3>4
    <3> QED
      BY <1>12, <3>5
  <2> QED
    BY <2>6, <2>7
<1>15. n \in Good
  <2>1. \A i \in 0 .. n : i \in Good
    BY <1>13, <1>14, PassingInduction
  <2> QED
    BY <2>1
<1> QED
  BY <1>10, <1>11, <1>12, <1>15

\* By address each region ends before the next one begins.
Apart(z) == \A i, j \in DOMAIN z : i < j => z[i].addr + z[i].size <= z[j].addr

LEMMA RegionsByAddr ==
  ASSUME NEW S, IsFiniteSet(S), S \subseteq Region, Disjoint(S)
  PROVE  ByAddr(S) \in Seq(Region) /\ Apart(ByAddr(S))
<1>1. PICK R : R = {rq \in S \X S : rq[1].addr < rq[2].addr}
  OBVIOUS
<1>2. \A r, q \in S : <<r, q>> \in R <=> r.addr < q.addr
  BY <1>1
<1>3. \A r \in S : r.addr \in Nat /\ r.size \in Nat /\ r.size > 0
  BY DEF Region
<1>4. \A r, q \in S : r # q => r.addr + r.size <= q.addr \/ q.addr + q.size <= r.addr
  BY <1>3 DEF Disjoint, Overlap
<1>5. Orders(R, S)
  BY <1>2, <1>3, <1>4 DEF Orders
<1>6. PICK n \in Nat : n = Cardinality(S)
  BY FS_CardinalityType
<1>7. PICK p : ListsAll(p, R, S)
  BY <1>5, SortedExists
<1>8. \E q \in [1 .. n -> S] : \A i, j \in DOMAIN q : i < j => q[i].addr < q[j].addr
  <2>1. p \in [1 .. n -> S] /\ DOMAIN p = 1 .. n
    BY <1>6, <1>7 DEF ListsAll
  <2>2. \A i, j \in 1 .. n : i < j => p[i].addr < p[j].addr
    BY <1>2, <1>6, <1>7, <2>1 DEF ListsAll
  <2> QED
    BY <2>1, <2>2
<1>9. PICK z : z = ByAddr(S)
  OBVIOUS
<1>10. z \in [1 .. n -> S] /\ \A i, j \in DOMAIN z : i < j => z[i].addr < z[j].addr
  BY <1>6, <1>8, <1>9 DEF ByAddr
<1>11. z \in Seq(Region)
  <2>1. z \in [1 .. n -> Region]
    BY <1>10
  <2> QED
    BY <2>1, SeqDef
<1>12. Apart(z)
  <2> SUFFICES ASSUME NEW i \in DOMAIN z, NEW j \in DOMAIN z, i < j
               PROVE  z[i].addr + z[i].size <= z[j].addr
    BY DEF Apart
  <2>1. z[i] \in S /\ z[j] \in S /\ z[i].addr < z[j].addr
    BY <1>10
  <2> QED
    BY <1>3, <1>4, <2>1
<1> QED
  BY <1>9, <1>11, <1>12

Bytes(z) == FoldLeft(LAMBDA n, r : n + DisplayedSize(r), 0, z)
Shared(z, t) == FoldLeft(ShareOut, t, z)
Positions(ws) == FoldLeft(LAMBDA p, w : Append(p, Last(p) + w), <<0>>, ws)

LEMMA BytesPass ==
  ASSUME NEW z, NEW n \in Nat, DOMAIN z = 1 .. n
  PROVE  \E g : IsPassing(Measuring(z), 0, n, g) /\ g[n] = Bytes(z)
<1> DEFINE Def(h) == h = [s \in SUBSET DOMAIN z |->
                            IF s = {} THEN 0 ELSE h[s \ {Max(s)}] + DisplayedSize(z[Max(s)])]
<1>1. TakesLast(Measuring(z), n) /\ \A i, v : FoldStep(Measuring(z), i, v) = v + DisplayedSize(z[i])
  BY DEF TakesLast, Picked, Measuring, FoldStep, LayoutStep
<1>2. PICK h : IsFold(Measuring(z), 0, 1 .. n, h)
  BY <1>1, PositionsTaken, FoldExists
<1>3. ASSUME NEW g PROVE Def(g) <=> IsFold(Measuring(z), 0, 1 .. n, g)
  <2>1. ASSUME NEW s \in SUBSET (1 .. n)
        PROVE  (IF s = {} THEN 0 ELSE g[s \ {Max(s)}] + DisplayedSize(z[Max(s)]))
               = (IF s = {} THEN 0
                  ELSE FoldStep(Measuring(z), Picked(Measuring(z), s), g[s \ {Picked(Measuring(z), s)}]))
    BY <1>1 DEF TakesLast
  <2>2. [s \in SUBSET (1 .. n) |-> IF s = {} THEN 0 ELSE g[s \ {Max(s)}] + DisplayedSize(z[Max(s)])]
        = [s \in SUBSET (1 .. n) |-> IF s = {} THEN 0
             ELSE FoldStep(Measuring(z), Picked(Measuring(z), s), g[s \ {Picked(Measuring(z), s)}])]
    BY <2>1
  <2> QED
    BY <2>2 DEF IsFold
<1>4. PICK f : f = CHOOSE g : Def(g)
  OBVIOUS
<1>5. IsFold(Measuring(z), 0, 1 .. n, f)
  BY <1>2, <1>3, <1>4
<1>6. Bytes(z) = f[1 .. n]
  <2>1. Bytes(z) = f[DOMAIN z]
    BY <1>4 DEF Bytes, FoldLeft, MapThenFoldSet
  <2> QED
    BY <2>1
<1> QED
  BY <1>1, <1>5, <1>6, FoldPasses

LEMMA WidthsPass ==
  ASSUME NEW z, NEW t, NEW n \in Nat, DOMAIN z = 1 .. n
  PROVE  \E g : IsPassing(Sharing(z), t, n, g) /\ g[n] = Shared(z, t)
<1> DEFINE Def(h) == h = [s \in SUBSET DOMAIN z |->
                            IF s = {} THEN t ELSE ShareOut(h[s \ {Max(s)}], z[Max(s)])]
<1>1. TakesLast(Sharing(z), n) /\ \A i, v : FoldStep(Sharing(z), i, v) = ShareOut(v, z[i])
  BY DEF TakesLast, Picked, Sharing, FoldStep, LayoutStep
<1>2. PICK h : IsFold(Sharing(z), t, 1 .. n, h)
  BY <1>1, PositionsTaken, FoldExists
<1>3. ASSUME NEW g PROVE Def(g) <=> IsFold(Sharing(z), t, 1 .. n, g)
  <2>1. ASSUME NEW s \in SUBSET (1 .. n)
        PROVE  (IF s = {} THEN t ELSE ShareOut(g[s \ {Max(s)}], z[Max(s)]))
               = (IF s = {} THEN t
                  ELSE FoldStep(Sharing(z), Picked(Sharing(z), s), g[s \ {Picked(Sharing(z), s)}]))
    BY <1>1 DEF TakesLast
  <2>2. [s \in SUBSET (1 .. n) |-> IF s = {} THEN t ELSE ShareOut(g[s \ {Max(s)}], z[Max(s)])]
        = [s \in SUBSET (1 .. n) |-> IF s = {} THEN t
             ELSE FoldStep(Sharing(z), Picked(Sharing(z), s), g[s \ {Picked(Sharing(z), s)}])]
    BY <2>1
  <2> QED
    BY <2>2 DEF IsFold
<1>4. PICK f : f = CHOOSE g : Def(g)
  OBVIOUS
<1>5. IsFold(Sharing(z), t, 1 .. n, f)
  BY <1>2, <1>3, <1>4
<1>6. Shared(z, t) = f[1 .. n]
  <2>1. Shared(z, t) = f[DOMAIN z]
    BY <1>4 DEF Shared, FoldLeft, MapThenFoldSet
  <2> QED
    BY <2>1
<1> QED
  BY <1>1, <1>5, <1>6, FoldPasses

LEMMA PositionsPass ==
  ASSUME NEW ws, NEW n \in Nat, DOMAIN ws = 1 .. n
  PROVE  \E g : IsPassing(Placing(ws), <<0>>, n, g) /\ g[n] = Positions(ws)
<1> DEFINE Def(h) == h = [s \in SUBSET DOMAIN ws |->
                            IF s = {} THEN <<0>> ELSE Append(h[s \ {Max(s)}], Last(h[s \ {Max(s)}]) + ws[Max(s)])]
<1>1. TakesLast(Placing(ws), n) /\ \A i, v : FoldStep(Placing(ws), i, v) = Append(v, Last(v) + ws[i])
  BY DEF TakesLast, Picked, Placing, FoldStep, LayoutStep
<1>2. PICK h : IsFold(Placing(ws), <<0>>, 1 .. n, h)
  BY <1>1, PositionsTaken, FoldExists
<1>3. ASSUME NEW g PROVE Def(g) <=> IsFold(Placing(ws), <<0>>, 1 .. n, g)
  <2>1. ASSUME NEW s \in SUBSET (1 .. n)
        PROVE  (IF s = {} THEN <<0>> ELSE Append(g[s \ {Max(s)}], Last(g[s \ {Max(s)}]) + ws[Max(s)]))
               = (IF s = {} THEN <<0>>
                  ELSE FoldStep(Placing(ws), Picked(Placing(ws), s), g[s \ {Picked(Placing(ws), s)}]))
    BY <1>1 DEF TakesLast
  <2>2. [s \in SUBSET (1 .. n) |-> IF s = {} THEN <<0>> ELSE Append(g[s \ {Max(s)}], Last(g[s \ {Max(s)}]) + ws[Max(s)])]
        = [s \in SUBSET (1 .. n) |-> IF s = {} THEN <<0>>
             ELSE FoldStep(Placing(ws), Picked(Placing(ws), s), g[s \ {Picked(Placing(ws), s)}])]
    BY <2>1
  <2> QED
    BY <2>2 DEF IsFold
<1>4. PICK f : f = CHOOSE g : Def(g)
  OBVIOUS
<1>5. IsFold(Placing(ws), <<0>>, 1 .. n, f)
  BY <1>2, <1>3, <1>4
<1>6. Positions(ws) = f[1 .. n]
  <2>1. Positions(ws) = f[DOMAIN ws]
    BY <1>4 DEF Positions, FoldLeft, MapThenFoldSet
  <2> QED
    BY <2>1
<1> QED
  BY <1>1, <1>5, <1>6, FoldPasses

LEMMA RoundIs ==
  ASSUME NEW n \in Int, NEW d \in Nat \ {0}
  PROVE  Round(n, d) \in Int
  BY DEF Round

LEMMA RoundWhole ==
  ASSUME NEW x \in Int, NEW d \in Nat \ {0}, NEW n \in Int, n = d * x
  PROVE  Round(n, d) = x
<1>1. n \div d = x
  OBVIOUS
<1>2. n % d = 0
  OBVIOUS
<1> QED
  BY <1>1, <1>2 DEF Round

LEMMA AtLeastOne ==
  ASSUME NEW x \in Int
  PROVE  /\ Max({x, 1}) \in Nat \ {0} /\ Max({x, 1}) >= x
         /\ Max({x, 1}) \in {x, 1}
<1>1. \E y \in {x, 1} : \A s \in {x, 1} : s <= y
  <2>1. CASE x <= 1
    BY <2>1
  <2>2. CASE 1 < x
    BY <2>2
  <2> QED
    BY <2>1, <2>2
<1>2. PICK m \in {x, 1} : m = Max({x, 1}) /\ \A s \in {x, 1} : s <= m
  BY <1>1 DEF Max
<1>3. m >= 1 /\ m >= x /\ m \in Int
  BY <1>2
<1> QED
  BY <1>2, <1>3

\* What is left of the bytes and of the strip after each region.
Rest == [bytes : Int, width : Int, got : Seq(Nat \ {0})]

LEMMA OneShare ==
  ASSUME NEW t \in Rest, t.bytes > 0, NEW r \in Region, NEW u, u = ShareOut(t, r)
  PROVE  /\ u \in Rest /\ u.bytes = t.bytes - DisplayedSize(r)
         /\ t.width - u.width \in Nat \ {0}
         /\ u.got = Append(t.got, t.width - u.width)
         /\ t.bytes = DisplayedSize(r) => u.width <= 0
<1>1. PICK d \in Nat \ {0} : d = DisplayedSize(r)
  BY DisplayedSizes
<1>2. t.bytes \in Nat \ {0} /\ t.width \in Int /\ t.got \in Seq(Nat \ {0})
  BY DEF Rest
<1>3. PICK p \in Int : p = d * t.width
  BY <1>2
<1>4. PICK x \in Int : x = Round(p, t.bytes)
  BY <1>2, <1>3, RoundIs
<1>5. PICK w : w = Max({x, 1})
  OBVIOUS
<1>6. w \in Nat \ {0} /\ w >= x
  BY <1>4, <1>5, AtLeastOne
<1>7. u = [bytes |-> t.bytes - d, width |-> t.width - w, got |-> Append(t.got, w)]
  BY <1>1, <1>3, <1>4, <1>5 DEF ShareOut
<1>8. Append(t.got, w) \in Seq(Nat \ {0})
  BY <1>2, <1>6, AppendProperties
<1>9. u \in Rest /\ u.bytes = t.bytes - d /\ u.width = t.width - w /\ u.got = Append(t.got, w)
  BY <1>1, <1>2, <1>6, <1>7, <1>8 DEF Rest
<1>10. t.width - u.width = w
  BY <1>2, <1>6, <1>9
<1>11. ASSUME t.bytes = d PROVE u.width <= 0
  <2>1. x = t.width
    BY <1>2, <1>3, <1>4, <1>11, RoundWhole
  <2> QED
    BY <1>2, <1>6, <1>9, <2>1
<1> QED
  BY <1>1, <1>6, <1>9, <1>10, <1>11

\* The widths are those by which the rest of the strip, e, shrinks; it is used up.
UsesUp(ws, n, w) ==
  \E e \in [0 .. n -> Int] :
    /\ e[0] = w /\ (n > 0 => e[n] <= 0)
    /\ \A i \in 1 .. n : ws[i] = e[i - 1] - e[i]

LEMMA SharesAre ==
  ASSUME NEW z \in Seq(Region), NEW n \in Nat, n = Len(z), NEW w \in Nat \ {0}
  PROVE  /\ RegionWidths(z, w) \in Seq(Nat \ {0}) /\ Len(RegionWidths(z, w)) = n
         /\ UsesUp(RegionWidths(z, w), n, w)
<1>0. DOMAIN z = 1 .. n /\ \A i \in 1 .. n : z[i] \in Region /\ DisplayedSize(z[i]) \in Nat \ {0}
  BY LenProperties, ElementOfSeq, DisplayedSizes
<1>1. PICK m : IsPassing(Measuring(z), 0, n, m) /\ m[n] = Bytes(z)
  BY <1>0, BytesPass
<1>2. m[0] = 0 /\ \A i \in 1 .. n : m[i] = m[i - 1] + DisplayedSize(z[i])
  BY <1>1 DEF IsPassing, FoldStep, LayoutStep, Measuring
<1>3. \A i \in 0 .. n : m[i] \in Nat
  <2>1. PICK Good : Good = {i \in 0 .. n : m[i] \in Nat}
    OBVIOUS
  <2>2. 0 \in Good
    BY <1>2, <2>1
  <2>3. ASSUME NEW i \in 1 .. n, i - 1 \in Good PROVE i \in Good
    BY <1>0, <1>2, <2>1, <2>3
  <2> QED
    BY <2>1, <2>2, <2>3, PassingInduction
<1>4. PICK t : t = [bytes |-> m[n], width |-> w, got |-> <<>>]
  OBVIOUS
<1>5. PICK g : IsPassing(Sharing(z), t, n, g) /\ g[n] = Shared(z, t)
  BY <1>0, WidthsPass
<1>6. g[0] = t /\ \A i \in 1 .. n : g[i] = ShareOut(g[i - 1], z[i])
  BY <1>5 DEF IsPassing, FoldStep, LayoutStep, Sharing
<1>7. RegionWidths(z, w) = g[n].got
  <2>1. RegionWidths(z, w) = Shared(z, t).got
    BY <1>1, <1>4 DEF RegionWidths, Shared, Bytes, ShareOut
  <2> QED
    BY <1>5, <2>1
<1>8. \A i \in 0 .. n : m[i] <= m[n]
  <2>1. PICK Good : Good = {i \in 0 .. n : m[n - i] <= m[n]}
    OBVIOUS
  <2>2. 0 \in Good
    BY <1>3, <2>1
  <2>3. ASSUME NEW i \in 1 .. n, i - 1 \in Good PROVE i \in Good
    <3>1. PICK k \in 1 .. n : k = n - (i - 1) /\ k - 1 = n - i
      OBVIOUS
    <3>2. m[k] = m[k - 1] + DisplayedSize(z[k]) /\ m[k] <= m[n] /\ k \in 0 .. n /\ k - 1 \in 0 .. n
      BY <1>2, <2>1, <2>3, <3>1
    <3>3. m[k - 1] <= m[n]
      BY <1>0, <1>3, <3>2
    <3> QED
      BY <2>1, <3>1, <3>3
  <2>4. \A i \in 0 .. n : i \in Good
    BY <2>2, <2>3, PassingInduction
  <2>5. ASSUME NEW i \in 0 .. n PROVE m[i] <= m[n]
    <3>1. n - i \in Good /\ n - (n - i) = i
      BY <2>4
    <3> QED
      BY <2>1, <3>1
  <2> QED
    BY <2>5
<1> DEFINE Right(i) == /\ g[i] \in Rest /\ g[i].bytes = m[n] - m[i] /\ Len(g[i].got) = i
                       /\ \A j \in 1 .. i : g[i].got[j] = g[j - 1].width - g[j].width
<1> HIDE DEF Right
<1>9. PICK Good : Good = {i \in 0 .. n : Right(i)}
  OBVIOUS
<1>10. 0 \in Good
  <2>1. <<>> \in Seq(Nat \ {0}) /\ Len(<<>>) = 0
    BY EmptySeq
  <2>2. m[n] \in Nat
    BY <1>3
  <2>3. g[0].bytes = m[n] - m[0]
    BY <1>2, <1>4, <1>6, <2>2
  <2>4. g[0] \in Rest /\ Len(g[0].got) = 0
    BY <1>4, <1>6, <2>1, <2>2 DEF Rest
  <2>5. Right(0)
    BY <2>3, <2>4 DEF Right
  <2> QED
    BY <1>9, <2>5
<1>11. ASSUME NEW i \in 1 .. n, i - 1 \in Good
       PROVE  i \in Good /\ (i = n => g[i].width <= 0)
  <2>1. PICK p \in Rest : p = g[i - 1]
    BY <1>9, <1>11 DEF Right
  <2>2. PICK u : u = g[i] /\ u = ShareOut(p, z[i])
    BY <1>6, <2>1
  <2>3. /\ p.bytes = m[n] - m[i - 1] /\ Len(p.got) = i - 1
        /\ \A j \in 1 .. i - 1 : p.got[j] = g[j - 1].width - g[j].width
    BY <1>9, <1>11, <2>1 DEF Right
  <2>4. PICK d \in Nat \ {0} : d = DisplayedSize(z[i]) /\ m[i] = m[i - 1] + d
    BY <1>0, <1>2
  <2>5. m[i] <= m[n] /\ m[i] \in Nat /\ m[i - 1] \in Nat /\ m[n] \in Nat
    <3>1. i \in 0 .. n /\ i - 1 \in 0 .. n
      OBVIOUS
    <3> QED
      BY <1>3, <1>8, <3>1
  <2>6. p.bytes > 0 /\ p.bytes - d = m[n] - m[i]
    BY <2>3, <2>4, <2>5
  <2>7. /\ u \in Rest /\ u.bytes = p.bytes - d
        /\ p.width - u.width \in Nat \ {0}
        /\ u.got = Append(p.got, p.width - u.width)
        /\ p.bytes = d => u.width <= 0
    BY <1>0, <2>2, <2>4, <2>6, OneShare
  <2>8. p.got \in Seq(Nat \ {0})
    BY DEF Rest
  <2>9. /\ Len(u.got) = i /\ u.got[i] = p.width - u.width
        /\ \A j \in 1 .. i - 1 : u.got[j] = p.got[j]
    BY <2>3, <2>7, <2>8, AppendProperties
  <2>10. ASSUME NEW j \in 1 .. i PROVE u.got[j] = g[j - 1].width - g[j].width
    <3>1. CASE j = i
      BY <2>1, <2>2, <2>9, <3>1
    <3>2. CASE j # i
      <4>1. j \in 1 .. i - 1
        BY <3>2
      <4> QED
        BY <2>3, <2>9, <4>1
    <3> QED
      BY <3>1, <3>2
  <2>11. Right(i)
    BY <2>2, <2>6, <2>7, <2>9, <2>10 DEF Right
  <2>12. i = n => p.bytes = d
    BY <2>3, <2>4, <2>5
  <2> QED
    BY <1>9, <2>2, <2>7, <2>11, <2>12
<1>12. \A i \in 0 .. n : i \in Good
  BY <1>10, <1>11, PassingInduction
<1>13. Right(n)
  BY <1>9, <1>12
<1>14. PICK e : e = [i \in 0 .. n |-> g[i].width]
  OBVIOUS
<1>15. \A i \in 0 .. n : g[i].width \in Int
  BY <1>9, <1>12 DEF Rest, Right
<1>16. e \in [0 .. n -> Int] /\ e[0] = w
  <2>1. g[0].width = w /\ 0 \in 0 .. n
    BY <1>4, <1>6
  <2>2. e[0] = w
    BY <1>14, <2>1
  <2> QED
    BY <1>14, <1>15, <2>2
<1>17. n > 0 => e[n] <= 0
  <2> SUFFICES ASSUME n > 0 PROVE e[n] <= 0
    OBVIOUS
  <2>1. n \in 1 .. n /\ n - 1 \in 0 .. n
    OBVIOUS
  <2>2. g[n].width <= 0
    BY <1>11, <1>12, <2>1
  <2> QED
    BY <1>14, <2>2
<1>18. ASSUME NEW i \in 1 .. n PROVE RegionWidths(z, w)[i] = e[i - 1] - e[i]
  <2>1. i - 1 \in 0 .. n /\ i \in 0 .. n
    OBVIOUS
  <2> QED
    BY <1>7, <1>13, <1>14, <2>1 DEF Right
<1>19. RegionWidths(z, w) \in Seq(Nat \ {0}) /\ Len(RegionWidths(z, w)) = n
  BY <1>7, <1>13 DEF Rest, Right
<1>20. UsesUp(RegionWidths(z, w), n, w)
  BY <1>16, <1>17, <1>18 DEF UsesUp
<1> QED
  BY <1>19, <1>20

\* The positions of the borders, at the ends of the widths before them.
Borders(ws, i, p) ==
  /\ p \in Seq(Nat) /\ Len(p) = i + 1 /\ p[1] = 0
  /\ \A j \in 1 .. i : p[j + 1] = p[j] + ws[j]

LEMMA PositionsAre ==
  ASSUME NEW ws \in Seq(Nat \ {0}), NEW n \in Nat, n = Len(ws)
  PROVE  /\ Positions(ws) \in Seq(Nat) /\ Len(Positions(ws)) = n + 1 /\ Positions(ws)[1] = 0
         /\ \A i \in 1 .. n : Positions(ws)[i + 1] = Positions(ws)[i] + ws[i]
<1>0. DOMAIN ws = 1 .. n /\ \A i \in 1 .. n : ws[i] \in Nat \ {0}
  BY LenProperties, ElementOfSeq
<1>1. PICK g : IsPassing(Placing(ws), <<0>>, n, g) /\ g[n] = Positions(ws)
  BY <1>0, PositionsPass
<1>2. g[0] = <<0>> /\ \A i \in 1 .. n : g[i] = Append(g[i - 1], Last(g[i - 1]) + ws[i])
  BY <1>1 DEF IsPassing, FoldStep, LayoutStep, Placing
<1>3. PICK Good : Good = {i \in 0 .. n : Borders(ws, i, g[i])}
  OBVIOUS
<1>4. 0 \in Good
  <2>1. <<0>> \in Seq(Nat) /\ Len(<<0>>) = 1 /\ <<0>>[1] = 0
    OBVIOUS
  <2>2. Borders(ws, 0, <<0>>)
    BY <2>1 DEF Borders
  <2>3. Borders(ws, 0, g[0])
    BY <1>2, <2>2
  <2>4. 0 \in 0 .. n
    OBVIOUS
  <2> QED
    BY <1>3, <2>3, <2>4
<1>5. ASSUME NEW i \in 1 .. n, i - 1 \in Good PROVE i \in Good
  <2>1. PICK p : p = g[i - 1] /\ Borders(ws, i - 1, p)
    BY <1>3, <1>5
  <2>2. PICK x \in Nat : x = p[i]
    BY <2>1, ElementOfSeq DEF Borders
  <2>3. Last(p) = x
    BY <2>1, <2>2 DEF Last, Borders
  <2>4. PICK y \in Nat : y = x + ws[i]
    BY <1>0
  <2>5. PICK u : u = g[i] /\ u = Append(p, y)
    BY <1>2, <2>1, <2>3, <2>4
  <2>6. /\ u \in Seq(Nat) /\ Len(u) = i + 1 /\ u[i + 1] = y
        /\ \A j \in 1 .. i : u[j] = p[j]
    BY <2>1, <2>5, AppendProperties DEF Borders
  <2>7. ASSUME NEW j \in 1 .. i PROVE u[j + 1] = u[j] + ws[j]
    <3>1. CASE j = i
      BY <2>2, <2>4, <2>6, <3>1
    <3>2. CASE j # i
      <4>1. j \in 1 .. i - 1 /\ j + 1 \in 1 .. i
        BY <3>2
      <4> QED
        BY <2>1, <2>6, <4>1 DEF Borders
    <3> QED
      BY <3>1, <3>2
  <2>8. u[1] = 0
    BY <2>1, <2>6 DEF Borders
  <2>9. Borders(ws, i, u)
    BY <2>6, <2>7, <2>8 DEF Borders
  <2>10. Borders(ws, i, g[i])
    BY <2>5, <2>9
  <2>11. i \in 0 .. n
    OBVIOUS
  <2> QED
    BY <1>3, <2>10, <2>11, Zenon
<1>6. n \in Good
  <2>1. \A i \in 0 .. n : i \in Good
    BY <1>4, <1>5, PassingInduction
  <2> QED
    BY <2>1
<1> QED
  BY <1>1, <1>3, <1>6 DEF Borders

\* A layout: the regions apart from each other by address, side by side on the strip
\* and over all of it.
GoodLayout(y) ==
  /\ y.regions \in Seq(Region) /\ Apart(y.regions) /\ y.width \in Nat \ {0}
  /\ y.widths \in Seq(Nat \ {0}) /\ Len(y.widths) = Len(y.regions)
  /\ y.at \in Seq(Nat) /\ Len(y.at) = Len(y.regions) + 1 /\ y.at[1] = 0
  /\ \A i \in DOMAIN y.regions : y.at[i + 1] = y.at[i] + y.widths[i]
  /\ y.regions # <<>> => y.at[Len(y.regions) + 1] >= y.width

LEMMA LaidOutIs ==
  ASSUME NEW c, c.regions \in Seq(Region), NEW w \in Nat \ {0}
  PROVE  GoodLayout(LaidOut(c, w))
<1>1. PICK z : z = ByAddr(AddedRegions(c.regions))
  OBVIOUS
<1>2. z \in Seq(Region) /\ Apart(z)
  <2>1. PICK S : S = AddedRegions(c.regions)
    OBVIOUS
  <2>2. IsFiniteSet(S) /\ S \subseteq Region /\ Disjoint(S)
    BY <2>1, RegionsTaken
  <2> QED
    BY <1>1, <2>1, <2>2, RegionsByAddr
<1>3. PICK n \in Nat : n = Len(z) /\ DOMAIN z = 1 .. n
  BY <1>2, LenProperties
<1>4. PICK ws : ws = RegionWidths(z, w)
  OBVIOUS
<1>5. ws \in Seq(Nat \ {0}) /\ Len(ws) = n
  BY <1>2, <1>3, <1>4, SharesAre
<1>6. PICK e \in [0 .. n -> Int] :
        /\ e[0] = w /\ (n > 0 => e[n] <= 0)
        /\ \A i \in 1 .. n : ws[i] = e[i - 1] - e[i]
  <2>1. UsesUp(ws, n, w)
    BY <1>2, <1>3, <1>4, SharesAre
  <2> QED
    BY <2>1 DEF UsesUp
<1>7. PICK at : at = Positions(ws)
  OBVIOUS
<1>8. /\ at \in Seq(Nat) /\ Len(at) = n + 1 /\ at[1] = 0
      /\ \A i \in 1 .. n : at[i + 1] = at[i] + ws[i]
  BY <1>5, <1>7, PositionsAre
<1>9. PICK Good : Good = {i \in 0 .. n : at[i + 1] = w - e[i]}
  OBVIOUS
<1>10. 0 \in Good
  BY <1>6, <1>8, <1>9
<1>11. ASSUME NEW i \in 1 .. n, i - 1 \in Good PROVE i \in Good
  <2>1. at[i] = w - e[i - 1] /\ at[i + 1] = at[i] + ws[i] /\ ws[i] = e[i - 1] - e[i]
    <3>1. at[(i - 1) + 1] = w - e[i - 1] /\ (i - 1) + 1 = i
      BY <1>9, <1>11
    <3> QED
      BY <1>6, <1>8, <3>1
  <2>2. e[i] \in Int /\ e[i - 1] \in Int
    BY <1>6
  <2> QED
    BY <1>9, <2>1, <2>2
<1>12. at[n + 1] = w - e[n] /\ e[n] \in Int
  <2>1. \A i \in 0 .. n : i \in Good
    BY <1>10, <1>11, PassingInduction
  <2> QED
    BY <1>6, <1>9, <2>1
<1>13. PICK y : y = LaidOut(c, w)
  OBVIOUS
<1>14. y = [made |-> c.made, regions |-> z, width |-> w, widths |-> ws, at |-> at]
  BY <1>1, <1>4, <1>7, <1>13 DEF LaidOut, Positions
<1>15. z # <<>> => at[n + 1] >= w
  <2>1. z # <<>> => n > 0
    BY <1>2, <1>3, EmptySeq
  <2> QED
    BY <1>6, <1>12, <2>1
<1>16. GoodLayout(y)
  BY <1>2, <1>3, <1>5, <1>8, <1>14, <1>15 DEF GoodLayout
<1> QED
  BY <1>13, <1>16

\* The regions of a layout, one by one.
LEMMA LayoutParts ==
  ASSUME NEW y, GoodLayout(y)
  PROVE  /\ Len(y.regions) \in Nat /\ DOMAIN y.regions = 1 .. Len(y.regions) /\ y.width \in Nat \ {0}
         /\ y.regions # <<>> => Len(y.regions) > 0
         /\ \A i \in 1 .. Len(y.regions) :
              /\ y.regions[i].addr \in Nat /\ y.regions[i].size \in Nat \ {0}
              /\ y.widths[i] \in Nat \ {0} /\ y.at[i] \in Nat /\ y.at[i + 1] \in Nat
              /\ y.at[i + 1] = y.at[i] + y.widths[i]
<1>1. /\ y.regions \in Seq(Region) /\ y.width \in Nat \ {0}
      /\ y.widths \in Seq(Nat \ {0}) /\ Len(y.widths) = Len(y.regions)
      /\ y.at \in Seq(Nat) /\ Len(y.at) = Len(y.regions) + 1
      /\ \A i \in DOMAIN y.regions : y.at[i + 1] = y.at[i] + y.widths[i]
  BY DEF GoodLayout
<1>2. PICK n \in Nat : n = Len(y.regions) /\ DOMAIN y.regions = 1 .. n
  BY <1>1, LenProperties
<1>3. ASSUME NEW i \in 1 .. n
      PROVE  /\ y.regions[i].addr \in Nat /\ y.regions[i].size \in Nat \ {0}
             /\ y.widths[i] \in Nat \ {0} /\ y.at[i] \in Nat /\ y.at[i + 1] \in Nat
  <2>1. y.regions[i] \in Region
    BY <1>1, <1>2, ElementOfSeq
  <2>2. y.widths[i] \in Nat \ {0}
    BY <1>1, <1>2, ElementOfSeq
  <2>3. i \in 1 .. Len(y.at) /\ i + 1 \in 1 .. Len(y.at)
    BY <1>1, <1>2
  <2>4. y.at[i] \in Nat /\ y.at[i + 1] \in Nat
    BY <1>1, <2>3, ElementOfSeq
  <2> QED
    BY <2>1, <2>2, <2>4 DEF Region
<1>4. y.regions # <<>> => n > 0
  BY <1>1, <1>2, EmptySeq
<1> QED
  BY <1>1, <1>2, <1>3, <1>4

\* Of the positions up to a bound, the last one.
LEMMA LastPosition ==
  ASSUME NEW n \in Nat, NEW S, S \subseteq 0 .. n, S # {}
  PROVE  Max(S) \in S /\ \A i \in S : i <= Max(S)
<1>1. PICK D : D = 0 .. n /\ D \subseteq Nat
  OBVIOUS
<1>2. IsFiniteSet(D)
  BY <1>1, FS_Interval
<1>3. S \subseteq Nat /\ IsFiniteSet(S)
  BY <1>1, <1>2, FS_Subset
<1> QED
  BY <1>3, GreatestIs

\* The region under a pixel.
LEMMA RegionUnder ==
  ASSUME NEW y, GoodLayout(y), y.regions # <<>>, NEW x \in Nat, NEW i, i = RegionAtPosition(y, x)
  PROVE  /\ i \in 1 .. Len(y.regions) /\ y.at[i] <= x
         /\ x < y.width => x < y.at[i + 1]
<1>1. PICK n \in Nat : n = Len(y.regions) /\ DOMAIN y.regions = 1 .. n /\ n > 0
  BY LayoutParts
<1>2. \A k \in 1 .. n : y.at[k] \in Nat /\ y.at[k + 1] \in Nat
  BY <1>1, LayoutParts
<1>3. y.at[1] = 0 /\ y.at[n + 1] >= y.width /\ y.width \in Nat
  BY <1>1 DEF GoodLayout
<1>4. PICK S : S = {0} \cup {k \in 1 .. n : y.at[k] <= x}
  OBVIOUS
<1>5. S \subseteq 0 .. n /\ 1 \in S
  BY <1>1, <1>3, <1>4
<1>6. i = Max(S)
  BY <1>1, <1>4 DEF RegionAtPosition
<1>7. i \in S /\ \A k \in S : k <= i
  BY <1>5, <1>6, LastPosition
<1>8. i \in 1 .. n /\ y.at[i] <= x
  BY <1>4, <1>5, <1>7
<1>9. ASSUME x < y.width PROVE x < y.at[i + 1]
  <2>1. CASE i = n
    BY <1>2, <1>3, <1>8, <1>9, <2>1
  <2>2. CASE i # n
    <3>1. i + 1 \in 1 .. n /\ i + 1 \notin S
      BY <1>5, <1>7, <1>8, <2>2
    <3> QED
      BY <1>2, <1>4, <3>1
  <2> QED
    BY <2>1, <2>2
<1> QED
  BY <1>1, <1>8, <1>9

\* A position is taken to a byte at or behind the beginning of the region under it.
LEMMA OffsetsAre ==
  ASSUME NEW d \in Nat, NEW w \in Nat \ {0}, NEW s \in Nat, NEW b \in OffsetsAt(d, w, s)
  PROVE  \/ b = (d * s) \div w
         \/ b \in Nat /\ b + 1 = (d * s) \div w /\ (d * s) % w = 0
<1>1. PICK p \in Nat : p = d * s
  OBVIOUS
<1>2. PICK n : n = p \div w
  OBVIOUS
<1>3. n \in Nat
  BY <1>1, <1>2, Quotient
<1>4. b = n \/ (n > 0 /\ p % w = 0 /\ b = n - 1)
  BY <1>1, <1>2 DEF OffsetsAt
<1> QED
  BY <1>1, <1>2, <1>3, <1>4

LEMMA ByteUnder ==
  ASSUME NEW y, GoodLayout(y), y.regions # <<>>, NEW x \in Nat, NEW a \in AddrsAtPosition(y, x)
  PROVE  a \in Nat
<1>1. PICK i \in 1 .. Len(y.regions) : i = RegionAtPosition(y, x) /\ y.at[i] <= x
  BY RegionUnder
<1>2. PICK s \in Nat : s = y.regions[i].size
  BY LayoutParts
<1>3. PICK w \in Nat \ {0} : w = y.widths[i]
  BY LayoutParts
<1>4. PICK d \in Nat : d = x - y.at[i]
  BY <1>1, LayoutParts
<1>5. (d * s) \div w \in Nat
  <2>1. PICK p \in Nat : p = d * s
    OBVIOUS
  <2> QED
    BY <2>1, Quotient
<1>6. y.regions[i].addr \in Nat
  BY LayoutParts
<1>7. PICK b \in OffsetsAt(d, w, s) : a = y.regions[i].addr + b
  BY <1>1, <1>2, <1>3, <1>4 DEF AddrsAtPosition
<1>8. b \in Nat
  <2>1. PICK v \in Nat : v = (d * s) \div w
    BY <1>5
  <2> QED
    BY <2>1, OffsetsAre
<1> QED
  BY <1>6, <1>7, <1>8

\* The levels of detail there are to choose from.
LEMMA LevelIs ==
  ASSUME NEW y, NEW i
  PROVE  Level(y, i) \in DOMAIN BinWidths
<1>1. PICK L \in Nat \ {0} : L = Len(BinWidths) /\ DOMAIN BinWidths = 1 .. L
  BY WidthsAre
<1>2. PICK fits : fits = {k \in DOMAIN BinWidths : (y.regions[i].size \div y.widths[i]) * 3 >= BinWidths[k]}
  OBVIOUS
<1>3. Level(y, i) = IF fits = {} THEN Len(BinWidths) ELSE Min(fits)
  BY <1>2 DEF Level
<1>4. fits # {} => Min(fits) \in fits
  <2>1. fits \subseteq Nat
    BY <1>1, <1>2
  <2> QED
    BY <2>1, LeastIs
<1> QED
  BY <1>1, <1>2, <1>3, <1>4

LEMMA PaintsContent ==
  ASSUME MapsRight, GoodLayout(layout)
  PROVE  PaintIsContent
<1> SUFFICES ASSUME NEW i \in DOMAIN layout.regions, NEW l \in 0 .. layout.width,
                    NEW r \in 0 .. layout.width,
                    NEW low \in AddrsAtPosition(layout, l), NEW high \in AddrsAtPosition(layout, r)
             PROVE  Painted(maps, layout, i, low, high) =
                      {e \in {<<a, Binned(Level(layout, i), a)>> : a \in Visible(layout, i, low, high)} :
                         e[2] # {}}
  BY DEF PaintIsContent
<1>1. layout.regions # <<>> /\ l \in Nat /\ r \in Nat
  BY LayoutParts
<1>2. /\ low \in Nat /\ high \in Nat
      /\ layout.regions[i].addr \in Nat /\ layout.regions[i].size \in Nat \ {0}
  BY <1>1, ByteUnder, LayoutParts
<1>3. PICK lo : lo = Max({low, layout.regions[i].addr})
  OBVIOUS
<1>4. PICK hi : hi = Min({high, layout.regions[i].addr + layout.regions[i].size - 1})
  OBVIOUS
<1>5. lo \in Nat /\ hi \in Nat
  <2>1. PICK S : S = {low, layout.regions[i].addr}
    OBVIOUS
  <2>2. PICK T : T = {high, layout.regions[i].addr + layout.regions[i].size - 1}
    OBVIOUS
  <2>3. S \subseteq Nat /\ S # {} /\ T \subseteq Nat /\ T # {}
    BY <1>2, <2>1, <2>2
  <2>4. IsFiniteSet(S)
    <3>1. PICK a : a = low
      OBVIOUS
    <3>2. PICK b : b = layout.regions[i].addr
      OBVIOUS
    <3>3. IsFiniteSet({a})
      BY FS_Singleton
    <3>4. IsFiniteSet({a} \cup {b})
      BY <3>3, FS_AddElement
    <3>5. S = {a} \cup {b}
      BY <2>1, <3>1, <3>2
    <3> QED
      BY <3>4, <3>5
  <2>5. Max(S) \in S /\ Min(T) \in T
    BY <2>3, <2>4, GreatestIs, LeastIs
  <2> QED
    BY <1>3, <1>4, <2>1, <2>2, <2>3, <2>5
<1>6. PICK k \in DOMAIN BinWidths : k = Level(layout, i)
  BY LevelIs
<1>7. IntervalMap(maps[k]) /\ \A a \in Nat : TagsAt(maps[k], a) = Binned(k, a)
  BY DEF MapsRight
<1>8. Visible(layout, i, low, high) = lo .. hi
  BY <1>3, <1>4 DEF Visible
<1>9. CASE lo > hi
  <2>1. lo .. hi = {}
    BY <1>5, <1>9
  <2>2. Painted(maps, layout, i, low, high) = {}
    BY <1>8, <2>1 DEF Painted
  <2> QED
    BY <1>8, <2>1, <2>2
<1>10. CASE lo <= hi
  <2>1. lo .. hi # {} /\ lo .. hi \subseteq Nat
    BY <1>5, <1>10
  <2>2. Min(lo .. hi) = lo /\ Max(lo .. hi) = hi
    <3>1. PICK S : S = lo .. hi
      OBVIOUS
    <3>2. S \subseteq Nat /\ S # {} /\ S \subseteq 0 .. hi /\ lo \in S /\ hi \in S
      <4>1. lo \in S /\ hi \in S
        BY <1>5, <1>10, <3>1
      <4>2. \A x \in S : x \in Nat /\ x <= hi
        BY <1>5, <3>1
      <4> QED
        BY <1>5, <4>1, <4>2
    <3>3. /\ Min(S) \in S /\ \A x \in S : Min(S) <= x
          /\ Max(S) \in S /\ \A x \in S : x <= Max(S)
      BY <1>5, <3>2, LeastIs, LastPosition
    <3>4. \A x \in S : x >= lo /\ x <= hi /\ x \in Nat
      BY <1>5, <3>1
    <3> QED
      BY <1>5, <3>1, <3>2, <3>3, <3>4
  <2>3. Painted(maps, layout, i, low, high) = Spans(Irange(maps[k], lo, hi), lo, hi)
    BY <1>6, <1>8, <2>1, <2>2 DEF Painted, Spans
  <2>4. Spans(Irange(maps[k], lo, hi), lo, hi) =
          {e \in {<<a, TagsAt(maps[k], a)>> : a \in lo .. hi} : e[2] # {}}
    BY <1>5, <1>7, IrangeIsRight
  <2>5. {<<a, TagsAt(maps[k], a)>> : a \in lo .. hi} = {<<a, Binned(k, a)>> : a \in lo .. hi}
    BY <1>7, <2>1
  <2> QED
    BY <1>6, <1>8, <2>3, <2>4, <2>5
<1> QED
  BY <1>5, <1>9, <1>10

\* The region a byte is in is the first that does not end before it: of the first byte
\* of a region that touches the one before it, that one.
LEMMA RegionOfByte ==
  ASSUME NEW y, GoodLayout(y), NEW i \in 1 .. Len(y.regions), NEW a \in Nat,
         y.regions[i].addr <= a, a <= y.regions[i].addr + y.regions[i].size,
         NEW k, k = RegionAtAddr(y, a)
  PROVE  \/ k = i
         \/ /\ k \in 1 .. Len(y.regions) /\ k + 1 = i
            /\ a = y.regions[i].addr /\ a = y.regions[k].addr + y.regions[k].size
<1>1. PICK n \in Nat : n = Len(y.regions) /\ DOMAIN y.regions = 1 .. n
  BY LayoutParts
<1>2. \A j \in 1 .. n : y.regions[j].addr \in Nat /\ y.regions[j].size \in Nat /\ y.regions[j].size > 0
  BY <1>1, LayoutParts
<1>3. \A j, m \in 1 .. n : j < m => y.regions[j].addr + y.regions[j].size <= y.regions[m].addr
  BY <1>1 DEF GoodLayout, Apart
<1>4. PICK S : S = {1} \cup {j \in 1 .. n : y.regions[j].addr < a}
  OBVIOUS
<1>5. S \subseteq 0 .. n /\ S # {}
  BY <1>1, <1>4
<1>6. PICK from : from = Max(S) /\ from \in S /\ \A j \in S : j <= from
  BY <1>5, LastPosition
<1>7. PICK T : T = {j \in from .. n : a <= y.regions[j].addr + y.regions[j].size}
  OBVIOUS
<1>8. k = Min(T)
  BY <1>1, <1>4, <1>6, <1>7 DEF RegionAtAddr
<1>9. from \in 1 .. n
  BY <1>1, <1>4, <1>6
<1>10. ASSUME NEW j \in 1 .. n, i < j PROVE j \notin S
  <2>1. y.regions[i].addr + y.regions[i].size <= y.regions[j].addr
    BY <1>1, <1>3, <1>10
  <2>2. ~(y.regions[j].addr < a)
    BY <1>1, <1>2, <2>1
  <2> QED
    BY <1>1, <1>4, <1>10, <2>2
<1>11. from <= i
  BY <1>1, <1>6, <1>9, <1>10
<1>12. i \in T /\ T \subseteq Nat
  BY <1>1, <1>7, <1>9, <1>11
<1>13. k \in T /\ k <= i
  BY <1>8, <1>12, LeastIs
<1>14. k \in 1 .. n /\ from <= k /\ a <= y.regions[k].addr + y.regions[k].size
  BY <1>7, <1>9, <1>13
<1>15. CASE k < i
  <2>1. y.regions[k].addr + y.regions[k].size <= y.regions[i].addr
    BY <1>1, <1>3, <1>14, <1>15
  <2>2. a = y.regions[i].addr /\ a = y.regions[k].addr + y.regions[k].size
    <3>1. PICK p \in Nat : p = y.regions[i].addr
      BY <1>1, <1>2
    <3>2. PICK q \in Nat : q = y.regions[k].addr + y.regions[k].size
      BY <1>2, <1>14
    <3> QED
      BY <1>14, <2>1, <3>1, <3>2
  <2>3. ASSUME NEW j \in 1 .. n, k < j, j < i PROVE FALSE
    <3>1. /\ y.regions[k].addr + y.regions[k].size <= y.regions[j].addr
          /\ y.regions[j].addr + y.regions[j].size <= y.regions[i].addr
      BY <1>1, <1>3, <1>14, <2>3
    <3> QED
      BY <1>1, <1>2, <1>14, <2>2, <2>3, <3>1
  <2>4. k + 1 = i
    <3>1. CASE k + 1 < i
      <4>1. k + 1 \in 1 .. n
        BY <1>1, <1>14, <3>1
      <4> QED
        BY <1>14, <2>3, <3>1, <4>1
    <3> QED
      BY <1>1, <1>14, <1>15, <3>1
  <2> QED
    BY <1>1, <1>14, <2>2, <2>4
<1> QED
  BY <1>1, <1>13, <1>14, <1>15

\* Up to the mouse and from it on, in the units of a region's bytes.
NotPast(y, a, x) == LET p == PositionAtAddr(y, a) IN p.x * p.d + p.n <= x * p.d
NotBefore(y, a, x) == LET p == PositionAtAddr(y, a) IN p.x * p.d + p.n >= x * p.d

LEMMA NotPastIs ==
  ASSUME NEW at \in Nat, NEW x \in Nat, NEW d \in Int, d = x - at, NEW s \in Nat, NEW n \in Int
  PROVE  /\ at * s + n <= x * s <=> n <= d * s
         /\ at * s + n >= x * s <=> n >= d * s
<1>1. x = at + d
  OBVIOUS
<1>2. x * s = at * s + d * s
  BY <1>1
<1>3. x * s \in Int /\ at * s \in Int /\ d * s \in Int
  OBVIOUS
<1> QED
  BY <1>2, <1>3

LEMMA ByteScale ==
  ASSUME NEW d \in Nat, NEW s \in Nat \ {0}, NEW w \in Nat \ {0}, d < w,
         NEW b \in OffsetsAt(d, w, s)
  PROVE  b \in Nat /\ b < s /\ w * b <= d * s /\ w * (b + 1) >= d * s
<1>1. PICK p \in Nat : p = d * s
  OBVIOUS
<1>2. b \in Nat /\ b * w <= p /\ p <= b * w + w
  <2>1. PICK n : n = p \div w
    OBVIOUS
  <2>2. n \in Nat /\ n * w <= p /\ p < n * w + w
    BY <1>1, <2>1, Quotient
  <2>3. CASE b = n
    BY <2>2, <2>3
  <2>4. CASE b \in Nat /\ b + 1 = n /\ p % w = 0
    <3>1. p = n * w
      BY <1>1, <2>1, <2>4, WholeQuotient
    <3>2. n * w = b * w + w /\ b * w \in Int
      BY <2>4
    <3> QED
      BY <2>4, <3>1, <3>2
  <2> QED
    BY <1>1, <2>1, <2>3, <2>4, OffsetsAre
<1>3. w * b = b * w /\ w * (b + 1) = b * w + w /\ b * w \in Int
  BY <1>2
<1>4. p < w * s
  <2>1. (d + 1) * s <= w * s /\ (d + 1) * s = d * s + s
    BY Multiples
  <2>2. w * s \in Int
    OBVIOUS
  <2> QED
    BY <1>1, <2>1, <2>2
<1>5. b < s
  <2>1. CASE s <= b
    <3>1. s * w <= b * w /\ s * w \in Int
      BY <1>2, <2>1, Multiples
    <3>2. s * w = w * s
      OBVIOUS
    <3> QED
      BY <1>2, <1>3, <1>4, <3>1, <3>2
  <2> QED
    BY <1>2, <2>1
<1> QED
  BY <1>1, <1>2, <1>3, <1>5

LEMMA ClicksComeBack ==
  ASSUME GoodLayout(layout)
  PROVE  ClickComesBack
<1> SUFFICES ASSUME layout.regions # <<>>, NEW x \in 0 .. layout.width - 1,
                    NEW a \in AddrsAtPosition(layout, x)
             PROVE  NotPast(layout, a, x) /\ NotBefore(layout, a + 1, x)
  BY DEF ClickComesBack, NotPast, NotBefore
<1>1. x \in Nat /\ x < layout.width
  BY LayoutParts
<1>2. PICK i \in 1 .. Len(layout.regions) :
        i = RegionAtPosition(layout, x) /\ layout.at[i] <= x /\ x < layout.at[i + 1]
  BY <1>1, RegionUnder
<1>3. PICK s \in Nat \ {0} : s = layout.regions[i].size
  BY LayoutParts
<1>4. PICK r \in Nat : r = layout.regions[i].addr
  BY LayoutParts
<1>5. PICK w \in Nat \ {0}, at \in Nat : w = layout.widths[i] /\ at = layout.at[i] /\ layout.at[i + 1] = at + w
  BY LayoutParts
<1>6. PICK d \in Nat : d = x - at /\ d < w
  BY <1>1, <1>2, <1>5
<1>7. PICK b \in OffsetsAt(d, w, s) : a = r + b
  BY <1>2, <1>3, <1>4, <1>5, <1>6 DEF AddrsAtPosition
<1>8. b \in Nat /\ b < s /\ w * b <= d * s /\ w * (b + 1) >= d * s
  BY <1>6, ByteScale
<1>9. a = r + b /\ a \in Nat /\ r <= a /\ a < r + s
  BY <1>7, <1>8
<1>10. ASSUME NEW c \in Nat, RegionAtAddr(layout, c) = i, NEW m \in Int, m = c - r
       PROVE  /\ NotPast(layout, c, x) <=> w * m <= d * s
              /\ NotBefore(layout, c, x) <=> w * m >= d * s
  <2>1. PICK p : p = PositionAtAddr(layout, c)
    OBVIOUS
  <2>2. p.x = at /\ p.n = w * m /\ p.d = s
    BY <1>3, <1>4, <1>5, <1>10, <2>1 DEF PositionAtAddr
  <2>3. /\ NotPast(layout, c, x) <=> at * s + w * m <= x * s
        /\ NotBefore(layout, c, x) <=> at * s + w * m >= x * s
    BY <2>1, <2>2 DEF NotPast, NotBefore
  <2>4. PICK n \in Int : n = w * m
    OBVIOUS
  <2> QED
    BY <1>1, <1>6, <2>3, <2>4, NotPastIs
<1>11. NotBefore(layout, a + 1, x)
  <2>1. PICK k : k = RegionAtAddr(layout, a + 1)
    OBVIOUS
  <2>2. k = i
    <3>1. a + 1 \in Nat /\ r <= a + 1 /\ a + 1 <= r + s /\ a + 1 # r
      BY <1>9
    <3> QED
      BY <1>3, <1>4, <2>1, <3>1, RegionOfByte
  <2>3. a + 1 \in Nat /\ b + 1 \in Int /\ b + 1 = (a + 1) - r
    BY <1>8, <1>9
  <2> QED
    BY <1>8, <1>10, <2>1, <2>2, <2>3
<1>12. NotPast(layout, a, x)
  <2>1. PICK k : k = RegionAtAddr(layout, a)
    OBVIOUS
  <2>2. \/ k = i
        \/ /\ k \in 1 .. Len(layout.regions) /\ k + 1 = i
           /\ a = r /\ a = layout.regions[k].addr + layout.regions[k].size
    <3>1. r <= a /\ a <= r + s
      BY <1>9
    <3> QED
      BY <1>3, <1>4, <1>9, <2>1, <3>1, RegionOfByte
  <2>3. CASE k = i
    <3>1. b \in Int /\ b = a - r
      BY <1>8, <1>9
    <3> QED
      BY <1>8, <1>9, <1>10, <2>1, <2>3, <3>1
  <2>4. CASE k # i
    <3>1. /\ k \in 1 .. Len(layout.regions) /\ k + 1 = i
          /\ a = layout.regions[k].addr + layout.regions[k].size
      BY <2>2, <2>4
    <3>2. PICK q \in Nat, t \in Nat \ {0} : q = layout.regions[k].addr /\ t = layout.regions[k].size
      BY <3>1, LayoutParts
    <3>3. PICK v \in Nat \ {0}, u \in Nat :
            v = layout.widths[k] /\ u = layout.at[k] /\ layout.at[k + 1] = u + v
      BY <3>1, LayoutParts
    <3>4. PICK p : p = PositionAtAddr(layout, a)
      OBVIOUS
    <3>5. p.x = u /\ p.n = v * t /\ p.d = t
      <4>1. p.x = u /\ p.n = v * (a - q) /\ p.d = t
        BY <2>1, <3>2, <3>3, <3>4 DEF PositionAtAddr
      <4>2. a - q = t
        BY <3>1, <3>2
      <4> QED
        BY <4>1, <4>2
    <3>6. u * t + v * t <= x * t
      <4>1. u + v <= x
        BY <1>2, <1>5, <3>1, <3>3
      <4>2. (u + v) * t <= x * t
        BY <1>1, <4>1, Multiples
      <4>3. (u + v) * t = u * t + v * t
        OBVIOUS
      <4> QED
        BY <4>2, <4>3
    <3> QED
      BY <3>4, <3>5, <3>6 DEF NotPast
  <2> QED
    BY <2>3, <2>4
<1> QED
  BY <1>11, <1>12

\* What is laid out: the regions of a CFB, which are those of a binary.
StripInv == CanonInv /\ cfb.regions \in Seq(Region) /\ GoodLayout(layout)

LEMMA RegionsOfBinary ==
  ASSUME NEW b \in DOMAIN Binaries
  PROVE  Binaries[b].regions \in Seq(Region)
  BY FeatureMapAssumption DEF Region

LEMMA NoRegions == NoCfb.regions \in Seq(Region)
<1>1. NoCfb.regions = <<>>
  BY DEF NoCfb
<1> QED
  BY <1>1, EmptySeq

LEMMA StripInit == Init => StripInv
<1> SUFFICES ASSUME Init PROVE StripInv
  OBVIOUS
<1>1. cfb = NoCfb /\ layout = LaidOut(NoCfb, Min(Widths))
  BY DEF Init
<1>2. Min(Widths) \in Nat \ {0}
  <2>1. Widths \subseteq Nat \ {0} /\ Widths # {}
    BY FeatureMapAssumption
  <2>2. Widths \subseteq Nat
    BY <2>1
  <2> QED
    BY <2>1, <2>2, LeastIs
<1>3. GoodLayout(layout)
  BY <1>1, <1>2, NoRegions, LaidOutIs
<1> QED
  BY <1>1, <1>3, NoRegions, CanonInit DEF StripInv

LEMMA StripStep == StripInv /\ [Next]_mapVars => StripInv'
<1> SUFFICES ASSUME StripInv, [Next]_mapVars PROVE StripInv'
  OBVIOUS
<1>1. CanonInv /\ cfb.regions \in Seq(Region) /\ GoodLayout(layout)
  BY DEF StripInv
<1>2. CanonInv'
  BY <1>1, CanonStep
<1>3. layout.width \in Nat \ {0}
  BY <1>1 DEF GoodLayout
<1>4. ASSUME UNCHANGED <<cfb, layout>> PROVE StripInv'
  BY <1>1, <1>2, <1>4 DEF StripInv, GoodLayout
<1>5. ASSUME NEW c, NEW w \in Nat \ {0}, NEW h, RefreshWith(c, w, h), c.regions \in Seq(Region)
      PROVE  GoodLayout(layout)'
  <2>1. PICK y : y = LaidOut(c, w)
    OBVIOUS
  <2>2. GoodLayout(y)
    BY <1>5, <2>1, LaidOutIs
  <2>3. layout' = y
    BY <1>5, <2>1 DEF RefreshWith
  <2> QED
    BY <2>2, <2>3 DEF GoodLayout
<1>6. ASSUME NEW b \in DOMAIN Binaries, LoadProject(b) PROVE StripInv'
  <2>1. cfb' = NoCfb /\ RefreshWith(NoCfb, layout.width, NoHover)
    BY <1>6 DEF LoadProject, ReloadWith
  <2> QED
    BY <1>2, <1>3, <1>5, <2>1, NoRegions DEF StripInv
<1>7. ASSUME NEW b \in DOMAIN Binaries, NEW o \in Binaries[b].tried, ObjectAdded(o) PROVE StripInv'
  BY <1>4, <1>7 DEF ObjectAdded
<1>8. CASE StartCfg \/ Peek \/ EndCfg(<<>>) \/ EndCfg(<<"generated">>) \/ TimePasses \/ HoverLeave
  BY <1>4, <1>8 DEF StartCfg, Peek, EndCfg, TimePasses, HoverLeave
<1>9. CASE GuiRefresh
  <2>1. RefreshWith(cfb, layout.width, hover) /\ cfb' = cfb
    BY <1>9 DEF GuiRefresh
  <2> QED
    BY <1>1, <1>2, <1>3, <1>5, <2>1 DEF StripInv
<1>10. ASSUME posted # <<>> PROVE \A kind, items : Cfb(kind, items).regions \in Seq(Region)
  <2>1. binary \in DOMAIN Binaries
    BY <1>1, <1>10 DEF CanonInv, BinaryIsThere
  <2> QED
    BY <2>1, RegionsOfBinary DEF Cfb
<1>11. CASE GuiPeek
  <2>1. posted # <<>> /\ cfb' = Cfb("temporary", {}) /\ layout' = layout
    BY <1>11 DEF GuiPeek, TakePosted
  <2>2. cfb'.regions \in Seq(Region)
    BY <1>10, <2>1
  <2> QED
    BY <1>1, <1>2, <2>1, <2>2 DEF StripInv, GoodLayout
<1>12. CASE GuiCfgGenerated
  <2>1. /\ posted # <<>> /\ cfb' = Cfb("final", Binaries[binary].items)
        /\ RefreshWith(cfb', layout.width, NoHover)
    BY <1>12 DEF GuiCfgGenerated, TakePosted, ReloadWith
  <2>2. cfb'.regions \in Seq(Region)
    BY <1>10, <2>1
  <2> QED
    BY <1>2, <1>3, <1>5, <2>1, <2>2 DEF StripInv
<1>13. ASSUME NEW x, HoverAt(x) PROVE StripInv'
  BY <1>4, <1>13 DEF HoverAt
<1>14. ASSUME NEW w \in Widths, Resize(w) PROVE StripInv'
  <2>1. RefreshWith(cfb, w, hover) /\ cfb' = cfb
    BY <1>14 DEF Resize
  <2>2. w \in Nat \ {0}
    BY FeatureMapAssumption
  <2> QED
    BY <1>1, <1>2, <1>5, <2>1, <2>2 DEF StripInv
<1>15. CASE UNCHANGED mapVars
  BY <1>4, <1>15 DEF mapVars
<1> QED
  BY <1>6, <1>7, <1>8, <1>9, <1>11, <1>12, <1>13, <1>14, <1>15 DEF Next

THEOREM StripAlwaysInv == Spec => []StripInv
  BY StripInit, StripStep, PTL DEF Spec

(* What is painted of a region, whatever part of the strip is exposed, however its ends are
   rounded to bytes and at whatever level of detail, is every byte between these that was
   announced, with the tags of its bin, and no other: for all binaries, regions, widths and
   levels. *)
THEOREM PaintsContentAlways == Spec => []PaintIsContent
<1>1. StripInv => PaintIsContent
  BY PaintsContent DEF StripInv, CanonInv
<1> QED
  BY <1>1, StripAlwaysInv, PTL

(* From a pixel to a byte and back the mouse stays on the byte or on its right edge: for all
   regions, touching or apart, shown to scale or not, and all widths of the strip. *)
THEOREM ClicksAlwaysComeBack == Spec => []ClickComesBack
<1>1. StripInv => ClickComesBack
  BY ClicksComeBack DEF StripInv
<1> QED
  BY <1>1, StripAlwaysInv, PTL
=============================================================================
