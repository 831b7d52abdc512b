-------------------------- MODULE JobManagerProofs --------------------------
(***************************************************************************)
(* Theorems about JobManager for any set of jobs: what it keeps by itself, *)
(* that it implements JobQueue, and that the widgets of JobsView follow it. *)
(***************************************************************************)
EXTENDS JobsView, SequenceTheorems, TLAPS

-----------------------------------------------------------------------------
(***************************************************************************)
(* Lemmas about queues: what appending to one and taking its head does.    *)
(***************************************************************************)
\* Appending adds one element at the end and keeps the others in place.
LEMMA AppendToQueue ==
    ASSUME NEW S, NEW q \in Seq(S), NEW e \in S
    PROVE  /\ Append(q, e) \in Seq(S)
           /\ Len(Append(q, e)) = Len(q) + 1
           /\ \A i \in 1..Len(q) : Append(q, e)[i] = q[i]
           /\ Append(q, e)[Len(q) + 1] = e
    BY AppendProperties

\* Taking the head moves every other element one place forward.
LEMMA TakeFromQueue ==
    ASSUME NEW S, NEW q \in Seq(S), q # <<>>
    PROVE  /\ Head(q) = q[1] /\ Head(q) \in S
           /\ Tail(q) \in Seq(S)
           /\ Len(q) \in Nat /\ Len(q) >= 1
           /\ Len(Tail(q)) = Len(q) - 1
           /\ \A i \in 1..Len(Tail(q)) : Tail(q)[i] = q[i + 1]
    BY HeadTailProperties, EmptySeq, LenProperties

\* Every signal the worker posts about a job is a well-formed event.
LEMMA EvIsEvent ==
    ASSUME NEW j \in Jobs,
           NEW kind \in {"starting", "progressed", "call"} \cup Verdicts
    PROVE  Ev(kind, j) \in Event
    BY DEF Ev, Event

-----------------------------------------------------------------------------
(***************************************************************************)
(* Type correctness.  It needs to know that the worker has a job exactly   *)
(* while it is inside execute_job, and that a posted call finds the worker *)
(* waiting for it.                                                         *)
(***************************************************************************)
\* The worker has a job exactly while execute_job runs.
WorkerHasJob == pc \in InJob <=> active # NoJob

\* A call in the GUI queue is the one the worker is blocked on.
CallIsAwaited ==
    /\ \A i \in 1..Len(guiQueue) : guiQueue[i].kind = "call" =>
           pc = "blocked" /\ guiQueue[i].job = active
    /\ \A i, k \in 1..Len(guiQueue) :
           guiQueue[i].kind = "call" /\ guiQueue[k].kind = "call" => i = k

TypeInv == TypeOK /\ WorkerHasJob /\ CallIsAwaited

LEMMA InitTypeInv == Init => TypeInv
  BY JobsAssumption DEF Init, TypeInv, TypeOK, WorkerHasJob, CallIsAwaited,
     JobStates, WorkerPcs, InJob, GuiStates

LEMMA WorkerTypeInv == TypeInv /\ WorkerStep => TypeInv'
  <1> SUFFICES ASSUME TypeInv, WorkerStep PROVE TypeInv'
    OBVIOUS
  <1> USE JobsAssumption DEF TypeInv, TypeOK, WorkerHasJob, CallIsAwaited, JobStates,
          WorkerPcs, InJob, GuiStates, guiVars, Goto, EndExecute, Verdicts
  <1> DEFINE Posted(kind, j) ==
          /\ guiQueue' \in Seq(Event) /\ Len(guiQueue') = Len(guiQueue) + 1
          /\ \A i \in 1..Len(guiQueue) : guiQueue'[i] = guiQueue[i]
          /\ guiQueue'[Len(guiQueue) + 1] = Ev(kind, j)
  <1>p. ASSUME NEW kind \in {"starting", "progressed", "call"} \cup Verdicts,
               NEW j \in Jobs, guiQueue' = Append(guiQueue, Ev(kind, j))
        PROVE  Posted(kind, j) /\ Ev(kind, j).kind = kind /\ Ev(kind, j).job = j
    <2>1. Ev(kind, j) \in Event
      BY EvIsEvent
    <2>2. Posted(kind, j)
      BY <1>p, <2>1, AppendToQueue
    <2>3. Ev(kind, j).kind = kind /\ Ev(kind, j).job = j
      BY DEF Ev
    <2> QED BY <2>2, <2>3
  <1>len. Len(guiQueue) \in Nat
    BY LenProperties
  <1>q. ASSUME NEW kind \in {"starting", "progressed"} \cup Verdicts, NEW j \in Jobs,
               pc # "blocked", guiQueue' = Append(guiQueue, Ev(kind, j))
        PROVE  CallIsAwaited' /\ guiQueue' \in Seq(Event)
    <2>1. \A i \in 1..Len(guiQueue) : guiQueue[i].kind # "call"
      BY <1>q
    <2>2. Posted(kind, j) /\ Ev(kind, j).kind = kind
      BY <1>p, <1>q
    <2>3. Ev(kind, j).kind # "call"
      BY <2>2
    <2>4. \A i \in 1..Len(guiQueue') : guiQueue'[i].kind # "call"
      <3> TAKE i \in 1..Len(guiQueue')
      <3>1. i \in 1..Len(guiQueue) \/ i = Len(guiQueue) + 1
        BY <1>len, <2>2
      <3> QED BY <2>1, <2>2, <2>3, <3>1
    <2> QED BY <2>2, <2>4
  <1> HIDE DEF Posted
  <1>1. CASE StartJob
    <2>1. workQueue # <<>> /\ Head(workQueue) \in Jobs /\ Tail(workQueue) \in Seq(Jobs)
      BY <1>1, TakeFromQueue DEF StartJob
    <2>2. CallIsAwaited' /\ guiQueue' \in Seq(Event)
      BY <1>1, <1>q, <2>1 DEF StartJob
    <2> QED BY <1>1, <2>1, <2>2 DEF StartJob
  <1>2. CASE SkipJob
    BY <1>2, TakeFromQueue DEF SkipJob
  <1>3. CASE MarkRunning
    BY <1>3 DEF MarkRunning
  <1>4. ASSUME pc \in InJob \ {"blocked"}, Post("exception"), EndExecute,
               jobState' \in [Jobs -> JobStates], UNCHANGED <<result, guiVars>>
        PROVE  TypeInv'
    <2>1. CallIsAwaited' /\ guiQueue' \in Seq(Event)
      BY <1>4, <1>q DEF Post
    <2> QED BY <1>4, <2>1
  <1>5. CASE FirstProgress
    BY <1>4, <1>5 DEF FirstProgress, RaiseCancelled
  <1>6. CASE ReportProgress
    <2>1. CASE Cancelled
      BY <1>4, <1>6, <2>1 DEF ReportProgress, RaiseCancelled
    <2>2. CASE ~Cancelled
      <3>1. CallIsAwaited' /\ guiQueue' \in Seq(Event)
        BY <1>6, <1>q, <2>2 DEF ReportProgress, Post
      <3> QED BY <1>6, <2>2, <3>1 DEF ReportProgress
    <2> QED BY <2>1, <2>2
  <1>7. CASE CallGui
    <2>1. Posted("call", active) /\ Ev("call", active).kind = "call" /\ Ev("call", active).job = active
      BY <1>7, <1>p DEF CallGui, Post
    <2>2. \A i \in 1..Len(guiQueue) : guiQueue'[i].kind # "call"
      BY <1>7, <2>1 DEF CallGui, Posted
    <2>3. \A i \in 1..Len(guiQueue') : i \in 1..Len(guiQueue) \/ i = Len(guiQueue) + 1
      BY <1>len, <2>1 DEF Posted
    <2>4. CallIsAwaited'
      <3>1. \A i \in 1..Len(guiQueue') : guiQueue'[i].kind = "call" => i = Len(guiQueue) + 1
        BY <2>2, <2>3
      <3>2. pc' = "blocked" /\ active' = active
        BY <1>7 DEF CallGui
      <3>3. guiQueue'[Len(guiQueue) + 1].job = active'
        BY <2>1, <3>2 DEF Posted
      <3> QED BY <3>1, <3>2, <3>3
    <2> QED BY <1>7, <2>1, <2>4 DEF CallGui, Posted
  <1>8. CASE RunRaises
    BY <1>4, <1>8 DEF RunRaises
  <1>9. CASE RunReturns
    BY <1>9 DEF RunReturns
  <1>10. ASSUME pc \in InJob \ {"blocked"}, Post("finished"), EndExecute,
                UNCHANGED <<jobState, result, guiVars>>
         PROVE  TypeInv'
    <2>1. CallIsAwaited' /\ guiQueue' \in Seq(Event)
      BY <1>10, <1>q DEF Post
    <2> QED BY <1>10, <2>1
  <1>11. CASE CheckState
    BY <1>11 DEF CheckState
  <1>12. CASE MarkFinished
    BY <1>12 DEF MarkFinished
  <1>13. CASE LastProgress
    <2>1. CASE Cancelled
      BY <1>4, <1>13, <2>1 DEF LastProgress, RaiseCancelled
    <2>2. CASE ~Cancelled /\ UNCHANGED guiQueue
      BY <1>13, <2>2 DEF LastProgress
    <2>3. CASE ~Cancelled /\ Post("progressed")
      <3>1. CallIsAwaited' /\ guiQueue' \in Seq(Event)
        BY <1>13, <1>q, <2>3 DEF LastProgress, Post
      <3> QED BY <1>13, <2>3, <3>1 DEF LastProgress
    <2> QED BY <1>13, <2>1, <2>2, <2>3 DEF LastProgress
  <1>14. CASE EmitFinished
    BY <1>10, <1>14 DEF EmitFinished
  <1>15. CASE WorkerExit
    BY <1>15 DEF WorkerExit
  <1> QED BY <1>1, <1>2, <1>3, <1>5, <1>6, <1>7, <1>8, <1>9, <1>11, <1>12, <1>13, <1>14, <1>15
       DEF WorkerStep

LEMMA GuiTypeInv == TypeInv /\ GuiStep => TypeInv'
  <1> SUFFICES ASSUME TypeInv, GuiStep PROVE TypeInv'
    OBVIOUS
  <1> USE JobsAssumption DEF TypeInv, TypeOK, WorkerHasJob, CallIsAwaited, JobStates,
          WorkerPcs, InJob, GuiStates, guiVars, workerVars, Verdicts
  <1>s. ASSUME NEW j \in Jobs, Submit(j)
        PROVE  jobs' \subseteq Jobs /\ workQueue' \in Seq(Jobs) /\ submitted' \in Seq(Jobs)
    BY <1>s, AppendToQueue DEF Submit
  <1>r. ASSUME NEW kind, NEW j \in Jobs, Receive(kind, j)
        PROVE  /\ guiQueue' \in Seq(Event)
               /\ UNCHANGED <<pc, active>> => CallIsAwaited'
               /\ kind = "call" => /\ pc = "blocked" /\ active = j
                                   /\ \A i \in 1..Len(guiQueue') : guiQueue'[i].kind # "call"
    <2>1. /\ guiQueue' \in Seq(Event) /\ Len(guiQueue) \in Nat /\ Len(guiQueue) >= 1
          /\ Len(guiQueue') = Len(guiQueue) - 1
          /\ \A i \in 1..Len(guiQueue') : guiQueue'[i] = guiQueue[i + 1]
          /\ guiQueue[1] = Ev(kind, j)
      BY <1>r, TakeFromQueue DEF Receive
    <2>2. guiQueue[1].kind = kind /\ guiQueue[1].job = j
      BY <2>1 DEF Ev
    <2>3. \A i \in 1..Len(guiQueue') : i + 1 \in 1..Len(guiQueue) /\ i + 1 # 1
      BY <2>1
    <2>4. 1 \in 1..Len(guiQueue)
      BY <2>1
    <2>5. ASSUME UNCHANGED <<pc, active>> PROVE CallIsAwaited'
      <3>1. ASSUME NEW i \in 1..Len(guiQueue'), guiQueue'[i].kind = "call"
            PROVE  pc' = "blocked" /\ guiQueue'[i].job = active'
        <4>1. guiQueue'[i] = guiQueue[i + 1] /\ i + 1 \in 1..Len(guiQueue)
          BY <2>1, <2>3
        <4>2. guiQueue[i + 1].kind = "call"
          BY <3>1, <4>1
        <4>3. pc = "blocked" /\ guiQueue[i + 1].job = active
          BY <4>1, <4>2
        <4> QED BY <2>5, <4>1, <4>3
      <3>2. ASSUME NEW i \in 1..Len(guiQueue'), NEW k \in 1..Len(guiQueue'),
                   guiQueue'[i].kind = "call", guiQueue'[k].kind = "call"
            PROVE  i = k
        <4>1. i + 1 \in 1..Len(guiQueue) /\ k + 1 \in 1..Len(guiQueue)
          BY <2>3
        <4>2. guiQueue[i + 1].kind = "call" /\ guiQueue[k + 1].kind = "call"
          BY <2>1, <3>2
        <4>3. i + 1 = k + 1
          BY <4>1, <4>2
        <4> QED BY <4>3
      <3> QED BY <3>1, <3>2
    <2>6. ASSUME kind = "call"
          PROVE  /\ pc = "blocked" /\ active = j
                 /\ \A i \in 1..Len(guiQueue') : guiQueue'[i].kind # "call"
      <3>1. pc = "blocked" /\ active = j
        BY <2>2, <2>4, <2>6
      <3>2. ASSUME NEW i \in 1..Len(guiQueue') PROVE guiQueue'[i].kind # "call"
        <4>1. guiQueue'[i] = guiQueue[i + 1] /\ i + 1 \in 1..Len(guiQueue) /\ i + 1 # 1
          BY <2>1, <2>3
        <4> QED BY <2>2, <2>4, <2>6, <4>1
      <3> QED BY <3>1, <3>2
    <2> QED BY <2>1, <2>5, <2>6
  <1>1. ASSUME NEW j \in Jobs, AddJob(j) PROVE TypeInv'
    BY <1>1, <1>s DEF AddJob, InEventLoop
  <1>2. ASSUME NEW j \in Jobs, CancelJob(j) PROVE TypeInv'
    BY <1>2 DEF CancelJob
  <1>3. ASSUME NEW j \in Jobs, OnJobStarting(j) PROVE TypeInv'
    BY <1>3, <1>r DEF OnJobStarting
  <1>4. ASSUME NEW j \in Jobs, OnJobProgress(j) PROVE TypeInv'
    BY <1>4, <1>r DEF OnJobProgress
  <1>5. ASSUME NEW j \in Jobs, OnJobException(j) PROVE TypeInv'
    BY <1>5, <1>r DEF OnJobException
  <1>6. ASSUME NEW j \in Jobs, OnJobFinished(j) PROVE TypeInv'
    <2>1. guiQueue' \in Seq(Event) /\ CallIsAwaited'
      BY <1>6, <1>r DEF OnJobFinished
    <2>2. CASE UNCHANGED <<workQueue, submitted>> /\ jobs' = jobs \ {j}
      BY <1>6, <2>1, <2>2 DEF OnJobFinished
    <2>3. ASSUME NEW k \in Jobs, submitted' = Append(submitted, k),
                 workQueue' = Append(workQueue, k), jobs' = (jobs \cup {k}) \ {j}
          PROVE  TypeInv'
      <3>1. submitted' \in Seq(Jobs) /\ workQueue' \in Seq(Jobs)
        BY <2>3, AppendToQueue
      <3> QED BY <1>6, <2>1, <2>3, <3>1 DEF OnJobFinished
    <2> QED BY <1>6, <2>2, <2>3 DEF OnJobFinished
  <1>7. ASSUME NEW j \in Jobs, OnFinishRaises(j) PROVE TypeInv'
    BY <1>7, <1>r DEF OnFinishRaises
  <1>8. ASSUME NEW j \in Jobs, OnCall(j) PROVE TypeInv'
    <2>1. /\ guiQueue' \in Seq(Event) /\ pc = "blocked" /\ active = j
          /\ \A i \in 1..Len(guiQueue') : guiQueue'[i].kind # "call"
      BY <1>8, <1>r DEF OnCall
    <2>2. jobs' \subseteq Jobs /\ workQueue' \in Seq(Jobs) /\ submitted' \in Seq(Jobs)
      BY <1>8, <1>s DEF OnCall
    <2> QED BY <1>8, <2>1, <2>2 DEF OnCall
  <1>9. CASE InterruptCurrentJob
    BY <1>9 DEF InterruptCurrentJob
  <1>10. CASE JoinAllJobs
    BY <1>10 DEF JoinAllJobs
  <1>11. CASE JoinReturns
    BY <1>11 DEF JoinReturns
  <1>12. CASE Quit
    BY <1>12 DEF Quit
  <1>13. CASE QuitReturns
    BY <1>13 DEF QuitReturns
  <1> QED BY <1>1, <1>2, <1>3, <1>4, <1>5, <1>6, <1>7, <1>8, <1>9, <1>10, <1>11, <1>12,
             <1>13 DEF GuiStep, Handler

LEMMA StutterTypeInv == TypeInv /\ UNCHANGED vars => TypeInv'
  BY DEF vars, TypeInv, TypeOK, WorkerHasJob, CallIsAwaited

LEMMA SpecTypeInv == Spec => []TypeInv
  <1>1. TypeInv /\ [Next]_vars => TypeInv'
    BY WorkerTypeInv, GuiTypeInv, StutterTypeInv DEF Next
  <1> QED BY InitTypeInv, <1>1, PTL DEF Spec

\* In every reachable state of the job manager, whatever the jobs do and however
\* the two threads interleave, each variable has its type.
THEOREM TypeCorrect == Spec => []TypeOK
  BY SpecTypeInv, PTL DEF TypeInv

-----------------------------------------------------------------------------
(***************************************************************************)
(* The elements of a queue, for queues that hold each element once.        *)
(***************************************************************************)
Elements(q)  == {q[i] : i \in 1..Len(q)}
Injective(q) == \A i, k \in 1..Len(q) : q[i] = q[k] => i = k

\* Appending adds one element, and keeps a queue injective if it is new.
LEMMA ElementsOfAppend ==
    ASSUME NEW S, NEW q \in Seq(S), NEW e \in S
    PROVE  /\ Elements(Append(q, e)) = Elements(q) \cup {e}
           /\ Injective(q) /\ e \notin Elements(q) => Injective(Append(q, e))
  <1>1. /\ Len(q) \in Nat /\ Len(Append(q, e)) = Len(q) + 1
        /\ \A i \in 1..Len(q) : Append(q, e)[i] = q[i]
        /\ Append(q, e)[Len(q) + 1] = e
    BY AppendToQueue, LenProperties
  <1> DEFINE r == Append(q, e)
             n == Len(q)
  <1> HIDE DEF r
  <1>2. n \in Nat /\ Len(r) = n + 1 /\ (\A i \in 1..n : r[i] = q[i]) /\ r[n + 1] = e
    BY <1>1 DEF r
  <1> HIDE DEF n
  <1>3. 1..(n + 1) = (1..n) \cup {n + 1}
    BY <1>2
  <1>4. Elements(q) = {q[i] : i \in 1..n} /\ Elements(r) = {r[i] : i \in 1..(n + 1)}
    BY <1>2 DEF Elements, n
  <1>5. Elements(r) = Elements(q) \cup {e}
    BY <1>2, <1>3, <1>4
  <1>6. ASSUME Injective(q), e \notin Elements(q)
        PROVE  \A i, k \in 1..(n + 1) : r[i] = r[k] => i = k
    <2>1. \A i, k \in 1..n : q[i] = q[k] => i = k
      BY <1>6 DEF Injective, n
    <2>2. \A i \in 1..n : q[i] # e
      BY <1>4, <1>6
    <2> QED BY <1>2, <1>3, <2>1, <2>2
  <1>7. Injective(q) /\ e \notin Elements(q) => Injective(r)
    BY <1>2, <1>6 DEF Injective
  <1> QED BY <1>5, <1>7 DEF r

\* Taking the head removes one element, and no other if the queue is injective.
LEMMA ElementsOfTail ==
    ASSUME NEW S, NEW q \in Seq(S), q # <<>>
    PROVE  /\ Elements(q) = Elements(Tail(q)) \cup {Head(q)}
           /\ Injective(q) => Injective(Tail(q)) /\ Head(q) \notin Elements(Tail(q))
  <1> DEFINE r == Tail(q)
             n == Len(r)
  <1>1. /\ Head(q) = q[1] /\ n \in Nat /\ Len(q) = n + 1
        /\ \A i \in 1..n : r[i] = q[i + 1]
    BY TakeFromQueue, LenProperties
  <1> HIDE DEF r, n
  <1>2. \A k \in 1..(n + 1) : k = 1 \/ (k - 1 \in 1..n /\ r[k - 1] = q[k])
    BY <1>1
  <1>3. \A i \in 1..n : i + 1 \in 1..(n + 1) /\ i + 1 # 1
    BY <1>1
  <1>4. Elements(q) = {q[i] : i \in 1..(n + 1)} /\ Elements(r) = {r[i] : i \in 1..n}
    BY <1>1 DEF Elements, n
  <1>5. 1 \in 1..(n + 1)
    BY <1>1
  <1>6. Elements(q) = Elements(r) \cup {Head(q)}
    <2>1. Elements(q) \subseteq Elements(r) \cup {Head(q)}
      BY <1>1, <1>2, <1>4
    <2>2. Elements(r) \cup {Head(q)} \subseteq Elements(q)
      BY <1>1, <1>3, <1>4, <1>5
    <2> QED BY <2>1, <2>2
  <1>7. ASSUME Injective(q) PROVE Injective(r) /\ Head(q) \notin Elements(r)
    <2>1. \A i, k \in 1..(n + 1) : q[i] = q[k] => i = k
      BY <1>1, <1>7 DEF Injective
    <2>2. ASSUME NEW i \in 1..n, NEW k \in 1..n, r[i] = r[k] PROVE i = k
      <3>1. q[i + 1] = q[k + 1] /\ i + 1 \in 1..(n + 1) /\ k + 1 \in 1..(n + 1)
        BY <1>1, <1>3, <2>2
      <3>2. i + 1 = k + 1
        BY <2>1, <3>1
      <3> QED BY <3>2
    <2>3. \A i \in 1..n : r[i] # q[1]
      BY <1>1, <1>3, <1>5, <2>1
    <2> QED BY <1>1, <1>4, <2>2, <2>3 DEF Injective, n
  <1> QED BY <1>6, <1>7 DEF r

-----------------------------------------------------------------------------
(***************************************************************************)
(* The verdicts on their way to the GUI thread.                            *)
(***************************************************************************)
\* No job has two verdicts in the queue.
VerdictsOnce ==
    \A i, k \in 1..Len(guiQueue) :
        /\ guiQueue[i].kind \in Verdicts /\ guiQueue[k].kind \in Verdicts
        /\ guiQueue[i].job = guiQueue[k].job
        => i = k

Kinds == {"starting", "progressed", "call"} \cup Verdicts

\* What posting a signal about j does to the queued verdicts and results.
LEMMA AfterPost ==
    ASSUME guiQueue \in Seq(Event), NEW kind \in Kinds, NEW j \in Jobs,
           guiQueue' = Append(guiQueue, Ev(kind, j))
    PROVE  /\ \A k \in Jobs : VerdictQueued(k)' <=>
                  VerdictQueued(k) \/ (kind \in Verdicts /\ k = j)
           /\ VerdictsOnce /\ ~(kind \in Verdicts /\ VerdictQueued(j)) => VerdictsOnce'
           /\ \A i \in 1..Len(guiQueue') :
                  \/ i \in 1..Len(guiQueue) /\ guiQueue'[i] = guiQueue[i]
                  \/ guiQueue'[i] = Ev(kind, j)
  <1> DEFINE n == Len(guiQueue)
  <1>1. Ev(kind, j) \in Event /\ Ev(kind, j).kind = kind /\ Ev(kind, j).job = j
    BY EvIsEvent DEF Ev, Kinds
  <1>2. /\ n \in Nat /\ Len(guiQueue') = n + 1
        /\ \A i \in 1..n : guiQueue'[i] = guiQueue[i]
        /\ guiQueue'[n + 1] = Ev(kind, j)
    BY <1>1, AppendToQueue, LenProperties
  <1>3. Len(guiQueue) = n
    OBVIOUS
  <1> HIDE DEF n
  <1>4. \A i \in 1..(n + 1) : i \in 1..n \/ i = n + 1
    BY <1>2
  <1>5. \A i \in 1..n : i \in 1..(n + 1) /\ i # n + 1
    BY <1>2
  <1>6. n + 1 \in 1..(n + 1)
    BY <1>2
  <1>7. ASSUME NEW k \in Jobs
        PROVE  VerdictQueued(k)' <=> VerdictQueued(k) \/ (kind \in Verdicts /\ k = j)
    BY <1>1, <1>2, <1>3, <1>4, <1>5, <1>6 DEF VerdictQueued
  <1>8. ASSUME VerdictsOnce, ~(kind \in Verdicts /\ VerdictQueued(j)) PROVE VerdictsOnce'
    BY <1>1, <1>2, <1>3, <1>4, <1>8 DEF VerdictsOnce, VerdictQueued
  <1> QED BY <1>2, <1>3, <1>4, <1>7, <1>8

\* What handling a signal about j does to them.
LEMMA AfterReceive ==
    ASSUME guiQueue \in Seq(Event), NEW kind, NEW j \in Jobs, Receive(kind, j)
    PROVE  /\ \A k \in Jobs : VerdictQueued(k)' => VerdictQueued(k)
           /\ \A k \in Jobs : VerdictQueued(k) =>
                  VerdictQueued(k)' \/ (kind \in Verdicts /\ k = j)
           /\ kind \in Verdicts => VerdictQueued(j)
           /\ VerdictsOnce => VerdictsOnce' /\ (kind \in Verdicts => ~VerdictQueued(j)')
           /\ \A i \in 1..Len(guiQueue') :
                  i + 1 \in 1..Len(guiQueue) /\ guiQueue'[i] = guiQueue[i + 1]
           /\ 1 \in 1..Len(guiQueue) /\ guiQueue[1] = Ev(kind, j)
  <1> DEFINE n == Len(guiQueue')
  <1>1. /\ n \in Nat /\ Len(guiQueue) = n + 1
        /\ \A i \in 1..n : guiQueue'[i] = guiQueue[i + 1]
        /\ guiQueue[1] = Ev(kind, j)
    BY TakeFromQueue, LenProperties DEF Receive
  <1>2. Len(guiQueue') = n
    OBVIOUS
  <1> HIDE DEF n
  <1>3. guiQueue[1].kind = kind /\ guiQueue[1].job = j
    BY <1>1 DEF Ev
  <1>4. \A i \in 1..n : i + 1 \in 1..(n + 1) /\ i + 1 # 1
    BY <1>1
  <1>5. \A k \in 1..(n + 1) : k = 1 \/ (k - 1 \in 1..n /\ guiQueue'[k - 1] = guiQueue[k])
    BY <1>1
  <1>6. 1 \in 1..(n + 1)
    BY <1>1
  <1>7. \A k \in Jobs : VerdictQueued(k)' => VerdictQueued(k)
    BY <1>1, <1>2, <1>4 DEF VerdictQueued
  <1>8. \A k \in Jobs : VerdictQueued(k) => VerdictQueued(k)' \/ (kind \in Verdicts /\ k = j)
    BY <1>1, <1>2, <1>3, <1>5 DEF VerdictQueued
  <1>9. kind \in Verdicts => VerdictQueued(j)
    BY <1>1, <1>3, <1>6 DEF VerdictQueued
  <1>10. ASSUME VerdictsOnce PROVE VerdictsOnce'
    <2> SUFFICES ASSUME NEW i \in 1..n, NEW k \in 1..n,
                        guiQueue'[i].kind \in Verdicts, guiQueue'[k].kind \in Verdicts,
                        guiQueue'[i].job = guiQueue'[k].job
                 PROVE  i = k
      BY <1>2 DEF VerdictsOnce, Verdicts
    <2>1. i + 1 = k + 1
      BY <1>1, <1>4, <1>10 DEF VerdictsOnce
    <2> QED BY <2>1
  <1>11. ASSUME VerdictsOnce, kind \in Verdicts PROVE ~VerdictQueued(j)'
    <2> SUFFICES ASSUME NEW i \in 1..n, guiQueue'[i].job = j, guiQueue'[i].kind \in Verdicts
                 PROVE  FALSE
      BY <1>2 DEF VerdictQueued, Verdicts
    <2>1. i + 1 = 1
      BY <1>1, <1>3, <1>4, <1>6, <1>11 DEF VerdictsOnce
    <2> QED BY <1>4, <2>1
  <1> QED BY <1>1, <1>2, <1>4, <1>6, <1>7, <1>8, <1>9, <1>10, <1>11

-----------------------------------------------------------------------------
(***************************************************************************)
(* The inductive invariant behind the job list.  A job moves from the work *)
(* queue to the worker to a queued verdict; it is in one of these places   *)
(* at most (OnePlacePerJob), listed while it is in one (PipelineIsListed), *)
(* and its finish() has not run until its verdict is handled.              *)
(***************************************************************************)
JobsSubmitted == jobs \subseteq Submitted

FinishedOnce ==
    \A j \in Jobs : InPipeline(j) \/ j \notin Submitted => finishRun[j] = "no"

AfterRun == {"returned", "finishing", "progress100", "reporting"}

ResultStored ==
    /\ pc \in AfterRun => active \in result
    /\ \A i \in 1..Len(guiQueue) : guiQueue[i].kind = "finished" => guiQueue[i].job \in result

Places == JobsSubmitted /\ PipelineIsListed /\ OnePlacePerJob /\ FinishedOnce

SafetyInv == TypeInv /\ Places /\ ResultStored

\* OnePlacePerJob in the vocabulary of the lemmas on queues.
LEMMA OnePlace ==
    OnePlacePerJob <=>
        /\ Injective(workQueue)
        /\ VerdictsOnce
        /\ \A j \in Waiting : active # j /\ ~VerdictQueued(j)
        /\ active # NoJob => ~VerdictQueued(active)
  BY DEF OnePlacePerJob, Injective, VerdictsOnce

LEMMA OnePlaceNext ==
    OnePlacePerJob' <=>
        /\ Injective(workQueue')
        /\ VerdictsOnce'
        /\ \A j \in Waiting' : active' # j /\ ~VerdictQueued(j)'
        /\ active' # NoJob => ~VerdictQueued(active)'
  BY DEF OnePlacePerJob, Injective, VerdictsOnce

LEMMA WaitingIsElements ==
    /\ Waiting = Elements(workQueue) /\ Waiting' = Elements(workQueue')
    /\ Submitted = Elements(submitted) /\ Submitted' = Elements(submitted')
  BY DEF Waiting, Submitted, Elements

\* Waiting jobs are jobs.
LEMMA WaitingAreJobs == TypeOK => Waiting \subseteq Jobs /\ Submitted \subseteq Jobs
  BY ElementOfSeq DEF TypeOK, Waiting, Submitted

\* A step that leaves the places of all jobs alone.
LEMMA PlacesKept ==
    ASSUME TypeOK, Places, UNCHANGED <<jobs, workQueue, active, submitted, finishRun>>,
           VerdictsOnce => VerdictsOnce',
           \A j \in Jobs : VerdictQueued(j)' <=> VerdictQueued(j)
    PROVE  Places'
  <1>1. Waiting' = Waiting /\ Submitted' = Submitted /\ active \in Jobs \cup {NoJob}
    BY DEF Waiting, Submitted, TypeOK
  <1>2. JobsSubmitted'
    BY <1>1 DEF Places, JobsSubmitted
  <1>3. PipelineIsListed' /\ FinishedOnce'
    BY <1>1 DEF Places, PipelineIsListed, FinishedOnce, InPipeline
  <1>4. OnePlacePerJob'
    BY <1>1, OnePlace, OnePlaceNext, WaitingAreJobs DEF Places
  <1> QED BY <1>2, <1>3, <1>4 DEF Places

\* The worker takes the job at the head of its queue, or drops it.
LEMMA PlacesTaken ==
    ASSUME TypeOK, Places, active = NoJob, workQueue # <<>>, workQueue' = Tail(workQueue),
           active' \in {Head(workQueue), NoJob},
           UNCHANGED <<jobs, submitted, finishRun>>,
           VerdictsOnce => VerdictsOnce',
           \A j \in Jobs : VerdictQueued(j)' <=> VerdictQueued(j)
    PROVE  Places'
  <1>1. /\ Waiting = Waiting' \cup {Head(workQueue)}
        /\ Injective(workQueue) => Injective(workQueue') /\ Head(workQueue) \notin Waiting'
    BY ElementsOfTail, WaitingIsElements DEF TypeOK
  <1>2. Waiting \subseteq Jobs /\ Submitted' = Submitted
    BY WaitingAreJobs DEF Submitted
  <1>3. JobsSubmitted'
    BY <1>2 DEF Places, JobsSubmitted
  <1>4. PipelineIsListed' /\ FinishedOnce'
    BY <1>1, <1>2, JobsAssumption DEF Places, PipelineIsListed, FinishedOnce, InPipeline
  <1>5. OnePlacePerJob'
    BY <1>1, <1>2, OnePlace, OnePlaceNext DEF Places
  <1> QED BY <1>3, <1>4, <1>5 DEF Places

\* The worker reports the end of its job.
LEMMA PlacesEnded ==
    ASSUME TypeOK, Places, NEW kind \in Verdicts, active \in Jobs,
           Post(kind), EndExecute, UNCHANGED <<jobs, submitted, finishRun>>
    PROVE  Places'
  <1>1. /\ \A k \in Jobs : VerdictQueued(k)' <=> VerdictQueued(k) \/ k = active
        /\ VerdictsOnce /\ ~VerdictQueued(active) => VerdictsOnce'
    BY AfterPost DEF TypeOK, Post, Kinds
  <1>2. Waiting' = Waiting /\ Submitted' = Submitted /\ Waiting \subseteq Jobs
        /\ workQueue' = workQueue /\ active' = NoJob
    BY WaitingAreJobs DEF Waiting, Submitted, EndExecute
  <1>3. JobsSubmitted'
    BY <1>2 DEF Places, JobsSubmitted
  <1>4. PipelineIsListed' /\ FinishedOnce'
    BY <1>1, <1>2, JobsAssumption DEF Places, PipelineIsListed, FinishedOnce, InPipeline
  <1>5. OnePlacePerJob'
    BY <1>1, <1>2, JobsAssumption, OnePlace, OnePlaceNext DEF Places
  <1> QED BY <1>3, <1>4, <1>5 DEF Places

\* A new job is listed and queued.
LEMMA PlacesAdded ==
    ASSUME TypeOK, Places, NEW j \in Jobs, Submit(j), UNCHANGED <<active, finishRun>>,
           VerdictsOnce => VerdictsOnce',
           \A k \in Jobs : VerdictQueued(k)' <=> VerdictQueued(k)
    PROVE  Places'
  <1>1. /\ Submitted' = Submitted \cup {j} /\ Waiting' = Waiting \cup {j}
        /\ Injective(workQueue) /\ j \notin Waiting => Injective(workQueue')
        /\ j \notin Submitted /\ jobs' = jobs \cup {j}
    BY ElementsOfAppend, WaitingIsElements DEF TypeOK, Submit
  <1>2. ~InPipeline(j) /\ active \in Jobs \cup {NoJob} /\ Waiting \subseteq Jobs
    BY <1>1, WaitingAreJobs DEF Places, PipelineIsListed, JobsSubmitted, TypeOK
  <1>3. JobsSubmitted'
    BY <1>1 DEF Places, JobsSubmitted
  <1>4. PipelineIsListed' /\ FinishedOnce'
    BY <1>1, <1>2, JobsAssumption DEF Places, PipelineIsListed, FinishedOnce, InPipeline
  <1>5. OnePlacePerJob'
    BY <1>1, <1>2, JobsAssumption, OnePlace, OnePlaceNext DEF Places, InPipeline
  <1> QED BY <1>3, <1>4, <1>5 DEF Places

\* The verdict on a job is handled: finish() may run, the job may be unlisted.
LEMMA PlacesSettled ==
    ASSUME TypeOK, Places, NEW kind \in Verdicts, NEW j \in Jobs, Receive(kind, j),
           UNCHANGED <<workQueue, active, submitted>>,
           jobs' \in {jobs, jobs \ {j}},
           \A k \in Jobs \ {j} : finishRun'[k] = finishRun[k]
    PROVE  Places'
  <1>1. /\ \A k \in Jobs : VerdictQueued(k)' <=> VerdictQueued(k) /\ k # j
        /\ VerdictQueued(j) /\ VerdictsOnce'
    BY AfterReceive, OnePlace DEF TypeOK, Places
  <1>2. Waiting' = Waiting /\ Submitted' = Submitted /\ Waiting \subseteq Jobs
    BY WaitingAreJobs DEF Waiting, Submitted
  <1>3. JobsSubmitted' /\ j \in Submitted
    BY <1>1, <1>2 DEF Places, JobsSubmitted, PipelineIsListed, InPipeline
  <1>4. active # j /\ j \notin Waiting
    BY <1>1, JobsAssumption, OnePlace DEF Places
  <1>5. PipelineIsListed'
    BY <1>1, <1>2, <1>4 DEF Places, PipelineIsListed, InPipeline
  <1>6. FinishedOnce'
    BY <1>1, <1>2, <1>3, <1>4 DEF Places, FinishedOnce, InPipeline
  <1>7. OnePlacePerJob'
    BY <1>1, <1>2, OnePlace, OnePlaceNext DEF Places, TypeOK
  <1> QED BY <1>3, <1>5, <1>6, <1>7 DEF Places

\* The on_finish of the job handled adds another job before the first is unlisted.
LEMMA PlacesSettledAndAdded ==
    ASSUME TypeOK, Places, NEW j \in Jobs, NEW k \in Jobs \ Submitted,
           Receive("finished", j), finishRun' = [finishRun EXCEPT ![j] = "ok"],
           submitted' = Append(submitted, k), workQueue' = Append(workQueue, k),
           jobs' = (jobs \cup {k}) \ {j}, active' = active
    PROVE  Places'
  <1>1. /\ \A i \in Jobs : VerdictQueued(i)' <=> VerdictQueued(i) /\ i # j
        /\ VerdictQueued(j) /\ VerdictsOnce'
    BY AfterReceive, OnePlace DEF TypeOK, Places, Verdicts
  <1>2. /\ Submitted' = Submitted \cup {k} /\ Waiting' = Waiting \cup {k}
        /\ Injective(workQueue) /\ k \notin Waiting => Injective(workQueue')
    BY ElementsOfAppend, WaitingIsElements DEF TypeOK
  <1>3. ~InPipeline(k) /\ active \in Jobs \cup {NoJob} /\ Waiting \subseteq Jobs
    BY WaitingAreJobs DEF Places, PipelineIsListed, JobsSubmitted, TypeOK
  <1>4. active # j /\ j \notin Waiting /\ j \in Submitted /\ j # k
    <2>1. active # j /\ j \notin Waiting
      BY <1>1, JobsAssumption, OnePlace DEF Places
    <2>2. j \in Submitted
      BY <1>1 DEF Places, JobsSubmitted, PipelineIsListed, InPipeline
    <2> QED BY <2>1, <2>2
  <1>5. JobsSubmitted'
    BY <1>2 DEF Places, JobsSubmitted
  <1>6. PipelineIsListed'
    BY <1>1, <1>2, <1>4 DEF Places, PipelineIsListed, InPipeline
  <1>7. FinishedOnce'
    <2>1. \A i \in Jobs \ {j} : finishRun'[i] = finishRun[i]
      BY DEF TypeOK
    <2> QED BY <1>1, <1>2, <1>4, <2>1 DEF Places, FinishedOnce, InPipeline
  <1>8. OnePlacePerJob'
    <2>1. Injective(workQueue') /\ k \notin Waiting /\ active # k /\ ~VerdictQueued(k)
      BY <1>2, <1>3, OnePlace DEF Places, InPipeline
    <2> QED BY <1>1, <1>2, <1>3, <2>1, OnePlace, OnePlaceNext DEF Places
  <1> QED BY <1>5, <1>6, <1>7, <1>8 DEF Places

LEMMA InitSafety == Init => SafetyInv
  <1> SUFFICES ASSUME Init PROVE SafetyInv
    OBVIOUS
  <1>1. Submitted = {} /\ Waiting = {} /\ \A j \in Jobs : ~VerdictQueued(j)
    BY DEF Init, Submitted, Waiting, VerdictQueued
  <1>2. \A j \in Jobs : ~InPipeline(j)
    BY <1>1, JobsAssumption DEF Init, InPipeline
  <1>3. JobsSubmitted /\ PipelineIsListed /\ FinishedOnce
    BY <1>2 DEF Init, JobsSubmitted, PipelineIsListed, FinishedOnce
  <1>4. OnePlacePerJob
    BY <1>1 DEF Init, OnePlacePerJob
  <1>5. ResultStored
    BY DEF Init, ResultStored, AfterRun
  <1> QED BY <1>3, <1>4, <1>5, InitTypeInv DEF SafetyInv, Places

\* A step without signals that leaves the list and the places of all jobs alone.
LEMMA QuietStep ==
    ASSUME TypeOK, Places,
           UNCHANGED <<jobs, workQueue, active, submitted, finishRun, guiQueue>>
    PROVE  Places'
  <1>1. VerdictsOnce => VerdictsOnce'
    BY DEF VerdictsOnce
  <1>2. \A j \in Jobs : VerdictQueued(j)' <=> VerdictQueued(j)
    BY DEF VerdictQueued
  <1> QED BY <1>1, <1>2, PlacesKept

LEMMA WorkerPlaces == TypeInv /\ Places /\ WorkerStep => Places'
  <1> SUFFICES ASSUME TypeInv, Places, WorkerStep PROVE Places'
    OBVIOUS
  <1>t. TypeOK
    BY DEF TypeInv
  <1>a. pc \in InJob => active \in Jobs
    BY DEF TypeInv, TypeOK, WorkerHasJob
  <1>i. pc = "idle" => active = NoJob
    BY DEF TypeInv, WorkerHasJob, InJob
  <1>e. ASSUME NEW kind \in Verdicts, pc \in InJob, Post(kind), EndExecute,
               UNCHANGED guiVars
        PROVE  Places'
    BY <1>a, <1>e, <1>t, PlacesEnded DEF guiVars
  <1>p. ASSUME NEW kind \in Kinds \ Verdicts, pc \in InJob, Post(kind),
               UNCHANGED <<jobs, workQueue, active, submitted, finishRun>>
        PROVE  Places'
    <2>1. /\ VerdictsOnce => VerdictsOnce'
          /\ \A j \in Jobs : VerdictQueued(j)' <=> VerdictQueued(j)
      BY <1>a, <1>p, <1>t, AfterPost DEF Post, TypeOK
    <2> QED BY <1>p, <1>t, <2>1, PlacesKept
  <1>q. Kinds = {"starting", "progressed", "call"} \cup Verdicts
        /\ Verdicts = {"finished", "exception"}
    BY DEF Kinds, Verdicts
  <1>1. CASE StartJob
    <2>1. workQueue # <<>> /\ Head(workQueue) \in Jobs
      BY <1>1, <1>t, TakeFromQueue DEF StartJob, TypeOK
    <2>2. /\ VerdictsOnce => VerdictsOnce'
          /\ \A j \in Jobs : VerdictQueued(j)' <=> VerdictQueued(j)
      BY <1>1, <1>q, <1>t, <2>1, AfterPost DEF StartJob, TypeOK
    <2> QED BY <1>1, <1>i, <1>t, <2>1, <2>2, PlacesTaken DEF StartJob, guiVars
  <1>2. CASE SkipJob
    <2>1. VerdictsOnce => VerdictsOnce'
      BY <1>2 DEF SkipJob, VerdictsOnce
    <2>2. \A j \in Jobs : VerdictQueued(j)' <=> VerdictQueued(j)
      BY <1>2 DEF SkipJob, VerdictQueued
    <2> QED BY <1>2, <1>i, <1>t, <2>1, <2>2, PlacesTaken DEF SkipJob, guiVars
  <1>3. CASE MarkRunning
    BY <1>3, <1>t, QuietStep DEF MarkRunning, Goto, guiVars
  <1>4. CASE FirstProgress
    <2>1. CASE RaiseCancelled
      BY <1>4, <1>e, <1>q, <2>1 DEF FirstProgress, RaiseCancelled, InJob
    <2>2. CASE Goto("running") /\ UNCHANGED guiQueue
      BY <1>4, <1>t, <2>2, QuietStep DEF FirstProgress, Goto, guiVars
    <2> QED BY <1>4, <2>1, <2>2 DEF FirstProgress
  <1>5. CASE ReportProgress
    <2>1. CASE RaiseCancelled
      BY <1>5, <1>e, <1>q, <2>1 DEF ReportProgress, RaiseCancelled, InJob
    <2>2. CASE Post("progressed") /\ UNCHANGED <<pc, active, workQueue>>
      BY <1>5, <1>p, <1>q, <2>2 DEF ReportProgress, InJob, guiVars
    <2> QED BY <1>5, <2>1, <2>2 DEF ReportProgress
  <1>6. CASE CallGui
    BY <1>6, <1>p, <1>q DEF CallGui, InJob, guiVars, Goto
  <1>7. CASE RunRaises
    BY <1>7, <1>e, <1>q DEF RunRaises, InJob
  <1>8. CASE RunReturns
    BY <1>8, <1>t, QuietStep DEF RunReturns, Goto, guiVars
  <1>9. CASE CheckState
    BY <1>9, <1>t, QuietStep DEF CheckState, Goto, guiVars
  <1>10. CASE MarkFinished
    BY <1>10, <1>t, QuietStep DEF MarkFinished, Goto, guiVars
  <1>11. CASE LastProgress
    <2>1. CASE RaiseCancelled
      BY <1>11, <1>e, <1>q, <2>1 DEF LastProgress, RaiseCancelled, InJob
    <2>2. CASE UNCHANGED guiQueue /\ Goto("reporting")
      BY <1>11, <1>t, <2>2, QuietStep DEF LastProgress, Goto, guiVars
    <2>3. CASE Post("progressed") /\ Goto("reporting")
      BY <1>11, <1>p, <1>q, <2>3 DEF LastProgress, InJob, guiVars, Goto
    <2> QED BY <1>11, <2>1, <2>2, <2>3 DEF LastProgress
  <1>12. CASE EmitFinished
    BY <1>12, <1>e, <1>q DEF EmitFinished, InJob
  <1>13. CASE WorkerExit
    BY <1>13, <1>t, QuietStep DEF WorkerExit, Goto, guiVars
  <1> QED BY <1>1, <1>2, <1>3, <1>4, <1>5, <1>6, <1>7, <1>8, <1>9, <1>10, <1>11, <1>12,
             <1>13 DEF WorkerStep

LEMMA GuiPlaces == TypeInv /\ Places /\ GuiStep => Places'
  <1> SUFFICES ASSUME TypeInv, Places, GuiStep PROVE Places'
    OBVIOUS
  <1>t. TypeOK
    BY DEF TypeInv
  <1>q. Verdicts = {"finished", "exception"}
    BY DEF Verdicts
  <1>r. ASSUME NEW kind \in {"starting", "progressed", "call"}, NEW j \in Jobs, Receive(kind, j)
        PROVE  /\ VerdictsOnce => VerdictsOnce'
               /\ \A k \in Jobs : VerdictQueued(k)' <=> VerdictQueued(k)
    <2>1. kind \notin Verdicts
      BY <1>q, <1>r
    <2> QED BY <1>r, <1>t, <2>1, AfterReceive DEF TypeOK
  <1>1. ASSUME NEW j \in Jobs, AddJob(j) PROVE Places'
    <2>1. VerdictsOnce => VerdictsOnce'
      BY <1>1 DEF AddJob, VerdictsOnce
    <2>2. \A k \in Jobs : VerdictQueued(k)' <=> VerdictQueued(k)
      BY <1>1 DEF AddJob, VerdictQueued
    <2> QED BY <1>1, <1>t, <2>1, <2>2, PlacesAdded DEF AddJob
  <1>2. ASSUME NEW j \in Jobs, CancelJob(j) PROVE Places'
    BY <1>2, <1>t, QuietStep DEF CancelJob, workerVars, guiVars
  <1>3. ASSUME NEW j \in Jobs, OnJobStarting(j) PROVE Places'
    BY <1>3, <1>r, <1>t, PlacesKept DEF OnJobStarting, workerVars
  <1>4. ASSUME NEW j \in Jobs, OnJobProgress(j) PROVE Places'
    BY <1>4, <1>r, <1>t, PlacesKept DEF OnJobProgress, workerVars, guiVars
  <1>f. ASSUME NEW j \in Jobs, NEW r, Receive("finished", j),
               finishRun' = [finishRun EXCEPT ![j] = r], jobs' \in {jobs, jobs \ {j}},
               workQueue' = workQueue, active' = active, submitted' = submitted
        PROVE  Places'
    <2>1. "finished" \in Verdicts
      BY <1>q
    <2>2. \A k \in Jobs \ {j} : finishRun'[k] = finishRun[k]
      BY <1>f, <1>t DEF TypeOK
    <2> QED BY <1>f, <1>t, <2>1, <2>2, PlacesSettled
  <1>5. ASSUME NEW j \in Jobs, OnJobException(j) PROVE Places'
    BY <1>5, <1>q, <1>t, PlacesSettled DEF OnJobException, workerVars
  <1>6. ASSUME NEW j \in Jobs, OnJobFinished(j) PROVE Places'
    <2>1. CASE jobs' = jobs \ {j} /\ UNCHANGED <<workQueue, submitted>>
      BY <1>6, <1>f, <2>1 DEF OnJobFinished
    <2>2. ASSUME NEW k \in Jobs \ Submitted, submitted' = Append(submitted, k),
                 workQueue' = Append(workQueue, k), jobs' = (jobs \cup {k}) \ {j}
          PROVE  Places'
      BY <1>6, <1>t, <2>2, PlacesSettledAndAdded DEF OnJobFinished
    <2> QED BY <1>6, <2>1, <2>2 DEF OnJobFinished
  <1>7. ASSUME NEW j \in Jobs, OnFinishRaises(j) PROVE Places'
    BY <1>7, <1>f DEF OnFinishRaises, workerVars
  <1>8. ASSUME NEW j \in Jobs, OnCall(j) PROVE Places'
    <2>1. CASE UNCHANGED <<jobs, workQueue, submitted>>
      BY <1>8, <1>r, <1>t, <2>1, PlacesKept DEF OnCall
    <2>2. ASSUME NEW k \in Jobs, Submit(k) PROVE Places'
      BY <1>8, <1>r, <1>t, <2>2, PlacesAdded DEF OnCall
    <2> QED BY <1>8, <2>1, <2>2 DEF OnCall
  <1>9. CASE InterruptCurrentJob
    BY <1>9, <1>t, QuietStep DEF InterruptCurrentJob, workerVars, guiVars
  <1>10. CASE JoinAllJobs
    BY <1>10, <1>t, QuietStep DEF JoinAllJobs, workerVars
  <1>11. CASE JoinReturns
    BY <1>11, <1>t, QuietStep DEF JoinReturns, workerVars
  <1>12. CASE Quit
    BY <1>12, <1>t, QuietStep DEF Quit, workerVars
  <1>13. CASE QuitReturns
    BY <1>13, <1>t, QuietStep DEF QuitReturns, workerVars
  <1> QED BY <1>1, <1>2, <1>3, <1>4, <1>5, <1>6, <1>7, <1>8, <1>9, <1>10, <1>11, <1>12,
             <1>13 DEF GuiStep, Handler

\* Results are stored before the job is reported, and never taken back.
LEMMA WorkerResult == TypeInv /\ ResultStored /\ WorkerStep => ResultStored'
  <1> SUFFICES ASSUME TypeInv, ResultStored, WorkerStep PROVE ResultStored'
    OBVIOUS
  <1>t. guiQueue \in Seq(Event)
    BY DEF TypeInv, TypeOK
  <1>a. pc \in InJob => active \in Jobs
    BY DEF TypeInv, TypeOK, WorkerHasJob
  <1>p. ASSUME NEW kind \in Kinds, NEW j \in Jobs, guiQueue' = Append(guiQueue, Ev(kind, j)),
               result' = result, kind = "finished" => j \in result,
               pc' \in AfterRun => active' \in result
        PROVE  ResultStored'
    <2>1. ASSUME NEW i \in 1..Len(guiQueue'), guiQueue'[i].kind = "finished"
          PROVE  guiQueue'[i].job \in result'
      <3>1. CASE i \in 1..Len(guiQueue) /\ guiQueue'[i] = guiQueue[i]
        BY <1>p, <2>1, <3>1 DEF ResultStored
      <3>2. CASE guiQueue'[i] = Ev(kind, j)
        BY <1>p, <2>1, <3>2 DEF Ev
      <3> QED BY <1>p, <1>t, <3>1, <3>2, AfterPost
    <2> QED BY <1>p, <2>1 DEF ResultStored
  <1>n. ASSUME guiQueue' = guiQueue, result \subseteq result',
               pc' \in AfterRun => active' \in result'
        PROVE  ResultStored'
    BY <1>n DEF ResultStored
  <1> USE DEF AfterRun, InJob, Kinds, Verdicts, Goto, EndExecute, Post, RaiseCancelled
  <1>1. CASE StartJob
    <2>1. Head(workQueue) \in Jobs
      BY <1>1, TakeFromQueue DEF StartJob, TypeInv, TypeOK
    <2> QED BY <1>1, <1>p, <2>1 DEF StartJob
  <1>2. CASE SkipJob
    BY <1>2, <1>n DEF SkipJob
  <1>3. CASE MarkRunning
    BY <1>3, <1>n DEF MarkRunning
  <1>4. CASE FirstProgress
    BY <1>4, <1>a, <1>n, <1>p DEF FirstProgress
  <1>5. CASE ReportProgress
    BY <1>5, <1>a, <1>p DEF ReportProgress
  <1>6. CASE CallGui
    BY <1>6, <1>a, <1>p DEF CallGui
  <1>7. CASE RunRaises
    BY <1>7, <1>a, <1>p DEF RunRaises
  <1>8. CASE RunReturns
    BY <1>8, <1>n DEF RunReturns
  <1>s. pc \in AfterRun => active \in result
    BY DEF ResultStored
  <1>9. CASE CheckState
    BY <1>9, <1>n, <1>s DEF CheckState
  <1>10. CASE MarkFinished
    BY <1>10, <1>n, <1>s DEF MarkFinished
  <1>11. CASE LastProgress
    BY <1>11, <1>a, <1>n, <1>p, <1>s DEF LastProgress
  <1>12. CASE EmitFinished
    BY <1>12, <1>a, <1>p, <1>s DEF EmitFinished
  <1>13. CASE WorkerExit
    BY <1>13, <1>n DEF WorkerExit
  <1> QED BY <1>1, <1>2, <1>3, <1>4, <1>5, <1>6, <1>7, <1>8, <1>9, <1>10, <1>11, <1>12,
             <1>13 DEF WorkerStep

LEMMA GuiResult == TypeInv /\ ResultStored /\ GuiStep => ResultStored'
  <1> SUFFICES ASSUME TypeInv, ResultStored, GuiStep PROVE ResultStored'
    OBVIOUS
  <1>t. guiQueue \in Seq(Event)
    BY DEF TypeInv, TypeOK
  <1>n. ASSUME UNCHANGED <<guiQueue, result, pc, active>> PROVE ResultStored'
    BY <1>n DEF ResultStored
  <1>r. ASSUME NEW kind, NEW j \in Jobs, Receive(kind, j), UNCHANGED <<result, active>>,
               pc' \in {pc, "running"}
        PROVE  ResultStored'
    <2>1. \A i \in 1..Len(guiQueue') :
              i + 1 \in 1..Len(guiQueue) /\ guiQueue'[i] = guiQueue[i + 1]
      BY <1>r, <1>t, AfterReceive
    <2> QED BY <1>r, <2>1 DEF ResultStored, AfterRun
  <1>1. ASSUME NEW j \in Jobs, Handler(j) PROVE ResultStored'
    BY <1>1, <1>r DEF Handler, OnJobStarting, OnJobProgress, OnJobException,
       OnJobFinished, OnFinishRaises, OnCall, workerVars
  <1>2. ASSUME NEW j \in Jobs, AddJob(j) \/ CancelJob(j) PROVE ResultStored'
    BY <1>2, <1>n DEF AddJob, CancelJob, workerVars
  <1>3. CASE InterruptCurrentJob \/ JoinAllJobs \/ JoinReturns \/ Quit \/ QuitReturns
    BY <1>3, <1>n DEF InterruptCurrentJob, JoinAllJobs, JoinReturns, Quit, QuitReturns, workerVars
  <1> QED BY <1>1, <1>2, <1>3 DEF GuiStep

LEMMA StutterSafety == SafetyInv /\ UNCHANGED vars => SafetyInv'
  <1> SUFFICES ASSUME SafetyInv, UNCHANGED vars PROVE SafetyInv'
    OBVIOUS
  <1>1. TypeInv'
    BY StutterTypeInv DEF SafetyInv
  <1>2. Places'
    BY QuietStep DEF SafetyInv, TypeInv, vars
  <1>3. ResultStored'
    BY DEF SafetyInv, ResultStored, vars
  <1> QED BY <1>1, <1>2, <1>3 DEF SafetyInv

LEMMA SpecSafety == Spec => []SafetyInv
  <1>1. SafetyInv /\ [Next]_vars => SafetyInv'
    <2> SUFFICES ASSUME SafetyInv, [Next]_vars PROVE SafetyInv'
      OBVIOUS
    <2>1. CASE WorkerStep
      BY <2>1, WorkerTypeInv, WorkerPlaces, WorkerResult DEF SafetyInv
    <2>2. CASE GuiStep
      BY <2>2, GuiTypeInv, GuiPlaces, GuiResult DEF SafetyInv
    <2>3. CASE UNCHANGED vars
      BY <2>3, StutterSafety
    <2> QED BY <2>1, <2>2, <2>3 DEF Next
  <1> QED BY InitSafety, <1>1, PTL DEF Spec

\* A job is listed for as long as a queue, the worker or a signal holds it, so
\* join_all_jobs never takes a busy worker for an idle one.
THEOREM BusyIsListed == Spec => []PipelineIsListed
  <1>1. SafetyInv => PipelineIsListed
    BY DEF SafetyInv, Places
  <1> QED BY SpecSafety, <1>1, PTL

\* A job is delivered once and reported once, whatever errors and cancellations
\* occur.
THEOREM ReportedOnce == Spec => []OnePlacePerJob
  <1>1. SafetyInv => OnePlacePerJob
    BY DEF SafetyInv, Places
  <1> QED BY SpecSafety, <1>1, PTL

\* finish() is only ever reached by a job whose result has been stored, once.
THEOREM FinishAlwaysSeesResult == Spec => []FinishSeesResult
  <1>1. SafetyInv => FinishSeesResult
    <2> SUFFICES ASSUME SafetyInv, NEW i \in 1..Len(guiQueue), guiQueue[i].kind = "finished"
                 PROVE  guiQueue[i].job \in result /\ finishRun[guiQueue[i].job] = "no"
      BY DEF FinishSeesResult
    <2>1. guiQueue[i].job \in result
      BY DEF SafetyInv, ResultStored
    <2>2. guiQueue[i].job \in Jobs
      BY <2>1 DEF SafetyInv, TypeInv, TypeOK
    <2>3. VerdictQueued(guiQueue[i].job)
      BY DEF VerdictQueued, Verdicts
    <2> QED BY <2>1, <2>2, <2>3 DEF SafetyInv, Places, FinishedOnce, InPipeline
  <1> QED BY SpecSafety, <1>1, PTL

\* Both, as the runs check them.
THEOREM ReportsAlwaysSound == Spec => []ReportsAreSound
  <1>1. OnePlacePerJob /\ FinishSeesResult => ReportsAreSound
    BY DEF ReportsAreSound
  <1> QED BY ReportedOnce, FinishAlwaysSeesResult, <1>1, PTL

-----------------------------------------------------------------------------
(***************************************************************************)
(* Cancellations.                                                          *)
(***************************************************************************)
\* What a step may do to the state of a job.
StateStep ==
    \/ UNCHANGED jobState
    \/ \E k \in Jobs : jobState' = [jobState EXCEPT ![k] = "CANCELLED"]
    \/ /\ pc \in {"starting", "finishing"} /\ active \in Jobs
       /\ \E s \in {"RUNNING", "FINISHED"} : jobState' = [jobState EXCEPT ![active] = s]
    \/ pc = "running" /\ active \in Jobs /\ jobState' = [jobState EXCEPT ![active] = "FAILED"]

LEMMA EveryStateStep == TypeInv /\ [Next]_vars => StateStep
  <1> SUFFICES ASSUME TypeInv, [Next]_vars PROVE StateStep
    OBVIOUS
  <1>a. pc \in {"starting", "finishing", "running"} => active \in Jobs
    BY DEF TypeInv, TypeOK, WorkerHasJob, InJob
  <1>1. CASE UNCHANGED vars
    BY <1>1 DEF StateStep, vars
  <1>2. CASE WorkerStep
    <2>1. CASE MarkRunning
      BY <1>a, <2>1 DEF MarkRunning, StateStep
    <2>2. CASE MarkFinished
      BY <1>a, <2>2 DEF MarkFinished, StateStep
    <2>3. CASE RunRaises
      BY <1>a, <2>3 DEF RunRaises, StateStep
    <2>4. CASE StartJob \/ SkipJob \/ FirstProgress \/ ReportProgress \/ CallGui
               \/ RunReturns \/ CheckState \/ LastProgress \/ EmitFinished \/ WorkerExit
      BY <2>4 DEF StartJob, SkipJob, FirstProgress, ReportProgress, CallGui, RunReturns,
         CheckState, LastProgress, EmitFinished, WorkerExit, RaiseCancelled, StateStep
    <2> QED BY <1>2, <2>1, <2>2, <2>3, <2>4 DEF WorkerStep
  <1>3. CASE GuiStep
    <2>1. ASSUME NEW j \in Jobs, CancelJob(j) PROVE StateStep
      BY <2>1 DEF CancelJob, StateStep
    <2>2. CASE InterruptCurrentJob
      BY <2>2 DEF InterruptCurrentJob, StateStep, TypeInv, TypeOK
    <2>3. ASSUME NEW j \in Jobs, AddJob(j) \/ Handler(j) PROVE StateStep
      BY <2>3 DEF AddJob, Handler, OnJobStarting, OnJobProgress, OnJobException,
         OnJobFinished, OnFinishRaises, OnCall, StateStep
    <2>4. CASE JoinAllJobs \/ JoinReturns \/ Quit \/ QuitReturns
      BY <2>4 DEF JoinAllJobs, JoinReturns, Quit, QuitReturns, StateStep
    <2> QED BY <1>3, <2>1, <2>2, <2>3, <2>4 DEF GuiStep
  <1> QED BY <1>1, <1>2, <1>3 DEF Next

\* A cancellation is lost in the windows between a read of the state and the
\* write that follows it, or to an error of run(), and nowhere else.
THEOREM CancelRarelyLost == Spec => CancelLostOnlyInWindows
  <1> DEFINE A == \A j \in Jobs : jobState[j] = "CANCELLED" /\ jobState'[j] # "CANCELLED" =>
                    /\ active = j
                    /\ \/ pc \in {"starting", "finishing"}
                       \/ pc = "running" /\ jobState'[j] = "FAILED"
  <1>1. TypeInv /\ [Next]_vars => [A]_vars
    <2> SUFFICES ASSUME TypeInv, StateStep PROVE A
      BY EveryStateStep
    <2> QED BY DEF StateStep, TypeInv, TypeOK
  <1>2. Spec => [][A]_vars
    BY SpecTypeInv, <1>1, PTL DEF Spec
  <1> QED BY <1>2 DEF CancelLostOnlyInWindows

-----------------------------------------------------------------------------
(***************************************************************************)
(* The current job.  Only job_starting and the verdicts write _current_job,*)
(* and while the worker is in a job nothing of that kind follows its       *)
(* job_starting.                                                           *)
(***************************************************************************)
Writes(q, i) == q[i].kind \in {"starting"} \cup Verdicts

StartingIsLast(q, a, i) ==
    q[i] = Ev("starting", a) /\ \A k \in 1..Len(q) : k > i => ~Writes(q, k)

CurrentInv ==
    pc \in InJob =>
        \/ \E i \in 1..Len(guiQueue) : StartingIsLast(guiQueue, active, i)
        \/ currentJob = active /\ \A i \in 1..Len(guiQueue) : ~Writes(guiQueue, i)

\* The worker posts something about its job that does not write _current_job,
\* or posts nothing.
LEMMA CurrentAfterPost ==
    ASSUME TypeOK, CurrentInv, pc \in InJob, active \in Jobs,
           NEW kind \in {"progressed", "call"},
           guiQueue' \in {guiQueue, Append(guiQueue, Ev(kind, active))},
           UNCHANGED <<active, currentJob>>
    PROVE  CurrentInv'
  <1>1. CASE guiQueue' = guiQueue
    BY <1>1 DEF CurrentInv, StartingIsLast, Writes
  <1>2. CASE guiQueue' = Append(guiQueue, Ev(kind, active))
    <2> DEFINE n == Len(guiQueue)
    <2>1. Ev(kind, active) \in Event /\ Ev(kind, active).kind = kind
      BY EvIsEvent DEF Ev
    <2>2. /\ n \in Nat /\ Len(guiQueue') = n + 1
          /\ \A i \in 1..n : guiQueue'[i] = guiQueue[i]
          /\ guiQueue'[n + 1] = Ev(kind, active)
      BY <1>2, <2>1, AppendToQueue, LenProperties DEF TypeOK
    <2>3. kind \notin {"starting"} \cup Verdicts
      BY DEF Verdicts
    <2>4. Len(guiQueue) = n
      OBVIOUS
    <2> HIDE DEF n
    <2>5. \A i \in 1..(n + 1) : i \in 1..n \/ i = n + 1
      BY <2>2
    <2>6. \A i \in 1..n : i \in 1..(n + 1)
      BY <2>2
    <2>7. \A i \in 1..n : Writes(guiQueue', i) <=> Writes(guiQueue, i)
      BY <2>2 DEF Writes
    <2>8. ~Writes(guiQueue', n + 1)
      BY <2>1, <2>2, <2>3 DEF Writes
    <2>9. ASSUME NEW i \in 1..n, StartingIsLast(guiQueue, active, i) PROVE StartingIsLast(guiQueue', active', i)
      BY <2>2, <2>4, <2>5, <2>7, <2>8, <2>9 DEF StartingIsLast
    <2> QED BY <2>2, <2>4, <2>5, <2>6, <2>7, <2>8, <2>9 DEF CurrentInv
  <1> QED BY <1>1, <1>2

\* The GUI thread handles a signal: only the kinds above write _current_job, and
\* job_starting writes its job.
LEMMA CurrentAfterReceive ==
    ASSUME TypeOK, CurrentInv, NEW kind, NEW j \in Jobs, Receive(kind, j),
           active' = active, pc' \in InJob => pc \in InJob,
           kind \notin {"starting"} \cup Verdicts => currentJob' = currentJob,
           kind = "starting" => currentJob' = j
    PROVE  CurrentInv'
  <1> SUFFICES ASSUME pc \in InJob PROVE CurrentInv'
    BY DEF CurrentInv
  <1> DEFINE n == Len(guiQueue')
  <1>1. /\ n \in Nat /\ Len(guiQueue) = n + 1
        /\ \A i \in 1..n : guiQueue'[i] = guiQueue[i + 1]
        /\ guiQueue[1] = Ev(kind, j)
    BY TakeFromQueue, LenProperties DEF Receive, TypeOK
  <1>2. Len(guiQueue') = n
    OBVIOUS
  <1> HIDE DEF n
  <1>3. guiQueue[1].kind = kind /\ guiQueue[1].job = j
    BY <1>1 DEF Ev
  <1>4. Ev("starting", active).kind = "starting" /\ Ev("starting", active).job = active
    BY DEF Ev
  <1>5. \A i \in 1..n : i + 1 \in 1..(n + 1)
    BY <1>1
  <1>6. \A i \in 1..n : Writes(guiQueue', i) <=> Writes(guiQueue, i + 1)
    BY <1>1 DEF Writes
  <1>7. CASE currentJob = active /\ \A i \in 1..Len(guiQueue) : ~Writes(guiQueue, i)
    <2>1. kind \notin {"starting"} \cup Verdicts
      <3>1. 1 \in 1..Len(guiQueue)
        BY <1>1
      <3> QED BY <1>3, <1>7, <3>1 DEF Writes
    <2>2. \A i \in 1..n : ~Writes(guiQueue', i)
      BY <1>1, <1>5, <1>6, <1>7
    <2> QED BY <1>2, <1>7, <2>1, <2>2 DEF CurrentInv
  <1>8. ASSUME NEW i \in 1..Len(guiQueue), StartingIsLast(guiQueue, active, i) PROVE CurrentInv'
    <2>1. CASE i = 1
      <3>1. currentJob' = active'
        BY <1>3, <1>4, <1>8, <2>1 DEF StartingIsLast
      <3>2. \A k \in 1..n : k + 1 > 1
        BY <1>1
      <3>3. \A k \in 1..n : ~Writes(guiQueue', k)
        BY <1>1, <1>5, <1>6, <1>8, <2>1, <3>2 DEF StartingIsLast
      <3> QED BY <1>2, <3>1, <3>3 DEF CurrentInv
    <2>2. CASE i # 1
      <3>1. i - 1 \in 1..n /\ (i - 1) + 1 = i
        BY <1>1, <2>2
      <3>2. guiQueue'[i - 1] = Ev("starting", active')
        BY <1>1, <1>8, <3>1 DEF StartingIsLast
      <3>3. \A k \in 1..n : k > i - 1 => k + 1 > i
        BY <1>1
      <3>4. \A k \in 1..n : k > i - 1 => ~Writes(guiQueue', k)
        BY <1>1, <1>5, <1>6, <1>8, <3>3 DEF StartingIsLast
      <3>5. StartingIsLast(guiQueue', active', i - 1)
        BY <1>2, <3>2, <3>4 DEF StartingIsLast
      <3> QED BY <1>2, <3>1, <3>5 DEF CurrentInv
    <2> QED BY <2>1, <2>2
  <1> QED BY <1>7, <1>8 DEF CurrentInv

LEMMA CurrentStep == TypeInv /\ CurrentInv /\ [Next]_vars => CurrentInv'
  <1> SUFFICES ASSUME TypeInv, CurrentInv, [Next]_vars PROVE CurrentInv'
    OBVIOUS
  <1>t. TypeOK
    BY DEF TypeInv
  <1>a. pc \in InJob => active \in Jobs
    BY DEF TypeInv, TypeOK, WorkerHasJob
  <1>k. ASSUME UNCHANGED <<guiQueue, active, currentJob>>, pc' \in InJob => pc \in InJob
        PROVE  CurrentInv'
    BY <1>k DEF CurrentInv, StartingIsLast, Writes
  <1>i. ASSUME EndExecute PROVE CurrentInv'
    BY <1>i DEF EndExecute, CurrentInv, InJob
  <1>1. CASE UNCHANGED vars
    BY <1>1, <1>k DEF vars
  <1>2. CASE WorkerStep
    <2>1. CASE StartJob
      <3> DEFINE h == Head(workQueue)
                 n == Len(guiQueue)
      <3>1. h \in Jobs
        BY <1>t, <2>1, TakeFromQueue DEF StartJob, TypeOK
      <3>2. Ev("starting", h) \in Event
        BY <3>1, EvIsEvent
      <3>3. /\ n \in Nat /\ Len(guiQueue') = n + 1
            /\ guiQueue'[n + 1] = Ev("starting", h) /\ active' = h
        BY <1>t, <2>1, <3>2, AppendToQueue, LenProperties DEF StartJob, TypeOK
      <3> HIDE DEF n, h
      <3>4. n + 1 \in 1..Len(guiQueue') /\ \A k \in 1..Len(guiQueue') : ~(k > n + 1)
        BY <3>3
      <3>5. StartingIsLast(guiQueue', active', n + 1)
        BY <3>3, <3>4 DEF StartingIsLast
      <3> QED BY <3>4, <3>5 DEF CurrentInv
    <2>2. CASE SkipJob
      BY <1>k, <2>2 DEF SkipJob, guiVars
    <2>3. CASE MarkRunning
      BY <1>k, <2>3 DEF MarkRunning, Goto, guiVars, InJob
    <2>4. CASE FirstProgress
      BY <1>i, <1>k, <2>4 DEF FirstProgress, RaiseCancelled, Goto, guiVars, InJob
    <2>5. CASE ReportProgress
      <3>1. CASE RaiseCancelled
        BY <1>i, <3>1 DEF RaiseCancelled
      <3>2. CASE Post("progressed") /\ UNCHANGED <<pc, active, workQueue>>
        BY <1>a, <1>t, <2>5, <3>2, CurrentAfterPost DEF ReportProgress, Post, guiVars, InJob
      <3> QED BY <2>5, <3>1, <3>2 DEF ReportProgress
    <2>6. CASE CallGui
      BY <1>a, <1>t, <2>6, CurrentAfterPost DEF CallGui, Post, Goto, guiVars, InJob
    <2>7. CASE RunRaises \/ EmitFinished
      BY <1>i, <2>7 DEF RunRaises, EmitFinished
    <2>8. CASE RunReturns \/ CheckState \/ MarkFinished \/ WorkerExit
      BY <1>k, <2>8 DEF RunReturns, CheckState, MarkFinished, WorkerExit, Goto, guiVars, InJob
    <2>9. CASE LastProgress
      <3>1. CASE RaiseCancelled
        BY <1>i, <3>1 DEF RaiseCancelled
      <3>2. CASE (UNCHANGED guiQueue \/ Post("progressed")) /\ Goto("reporting")
        BY <1>a, <1>t, <2>9, <3>2, CurrentAfterPost DEF LastProgress, Post, Goto, guiVars, InJob
      <3> QED BY <2>9, <3>1, <3>2 DEF LastProgress
    <2> QED BY <1>2, <2>1, <2>2, <2>3, <2>4, <2>5, <2>6, <2>7, <2>8, <2>9 DEF WorkerStep
  <1>3. CASE GuiStep
    <2>1. ASSUME NEW j \in Jobs, AddJob(j) \/ CancelJob(j) PROVE CurrentInv'
      BY <1>k, <2>1 DEF AddJob, CancelJob, workerVars, guiVars
    <2>2. ASSUME NEW j \in Jobs, OnJobStarting(j) PROVE CurrentInv'
      BY <1>t, <2>2, CurrentAfterReceive DEF OnJobStarting, workerVars
    <2>3. ASSUME NEW j \in Jobs, OnJobProgress(j) PROVE CurrentInv'
      BY <1>t, <2>3, CurrentAfterReceive DEF OnJobProgress, workerVars, guiVars
    <2>4. ASSUME NEW j \in Jobs, OnJobException(j) PROVE CurrentInv'
      BY <1>t, <2>4, CurrentAfterReceive DEF OnJobException, workerVars, Verdicts
    <2>5. ASSUME NEW j \in Jobs, OnJobFinished(j) PROVE CurrentInv'
      BY <1>t, <2>5, CurrentAfterReceive DEF OnJobFinished, Verdicts
    <2>6. ASSUME NEW j \in Jobs, OnFinishRaises(j) PROVE CurrentInv'
      BY <1>t, <2>6, CurrentAfterReceive DEF OnFinishRaises, workerVars, Verdicts
    <2>7. ASSUME NEW j \in Jobs, OnCall(j) PROVE CurrentInv'
      <3>1. pc = "blocked"
        <4>1. 1 \in 1..Len(guiQueue) /\ guiQueue[1] = Ev("call", j)
          BY <1>t, <2>7, AfterReceive DEF OnCall, TypeOK
        <4>2. guiQueue[1].kind = "call"
          BY <4>1 DEF Ev
        <4> QED BY <4>1, <4>2 DEF TypeInv, CallIsAwaited
      <3> QED BY <1>t, <2>7, <3>1, CurrentAfterReceive DEF OnCall, InJob
    <2>8. CASE InterruptCurrentJob \/ JoinAllJobs \/ JoinReturns \/ Quit \/ QuitReturns
      BY <1>k, <2>8 DEF InterruptCurrentJob, JoinAllJobs, JoinReturns, Quit, QuitReturns,
         workerVars, guiVars
    <2> QED BY <1>3, <2>1, <2>2, <2>3, <2>4, <2>5, <2>6, <2>7, <2>8 DEF GuiStep, Handler
  <1> QED BY <1>1, <1>2, <1>3 DEF Next

\* _current_job names the job that runs, or the signal that will make it so is
\* still queued: an interrupt can miss the running job only until then.
THEOREM CurrentCatchesUp == Spec => []CurrentJobCatchesUp
  <1>1. Init => CurrentInv
    BY DEF Init, CurrentInv, InJob
  <1>2. CurrentInv => CurrentJobCatchesUp
    BY DEF CurrentInv, StartingIsLast, CurrentJobCatchesUp
  <1> QED BY SpecTypeInv, CurrentStep, <1>1, <1>2, PTL DEF Spec
-----------------------------------------------------------------------------
(***************************************************************************)
(* Orphans.  A job that was not taken by the worker can only have been     *)
(* cancelled, which is why one that the worker skips is.                   *)
(***************************************************************************)
FreshUntouched ==
    \A j \in Jobs : j \notin Submitted \/ j \in Waiting => jobState[j] \in {"PENDING", "CANCELLED"}

OrphanInv == FreshUntouched /\ OrphansExplained

\* Steps that leave the list and the work queue alone, and end nothing.
LEMMA OrphansKept ==
    ASSUME TypeInv, Places, StateStep, OrphanInv,
           UNCHANGED <<jobs, workQueue, submitted, finishRun>>,
           \A k \in Jobs : InPipeline(k) => InPipeline(k)'
    PROVE  OrphanInv'
  <1>1. Waiting' = Waiting /\ Submitted' = Submitted
    BY DEF Waiting, Submitted
  <1>2. active \in Jobs => InPipeline(active) /\ active \notin Waiting /\ active \in Submitted
    BY DEF Places, OnePlacePerJob, PipelineIsListed, JobsSubmitted, InPipeline
  <1>3. \A k \in Jobs : jobState'[k] \in {jobState[k], "CANCELLED"} \/ k = active
    BY DEF StateStep, TypeInv, TypeOK
  <1>4. FreshUntouched'
    BY <1>1, <1>2, <1>3 DEF OrphanInv, FreshUntouched
  <1>5. OrphansExplained'
    BY <1>2, <1>3 DEF OrphanInv, OrphansExplained, Orphan
  <1> QED BY <1>4, <1>5 DEF OrphanInv

\* What is in the pipeline stays there when nothing is taken out of it.
LEMMA PipelineKept ==
    ASSUME TypeInv, UNCHANGED workQueue,
           active' # active => \A k \in Jobs : k = active => VerdictQueued(k)',
           \A k \in Jobs : VerdictQueued(k) => VerdictQueued(k)'
    PROVE  \A k \in Jobs : InPipeline(k) => InPipeline(k)'
  BY JobsAssumption DEF InPipeline, Waiting

LEMMA WorkerOrphans == TypeInv /\ Places /\ OrphanInv /\ WorkerStep => OrphanInv'
  <1> SUFFICES ASSUME TypeInv, Places, OrphanInv, WorkerStep PROVE OrphanInv'
    OBVIOUS
  <1>t. TypeOK
    BY DEF TypeInv
  <1>s. StateStep
    BY EveryStateStep DEF Next
  <1>a. /\ pc \in InJob => active \in Jobs
        /\ pc = "idle" => active = NoJob
    BY DEF TypeInv, TypeOK, WorkerHasJob, InJob
  <1>q. Kinds = {"starting", "progressed", "call"} \cup Verdicts
        /\ Verdicts = {"finished", "exception"}
    BY DEF Kinds, Verdicts
  <1>e. ASSUME NEW kind \in Verdicts, pc \in InJob, Post(kind), EndExecute, UNCHANGED guiVars
        PROVE  OrphanInv'
    <2>1. \A k \in Jobs : VerdictQueued(k)' <=> VerdictQueued(k) \/ k = active
      BY <1>a, <1>e, <1>q, <1>t, AfterPost DEF Post, TypeOK
    <2>2. \A k \in Jobs : InPipeline(k) => InPipeline(k)'
      BY <1>e, <2>1, PipelineKept DEF EndExecute
    <2> QED BY <1>e, <1>s, <2>2, OrphansKept DEF EndExecute, guiVars
  <1>k. ASSUME UNCHANGED <<jobs, workQueue, active, submitted, finishRun>>,
               \/ guiQueue' = guiQueue
               \/ pc \in InJob /\ \E kind \in {"progressed", "call"} : Post(kind)
        PROVE  OrphanInv'
    <2>1. \A k \in Jobs : VerdictQueued(k) => VerdictQueued(k)'
      <3>1. CASE guiQueue' = guiQueue
        BY <3>1 DEF VerdictQueued
      <3>2. ASSUME pc \in InJob, NEW kind \in {"progressed", "call"}, Post(kind)
            PROVE  \A k \in Jobs : VerdictQueued(k) => VerdictQueued(k)'
        BY <1>a, <1>q, <1>t, <3>2, AfterPost DEF Post, TypeOK
      <3> QED BY <1>k, <3>1, <3>2
    <2>2. \A k \in Jobs : InPipeline(k) => InPipeline(k)'
      BY <1>k, <2>1, PipelineKept
    <2> QED BY <1>k, <1>s, <2>2, OrphansKept
  <1>h. ASSUME pc = "idle", workQueue # <<>>, workQueue' = Tail(workQueue)
        PROVE  /\ Head(workQueue) \in Jobs /\ Head(workQueue) \in Waiting
               /\ Waiting = Waiting' \cup {Head(workQueue)}
    BY <1>h, <1>t, TakeFromQueue, ElementsOfTail, WaitingIsElements DEF TypeOK
  <1>1. CASE StartJob
    <2>1. /\ active' = Head(workQueue) /\ Waiting = Waiting' \cup {Head(workQueue)}
          /\ Head(workQueue) \in Jobs /\ UNCHANGED <<jobState, jobs, submitted, finishRun>>
      BY <1>1, <1>h DEF StartJob, guiVars
    <2>2. \A k \in Jobs : VerdictQueued(k) => VerdictQueued(k)'
      BY <1>1, <1>q, <1>t, <2>1, AfterPost DEF StartJob, TypeOK
    <2>3. \A k \in Jobs : InPipeline(k) => InPipeline(k)'
      BY <1>1, <1>a, <2>1, <2>2, JobsAssumption DEF InPipeline, StartJob
    <2>4. OrphansExplained'
      BY <2>1, <2>3 DEF OrphanInv, OrphansExplained, Orphan
    <2>5. FreshUntouched'
      BY <2>1 DEF OrphanInv, FreshUntouched, Submitted
    <2> QED BY <2>4, <2>5 DEF OrphanInv
  <1>2. CASE SkipJob
    <2> DEFINE h == Head(workQueue)
    <2>1. /\ Waiting = Waiting' \cup {h} /\ h \in Jobs /\ h \in Waiting
          /\ UNCHANGED <<jobState, jobs, submitted, finishRun, active, guiQueue>>
          /\ jobState[h] # "PENDING"
      BY <1>2, <1>h DEF SkipJob, guiVars
    <2> HIDE DEF h
    <2>2. jobState[h] = "CANCELLED"
      BY <2>1 DEF OrphanInv, FreshUntouched
    <2>3. \A k \in Jobs : InPipeline(k) => InPipeline(k)' \/ k = h
      BY <2>1 DEF InPipeline, VerdictQueued
    <2>4. OrphansExplained'
      BY <2>1, <2>2, <2>3 DEF OrphanInv, OrphansExplained, Orphan
    <2>5. FreshUntouched'
      BY <2>1 DEF OrphanInv, FreshUntouched, Submitted
    <2> QED BY <2>4, <2>5 DEF OrphanInv
  <1>3. CASE MarkRunning \/ RunReturns \/ CheckState \/ MarkFinished \/ WorkerExit
    BY <1>3, <1>k DEF MarkRunning, RunReturns, CheckState, MarkFinished, WorkerExit, Goto, guiVars
  <1>4. CASE FirstProgress
    BY <1>4, <1>e, <1>k, <1>q DEF FirstProgress, RaiseCancelled, Goto, guiVars, InJob
  <1>5. CASE ReportProgress
    <2>1. CASE RaiseCancelled
      BY <1>5, <1>e, <1>q, <2>1 DEF ReportProgress, RaiseCancelled, InJob
    <2>2. CASE Post("progressed") /\ UNCHANGED <<pc, active, workQueue>>
      BY <1>5, <1>k, <2>2 DEF ReportProgress, InJob, guiVars
    <2> QED BY <1>5, <2>1, <2>2 DEF ReportProgress
  <1>6. CASE CallGui
    BY <1>6, <1>k DEF CallGui, InJob, guiVars, Goto
  <1>7. CASE RunRaises
    BY <1>7, <1>e, <1>q DEF RunRaises, InJob
  <1>8. CASE LastProgress
    <2>1. CASE RaiseCancelled
      BY <1>8, <1>e, <1>q, <2>1 DEF LastProgress, RaiseCancelled, InJob
    <2>2. CASE (UNCHANGED guiQueue \/ Post("progressed")) /\ Goto("reporting")
      BY <1>8, <1>k, <2>2 DEF LastProgress, Goto, guiVars, InJob
    <2> QED BY <1>8, <2>1, <2>2 DEF LastProgress
  <1>9. CASE EmitFinished
    BY <1>9, <1>e, <1>q DEF EmitFinished, InJob
  <1> QED BY <1>1, <1>2, <1>3, <1>4, <1>5, <1>6, <1>7, <1>8, <1>9 DEF WorkerStep

\* A job is added: it is new, so it is PENDING or CANCELLED, and it is queued.
LEMMA OrphansAdded ==
    ASSUME TypeInv, Places, OrphanInv, NEW j \in Jobs, Submit(j),
           UNCHANGED <<jobState, active, finishRun>>,
           \A k \in Jobs : VerdictQueued(k) => VerdictQueued(k)'
    PROVE  OrphanInv'
  <1>1. /\ Submitted' = Submitted \cup {j} /\ Waiting' = Waiting \cup {j}
        /\ j \notin Submitted /\ jobs' = jobs \cup {j}
    BY ElementsOfAppend, WaitingIsElements DEF TypeInv, TypeOK, Submit
  <1>2. FreshUntouched'
    BY <1>1 DEF OrphanInv, FreshUntouched
  <1>3. OrphansExplained'
    BY <1>1 DEF OrphanInv, OrphansExplained, Orphan, InPipeline
  <1> QED BY <1>2, <1>3 DEF OrphanInv

LEMMA GuiOrphans == TypeInv /\ Places /\ OrphanInv /\ GuiStep => OrphanInv'
  <1> SUFFICES ASSUME TypeInv, Places, OrphanInv, GuiStep PROVE OrphanInv'
    OBVIOUS
  <1>t. TypeOK
    BY DEF TypeInv
  <1>s. StateStep
    BY EveryStateStep DEF Next
  <1>q. Verdicts = {"finished", "exception"}
    BY DEF Verdicts
  <1>k. ASSUME UNCHANGED <<jobs, workQueue, active, submitted, finishRun>>,
               \A k \in Jobs : VerdictQueued(k) => VerdictQueued(k)'
        PROVE  OrphanInv'
    <2>1. \A k \in Jobs : InPipeline(k) => InPipeline(k)'
      BY <1>k, PipelineKept
    <2> QED BY <1>k, <1>s, <2>1, OrphansKept
  <1>n. guiQueue' = guiQueue => \A k \in Jobs : VerdictQueued(k) => VerdictQueued(k)'
    BY DEF VerdictQueued
  <1>r. ASSUME NEW kind \in {"starting", "progressed", "call"}, NEW j \in Jobs, Receive(kind, j)
        PROVE  \A k \in Jobs : VerdictQueued(k) => VerdictQueued(k)'
    <2>1. kind \notin Verdicts
      BY <1>q, <1>r
    <2> QED BY <1>r, <1>t, <2>1, AfterReceive DEF TypeOK
  <1>v. ASSUME NEW kind \in Verdicts, NEW j \in Jobs, Receive(kind, j),
               UNCHANGED <<jobState, active>>,
               Waiting \subseteq Waiting', Waiting' \ Waiting \subseteq Jobs \ Submitted,
               Submitted \subseteq Submitted',
               jobs' \subseteq jobs \cup Waiting', j \notin jobs' \/ finishRun'[j] = "raised",
               \A k \in Jobs \ {j} : finishRun'[k] = finishRun[k]
        PROVE  OrphanInv'
    <2>1. \A k \in Jobs \ {j} : VerdictQueued(k) => VerdictQueued(k)'
      BY <1>t, <1>v, AfterReceive DEF TypeOK
    <2>2. \A k \in Jobs \ {j} : Orphan(k)' => Orphan(k)
      BY <1>v, <2>1 DEF Orphan, InPipeline
    <2>3. OrphansExplained'
      BY <1>v, <2>2 DEF OrphanInv, OrphansExplained, Orphan
    <2>4. FreshUntouched'
      BY <1>v DEF OrphanInv, FreshUntouched
    <2> QED BY <2>3, <2>4 DEF OrphanInv
  <1>w. UNCHANGED <<workQueue, submitted>> => Waiting' = Waiting /\ Submitted' = Submitted
    BY DEF Waiting, Submitted
  <1>1. ASSUME NEW j \in Jobs, AddJob(j) PROVE OrphanInv'
    BY <1>1, <1>n, OrphansAdded DEF AddJob
  <1>2. ASSUME NEW j \in Jobs, CancelJob(j) PROVE OrphanInv'
    BY <1>2, <1>k, <1>n DEF CancelJob, workerVars, guiVars
  <1>3. ASSUME NEW j \in Jobs, OnJobStarting(j) \/ OnJobProgress(j) PROVE OrphanInv'
    BY <1>3, <1>k, <1>r DEF OnJobStarting, OnJobProgress, workerVars, guiVars
  <1>4. ASSUME NEW j \in Jobs, OnJobException(j) PROVE OrphanInv'
    BY <1>4, <1>q, <1>v, <1>w DEF OnJobException, workerVars
  <1>5. ASSUME NEW j \in Jobs, OnJobFinished(j) PROVE OrphanInv'
    <2>1. \A k \in Jobs \ {j} : finishRun'[k] = finishRun[k]
      BY <1>5, <1>t DEF OnJobFinished, TypeOK
    <2>2. CASE jobs' = jobs \ {j} /\ UNCHANGED <<workQueue, submitted>>
      BY <1>5, <1>q, <1>v, <1>w, <2>1, <2>2 DEF OnJobFinished
    <2>3. ASSUME NEW k \in Jobs \ Submitted, submitted' = Append(submitted, k),
                 workQueue' = Append(workQueue, k), jobs' = (jobs \cup {k}) \ {j}
          PROVE  OrphanInv'
      <3>1. Submitted' = Submitted \cup {k} /\ Waiting' = Waiting \cup {k}
        BY <1>t, <2>3, ElementsOfAppend, WaitingIsElements DEF TypeOK
      <3> QED BY <1>5, <1>q, <1>v, <2>1, <2>3, <3>1 DEF OnJobFinished
    <2> QED BY <1>5, <2>2, <2>3 DEF OnJobFinished
  <1>6. ASSUME NEW j \in Jobs, OnFinishRaises(j) PROVE OrphanInv'
    <2>1. finishRun'[j] = "raised" /\ \A k \in Jobs \ {j} : finishRun'[k] = finishRun[k]
      BY <1>6, <1>t DEF OnFinishRaises, TypeOK
    <2> QED BY <1>6, <1>q, <1>v, <1>w, <2>1 DEF OnFinishRaises, workerVars
  <1>7. ASSUME NEW j \in Jobs, OnCall(j) PROVE OrphanInv'
    <2>1. \A k \in Jobs : VerdictQueued(k) => VerdictQueued(k)'
      BY <1>7, <1>r DEF OnCall
    <2>2. CASE UNCHANGED <<jobs, workQueue, submitted>>
      BY <1>7, <1>k, <2>1, <2>2 DEF OnCall
    <2>3. ASSUME NEW k \in Jobs, Submit(k) PROVE OrphanInv'
      BY <1>7, <2>1, <2>3, OrphansAdded DEF OnCall
    <2> QED BY <1>7, <2>2, <2>3 DEF OnCall
  <1>8. CASE InterruptCurrentJob \/ JoinAllJobs \/ JoinReturns \/ Quit \/ QuitReturns
    BY <1>8, <1>k, <1>n DEF InterruptCurrentJob, JoinAllJobs, JoinReturns, Quit, QuitReturns,
       workerVars, guiVars
  <1> QED BY <1>1, <1>2, <1>3, <1>4, <1>5, <1>6, <1>7, <1>8 DEF GuiStep, Handler

\* Nothing stays in JobManager.jobs for good but a job that was cancelled before
\* the worker took it and one whose on_finish raised.
THEOREM OrphansAlwaysExplained == Spec => []OrphansExplained
  <1>1. Init => OrphanInv
    <2>1. ASSUME Init PROVE FreshUntouched /\ OrphansExplained
      BY <2>1 DEF Init, FreshUntouched, OrphansExplained, Orphan
    <2> QED BY <2>1 DEF OrphanInv
  <1>2. SafetyInv /\ OrphanInv /\ [Next]_vars => OrphanInv'
    <2> SUFFICES ASSUME SafetyInv, OrphanInv, [Next]_vars PROVE OrphanInv'
      OBVIOUS
    <2>1. TypeInv /\ Places
      BY DEF SafetyInv
    <2>2. CASE UNCHANGED vars
      BY <2>2 DEF OrphanInv, FreshUntouched, OrphansExplained, Orphan, InPipeline,
         VerdictQueued, Waiting, Submitted, vars
    <2> QED BY <2>1, <2>2, WorkerOrphans, GuiOrphans DEF Next
  <1>3. OrphanInv => OrphansExplained
    BY DEF OrphanInv
  <1> QED BY SpecSafety, <1>1, <1>2, <1>3, PTL DEF Spec

-----------------------------------------------------------------------------
(***************************************************************************)
(* JobManager implements JobQueue: whatever the two threads, the signals,  *)
(* cancellations and errors do, the jobs are run in the order they were    *)
(* submitted, one at a time, and reported in that order.                   *)
(***************************************************************************)

(***************************************************************************)
(* What comes before what in a queue.                                      *)
(***************************************************************************)
Precedes(q, j, k) == \E m, n \in 1..Len(q) : m < n /\ q[m] = j /\ q[n] = k

\* A new element comes after the others, whose order stays.
LEMMA PrecedesAfterAppend ==
    ASSUME NEW S, NEW q \in Seq(S), NEW e \in S, NEW j, NEW k
    PROVE  Precedes(Append(q, e), j, k) <=> Precedes(q, j, k) \/ (j \in Elements(q) /\ k = e)
  <1> DEFINE r == Append(q, e)
             n == Len(q)
  <1>1. n \in Nat /\ Len(r) = n + 1 /\ (\A i \in 1..n : r[i] = q[i]) /\ r[n + 1] = e
    BY AppendToQueue, LenProperties
  <1>2. /\ Elements(q) = {q[i] : i \in 1..n}
        /\ Precedes(q, j, k) <=> \E a, b \in 1..n : a < b /\ q[a] = j /\ q[b] = k
        /\ Precedes(r, j, k) <=> \E a, b \in 1..(n + 1) : a < b /\ r[a] = j /\ r[b] = k
    BY <1>1 DEF Elements, Precedes
  <1> HIDE DEF r, n
  <1>3. \A i \in 1..(n + 1) : i \in 1..n \/ i = n + 1
    BY <1>1
  <1>4. ASSUME NEW a \in 1..(n + 1), NEW b \in 1..(n + 1), a < b, r[a] = j, r[b] = k
        PROVE  Precedes(q, j, k) \/ (j \in Elements(q) /\ k = e)
    <2>1. a \in 1..n
      BY <1>1, <1>4
    <2> QED BY <1>1, <1>2, <1>3, <1>4, <2>1
  <1>5. \A i \in 1..n : i \in 1..(n + 1) /\ i < n + 1
    BY <1>1
  <1>6. n + 1 \in 1..(n + 1)
    BY <1>1
  <1>7. ASSUME NEW a \in 1..n, NEW b \in 1..n, a < b, q[a] = j, q[b] = k
        PROVE  Precedes(r, j, k)
    BY <1>1, <1>2, <1>5, <1>7
  <1>8. ASSUME NEW a \in 1..n, q[a] = j, k = e PROVE Precedes(r, j, k)
    BY <1>1, <1>2, <1>5, <1>6, <1>8
  <1> QED BY <1>2, <1>4, <1>7, <1>8 DEF r

\* The head comes before the others, whose order stays.
LEMMA PrecedesAfterTake ==
    ASSUME NEW S, NEW q \in Seq(S), q # <<>>, NEW j, NEW k
    PROVE  /\ Precedes(Tail(q), j, k) => Precedes(q, j, k)
           /\ j \in Elements(q) /\ j # Head(q) => Precedes(q, Head(q), j)
  <1> DEFINE r == Tail(q)
             n == Len(r)
  <1>1. /\ Head(q) = q[1] /\ n \in Nat /\ Len(q) = n + 1
        /\ \A i \in 1..n : r[i] = q[i + 1]
    BY TakeFromQueue, LenProperties
  <1>2. /\ Elements(q) = {q[i] : i \in 1..(n + 1)}
        /\ Precedes(q, j, k) <=> \E a, b \in 1..(n + 1) : a < b /\ q[a] = j /\ q[b] = k
        /\ Precedes(q, Head(q), j) <=> \E a, b \in 1..(n + 1) : a < b /\ q[a] = Head(q) /\ q[b] = j
        /\ Precedes(r, j, k) <=> \E a, b \in 1..n : a < b /\ r[a] = j /\ r[b] = k
    BY <1>1 DEF Elements, Precedes
  <1> HIDE DEF r, n
  <1>3. ASSUME NEW a \in 1..n, NEW b \in 1..n, a < b, r[a] = j, r[b] = k
        PROVE  Precedes(q, j, k)
    <2>1. a + 1 \in 1..(n + 1) /\ b + 1 \in 1..(n + 1) /\ a + 1 < b + 1
      BY <1>1, <1>3
    <2> QED BY <1>1, <1>2, <1>3, <2>1
  <1>4. ASSUME NEW b \in 1..(n + 1), q[b] = j, j # Head(q) PROVE Precedes(q, Head(q), j)
    <2>1. 1 \in 1..(n + 1) /\ 1 < b
      BY <1>1, <1>4
    <2> QED BY <1>1, <1>2, <1>4, <2>1
  <1> QED BY <1>2, <1>3, <1>4 DEF r

\* A queue that holds each element once orders its elements.
LEMMA PrecedesIsOrder ==
    ASSUME NEW q, Injective(q), NEW j, NEW k
    PROVE  /\ ~(Precedes(q, j, k) /\ Precedes(q, k, j))
           /\ j \in Elements(q) /\ k \in Elements(q) /\ j # k =>
                  Precedes(q, j, k) \/ Precedes(q, k, j)
           /\ Precedes(q, j, k) => j \in Elements(q) /\ k \in Elements(q)
  <1>1. ASSUME Precedes(q, j, k), Precedes(q, k, j) PROVE FALSE
    <2>1. PICK a \in 1..Len(q), b \in 1..Len(q) : a < b /\ q[a] = j /\ q[b] = k
      BY <1>1 DEF Precedes
    <2>2. PICK c \in 1..Len(q), d \in 1..Len(q) : c < d /\ q[c] = k /\ q[d] = j
      BY <1>1 DEF Precedes
    <2>3. a = d /\ b = c
      BY <2>1, <2>2 DEF Injective
    <2> QED BY <2>1, <2>2, <2>3
  <1>2. ASSUME j \in Elements(q), k \in Elements(q), j # k
        PROVE  Precedes(q, j, k) \/ Precedes(q, k, j)
    <2>1. PICK a \in 1..Len(q) : q[a] = j
      BY <1>2 DEF Elements
    <2>2. PICK b \in 1..Len(q) : q[b] = k
      BY <1>2 DEF Elements
    <2>3. a < b \/ b < a
      BY <1>2, <2>1, <2>2
    <2> QED BY <2>1, <2>2, <2>3 DEF Precedes
  <1>3. ASSUME Precedes(q, j, k) PROVE j \in Elements(q) /\ k \in Elements(q)
    BY <1>3 DEF Precedes, Elements
  <1> QED BY <1>1, <1>2, <1>3

\* The order of the queued verdicts.
VerdictPrecedes(j, k) ==
    \E m, n \in 1..Len(guiQueue) :
        /\ m < n
        /\ guiQueue[m].job = j /\ guiQueue[m].kind \in Verdicts
        /\ guiQueue[n].job = k /\ guiQueue[n].kind \in Verdicts

\* A verdict posted comes after the others, and no other signal counts.
LEMMA VerdictOrderAfterPost ==
    ASSUME guiQueue \in Seq(Event), NEW kind \in Kinds, NEW v \in Jobs,
           guiQueue' = Append(guiQueue, Ev(kind, v)), NEW j, NEW k
    PROVE  VerdictPrecedes(j, k)' =>
               VerdictPrecedes(j, k) \/ (kind \in Verdicts /\ VerdictQueued(j) /\ k = v)
  <1> DEFINE n == Len(guiQueue)
  <1>1. Ev(kind, v) \in Event /\ Ev(kind, v).kind = kind /\ Ev(kind, v).job = v
    BY EvIsEvent DEF Ev, Kinds
  <1>2. /\ n \in Nat /\ Len(guiQueue') = n + 1
        /\ \A i \in 1..n : guiQueue'[i] = guiQueue[i]
        /\ guiQueue'[n + 1] = Ev(kind, v)
    BY <1>1, AppendToQueue, LenProperties
  <1>3. Len(guiQueue) = n
    OBVIOUS
  <1> HIDE DEF n
  <1> SUFFICES ASSUME NEW a \in 1..(n + 1), NEW b \in 1..(n + 1), a < b,
                      guiQueue'[a].job = j, guiQueue'[a].kind \in Verdicts,
                      guiQueue'[b].job = k, guiQueue'[b].kind \in Verdicts
               PROVE  VerdictPrecedes(j, k) \/ (kind \in Verdicts /\ VerdictQueued(j) /\ k = v)
    BY <1>2 DEF VerdictPrecedes, Verdicts
  <1>4. a \in 1..n /\ (b \in 1..n \/ b = n + 1)
    BY <1>2
  <1>5. guiQueue[a].job = j /\ guiQueue[a].kind \in Verdicts
    BY <1>2, <1>4
  <1>6. CASE b \in 1..n
    BY <1>2, <1>3, <1>4, <1>5, <1>6 DEF VerdictPrecedes
  <1>7. CASE b = n + 1
    <2>1. kind \in Verdicts /\ k = v
      BY <1>1, <1>2, <1>7
    <2> QED BY <1>3, <1>4, <1>5, <2>1 DEF VerdictQueued
  <1> QED BY <1>4, <1>6, <1>7

\* The verdict received came before the others, whose order stays.
LEMMA VerdictOrderAfterReceive ==
    ASSUME guiQueue \in Seq(Event), NEW kind, NEW v \in Jobs, Receive(kind, v), NEW j, NEW k
    PROVE  /\ VerdictPrecedes(j, k)' => VerdictPrecedes(j, k)
           /\ kind \in Verdicts /\ VerdictQueued(j) /\ j # v => VerdictPrecedes(v, j)
  <1> DEFINE n == Len(guiQueue')
  <1>1. /\ n \in Nat /\ Len(guiQueue) = n + 1
        /\ \A i \in 1..n : guiQueue'[i] = guiQueue[i + 1]
        /\ guiQueue[1] = Ev(kind, v)
    BY TakeFromQueue, LenProperties DEF Receive
  <1>2. Len(guiQueue') = n /\ guiQueue[1].kind = kind /\ guiQueue[1].job = v
    BY <1>1 DEF Ev
  <1> HIDE DEF n
  <1>3. ASSUME VerdictPrecedes(j, k)' PROVE VerdictPrecedes(j, k)
    <2>1. PICK a \in 1..n, b \in 1..n :
              /\ a < b
              /\ guiQueue'[a].job = j /\ guiQueue'[a].kind \in Verdicts
              /\ guiQueue'[b].job = k /\ guiQueue'[b].kind \in Verdicts
      BY <1>2, <1>3 DEF VerdictPrecedes, Verdicts
    <2>2. a + 1 \in 1..(n + 1) /\ b + 1 \in 1..(n + 1) /\ a + 1 < b + 1
      BY <1>1, <2>1
    <2> QED BY <1>1, <2>1, <2>2 DEF VerdictPrecedes
  <1>4. ASSUME kind \in Verdicts, VerdictQueued(j), j # v PROVE VerdictPrecedes(v, j)
    <2>1. PICK b \in 1..(n + 1) : guiQueue[b].job = j /\ guiQueue[b].kind \in Verdicts
      BY <1>1, <1>4 DEF VerdictQueued
    <2>2. 1 \in 1..(n + 1) /\ 1 < b
      BY <1>1, <1>2, <1>4, <2>1
    <2> QED BY <1>1, <1>2, <1>4, <2>1, <2>2 DEF VerdictPrecedes
  <1> QED BY <1>3, <1>4

-----------------------------------------------------------------------------
(***************************************************************************)
(* What a step may do to the places of the jobs.                           *)
(***************************************************************************)
\* The queued verdicts stay, in their order.
VerdictsStay ==
    /\ \A j \in Jobs : VerdictQueued(j)' <=> VerdictQueued(j)
    /\ \A j, k \in Jobs : VerdictPrecedes(j, k)' => VerdictPrecedes(j, k)

\* The verdict on v, the first of all, is taken; the others stay in their order.
VerdictTaken(v) ==
    /\ VerdictQueued(v)
    /\ \A j \in Jobs : VerdictQueued(j)' <=> VerdictQueued(j) /\ j # v
    /\ \A j, k \in Jobs : VerdictPrecedes(j, k)' => VerdictPrecedes(j, k)
    /\ \A j \in Jobs : VerdictQueued(j) /\ j # v => VerdictPrecedes(v, j)

\* A verdict on v is queued behind the others.
VerdictPosted(v) ==
    /\ \A j \in Jobs : VerdictQueued(j)' <=> VerdictQueued(j) \/ j = v
    /\ \A j, k \in Jobs : VerdictPrecedes(j, k)' =>
           VerdictPrecedes(j, k) \/ (VerdictQueued(j) /\ k = v)

QueuesStay == UNCHANGED <<submitted, workQueue>>
Enqueued(k) ==
    /\ k \notin Submitted
    /\ submitted' = Append(submitted, k)
    /\ workQueue' = Append(workQueue, k)

Stays    == QueuesStay /\ active' = active /\ VerdictsStay
Adds(k)  == Enqueued(k) /\ active' = active /\ VerdictsStay
Takes    ==
    /\ workQueue # <<>> /\ workQueue' = Tail(workQueue) /\ submitted' = submitted
    /\ active = NoJob /\ active' \in {NoJob, Head(workQueue)}
    /\ VerdictsStay
Ends     ==
    /\ active \in Jobs /\ active' = NoJob
    /\ QueuesStay /\ VerdictPosted(active)
Settles(v)          == QueuesStay /\ active' = active /\ VerdictTaken(v)
SettlesAndAdds(v, k) == Enqueued(k) /\ active' = active /\ VerdictTaken(v)

Moves ==
    \/ Stays \/ Takes \/ Ends
    \/ \E k \in Jobs : Adds(k)
    \/ \E v \in Jobs : Settles(v) \/ \E k \in Jobs : SettlesAndAdds(v, k)

LEMMA QuietVerdicts == UNCHANGED guiQueue => VerdictsStay
  BY DEF VerdictsStay, VerdictQueued, VerdictPrecedes

\* A signal that is no verdict leaves the verdicts alone.
LEMMA PostedVerdicts ==
    ASSUME guiQueue \in Seq(Event), NEW kind \in Kinds, NEW v \in Jobs,
           guiQueue' = Append(guiQueue, Ev(kind, v))
    PROVE  /\ kind \in Verdicts => VerdictPosted(v)
           /\ kind \notin Verdicts => VerdictsStay
  <1>1. \A k \in Jobs : VerdictQueued(k)' <=> VerdictQueued(k) \/ (kind \in Verdicts /\ k = v)
    BY AfterPost
  <1>2. \A j, k \in Jobs : VerdictPrecedes(j, k)' =>
            VerdictPrecedes(j, k) \/ (kind \in Verdicts /\ VerdictQueued(j) /\ k = v)
    BY VerdictOrderAfterPost
  <1> QED BY <1>1, <1>2 DEF VerdictPosted, VerdictsStay

LEMMA ReceivedVerdicts ==
    ASSUME guiQueue \in Seq(Event), VerdictsOnce, NEW kind, NEW v \in Jobs, Receive(kind, v)
    PROVE  /\ kind \in Verdicts => VerdictTaken(v)
           /\ kind \notin Verdicts => VerdictsStay
  <1>1. \A j, k \in Jobs :
            /\ VerdictPrecedes(j, k)' => VerdictPrecedes(j, k)
            /\ kind \in Verdicts /\ VerdictQueued(j) /\ j # v => VerdictPrecedes(v, j)
    BY VerdictOrderAfterReceive
  <1>2. /\ \A k \in Jobs : VerdictQueued(k)' => VerdictQueued(k)
        /\ \A k \in Jobs : VerdictQueued(k) =>
               VerdictQueued(k)' \/ (kind \in Verdicts /\ k = v)
        /\ kind \in Verdicts => VerdictQueued(v) /\ ~VerdictQueued(v)'
    BY AfterReceive
  <1> QED BY <1>1, <1>2 DEF VerdictTaken, VerdictsStay

LEMMA WorkerMoves == SafetyInv /\ WorkerStep => Moves
  <1> SUFFICES ASSUME SafetyInv, WorkerStep PROVE Moves
    OBVIOUS
  <1>t. guiQueue \in Seq(Event) /\ workQueue \in Seq(Jobs)
    BY DEF SafetyInv, TypeInv, TypeOK
  <1>a. /\ pc \in InJob => active \in Jobs
        /\ pc = "idle" => active = NoJob
    BY DEF SafetyInv, TypeInv, TypeOK, WorkerHasJob, InJob
  <1>q. Kinds = {"starting", "progressed", "call"} \cup Verdicts
        /\ Verdicts = {"finished", "exception"}
    BY DEF Kinds, Verdicts
  <1>k. ASSUME UNCHANGED <<submitted, workQueue, active, guiQueue>> PROVE Moves
    BY <1>k, QuietVerdicts DEF Moves, Stays, QueuesStay
  <1>e. ASSUME NEW kind \in Verdicts, pc \in InJob, Post(kind), EndExecute, UNCHANGED guiVars
        PROVE  Moves
    BY <1>a, <1>e, <1>q, <1>t, PostedVerdicts DEF Moves, Ends, QueuesStay, Post, EndExecute, guiVars
  <1>p. ASSUME NEW kind \in Kinds \ Verdicts, pc \in InJob, Post(kind),
               UNCHANGED <<submitted, workQueue, active>>
        PROVE  Moves
    BY <1>a, <1>p, <1>t, PostedVerdicts DEF Moves, Stays, QueuesStay, Post
  <1>1. CASE StartJob
    <2>1. workQueue # <<>> /\ Head(workQueue) \in Jobs
      BY <1>1, <1>t, TakeFromQueue DEF StartJob
    <2>2. VerdictsStay
      BY <1>1, <1>q, <1>t, <2>1, PostedVerdicts DEF StartJob
    <2> QED BY <1>1, <1>a, <2>1, <2>2 DEF StartJob, Moves, Takes, guiVars
  <1>2. CASE SkipJob
    BY <1>2, <1>a, QuietVerdicts DEF SkipJob, Moves, Takes, guiVars
  <1>3. CASE MarkRunning \/ RunReturns \/ CheckState \/ MarkFinished \/ WorkerExit
    BY <1>3, <1>k DEF MarkRunning, RunReturns, CheckState, MarkFinished, WorkerExit, Goto, guiVars
  <1>4. CASE FirstProgress
    <2>1. CASE RaiseCancelled
      BY <1>4, <1>e, <1>q, <2>1 DEF FirstProgress, RaiseCancelled, InJob
    <2>2. CASE Goto("running") /\ UNCHANGED guiQueue
      BY <1>4, <1>k, <2>2 DEF FirstProgress, Goto, guiVars
    <2> QED BY <1>4, <2>1, <2>2 DEF FirstProgress
  <1>5. CASE ReportProgress
    <2>1. CASE RaiseCancelled
      BY <1>5, <1>e, <1>q, <2>1 DEF ReportProgress, RaiseCancelled, InJob
    <2>2. CASE Post("progressed") /\ UNCHANGED <<pc, active, workQueue>>
      BY <1>5, <1>p, <1>q, <2>2 DEF ReportProgress, InJob, guiVars
    <2> QED BY <1>5, <2>1, <2>2 DEF ReportProgress
  <1>6. CASE CallGui
    BY <1>6, <1>p, <1>q DEF CallGui, InJob, guiVars, Goto
  <1>7. CASE RunRaises
    BY <1>7, <1>e, <1>q DEF RunRaises, InJob
  <1>11. CASE LastProgress
    <2>1. CASE RaiseCancelled
      BY <1>11, <1>e, <1>q, <2>1 DEF LastProgress, RaiseCancelled, InJob
    <2>2. CASE UNCHANGED guiQueue /\ Goto("reporting")
      BY <1>11, <1>k, <2>2 DEF LastProgress, Goto, guiVars
    <2>3. CASE Post("progressed") /\ Goto("reporting")
      BY <1>11, <1>p, <1>q, <2>3 DEF LastProgress, InJob, guiVars, Goto
    <2> QED BY <1>11, <2>1, <2>2, <2>3 DEF LastProgress
  <1>12. CASE EmitFinished
    BY <1>12, <1>e, <1>q DEF EmitFinished, InJob
  <1> QED BY <1>1, <1>2, <1>3, <1>4, <1>5, <1>6, <1>7, <1>11, <1>12 DEF WorkerStep

LEMMA GuiMoves == SafetyInv /\ GuiStep => Moves
  <1> SUFFICES ASSUME SafetyInv, GuiStep PROVE Moves
    OBVIOUS
  <1>t. guiQueue \in Seq(Event) /\ VerdictsOnce
    BY OnePlace DEF SafetyInv, TypeInv, TypeOK, Places
  <1>q. Verdicts = {"finished", "exception"}
    BY DEF Verdicts
  <1>k. ASSUME UNCHANGED <<submitted, workQueue, active, guiQueue>> PROVE Moves
    BY <1>k, QuietVerdicts DEF Moves, Stays, QueuesStay
  <1>1. ASSUME NEW j \in Jobs, AddJob(j) PROVE Moves
    BY <1>1, QuietVerdicts DEF AddJob, Submit, Moves, Adds, Enqueued
  <1>2. ASSUME NEW j \in Jobs, CancelJob(j) PROVE Moves
    BY <1>2, <1>k DEF CancelJob, workerVars, guiVars
  <1>3. ASSUME NEW j \in Jobs, OnJobStarting(j) \/ OnJobProgress(j) PROVE Moves
    <2>1. VerdictsStay
      BY <1>3, <1>q, <1>t, ReceivedVerdicts DEF OnJobStarting, OnJobProgress
    <2> QED BY <1>3, <2>1 DEF OnJobStarting, OnJobProgress, workerVars, guiVars, Moves, Stays, QueuesStay
  <1>4. ASSUME NEW j \in Jobs, OnJobException(j) \/ OnFinishRaises(j) PROVE Moves
    <2>1. VerdictTaken(j)
      BY <1>4, <1>q, <1>t, ReceivedVerdicts DEF OnJobException, OnFinishRaises
    <2> QED BY <1>4, <2>1 DEF OnJobException, OnFinishRaises, workerVars, Moves, Settles, QueuesStay
  <1>5. ASSUME NEW j \in Jobs, OnJobFinished(j) PROVE Moves
    <2>1. VerdictTaken(j)
      BY <1>5, <1>q, <1>t, ReceivedVerdicts DEF OnJobFinished
    <2> QED BY <1>5, <2>1 DEF OnJobFinished, Moves, Settles, SettlesAndAdds, QueuesStay, Enqueued
  <1>6. ASSUME NEW j \in Jobs, OnCall(j) PROVE Moves
    <2>1. VerdictsStay
      BY <1>6, <1>q, <1>t, ReceivedVerdicts DEF OnCall
    <2> QED BY <1>6, <2>1 DEF OnCall, Submit, Moves, Stays, Adds, QueuesStay, Enqueued
  <1>7. CASE InterruptCurrentJob \/ JoinAllJobs \/ JoinReturns \/ Quit \/ QuitReturns
    BY <1>7, <1>k DEF InterruptCurrentJob, JoinAllJobs, JoinReturns, Quit, QuitReturns,
       workerVars, guiVars
  <1> QED BY <1>1, <1>2, <1>3, <1>4, <1>5, <1>6, <1>7 DEF GuiStep, Handler

\* Every step moves the jobs in one of these ways.
LEMMA EveryMove == SafetyInv /\ [Next]_vars => Moves
  <1>1. UNCHANGED vars => Moves
    BY QuietVerdicts DEF Moves, Stays, QueuesStay, vars
  <1> QED BY <1>1, WorkerMoves, GuiMoves DEF Next

-----------------------------------------------------------------------------
(***************************************************************************)
(* The inductive invariant behind the refinement: jobs wait in the order   *)
(* they were submitted, none waits or runs while a later one is past that, *)
(* and their verdicts are queued in that order.                            *)
(***************************************************************************)
Before(j, k) == Precedes(submitted, j, k)

SubmittedOnce   == Injective(submitted)
WorkInOrder     == \A j, k \in Jobs : Precedes(workQueue, j, k) => Before(j, k)
VerdictsInOrder == \A j, k \in Jobs : VerdictPrecedes(j, k) => Before(j, k)
NoOvertaking    == \A j, k \in Jobs :
    Before(j, k) /\ (j \in Waiting \/ active = j) => k \in Waiting

OrderInv == SubmittedOnce /\ WorkInOrder /\ VerdictsInOrder /\ NoOvertaking

\* What the invariants say about any two jobs, in terms of their places.
LEMMA OrderFacts ==
    ASSUME SafetyInv, OrderInv
    PROVE  /\ Waiting \subseteq Submitted /\ Submitted \subseteq Jobs
           /\ active # NoJob => active \in Submitted
           /\ \A j \in Jobs : VerdictQueued(j) => j \in Submitted
           /\ \A j \in Waiting : active # j /\ ~VerdictQueued(j)
           /\ active # NoJob => ~VerdictQueued(active)
           /\ \A j, k \in Jobs : ~(Before(j, k) /\ Before(k, j))
           /\ \A j, k \in Submitted : j # k => Before(j, k) \/ Before(k, j)
           /\ \A j, k \in Jobs : Before(j, k) => j \in Submitted /\ k \in Submitted
  <1>1. Waiting \subseteq Jobs /\ Submitted \subseteq Jobs /\ active \in Jobs \cup {NoJob}
    BY WaitingAreJobs DEF SafetyInv, TypeInv, TypeOK
  <1>2. \A j \in Jobs : InPipeline(j) => j \in Submitted
    BY DEF SafetyInv, Places, PipelineIsListed, JobsSubmitted
  <1>3. \A j, k : /\ ~(Before(j, k) /\ Before(k, j))
                  /\ j \in Submitted /\ k \in Submitted /\ j # k => Before(j, k) \/ Before(k, j)
                  /\ Before(j, k) => j \in Submitted /\ k \in Submitted
    BY PrecedesIsOrder, WaitingIsElements DEF OrderInv, SubmittedOnce, Before
  <1>4. /\ \A j \in Waiting : active # j /\ ~VerdictQueued(j)
        /\ active # NoJob => ~VerdictQueued(active)
    BY OnePlace DEF SafetyInv, Places
  <1> QED BY <1>1, <1>2, <1>3, <1>4 DEF InPipeline

\* What a new job does to the queues.
LEMMA EnqueuedQueues ==
    ASSUME TypeOK, NEW k \in Jobs, Enqueued(k)
    PROVE  /\ Submitted' = Submitted \cup {k} /\ Waiting' = Waiting \cup {k}
           /\ SubmittedOnce => SubmittedOnce'
           /\ \A i, j : Before(i, j)' <=> Before(i, j) \/ (i \in Submitted /\ j = k)
           /\ \A i, j : Precedes(workQueue, i, j)' <=>
                  Precedes(workQueue, i, j) \/ (i \in Waiting /\ j = k)
  <1>1. submitted \in Seq(Jobs) /\ workQueue \in Seq(Jobs)
    BY DEF TypeOK
  <1> QED BY <1>1, ElementsOfAppend, PrecedesAfterAppend, WaitingIsElements
       DEF Enqueued, SubmittedOnce, Before

\* What taking the head of the work queue does to it.
LEMMA TakenQueues ==
    ASSUME TypeOK, Takes, Injective(workQueue)
    PROVE  /\ Submitted' = Submitted /\ Head(workQueue) \in Waiting
           /\ Waiting' = Waiting \ {Head(workQueue)}
           /\ \A i, j : Precedes(workQueue, i, j)' => Precedes(workQueue, i, j)
           /\ \A j \in Waiting : j # Head(workQueue) => Precedes(workQueue, Head(workQueue), j)
           /\ \A i, j : Before(i, j)' <=> Before(i, j)
  <1>1. workQueue \in Seq(Jobs) /\ workQueue # <<>> /\ workQueue' = Tail(workQueue)
    BY DEF TypeOK, Takes
  <1>2. /\ Waiting = Waiting' \cup {Head(workQueue)} /\ Head(workQueue) \notin Waiting'
        /\ Submitted' = Submitted
    BY <1>1, ElementsOfTail, WaitingIsElements DEF Takes
  <1>3. \A i, j : /\ Precedes(workQueue, i, j)' => Precedes(workQueue, i, j)
                  /\ j \in Waiting /\ j # Head(workQueue) =>
                         Precedes(workQueue, Head(workQueue), j)
    BY <1>1, PrecedesAfterTake, WaitingIsElements
  <1>4. \A i, j : Before(i, j)' <=> Before(i, j)
    BY DEF Takes, Before
  <1> QED BY <1>2, <1>3, <1>4

\* Queues that stay.
LEMMA StillQueues ==
    ASSUME QueuesStay
    PROVE  /\ Submitted' = Submitted /\ Waiting' = Waiting
           /\ SubmittedOnce => SubmittedOnce'
           /\ \A i, j : Before(i, j)' <=> Before(i, j)
           /\ \A i, j : Precedes(workQueue, i, j)' <=> Precedes(workQueue, i, j)
  BY DEF QueuesStay, Submitted, Waiting, SubmittedOnce, Before

LEMMA MoveKeepsOrder == SafetyInv /\ OrderInv /\ Moves => OrderInv'
  <1> SUFFICES ASSUME SafetyInv, OrderInv, Moves PROVE OrderInv'
    OBVIOUS
  <1>t. TypeOK /\ Injective(workQueue)
    BY OnePlace DEF SafetyInv, TypeInv, Places
  <1>o. /\ SubmittedOnce
        /\ \A j, k \in Jobs : Precedes(workQueue, j, k) => Before(j, k)
        /\ \A j, k \in Jobs : VerdictPrecedes(j, k) => Before(j, k)
        /\ \A j, k \in Jobs : Before(j, k) /\ (j \in Waiting \/ active = j) => k \in Waiting
    BY DEF OrderInv, WorkInOrder, VerdictsInOrder, NoOvertaking
  <1>g. ASSUME SubmittedOnce',
               \A j, k \in Jobs : Precedes(workQueue, j, k)' => Before(j, k)',
               \A j, k \in Jobs : VerdictPrecedes(j, k)' => Before(j, k)',
               \A j, k \in Jobs : Before(j, k)' /\ (j \in Waiting' \/ active' = j) => k \in Waiting'
        PROVE  OrderInv'
    BY <1>g DEF OrderInv, WorkInOrder, VerdictsInOrder, NoOvertaking
  <1>1. CASE Stays
    BY <1>1, <1>g, <1>o, StillQueues DEF Stays, VerdictsStay
  <1>2. CASE Takes
    <2> DEFINE h == Head(workQueue)
    <2>q. /\ Submitted' = Submitted /\ h \in Waiting /\ Waiting' = Waiting \ {h}
          /\ \A i, j : Precedes(workQueue, i, j)' => Precedes(workQueue, i, j)
          /\ \A j \in Waiting : j # h => Precedes(workQueue, h, j)
          /\ \A i, j : Before(i, j)' <=> Before(i, j)
          /\ active = NoJob /\ active' \in {NoJob, h} /\ h \in Jobs
      BY <1>2, <1>t, TakenQueues, WaitingAreJobs DEF Takes
    <2> HIDE DEF h
    <2>1. ASSUME NEW j \in Jobs, NEW k \in Jobs, Before(j, k), j \in Waiting' \/ active' = j
          PROVE  k \in Waiting'
      <3>1. j \in Waiting
        BY <2>1, <2>q, JobsAssumption
      <3>2. k \in Waiting
        BY <1>o, <2>1, <3>1
      <3>3. j # h => Before(h, j)
        BY <1>o, <2>q, <3>1
      <3>4. ~Before(k, j) /\ j # k
        BY <2>1, OrderFacts
      <3> QED BY <2>q, <3>2, <3>3, <3>4
    <2>2. SubmittedOnce'
      BY <1>2, <1>o DEF Takes, SubmittedOnce
    <2> QED BY <1>2, <1>g, <1>o, <2>1, <2>2, <2>q DEF Takes, VerdictsStay
  <1>3. CASE Ends
    <2>1. ASSUME NEW j \in Jobs, VerdictQueued(j) PROVE Before(j, active)
      <3>1. j # active /\ j \notin Waiting /\ j \in Submitted /\ active \in Submitted
        BY <1>3, <2>1, OrderFacts, JobsAssumption DEF Ends
      <3>2. ~Before(active, j)
        BY <1>3, <1>o, <3>1 DEF Ends
      <3> QED BY <3>1, <3>2, OrderFacts
    <2>2. ASSUME NEW j \in Jobs, NEW k \in Jobs, VerdictPrecedes(j, k)' PROVE Before(j, k)
      BY <1>3, <1>o, <2>1, <2>2 DEF Ends, VerdictPosted
    <2> QED BY <1>3, <1>g, <1>o, <2>2, StillQueues, JobsAssumption DEF Ends
  <1>a. ASSUME NEW k \in Jobs, Enqueued(k), active' = active,
               \A i, j \in Jobs : VerdictPrecedes(i, j)' => VerdictPrecedes(i, j)
        PROVE  OrderInv'
    <2>1. /\ Submitted' = Submitted \cup {k} /\ Waiting' = Waiting \cup {k}
          /\ SubmittedOnce'
          /\ \A i, j : Before(i, j)' <=> Before(i, j) \/ (i \in Submitted /\ j = k)
          /\ \A i, j : Precedes(workQueue, i, j)' <=>
                 Precedes(workQueue, i, j) \/ (i \in Waiting /\ j = k)
      BY <1>a, <1>o, <1>t, EnqueuedQueues
    <2>2. /\ Waiting \subseteq Submitted /\ k \notin Submitted
          /\ active # NoJob => active \in Submitted
          /\ \A i, j \in Jobs : Before(i, j) => i \in Submitted /\ j \in Submitted
      BY <1>a, OrderFacts DEF Enqueued
    <2>3. ASSUME NEW i \in Jobs, NEW j \in Jobs, Before(i, j)', i \in Waiting' \/ active' = i
          PROVE  j \in Waiting'
      <3>1. CASE j = k
        BY <2>1, <3>1
      <3>2. CASE Before(i, j)
        <4>1. i \in Submitted
          BY <2>2, <3>2
        <4>2. i \in Waiting \/ active = i
          BY <1>a, <2>1, <2>2, <2>3, <4>1
        <4> QED BY <1>o, <2>1, <3>2, <4>2
      <3> QED BY <2>1, <2>3, <3>1, <3>2
    <2>4. \A i, j \in Jobs : Precedes(workQueue, i, j)' => Before(i, j)'
      BY <1>o, <2>1, <2>2
    <2>5. \A i, j \in Jobs : VerdictPrecedes(i, j)' => Before(i, j)'
      BY <1>a, <1>o, <2>1
    <2> QED BY <1>g, <2>1, <2>3, <2>4, <2>5
  <1>4. ASSUME NEW k \in Jobs, Adds(k) PROVE OrderInv'
    BY <1>4, <1>a DEF Adds, VerdictsStay
  <1>5. ASSUME NEW v \in Jobs, Settles(v) PROVE OrderInv'
    BY <1>5, <1>g, <1>o, StillQueues DEF Settles, VerdictTaken
  <1>6. ASSUME NEW v \in Jobs, NEW k \in Jobs, SettlesAndAdds(v, k) PROVE OrderInv'
    BY <1>6, <1>a DEF SettlesAndAdds, VerdictTaken
  <1> QED BY <1>1, <1>2, <1>3, <1>4, <1>5, <1>6 DEF Moves

LEMMA InitOrder == Init => OrderInv
  BY DEF Init, OrderInv, SubmittedOnce, Injective, WorkInOrder, VerdictsInOrder,
     VerdictPrecedes, NoOvertaking, Before, Precedes

LEMMA SpecOrder == Spec => [](SafetyInv /\ OrderInv)
  <1>1. SafetyInv /\ OrderInv /\ [Next]_vars => OrderInv'
    BY EveryMove, MoveKeepsOrder
  <1> QED BY InitOrder, SpecSafety, <1>1, PTL DEF Spec

-----------------------------------------------------------------------------
(***************************************************************************)
(* The stages of JobQueue in terms of the places of a job.                 *)
(***************************************************************************)
\* The stage of every job is told by the queue, the worker or the signal that
\* holds it.
StagesMatch ==
    \A j \in Jobs :
        /\ j \notin Submitted => Stage(j) = "new"
        /\ j \in Waiting => Stage(j) = "waiting"
        /\ active = j => Stage(j) = "active"
        /\ VerdictQueued(j) => Stage(j) = "ended"
        /\ j \in Submitted /\ ~InPipeline(j) => Stage(j) = "done"

\* The conditions of Stage exclude one another in every reachable state.
LEMMA StageIs == SafetyInv /\ OrderInv => StagesMatch
  <1> SUFFICES ASSUME SafetyInv, OrderInv, NEW j \in Jobs
               PROVE  /\ j \notin Submitted => Stage(j) = "new"
                      /\ j \in Waiting => Stage(j) = "waiting"
                      /\ active = j => Stage(j) = "active"
                      /\ VerdictQueued(j) => Stage(j) = "ended"
                      /\ j \in Submitted /\ ~InPipeline(j) => Stage(j) = "done"
    BY DEF StagesMatch
  <1>1. /\ Waiting \subseteq Submitted
        /\ active = j => j \in Submitted
        /\ VerdictQueued(j) => j \in Submitted
        /\ j \in Waiting => active # j /\ ~VerdictQueued(j)
        /\ active = j => ~VerdictQueued(j)
    BY OrderFacts, JobsAssumption
  <1> QED BY <1>1 DEF Stage, InPipeline

RefinementInv == SafetyInv /\ OrderInv /\ StagesMatch

LEMMA SpecRefinementInv == Spec => []RefinementInv
  BY SpecOrder, StageIs, PTL DEF RefinementInv

\* A job whose place stays keeps its stage.
LEMMA SamePlaceSameStage ==
    ASSUME RefinementInv, RefinementInv', NEW j \in Jobs,
           j \in Submitted' <=> j \in Submitted,
           j \in Waiting' <=> j \in Waiting,
           active' = j <=> active = j,
           VerdictQueued(j)' <=> VerdictQueued(j)
    PROVE  Stage(j)' = Stage(j)
  BY DEF RefinementInv, StagesMatch, InPipeline

\* The first of the jobs not past some stages has only jobs past them before it.
LEMMA EarlierIsBefore ==
    ASSUME RefinementInv, NEW i \in 1..Len(submitted), NEW stages,
           \A j \in Jobs : Before(j, submitted[i]) => Stage(j) \notin stages
    PROVE  Abstract!Earlier(i, stages)
  <1> SUFFICES ASSUME NEW k \in 1..(i - 1)
               PROVE  [j \in Jobs |-> Stage(j)][submitted[k]] \notin stages
    BY DEF Abstract!Earlier
  <1>1. submitted \in Seq(Jobs) /\ Len(submitted) \in Nat
    BY LenProperties DEF RefinementInv, SafetyInv, TypeInv, TypeOK
  <1>2. k \in 1..Len(submitted) /\ k < i
    BY <1>1
  <1>3. submitted[k] \in Jobs
    BY <1>1, <1>2, ElementOfSeq
  <1>4. Before(submitted[k], submitted[i])
    BY <1>2 DEF Before, Precedes
  <1> QED BY <1>3, <1>4

\* A step that moves one job to another stage.
LEMMA OneStageChanges ==
    ASSUME NEW x \in Jobs, NEW s, Stage(x)' = s,
           \A j \in Jobs \ {x} : Stage(j)' = Stage(j)
    PROVE  [j \in Jobs |-> Stage(j)]' = [[j \in Jobs |-> Stage(j)] EXCEPT ![x] = s]
  OBVIOUS

-----------------------------------------------------------------------------
(***************************************************************************)
(* One lemma for each way a step moves the jobs.                           *)
(***************************************************************************)
LEMMA StaysIsStutter ==
    ASSUME RefinementInv, RefinementInv', Stays PROVE UNCHANGED Abstract!vars
  <1>1. \A j \in Jobs : Stage(j)' = Stage(j)
    BY SamePlaceSameStage, StillQueues DEF Stays, VerdictsStay
  <1> QED BY <1>1 DEF Stays, QueuesStay, Abstract!vars

LEMMA AddsIsSubmit ==
    ASSUME RefinementInv, RefinementInv', NEW k \in Jobs, Adds(k) PROVE Abstract!Submit(k)
  <1>1. /\ Submitted' = Submitted \cup {k} /\ Waiting' = Waiting \cup {k}
        /\ k \notin Submitted /\ active' = active
        /\ \A j \in Jobs : VerdictQueued(j)' <=> VerdictQueued(j)
    BY EnqueuedQueues DEF Adds, Enqueued, VerdictsStay, RefinementInv, SafetyInv, TypeInv
  <1>2. Stage(k) = "new" /\ Stage(k)' = "waiting"
    BY <1>1 DEF RefinementInv, StagesMatch
  <1>3. \A j \in Jobs \ {k} : Stage(j)' = Stage(j)
    BY <1>1, SamePlaceSameStage
  <1> QED BY <1>2, <1>3, OneStageChanges DEF Adds, Enqueued, Abstract!Submit

\* The job the worker takes, or drops, is the first of those that wait.
LEMMA TakesIsBeginOrDrop ==
    ASSUME RefinementInv, RefinementInv', Takes
    PROVE  \E i \in 1..Len(submitted) : Abstract!Begin(i) \/ Abstract!Drop(i)
  <1>t. TypeOK /\ Injective(workQueue) /\ SafetyInv /\ OrderInv
    BY OnePlace DEF RefinementInv, SafetyInv, TypeInv, Places
  <1>h. PICK h \in Jobs : h = Head(workQueue)
    BY <1>t, TakeFromQueue DEF Takes, TypeOK
  <1>q. /\ Submitted' = Submitted /\ h \in Waiting /\ Waiting' = Waiting \ {h}
        /\ \A j \in Waiting : j # h => Precedes(workQueue, h, j)
        /\ active = NoJob /\ active' \in {NoJob, h} /\ submitted' = submitted
        /\ \A j \in Jobs : VerdictQueued(j)' <=> VerdictQueued(j)
    BY <1>h, <1>t, TakenQueues DEF Takes, VerdictsStay
  <1>1. h \in Submitted /\ h \in Jobs /\ ~VerdictQueued(h)
    BY <1>q, <1>t, OrderFacts
  <1>2. PICK i \in 1..Len(submitted) : submitted[i] = h
    BY <1>1 DEF Submitted
  <1>3. ASSUME NEW j \in Jobs, Before(j, h) PROVE Stage(j) \notin {"waiting", "active"}
    <2>1. j \notin Waiting
      <3>1. j \in Waiting => Before(h, j) \/ j = h
        BY <1>1, <1>q, <1>t DEF OrderInv, WorkInOrder
      <3> QED BY <1>1, <1>3, <1>t, <3>1, OrderFacts
    <2>2. j \in Submitted /\ active # j
      BY <1>1, <1>3, <1>q, <1>t, OrderFacts, JobsAssumption
    <2>3. Stage(j) \in {"ended", "done"}
      BY <2>1, <2>2 DEF RefinementInv, StagesMatch, InPipeline
    <2> QED BY <2>3
  <1>4. Abstract!Earlier(i, {"waiting", "active"})
    BY <1>2, <1>3, EarlierIsBefore
  <1>5. Stage(h) = "waiting"
    BY <1>1, <1>q DEF RefinementInv, StagesMatch
  <1>6. \A j \in Jobs \ {h} : Stage(j)' = Stage(j)
    BY <1>q, SamePlaceSameStage, JobsAssumption
  <1>7. CASE active' = h
    <2>1. Stage(h)' = "active"
      BY <1>1, <1>7 DEF RefinementInv, StagesMatch
    <2>2. Abstract!Move(i, "waiting", "active")
      BY <1>1, <1>2, <1>5, <1>6, <1>q, <2>1, OneStageChanges DEF Abstract!Move
    <2> QED BY <1>4, <2>2 DEF Abstract!Begin
  <1>8. CASE active' = NoJob
    <2>1. Stage(h)' = "done"
      BY <1>1, <1>8, <1>q, JobsAssumption DEF RefinementInv, StagesMatch, InPipeline
    <2>2. Abstract!Move(i, "waiting", "done")
      BY <1>1, <1>2, <1>5, <1>6, <1>q, <2>1, OneStageChanges DEF Abstract!Move
    <2> QED BY <1>4, <2>2 DEF Abstract!Drop
  <1> QED BY <1>7, <1>8, <1>q

LEMMA EndsIsEnd ==
    ASSUME RefinementInv, RefinementInv', Ends
    PROVE  \E i \in 1..Len(submitted) : Abstract!End(i)
  <1>1. /\ Submitted' = Submitted /\ Waiting' = Waiting /\ submitted' = submitted
        /\ active \in Jobs /\ active' = NoJob
        /\ \A j \in Jobs : VerdictQueued(j)' <=> VerdictQueued(j) \/ j = active
    BY StillQueues DEF Ends, VerdictPosted, QueuesStay
  <1>2. active \in Submitted
    BY <1>1, OrderFacts, JobsAssumption DEF RefinementInv
  <1>3. PICK i \in 1..Len(submitted) : submitted[i] = active
    BY <1>2 DEF Submitted
  <1>4. PICK x \in Jobs : x = active
    BY <1>1
  <1>5. Stage(x) = "active" /\ Stage(x)' = "ended"
    BY <1>1, <1>4 DEF RefinementInv, StagesMatch
  <1>6. \A j \in Jobs \ {x} : Stage(j)' = Stage(j)
    BY <1>1, <1>4, SamePlaceSameStage, JobsAssumption
  <1>7. Abstract!Move(i, "active", "ended")
    BY <1>1, <1>3, <1>4, <1>5, <1>6, OneStageChanges DEF Abstract!Move
  <1> QED BY <1>7 DEF Abstract!End

\* The verdict handled is the one on the first job not reported yet.
LEMMA TakenVerdictIsFirst ==
    ASSUME RefinementInv, RefinementInv', NEW v \in Jobs, VerdictTaken(v), active' = active,
           v \in Waiting' => v \in Waiting, Submitted \subseteq Submitted'
    PROVE  /\ Stage(v) = "ended" /\ Stage(v)' = "done"
           /\ \E i \in 1..Len(submitted) :
                 /\ submitted[i] = v
                 /\ Abstract!Earlier(i, {"waiting", "active", "ended"})
  <1>t. SafetyInv /\ OrderInv
    BY DEF RefinementInv
  <1>1. VerdictQueued(v) /\ ~VerdictQueued(v)' /\ v \in Submitted /\ v \notin Waiting /\ active # v
    BY <1>t, OrderFacts, JobsAssumption DEF VerdictTaken
  <1>2. Stage(v) = "ended" /\ Stage(v)' = "done"
    BY <1>1 DEF RefinementInv, StagesMatch, InPipeline
  <1>3. PICK i \in 1..Len(submitted) : submitted[i] = v
    BY <1>1 DEF Submitted
  <1>4. ASSUME NEW j \in Jobs, Before(j, v) PROVE Stage(j) \notin {"waiting", "active", "ended"}
    <2>1. j \notin Waiting /\ active # j
      BY <1>1, <1>4, <1>t DEF OrderInv, NoOvertaking
    <2>2. j \in Submitted /\ j # v /\ ~Before(v, j)
      BY <1>4, <1>t, OrderFacts
    <2>3. ~VerdictQueued(j)
      BY <1>t, <2>2 DEF VerdictTaken, OrderInv, VerdictsInOrder
    <2>4. Stage(j) = "done"
      BY <2>1, <2>2, <2>3 DEF RefinementInv, StagesMatch, InPipeline
    <2> QED BY <2>4
  <1>5. Abstract!Earlier(i, {"waiting", "active", "ended"})
    BY <1>3, <1>4, EarlierIsBefore
  <1> QED BY <1>2, <1>3, <1>5

LEMMA SettlesIsReport ==
    ASSUME RefinementInv, RefinementInv', NEW v \in Jobs, Settles(v)
    PROVE  \E i \in 1..Len(submitted) : Abstract!Report(i)
  <1>1. /\ Submitted' = Submitted /\ Waiting' = Waiting /\ submitted' = submitted
        /\ active' = active /\ VerdictTaken(v)
    BY StillQueues DEF Settles, QueuesStay
  <1>2. Stage(v) = "ended" /\ Stage(v)' = "done"
    BY <1>1, TakenVerdictIsFirst
  <1>3. PICK i \in 1..Len(submitted) :
            submitted[i] = v /\ Abstract!Earlier(i, {"waiting", "active", "ended"})
    BY <1>1, TakenVerdictIsFirst
  <1>4. \A j \in Jobs \ {v} : Stage(j)' = Stage(j)
    BY <1>1, SamePlaceSameStage DEF VerdictTaken
  <1>5. Abstract!Move(i, "ended", "done")
    BY <1>1, <1>2, <1>3, <1>4, OneStageChanges DEF Abstract!Move
  <1> QED BY <1>3, <1>5 DEF Abstract!Report

LEMMA SettlesAndAddsIsReportAndSubmit ==
    ASSUME RefinementInv, RefinementInv', NEW v \in Jobs, NEW k \in Jobs, SettlesAndAdds(v, k)
    PROVE  \E i \in 1..Len(submitted) : Abstract!ReportAndSubmit(i, k)
  <1>t. SafetyInv /\ OrderInv /\ TypeOK
    BY DEF RefinementInv, SafetyInv, TypeInv
  <1>1. /\ Submitted' = Submitted \cup {k} /\ Waiting' = Waiting \cup {k}
        /\ submitted' = Append(submitted, k) /\ k \notin Submitted
        /\ active' = active /\ VerdictTaken(v)
    BY <1>t, EnqueuedQueues DEF SettlesAndAdds, Enqueued
  <1>2. v # k
    BY <1>1, <1>t, OrderFacts DEF VerdictTaken
  <1>3. Stage(v) = "ended" /\ Stage(v)' = "done"
    BY <1>1, <1>2, TakenVerdictIsFirst
  <1>4. PICK i \in 1..Len(submitted) :
            submitted[i] = v /\ Abstract!Earlier(i, {"waiting", "active", "ended"})
    BY <1>1, <1>2, TakenVerdictIsFirst
  <1>5. Stage(k) = "new" /\ Stage(k)' = "waiting"
    BY <1>1 DEF RefinementInv, StagesMatch
  <1>6. \A j \in Jobs \ {v, k} : Stage(j)' = Stage(j)
    BY <1>1, SamePlaceSameStage DEF VerdictTaken
  <1>7. [j \in Jobs |-> Stage(j)]' =
            [[j \in Jobs |-> Stage(j)] EXCEPT ![v] = "done", ![k] = "waiting"]
    BY <1>2, <1>3, <1>5, <1>6
  <1> QED BY <1>1, <1>3, <1>4, <1>5, <1>7 DEF Abstract!ReportAndSubmit

LEMMA StepIsQueueStep ==
    RefinementInv /\ RefinementInv' /\ [Next]_vars => [Abstract!Next]_(Abstract!vars)
  <1> SUFFICES ASSUME RefinementInv, RefinementInv', [Next]_vars
               PROVE  [Abstract!Next]_(Abstract!vars)
    OBVIOUS
  <1>1. Moves
    BY EveryMove DEF RefinementInv
  <1>2. CASE Stays
    BY <1>2, StaysIsStutter
  <1>3. ASSUME NEW k \in Jobs, Adds(k) PROVE Abstract!Next
    BY <1>3, AddsIsSubmit DEF Abstract!Next
  <1>4. CASE Takes
    BY <1>4, TakesIsBeginOrDrop DEF Abstract!Next
  <1>5. CASE Ends
    BY <1>5, EndsIsEnd DEF Abstract!Next
  <1>6. ASSUME NEW v \in Jobs, Settles(v) PROVE Abstract!Next
    BY <1>6, SettlesIsReport DEF Abstract!Next
  <1>7. ASSUME NEW v \in Jobs, NEW k \in Jobs, SettlesAndAdds(v, k) PROVE Abstract!Next
    BY <1>7, SettlesAndAddsIsReportAndSubmit DEF Abstract!Next
  <1> QED BY <1>1, <1>2, <1>3, <1>4, <1>5, <1>6, <1>7 DEF Moves

LEMMA InitIsQueueInit == Init => Abstract!Init
  <1> SUFFICES ASSUME Init PROVE Abstract!Init
    OBVIOUS
  <1>1. SafetyInv /\ OrderInv /\ submitted = <<>>
    BY InitSafety, InitOrder DEF Init
  <1>2. Submitted = {}
    BY <1>1 DEF Submitted
  <1>3. \A j \in Jobs : Stage(j) = "new"
    BY <1>1, <1>2, StageIs DEF StagesMatch
  <1> QED BY <1>1, <1>3 DEF Abstract!Init

\* Whatever the threads, the cancellations and the errors do, the jobs are run in
\* the order they were submitted, one at a time, each at most once, and the ends
\* of the runs are reported in that order.
THEOREM ManagerImplementsQueue == Spec => ImplementsJobQueue
  BY InitIsQueueInit, StepIsQueueStep, SpecRefinementInv, PTL
  DEF Spec, ImplementsJobQueue, Abstract!Spec

-----------------------------------------------------------------------------
(***************************************************************************)
(* What the user sees of the jobs, in JobsView.  The status bar is busy    *)
(* after a progress signal, so it must be known that such a signal never   *)
(* comes when no job is current: each one is preceded by a job_starting,   *)
(* handled or still queued, with no verdict in between.                    *)
(***************************************************************************)
VerdictAt(q, i) == q[i].kind \in Verdicts

\* Once the first i - 1 signals are handled there is a current job.
CurrentAt(i) ==
    \/ currentJob # NoJob /\ \A m \in 1..Len(guiQueue) : m < i => ~VerdictAt(guiQueue, m)
    \/ \E k \in 1..Len(guiQueue) :
          /\ k < i /\ guiQueue[k].kind = "starting"
          /\ \A m \in 1..Len(guiQueue) : k < m /\ m < i => ~VerdictAt(guiQueue, m)

ProgressHasJob ==
    \A i \in 1..Len(guiQueue) : guiQueue[i].kind = "progressed" => CurrentAt(i)

\* Every job that was ever added has a row.
RowStates == {"none", "PENDING", "RUNNING", "CANCELLED", "FINISHED"}
RowsThere == row \in [Jobs -> RowStates] /\ \A j \in Submitted : row[j] # "none"

SeenInv == SafetyInv /\ CurrentInv /\ ProgressHasJob /\ RowsThere /\ WidgetsFollowManager

\* What a step may do to the queue of signals and the current job.
NothingHandled == UNCHANGED <<guiQueue, currentJob>>
Posted(kind, j) ==
    /\ guiQueue' = Append(guiQueue, Ev(kind, j)) /\ currentJob' = currentJob
    /\ kind = "progressed" => pc \in InJob
Handled(kind, j) ==
    /\ Receive(kind, j)
    /\ kind = "starting" => currentJob' = j
    /\ kind \notin {"starting"} \cup Verdicts => currentJob' = currentJob
QueueStep ==
    NothingHandled \/ \E kind \in Kinds, j \in Jobs : Posted(kind, j) \/ Handled(kind, j)

LEMMA WorkerQueueStep == TypeInv /\ WorkerStep => QueueStep
  <1> SUFFICES ASSUME TypeInv, WorkerStep PROVE QueueStep
    OBVIOUS
  <1>1. pc \in InJob => active \in Jobs
    BY DEF TypeInv, TypeOK, WorkerHasJob
  <1>2. "starting" \in Kinds /\ "progressed" \in Kinds /\ "call" \in Kinds
        /\ "finished" \in Kinds /\ "exception" \in Kinds
    BY DEF Kinds, Verdicts
  <1>3. CASE StartJob
    <2>1. PICK h \in Jobs : h = Head(workQueue)
      BY <1>3, TakeFromQueue DEF StartJob, TypeInv, TypeOK
    <2>2. Posted("starting", h)
      BY <1>3, <2>1 DEF StartJob, Posted, guiVars
    <2> QED BY <1>2, <2>2 DEF QueueStep
  <1>4. CASE SkipJob \/ MarkRunning \/ RunReturns \/ CheckState \/ MarkFinished \/ WorkerExit
    BY <1>4 DEF SkipJob, MarkRunning, RunReturns, CheckState, MarkFinished, WorkerExit,
       guiVars, QueueStep, NothingHandled
  <1>5. CASE FirstProgress \/ ReportProgress \/ CallGui \/ RunRaises \/ LastProgress
             \/ EmitFinished
    <2>1. pc \in InJob /\ currentJob' = currentJob
      BY <1>5 DEF FirstProgress, ReportProgress, CallGui, RunRaises, LastProgress,
         EmitFinished, guiVars, InJob
    <2>2. guiQueue' = guiQueue \/ \E kind \in Kinds : Post(kind)
      BY <1>2, <1>5 DEF FirstProgress, ReportProgress, CallGui, RunRaises, LastProgress,
         EmitFinished, RaiseCancelled
    <2> QED BY <1>1, <2>1, <2>2 DEF QueueStep, NothingHandled, Posted, Post
  <1> QED BY <1>3, <1>4, <1>5 DEF WorkerStep

LEMMA GuiQueueStep == TypeInv /\ GuiStep => QueueStep
  <1> SUFFICES ASSUME TypeInv, GuiStep PROVE QueueStep
    OBVIOUS
  <1>1. "starting" \in Kinds /\ "progressed" \in Kinds /\ "call" \in Kinds
        /\ "finished" \in Kinds /\ "exception" \in Kinds
        /\ "finished" \in Verdicts /\ "exception" \in Verdicts
    BY DEF Kinds, Verdicts
  <1>2. ASSUME NEW j \in Jobs, AddJob(j) \/ CancelJob(j) PROVE QueueStep
    BY <1>2 DEF AddJob, CancelJob, guiVars, QueueStep, NothingHandled
  <1>3. ASSUME NEW j \in Jobs, Handler(j) PROVE QueueStep
    <2>1. \/ Handled("starting", j) \/ Handled("progressed", j) \/ Handled("exception", j)
          \/ Handled("finished", j) \/ Handled("call", j)
      BY <1>1, <1>3 DEF Handler, OnJobStarting, OnJobProgress, OnJobException, OnJobFinished,
         OnFinishRaises, OnCall, Handled, guiVars
    <2> QED BY <1>1, <2>1 DEF QueueStep
  <1>4. CASE InterruptCurrentJob \/ JoinAllJobs \/ JoinReturns \/ Quit \/ QuitReturns
    BY <1>4 DEF InterruptCurrentJob, JoinAllJobs, JoinReturns, Quit, QuitReturns, guiVars,
       QueueStep, NothingHandled
  <1> QED BY <1>2, <1>3, <1>4 DEF GuiStep

\* A progress signal is posted while the job runs, which CurrentInv speaks of.
LEMMA ProgressPosted ==
    ASSUME TypeOK, CurrentInv, WorkerHasJob, ProgressHasJob,
           NEW kind \in Kinds, NEW j \in Jobs, Posted(kind, j)
    PROVE  ProgressHasJob'
  <1> DEFINE n == Len(guiQueue)
  <1>1. Ev(kind, j) \in Event /\ Ev(kind, j).kind = kind
    BY EvIsEvent DEF Ev, Kinds
  <1>2. /\ n \in Nat /\ Len(guiQueue') = n + 1
        /\ \A i \in 1..n : guiQueue'[i] = guiQueue[i]
        /\ guiQueue'[n + 1].kind = kind
    BY <1>1, AppendToQueue, LenProperties DEF TypeOK, Posted
  <1>3. Len(guiQueue) = n
    OBVIOUS
  <1> HIDE DEF n
  <1>4. ASSUME NEW i \in 1..(n + 1), CurrentAt(i) PROVE CurrentAt(i)'
    <2>1. \A m \in 1..(n + 1) : m < i => m \in 1..n
      BY <1>2
    <2>2. \A m \in 1..(n + 1) : m < i => (VerdictAt(guiQueue', m) <=> VerdictAt(guiQueue, m))
      BY <1>2, <2>1 DEF VerdictAt
    <2>3. CASE currentJob # NoJob /\ \A m \in 1..n : m < i => ~VerdictAt(guiQueue, m)
      BY <1>2, <2>1, <2>2, <2>3 DEF CurrentAt, Posted
    <2>4. ASSUME NEW k \in 1..n, k < i, guiQueue[k].kind = "starting",
                 \A m \in 1..n : k < m /\ m < i => ~VerdictAt(guiQueue, m)
          PROVE  CurrentAt(i)'
      <3>1. k \in 1..(n + 1) /\ guiQueue'[k].kind = "starting"
        BY <1>2, <2>4
      <3> QED BY <1>2, <2>1, <2>2, <2>4, <3>1 DEF CurrentAt
    <2> QED BY <1>3, <1>4, <2>3, <2>4 DEF CurrentAt
  <1>5. kind = "progressed" => CurrentAt(n + 1)
    <2> SUFFICES ASSUME pc \in InJob PROVE CurrentAt(n + 1)
      BY DEF Posted
    <2>1. \A i \in 1..n : ~Writes(guiQueue, i) => ~VerdictAt(guiQueue, i)
      BY DEF Writes, VerdictAt
    <2>2. CASE currentJob = active /\ \A i \in 1..n : ~Writes(guiQueue, i)
      BY <1>3, <2>1, <2>2 DEF CurrentAt, WorkerHasJob
    <2>3. ASSUME NEW i \in 1..n, StartingIsLast(guiQueue, active, i) PROVE CurrentAt(n + 1)
      <3>1. guiQueue[i].kind = "starting" /\ i < n + 1
        BY <1>2, <2>3 DEF StartingIsLast, Ev
      <3>2. \A m \in 1..n : i < m => ~VerdictAt(guiQueue, m)
        BY <1>2, <1>3, <2>1, <2>3 DEF StartingIsLast
      <3> QED BY <1>3, <3>1, <3>2 DEF CurrentAt
    <2> QED BY <1>3, <2>2, <2>3 DEF CurrentInv
  <1>6. ASSUME NEW i \in 1..(n + 1), guiQueue'[i].kind = "progressed" PROVE CurrentAt(i)
    <2>1. i \in 1..n \/ i = n + 1
      BY <1>2
    <2> QED BY <1>2, <1>3, <1>5, <1>6, <2>1 DEF ProgressHasJob
  <1> QED BY <1>2, <1>4, <1>6 DEF ProgressHasJob

LEMMA ProgressReceived ==
    ASSUME TypeOK, ProgressHasJob, NEW kind \in Kinds, NEW j \in Jobs, Handled(kind, j)
    PROVE  /\ ProgressHasJob'
           /\ kind = "progressed" => currentJob # NoJob
  <1> DEFINE n == Len(guiQueue')
  <1>1. /\ n \in Nat /\ Len(guiQueue) = n + 1
        /\ \A i \in 1..n : guiQueue'[i] = guiQueue[i + 1]
        /\ guiQueue[1].kind = kind
    BY TakeFromQueue, LenProperties DEF Handled, Receive, TypeOK, Ev
  <1>2. Len(guiQueue') = n
    OBVIOUS
  <1> HIDE DEF n
  <1>3. 1 \in 1..(n + 1) /\ \A i \in 1..n : i + 1 \in 1..(n + 1)
    BY <1>1
  <1>4. \A i \in 1..n : VerdictAt(guiQueue', i) <=> VerdictAt(guiQueue, i + 1)
    BY <1>1 DEF VerdictAt
  <1>5. ASSUME NEW i \in 1..n, guiQueue'[i].kind = "progressed" PROVE CurrentAt(i)'
    <2>1. CurrentAt(i + 1)
      BY <1>1, <1>3, <1>5 DEF ProgressHasJob
    <2>2. CASE currentJob # NoJob /\ \A m \in 1..(n + 1) : m < i + 1 => ~VerdictAt(guiQueue, m)
      <3>1. kind \notin Verdicts /\ currentJob' # NoJob
        BY <1>1, <1>3, <2>2, JobsAssumption DEF VerdictAt, Handled
      <3>2. \A m \in 1..n : m < i => ~VerdictAt(guiQueue', m)
        BY <1>1, <1>3, <1>4, <2>2
      <3> QED BY <1>2, <3>1, <3>2 DEF CurrentAt
    <2>3. ASSUME NEW k \in 1..(n + 1), k < i + 1, guiQueue[k].kind = "starting",
                 \A m \in 1..(n + 1) : k < m /\ m < i + 1 => ~VerdictAt(guiQueue, m)
          PROVE  CurrentAt(i)'
      <3>1. \A m \in 1..n : k < m + 1 /\ m < i => ~VerdictAt(guiQueue', m)
        BY <1>1, <1>3, <1>4, <2>3
      <3>2. CASE k = 1
        <4>1. currentJob' # NoJob
          BY <1>1, <2>3, <3>2, JobsAssumption DEF Handled
        <4>2. \A m \in 1..n : m < i => ~VerdictAt(guiQueue', m)
          BY <1>1, <3>1, <3>2
        <4> QED BY <1>2, <4>1, <4>2 DEF CurrentAt
      <3>3. CASE k # 1
        <4>1. k - 1 \in 1..n /\ (k - 1) + 1 = k /\ k - 1 < i
          BY <1>1, <2>3, <3>3
        <4>2. guiQueue'[k - 1].kind = "starting"
          BY <1>1, <2>3, <4>1
        <4>3. \A m \in 1..n : k - 1 < m /\ m < i => ~VerdictAt(guiQueue', m)
          BY <1>1, <3>1, <4>1
        <4> QED BY <1>2, <4>1, <4>2, <4>3 DEF CurrentAt
      <3> QED BY <3>2, <3>3
    <2> QED BY <1>1, <2>1, <2>2, <2>3 DEF CurrentAt
  <1>6. ASSUME kind = "progressed" PROVE currentJob # NoJob
    <2>1. CurrentAt(1)
      BY <1>1, <1>3, <1>6 DEF ProgressHasJob
    <2>2. \A k \in 1..Len(guiQueue) : ~(k < 1)
      BY <1>1
    <2> QED BY <2>1, <2>2 DEF CurrentAt
  <1> QED BY <1>2, <1>5, <1>6 DEF ProgressHasJob

LEMMA ProgressStep == SafetyInv /\ CurrentInv /\ ProgressHasJob /\ [Next]_vars => ProgressHasJob'
  <1> SUFFICES ASSUME SafetyInv, CurrentInv, ProgressHasJob, [Next]_vars PROVE ProgressHasJob'
    OBVIOUS
  <1>1. TypeInv /\ TypeOK /\ WorkerHasJob
    BY DEF SafetyInv, TypeInv
  <1>2. QueueStep
    BY <1>1, WorkerQueueStep, GuiQueueStep DEF Next, vars, QueueStep, NothingHandled
  <1>3. CASE NothingHandled
    BY <1>3 DEF NothingHandled, ProgressHasJob, CurrentAt, VerdictAt
  <1>4. CASE \E kind \in Kinds, j \in Jobs : Posted(kind, j)
    BY <1>1, <1>4, ProgressPosted
  <1>5. CASE \E kind \in Kinds, j \in Jobs : Handled(kind, j)
    BY <1>1, <1>5, ProgressReceived
  <1> QED BY <1>2, <1>3, <1>4, <1>5 DEF QueueStep

\* Every step of the composition is a step of the manager.
LEMMA ViewStepIsStep == [ViewNext]_allVars => [Next]_vars
  BY DEF ViewNext, ViewAddJob, ViewCancelJob, ViewJobStarting, ViewJobProgress,
     ViewJobException, ViewJobFinished, ViewFinishRaises, ViewCall, ViewUnaffected,
     Next, GuiStep, Handler, allVars, vars, viewVars

LEMMA ViewImplementsManager == ViewSpec => Spec
  BY ViewStepIsStep, PTL DEF ViewSpec, ViewInit, Spec

\* The new rows are of jobs that had none, so they overwrite nothing.
LEMMA RowsAdded ==
    ASSUME RowsThere, submitted' \in Seq(Jobs), NEW r \in [Jobs -> RowStates],
           \A j \in Jobs : row[j] # "none" => r[j] # "none", row' = WithNewRows(r)
    PROVE  /\ RowsThere'
           /\ \A j \in Submitted : j \in Jobs => row'[j] = r[j]
  <1>1. /\ row' \in [Jobs -> RowStates]
        /\ \A j \in Jobs : row'[j] = IF j \in NewRows THEN "PENDING" ELSE r[j]
    BY DEF WithNewRows, RowStates
  <1>2. NewRows \cap Submitted = {}
    BY DEF NewRows, RowsThere
  <1>3. \A j \in Submitted' : j \in Jobs /\ (row[j] = "none" => j \in NewRows)
    <2>1. \A i \in 1..Len(submitted') : submitted'[i] \in Jobs
      BY ElementOfSeq
    <2> QED BY <2>1 DEF Submitted, NewRows
  <1>4. ASSUME NEW j \in Submitted' PROVE row'[j] # "none"
    <2>1. CASE j \in NewRows
      BY <1>1, <1>3, <2>1
    <2>2. CASE j \notin NewRows
      BY <1>1, <1>3, <2>2
    <2> QED BY <2>1, <2>2
  <1> QED BY <1>1, <1>2, <1>4 DEF RowsThere

\* A step that lets no job out of the list of the manager: it may add jobs, and
\* their rows, or change states.
LEMMA RowsKept ==
    ASSUME SeenInv, [Next]_vars, RowsThere', Submitted' \ jobs' \subseteq Submitted \ jobs,
           \A j \in Submitted : row'[j] = row[j] \/ row'[j] = jobState[j],
           busy' <=> currentJob' # NoJob
    PROVE  WidgetsFollowManager'
  <1> SUFFICES ASSUME NEW j \in Submitted \ jobs, jobState'[j] = "FINISHED"
               PROVE  row'[j] = "FINISHED"
    BY DEF WidgetsFollowManager
  <1>1. TypeInv /\ TypeOK /\ j \in Jobs
    BY WaitingAreJobs DEF SeenInv, SafetyInv, TypeInv
  <1>2. active # j
    BY <1>1 DEF SeenInv, SafetyInv, Places, PipelineIsListed, InPipeline
  <1>3. jobState[j] = "FINISHED"
    <2>1. StateStep
      BY <1>1, EveryStateStep
    <2> QED BY <1>1, <1>2, <2>1 DEF StateStep, TypeOK
  <1> QED BY <1>3 DEF SeenInv, WidgetsFollowManager

\* The manager is done with job j, whose row is painted from its state.
LEMMA RowsSettled ==
    ASSUME SeenInv, NEW j \in Jobs, UNCHANGED jobState, RowsThere',
           Submitted' \ jobs' \subseteq (Submitted \ jobs) \cup {j},
           \A k \in Submitted \ {j} : row'[k] = row[k],
           jobState[j] = "FINISHED" => row'[j] = "FINISHED",
           busy' <=> currentJob' # NoJob
    PROVE  WidgetsFollowManager'
  BY DEF SeenInv, WidgetsFollowManager

\* change_job_state paints the row of one job, from its state.
LEMMA RowPainted ==
    ASSUME SeenInv, NEW j \in Jobs, submitted' \in Seq(Jobs), ChangeJobState(j)
    PROVE  /\ RowsThere' /\ (j \in Submitted => row'[j] = Painted(j, jobState[j]))
           /\ \A k \in Submitted \ {j} : row'[k] = row[k]
  <1> DEFINE r == [row EXCEPT ![j] = Painted(j, jobState[j])]
  <1>1. /\ Painted(j, jobState[j]) \in RowStates
        /\ row[j] # "none" => Painted(j, jobState[j]) # "none"
    BY DEF Painted, SeenInv, RowsThere, RowStates
  <1>2. /\ r \in [Jobs -> RowStates] /\ r[j] = Painted(j, jobState[j])
        /\ \A k \in Jobs \ {j} : r[k] = row[k]
        /\ \A k \in Jobs : row[k] # "none" => r[k] # "none"
    BY <1>1 DEF SeenInv, RowsThere
  <1>3. row' = WithNewRows(r)
    BY DEF ChangeJobState
  <1> HIDE DEF r
  <1>4. RowsThere' /\ \A k \in Submitted : k \in Jobs => row'[k] = r[k]
    BY <1>2, <1>3, RowsAdded DEF SeenInv
  <1>5. Submitted \subseteq Jobs
    BY WaitingAreJobs DEF SeenInv, SafetyInv, TypeInv
  <1> QED BY <1>2, <1>4, <1>5

\* The signal that is handled is about a job that was submitted.
LEMMA VerdictOfListed ==
    ASSUME SeenInv, NEW j \in Jobs, NEW kind \in Verdicts, Receive(kind, j)
    PROVE  j \in Submitted /\ j \in jobs
  BY AfterReceive DEF SeenInv, SafetyInv, TypeInv, TypeOK, Places, PipelineIsListed,
     JobsSubmitted, InPipeline

LEMMA SubmittedAfter ==
    ASSUME TypeOK, NEW k \in Jobs, submitted' = Append(submitted, k)
    PROVE  Submitted' = Submitted \cup {k}
  BY ElementsOfAppend, WaitingIsElements DEF TypeOK

LEMMA WidgetsStep == SeenInv /\ TypeOK' /\ [ViewNext]_allVars => RowsThere' /\ WidgetsFollowManager'
  <1> SUFFICES ASSUME SeenInv, TypeOK', [ViewNext]_allVars
               PROVE  RowsThere' /\ WidgetsFollowManager'
    OBVIOUS
  <1>1. /\ TypeOK /\ [Next]_vars /\ row \in [Jobs -> RowStates]
        /\ submitted' \in Seq(Jobs) /\ Submitted \subseteq Jobs /\ jobs \subseteq Submitted
        /\ busy <=> currentJob # NoJob
    BY ViewStepIsStep, WaitingAreJobs
       DEF SeenInv, SafetyInv, TypeInv, TypeOK, RowsThere, Places, JobsSubmitted,
           WidgetsFollowManager
  <1>2. UNCHANGED submitted => Submitted' = Submitted
    BY DEF Submitted
  \* Nothing is painted and nothing is added.
  <1>3. ASSUME UNCHANGED <<viewVars, submitted, jobs, currentJob>>
        PROVE  RowsThere' /\ WidgetsFollowManager'
    <2>1. RowsThere'
      BY <1>2, <1>3 DEF SeenInv, RowsThere, viewVars
    <2> QED BY <1>1, <1>2, <1>3, <2>1, RowsKept DEF viewVars
  \* Rows are added, and nothing else is painted.
  <1>4. ASSUME OnlyNewRows, UNCHANGED <<busy, currentJob>>,
               Submitted' \ jobs' \subseteq Submitted \ jobs
        PROVE  RowsThere' /\ WidgetsFollowManager'
    <2>1. RowsThere' /\ \A j \in Submitted : row'[j] = row[j]
      BY <1>1, <1>4, RowsAdded DEF OnlyNewRows, SeenInv
    <2> QED BY <1>1, <1>4, <2>1, RowsKept
  <1>5. ASSUME NEW k \in Jobs, Submit(k) PROVE Submitted' \ jobs' \subseteq Submitted \ jobs
    BY <1>1, <1>5, SubmittedAfter DEF Submit
  <1>6. CASE \E j \in Jobs : ViewAddJob(j)
    BY <1>4, <1>5, <1>6 DEF ViewAddJob, AddJob
  <1>7. CASE \E j \in Jobs : ViewCancelJob(j) \/ ViewFinishRaises(j)
    BY <1>3, <1>7 DEF ViewCancelJob, CancelJob, ViewFinishRaises, OnFinishRaises, guiVars
  <1>8. CASE ViewUnaffected
    <2>1. UNCHANGED <<submitted, jobs, currentJob>>
      BY <1>8 DEF ViewUnaffected, WorkerStep, StartJob, SkipJob, MarkRunning, FirstProgress,
         ReportProgress, CallGui, RunRaises, RunReturns, CheckState, MarkFinished, LastProgress,
         EmitFinished, WorkerExit, InterruptCurrentJob, JoinAllJobs, JoinReturns, Quit,
         QuitReturns, guiVars
    <2> QED BY <1>3, <1>8, <2>1 DEF ViewUnaffected
  <1>9. CASE \E j \in Jobs : ViewCall(j)
    <2>1. PICK j \in Jobs : ViewCall(j)
      BY <1>9
    <2>2. Submitted' \ jobs' \subseteq Submitted \ jobs
      BY <1>2, <1>5, <2>1 DEF ViewCall, OnCall
    <2> QED BY <1>4, <2>1, <2>2 DEF ViewCall, OnCall
  <1>10. ASSUME NEW j \in Jobs, ViewJobStarting(j) PROVE RowsThere' /\ WidgetsFollowManager'
    <2>1. RowsThere' /\ \A k \in Submitted : row'[k] = row[k] \/ row'[k] = jobState[k]
      BY <1>1, <1>10, RowPainted DEF ViewJobStarting, Painted
    <2>2. busy' <=> currentJob' # NoJob
      BY <1>10, JobsAssumption DEF ViewJobStarting, OnJobStarting
    <2>3. Submitted' \ jobs' \subseteq Submitted \ jobs
      BY <1>2, <1>10 DEF ViewJobStarting, OnJobStarting
    <2> QED BY <1>1, <2>1, <2>2, <2>3, RowsKept
  <1>11. ASSUME NEW j \in Jobs, ViewJobProgress(j) PROVE RowsThere' /\ WidgetsFollowManager'
    <2>1. currentJob # NoJob /\ currentJob' = currentJob /\ UNCHANGED <<submitted, jobs>>
      <3>1. Handled("progressed", j) /\ "progressed" \in Kinds
        BY <1>11 DEF ViewJobProgress, OnJobProgress, guiVars, Handled, Kinds
      <3>2. currentJob # NoJob
        BY <1>1, <3>1, ProgressReceived DEF SeenInv
      <3> QED BY <1>11, <3>2 DEF ViewJobProgress, OnJobProgress, guiVars
    <2>2. RowsThere'
      BY <1>2, <1>11, <2>1 DEF SeenInv, RowsThere, ViewJobProgress
    <2> QED BY <1>1, <1>2, <1>11, <2>1, <2>2, RowsKept DEF ViewJobProgress
  <1>12. ASSUME NEW j \in Jobs, ViewJobException(j) \/ ViewJobFinished(j)
         PROVE  RowsThere' /\ WidgetsFollowManager'
    <2>1. /\ \E kind \in Verdicts : Receive(kind, j)
          /\ UNCHANGED jobState /\ ChangeJobState(j) /\ ~busy' /\ currentJob' = NoJob
      BY <1>12 DEF ViewJobException, OnJobException, ViewJobFinished, OnJobFinished, Verdicts
    <2>2. j \in Submitted
      BY <2>1, VerdictOfListed
    <2>3. Submitted' \ jobs' \subseteq (Submitted \ jobs) \cup {j}
      <3>1. CASE jobs' = jobs \ {j} /\ UNCHANGED submitted
        BY <1>2, <3>1
      <3>2. ASSUME NEW k \in Jobs \ Submitted, submitted' = Append(submitted, k),
                   jobs' = (jobs \cup {k}) \ {j}
            PROVE  Submitted' \ jobs' \subseteq (Submitted \ jobs) \cup {j}
        BY <1>1, <3>2, SubmittedAfter
      <3> QED BY <1>12, <3>1, <3>2 DEF ViewJobException, OnJobException, ViewJobFinished, OnJobFinished
    <2>4. /\ RowsThere' /\ row'[j] = Painted(j, jobState[j])
          /\ \A k \in Submitted \ {j} : row'[k] = row[k]
      BY <1>1, <2>1, <2>2, RowPainted
    <2>5. jobState[j] = "FINISHED" => row'[j] = "FINISHED"
      BY <2>4 DEF Painted
    <2> QED BY <2>1, <2>3, <2>4, <2>5, RowsSettled
  <1>13. CASE UNCHANGED allVars
    BY <1>3, <1>13 DEF allVars, vars
  <1> QED BY <1>6, <1>7, <1>8, <1>9, <1>10, <1>11, <1>12, <1>13 DEF ViewNext

(* The status bar is busy exactly while there is a current job to interrupt, and
   the row of a job that finished and is done with says so: for any jobs, and
   however the signals, cancellations and errors of the two threads meet. *)
THEOREM WidgetsAlwaysFollow == ViewSpec => []WidgetsFollowManager
  <1>1. ViewInit /\ SafetyInv => SeenInv
    BY DEF ViewInit, Init, SeenInv, CurrentInv, InJob, ProgressHasJob, RowsThere, RowStates,
       WidgetsFollowManager, Submitted
  <1>2. SafetyInv /\ SafetyInv' /\ SeenInv /\ [ViewNext]_allVars => SeenInv'
    <2> SUFFICES ASSUME SafetyInv', SeenInv, [ViewNext]_allVars PROVE SeenInv'
      OBVIOUS
    <2>1. SafetyInv /\ CurrentInv /\ TypeInv /\ ProgressHasJob /\ TypeOK' /\ [Next]_vars
      BY ViewStepIsStep DEF SeenInv, SafetyInv, TypeInv
    <2>2. CurrentInv' /\ ProgressHasJob'
      BY <2>1, CurrentStep, ProgressStep
    <2>3. RowsThere' /\ WidgetsFollowManager'
      BY <2>1, WidgetsStep
    <2> QED BY <2>2, <2>3 DEF SeenInv
  <1>3. SeenInv => WidgetsFollowManager
    BY DEF SeenInv
  <1> QED BY <1>1, <1>2, <1>3, ViewImplementsManager, SpecSafety, PTL DEF ViewSpec

=============================================================================
