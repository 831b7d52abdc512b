----------------------------- MODULE JobManager -----------------------------
(***************************************************************************)
(* The background jobs of angr management: logic/jobmanager.py with the    *)
(* part of data/jobs/job.py it drives.                                     *)
(*                                                                         *)
(* Two threads share the job objects.  The GUI thread owns the JobManager: *)
(* it adds, cancels and interrupts jobs and handles the signals of the     *)
(* worker.  The worker thread runs execute_job for one job after another.  *)
(* Signals that cross the threads are queued by Qt: job_added towards the  *)
(* worker (workQueue), everything else towards the GUI thread (guiQueue).  *)
(* No lock protects job.state; execute_job is cut at every point where a   *)
(* write of the GUI thread can come between a read and a write of it.      *)
(***************************************************************************)
EXTENDS Naturals, Sequences

CONSTANTS
    Jobs,           \* the Job objects
    GuiCallers,     \* jobs whose run() calls gui_thread_schedule and waits
    NoJob           \* None

ASSUME JobsAssumption ==
    /\ NoJob \notin Jobs
    /\ GuiCallers \subseteq Jobs

VARIABLES
    jobState,    \* Job.state
    result,      \* the jobs whose run() returned and whose Job.result is set
    jobs,        \* JobManager.jobs; only membership and emptiness are ever read
    currentJob,  \* JobManager._current_job
    workQueue,   \* job_added signals on their way to the worker
    guiQueue,    \* signals and posted events on their way to the GUI thread
    pc,          \* where the worker is in execute_job
    active,      \* the job the worker is executing
    gui,         \* what the GUI thread is doing
    submitted,   \* history: the jobs given to add_job, in order
    finishRun    \* history: whether Job.finish ran, and whether it raised

workerVars == <<pc, active, workQueue>>
guiVars    == <<jobs, currentJob, gui, submitted, finishRun>>
vars == <<jobState, result, jobs, currentJob, workQueue, guiQueue, pc, active,
          gui, submitted, finishRun>>

JobStates == {"PENDING", "RUNNING", "FINISHED", "CANCELLED", "FAILED"}
Verdicts  == {"finished", "exception"}
Event     == [kind : {"starting", "progressed", "call"} \cup Verdicts, job : Jobs]

\* Program points of Worker.execute_job; "blocked" is inside gui_thread_schedule.
InJob      == {"starting", "progress0", "running", "blocked", "returned",
               "finishing", "progress100", "reporting"}
WorkerPcs  == {"idle", "exited"} \cup InJob
GuiStates  == {"loop", "join", "quit", "exited"}

Submitted == {submitted[i] : i \in 1..Len(submitted)}
Waiting   == {workQueue[i] : i \in 1..Len(workQueue)}

VerdictQueued(j) ==
    \E i \in 1..Len(guiQueue) : guiQueue[i].job = j /\ guiQueue[i].kind \in Verdicts

\* The worker, or a signal on its way, still has something to do for the job.
InPipeline(j) == j \in Waiting \/ active = j \/ VerdictQueued(j)

\* A listed job nothing will ever remove from JobManager.jobs.
Orphan(j) == j \in jobs /\ ~InPipeline(j)

Init ==
    /\ jobState = [j \in Jobs |-> "PENDING"]
    /\ result = {}
    /\ jobs = {}
    /\ currentJob = NoJob
    /\ workQueue = <<>>
    /\ guiQueue = <<>>
    /\ pc = "idle"
    /\ active = NoJob
    /\ gui = "loop"
    /\ submitted = <<>>
    /\ finishRun = [j \in Jobs |-> "no"]

-----------------------------------------------------------------------------
(***************************************************************************)
(* The worker thread: Worker.execute_job.                                  *)
(***************************************************************************)
Ev(kind, j) == [kind |-> kind, job |-> j]
Post(kind) == guiQueue' = Append(guiQueue, Ev(kind, active))

Goto(p) == pc' = p /\ UNCHANGED <<active, workQueue>>
EndExecute == pc' = "idle" /\ active' = NoJob /\ UNCHANGED workQueue

Cancelled == jobState[active] = "CANCELLED"

\* JobCancelled propagates to its handler: the state is left alone.
RaiseCancelled ==
    /\ Post("exception")
    /\ EndExecute
    /\ UNCHANGED jobState


\* JobContext.set_progress emits job_progressed only now and then.
\* Bound: one job_progressed signal in flight.
ProgressWithinBound == \A i \in 1..Len(guiQueue) : guiQueue[i].kind # "progressed"

\* Mutants of StartJob: no job_starting signal; last in, first out.
StartJobSilently ==
    /\ pc = "idle" /\ workQueue # <<>>
    /\ jobState[Head(workQueue)] = "PENDING"
    /\ workQueue' = Tail(workQueue)
    /\ active' = Head(workQueue)
    /\ pc' = "starting"
    /\ UNCHANGED <<jobState, result, guiQueue, guiVars>>
StartLastJob ==
    LET n == Len(workQueue) IN
    /\ pc = "idle" /\ n > 0 /\ jobState[workQueue[n]] = "PENDING"
    /\ workQueue' = SubSeq(workQueue, 1, n - 1)
    /\ active' = workQueue[n]
    /\ pc' = "starting"
    /\ guiQueue' = Append(guiQueue, Ev("starting", workQueue[n]))
    /\ UNCHANGED <<jobState, result, guiVars>>

\* IF   the next job delivered is still PENDING
\* THEN announce it; its state is written later, in MarkRunning.
StartJob ==
    /\ pc = "idle" /\ workQueue # <<>>
    /\ jobState[Head(workQueue)] = "PENDING"
    /\ workQueue' = Tail(workQueue)
    /\ active' = Head(workQueue)
    /\ pc' = "starting"
    /\ guiQueue' = Append(guiQueue, Ev("starting", Head(workQueue)))
    /\ UNCHANGED <<jobState, result, guiVars>>

\* IF   the next job delivered is no longer PENDING
\* THEN return without a signal.
SkipJob ==
    /\ pc = "idle" /\ workQueue # <<>>
    /\ jobState[Head(workQueue)] # "PENDING"
    /\ workQueue' = Tail(workQueue)
    /\ UNCHANGED <<jobState, result, guiQueue, pc, active, guiVars>>

MarkRunning ==
    /\ pc = "starting"
    /\ jobState' = [jobState EXCEPT ![active] = "RUNNING"]
    /\ Goto("progress0")
    /\ UNCHANGED <<result, guiQueue, guiVars>>

\* ctx.set_progress(0.0): nothing changed yet, so it emits nothing.
FirstProgress ==
    /\ pc = "progress0"
    /\ \/ Cancelled /\ RaiseCancelled
       \/ ~Cancelled /\ Goto("running") /\ UNCHANGED <<jobState, guiQueue>>
    /\ UNCHANGED <<result, guiVars>>

\* run() calls ctx.set_progress.
ReportProgress ==
    /\ pc = "running"
    /\ \/ Cancelled /\ RaiseCancelled
       \/ /\ ~Cancelled /\ ProgressWithinBound
          /\ Post("progressed")
          /\ UNCHANGED <<jobState, pc, active, workQueue>>
    /\ UNCHANGED <<result, guiVars>>

\* run() calls gui_thread_schedule without a timeout: post and wait.
CallGui ==
    /\ pc = "running" /\ active \in GuiCallers
    /\ Post("call")
    /\ Goto("blocked")
    /\ UNCHANGED <<jobState, result, guiVars>>

\* Mutant of RunRaises: job_finished is emitted in the end, error or not.
RaiseThenFinish ==
    /\ pc = "running"
    /\ jobState' = [jobState EXCEPT ![active] = "FAILED"]
    /\ Post("exception")
    /\ Goto("reporting")
    /\ UNCHANGED <<result, guiVars>>

\* run() raises: FAILED overwrites whatever the state was.
RunRaises ==
    /\ pc = "running"
    /\ jobState' = [jobState EXCEPT ![active] = "FAILED"]
    /\ Post("exception")
    /\ EndExecute
    /\ UNCHANGED <<result, guiVars>>

\* Mutant of RunReturns: Job.start itself marks the job as finished.
ReturnMarksFinished ==
    /\ pc = "running"
    /\ result' = result \cup {active}
    /\ jobState' = [jobState EXCEPT ![active] = "FINISHED"]
    /\ Goto("returned")
    /\ UNCHANGED <<guiQueue, guiVars>>

\* run() returns and Job.start stores the result.  It may return without ever
\* having looked at the state: a job may ignore a cancellation.
RunReturns ==
    /\ pc = "running"
    /\ result' = result \cup {active}
    /\ Goto("returned")
    /\ UNCHANGED <<jobState, guiQueue, guiVars>>

\* IF   the state is still RUNNING
\* THEN go on to write FINISHED
\* ELSE report the job as finished anyway.
CheckState ==
    /\ pc = "returned"
    /\ IF jobState[active] = "RUNNING" THEN Goto("finishing") ELSE Goto("reporting")
    /\ UNCHANGED <<jobState, result, guiQueue, guiVars>>

MarkFinished ==
    /\ pc = "finishing"
    /\ jobState' = [jobState EXCEPT ![active] = "FINISHED"]
    /\ Goto("progress100")
    /\ UNCHANGED <<result, guiQueue, guiVars>>

\* ctx.set_progress(100.0).  A cancellation that came after FINISHED was written
\* makes it raise, and the job ends as an exception.
LastProgress ==
    /\ pc = "progress100"
    /\ \/ Cancelled /\ RaiseCancelled
       \/ /\ ~Cancelled
          /\ UNCHANGED guiQueue \/ (ProgressWithinBound /\ Post("progressed"))
          /\ Goto("reporting")
          /\ UNCHANGED jobState
    /\ UNCHANGED <<result, guiVars>>

EmitFinished ==
    /\ pc = "reporting"
    /\ Post("finished")
    /\ EndExecute
    /\ UNCHANGED <<jobState, result, guiVars>>

\* Mutant of WorkerExit: the thread ends only once no job is listed.
ExitWhenDrained ==
    /\ pc = "idle" /\ gui = "quit" /\ jobs = {}
    /\ Goto("exited")
    /\ UNCHANGED <<jobState, result, guiQueue, guiVars>>

\* The thread's event loop ends once execute_job has returned.  Qt may or may
\* not deliver the job_added signals still queued before it notices.
WorkerExit ==
    /\ pc = "idle" /\ gui = "quit"
    /\ Goto("exited")
    /\ UNCHANGED <<jobState, result, guiQueue, guiVars>>

-----------------------------------------------------------------------------
(***************************************************************************)
(* The GUI thread: the methods of JobManager and the handlers of signals.  *)
(***************************************************************************)
InEventLoop == gui \in {"loop", "join"}

\* Mutant of Submit: the job is handed to the worker but not listed.
SubmitUnlisted(j) ==
    /\ j \notin Submitted
    /\ submitted' = Append(submitted, j)
    /\ workQueue' = Append(workQueue, j)
    /\ UNCHANGED jobs

Submit(j) ==
    /\ j \notin Submitted
    /\ submitted' = Append(submitted, j)
    /\ jobs' = jobs \cup {j}
    /\ workQueue' = Append(workQueue, j)

AddJob(j) ==
    /\ InEventLoop
    /\ Submit(j)
    /\ UNCHANGED <<jobState, result, currentJob, guiQueue, pc, active, gui, finishRun>>

\* The Cancel button of a row in the jobs view, or SimulationDebugger.halt.
\* The button of a row is disabled once the row shows FINISHED or CANCELLED;
\* the row of a FAILED job keeps it.
CancelJob(j) ==
    /\ InEventLoop
    /\ j \in jobs \/ jobState[j] = "FAILED"
    /\ jobState' = [jobState EXCEPT ![j] = "CANCELLED"]
    /\ UNCHANGED <<result, guiQueue, workerVars, guiVars>>

InterruptCurrentJob ==
    /\ InEventLoop
    /\ currentJob # NoJob
    /\ jobState' = [jobState EXCEPT ![currentJob] = "CANCELLED"]
    /\ UNCHANGED <<result, guiQueue, workerVars, guiVars>>

\* The GUI thread takes the first signal or event posted to it.
Receive(kind, j) ==
    /\ InEventLoop
    /\ guiQueue # <<>>
    /\ Head(guiQueue) = Ev(kind, j)
    /\ guiQueue' = Tail(guiQueue)

OnJobStarting(j) ==
    /\ Receive("starting", j)
    /\ currentJob' = j
    /\ UNCHANGED <<jobState, result, workerVars, jobs, gui, submitted, finishRun>>

OnJobProgress(j) ==
    /\ Receive("progressed", j)
    /\ UNCHANGED <<jobState, result, workerVars, guiVars>>

\* Mutants of OnJobException: the job stays listed; it stays the current job.
ExceptionKeepsJob(j) ==
    /\ Receive("exception", j)
    /\ currentJob' = NoJob
    /\ UNCHANGED <<jobState, result, workerVars, jobs, gui, submitted, finishRun>>
OnJobException(j) ==
    /\ Receive("exception", j)
    /\ jobs' = jobs \ {j}
    /\ currentJob' = NoJob
    /\ UNCHANGED <<jobState, result, workerVars, gui, submitted, finishRun>>

\* job.finish() runs first.  Its on_finish callback may add another job.
OnJobFinished(j) ==
    /\ Receive("finished", j)
    /\ finishRun' = [finishRun EXCEPT ![j] = "ok"]
    /\ \/ /\ jobs' = jobs \ {j}
          /\ UNCHANGED <<workQueue, submitted>>
       \/ \E k \in Jobs \ Submitted :
            /\ submitted' = Append(submitted, k)
            /\ workQueue' = Append(workQueue, k)
            /\ jobs' = (jobs \cup {k}) \ {j}
    /\ currentJob' = NoJob
    /\ UNCHANGED <<jobState, result, pc, active, gui>>

\* on_finish raises: the rest of _on_job_finished does not happen.
OnFinishRaises(j) ==
    /\ Receive("finished", j)
    /\ finishRun' = [finishRun EXCEPT ![j] = "raised"]
    /\ UNCHANGED <<jobState, result, workerVars, jobs, currentJob, gui, submitted>>

\* MainWindow.event executes the posted callable and sets the event the worker
\* waits for.  The callable may add a job (loading a binary starts analyses).
OnCall(j) ==
    /\ Receive("call", j)
    /\ pc' = "running"
    /\ \/ UNCHANGED <<jobs, workQueue, submitted>>
       \/ \E k \in Jobs : Submit(k)
    /\ UNCHANGED <<jobState, result, active, currentJob, gui, finishRun>>

JoinAllJobs ==
    /\ gui = "loop"
    /\ gui' = "join"
    /\ UNCHANGED <<jobState, result, guiQueue, workerVars, jobs, currentJob,
                   submitted, finishRun>>

\* jobs stayed empty for wait_period, in which no event is processed.
JoinReturns ==
    /\ gui = "join" /\ jobs = {}
    /\ gui' = "loop"
    /\ UNCHANGED <<jobState, result, guiQueue, workerVars, jobs, currentJob,
                   submitted, finishRun>>

\* closeEvent calls quit(): the GUI thread waits for the worker thread.
Quit ==
    /\ gui = "loop"
    /\ gui' = "quit"
    /\ UNCHANGED <<jobState, result, guiQueue, workerVars, jobs, currentJob,
                   submitted, finishRun>>

QuitReturns ==
    /\ gui = "quit" /\ pc = "exited"
    /\ gui' = "exited"
    /\ UNCHANGED <<jobState, result, guiQueue, workerVars, jobs, currentJob,
                   submitted, finishRun>>

-----------------------------------------------------------------------------
WorkerStep ==
    \/ StartJob \/ SkipJob \/ MarkRunning \/ FirstProgress \/ ReportProgress
    \/ CallGui \/ RunRaises \/ RunReturns \/ CheckState \/ MarkFinished
    \/ LastProgress \/ EmitFinished \/ WorkerExit

Handler(j) ==
    \/ OnJobStarting(j) \/ OnJobProgress(j) \/ OnJobException(j)
    \/ OnJobFinished(j) \/ OnFinishRaises(j) \/ OnCall(j)

GuiStep ==
    \/ \E j \in Jobs : AddJob(j) \/ CancelJob(j) \/ Handler(j)
    \/ InterruptCurrentJob \/ JoinAllJobs \/ JoinReturns \/ Quit \/ QuitReturns

Next == WorkerStep \/ GuiStep

Spec == Init /\ [][Next]_vars

(***************************************************************************)
(* The worker thread and the event loop keep running, and run() ends: it   *)
(* may call into the GUI thread again and again, but not for ever.         *)
(***************************************************************************)
WorkerOutsideRun ==
    \/ StartJob \/ SkipJob \/ MarkRunning \/ FirstProgress \/ CheckState
    \/ MarkFinished \/ LastProgress \/ EmitFinished

Fairness ==
    /\ WF_vars(WorkerOutsideRun)
    /\ WF_vars(WorkerExit)
    /\ SF_vars(RunReturns \/ RunRaises)
    /\ WF_vars(\E j \in Jobs : Handler(j))
    /\ WF_vars(JoinReturns)
    /\ WF_vars(QuitReturns)

FairSpec == Spec /\ Fairness
-----------------------------------------------------------------------------
(***************************************************************************)
(* Correctness.                                                            *)
(***************************************************************************)
TypeOK ==
    /\ jobState \in [Jobs -> JobStates]
    /\ result \subseteq Jobs
    /\ jobs \subseteq Jobs
    /\ currentJob \in Jobs \cup {NoJob}
    /\ workQueue \in Seq(Jobs)
    /\ guiQueue \in Seq(Event)
    /\ pc \in WorkerPcs
    /\ active \in Jobs \cup {NoJob}
    /\ gui \in GuiStates
    /\ submitted \in Seq(Jobs)
    /\ finishRun \in [Jobs -> {"no", "ok", "raised"}]

\* An empty JobManager.jobs really means that nothing is going on: a job is
\* listed for as long as the worker or a signal still has to deal with it.
\* This is what makes waiting for `jobs` to drain (join_all_jobs) sound.
PipelineIsListed == \A j \in Jobs : InPipeline(j) => j \in jobs

\* The only jobs the list can hold for ever are those cancelled before the
\* worker took them (execute_job returns without a signal) and those whose
\* on_finish raised (the removal is skipped).
OrphansExplained ==
    \A j \in Jobs : Orphan(j) => jobState[j] = "CANCELLED" \/ finishRun[j] = "raised"

\* Each job is in one place only: it is delivered once, and its run ends in a
\* single job_finished or job_exception.
OnePlacePerJob ==
    /\ \A i, k \in 1..Len(workQueue) : workQueue[i] = workQueue[k] => i = k
    /\ \A i, k \in 1..Len(guiQueue) :
         /\ guiQueue[i].kind \in Verdicts /\ guiQueue[k].kind \in Verdicts
         /\ guiQueue[i].job = guiQueue[k].job
         => i = k
    /\ \A j \in Waiting : active # j /\ ~VerdictQueued(j)
    /\ active # NoJob => ~VerdictQueued(active)

\* Job.finish never sees a job whose run did not return: when job_finished is
\* delivered, Job.result has been stored and finish has not run before.
FinishSeesResult ==
    \A i \in 1..Len(guiQueue) : guiQueue[i].kind = "finished" =>
        guiQueue[i].job \in result /\ finishRun[guiQueue[i].job] = "no"

\* The verdict of a job comes once, whatever errors and cancellations occur,
\* and finish() is called for a run that returned only.
ReportsAreSound == OnePlacePerJob /\ FinishSeesResult

\* When the user interrupts while a job runs, _current_job is that job, or its
\* job_starting, which will make it so, is still in the queue.
CurrentJobCatchesUp ==
    pc \in InJob /\ currentJob # active =>
        \E i \in 1..Len(guiQueue) : guiQueue[i] = Ev("starting", active)

\* A cancellation is lost only in the two windows in which execute_job has
\* read the state and not yet written it, or when run() raises an error.
CancelLostOnlyInWindows ==
    [][\A j \in Jobs : jobState[j] = "CANCELLED" /\ jobState'[j] # "CANCELLED" =>
          /\ active = j
          /\ \/ pc \in {"starting", "finishing"}
             \/ pc = "running" /\ jobState'[j] = "FAILED"]_vars

-----------------------------------------------------------------------------
(***************************************************************************)
(* The job manager implements the abstract job queue.                      *)
(***************************************************************************)
Stage(j) ==
    CASE j \notin Submitted -> "new"
      [] j \in Waiting      -> "waiting"
      [] active = j         -> "active"
      [] VerdictQueued(j)   -> "ended"
      [] OTHER              -> "done"

Abstract == INSTANCE JobQueue WITH
    order <- submitted,
    stage <- [j \in Jobs |-> Stage(j)]

\* First in first out, one at a time, at most once, verdicts in order.
ImplementsJobQueue == Abstract!Spec

-----------------------------------------------------------------------------
(***************************************************************************)
(* Progress, under FairSpec.                                               *)
(***************************************************************************)
\* Every job that is neither cancelled nor has a raising on_finish leaves the
\* list, as long as the GUI thread runs its event loop.
JobsAreSettled ==
    \A j \in Jobs : j \in jobs ~>
        \/ j \notin jobs
        \/ jobState[j] = "CANCELLED" \/ finishRun[j] = "raised"
        \/ gui \in {"quit", "exited"}

\* The two waits of the GUI thread end: join_all_jobs returns, unless an orphan
\* keeps the list non-empty, and closing the window ends the program, unless the
\* run of a job is waiting for the GUI thread, which now waits for the worker.
GuiWaitsEnd ==
    /\ gui = "join" ~> (gui # "join" \/ \E j \in Jobs : Orphan(j))
    /\ gui = "quit" ~> (gui = "exited" \/ pc = "blocked")
=============================================================================
