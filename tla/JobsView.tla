------------------------------ MODULE JobsView ------------------------------
(***************************************************************************)
(* What the user sees of the jobs: the table of ui/widgets/qjobs.py and    *)
(* the busy indicator of the status bar, composed with the job manager.    *)
(* Both listen to the signals the manager sends on; each handler paints    *)
(* from the state the job has when the handler runs, which may not be the  *)
(* state it had when the worker sent the signal.                           *)
(***************************************************************************)
EXTENDS JobManager

VARIABLES
    row,     \* the status widget of each job's row
    button,  \* the jobs whose Cancel button is enabled
    busy     \* whether the status bar shows a job and the interrupt button

viewVars == <<row, button, busy>>
allVars  == <<vars, viewVars>>

ViewInit ==
    /\ Init
    /\ row = [j \in Jobs |-> "none"]
    /\ button = {}
    /\ busy = FALSE

\* add_new_job, called by job_added: rows for the jobs added in this step.
NewRows == {j \in Jobs : row[j] = "none" /\ \E i \in 1..Len(submitted') : submitted'[i] = j}
WithNewRows(r) == [j \in Jobs |-> IF j \in NewRows THEN "PENDING" ELSE r[j]]

\* The widget change_job_state chooses; a state it has no branch for leaves the row.
Painted(j, state) ==
    IF state \in {"RUNNING", "CANCELLED", "FINISHED"} THEN state ELSE row[j]

\* change_job_state reads job.state when it runs.
ChangeJobState(j) ==
    /\ row' = WithNewRows([row EXCEPT ![j] = Painted(j, jobState[j])])
    /\ button' = (button \cup NewRows) \
                 (IF jobState[j] \in {"CANCELLED", "FINISHED"} THEN {j} ELSE {})

OnlyNewRows ==
    /\ row' = WithNewRows(row)
    /\ button' = button \cup NewRows

ViewAddJob(j) == AddJob(j) /\ OnlyNewRows /\ UNCHANGED busy

\* The Cancel button of a row, or SimulationDebugger.halt for a listed job.
ViewCancelJob(j) ==
    /\ j \in button \cup jobs
    /\ CancelJob(j)
    /\ UNCHANGED viewVars

\* job_starting is sent on: QAmStatusBar.progress, QJobs.change_job_state.
ViewJobStarting(j) == OnJobStarting(j) /\ ChangeJobState(j) /\ busy' = TRUE

\* job_progressed is sent on: QAmStatusBar.progress, QJobs.change_job_progress.
ViewJobProgress(j) == OnJobProgress(j) /\ busy' = TRUE /\ UNCHANGED <<row, button>>

\* job_exception is sent on: MainWindow._on_job_finished, change_job_state.
ViewJobException(j) == OnJobException(j) /\ ChangeJobState(j) /\ busy' = FALSE

\* Mutant of ViewJobFinished: the table does not listen to job_finished.
FinishNotPainted(j) == OnJobFinished(j) /\ OnlyNewRows /\ busy' = FALSE

\* job_finished is sent on after on_finish: the same listeners.
ViewJobFinished(j) == OnJobFinished(j) /\ ChangeJobState(j) /\ busy' = FALSE

\* on_finish raised: job_finished is not sent on.
ViewFinishRaises(j) == OnFinishRaises(j) /\ UNCHANGED viewVars

ViewCall(j) == OnCall(j) /\ OnlyNewRows /\ UNCHANGED busy

ViewUnaffected ==
    /\ \/ WorkerStep \/ InterruptCurrentJob \/ JoinAllJobs \/ JoinReturns
       \/ Quit \/ QuitReturns
    /\ UNCHANGED viewVars

ViewNext ==
    \/ \E j \in Jobs :
         \/ ViewAddJob(j) \/ ViewCancelJob(j) \/ ViewJobStarting(j)
         \/ ViewJobProgress(j) \/ ViewJobException(j) \/ ViewJobFinished(j)
         \/ ViewFinishRaises(j) \/ ViewCall(j)
    \/ ViewUnaffected

\* The widgets never hold up a step of the job manager, whose fairness carries over.
ViewSpec == ViewInit /\ [][ViewNext]_allVars /\ Fairness

-----------------------------------------------------------------------------
\* The status bar offers to interrupt exactly while there is a job that
\* interrupt_current_job would reach, and once the manager is done with a job
\* that finished, its row says so, whatever the worker did in between.
WidgetsFollowManager ==
    /\ busy <=> currentJob # NoJob
    /\ \A j \in Submitted \ jobs : jobState[j] = "FINISHED" => row[j] = "FINISHED"
=============================================================================
