------------------------------- MODULE Loading -------------------------------
(***************************************************************************)
(* The project of an instance and the control flow graph made for it:       *)
(* data/jobs/loading.py, data/jobs/cfg_generation.py, the analysis manager, *)
(* the containers of data/instance.py and the handlers of the workspace and *)
(* the main window that load and store.  The jobs read the instance on the   *)
(* worker thread while the GUI thread changes it.  How jobs are queued and   *)
(* started is JobManager; here a job is taken, runs and reports.             *)
(***************************************************************************)
EXTENDS Naturals, Sequences

CONSTANTS
  Projects,   \* the files that can be loaded, and the project made of each
  NoProject,
  MaxJobs     \* bound on the jobs that are added

ASSUME LoadingAssumption == NoProject \notin Projects /\ MaxJobs \in Nat

VARIABLES
  inst,       \* the Instance: project, cfg, cfb, and the project of its variables
  jobs,       \* every job added so far, with its state; its index names it
  work,       \* jobs the worker has not taken
  active,     \* the job that runs, or 0
  pc,         \* where its run() is
  made,       \* what the CFG job holds: the projects of its CFB and of its CFG
  signals,    \* events the GUI thread has not handled
  dialogs,    \* analysis dialogs that are open; a modal one runs an event loop
  watchers,   \* _refresh_cfg threads, by their job
  overtaken   \* history: CFG jobs during which a database replaced the project

vars == <<inst, jobs, work, active, pc, made, signals, dialogs, watchers, overtaken>>

Empty == [of |-> NoProject, temp |-> FALSE, job |-> 0]
Result(p, temp, j) == [of |-> p, temp |-> temp, job |-> j]
Event(kind, j, cfg, cfb) == [kind |-> kind, job |-> j, cfg |-> cfg, cfb |-> cfb]
Notice(kind, j) == Event(kind, j, Empty, Empty)
Nothing == [cfb |-> NoProject, cfg |-> NoProject]

LoadingInit ==
  /\ inst = [project |-> NoProject, cfg |-> Empty, cfb |-> Empty, vars |-> NoProject]
  /\ jobs = <<>> /\ work = <<>> /\ active = 0 /\ pc = "idle" /\ made = Nothing
  /\ signals = <<>> /\ dialogs = 0 /\ watchers = {} /\ overtaken = {}

State(j) == jobs[j].state
GuiOnly == UNCHANGED <<active, pc, made>>
AddJob(kind, file) ==
  /\ Len(jobs) < MaxJobs
  /\ jobs' = Append(jobs, [kind |-> kind, file |-> file, state |-> "PENDING"])
  /\ work' = Append(work, Len(jobs) + 1)
-----------------------------------------------------------------------------
(* The user.  A modal dialog keeps the menus out of reach. *)
LoadFile(kind, p) ==
  /\ dialogs = 0 /\ AddJob(kind, p)
  /\ GuiOnly /\ UNCHANGED <<inst, signals, dialogs, watchers, overtaken>>

RunAnalysis ==
  /\ dialogs = 0 /\ inst.project # NoProject /\ dialogs' = 1
  /\ GuiOnly /\ UNCHANGED <<inst, jobs, work, signals, watchers, overtaken>>

(* AnalysisOptionsDialog: its choice is for the project loaded by now *)
AnswerDialog(accepted) ==
  /\ dialogs > 0 /\ dialogs' = dialogs - 1
  /\ IF accepted THEN AddJob("cfg", NoProject) ELSE UNCHANGED <<jobs, work>>
  /\ GuiOnly /\ UNCHANGED <<inst, signals, watchers, overtaken>>

CancelJob(j) ==
  /\ State(j) \in {"PENDING", "RUNNING"}
  /\ jobs' = [jobs EXCEPT ![j].state = "CANCELLED"]
  /\ GuiOnly /\ UNCHANGED <<inst, work, signals, dialogs, watchers, overtaken>>
-----------------------------------------------------------------------------
(* The worker *)
WorkerOnly == UNCHANGED <<inst, dialogs, watchers, overtaken>>

TakeJob ==
  /\ pc = "idle" /\ work # <<>> /\ work' = Tail(work)
  /\ LET j == Head(work) IN
     IF State(j) # "PENDING" THEN UNCHANGED <<jobs, active, pc, signals>>
     ELSE /\ jobs' = [jobs EXCEPT ![j].state = "RUNNING"]
          /\ active' = j /\ pc' = jobs[j].kind
          /\ signals' = Append(signals, Notice("starting", j))
  /\ UNCHANGED made /\ WorkerOnly

Leave == active' = 0 /\ pc' = "idle" /\ made' = Nothing /\ UNCHANGED work

(* run() returned: a job cancelled too late to notice reports as well *)
Finish(cfg, cfb) ==
  /\ jobs' = [jobs EXCEPT ![active].state = IF @ = "RUNNING" THEN "FINISHED" ELSE @]
  /\ signals' = Append(signals, Event("finished", active, cfg, cfb))
  /\ Leave
Raise ==
  /\ active # 0 /\ pc \notin {"waiting", "built"}
  /\ \/ State(active) = "CANCELLED" /\ UNCHANGED jobs
     \/ jobs' = [jobs EXCEPT ![active].state = "FAILED"]
  /\ signals' = Append(signals, Notice("exception", active))
  /\ Leave /\ WorkerOnly

(* not the code: gui_thread_schedule_async *)
BuildProjectAsync ==
  /\ pc = "binary"
  /\ jobs' = [jobs EXCEPT ![active].state = IF @ = "RUNNING" THEN "FINISHED" ELSE @]
  /\ signals' = Append(Append(signals, Notice("finished", active)), Notice("callback", active))
  /\ Leave /\ WorkerOnly
(* LoadBinaryJob: the new project is set by the GUI thread, and the job waits
   for it; without a project it just returns *)
BuildProject ==
  /\ pc = "binary" /\ pc' = "waiting"
  /\ signals' = Append(signals, Notice("callback", active))
  /\ UNCHANGED <<jobs, work, active, made>> /\ WorkerOnly
GiveUpLoading == pc \in {"binary", "database"} /\ Finish(Empty, Empty) /\ WorkerOnly

(* LoadAngrDBJob: the project waits in the job for _on_load_database_finished *)
LoadDatabase ==
  /\ pc = "database"
  /\ Finish(Result(jobs[active].file, FALSE, 0), Result(jobs[active].file, FALSE, 0))
  /\ WorkerOnly

(* CFGGenerationJob: each analysis reads the project of the instance again *)
MakeTemporaryCfb ==
  /\ pc = "cfg" /\ inst.project # NoProject
  /\ made' = [Nothing EXCEPT !.cfb = inst.project] /\ pc' = "begin"
  /\ UNCHANGED <<jobs, work, active, signals>> /\ WorkerOnly
BeginCfg ==
  /\ pc = "begin" /\ made' = [made EXCEPT !.cfg = inst.project] /\ pc' = "recover"
  /\ UNCHANGED <<jobs, work, active, signals>> /\ WorkerOnly

(* a peek into the CFG.  Bound: one in the queue *)
PeekQueued == \E i \in 1 .. Len(signals) : signals[i].kind = "peek"
ProgressCallback ==
  /\ pc = "recover" /\ State(active) # "CANCELLED" /\ ~PeekQueued
  /\ signals' = Append(signals, Event("peek", active, Result(made.cfg, TRUE, active),
                                      Result(made.cfb, TRUE, active)))
  /\ UNCHANGED <<jobs, work, active, pc, made>> /\ WorkerOnly
MakeFinalCfb ==
  /\ pc = "recover"
  /\ Finish(Result(made.cfg, FALSE, active), Result(inst.project, FALSE, active))
  /\ WorkerOnly
-----------------------------------------------------------------------------
(* The GUI thread *)
(* _reset_containers, the new project and the event of its container *)
OnProjectBuilt(j) ==
  /\ inst' = [project |-> jobs[j].file, cfg |-> Empty, cfb |-> Empty,
              vars |-> IF inst.vars = NoProject THEN jobs[j].file ELSE inst.vars]
  /\ pc' = IF active = j THEN "built" ELSE pc
  /\ signals' = Append(Tail(signals), Notice("analyse", 0))
  /\ UNCHANGED <<dialogs, watchers, overtaken>>
(* the job that waited goes on *)
ReturnFromLoading == pc = "built" /\ Finish(Empty, Empty) /\ WorkerOnly

(* not the code: only the CFG is stored *)
OnCfgGeneratedNoCfb(e) == inst' = [inst EXCEPT !.cfg = e.cfg]
OnCfgGenerated(e) == inst' = [inst EXCEPT !.cfg = e.cfg, !.cfb = e.cfb]

CfgEvents ==
  {active} \cup {signals[i].job : i \in 2 .. Len(signals)}
(* a database without a CFG raises before anything is changed *)
OnDatabaseLoaded(e) ==
  LET p == jobs[e.job].file IN
  /\ inst' = [project |-> p, cfg |-> e.cfg, cfb |-> e.cfb, vars |-> p]
  /\ overtaken' = overtaken \cup {j \in CfgEvents : j # 0 /\ jobs[j].kind = "cfg"}
OnFinished(e) ==
  IF e.cfg = Empty THEN UNCHANGED <<inst, overtaken>>
  ELSE IF jobs[e.job].kind = "database"
    THEN OnDatabaseLoaded(e) \/ UNCHANGED <<inst, overtaken>>
  ELSE OnCfgGenerated(e) /\ UNCHANGED overtaken

OnJobStarted(j) ==
  watchers' = IF jobs[j].kind = "cfg" THEN watchers \cup {j} ELSE watchers

HandleEvent ==
  /\ signals # <<>>
  /\ UNCHANGED <<jobs, work, active, made>>
  /\ LET e == Head(signals) IN
     IF e.kind = "callback" THEN OnProjectBuilt(e.job)
     ELSE
       /\ signals' = Tail(signals) /\ UNCHANGED pc
       /\ CASE e.kind = "finished" -> OnFinished(e) /\ UNCHANGED <<dialogs, watchers>>
            [] e.kind = "peek" ->
                 inst' = [inst EXCEPT !.cfg = e.cfg, !.cfb = e.cfb]
                 /\ UNCHANGED <<dialogs, watchers, overtaken>>
            [] e.kind = "starting" -> OnJobStarted(e.job) /\ UNCHANGED <<inst, dialogs, overtaken>>
            [] e.kind = "analyse" ->
                 dialogs' = dialogs + 1 /\ UNCHANGED <<inst, watchers, overtaken>>
            [] e.kind = "exception" -> UNCHANGED <<inst, dialogs, watchers, overtaken>>

(* _refresh_cfg, the thread of a CFG job, asks for a refresh every 0.3 s until
   it sees that the job has ended *)
(* not the code: the thread waits for the job to be finished *)
SeesJobFinished(j) == State(j) \in {"FINISHED", "FAILED"}
SeesJobEnded(j) == State(j) \notin {"PENDING", "RUNNING"}
EndWatcher(j) ==
  /\ j \in watchers /\ SeesJobEnded(j) /\ watchers' = watchers \ {j}
  /\ UNCHANGED <<inst, jobs, work, active, pc, made, signals, dialogs, overtaken>>

WorkerStep ==
  TakeJob \/ Raise \/ BuildProject \/ GiveUpLoading \/ ReturnFromLoading \/ LoadDatabase
  \/ MakeTemporaryCfb \/ BeginCfg \/ ProgressCallback \/ MakeFinalCfb

LoadingNext ==
  \/ \E p \in Projects : LoadFile("binary", p) \/ LoadFile("database", p)
  \/ RunAnalysis
  \/ \E accepted \in BOOLEAN : AnswerDialog(accepted)
  \/ \E j \in 1 .. Len(jobs) : CancelJob(j) \/ EndWatcher(j)
  \/ WorkerStep
  \/ HandleEvent

Ends == Raise \/ MakeFinalCfb \/ ReturnFromLoading
LoadingSpec ==
  /\ LoadingInit /\ [][LoadingNext]_vars
  /\ WF_vars(Ends)
  /\ \A j \in 1 .. MaxJobs : WF_vars(EndWatcher(j))
-----------------------------------------------------------------------------
(* The CFG and the CFB shown are of the loaded project, unless the job that
   made them was running when a database replaced the project under it
   (_on_cfg_generated stores into the instance that is current, and
   CFGGenerationJob reads its project three times). *)
ResultsOfProject ==
  \A r \in {inst.cfg, inst.cfb} : r = Empty \/ r.of = inst.project \/ r.job \in overtaken

(* When everything is done, what is shown is no longer the temporary CFB a job
   published while it ran, unless that job failed or was cancelled
   (_progress_callback, _refresh, _on_cfg_generated). *)
Quiet == work = <<>> /\ active = 0 /\ signals = <<>>
SettledIsFinal ==
  Quiet => \A r \in {inst.cfg, inst.cfb} : r.temp => State(r.job) \in {"FAILED", "CANCELLED"}

(* The thread that refreshes the views while a CFG job runs ends (_refresh_cfg);
   CFG recovery itself is taken to end. *)
RefreshThreadEnds == \A j \in 1 .. MaxJobs : j \in watchers ~> j \notin watchers
=============================================================================
