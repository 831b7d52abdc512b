------------------------------- MODULE CodeView -------------------------------
(***************************************************************************)
(* The decompilation pipeline of the pseudocode view (ui/views/code_view.py *)
(* with data/jobs/decompile_function.py and variable_recovery.py).  The view *)
(* asks for jobs; the worker runs them one after the other and tells the GUI *)
(* thread through a queue of signals; a callback of a finished job uses the *)
(* function shown when it runs, not the one the job was made for.           *)
(* An address is abstracted to the function that holds it, so a focus       *)
(* address is a function or NoFunc.                                         *)
(***************************************************************************)
EXTENDS Naturals, Sequences, FiniteSets

CONSTANTS
  Funcs,      \* the functions of the program
  NoFunc,     \* no function, no code, no address
  NeedsCca,   \* functions whose prototype is unknown or guessed
  MaxAsks     \* bound on what the user asks for

ASSUME CodeViewAssumption ==
  NoFunc \notin Funcs /\ NeedsCca \subseteq Funcs /\ MaxAsks \in Nat

VARIABLES
  view,     \* the function, the code shown and _last_function
  cache,    \* kb.decompilations: the functions with decompiled code
  ranCca,   \* functions whose ran_cca is set
  todo,     \* jobs the worker has not started
  running,  \* the job the worker runs, a sequence of length one, or <<>>
  signals,  \* signals of the worker the GUI thread has not handled
  modal,    \* the progress dialog of a blocking job is up
  asks,     \* what the user has asked for so far
  failed    \* a job has failed or was cancelled (history)

vars == <<view, cache, ranCca, todo, running, signals, modal, asks, failed>>

Jobs == [kind : {"varec", "decompile"}, func : Funcs, focus : Funcs \cup {NoFunc}]

(* The GUI state a handler works on: s.view, s.cache and s.todo. *)
GuiState == [view |-> view, cache |-> cache, todo |-> todo]

AddJob(s, kind, focus) ==
  [s EXCEPT !.todo = Append(@, [kind |-> kind, func |-> s.view.func, focus |-> focus])]

(* decompile; reset drops the cached code first *)
Decompile(s, focus, reset) ==
  LET t == IF reset THEN [s EXCEPT !.cache = @ \ {s.view.func}] ELSE s IN
  IF s.view.func = NoFunc THEN s
  ELSE AddJob(t, IF s.view.func \in NeedsCca \ ranCca THEN "varec" ELSE "decompile", focus)

Show(s) == [s EXCEPT !.view.code = s.view.func]
Remember(s) == [s EXCEPT !.view.last = s.view.func]

(* _on_new_function: code that is shown already or cached is kept or shown at
   once; the focus address is in the function, so that it moves the cursor *)
(* not the code: code on the screen is taken for that of any function *)
OnNewFunctionKeepsCode(s, focus) ==
  IF s.view.code # NoFunc THEN s
  ELSE IF s.view.func \in s.cache THEN Remember(Show(s))
  ELSE Decompile(s, focus, FALSE)
OnNewFunction(s, focus) ==
  IF s.view.code # NoFunc /\ s.view.last = s.view.func THEN s
  ELSE IF s.view.func \in s.cache THEN Remember(Show(s))
  ELSE Decompile(s, focus, FALSE)
SetFunction(s, f, focus) == OnNewFunction([s EXCEPT !.view.func = f], focus)

(* _focus_core and _on_new_addr: an address the code on the screen does not
   hold makes the view switch to the function that does *)
OnNewAddr(s, a) ==
  IF s.view.code = a \/ a = s.view.func THEN s ELSE SetFunction(s, a, a)
FocusCore(s, focus) == IF focus = NoFunc THEN s ELSE OnNewAddr(s, focus)

(* decomp_ready *)
DecompReady(s, focus) ==
  IF s.view.func \notin s.cache THEN s ELSE Remember(FocusCore(Show(s), focus))
-----------------------------------------------------------------------------
Init ==
  /\ view = [func |-> NoFunc, code |-> NoFunc, last |-> NoFunc]
  /\ cache = {} /\ ranCca = {} /\ todo = <<>> /\ running = <<>> /\ signals = <<>>
  /\ modal = FALSE /\ asks = 0 /\ failed = FALSE

Becomes(s) == view' = s.view /\ cache' = s.cache /\ todo' = s.todo

Ask(s) ==
  /\ ~modal /\ asks < MaxAsks /\ asks' = asks + 1
  /\ Becomes(s)
  /\ UNCHANGED <<ranCca, running, signals, modal, failed>>

(* Workspace.decompile_function: a double click on a call, Tab in the
   disassembly with the instruction selected there *)
DecompileFunction(f, focus) == focus \in {f, NoFunc} /\ Ask(SetFunction(GuiState, f, focus))

(* F5, toggle_struct, and the options or a new prototype, which reset *)
DecompileCurrent(reset) == view.func # NoFunc /\ Ask(Decompile(GuiState, NoFunc, reset))

(* the jump history and synchronized addresses *)
JumpTo(a) == view.code # NoFunc /\ Ask(OnNewAddr(GuiState, a))

Emit(kind) == signals' = Append(signals, [kind |-> kind, job |-> Head(running)])

WorkerStarts ==
  /\ running = <<>> /\ todo # <<>>
  /\ running' = <<Head(todo)>> /\ todo' = Tail(todo)
  /\ signals' = Append(signals, [kind |-> "starting", job |-> Head(todo)])
  /\ UNCHANGED <<view, cache, ranCca, modal, asks, failed>>

(* the results are stored in the worker, before the GUI thread hears of them *)
WorkerEnds ==
  /\ running # <<>> /\ Emit("finished")
  /\ cache' = IF Head(running).kind = "decompile" THEN cache \cup {Head(running).func} ELSE cache
  /\ ranCca' = IF Head(running).kind = "varec" THEN ranCca \cup {Head(running).func} ELSE ranCca
  /\ running' = <<>>
  /\ UNCHANGED <<view, todo, modal, asks, failed>>

(* an exception, or the Cancel button of the dialog *)
WorkerFails ==
  /\ running # <<>> /\ Emit("exception")
  /\ running' = <<>> /\ failed' = TRUE
  /\ UNCHANGED <<view, cache, ranCca, todo, modal, asks>>

Handle(kind) == signals # <<>> /\ Head(signals).kind = kind /\ signals' = Tail(signals)

(* MainWindow._on_job_starting: decompiling blocks the window *)
GuiJobStarting ==
  /\ Handle("starting") /\ modal' = (Head(signals).job.kind = "decompile")
  /\ UNCHANGED <<view, cache, ranCca, todo, running, asks, failed>>

(* not the code: the dialog is reset for jobs that finish only *)
GuiJobExceptionKeepsDialog ==
  /\ Handle("exception")
  /\ UNCHANGED <<view, cache, ranCca, todo, running, modal, asks, failed>>
GuiJobException ==
  /\ Handle("exception") /\ modal' = FALSE
  /\ UNCHANGED <<view, cache, ranCca, todo, running, asks, failed>>

(* decomp, the callback of variable recovery: the function shown now *)
DecompAfterVarec(s, job) == AddJob(s, "decompile", job.focus)
GuiVarecFinished ==
  /\ Handle("finished") /\ Head(signals).job.kind = "varec"
  /\ Becomes(DecompAfterVarec(GuiState, Head(signals).job)) /\ modal' = FALSE
  /\ UNCHANGED <<ranCca, running, asks, failed>>

GuiDecompileFinished ==
  /\ Handle("finished") /\ Head(signals).job.kind = "decompile"
  /\ Becomes(DecompReady(GuiState, Head(signals).job.focus)) /\ modal' = FALSE
  /\ UNCHANGED <<ranCca, running, asks, failed>>

Worker == WorkerStarts \/ WorkerEnds \/ WorkerFails
Gui == GuiJobStarting \/ GuiJobException \/ GuiVarecFinished \/ GuiDecompileFinished

Next ==
  \/ \E f \in Funcs, focus \in Funcs \cup {NoFunc} : DecompileFunction(f, focus)
  \/ \E reset \in BOOLEAN : DecompileCurrent(reset)
  \/ \E a \in Funcs : JumpTo(a)
  \/ Worker
  \/ Gui

Spec == Init /\ [][Next]_vars
(* the worker and the event loop keep running *)
FairSpec == Spec /\ WF_vars(Worker) /\ WF_vars(Gui)
-----------------------------------------------------------------------------
Quiet == todo = <<>> /\ running = <<>> /\ signals = <<>>

(* When every job and signal is done, the code on the screen is that of the
   function shown: no request is lost, although the callbacks look up the
   function anew and a late one may move the view.  Once a job failed this
   is not so: a callback of a request for g may decompile f and focus on g,
   which leaves the view on g with the code of f, and _on_new_function takes
   the code for that of g. *)
SettledShowsFunction ==
  Quiet /\ view.func # NoFunc => view.code = view.func \/ failed

(* The dialog that blocks the window goes away again. *)
WindowIsFreed == modal ~> ~modal
=============================================================================
