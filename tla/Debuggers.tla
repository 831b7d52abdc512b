------------------------------ MODULE Debuggers ------------------------------
(***************************************************************************)
(* The debuggers of an instance and everything that watches them            *)
(* (logic/debugger/debugger.py, data/object_container.py, the simulation     *)
(* and trace debuggers made by ui/workspace.py, ui/toolbars/debug_toolbar.py)*)
(* All of it runs in the GUI thread.  What is hard is that events are plain  *)
(* nested calls: removing a debugger notifies the list's subscribers, one of *)
(* which deselects it, which notifies the watchers, each of which moves its  *)
(* own subscription from one debugger to another.                           *)
(***************************************************************************)
EXTENDS Naturals, SequencesExt, FiniteSets

CONSTANTS
  Traces, Sims,   \* debugger objects that can be made: of traces, of simulations
  None,           \* no debugger
  Views,          \* views with a DebuggerWatcher
  Explorers,      \* those of them that are Call Explorers,
  Tables,         \* and those whose watcher is in a table inside (Registers, Stack)
  Toolbar,        \* the debug toolbar, which has one while it is visible
  MaxStates,      \* bound on the state changes of a debugger
  MaxShows,       \* bound on how often the toolbar is shown
  MaxLoads        \* bound on the projects loaded

Debuggers == Traces \cup Sims
Watchers == Views \cup {Toolbar}
ASSUME DebuggersAssumption ==
  /\ Traces \cap Sims = {} /\ None \notin Debuggers /\ Toolbar \notin Views
  /\ Explorers \subseteq Views /\ Tables \subseteq Views /\ Explorers \cap Tables = {}
  /\ MaxStates \in Nat /\ MaxShows \in Nat /\ MaxLoads \in Nat

VARIABLES
  gui,     \* what the event handlers work on, see Init
  open,    \* the views that are open, and the toolbar while it is visible
  left,    \* the tables whose views were closed: they never hear of it
  failed,  \* history: the Call Explorers a click in which raised
  simgrs,  \* the number of simulation managers of the instance
  madeIn,  \* history: the load of a project each debugger was made after
  loads    \* the number of projects loaded so far

debuggerVars == <<gui, open, left, failed, simgrs, madeIn, loads>>

NotMade == MaxLoads + 1
Nothing == [dbg |-> None, state |-> 0]

DebuggersInit ==
  /\ gui = [list      |-> <<>>, current |-> None,         \* the two managers
            state     |-> [d \in Debuggers |-> 0],        \* which state a debugger is in
            onList    |-> <<"manager">>,                  \* subscribers of the list,
            onCurrent |-> <<>>,                           \* of the current debugger,
            onState   |-> [d \in Debuggers |-> <<>>],     \* and of each debugger's state_changed
            last      |-> [w \in Watchers |-> None],      \* _last_selected_debugger
            shows     |-> [w \in Watchers |-> Nothing],   \* what was read by the callback
            inhibit   |-> {},                             \* _inhibit_update of the Call Explorers
            own       |-> {},                             \* history: not called since their own click
            combo     |-> 0,                              \* the row selected in the toolbar
            raised    |-> FALSE]                          \* history: a listener raised
  /\ open = {} /\ left = {} /\ failed = {}
  /\ simgrs = 0 /\ loads = 0
  /\ madeIn = [d \in Debuggers |-> NotMade]

Row(list, d) == SelectInSeq(list, LAMBDA e : e = d)
Reading(s) ==
  IF s.current = None THEN Nothing ELSE [dbg |-> s.current, state |-> s.state[s.current]]
-----------------------------------------------------------------------------
(* The handlers.  FoldLeft is am_event: the listeners in their order. *)
(* _update_dbg_list_combo: the row of a debugger that is not listed raises,
   which am_event catches *)
SelectInCombo(s) ==
  IF s.current = None \/ Contains(s.list, s.current)
    THEN [s EXCEPT !.combo = Row(s.list, s.current)]
    ELSE [s EXCEPT !.raised = TRUE]

(* state_updated_callback; a Call Explorer that inhibits it does nothing *)
Callback(s, w) ==
  LET t == IF w = Toolbar THEN SelectInCombo(s) ELSE s
  IN  IF w \in s.inhibit THEN s
      ELSE [t EXCEPT !.shows[w] = Reading(t), !.own = @ \ {w}]

Unsubscribe(s, w) ==
  IF s.last[w] = None THEN s
  ELSE [s EXCEPT !.onState[s.last[w]] = RemoveFirst(@, w), !.last[w] = None]
Subscribe(s, w) ==
  IF s.current = None THEN s
  ELSE [s EXCEPT !.onState[s.current] = Append(@, w), !.last[w] = s.current]
DebuggerUpdated(s, w) == Callback(Subscribe(Unsubscribe(s, w), w), w)

SetDebugger(s, d) ==
  LET t == [s EXCEPT !.current = d] IN FoldLeft(DebuggerUpdated, t, t.onCurrent)

(* an event of the list; removed is the debugger taken out, or None *)
ListEvent(s, removed) ==
  FoldLeft(LAMBDA t, l :
             IF l = "combo" THEN SelectInCombo(t)
             ELSE IF removed # None /\ t.current = removed THEN SetDebugger(t, None)
             ELSE t,
           s, s.onList)
AddDebugger(s, d) == ListEvent([s EXCEPT !.list = Append(@, d)], None)
(* not the code: the event says that the list has changed, not how *)
RemoveDebuggerUnsaid(s, d) == ListEvent([s EXCEPT !.list = RemoveFirst(@, d)], None)
RemoveDebugger(s, d) == ListEvent([s EXCEPT !.list = RemoveFirst(@, d)], d)

StateChanged(s, d) ==
  LET t == [s EXCEPT !.state[d] = @ + 1] IN FoldLeft(Callback, t, t.onState[d])

(* DebuggerWatcher of a new view, and a first call of the callback; shutdown *)
Watch(s, w) ==
  Callback(Subscribe([s EXCEPT !.onCurrent = Append(@, w),
                               !.inhibit = @ \ {w}, !.own = @ \ {w}], w), w)
(* not the code: only the container is unsubscribed from *)
ShutdownKeepsState(s, w) == [s EXCEPT !.onCurrent = RemoveFirst(@, w), !.last[w] = None]
Shutdown(s, w) == Unsubscribe([s EXCEPT !.onCurrent = RemoveFirst(@, w)], w)

(* _update_simgr_debuggers, with n simulation managers *)
SimOf(s) == SelectInSeq(s.list, LAMBDA d : d \in Sims)
UpdateSimgrDebuggers(s, n, new) ==
  IF n > 0
    THEN IF SimOf(s) = 0 THEN SetDebugger(AddDebugger(s, new), new) ELSE s
    ELSE IF SimOf(s) # 0 THEN RemoveDebugger(s, s.list[SimOf(s)]) ELSE s

(* _reset_containers: no simulation managers any more, then the debuggers one
   by one, over a copy of the list *)
(* not the code: over the list itself, every other debugger is skipped *)
ResetContainersInPlace(s) ==
  LET t == UpdateSimgrDebuggers(s, 0, None)
  IN  FoldLeft(RemoveDebugger, t, SelectSeq(t.list, LAMBDA d : Row(t.list, d) % 2 = 1))
ResetContainers(s) ==
  LET t == UpdateSimgrDebuggers(s, 0, None) IN FoldLeft(RemoveDebugger, t, t.list)
-----------------------------------------------------------------------------
(* Bound: a table that was left behind is not opened a second time *)
OpenView(v) ==
  /\ v \notin open \cup left /\ open' = open \cup {v}
  /\ gui' = Watch(gui, v) /\ failed' = failed \ {v}
  /\ UNCHANGED <<left, simgrs, madeIn, loads>>
(* Closing a view calls its closeEvent.  Registers and Stack shut down in the
   closeEvent of the table inside, which Qt does not call. *)
CloseView(v) ==
  /\ v \in open /\ open' = open \ {v}
  /\ IF v \in Tables THEN left' = left \cup {v} /\ UNCHANGED gui
     ELSE gui' = Shutdown(gui, v) /\ UNCHANGED left
  /\ UNCHANGED <<failed, simgrs, madeIn, loads>>

(* _on_item_clicked: the trace is replayed up to the call that was clicked; the
   explorer does not follow, so that one can browse in it.  A replay that raises
   leaves the inhibition in place. *)
ClickItem(v) ==
  /\ v \in open \cap Explorers /\ gui.current \in Traces /\ gui.state[gui.current] < MaxStates
  /\ gui' = [StateChanged([gui EXCEPT !.inhibit = @ \cup {v}], gui.current)
               EXCEPT !.inhibit = gui.inhibit, !.own = @ \cup {v}]
  /\ UNCHANGED <<open, left, failed, simgrs, madeIn, loads>>
ClickItemFails(v) ==
  /\ v \in open \cap Explorers /\ gui.current \in Traces
  /\ gui' = [gui EXCEPT !.inhibit = @ \cup {v}] /\ failed' = failed \cup {v}
  /\ UNCHANGED <<open, left, simgrs, madeIn, loads>>

(* _on_visibility_changed; the subscription to the list is never given up *)
ShowToolbar ==
  /\ Toolbar \notin open /\ Len(gui.onList) <= MaxShows /\ open' = open \cup {Toolbar}
  /\ gui' = Watch([gui EXCEPT !.onList = Append(@, "combo")], Toolbar)
  /\ UNCHANGED <<left, failed, simgrs, madeIn, loads>>
HideToolbar ==
  /\ Toolbar \in open /\ open' = open \ {Toolbar} /\ gui' = Shutdown(gui, Toolbar)
  /\ UNCHANGED <<left, failed, simgrs, madeIn, loads>>

Make(d) == madeIn[d] = NotMade /\ madeIn' = [madeIn EXCEPT ![d] = loads]

CreateTraceDebugger(d) ==
  /\ d \in Traces /\ Make(d)
  /\ gui' = SetDebugger(AddDebugger(gui, d), d)
  /\ UNCHANGED <<open, left, failed, simgrs, loads>>

(* create_simulation_manager: the view that selects the new manager changes
   the state of the simulation debugger.  Bound: two managers *)
CreateSimulationManager ==
  \E new \in Sims :
    /\ simgrs < 2 /\ simgrs' = simgrs + 1
    /\ IF SimOf(gui) = 0 THEN Make(new) ELSE UNCHANGED madeIn
    /\ LET t == UpdateSimgrDebuggers(gui, simgrs', new) IN gui' = StateChanged(t, t.list[SimOf(t)])
    /\ UNCHANGED <<open, left, failed, loads>>

(* a row of the combo box; row 0 is no debugger *)
SelectByIndex(i) ==
  /\ Toolbar \in open
  /\ gui' = SetDebugger(gui, IF i = 0 THEN None ELSE gui.list[i])
  /\ UNCHANGED <<open, left, failed, simgrs, madeIn, loads>>

(* _on_stop; a simulation cannot be stopped *)
Stop ==
  /\ Toolbar \in open /\ gui.current \in Traces
  /\ gui' = RemoveDebugger(gui, gui.current) /\ UNCHANGED <<open, left, failed, simgrs, madeIn, loads>>

(* The trace is stepped or replayed through the current debugger; a simulation
   reports a finished job or a state selected in its view, current or not, and
   also after it was removed *)
ChangeState(d) ==
  /\ madeIn[d] # NotMade /\ (d = gui.current \/ d \in Sims)
  /\ gui.state[d] < MaxStates
  /\ gui' = StateChanged(gui, d) /\ UNCHANGED <<open, left, failed, simgrs, madeIn, loads>>

LoadProject ==
  /\ loads < MaxLoads /\ loads' = loads + 1
  /\ simgrs' = 0 /\ gui' = ResetContainers(gui)
  /\ UNCHANGED <<open, left, failed, madeIn>>

DebuggersNext ==
  \/ \E v \in Views : OpenView(v) \/ CloseView(v)
  \/ \E v \in Explorers : ClickItem(v) \/ ClickItemFails(v)
  \/ ShowToolbar
  \/ HideToolbar
  \/ \E d \in Debuggers : CreateTraceDebugger(d) \/ ChangeState(d)
  \/ CreateSimulationManager
  \/ \E i \in 0 .. Len(gui.list) : SelectByIndex(i)
  \/ Stop
  \/ LoadProject

DebuggersSpec == DebuggersInit /\ [][DebuggersNext]_debuggerVars
-----------------------------------------------------------------------------
(* What is open is subscribed once to the state of the current debugger and to
   that of no other, after any opening, closing, selecting and removing, and what
   was closed to none: no callback is lost, doubled or left behind
   (DebuggerWatcher).  Only the tables of closed Registers and Stack views go on
   for ever like open ones. *)
WatchersFollow ==
  \A w \in Watchers, d \in Debuggers :
    Cardinality({i \in DOMAIN gui.onState[d] : gui.onState[d][i] = w}) =
      IF w \in open \cup left /\ d = gui.current THEN 1 ELSE 0

(* What is open shows the current debugger, in its current state, and the
   toolbar has its row selected.  A Call Explorer does not follow its own clicks,
   only what comes after them (_on_item_clicked), and shows anything once a click
   in it has raised.  The row is looked up while events are still
   being passed on, and is found each time: the manager deselects a debugger
   before the toolbar hears that it was removed. *)
ShowsCurrent ==
  /\ \A w \in open \ failed :
       IF w \in gui.own THEN gui.shows[w].dbg = gui.current ELSE gui.shows[w] = Reading(gui)
  /\ Toolbar \in open => gui.combo = Row(gui.list, gui.current)
  /\ ~gui.raised

(* There is one debugger for all simulation managers, and none without them
   (_update_simgr_debuggers), and no debugger outlives the project it was made
   for (_reset_containers). *)
ListFitsProject ==
  /\ Cardinality({i \in DOMAIN gui.list : gui.list[i] \in Sims}) = IF simgrs > 0 THEN 1 ELSE 0
  /\ \A i \in DOMAIN gui.list : madeIn[gui.list[i]] = loads
=============================================================================
