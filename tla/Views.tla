-------------------------------- MODULE Views --------------------------------
(***************************************************************************)
(* The views of a workspace and their synchronization (ui/view_manager.py,  *)
(* ui/views/view.py, with the handlers of ui/views/hex_view.py,             *)
(* ui/views/disassembly_view.py and its logic/disassembly/info_dock.py).     *)
(* All of it runs in the GUI thread; what is hard is that every handler      *)
(* calls into the others: closing a dock closes its view, closing a view     *)
(* removes it, removing it closes its dock, and a cursor that moves makes    *)
(* the synchronized views move theirs and select anew.  A disassembly view   *)
(* shows a graph.                                                            *)
(***************************************************************************)
EXTENDS Integers, FiniteSets

CONSTANTS
  HexViews, CodeViews,  \* view objects: hex and disassembly views
  PlainViews,           \* views that cannot be synchronized
  Category(_),          \* view.category
  Addrs, NoAddr,        \* addresses of instructions, None
  FuncStart(_),         \* the start of the function an address belongs to
  HexShows              \* the addresses a hex view can show

Synced == HexViews \cup CodeViews
Views == Synced \cup PlainViews
ASSUME ViewsAssumption ==
  /\ HexViews \cap CodeViews = {} /\ Synced \cap PlainViews = {}
  /\ NoAddr \notin Addrs /\ HexShows \subseteq Addrs
  /\ \A a \in Addrs : FuncStart(a) \in Addrs /\ FuncStart(FuncStart(a)) = FuncStart(a)
  /\ IsFiniteSet(Views)

VARIABLES
  mgr,     \* the ViewManager
  index,   \* view.index
  at,      \* the cursor of each hex view, the function of each disassembly view
  sel,     \* selected_insns
  sync,    \* sync_state: the group a view is in; a group is named by a view
  state,   \* the SynchronizedViewState of each group
  green,   \* what each hex view highlights for the others
  removed  \* history: views that were removed without a close event

syncVars == <<at, sel, sync, state, green>>
vars == <<mgr, index, at, sel, sync, state, green, removed>>

NoGreen == [v \in Synced |-> {}]
Fresh == [views |-> {}, cursor |-> NoAddr, regions |-> NoGreen]

ViewsInit ==
  /\ mgr = [views |-> {}, docks |-> {}, docked |-> {}, category |-> {}, activation |-> {}]
  /\ index = [v \in Views |-> 1]
  /\ at = [v \in Synced |-> NoAddr] /\ sel = [v \in Synced |-> {}]
  /\ sync = [v \in Synced |-> v]
  /\ state = [g \in Synced |-> Fresh]
  /\ green = [v \in HexViews |-> NoGreen]
  /\ removed = {}

Open == mgr.views
-----------------------------------------------------------------------------
(* The manager.  A dock is named by its view; docked is view_to_dock, and
   category holds the views of all views_by_category.  The order of the lists
   is left out. *)
FreeIndex(v) ==
  LET taken == {index[w] : w \in {w \in mgr.category : Category(w) = Category(v)}}
  IN  CHOOSE i \in 1 .. Cardinality(taken) + 1 :
        i \notin taken /\ \A k \in 1 .. i - 1 : k \in taken

Added(m, v) == [list \in DOMAIN m |-> m[list] \cup {v}]

(* closeDockWidget emits closed, whose handler finds no view any more *)
DockDropped(m, v) == [m EXCEPT !.docks = @ \ {v}]
(* not the code: the dock is left to itself *)
RemoveViewNoDock(m, v) ==
  IF v \notin m.views THEN m
  ELSE [m EXCEPT !.views = @ \ {v}, !.category = @ \ {v}, !.docked = @ \ {v},
                 !.activation = @ \ {v}]
RemoveView(m, v) ==
  IF v \notin m.views THEN m
  ELSE LET taken == [m EXCEPT !.views = @ \ {v}, !.category = @ \ {v}, !.docked = @ \ {v}]
           alone == IF v \in m.docked THEN DockDropped(taken, v) ELSE taken
       IN  [alone EXCEPT !.activation = @ \ {v}]

(* _on_dock_widget_closed: the close event of the view removes it, and then
   the handler does *)
DockClosed(m, v) ==
  IF v \notin m.docks THEN m
  ELSE LET popped == [m EXCEPT !.docks = @ \ {v}, !.docked = @ \ {v}]
       IN  IF v \in m.docked THEN RemoveView(RemoveView(popped, v), v) ELSE popped
-----------------------------------------------------------------------------
(* Synchronization: s.at, s.sel, s.sync, s.state, s.green.  The handlers below
   are those of the views of a group, in no order that matters. *)
Now == [at |-> at, sel |-> sel, sync |-> sync, state |-> state, green |-> green]
Commit(s) ==
  /\ at' = s.at /\ sel' = s.sel /\ sync' = s.sync /\ state' = s.state /\ green' = s.green

(* _update_highlight_regions_from_synchronized_views, in each view of vs *)
RegionsChanged(s, vs) ==
  [s EXCEPT !.green = [h \in HexViews |->
     IF h \in vs THEN [s.state[s.sync[h]].regions EXCEPT ![h] = {}] ELSE @[h]]]

(* update_highlight_regions_for_synchronized_views, which hears of every change
   of the instructions selected *)
SetRegions(s, v, insns) == [s EXCEPT !.state[s.sync[v]].regions[v] = insns]
PublishRegions(s, v) ==
  LET t == SetRegions(s, v, s.sel[v])
  IN  RegionsChanged(t, t.state[t.sync[v]].views \ {v})

(* jump_to in the views that are told of the cursor of their group: it cannot
   publish a cursor, but a disassembly view shows the function and publishes the
   instruction it selects.  A hex view ignores an address it does not show.  What
   they leave does not depend on which of them is told first. *)
Shows(v, a) == v \in HexViews => a \in HexShows
Follow(s, vs, a) ==
  LET codes == vs \cap CodeViews
      t == [s EXCEPT
             !.at = [v \in Synced |-> IF v \in codes THEN FuncStart(a)
                                     ELSE IF v \in vs /\ Shows(v, a) THEN a ELSE s.at[v]],
             !.sel = [v \in Synced |-> IF v \in codes THEN {a} ELSE s.sel[v]],
             !.state = [g \in Synced |->
               [s.state[g] EXCEPT !.regions = [v \in Synced |->
                  IF v \in codes /\ s.sync[v] = g THEN {a} ELSE s.state[g].regions[v]]]]]
  IN  RegionsChanged(t, UNION {t.state[t.sync[v]].views \ {v} : v \in codes})

(* set_synchronized_cursor_address *)
PublishCursor(s, v, a) ==
  LET t == [s EXCEPT !.state[s.sync[v]].cursor = a]
  IN  Follow(t, t.state[t.sync[v]].views \ {v}, a)

(* unregister_view and the rest of sync_with_state_object; a group that nobody is
   in any more is forgotten *)
(* not the code: the regions of the view stay behind *)
UnregisterKeepsRegions(s, v) == [s EXCEPT !.state[s.sync[v]].views = @ \ {v}]
Leave(s, v) ==
  LET left == s.state[s.sync[v]].views \ {v}
  IN  [s EXCEPT !.state[s.sync[v]] = IF left = {} THEN Fresh ELSE [@ EXCEPT !.views = left]]
Unregister(s, v) ==
  LET g == s.sync[v]
      t == SetRegions(s, v, {})
      u == IF s.state[g].regions[v] = {} THEN t ELSE RegionsChanged(t, t.state[g].views)
  IN  Leave(u, v)
Register(s, v, g) == [s EXCEPT !.sync[v] = g, !.state[g].views = @ \cup {v}]
(* not the code: the view does not take over the cursor of its group *)
SyncFromRegionsOnly(s, v) == RegionsChanged(s, {v})
SyncFromState(s, v) ==
  LET a == s.state[s.sync[v]].cursor
      t == IF a = NoAddr THEN s ELSE Follow(s, {v}, a)
  IN  RegionsChanged(t, {v})

Unused(s) == CHOOSE g \in Synced : s.state[g].views = {}
NewState(s, v) == Register([s EXCEPT !.state[Unused(s)] = Fresh], v, Unused(s))
Desync(s, v) == LET t == Unregister(s, v) IN SyncFromState(NewState(t, v), v)
SyncWith(s, v, g) == SyncFromState(Register(Unregister(s, v), v, g), v)

(* The selection of a disassembly view: its changes are published, and
   select_instruction also publishes the cursor, whether or not the instruction
   was selected. *)
SetSelected(s, v, insns) == PublishRegions([s EXCEPT !.sel[v] = insns], v)
Select(s, v, a, unique) ==
  LET t == PublishCursor(s, v, a)
  IN  IF a \in s.sel[v] THEN t
      ELSE SetSelected(t, v, IF unique THEN {a} ELSE s.sel[v] \cup {a})
(* _display_function *)
ShowFunction(s, v, f) == SetSelected([PublishCursor(s, v, f) EXCEPT !.at[v] = f], v, {})

(* on_cursor_changed of a hex view, _jump_to of a disassembly view *)
JumpTo(s, v, a) ==
  IF v \in HexViews
    THEN PublishCursor([s EXCEPT !.at[v] = a], v, a)
    ELSE Select(ShowFunction(s, v, FuncStart(a)), v, a, TRUE)
-----------------------------------------------------------------------------
(* a new view has a sync state of its own; new_disassembly_view goes on with a
   MoveCursor *)
AddView(v) ==
  /\ v \notin Open \cup removed /\ UNCHANGED removed
  /\ mgr' = Added(mgr, v)
  /\ index' = [index EXCEPT ![v] = FreeIndex(v)]
  /\ IF v \in PlainViews THEN UNCHANGED syncVars
     ELSE Commit(NewState(Now, v))

(* the user closes the tab: the close event desynchronizes the view.  Its own
   new group is dropped with it, and so is the view: it is another one that is
   opened later. *)
Closed(s, v) ==
  LET t == Desync(s, v)
  IN  [t EXCEPT !.state[t.sync[v]] = Fresh, !.at[v] = NoAddr, !.sel[v] = {}, !.sync[v] = v,
                !.green = [h \in HexViews |-> IF h = v THEN NoGreen ELSE @[h]]]
CloseView(v) ==
  /\ v \in Open /\ mgr' = DockClosed(mgr, v) /\ UNCHANGED <<index, removed>>
  /\ IF v \in PlainViews THEN UNCHANGED syncVars ELSE Commit(Closed(Now, v))

(* a view closes itself: its close event removes it, which closes the dock *)
ViewClosesItself(v) ==
  /\ v \in Open \cap PlainViews /\ mgr' = RemoveView(mgr, v)
  /\ UNCHANGED <<index, removed>> /\ UNCHANGED syncVars

(* Workspace.remove_view, which a plugin calls for its disassembly view: there
   is no close event, so the view stays in its group.  Bound: that view object
   is not used again. *)
PluginRemovesView(v) ==
  /\ v \in Open \cap CodeViews /\ mgr' = RemoveView(mgr, v)
  /\ removed' = removed \cup {v}
  /\ UNCHANGED index /\ UNCHANGED syncVars

(* the submenu "Synchronize with": the groups of the open views; unchecking
   the own group leaves it *)
Synchronize(v, w) ==
  /\ {v, w} \subseteq Open \cap Synced /\ v # w
  /\ Commit(IF sync[v] = sync[w] THEN Desync(Now, v) ELSE SyncWith(Now, v, sync[w]))
  /\ UNCHANGED <<mgr, index, removed>>

MoveCursor(v, a) ==
  /\ v \in Open \cap Synced /\ (v \in HexViews => a \in HexShows)
  /\ Commit(JumpTo(Now, v, a)) /\ UNCHANGED <<mgr, index, removed>>

(* a function is chosen from the list of functions *)
DisplayFunction(v, f) ==
  /\ v \in Open \cap CodeViews /\ FuncStart(f) = f
  /\ Commit(ShowFunction(Now, v, f)) /\ UNCHANGED <<mgr, index, removed>>

(* In the function shown, an instruction or an operand of it is clicked, with or
   without Ctrl; a selected instruction is clicked again; a label is clicked; a
   variable is, which unselects the instructions. *)
OfFunctionShown(v, a) == v \in Open \cap CodeViews /\ at[v] # NoAddr /\ FuncStart(a) = at[v]
SelectInstruction(v, a, unique) ==
  /\ OfFunctionShown(v, a)
  /\ Commit(Select(Now, v, a, unique)) /\ UNCHANGED <<mgr, index, removed>>
UnselectInstruction(v, a) ==
  /\ OfFunctionShown(v, a) /\ a \in sel[v]
  /\ Commit(SetSelected(Now, v, sel[v] \ {a})) /\ UNCHANGED <<mgr, index, removed>>
SelectLabel(v, a) ==
  /\ OfFunctionShown(v, a)
  /\ Commit(LET t == PublishCursor(Now, v, a)
            IN  IF sel[v] = {} THEN t ELSE SetSelected(t, v, {}))
  /\ UNCHANGED <<mgr, index, removed>>
SelectVariable(v) ==
  /\ v \in Open \cap CodeViews /\ sel[v] # {}
  /\ Commit(SetSelected(Now, v, {})) /\ UNCHANGED <<mgr, index, removed>>

ViewsNext ==
  \E v \in Views :
    \/ AddView(v)
    \/ CloseView(v)
    \/ ViewClosesItself(v)
    \/ PluginRemovesView(v)
    \/ \E w \in Views : Synchronize(v, w)
    \/ \E a \in Addrs :
         \/ MoveCursor(v, a)
         \/ DisplayFunction(v, a)
         \/ \E unique \in BOOLEAN : SelectInstruction(v, a, unique)
         \/ UnselectInstruction(v, a)
         \/ SelectLabel(v, a)
    \/ SelectVariable(v)

ViewsSpec == ViewsInit /\ [][ViewsNext]_vars
-----------------------------------------------------------------------------
(* However a view goes, through its tab or by itself, the lists of the manager
   agree on what is open and each view has its dock
   (_on_dock_widget_closed and remove_view call each other); and two open views
   of a category have different captions, also after views of it were closed
   (_update_view_index_in_category). *)
ManagerAgrees ==
  /\ \A list \in DOMAIN mgr : mgr[list] = Open
  /\ \A v, w \in Open : v # w /\ Category(v) = Category(w) => index[v] # index[w]

(* The group of an open view has exactly the open views that are synchronized
   with it, and those that left without a close event; a hex view highlights
   what the others of its group have published as selected since they joined it,
   and nothing of a view that has left it (unregister_view, register_view,
   closeEvent). *)
Present == (Open \cup removed) \cap Synced
GroupsAgree ==
  /\ \A v \in Open \cap Synced : state[sync[v]].views = {w \in Present : sync[w] = sync[v]}
  /\ \A h \in Open \cap HexViews : green[h] = [v \in Synced |->
       IF v # h /\ v \in Present /\ sync[v] = sync[h] THEN state[sync[h]].regions[v] ELSE {}]

(* The views of a group show its cursor: a hex view is on it, if it can show
   it, and a disassembly view shows the function around it, whichever view
   moved, selected or joined last (set_synchronized_cursor_address,
   select_instruction, sync_from_state). *)
GroupShowsCursor ==
  \A v \in Open \cap Synced : LET a == state[sync[v]].cursor IN
    a # NoAddr =>
      IF v \in HexViews THEN a \in HexShows => at[v] = a
      ELSE at[v] = FuncStart(a)
=============================================================================
