# A TLA+ verification project for angr management

angr management is a Qt front end for the angr binary analysis platform. This
directory holds TLA+ models of its stateful logic, TLC configurations that
model-check them on small instances, and theorems whose proofs TLAPS checks.
Every definition is translated from the Python source under
`src/angrmanagement` (paths below are relative to it); `PROJECT.json` maps each
definition to its lines.

## 1. Inventory

| Component | State | Operations | What is hard | Modelled |
|---|---|---|---|---|
| Job manager and worker (`logic/jobmanager.py`, `data/jobs/job.py`) | list of jobs, current job, `Job.state`, two queues of signals | add, cancel, interrupt, join, quit; `execute_job`; handlers of the worker's signals | two threads share `Job.state` without a lock; queued signals; callbacks that raise | yes |
| Jobs view, status bar (`ui/widgets/qjobs.py`, `ui/widgets/qam_status_bar.py`) | a row and a Cancel button per job, the busy indicator | handlers of the manager's signals | a row is painted from a state read later than the signal was sent | yes |
| Calls into the GUI thread (`logic/threads.py`, `MainWindow.event`) | posted events, a `threading.Event` each | schedule and wait, asynchronous schedule | threads that wait for each other | partly |
| Instance, loading, CFG generation (`data/instance.py`, `data/jobs/loading.py`, `data/jobs/cfg_generation.py`, `logic/analysis_manager.py`, `ui/workspace.py`) | project, CFG, CFB, refresh threads | load a binary or a database, run the CFG job, peek, store, refresh | results of a job applied to a newer project; three threads | partly |
| Feature map (`ui/widgets/qfeature_map.py`) | interval maps by level of detail, layout, hover, refresh flag | announce an object, refresh, reload, paint, click, resize | filled by the worker while the GUI thread paints and refreshes | partly |
| Tagged interval map (`data/tagged_interval_map.py`) | sorted stops with tags | add, query | splitting and merging intervals | yes |
| Decompilation pipeline (`ui/views/code_view.py`, `data/jobs/decompile_function.py`) | function shown, code on the screen, cache, jobs in flight | decompile, function changed, jump | callbacks use the function shown when they run | partly |
| Navigation history (`logic/disassembly/jump_history.py`) | list of addresses, position | jump, record, back, forward, to a step, trim | off-by-one at both ends; truncation | yes |
| Disassembly view (`ui/views/disassembly_view.py`, `logic/disassembly/info_dock.py`) | function, viewer in use, selection, history | jump, back, forward, select, switch, undefine, reload | a jump selects, a selection moves what is shown, either switches the viewer | partly |
| Linear disassembly (`ui/widgets/qlinear_viewer.py`) | byte offset, line in the object there, objects painted | scroll, slider, navigate, reload | lines turned into offsets across regions and gaps | yes |
| Hex view (`ui/views/hex_view.py`) | cursor, selection, viewport, clipboard; the patches of the project | keys, mouse, scroll, type, paste, split, merge, revert, change of source | rows that regions do not fill; inclusive and exclusive ends | partly |
| View manager and synchronization (`ui/view_manager.py`, `ui/views/view.py`) | views, docks, categories, groups with a cursor and regions | open, close, remove, join, leave, move, select | callbacks that run inside each other | partly |
| Plugin manager (`plugins/plugin_manager.py`) | active plugins, what they registered | activate, deactivate, dispatch | partial failure; dispatch on two threads | partly |
| Debuggers (`logic/debugger/`, `ui/toolbars/debug_toolbar.py`), event containers (`data/object_container.py`) | list, current debugger, subscriptions | add, remove, select, change state, watch | notifications that run other notifications | yes, containers partly |
| Single instance lock and daemon start (`logic/singleton.py`, `daemon/server.py`, `MainWindow._run_daemon`) | lock file, server, connections | acquire, release, probe, start, connect, disconnect, monitor | several processes; check-then-act on the lock | partly |
| Daemon requests (`daemon/`) | registry of targets | register, open, jump, comment, select | stale registry entries | no |
| Breakpoints (`data/breakpoint.py`) | breakpoints | add, remove, toggle, clear, look up | - | no |
| Coverage, trace and other plugins | caches, polling threads | - | external services and files | no |
| Graph of a function (`utils/graph.py`) | nodes of merged blocks and their links | convert a transition graph | nodes merged while their links are off the graph | partly |
| Graph layout (`utils/graph_layouter.py`) | rows, columns, lanes and routes of a drawing | lay out a graph | blocks move against each other in two passes; a search for a free column without a bound | partly |
| Other views, widgets, dialogs, menus, toolbars, themes | what is drawn | painting, input | presentation | no |

How they interact. The GUI thread runs everything but `Worker.execute_job`, the
daemon's service threads, the refresh thread of a CFG job and a few polling
threads. Views and menus add jobs to the job manager; its worker sends signals
back, which Qt queues; the manager sends them on to the jobs view and the status
bar; `on_finish` callbacks store results in the instance, whose containers notify
the views by plain nested calls. Work that must run in the GUI thread is posted to
the main window. A CFG job also notifies a container from the worker thread, for
the feature map. A simulation step dispatches to plugins on the worker thread.
Windows and URL handlers are processes of their own and meet in the daemon process.

What makes each correct is stated as properties, listed by run in section 3; the
hazards they are for are in `PROJECT.json`, each at its line.

## 2. Modules

| Module | Models |
|---|---|
| `JobManager` | both threads of the job manager and the waiting call of `logic/threads.py` |
| `JobQueue` | what the job manager promises: an abstract first-in first-out server |
| `JobsView` | `JobManager` composed with the jobs table and the status bar |
| `JobManagerProofs` | theorems about `JobManager` and `JobsView`; that the manager implements `JobQueue` |
| `Loading` | the project of an instance, the CFG job, its temporary and final results, the refresh threads |
| `LoadingProofs` | theorems about `Loading`, `FeatureMap` and `TaggedIntervals` |
| `FeatureMap` | the strip of the feature map and the CFG job that fills it |
| `TaggedIntervals` | the methods of the tagged interval map, as operators on its sorted dictionary |
| `CodeView`, `CodeViewProofs` | the decompilation pipeline of the pseudocode view; theorem about it |
| `JumpHistory` | the history and the operations of a disassembly view on it |
| `BrowserHistory` | what the history promises: a past, an address shown, a future |
| `LinearViewer` | the linear disassembly, as operators on its position |
| `DisassemblyView` | composes `JumpHistory` and `LinearViewer` with the graph, the selection and the undefining of code |
| `DisassemblyProofs` | theorems about `JumpHistory`, that it implements `BrowserHistory`, and about `DisassemblyView` |
| `HexCursor`, `HexPatches` | cursor, selection and viewport of the hex view; the patches it edits |
| `Views` | the view manager and synchronized views |
| `ViewsProofs` | theorems about `HexCursor` and `Views` |
| `Plugins` | the plugin manager |
| `SuperGraph` | merging the blocks of a transition graph |
| `GraphLayout`, `GraphLayoutProofs` | the layout of a graph of blocks; theorems about it and about `SuperGraph` |
| `Debuggers` | debugger list, current debugger, watchers, toolbar, and the containers that connect them |
| `WorkspaceProofs` | theorems about `Plugins`, `Debuggers` and `HexPatches` |
| `SingleInstance` | the lock file, one action per system call |
| `Daemon` | composes `SingleInstance` with clients and daemons that start and end |
| `DaemonProofs` | theorems about `Daemon` |
| `MC*` | constants of the instances TLC checks |

An operator whose comment calls it a mutant, or "not the code", is a plausible bug
in the operator after it; the properties are shown to notice it.

### The job manager and its widgets

`jobState`, `jobs` and `currentJob` are `Job.state`, `JobManager.jobs` and
`_current_job`. `workQueue` holds the `job_added` signals on their way to the
worker, `guiQueue` the signals and posted events on their way to the GUI thread;
Qt delivers both in order. `pc` and `active` say where the worker is in
`execute_job`, which is one action per stretch of code between two points where
a write of the GUI thread could matter: the test for PENDING (`StartJob`,
`SkipJob`), the write of RUNNING (`MarkRunning`), the first progress report
(`FirstProgress`), the run itself (`ReportProgress`, `CallGui`, `RunReturns`,
`RunRaises`), the test for RUNNING (`CheckState`), the write of FINISHED
(`MarkFinished`), the last report (`LastProgress`) and `job_finished`
(`EmitFinished`). A GUI action is a whole handler, since nothing else runs in
that thread meanwhile. What a job computes is left open: it may report progress,
call into the GUI thread and wait, return or raise. The callable it posts, and
`on_finish`, may add another job. `submitted`, `result` and `finishRun` record
the past for the properties only.

`JobsView` extends each handler with what the listeners of the manager's signals
do: `change_job_state` paints the row from `job.state` as it is at that moment
and has no branch for FAILED or PENDING, `add_new_job` adds a row, the status bar
becomes busy or idle. A handler that raises in `on_finish` sends nothing on.

### Loading and the CFG

`inst` holds the project, the CFG and the CFB of the instance, each with the
project it was made of. A loading job builds a project on the worker thread and
hands it to the GUI thread; a CFG job reads the project three times (`MakeTemporaryCfb`,
`BeginCfg`, `MakeFinalCfb`), posts peeks, and ends through `OnCfgGenerated`. A
database replaces the project in a handler of the GUI thread, also while a CFG job
runs: `overtaken` records the jobs it happens to. The thread started for each CFG
job ends when it sees the job ended (`EndWatcher`).

### The feature map

`maps` has one interval map per level of detail. `ObjectAdded` is the container's
event in the worker thread: it adds the object to every level and posts a refresh
unless one is marked as pending or the last was less than 1/30 s ago (`recent`).
`posted` is what waits for the GUI thread, in order: refreshes, peeks, which put
the temporary CFB in the container without an event, and the end of the job, which
stores the final CFB and reloads. A refresh lays the regions out first; a hovered
region that is not among them is a `KeyError` that leaves the rest undone. Layout,
widths (rounded as in Python), levels of detail, clipping and the two translations
between pixels and addresses are operators, which the properties use on whatever
`maps` and `layout` are. The address at a pixel is computed in doubles and cut off, so a
whole number of bytes may come out one lower: `AddrsAtPosition` has both outcomes, and is
exact otherwise, which holds while a region's size times the width of the strip is below
2^51.

### The decompilation pipeline

`view` is the function, the code shown and the last function; `todo`, `running` and
`signals` are the jobs of the worker and what it has sent. `decompile` uses the
cache, asks for variable recovery first where the prototype is unknown, and its
callbacks look up the function shown when they run. Addresses are abstracted to
the function that holds them.

### The disassembly view

`history` and `pos` are `_history` and `_pos`, with positions from 0 as in the
code, and `raised` records an `IndexError`. `linear` is the position of the linear
viewer: an offset into the regions laid end to end and a line of the object there;
`cache` keeps objects as they were first painted. `disasm` holds the function, the
viewer in use, the selected instructions and labels. Each user operation (click,
jump, back, forward, scroll, slider, toggle, reload) is one action that composes
the operators of the methods it calls. `UndefineCode` takes a function out of the
knowledge base and `CfgGenerated` brings the next version of the code. Blocks have
one instruction; operands, variables and hovering are left out.

### The hex view

`HexCursor` keeps the attributes of `HexGraphicsObject` in one record and each
method is an operator on it, so that a handler is the composition of the calls it
makes: rounding to rows, capping at the last offset, moving the viewport when the
cursor leaves it. `HexPatches` has the patches as a function from addresses to
bytes; every write cuts, shrinks, removes or extends those it meets. The cursor is
an input there, so the two have no state in common and `MCHex` moves one of them in a
behaviour. `KeyShowsCursor` makes an exception of page keys that scroll by rows of the
region rather than of the screen; `PageKeepsRow` says which of them keep the cursor in
sight.

### The graph of a function and its layout

`SuperGraph` is `to_supergraph`: `Shrunk` are the edges to remove, `super` has
`supernodes_map`, the blocks each node holds, and the super graph; a block converted is
one round of the loop, with its edges in any order. Blocks come in any order too, since
the loop takes that of the transition graph, a library's; `late` remembers those that
came before the block they are joined to. Nodes are named after the block they were made of;
`out_branches` are left out.

In `GraphLayout`, `phase` and `todo` say which loop of `_layout` runs and which nodes
it has not come to; `rows`, `cols` and `maxCol` are `_rows`, `_cols` and `global_max_col`; `row` and `next`
are what the passes carry from one node to the next. Nodes are numbered in the order
of `quasi_topological_sort_nodes`, which is a library's. An action puts one node into a
row or a column, or routes one edge. The loops over predecessors and successors, whose
order is that of the edges, become the set of their outcomes (`Grown`), and the search
of `_detect_overlap` the least free suggestion. A negative column wraps around, as in
Python (`EdgeAvailable`). Edges are routed source by source, as networkx gives them;
`routes` and `lanes` are the points of an edge and the cells and lanes it takes. The
coordinates of the blocks are operators on the finished grid; those of the bends are
left out, so that `RoutesAndBlocksApart` is about the cells of a route and not about the
lines drawn for it (section 6). What is laid out is an input: `MCGraphLayout` either merges blocks or lays
a graph out in a behaviour.

### Views

`mgr` is the view manager with its docks and categories, `sync` and `state` the
groups of synchronized views with the cursor and the regions of each, `green` what
a hex view highlights for the others. `at` is the cursor of a hex view and the function
a disassembly view shows, in its graph; `sel` are the instructions it has selected.
Closing a dock closes its view, which leaves its group and is removed, which closes its
dock: an action is the whole cascade, and what a closed view and a group without views
held is forgotten. A new disassembly view of the workspace is `AddView`, then `MoveCursor`. Changes
of a selection are published as regions, and `select_instruction` also publishes a
cursor, which the other views of the group follow (`Follow`); the handlers of the mouse
are `SelectInstruction`, `UnselectInstruction`, `SelectLabel` and `SelectVariable`, where
a double click is a click and a selection. Instructions and operands are alike here, and
hovering is left out.

### Plugins

The GUI thread loads the file of a plugin (`Load`), makes an object of each of its
classes (`Activate`, which enters it in place of that of the class before) and registers
what it brings, `Registers`, one thing at a time and each in two steps: `RegisterHalf`
and `Register` add it to the user interface and remember it, in the order the code has
for its kind (`AddedFirst`). `at` says how far it is. Any step may raise
(`StopActivating`); a sensitive dispatch that raises deactivates the plugin, and taking
out what was remembered and never added raises in turn (`Breaks`), before the teardown.
The worker thread dispatches simulation steps in between. `raced`, `replaced` and `cut`
record the objects that one thread deactivated while the other was in the middle of
them, those another class replaced, and the things at which a registration broke off.

### Debuggers

All of it runs in the GUI thread: `gui` is one record of lists, subscriptions and
what each watcher shows, and an event is the composition of its listeners, which may
change the list of listeners it walks over. `open` and `left` are the views that are
open and those that were closed without ending their watcher; a click in a Call Explorer
changes the state while its own callback is inhibited (`ClickItem`), and inhibits it for
good when the replay raises (`ClickItemFails`).

### The lock and the daemon

A lock belongs to the open file, not to its path (`holder`, `fd`, `path`);
`open`, `lockf`, `isfile` and `unlink` are actions. In `Daemon`, a client probes
with `SingleInstance`, may start a daemon, and connects; a window retries for
ever, a URL handler tries once. A daemon takes the lock, binds the port, serves,
and its monitor closes it after `IdleLimit` polls without a connection. The
accepted connection and `on_connect` are two steps. Any process in `Mortal` may
be killed at any time. The Windows branch of the lock is not modelled.

## 3. Runs

| Run | Shows | Instance |
|---|---|---|
| `jobs` | the list of jobs covers everything in flight; orphans have a known cause; a job is reported once and soundly; the current job catches up; rows and status bar follow; cancellations are lost only in known windows; `JobQueue` is implemented; jobs are settled; the GUI thread's waits for the worker end | 2 jobs, one calls the GUI thread |
| `loading` | results in the instance are of its project unless a database overtook the job; when all is quiet the final results are in place; refresh threads end | 2 files, 3 jobs |
| `feature_map` | every level says what was announced in as few stops as that takes; what is painted is that; a click selects a byte drawn there or ending there; the final CFB replaces all; a pending refresh is on its way but for one cause | 2 binaries, 2 CFG jobs, bins of 4, 2, 1, strips of 3 and 12 pixels, 2 calls posted |
| `code_view` | when all is done the code shown is that of the function; the window is freed | 2 functions, one needs variable recovery, 4 requests |
| `disassembly` | back returns to the source of a jump; scrolling moves by lines, but for an object passed over above a byte of no object; a jump shows its target; `BrowserHistory` is implemented | 2 regions with a gap, a byte of no object at the end of the first, an object of each kind, the CFB before and after one function became data, 3 addresses of which one is in no region, 2 history entries, 3 lines, one undefining |
| `hex` | the cursor stays in the region; movement keys bring it onto the screen, page keys with an exception; until an assembled patch is put over another, patches are disjoint, and a write changes only its bytes, a split or merge none | rows of 3 bytes, windows of 1 to 3 rows, addresses 4 to 10; 4 addresses, one without memory, 3 edits |
| `graph_layout` | edges lead down, blocks of a row are apart and the margins free; the cells of a route hold no block, routes that run together there have lanes of their own, and the blocks on the screen are disjoint; merging blocks keeps every block and edge, but where a block came before the one it is joined to and an edge leads from their node back to itself | 5 nodes, at most 5 edges of 13 pairs, every node reached from the first, and two graphs of 6 edges; two orders of keys, rows sorted either way, the margins of the code; transition graphs of 4 blocks in any order, at most one of them not reached, a returning and a non-returning function, calls and exits |
| `views` | views, docks and categories agree and captions differ; groups agree with their views and highlights; a group shows its cursor | a hex view, two disassembly views, a plain one; two instructions of a function and a function outside the memory of the hex view |
| `plugins` | what is in the user interface belongs to an active plugin, with four exceptions (sections 4 and 6); no plugin is torn down twice unless the threads race | 2 plugins, a thing of each of 4 kinds, 2 objects |
| `debuggers` | what is open is subscribed to the current debugger once and shows its state; the list fits the project | 2 traces, 2 simulations, a Call Explorer, a table and the toolbar, one reload, symmetry |
| `daemon_start` | a client that waits waits for something and is connected unless a daemon ended; a daemon without clients ends | 2 clients, 2 daemons, all mortal |
| `daemon_lock` | a disagreement with the code's own words, section 6 | the same, none killed |

Bounds, and why they are enough. Two jobs give one that runs and one that waits or
is added by an `on_finish`; the properties speak of at most two at a time, and the
proofs cover any set. At most one `job_progressed` signal is in flight: its handler
changes nothing in the manager. Each job is added once, as in the code, so that the
queues are bounded without a constraint. Three jobs in `loading` are a loading job,
a CFG job and one that overtakes it. The items of `feature_map` touch, overlap,
contain each other and have size 0, its regions overlap, touch, leave a hole and
include one not shown to scale, and strips of 3 and 12 pixels make all levels of
detail occur; two jobs are what it takes to hover over a region that goes away.
Two entries of history are truncated at either end; the theorems are for any length.
A viewport of three lines is smaller than the objects together and larger than each.
Rows of three bytes that the region does not fill at either end give every alignment.
Three edits of four bytes reach every way a write meets two patches.
Five nodes give rows of up to three blocks, edges past a row, back and to their own
source, and blocks that pull each other aside; a span of one column in the pass up
needs larger graphs, and the proof covers it. Two clients and
two daemons are enough for a probe that refuses a starting daemon, for the unlink
race and for two daemons that compete for the port. One idle poll stands for 300
seconds. `Files` exceeds the processes, so that creating a file is never blocked.

Deadlock is checked where the system never stops: `disassembly`, `feature_map`,
`hex`, `views`, `plugins`, `debuggers`, `graph_layout` (whose finished layout idles). The job manager ends when the window
is closed, the daemon system when all processes are gone, and `loading`
and `code_view` when their bounds are used up.

Fairness. `JobManager`: the worker thread takes every step it can (weak), its
`run()` ends although it may call into the GUI thread repeatedly (strong, since
such a call disables the return for a while), the event loop delivers what is
queued (weak), and a nested or a waiting call of the GUI thread goes on. The jobs
view adds no waiting, so `JobsView` has the same fairness. `Loading`: what a
job runs, CFG recovery above all, ends, and each refresh thread goes on polling. `CodeView`: worker and event loop. `Daemon`: each process
does its next step, and the retry loop of a window retries. Nobody has to add,
cancel or close anything, and nobody has to be killed. Refinements are checked with
the safety part of the abstract specifications.

## 4. Proofs

TLAPS checks all theorems for any values of the constants that satisfy their
assumptions (`JobsAssumption`, `HistoryAssumption`, `PluginsAssumption`,
`LayoutAssumption`, `LoadingAssumption`, `CodeViewAssumption`, `HexAssumption`,
`LockAssumption`, `DaemonAssumption`, `ViewsAssumption`, `FeatureMapAssumption`,
`DebuggersAssumption`, `PatchAssumption`, `ViewerAssumption`, `DisassemblyAssumption`,
`FlowsAssumption`), which TLC evaluates in the runs; nothing else
is assumed. `LockAssumption`
says that there are finitely many processes and more files: then there is a fresh file
whenever a process creates one. `FeatureMapAssumption` says of the objects of a binary what `add` asserts
(addresses and sizes are naturals, tags are not empty), that there are finitely many,
within the addresses, and that the finest map has bins of one byte. `FlowsAssumption` says
of a transition graph what the CFG recovery of angr makes, which is not under `src/`: its
edges are finitely many, a call leads to a function and a return comes from one, a call
comes back to what follows it, and what only transitions to outside lead to is not the
entry and leads nowhere. Blocks need not be reached from the entry.

`JobManagerProofs` shows `TypeCorrect` (`Spec => []TypeOK`) and, from the inductive
invariant `SafetyInv`, `BusyIsListed`, `ReportedOnce`, `FinishAlwaysSeesResult` and
`ReportsAlwaysSound`. These are not inductive one by one: that a finished job is
still listed needs that its verdict is queued once, which needs that a job is never
at once waiting, active and reported. `SafetyInv` is `TypeInv` (types, that the
worker has a job exactly when it is inside `execute_job`, and that a call into the
GUI thread is queued only for a job that waits for it), `Places` (what is waiting,
active or reported has been submitted, is listed, and is in one place only) and
`ResultStored` (a job past its run, or with `job_finished` queued, has a result).
The worker's actions and the GUI's have a lemma each for both parts.

It goes on from there. `CancelRarelyLost`: every step changes
`jobState` in one of four ways (`EveryStateStep`), and only a write of the worker
after its test can overwrite a cancellation. `CurrentCatchesUp`, from `CurrentInv`:
while the worker is in a job, either the `job_starting` of that job is queued and no
signal that writes `_current_job` is behind it, or `_current_job` is that job and no
such signal is queued. `OrphansAlwaysExplained`,
from `OrphanInv`: `SafetyInv` says where every job is; a job that was not touched is
still PENDING (`FreshUntouched`), so one that is skipped was cancelled.

`ManagerImplementsQueue`: the initial state maps to an empty `JobQueue`, and every step
to a step of it or to a stutter (`StepIsQueueStep`). The stage of a job in the queue is
where the manager has it (`StagesMatch`, from `Places`). What is hard is the order:
`JobQueue` starts and settles jobs in the order they were added, so the two queues must
agree with `submitted` on any two jobs (`OrderInv`: `WorkInOrder` and `VerdictsInOrder`
for what is in one queue, `NoOvertaking` between the places), stated with `Precedes`
rather than as an equation of sequences, since a job that is skipped is done with before
the ends of earlier ones are reported.

`WidgetsAlwaysFollow` is about `JobsView`, whose steps are steps of the manager together
with a listener. The status bar turns busy at a progress signal and idle at a verdict,
so a progress signal must never be handled without a current job (`ProgressHasJob`):
a `job_starting` precedes each, handled or still queued, with no verdict in between
(`CurrentAt`). It rests on `CurrentInv` for the signals the worker is about to send.

`DisassemblyProofs` shows `PosAlwaysInRange`, `ShownAlwaysCurrent`,
`RaisesOnEmptyOnly`, `PastAlwaysKept` and `BackAlwaysReturnsToSource`. Lemmas state
what trimming, jumping, recording and visiting do to any valid history
(`TrimKeepsPast`, `JumpToLands`, `VisitLands`, `JumpToFollows`, `RecordLands`); the
inductive invariant `HistoryInv` is `TypeOK`, `PosInRange` and `ShownIsCurrent`
together, because the entry shown is an address only if the position is valid, and
back returns to the source only because what is recorded is what is shown.

The same module shows `HistoryImplementsBrowser`: the initial history maps to
an empty browser history, and every step to a step of it or to a stutter
(`StepIsBrowserStep`). What a jump leaves behind is stated for any valid history
(`JumpSplits`, `VisitSplits`), so a visit that amends the current entry is `VisitFrom`
or `FirstVisitFrom` (`JumpIsVisit`). Back, forward and the menu only change the
position; `AroundEntry` and `PartOfPart` cut the list around the old and the new one,
which makes a move of n entries `Back(n)` or `Ahead(n)` (`MoveIsSteps`).
`DisassemblyKeepsHistory` says that the whole view takes only these steps, so all of
this holds of `DisassemblyView` as well (`DisassemblyImplementsBrowser`).

Its second part shows `ScrollAlwaysByLines` and `JumpAlwaysShowsTarget` of
`DisassemblyView`, from `DisassemblyInv`: the linear viewer shows first the object at its
offset, or the next that is painted, and the line at the top is a line of that object
(`ShownFirst`); what is visible was painted, and what was painted has lines (`LinearType`).
Without it neither property could be shown of one operation, since each starts where the
last one stopped. What `prepare_objects` does is followed object by object: looking for a
line above counts the lines of the objects above (`TopIs`), and painting first passes over
objects too short for the first line (`Looks`), then keeps the first object it shows
(`Shows`); `LooksPasses` and `ShowsKeeps` are a step of each, `PaintIs` is where it ends.
`TopAt` and `PaintedTop` measure the first line in lines from the beginning, a sum over a
set of objects (`LinesUnion`), and `ScrollIs` compares two of these sums. The invariant
survives an undefined function because its objects stay as they were painted
(`UndefinedKeeps`), and a new CFG because the viewer is prepared anew (`ReloadLinearIs`);
between the two the offset may be wrong for the code, so every operation has a lemma that
holds of either (`Keeps`, with `how`). A jump is taken apart by who shows its target
(`GraphJump`, `LinearJump`), then by whether the view switches to the graph first, which
is itself a jump, to a selected instruction (`JumpOnceShows`, `JumpTwiceShows`).
`ViewerAssumption` says of a CFB that regions lie apart and by address, that objects are
within regions and apart from each other; bytes may be in no object. `DisassemblyAssumption` says that
functions are at addresses. The CFB is angr's, which keeps it so; TLC has also checked
`DisassemblyInv` on the instance of the run.

`WorkspaceProofs` shows `PartsAlwaysBelong` and `TornDownAtMostOnce` from
`PluginsInv`: objects not made yet are nowhere (`FutureUnknown`), what is in the user
interface belongs to an active object that remembers it or is about to (`PartsHeld`), an
object in the middle of activation or deactivation is where the other thread has
not been (`Middle`), and a torn down object is ending or gone (`TornIsEnding`). The
exceptions are those of `StaysBehind`: separators, a widget that raised between being
added and being remembered, and the parts of a replaced or raced object.

The same module shows `WatchersAlwaysFollow`, `AlwaysShowsCurrent` and `ListAlwaysFits`
of `Debuggers`, from `DebuggersInv`. An event is a fold over its listeners; `SetPasses`,
`CallsPass`, `ListPasses` and `RemovalsPass` take it apart into the states after each
listener (`IsPassing`), which the community module defines through subsets of the
positions, and `PassingInduction` is induction on how many were told. `Right` is what
holds between events: nobody is subscribed twice, each watcher is subscribed where it
remembers to be, what does not watch remembers nothing, what watches follows and shows
the current debugger, but for Call Explorers as the property says, and it is listed.
`WindowsRight` ties this to what is open: it watches, with the tables left behind and
nothing else, and only a click that raised leaves an inhibition in place. Within an event there are weaker statements:
`Halfway` while the watchers are told of another debugger, `ShownTo` while they are told
of another state, `Changed` and `RightButRow` while a change of the list goes from the
manager to the toolbar. That no debugger is looked up in vain rests on their order
(`InOrder`): the manager is the first subscriber of the list, so it has deselected what
was removed, and with that told all the watchers, before any subscription of the toolbar
is served (`ListHeard`). `SimsListed` says of debuggers what `ListFitsProject` counts.

Its third part shows `PatchesAlwaysKeepBytes` of `HexPatches`. The invariant is
`PatchInv`: patches are not empty and a patch ends before the next begins (`Good`). The
rest is about operators, for any bytes, in terms of what the patches say of each address
(`Says`): one that has none is read from memory (`ReadIs`), and patches that say the same
are read the same (`SameRead`). `PatchTaken`, `PatchPut` and `PatchOverwritten` are the
three ways in which a dictionary of patches changes. `auto_patch` is a fold over the
patches it meets: `CutOne` is a round of it, each patch cut from above or below or
removed, which changes nothing outside the range and leaves the others to cut
(`RoomMade`); a patch that holds the range is the only one met (`RoomHeld`, `HeldIs`).
Then nothing meets the range, and the bytes extend what ends there or are a patch
(`ExtendedIs`, `AddedIs`), so that the whole write is `Wrote` (`AutoPatchIs`). A merge is
the same kind of fold over pairs (`MergeOne`, `MergeIs`). `Ascending` lists a finite set
of addresses in order (`AscendingIs`). An assembled
patch takes the place of the one at its address and makes no other room
(`Workspace.patch`): once it meets another patch, which `overlapped` records, patches do
overlap and nothing is claimed any more.

`GraphLayoutProofs` shows `LayoutIsLayered` for any graphs, keys and sizes. An edge leads
down once the rows are done because an assigned node is above all its successors
(`RowsSoFar`) and an edge goes forward in the order (`AcyclicEdges`). In the pass up a
block is clear of its row because `next` is beyond every block of the row placed before
(`UpSoFar`, `UpSpanBounds`), which in turn needs that successors, being lower, have
columns already; in the pass down because `_detect_overlap` returns a free column
(`DetectOverlapIsFree`). `LayoutInv` adds that every node has a column after the pass
up (`AllPlaced`).

It goes on to `RoutesAndBlocksAlwaysApart`. The outer columns hold no block
(`OuterColumnsClear`), and the search of `_route_edge` goes outwards, so it ends at a
column of the grid that is free all the way and never at a negative index
(`RouteColumnIs`). The lane `_first_unused_index` finds is not in the cells it is taken
for (`FirstUnusedIs`, `AvailableIs`). A route is followed point by point, each marking
its lane in cells that include the ones its run goes through (`ExtendedWhen`,
`RouteOfIs`). The invariant `RoutesInv` says that the routes so far are whole and marked
in the tables. A later route then has lanes that were not marked in its cells
(`RouteFresh`) where an earlier one is marked in the cells it runs through
(`RouteMarked`), so that they differ wherever the runs meet (`RunsApart`). For the
coordinates: a column or a row is as large as its blocks need (`ColWidthIs`,
`RowHeightIs`); a sum over columns does not depend on the order of its terms (`SumAny`),
so it is the sum up to the column before and one term more (`TotalNext`) and grows
(`TotalsGrow`). Blocks two columns or one row apart are therefore apart by their sizes,
for which the halves, rounded down, need the margins (`CentredColumns`, `CentredRows`).

The same module shows `SupergraphAlwaysIsFlow` of `SuperGraph`. An edge that is shrunk
leads to what follows its block, which no other block leads to, and the block leads to no
other (`ShrunkShape`, `JoinShape`); so the blocks of a node are always a run of blocks
each joined to the next (`InRuns`). What takes the work is the states in between, in the
middle of a `Convert`, where a node is off the graph and its edges are half followed.
`Stage` describes them all: from the joins made, the names that have a node and the edges
followed, it says which node a block is mapped to, what a node holds, and that the links
are those `Drawn` from the edges followed; or else that the node of a block that came too
early has an edge back to itself (`GoesBack`), which then stays so. Following the edges of
a block is a fold, taken edge by edge (`FollowPasses`, `PassingInduction`). For a block
joined to the next only that edge does anything, and it is one `Absorb` (`FollowJoin`):
what is taken over has no node yet or came too early (`EarlyKnown`; more such blocks
change nothing of a stage, `StageMore`), and the links keep their meaning under the new
name (`RenamedGraph`, `StageJoin`). For other blocks the edges add nodes and links
(`FollowAll`, `StageNew`, `StageLink`). At last the node's own links are put back
(`StageBack`, `PutIs`). When no block is left the runs are those of the joins
(`RunsAreStraight`) and the links are exact (`DrawnIsExact`).

`LoadingProofs` shows `LoadedResultsOfProject` and `LoadedResultIsFinal` from
`LoadingInv`. Results are applied by events, so the results in the queued events
(`EventsMade`) and those the worker has made so far (`WorkMade`) must be of the current
project too. That needs that a new project is never installed while the results of an
earlier job are behind it: the worker waits for the GUI thread to install it, so nothing
is queued after its call (`CallbackIsLast`); a database, for which the worker does not
wait, is what `overtaken` is for. For the final result, each temporary one, shown or
queued, is followed by the end of its job or by a job that stopped (`PeeksReplaced`,
`ShownReplaced`).

The same module shows `SettledMapIsFinal` and `RefreshAlwaysComing` of `FeatureMap`, from
`MapInv`. The final CFB stays what the strip shows (`FinalIsSettled`) because the end of a
job is the last of the calls that wait, and no job runs behind it (`EndIsLast`): a peek
cannot replace it, nor an object be added to its maps. The mark of a pending refresh is
left by a refresh only if that one fails (`Refreshed`), and any other call that is
handled leaves the refresh among those that wait (`CallTaken`).

It also shows what the interval maps compute. An address has the tags of the stop that
governs it, the last one not behind it (`Governs`). Inserting a stop changes no tags
(`StopInserted`, `InsertedTags`), tagging a range changes them from its first stop to its
last (`RangeTagged`), and dropping stops that repeat the tags before them changes none
(`RepeatsGone`). `irange` looks one stop past each end of a range (`IrangeStopsAre`), so
the stops that `add` drops are all that can repeat after the range was tagged
(`ExtraneousAre`): this is `AddedRight`. An item is rounded outwards to the bins it has a
part in (`RoundedOutwards`, from the arithmetic of `BinIs`), which gives
`AddIntervalIsRight`; `IrangeIsRight` says that a query finds the tags of each address of
its range. `MapsAlwaysCanonical` follows for `FeatureMap`, from `CanonInv`: the maps of a
refresh are folds over the objects of a CFB and over the levels, in whatever order the
objects come (`AllAdded`, `MapsBuilt`), and a coarser map loses nothing because the bins
of one level nest in those of the next (`BinsNest`, `CoarserIs`). A fold of the community
modules is a recursive function, so what it computes is shown by the existence of that
function (`FoldExists`) and then by induction over the subsets it goes through
(`FoldInduction`), both by way of the least size of a subset that would be a
counterexample.

The layout of the strip follows in `StripInv`, which adds to `CanonInv` that the regions
laid out are those of a binary and that the layout is good (`GoodLayout`): the regions
stand by address and do not overlap, the first begins at 0 on the strip and each where the
one before ends, none is narrower than a pixel, and they fill it. `LargestFirst` and
`ByAddr` are enumerations in an order, which exist for any finite set (`SortedExists`), so
that nothing is assumed of how the code sorts. A fold over positions goes through its
states one position after the other (`FoldPasses`, `PassingInduction`), which says that the
regions taken do not overlap (`RegionsTaken`) and that the shares, each rounded on what the
earlier ones left, use the strip up (`SharesAre`, `PositionsAre`). `PaintsContentAlways`
then follows from `IrangeIsRight` for the bytes of a region in sight (`PaintsContent`), and
`ClicksAlwaysComeBack` from the borders of the regions (`RegionOfByte`) and the rounding of
the scale from pixels to bytes and back (`ByteScale`).

`CodeViewProofs` shows `SettledViewIsRight` from `ViewInv`: unless a job failed, the five
parts of `Settles` hold. The view is right at the end because a function that is not
shown yet has a request of its own on the way (`FuncIsServed`), and code of another
function than the last shown has a job behind it that will replace it (`CodeIsReplaced`).
A callback looks the function up when it runs, so a request serves only if its focus does
not move the view elsewhere (`Serves`, `FocusIsReady`), if the decompilation it ends with
finds variable recovery done (`RecoveryIsFirst`), and if what was dropped from the cache
is asked for again (`LastComesBack`). A step that handles one request must leave another
for what it undoes (`AnotherJob`); each action has a lemma.

`ViewsProofs` shows `CursorStaysInRegion` of the hex view from `HexInv`, which adds the types and the
viewport: setting the cursor reads the viewport, and setting the viewport on an empty
region puts it outside. One lemma per method of `HexGraphicsObject` says that it keeps
the parts in place (`CursorFits`, `SelectionFits`, `DataFits`, `ReloadFits`), and a
handler is their composition. `KeyAlwaysShowsCursor` is an action property on the same
invariant: `MovedShows` for a viewport that moves because the cursor left the full rows,
`KeptShows` for a page key that keeps the row of the cursor. The latter is modular
arithmetic (`RowKept`, `RowOfDifference`): rounding the offset down to a row and starting
the region within a row lose less than two rows together. TLC found, on other regions
than the run has, that this is not enough where the end of the region cuts the page
short; the proof is of the property with that exception.

The same module shows `ManagerAlwaysAgrees`, `GroupsAlwaysAgree` and
`GroupAlwaysShowsCursor` of `Views`, from `ViewsInv`. A handler calls others that each
see the groups half changed, so the invariant is of a state in between:
`Agree(s, P, O, L, Q)` says that the groups of `s` hold the views of `P`, those of `O`
show the cursor of their group, the hex views of `L` highlight what is selected, and
those outside `Q` highlight nothing. Each method has a lemma on what it does to the four
sets: publishing an instruction takes the rest of the group out of `L` until it was told
(`RegionSetAgree`, `ToldAgree`), publishing a cursor takes the group out of `O` until it
has followed (`GroupCursorSet`, `FollowAgree`), leaving takes the view out of all
(`UnregisterAgree`, `ClosedAgree`). Regions must belong to a member of their group
(`RegionsAgree`), which `GroupsAgree` does not say of groups without an open hex view.
Two counting arguments: a new group has a free name (`UnusedExists`), and a new view a
free index (`FreeIndexIsFree`). `ViewsAssumption` says that there are finitely many views
and that the start of a function belongs to the function.

`DaemonProofs` shows `WaiterAlwaysHasDaemon` from `DaemonInv`. `LockInv` ties the progress
of a process in `SingleInstance` to its place in `Daemon` (`LockPhases`): who holds the
lock of a file is past `lockf` and has not released it, and a daemon that exits without
having served found the port taken. `HopeLasts`: whoever was refused the lock, or went
on to connect, leaves a daemon that serves or will get the lock, or a client that will
start one. A refusal shows that somebody holds the lock, and either the holder is a daemon
or it is a client in its probe, which has still to start one. `LockIsExclusive`: processes
that hold the lock at once hold it on different files, which bounds the disagreement of
section 6.

Every safety property that a passing run checks is stated by a theorem. Only
model-checked: liveness, and anything that needs ENABLED, which TLAPS cannot do here.

## 5. Not modelled

- Presentation: other views, widgets, dialogs, menus, themes, fonts, configuration.
  They are most of the code by size; what they keep is shown again on the next event.
- Of the graph of a function: the branches registered with a node. Of its layout: the
  coordinates of bends, the order of edges at a block, and `TreeGraphLayouter`.
- What jobs compute: CFG recovery, decompilation and simulation are angr.
- Breakpoints: one list, one notification after each change.
- The daemon's registry of targets and the calls made over a connection. The entry
  of a client that disconnects stays (`daemon/server.py:44`); no model covers it.
- Coverage, trace and other plugins: they poll external services or read files.
- In modelled components: the notes of `PROJECT.json` say what each leaves out.

## 6. Disagreements between the code and what it says

`daemon_lock` ends with a counterexample: `__del__` unlinks a path whose file another
process has locked by then, and the next process locks a new file, although the class
"can be instantiated only once per machine" (`logic/singleton.py:25`).

Seen while modelling; the models behave the same way and the properties make the
exception explicit where one of them touches it.

- Jobs. A job cancelled while it waits, or whose `on_finish` raises, stays listed, and
  `join_all_jobs` waits for ever (`logic/jobmanager.py:71`, `:193`). `quit()` waits in
  the GUI thread for a worker that waits for the GUI thread (`:137`). A cancellation
  between the test and the write of `Job.state` is overwritten; one after FINISHED
  turns a finished job into an exception. The row of a failed job stays at running
  (`ui/widgets/qjobs.py:200`), and one whose `job_starting` is handled before RUNNING
  is written stays at pending. Nobody reads `job_worker_exception_callback`.
- Daemon. A window that finds the lock of a daemon about to end starts none and retries
  for ever (`ui/main_window.py:398`). `exposed_commentat` of the client calls
  `set_comment` in its own thread and schedules the result. URL handlers of deactivated
  plugins remain (`daemon/client.py:70`).
- Loading. A database applied while a CFG job runs gives the project results of
  another one. `pseudocode_variable_kb` stays that of the first binary
  (`data/instance.py:165`). `_first_cfg_generation_callback_completed` is never reset.
- Feature map. `_build_cfb_feature_maps` returns early when there is no CFB, so the maps
  of the previous binary stay and new objects are added to them until the final CFB.
  A hover over a region of the previous CFB makes `refresh` raise and leaves
  `_refresh_pending` set, which stops live refreshes until then. `irange` from an
  address that is a stop also yields the interval that ends there
  (`data/tagged_interval_map.py:109`); clipping hides it. A click may select the byte
  before the one under the mouse: `pos / width * mr.size` is cut off after rounding
  (`qfeature_map.py:358`), and 1 / 49 * 49 is below 1. An object announced less than
  1/30 s after a refresh is not painted before the next one.
- Decompilation. A late callback with an earlier focus pulls the view back; after a
  failure it may stay on one function with the code of another.
- Disassembly. Going forward in an empty history raises `IndexError`, going back does
  not. Scrolling up from a byte of no object (past the end, or in a hole, where scrolling
  down past the object before it stops: `ui/widgets/qlinear_viewer.py:440`) skips the
  object before it (`:356`), so a line up moves by more. A jump below the first
  region makes a negative offset, after which nothing is repainted and scrolling does
  nothing (`:288`). In the linear viewer a jump to a
  selected instruction neither navigates nor narrows the selection, though
  `ui/views/disassembly_view.py:1000` counts on it. A selected instruction whose
  function is gone holds the view in the linear viewer. Objects painted are not made
  again when code is defined or undefined (`qlinear_viewer.py:109`). `clear_selection`
  leaves labels selected. `on_function_selected` asks for the category "dissasembly".
- Graph of a function. Whether a block is merged with the one before it is decided by
  edges alone (`utils/graph.py:40`, `:54`), so a function that starts where another of its
  blocks falls through is merged into that block: no node has its address, which
  `QDisassemblyGraph._initial_position` counts on, and when it jumps straight back to that
  block, its old node returns with the link (`:163`) and its blocks are shown twice. The
  same happens to any block that the transition graph lists before the one it is joined
  to. A
  call that does not return, to a function that follows and has no other caller here,
  puts that function into the node, though "don't put functions into the supergraph" is
  said at `:73`; the view then looks its instructions up in vain.
- Graph layout. The first stretch down of an edge is drawn at the middle of its source
  (`utils/graph_layouter.py:720`, `:750`) and not in the column it was routed in, so it may
  cross a wide block of the next row, although "edges should not overlap with existing
  nodes" (`:167`): with the edges 1-2, 1-4, 2-4, 2-5 and 2-6, block 2 wide and 1 and 4
  narrow, the edge from 1 to 4 does.
- Hex view. A page key with a clamped target loses the cursor on the last partial row, and
  in a region that starts within a row also on others;
  `set_cursor` to the same address does not scroll back; typing with the cursor off the
  screen edits an unseen byte; an empty view keeps its cursor; the early return of
  `_on_vertical_scroll_bar_triggered` leaves `_processing_scroll_event` set; a movement
  key out of the region clears the selection without marking again. Copying from the
  debugger's source copies the project's bytes; a paste may write past the region;
  `Workspace.patch` may create overlapping patches.
- Views. A closed hex view stays subscribed to the CFB, the patches and the breakpoints.
  A view removed by a plugin stays in its group. `active_view_state` keeps the state of
  a closed view. A view that joins a group without a cursor does not show its own there.
  Reloading with the linear viewer in use forgets the selection without telling the group
  (`InfoDock.initialize`), which goes on highlighting it.
- Plugins. A plugin that failed to activate stays active and is saved as enabled
  (`plugins/plugin_manager.py:118`, against `:35`). `handle_function_retyped`
  dispatches `handle_global_var_retyped` (`:443`). A dispatch on the worker thread can
  race activation and deactivation. The separator of `:183` is never removed. A widget
  whose `show` raises is in the status bar and not remembered (`:162-164`). A button
  is remembered before it is added (`:176`); if adding it raises, `Toolbar.remove` raises
  in every deactivation (`:243`), so that the plugin is never torn down and stays active.
  The classes of one file share a shortname, and each takes the place of the one before in
  `active_plugins` (`:118`), which is then neither called nor deactivated.
- Debuggers. A `SimulationDebugger` never unsubscribes and stays bound to a closed view.
  The toolbar's subscription to the list is repeated at each show and never given up.
  The Call Explorer's `_inhibit_update` stays set if the replay of a click raises
  (`call_explorer_view.py:128`). The tables of closed Registers and Stack views go on
  watching: their `closeEvent` (`registers_view.py:126`, `stack_view.py:112`) is that of a
  child widget, which closing the view does not call.

## 7. Plan

1. Breakpoints and the daemon's registry of targets, each with what notifies it.
2. Nested event containers; exceptions and asynchronous calls into the GUI thread.
3. The threads of the coverage and trace plugins; the bends of the edges of a graph.
