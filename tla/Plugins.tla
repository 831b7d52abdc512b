------------------------------- MODULE Plugins -------------------------------
(***************************************************************************)
(* The plugin manager (plugins/plugin_manager.py): activation, what it      *)
(* registers in the user interface, sensitive dispatches and deactivation.  *)
(* The file of a plugin is loaded again for every activation, which makes    *)
(* an object of a new class; an object is named by its plugin and a number.  *)
(* The GUI thread activates, deactivates and dispatches; the worker thread   *)
(* dispatches step_callback of a simulation step, also a sensitive one, and  *)
(* so may deactivate a plugin in the middle of anything the GUI thread does. *)
(***************************************************************************)
EXTENDS Naturals, Sequences

CONSTANTS
  Plugins,   \* shortnames of loaded_plugins
  Registers, \* the kinds of things a plugin registers, in their order
  MaxObjects \* bound on the number of activations

ASSUME PluginsAssumption ==
  Registers \in Seq({"widget", "button", "separator", "menu"}) /\ MaxObjects \in Nat

VARIABLES
  made,     \* how many objects were registered
  active,   \* the values of active_plugins
  parts,    \* what is in the user interface, of which object
  cached,   \* what the objects remember of it
  at,       \* what each thread is in the middle of
  todo,     \* whom the dispatch of each thread has still to call
  torn,     \* history: how often the teardown of an object was called
  raced,    \* history: objects deactivated by one thread while the other
            \* was activating or deactivating them
  replaced, \* history: objects for which another class of their file was entered
  cut       \* history: things at which a registration broke off half way

vars == <<made, active, parts, cached, at, todo, torn, raced, replaced, cut>>

Things == Len(Registers)
Threads == {"gui", "worker"}
Other(t) == IF t = "gui" THEN "worker" ELSE "gui"
Objects == [plugin : Plugins, n : 1 .. MaxObjects]
Rest == [doing |-> "rest"]
Loading(p) == [doing |-> "load", plugin |-> p]
\* n things are registered, and the next one is due the first or the second of
\* the two steps of its registration
Steps == {"first", "second"}
Activating(x, n, due) == [doing |-> "activate", obj |-> x, n |-> n, due |-> due]
Deactivating(x) == [doing |-> "deactivate", obj |-> x]
Busy(t, x) ==
  at[t] = Deactivating(x) \/ \E n \in 0 .. Things, due \in Steps : at[t] = Activating(x, n, due)

PluginsInit ==
  /\ made = 0 /\ active = {} /\ parts = {} /\ cached = {}
  /\ raced = {} /\ replaced = {} /\ cut = {}
  /\ at = [t \in Threads |-> Rest] /\ todo = [t \in Threads |-> {}]
  /\ torn = [x \in Objects |-> 0]

(* get_plugin_instance_by_name *)
IsActive(p) == \E x \in active : x.plugin = p
Free(t) == at[t] = Rest /\ todo[t] = {}
-----------------------------------------------------------------------------
(* activate_plugin_by_name, for a plugin that is not active: its file is loaded
   and may hold any number of classes *)
Load(p) ==
  /\ Free("gui") /\ ~IsActive(p) /\ at' = [at EXCEPT !["gui"] = Loading(p)]
  /\ UNCHANGED <<made, active, parts, cached, todo, torn, raced, replaced, cut>>
Loaded ==
  \E p \in Plugins :
    /\ at["gui"] = Loading(p) /\ at' = [at EXCEPT !["gui"] = Rest]
    /\ UNCHANGED <<made, active, parts, cached, todo, torn, raced, replaced, cut>>

(* activate_plugin, for the next class: the object is active, in place of that of
   the class before, and only then registered; a constructor that raises changes
   nothing *)
Activate ==
  \E p \in Plugins :
    /\ at["gui"] = Loading(p) /\ made < MaxObjects /\ made' = made + 1
    /\ LET x == [plugin |-> p, n |-> made + 1]
           before == {y \in active : y.plugin = p}
       IN  /\ active' = (active \ before) \cup {x}
           /\ replaced' = replaced \cup before
           /\ at' = [at EXCEPT !["gui"] = Activating(x, 0, "first")]
    /\ UNCHANGED <<parts, cached, todo, torn, raced, cut>>

(* not the code: what was added is remembered when all of it has been *)
RememberAll(x, i) == IF i = Things THEN {<<x, k>> : k \in 1 .. Things} ELSE {}
Remember(x, i) == {<<x, i>>}

(* _register_status_bar_widgets, _register_toolbar_actions,
   _register_menu_buttons: a widget is added and then remembered, a button or an
   entry of the menu remembered and then added, and the separator only added *)
AddedFirst == {"widget", "separator"}
RegisterHalf ==
  \E x \in Objects, n \in 0 .. Things - 1 :
    /\ at["gui"] = Activating(x, n, "first")
    /\ at' = [at EXCEPT !["gui"] = Activating(x, n, "second")]
    /\ IF Registers[n + 1] \in AddedFirst
         THEN parts' = parts \cup {<<x, n + 1>>} /\ UNCHANGED cached
         ELSE cached' = cached \cup Remember(x, n + 1) /\ UNCHANGED parts
    /\ UNCHANGED <<made, active, todo, torn, raced, replaced, cut>>
Register ==
  \E x \in Objects, n \in 0 .. Things - 1 :
    /\ at["gui"] = Activating(x, n, "second")
    /\ at' = [at EXCEPT !["gui"] = Activating(x, n + 1, "first")]
    /\ parts' = parts \cup IF Registers[n + 1] \in AddedFirst THEN {} ELSE {<<x, n + 1>>}
    /\ cached' = cached \cup IF Registers[n + 1] = "widget" THEN Remember(x, n + 1) ELSE {}
    /\ UNCHANGED <<made, active, todo, torn, raced, replaced, cut>>

(* all is registered, or the plugin raised before that, which is logged; an entry
   of the menu is always added when it was remembered (Menu.add) *)
StopActivating ==
  \E x \in Objects, n \in 0 .. Things, due \in Steps :
    /\ at["gui"] = Activating(x, n, due)
    /\ due = "second" => n < Things /\ Registers[n + 1] # "menu"
    /\ at' = [at EXCEPT !["gui"] = Loading(x.plugin)]
    /\ cut' = cut \cup IF due = "second" THEN {<<x, n + 1>>} ELSE {}
    /\ UNCHANGED <<made, active, parts, cached, todo, torn, raced, replaced>>
-----------------------------------------------------------------------------
(* not the code: the object is taken as it comes *)
IsRegisteredAny(x) == TRUE
(* plugin in active_plugins.values() *)
IsRegistered(x) == x \in active

(* What the object remembers and the toolbar or the menu does not have: taking it
   out raises (Toolbar.remove, Menu.remove). *)
Missing(x) ==
  {i \in 1 .. Things : <<x, i>> \in cached \ parts /\ Registers[i] \in {"button", "menu"}}
Breaks(x) == IsRegistered(x) /\ Missing(x) # {}

(* deactivate_plugin, up to the end of teardown, which may raise.  One step *)
TearDown(t, x) ==
  IF ~IsRegistered(x) THEN UNCHANGED <<parts, at, torn, raced>>
  ELSE IF Breaks(x)
    THEN /\ parts' = parts \ {c \in cached : c[1] = x /\ \A i \in Missing(x) : c[2] < i}
         /\ UNCHANGED <<at, torn, raced>>
    ELSE /\ parts' = parts \ {c \in cached : c[1] = x}
         /\ torn' = [torn EXCEPT ![x] = @ + 1]
         /\ raced' = IF Busy(Other(t), x) THEN raced \cup {x} ELSE raced
         /\ at' = [at EXCEPT ![t] = Deactivating(x)]
(* its end *)
Forget(t) ==
  \E x \in Objects :
    /\ at[t] = Deactivating(x)
    /\ active' = active \ {x} /\ at' = [at EXCEPT ![t] = Rest]
    /\ UNCHANGED <<made, parts, cached, todo, torn, raced, replaced, cut>>

(* deactivate_plugin_by_name, the close event of the main window *)
Deactivate(x) ==
  /\ Free("gui") /\ x \in active /\ TearDown("gui", x)
  /\ UNCHANGED <<made, active, cached, todo, replaced, cut>>
-----------------------------------------------------------------------------
(* _dispatch goes over a copy of active_plugins, so that it also calls an
   object that was deactivated meanwhile; an error deactivates the object, and
   ends the dispatch if that raises. *)
Dispatch(t) ==
  /\ Free(t) /\ todo' = [todo EXCEPT ![t] = active]
  /\ UNCHANGED <<made, active, parts, cached, at, torn, raced, replaced, cut>>
Call(t, x, raises) ==
  /\ at[t] = Rest /\ x \in todo[t]
  /\ todo' = [todo EXCEPT ![t] = IF raises /\ Breaks(x) THEN {} ELSE @ \ {x}]
  /\ IF raises THEN TearDown(t, x) ELSE UNCHANGED <<parts, at, torn, raced>>
  /\ UNCHANGED <<made, active, cached, replaced, cut>>
(* color_insn, color_block and color_func take the first result *)
Leave ==
  /\ at["gui"] = Rest /\ todo' = [todo EXCEPT !["gui"] = {}]
  /\ UNCHANGED <<made, active, parts, cached, at, torn, raced, replaced, cut>>

PluginsNext ==
  \/ \E p \in Plugins : Load(p)
  \/ Activate
  \/ Loaded
  \/ RegisterHalf
  \/ Register
  \/ StopActivating
  \/ \E x \in Objects : Deactivate(x)
  \/ \E t \in Threads :
       Forget(t) \/ Dispatch(t) \/ \E x \in Objects, raises \in BOOLEAN : Call(t, x, raises)
  \/ Leave

PluginsSpec == PluginsInit /\ [][PluginsNext]_vars
-----------------------------------------------------------------------------
PluginsTypeOK ==
  /\ made \in Nat /\ made <= MaxObjects
  /\ active \subseteq Objects /\ raced \subseteq Objects /\ replaced \subseteq Objects
  /\ parts \subseteq Objects \X (1 .. Things) /\ cached \subseteq Objects \X (1 .. Things)
  /\ cut \subseteq Objects \X (1 .. Things)
  /\ at \in [Threads -> {Rest} \cup {Deactivating(x) : x \in Objects}
                        \cup {Loading(p) : p \in Plugins}
                        \cup {Activating(x, n, due) : x \in Objects, n \in 0 .. Things,
                                                      due \in Steps}]
  /\ todo \in [Threads -> SUBSET Objects]
  /\ torn \in [Objects -> Nat]

(* Nothing in the user interface belongs to a plugin that is not active, also
   when its activation failed half way or an error deactivated it
   (register_active_plugin, deactivate_plugin).  Four things stay behind: what the
   worker thread deactivated while it was activated, an object that another class
   of its file replaced, the separators of the menu, and a widget that was added
   and, because showing it raised, not remembered. *)
StaysBehind(c) ==
  c[1] \in raced \/ c[1] \in replaced \/ Registers[c[2]] = "separator"
    \/ (c \in cut /\ Registers[c[2]] = "widget")
PartsBelongToActive == \A c \in parts : c[1] \in active \/ StaysBehind(c)

(* No plugin is torn down twice, although a dispatch still calls those that
   were deactivated after it began, and an error deactivates them - unless
   both threads were deactivating it at once (deactivate_plugin, _dispatch). *)
TornDownOnce == \A x \in Objects : torn[x] > 1 => x \in raced
=============================================================================
