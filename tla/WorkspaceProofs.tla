--------------------------- MODULE WorkspaceProofs ---------------------------
(***************************************************************************)
(* Theorems about what a workspace holds: the plugin manager, for any       *)
(* plugins, any number of things they register and any number of            *)
(* activations; the debuggers of an instance and what watches them, for any *)
(* debuggers and views; and the patches of its project, for any memory.     *)
(***************************************************************************)
EXTENDS Plugins, Debuggers, HexPatches, SequenceTheorems, FiniteSetTheorems,
        WellFoundedInduction, TLAPS

(* An object that was not made yet is not known anywhere. *)
FutureUnknown ==
  \A x \in Objects : x.n > made =>
    /\ x \notin active /\ torn[x] = 0
    /\ \A t \in Threads : x \notin todo[t] /\ at[t] # Deactivating(x)
    /\ \A n \in 0 .. Things, due \in Steps : at["gui"] # Activating(x, n, due)
    /\ \A c \in parts : c[1] # x

(* What is in the user interface stays behind, or belongs to an active object,
   which remembers it or is about to. *)
AboutToBe(c) == \E n \in 0 .. Things : c[2] = n + 1 /\ at["gui"] = Activating(c[1], n, "second")
PartsHeld ==
  \A c \in parts : StaysBehind(c) \/ (c[1] \in active /\ (c \in cached \/ AboutToBe(c)))

(* Only the GUI thread activates.  An object being activated is active, and no
   other thread deactivates it, unless they raced or another class replaced it;
   what has yet to be remembered is a widget or was never in the user interface;
   an object being deactivated has nothing left that does not stay behind. *)
Middle ==
  /\ \A x \in Objects, n \in 0 .. Things, due \in Steps :
       /\ at["worker"] # Activating(x, n, due)
       /\ at["gui"] = Activating(x, n, due) =>
            x \in raced \/ (x \in active /\ at["worker"] # Deactivating(x))
  /\ \A p \in Plugins : at["worker"] # Loading(p)
  /\ \A t \in Threads, x \in Objects : at[t] = Deactivating(x) =>
       \A c \in parts : c[1] = x => StaysBehind(c)
  /\ \A x \in Objects, n \in 0 .. Things - 1 :
       at["gui"] = Activating(x, n, "second") /\ Registers[n + 1] \in {"button", "menu"}
         => <<x, n + 1>> \in cached

(* An object that was torn down is not active, or its deactivation goes on. *)
TornIsEnding ==
  \A x \in Objects : torn[x] > 0 =>
    x \notin active \/ x \in raced \/ \E t \in Threads : at[t] = Deactivating(x)

PluginsInv == PluginsTypeOK /\ FutureUnknown /\ PartsHeld /\ Middle /\ TornIsEnding /\ TornDownOnce
-----------------------------------------------------------------------------
LEMMA States ==
  /\ \A x, y : Rest # Deactivating(x) /\ (Deactivating(x) = Deactivating(y) => x = y)
  /\ \A x, y, n, h : Rest # Activating(x, n, h) /\ Deactivating(y) # Activating(x, n, h)
  /\ \A x, y, n, m, g, h : Activating(x, n, g) = Activating(y, m, h) => x = y /\ n = m /\ g = h
  /\ \A p : Loading(p) # Rest /\ \A x, n, h : Loading(p) # Deactivating(x)
                                             /\ Loading(p) # Activating(x, n, h)
<1>1. \A x, n, h, p : /\ Rest.doing = "rest" /\ Deactivating(x).doing = "deactivate"
                      /\ Activating(x, n, h).doing = "activate" /\ Loading(p).doing = "load"
                      /\ Deactivating(x).obj = x /\ Activating(x, n, h).obj = x
                      /\ Activating(x, n, h).n = n /\ Activating(x, n, h).due = h
  BY DEF Rest, Activating, Deactivating, Loading
<1> QED BY <1>1

(* what a thread can be in the middle of *)
Doings ==
  {Rest} \cup {Deactivating(x) : x \in Objects} \cup {Loading(p) : p \in Plugins}
         \cup {Activating(x, n, due) : x \in Objects, n \in 0 .. Things, due \in Steps}

LEMMA AtType ==
  /\ PluginsInv => at \in [Threads -> Doings]
  /\ Rest \in Doings /\ \A p \in Plugins : Loading(p) \in Doings
  /\ \A x \in Objects : Deactivating(x) \in Doings
  /\ \A x \in Objects, n \in 0 .. Things, due \in Steps : Activating(x, n, due) \in Doings
BY DEF PluginsInv, PluginsTypeOK, Doings

(* PluginsTypeOK, with the states of the threads named *)
LEMMA TypeFrom ==
  ASSUME made' \in Nat, made' <= MaxObjects, active' \subseteq Objects, raced' \subseteq Objects,
         replaced' \subseteq Objects, parts' \subseteq Objects \X (1 .. Things),
         cached' \subseteq Objects \X (1 .. Things), cut' \subseteq Objects \X (1 .. Things),
         at' \in [Threads -> Doings], todo' \in [Threads -> SUBSET Objects],
         torn' \in [Objects -> Nat]
  PROVE  PluginsTypeOK'
BY DEF PluginsTypeOK, Doings

(* What stays behind goes on doing so. *)
LEMMA StaysOn ==
  ASSUME raced \subseteq raced', replaced \subseteq replaced', cut \subseteq cut'
  PROVE  \A c : StaysBehind(c) => StaysBehind(c)'
BY DEF StaysBehind

LEMMA ThingsType == Things \in Nat
BY PluginsAssumption DEF Things

(* The steps that begin or end the loading of a file change only what the GUI
   thread is doing. *)
LEMMA LoadingPreserves ==
  ASSUME PluginsInv, NEW p \in Plugins, at["gui"] \in {Rest, Loading(p)},
         NEW d \in {Rest, Loading(p)}, at' = [at EXCEPT !["gui"] = d],
         UNCHANGED <<made, active, parts, cached, todo, torn, raced, replaced, cut>>
  PROVE  PluginsInv'
<1>1. \A t \in Threads : at'[t] = IF t = "gui" THEN d ELSE at[t]
  BY AtType DEF Threads
<1>2. PluginsTypeOK'
  BY AtType, TypeFrom DEF PluginsInv, PluginsTypeOK, Threads
<1>3. \A x \in Objects, t \in Threads : at[t] = Deactivating(x) <=> at'[t] = Deactivating(x)
  BY <1>1, States
<1>4. \A x, n, h : at["gui"] # Activating(x, n, h) /\ at'["gui"] # Activating(x, n, h)
  BY <1>1, States DEF Threads
<1>5. FutureUnknown' /\ TornIsEnding' /\ TornDownOnce'
  BY <1>3, <1>4 DEF PluginsInv, FutureUnknown, TornIsEnding, TornDownOnce
<1>6. PartsHeld'
  BY <1>4, StaysOn DEF PluginsInv, PartsHeld, AboutToBe
<1>7. Middle'
  <2>1. at'["worker"] = at["worker"]
    BY <1>1 DEF Threads
  <2> QED BY <1>3, <1>4, <2>1, StaysOn DEF PluginsInv, Middle
<1> QED BY <1>2, <1>5, <1>6, <1>7 DEF PluginsInv

LEMMA ActivatePreserves ==
  ASSUME PluginsInv, Activate
  PROVE  PluginsInv'
<1>0. PICK p \in Plugins :
        /\ at["gui"] = Loading(p) /\ made < MaxObjects /\ made' = made + 1
        /\ LET x == [plugin |-> p, n |-> made + 1]
               before == {y \in active : y.plugin = p}
           IN  /\ active' = (active \ before) \cup {x}
               /\ replaced' = replaced \cup before
               /\ at' = [at EXCEPT !["gui"] = Activating(x, 0, "first")]
        /\ UNCHANGED <<parts, cached, todo, torn, raced, cut>>
  BY DEF Activate
<1> DEFINE x == [plugin |-> p, n |-> made + 1]
           before == {y \in active : y.plugin = p}
<1>1. /\ active' = (active \ before) \cup {x} /\ replaced' = replaced \cup before
      /\ at' = [at EXCEPT !["gui"] = Activating(x, 0, "first")]
  BY <1>0
<1>2. x \in Objects /\ x.n > made /\ made \in Nat /\ made + 1 <= MaxObjects
  BY <1>0, PluginsAssumption DEF PluginsInv, PluginsTypeOK, Objects
<1>3. /\ x \notin active /\ torn[x] = 0 /\ at["worker"] # Deactivating(x)
      /\ \A c \in parts : c[1] # x
  BY <1>2 DEF PluginsInv, FutureUnknown, Threads
<1>4. \A y \in Objects : y.n > made' => y.n > made /\ y # x
  BY <1>0, <1>2 DEF Objects
<1>5. \A t \in Threads : at'[t] = IF t = "gui" THEN Activating(x, 0, "first") ELSE at[t]
  BY <1>1, AtType
<1>6. before \subseteq active
  OBVIOUS
<1> HIDE DEF x, before
<1>7. \A c : StaysBehind(c) => StaysBehind(c)'
  BY <1>0, <1>1, StaysOn
<1>8. PluginsTypeOK'
  <2>1. Activating(x, 0, "first") \in Doings
    BY <1>2, AtType, ThingsType DEF Steps
  <2>2. at' \in [Threads -> Doings]
    BY <1>1, <2>1, AtType
  <2> QED BY <1>0, <1>1, <1>2, <1>6, <2>2, TypeFrom DEF PluginsInv, PluginsTypeOK
<1>9. FutureUnknown'
  BY <1>0, <1>1, <1>4, <1>5, States DEF PluginsInv, FutureUnknown
<1>10. PartsHeld'
  <2> SUFFICES ASSUME NEW c \in parts, ~StaysBehind(c)'
               PROVE  c[1] \in active' /\ c \in cached'
    BY <1>0 DEF PartsHeld
  <2>1. c[1] \in active /\ c \in cached
    BY <1>0, <1>7, States DEF PluginsInv, PartsHeld, AboutToBe
  <2>2. c[1] \notin before
    BY <1>1 DEF StaysBehind
  <2> QED BY <1>0, <1>1, <2>1, <2>2
<1>11. Middle'
  <2>1. at'["worker"] = at["worker"] /\ at'["gui"] = Activating(x, 0, "first")
    BY <1>5 DEF Threads
  <2>2. \A y, n, h : at'["gui"] = Activating(y, n, h) => y = x /\ h = "first"
    BY <2>1, States
  <2>3. \A t \in Threads, y \in Objects : at'[t] = Deactivating(y) => at[t] = Deactivating(y)
    BY <1>5, States
  <2> QED BY <1>0, <1>1, <1>3, <1>7, <2>1, <2>2, <2>3 DEF PluginsInv, Middle
<1>12. (TornIsEnding /\ TornDownOnce)'
  <2>1. \A t \in Threads, y \in Objects : at[t] = Deactivating(y) => at'[t] = Deactivating(y)
    BY <1>0, <1>5, States
  <2> QED BY <1>0, <1>1, <1>3, <2>1 DEF PluginsInv, TornIsEnding, TornDownOnce
<1> QED BY <1>8, <1>9, <1>10, <1>11, <1>12 DEF PluginsInv

(* The two steps of a registration: the thing c comes into the user interface or
   into what the object remembers, or both, in the middle of its activation. *)
LEMMA RegistersPreserve ==
  ASSUME PluginsInv, NEW x \in Objects, NEW n \in 0 .. Things - 1, NEW g \in Steps,
         at["gui"] = Activating(x, n, g),
         at' = [at EXCEPT !["gui"] = IF g = "second" THEN Activating(x, n + 1, "first")
                                     ELSE Activating(x, n, "second")],
         NEW ps \in SUBSET {<<x, n + 1>>}, NEW cs \in SUBSET {<<x, n + 1>>},
         parts' = parts \cup ps, cached' = cached \cup cs,
         g = "second" => ps \subseteq cached' /\ (Registers[n + 1] = "widget" => <<x, n + 1>> \in cs),
         g = "first" => (Registers[n + 1] \in {"button", "menu"} => <<x, n + 1>> \in cs),
         UNCHANGED <<made, active, todo, torn, raced, replaced, cut>>
  PROVE  PluginsInv'
<1> DEFINE c == <<x, n + 1>>
           d == IF g = "second" THEN Activating(x, n + 1, "first") ELSE Activating(x, n, "second")
<1>1. n \in 0 .. Things /\ n + 1 \in 0 .. Things /\ n + 1 \in 1 .. Things /\ n \in Nat
  BY ThingsType
<1>2. /\ x \in raced \/ (x \in active /\ at["worker"] # Deactivating(x))
      /\ g = "second" /\ Registers[n + 1] \in {"button", "menu"} => c \in cached
  BY <1>1 DEF PluginsInv, Middle
<1>3. \A t \in Threads : at'[t] = IF t = "gui" THEN d ELSE at[t]
  BY AtType
<1>4. \A e \in parts' : e \in parts \/ (e = c /\ e[1] = x /\ c \in ps)
  OBVIOUS
<1>5. ~(x.n > made)
  BY <1>1 DEF PluginsInv, FutureUnknown, Threads
<1>6. c[1] = x /\ c[2] = n + 1 /\ c \in Objects \X (1 .. Things)
  BY <1>1
<1>7. d \in Doings
  BY <1>1, AtType DEF Steps
<1>8. /\ \A y, m, h : d = Activating(y, m, h) => y = x /\ h # g /\ (h = "second" => m = n)
      /\ \A y : d # Deactivating(y)
  BY States
<1>9. \A e : StaysBehind(e) => StaysBehind(e)'
  BY StaysOn
<1>10. PluginsTypeOK'
  <2>1. at' \in [Threads -> Doings]
    BY <1>7, AtType
  <2>2. parts' \subseteq Objects \X (1 .. Things) /\ cached' \subseteq Objects \X (1 .. Things)
    BY <1>6 DEF PluginsInv, PluginsTypeOK
  <2> HIDE DEF c, d
  <2> QED BY <2>1, <2>2, TypeFrom DEF PluginsInv, PluginsTypeOK
<1>11. Registers[n + 1] \in {"widget", "button", "separator", "menu"}
  BY <1>1, PluginsAssumption DEF Things
<1>12. c \in ps => StaysBehind(c)' \/ (x \in active /\ (c \in cached' \/ AboutToBe(c)'))
  <2>1. g = "first" => AboutToBe(c)'
    BY <1>1, <1>3, <1>6 DEF AboutToBe, Threads
  <2>2. x \in raced => StaysBehind(c)'
    BY <1>6 DEF StaysBehind
  <2>3. g \in {"first", "second"} /\ (c \in ps /\ g = "second" => c \in cached')
    BY DEF Steps
  <2> HIDE DEF c
  <2> QED BY <1>2, <2>1, <2>2, <2>3
<1>13. ASSUME NEW e, AboutToBe(e)
       PROVE  e[1] = x /\ e[2] = n + 1 /\ g = "second"
  <2>1. PICK m \in 0 .. Things : e[2] = m + 1 /\ at["gui"] = Activating(e[1], m, "second")
    BY <1>13 DEF AboutToBe
  <2>2. Activating(x, n, g) = Activating(e[1], m, "second")
    BY <2>1
  <2> QED BY <2>1, <2>2, States
<1>14. ASSUME NEW e \in parts, AboutToBe(e)
       PROVE  StaysBehind(e)' \/ e \in cached'
  <2>1. e = c
    <3>1. e = <<e[1], e[2]>>
      BY DEF PluginsInv, PluginsTypeOK
    <3> QED BY <1>13, <1>14, <3>1
  <2>2. Registers[n + 1] = "separator" => StaysBehind(c)'
    BY <1>6 DEF StaysBehind
  <2> QED BY <1>2, <1>11, <1>13, <1>14, <2>1, <2>2
<1> HIDE DEF c, d
<1>15. FutureUnknown'
  BY <1>3, <1>4, <1>5, <1>8, States DEF PluginsInv, FutureUnknown
<1>16. PartsHeld'
  <2> SUFFICES ASSUME NEW e \in parts'
               PROVE  StaysBehind(e)' \/ (e[1] \in active /\ (e \in cached' \/ AboutToBe(e)'))
    BY DEF PartsHeld
  <2>1. CASE e \in parts
    BY <1>9, <1>14, <2>1 DEF PluginsInv, PartsHeld
  <2>2. CASE e \notin parts
    BY <1>4, <1>12, <2>2
  <2> QED BY <2>1, <2>2
<1>17. Middle'
  <2>1. at'["worker"] = at["worker"] /\ at'["gui"] = d
    BY <1>3 DEF Threads
  <2>2. ASSUME NEW t \in Threads, NEW y \in Objects, at'[t] = Deactivating(y), NEW e \in parts', e[1] = y
        PROVE  StaysBehind(e)'
    <3>1. t = "worker" /\ at[t] = Deactivating(y)
      BY <1>3, <1>8, <2>2 DEF Threads
    <3>2. CASE e \in parts
      BY <1>9, <2>2, <3>1, <3>2 DEF PluginsInv, Middle
    <3>3. CASE e \notin parts
      BY <1>2, <1>4, <2>2, <3>1, <3>3 DEF StaysBehind
    <3> QED BY <3>2, <3>3
  <2>3. ASSUME NEW y \in Objects, NEW m \in 0 .. Things - 1, at'["gui"] = Activating(y, m, "second"),
               Registers[m + 1] \in {"button", "menu"}
        PROVE  <<y, m + 1>> \in cached'
    <3>1. y = x /\ m = n /\ g = "first"
      BY <1>8, <2>1, <2>3 DEF Steps
    <3> QED BY <2>3, <3>1
  <2>4. ASSUME NEW y \in Objects, NEW m \in 0 .. Things, NEW h \in Steps
        PROVE  /\ at'["worker"] # Activating(y, m, h)
               /\ at'["gui"] = Activating(y, m, h) =>
                    y \in raced' \/ (y \in active' /\ at'["worker"] # Deactivating(y))
    BY <1>2, <1>8, <2>1 DEF PluginsInv, Middle
  <2>5. \A p \in Plugins : at'["worker"] # Loading(p)
    BY <2>1 DEF PluginsInv, Middle
  <2> QED BY <2>2, <2>3, <2>4, <2>5 DEF Middle
<1>18. (TornIsEnding /\ TornDownOnce)'
  <2>1. \A y \in Objects, t \in Threads : at[t] = Deactivating(y) => at'[t] = Deactivating(y)
    BY <1>3, States
  <2> QED BY <2>1 DEF PluginsInv, TornIsEnding, TornDownOnce
<1> QED BY <1>10, <1>15, <1>16, <1>17, <1>18 DEF PluginsInv

LEMMA RegisterHalfPreserves ==
  ASSUME PluginsInv, RegisterHalf
  PROVE  PluginsInv'
<1>1. PICK x \in Objects, n \in 0 .. Things - 1 :
        /\ at["gui"] = Activating(x, n, "first")
        /\ at' = [at EXCEPT !["gui"] = Activating(x, n, "second")]
        /\ IF Registers[n + 1] \in {"widget", "separator"}
             THEN parts' = parts \cup {<<x, n + 1>>} /\ UNCHANGED cached
             ELSE cached' = cached \cup {<<x, n + 1>>} /\ UNCHANGED parts
        /\ UNCHANGED <<made, active, todo, torn, raced, replaced, cut>>
  BY DEF RegisterHalf, AddedFirst, Remember
<1>2. PICK ps \in SUBSET {<<x, n + 1>>}, cs \in SUBSET {<<x, n + 1>>} :
        /\ parts' = parts \cup ps /\ cached' = cached \cup cs
        /\ Registers[n + 1] \in {"button", "menu"} => <<x, n + 1>> \in cs
  <2>1. CASE Registers[n + 1] \in {"widget", "separator"}
    <3> WITNESS {<<x, n + 1>>} \in SUBSET {<<x, n + 1>>}, {} \in SUBSET {<<x, n + 1>>}
    <3> QED BY <1>1, <2>1
  <2>2. CASE Registers[n + 1] \notin {"widget", "separator"}
    <3> WITNESS {} \in SUBSET {<<x, n + 1>>}, {<<x, n + 1>>} \in SUBSET {<<x, n + 1>>}
    <3> QED BY <1>1, <2>2
  <2> QED BY <2>1, <2>2
<1>3. "first" \in Steps /\ "first" # "second"
  BY DEF Steps
<1> QED BY <1>1, <1>2, <1>3, RegistersPreserve

LEMMA RegisterPreserves ==
  ASSUME PluginsInv, Register
  PROVE  PluginsInv'
<1>1. PICK x \in Objects, n \in 0 .. Things - 1 :
        /\ at["gui"] = Activating(x, n, "second")
        /\ at' = [at EXCEPT !["gui"] = Activating(x, n + 1, "first")]
        /\ parts' = parts \cup IF Registers[n + 1] \in {"widget", "separator"}
                                 THEN {} ELSE {<<x, n + 1>>}
        /\ cached' = cached \cup IF Registers[n + 1] = "widget" THEN {<<x, n + 1>>} ELSE {}
        /\ UNCHANGED <<made, active, todo, torn, raced, replaced, cut>>
  BY DEF Register, AddedFirst, Remember
<1>2. /\ n + 1 \in 1 .. Len(Registers)
      /\ Registers[n + 1] \in {"widget", "button", "separator", "menu"}
  BY PluginsAssumption, ThingsType DEF Things
<1>3. Registers[n + 1] \in {"button", "menu"} => <<x, n + 1>> \in cached
  BY <1>1 DEF PluginsInv, Middle
<1> DEFINE ps == IF Registers[n + 1] \in {"widget", "separator"} THEN {} ELSE {<<x, n + 1>>}
           cs == IF Registers[n + 1] = "widget" THEN {<<x, n + 1>>} ELSE {}
<1>4. /\ ps \in SUBSET {<<x, n + 1>>} /\ cs \in SUBSET {<<x, n + 1>>}
      /\ parts' = parts \cup ps /\ cached' = cached \cup cs
      /\ ps \subseteq cached' /\ (Registers[n + 1] = "widget" => <<x, n + 1>> \in cs)
  BY <1>1, <1>2, <1>3
<1> HIDE DEF ps, cs
<1>5. "second" \in Steps /\ "first" # "second"
  BY DEF Steps
<1> QED BY <1>1, <1>4, <1>5, RegistersPreserve

LEMMA StopActivatingPreserves ==
  ASSUME PluginsInv, StopActivating
  PROVE  PluginsInv'
<1>1. PICK x \in Objects, n \in 0 .. Things, due \in Steps :
        /\ at["gui"] = Activating(x, n, due)
        /\ due = "second" => n < Things /\ Registers[n + 1] # "menu"
        /\ at' = [at EXCEPT !["gui"] = Loading(x.plugin)]
        /\ cut' = cut \cup IF due = "second" THEN {<<x, n + 1>>} ELSE {}
        /\ UNCHANGED <<made, active, parts, cached, todo, torn, raced, replaced>>
  BY DEF StopActivating
<1>2. x.plugin \in Plugins
  BY DEF Objects
<1>3. \A t \in Threads : at'[t] = IF t = "gui" THEN Loading(x.plugin) ELSE at[t]
  BY <1>1, AtType
<1>4. \A y \in Objects, t \in Threads : at[t] = Deactivating(y) <=> at'[t] = Deactivating(y)
  BY <1>1, <1>3, States
<1>5. \A y, m, h : at'["gui"] # Activating(y, m, h)
  BY <1>3, States DEF Threads
<1>6. \A c : StaysBehind(c) => StaysBehind(c)'
  BY <1>1, StaysOn
<1>7. PluginsTypeOK'
  <2>1. at' \in [Threads -> Doings]
    BY <1>1, <1>2, AtType
  <2>2. due = "second" => n + 1 \in 1 .. Things
    BY <1>1, ThingsType
  <2>3. cut' \subseteq Objects \X (1 .. Things)
    BY <1>1, <2>2 DEF PluginsInv, PluginsTypeOK
  <2> QED BY <1>1, <2>1, <2>3, TypeFrom DEF PluginsInv, PluginsTypeOK
<1>8. (FutureUnknown /\ TornIsEnding /\ TornDownOnce)'
  BY <1>1, <1>4, <1>5 DEF PluginsInv, FutureUnknown, TornIsEnding, TornDownOnce
<1>9. PartsHeld'
  <2> SUFFICES ASSUME NEW c \in parts, AboutToBe(c) PROVE StaysBehind(c)' \/ c \in cached
    BY <1>1, <1>6 DEF PluginsInv, PartsHeld
  <2>1. /\ due = "second" /\ c[1] = x /\ c[2] = n + 1 /\ c = <<x, n + 1>>
        /\ n \in 0 .. Things - 1 /\ n + 1 \in 1 .. Len(Registers)
    <3>1. c = <<c[1], c[2]>>
      BY DEF PluginsInv, PluginsTypeOK
    <3>2. due = "second" /\ c[1] = x /\ c[2] = n + 1
      BY <1>1, States DEF AboutToBe
    <3> QED BY <1>1, <3>1, <3>2, ThingsType DEF Things
  <2>2. Registers[n + 1] \in {"widget", "button", "separator", "menu"}
    BY <2>1, PluginsAssumption
  <2>3. c \in cut'
    BY <1>1, <2>1
  <2>4. Registers[n + 1] \in {"button", "menu"} => c \in cached
    BY <1>1, <2>1 DEF PluginsInv, Middle
  <2>5. Registers[n + 1] \in {"widget", "separator"} => StaysBehind(c)'
    BY <2>1, <2>3 DEF StaysBehind
  <2> QED BY <2>2, <2>4, <2>5
<1>10. Middle'
  <2>1. at'["worker"] = at["worker"]
    BY <1>3 DEF Threads
  <2> QED BY <1>1, <1>4, <1>5, <1>6, <2>1 DEF PluginsInv, Middle
<1> QED BY <1>7, <1>8, <1>9, <1>10 DEF PluginsInv

LEMMA ForgetPreserves ==
  ASSUME PluginsInv, NEW t \in Threads, Forget(t)
  PROVE  PluginsInv'
<1>1. PICK x \in Objects :
        /\ at[t] = Deactivating(x)
        /\ active' = active \ {x} /\ at' = [at EXCEPT ![t] = Rest]
        /\ UNCHANGED <<made, parts, cached, todo, torn, raced, replaced, cut>>
  BY DEF Forget
<1>2. \A u \in Threads : at'[u] = IF u = t THEN Rest ELSE at[u]
  BY <1>1, AtType
<1>3. \A c \in parts : c[1] = x => StaysBehind(c)
  BY <1>1 DEF PluginsInv, Middle
<1>4. PluginsTypeOK'
  <2>1. at' \in [Threads -> Doings]
    BY <1>1, AtType
  <2> QED BY <1>1, <2>1, TypeFrom DEF PluginsInv, PluginsTypeOK
<1>5. FutureUnknown'
  BY <1>1, <1>2, States DEF PluginsInv, FutureUnknown, Threads
<1>6. \A c : StaysBehind(c) => StaysBehind(c)'
  BY <1>1, StaysOn
<1>7. \A y, n, h : at["gui"] = Activating(y, n, h) <=> at'["gui"] = Activating(y, n, h)
  BY <1>1, <1>2, States DEF Threads
<1>8. PartsHeld'
  BY <1>1, <1>3, <1>6, <1>7 DEF PluginsInv, PartsHeld, AboutToBe
<1>9. Middle'
  <2>1. \A y \in Objects, n \in 0 .. Things, h \in Steps :
          at["gui"] = Activating(y, n, h) /\ y = x => x \in raced
    BY <1>1, States DEF PluginsInv, Middle, Threads
  <2>2. \A u \in Threads, y \in Objects : at'[u] = Deactivating(y) => at[u] = Deactivating(y)
    BY <1>2, States
  <2>3. at'["worker"] \in {Rest, at["worker"]}
    BY <1>2 DEF Threads
  <2> QED BY <1>1, <1>6, <1>7, <2>1, <2>2, <2>3, States DEF PluginsInv, Middle, Threads
<1>10. (TornIsEnding /\ TornDownOnce)'
  BY <1>1, <1>2, States DEF PluginsInv, TornIsEnding, TornDownOnce
<1> QED BY <1>4, <1>5, <1>8, <1>9, <1>10 DEF PluginsInv

(* deactivate_plugin, called at rest *)
LEMMA TearDownPreserves ==
  ASSUME PluginsInv, NEW t \in Threads, NEW x \in Objects, at[t] = Rest,
         TearDown(t, x), UNCHANGED <<made, active, cached, replaced, cut>>,
         todo' \in [Threads -> SUBSET Objects],
         \A u \in Threads : todo'[u] \subseteq todo[u]
  PROVE  PluginsInv'
<1>1. CASE x \notin active \/ Breaks(x)
  <2>1. parts' \subseteq parts /\ UNCHANGED <<at, torn, raced>>
    BY <1>1 DEF TearDown, IsRegistered
  <2>2. \A c : /\ StaysBehind(c) => StaysBehind(c)'
               /\ AboutToBe(c) => AboutToBe(c)'
    BY <2>1 DEF StaysBehind, AboutToBe
  <2>3. PluginsTypeOK'
    BY <2>1 DEF PluginsInv, PluginsTypeOK
  <2>4. (FutureUnknown /\ TornIsEnding /\ TornDownOnce)'
    BY <2>1 DEF PluginsInv, FutureUnknown, TornIsEnding, TornDownOnce
  <2>5. (PartsHeld /\ Middle)'
    BY <2>1, <2>2 DEF PluginsInv, PartsHeld, Middle
  <2> QED BY <2>3, <2>4, <2>5 DEF PluginsInv
<1>2. CASE x \in active /\ ~Breaks(x)
  <2>1. /\ parts' = parts \ {c \in cached : c[1] = x}
        /\ torn' = [torn EXCEPT ![x] = @ + 1]
        /\ raced' = IF Busy(Other(t), x) THEN raced \cup {x} ELSE raced
        /\ at' = [at EXCEPT ![t] = Deactivating(x)]
    BY <1>2 DEF TearDown, IsRegistered
  <2>2. \A u \in Threads : at'[u] = IF u = t THEN Deactivating(x) ELSE at[u]
    BY <2>1, AtType
  <2>3. \A y \in Objects : torn'[y] = IF y = x THEN torn[y] + 1 ELSE torn[y]
    BY <2>1 DEF PluginsInv, PluginsTypeOK
  <2>4. Other(t) \in Threads /\ \A u \in Threads : u = t \/ u = Other(t)
    BY DEF Other, Threads
  <2>5. raced \subseteq raced' /\ (Busy(Other(t), x) => x \in raced')
    BY <2>1
  <2>6. \A c : StaysBehind(c) => StaysBehind(c)'
    BY <2>5, StaysOn
  <2>7. ~(x.n > made)
    BY <1>2 DEF PluginsInv, FutureUnknown
  <2>8. PluginsTypeOK'
    <3>1. at' \in [Threads -> Doings] /\ torn' \in [Objects -> Nat] /\ raced' \subseteq Objects
      BY <2>1, <2>3, AtType DEF PluginsInv, PluginsTypeOK
    <3> QED BY <2>1, <3>1, TypeFrom DEF PluginsInv, PluginsTypeOK
  <2>9. FutureUnknown'
    BY <2>1, <2>2, <2>3, <2>7, States DEF PluginsInv, FutureUnknown, Threads
  <2>10. ASSUME NEW c \in parts', c[1] = x
         PROVE  StaysBehind(c)'
    <3>1. CASE AboutToBe(c)
      <4>1. at["gui"] # Rest
        BY <3>1, States DEF AboutToBe
      <4>2. Other(t) = "gui"
        BY <4>1 DEF Other, Threads
      <4>3. Busy(Other(t), x)
        BY <2>10, <3>1, <4>2 DEF Busy, AboutToBe, Steps
      <4> QED BY <2>5, <2>10, <4>3 DEF StaysBehind
    <3>2. CASE ~AboutToBe(c)
      BY <2>1, <2>6, <2>10, <3>2 DEF PluginsInv, PartsHeld
    <3> QED BY <3>1, <3>2
  <2>11. \A y, n, h : y # x /\ at["gui"] = Activating(y, n, h) => at'["gui"] = Activating(y, n, h)
    BY <2>2, States DEF Threads
  <2>12. PartsHeld'
    <3> SUFFICES ASSUME NEW c \in parts', c[1] # x
                 PROVE  StaysBehind(c)' \/ (c[1] \in active /\ (c \in cached \/ AboutToBe(c)'))
      BY <2>10 DEF PartsHeld
    <3>1. AboutToBe(c) => AboutToBe(c)'
      BY <2>11 DEF AboutToBe
    <3> QED BY <2>1, <2>6, <3>1 DEF PluginsInv, PartsHeld
  <2>13. Middle'
    <3>1. ASSUME NEW y \in Objects, NEW n \in 0 .. Things, NEW h \in Steps
          PROVE  /\ at'["worker"] # Activating(y, n, h)
                 /\ at'["gui"] = Activating(y, n, h) =>
                      y \in raced' \/ (y \in active /\ at'["worker"] # Deactivating(y))
      <4>1. at'["worker"] # Activating(y, n, h)
        BY <2>2, States DEF PluginsInv, Middle, Threads
      <4> SUFFICES ASSUME at'["gui"] = Activating(y, n, h)
                   PROVE  y \in raced' \/ (y \in active /\ at'["worker"] # Deactivating(y))
        BY <4>1
      <4>2. t = "worker" /\ at["gui"] = Activating(y, n, h)
        BY <2>2, States DEF Threads
      <4>3. CASE y = x
        BY <2>5, <4>2, <4>3 DEF Busy, Other
      <4>4. CASE y # x
        BY <2>2, <2>5, <4>2, <4>4, States DEF PluginsInv, Middle, Threads
      <4> QED BY <4>3, <4>4
    <3>2. \A p \in Plugins : at'["worker"] # Loading(p)
      BY <2>2, States DEF PluginsInv, Middle, Threads
    <3>3. ASSUME NEW u \in Threads, NEW y \in Objects, at'[u] = Deactivating(y),
                 NEW c \in parts', c[1] = y
          PROVE  StaysBehind(c)'
      <4>1. CASE y = x
        BY <2>10, <3>3, <4>1
      <4>2. CASE y # x
        <5>1. at[u] = Deactivating(y)
          BY <2>2, <3>3, <4>2, States
        <5> QED BY <2>1, <2>6, <3>3, <5>1 DEF PluginsInv, Middle
      <4> QED BY <4>1, <4>2
    <3>4. ASSUME NEW y \in Objects, NEW n \in 0 .. Things - 1, at'["gui"] = Activating(y, n, "second"),
                 Registers[n + 1] \in {"button", "menu"}
          PROVE  <<y, n + 1>> \in cached
      <4>1. at["gui"] = Activating(y, n, "second")
        BY <2>2, <3>4, States DEF Threads
      <4> QED BY <3>4, <4>1 DEF PluginsInv, Middle
    <3> QED BY <3>1, <3>2, <3>3, <3>4 DEF Middle
  <2>14. TornIsEnding'
    <3>1. \A u \in Threads, y \in Objects : at[u] = Deactivating(y) => at'[u] = Deactivating(y)
      BY <2>2, States
    <3> QED BY <2>2, <2>3, <2>5, <3>1 DEF PluginsInv, TornIsEnding
  <2>15. TornDownOnce'
    <3>1. torn[x] > 0 => x \in raced'
      <4>1. \A u \in Threads : at[u] = Deactivating(x) => Busy(Other(t), x)
        BY <2>4, States DEF Busy
      <4> QED BY <1>2, <2>5, <4>1 DEF PluginsInv, TornIsEnding
    <3>2. torn[x] \in Nat
      BY DEF PluginsInv, PluginsTypeOK
    <3> QED BY <2>3, <2>5, <3>1, <3>2 DEF PluginsInv, TornDownOnce
  <2> QED BY <2>8, <2>9, <2>12, <2>13, <2>14, <2>15 DEF PluginsInv
<1> QED BY <1>1, <1>2

(* the steps that change nothing but who is called next *)
LEMMA TodoPreserves ==
  ASSUME PluginsInv,
         UNCHANGED <<made, active, parts, cached, at, torn, raced, replaced, cut>>,
         todo' \in [Threads -> SUBSET Objects],
         \A u \in Threads : todo'[u] \subseteq todo[u] \cup active
  PROVE  PluginsInv'
BY DEF PluginsInv, PluginsTypeOK, FutureUnknown, PartsHeld, AboutToBe, StaysBehind, Middle,
       TornIsEnding, TornDownOnce

LEMMA StepPreserves == PluginsInv /\ [PluginsNext]_vars => PluginsInv'
<1> SUFFICES ASSUME PluginsInv, [PluginsNext]_vars PROVE PluginsInv'
  OBVIOUS
<1>1. /\ todo \in [Threads -> SUBSET Objects] /\ active \subseteq Objects
  BY DEF PluginsInv, PluginsTypeOK
<1>2. ASSUME NEW p \in Plugins, Load(p) PROVE PluginsInv'
  BY <1>2, LoadingPreserves DEF Load, Free
<1>3. CASE Loaded
  BY <1>3, LoadingPreserves DEF Loaded
<1>4. CASE Activate
  BY <1>4, ActivatePreserves
<1>5. CASE RegisterHalf
  BY <1>5, RegisterHalfPreserves
<1>6. CASE Register
  BY <1>6, RegisterPreserves
<1>7. CASE StopActivating
  BY <1>7, StopActivatingPreserves
<1>8. ASSUME NEW x \in Objects, Deactivate(x) PROVE PluginsInv'
  BY <1>1, <1>8, TearDownPreserves DEF Deactivate, Free, Threads
<1>9. ASSUME NEW t \in Threads, Forget(t) PROVE PluginsInv'
  BY <1>9, ForgetPreserves
<1>10. ASSUME NEW t \in Threads, Dispatch(t) PROVE PluginsInv'
  BY <1>1, <1>10, TodoPreserves DEF Dispatch
<1>11. ASSUME NEW t \in Threads, NEW x \in Objects, NEW raises \in BOOLEAN, Call(t, x, raises)
       PROVE  PluginsInv'
  <2>1. /\ todo' \in [Threads -> SUBSET Objects]
        /\ \A u \in Threads : todo'[u] \subseteq todo[u]
    BY <1>1, <1>11 DEF Call
  <2>2. CASE raises
    BY <1>11, <2>1, <2>2, TearDownPreserves DEF Call
  <2>3. CASE ~raises
    BY <1>11, <2>1, <2>3, TodoPreserves DEF Call
  <2> QED BY <2>2, <2>3
<1>12. CASE Leave
  BY <1>1, <1>12, TodoPreserves DEF Leave
<1>13. CASE UNCHANGED vars
  BY <1>1, <1>13, TodoPreserves DEF vars
<1> QED BY <1>2, <1>3, <1>4, <1>5, <1>6, <1>7, <1>8, <1>9, <1>10, <1>11, <1>12, <1>13
        DEF PluginsNext

LEMMA InitHolds == PluginsInit => PluginsInv
<1> SUFFICES ASSUME PluginsInit PROVE PluginsInv
  OBVIOUS
<1>1. \A t \in Threads : at[t] = Rest /\ todo[t] = {}
  BY DEF PluginsInit
<1>2. \A x \in Objects : torn[x] = 0
  BY DEF PluginsInit
<1>3. PluginsTypeOK
  BY PluginsAssumption DEF PluginsInit, PluginsTypeOK, Threads
<1>4. FutureUnknown
  BY <1>1, <1>2, States DEF PluginsInit, FutureUnknown, Threads
<1>5. PartsHeld /\ Middle
  BY <1>1, States DEF PluginsInit, PartsHeld, Middle, Threads
<1>6. TornIsEnding /\ TornDownOnce
  BY <1>2 DEF TornIsEnding, TornDownOnce
<1> QED BY <1>3, <1>4, <1>5, <1>6 DEF PluginsInv

THEOREM InvariantHolds == PluginsSpec => []PluginsInv
BY InitHolds, StepPreserves, PTL DEF PluginsSpec

(* Nothing in the user interface outlives the plugin it belongs to, for any
   plugins and things they register and whatever their handlers raise, but for
   the four kinds of StaysBehind (register_active_plugin, deactivate_plugin). *)
THEOREM PartsAlwaysBelong == PluginsSpec => []PartsBelongToActive
<1>1. PluginsInv => PartsBelongToActive
  BY DEF PluginsInv, PartsHeld, PartsBelongToActive
<1> QED BY <1>1, InvariantHolds, PTL

(* No plugin is torn down twice unless both threads deactivate it at once
   (deactivate_plugin, _dispatch). *)
THEOREM TornDownAtMostOnce == PluginsSpec => []TornDownOnce
<1>1. PluginsInv => TornDownOnce
  BY DEF PluginsInv
<1> QED BY <1>1, InvariantHolds, PTL

-----------------------------------------------------------------------------
(***************************************************************************)
(* Debuggers.  An event is passed to its listeners by FoldLeft, which is    *)
(* taken apart into the states after each of them (IsPassing), so that what *)
(* holds between two listeners can be shown by induction on their number    *)
(* (PassingInduction).                                                      *)
(***************************************************************************)
\* The least of a set of positions; the first of a sequence to be found.
LEMMA LeastPos ==
  ASSUME NEW I, I \subseteq Nat, I # {}
  PROVE  Min(I) \in I /\ \A i \in I : Min(I) <= i
<1>1. PICK R : R = {ss \in Nat \X Nat : ss[1] < ss[2]}
  OBVIOUS
<1>2. IsWellFoundedOn(R, Nat)
  BY <1>1, NatLessThanWellFounded, Zenon DEF OpToRel
<1>3. PICK x \in I : \A y \in I : <<y, x>> \notin R
  BY <1>2, WFMin
<1>4. ASSUME NEW y \in I PROVE x <= y
  <2>1. x \in Nat /\ y \in Nat /\ <<y, x>> \in Nat \X Nat
    OBVIOUS
  <2>2. ~(y < x)
    BY <1>1, <1>3, <2>1
  <2> QED
    BY <2>1, <2>2
<1> QED
  BY <1>3, <1>4 DEF Min

Distinct(q) == \A i \in 1 .. Len(q), j \in 1 .. Len(q) : q[i] = q[j] => i = j

\* RemoveFirst takes an element that occurs once out of a sequence.
LEMMA FirstRemoved ==
  ASSUME NEW X, NEW q \in Seq(X), Distinct(q), NEW e, NEW r, r = RemoveFirst(q, e)
  PROVE  /\ r \in Seq(X) /\ Distinct(r)
         /\ \A x : Contains(r, x) <=> Contains(q, x) /\ x # e
<1>1. CASE ~Contains(q, e)
  BY <1>1 DEF RemoveFirst, Contains
<1>2. CASE Contains(q, e)
  <2>1. PICK I : I = {i \in 1 .. Len(q) : q[i] = e}
    OBVIOUS
  <2>2. I \subseteq Nat /\ I # {}
    BY <1>2, <2>1 DEF Contains
  <2>3. PICK k : k = Min(I)
    OBVIOUS
  <2>4. k \in 1 .. Len(q) /\ q[k] = e
    BY <2>1, <2>2, <2>3, LeastPos
  <2>5. r = RemoveAt(q, k)
    BY <1>2, <2>1, <2>2, <2>3 DEF RemoveFirst, SelectInSeq, Contains
  <2>6. PICK n \in Nat : n = Len(q)
    BY LenProperties
  <2>7. PICK a : a = SubSeq(q, 1, k - 1)
    OBVIOUS
  <2>8. PICK b : b = SubSeq(q, k + 1, n)
    OBVIOUS
  <2>9. /\ a \in Seq(X) /\ Len(a) = k - 1 /\ \A i \in 1 .. k - 1 : a[i] = q[i]
    <3>2. /\ SubSeq(q, 1, k - 1) \in Seq(X)
          /\ Len(SubSeq(q, 1, k - 1)) = IF 1 <= k - 1 THEN k - 1 - 1 + 1 ELSE 0
          /\ \A i \in 1 .. k - 1 - 1 + 1 : SubSeq(q, 1, k - 1)[i] = q[1 + i - 1]
      BY <2>4, <2>6, SubSeqProperties
    <3> QED
      BY <2>4, <2>6, <2>7, <3>2
  <2>14. /\ b \in Seq(X) /\ Len(b) = n - k /\ \A i \in 1 .. n - k : b[i] = q[k + i]
    <3>2. /\ SubSeq(q, k + 1, n) \in Seq(X)
          /\ Len(SubSeq(q, k + 1, n)) = IF k + 1 <= n THEN n - (k + 1) + 1 ELSE 0
          /\ \A i \in 1 .. n - (k + 1) + 1 : SubSeq(q, k + 1, n)[i] = q[k + 1 + i - 1]
      BY <2>6, <2>4, SubSeqProperties
    <3> QED
      BY <2>4, <2>6, <2>8, <3>2
  <2>15. r = a \o b
    BY <2>5, <2>6, <2>7, <2>8 DEF RemoveAt
  <2>10. r \in Seq(X) /\ Len(r) = n - 1
         /\ \A i \in 1 .. n - 1 : r[i] = IF i <= k - 1 THEN q[i] ELSE q[i + 1]
    <3>1. /\ r \in Seq(X) /\ Len(r) = (k - 1) + (n - k)
          /\ \A i \in 1 .. (k - 1) + (n - k) : r[i] = IF i <= k - 1 THEN a[i] ELSE b[i - (k - 1)]
      <4>1. a \in Seq(X) /\ b \in Seq(X)
        BY <2>9, <2>14
      <4>2. /\ r \in Seq(X) /\ Len(r) = Len(a) + Len(b)
            /\ \A i \in 1 .. Len(a) + Len(b) : r[i] = IF i <= Len(a) THEN a[i] ELSE b[i - Len(a)]
        BY <2>15, <4>1, ConcatProperties
      <4> QED
        BY <2>9, <2>14, <4>2
    <3>2. ASSUME NEW i \in 1 .. n - 1 PROVE r[i] = IF i <= k - 1 THEN q[i] ELSE q[i + 1]
      <4>0. r[i] = IF i <= k - 1 THEN a[i] ELSE b[i - (k - 1)]
        BY <2>4, <2>6, <3>1
      <4>1. CASE i <= k - 1
        BY <2>4, <2>6, <2>9, <4>0, <4>1
      <4>2. CASE i > k - 1
        <5>1. PICK j \in 1 .. n - k : j = i - (k - 1) /\ k + j = i + 1
          BY <2>4, <2>6, <4>2
        <5>2. r[i] = b[j]
          BY <2>4, <2>6, <4>0, <4>2, <5>1
        <5> QED
          BY <2>4, <2>6, <2>14, <4>2, <5>1, <5>2
      <4> QED
        BY <2>4, <2>6, <4>1, <4>2
    <3> QED
      BY <2>4, <2>6, <3>1, <3>2
  <2>11. Distinct(r)
    BY <2>4, <2>6, <2>10 DEF Distinct
  <2>12. ASSUME NEW x, Contains(r, x) PROVE Contains(q, x) /\ x # e
    <3>1. PICK i \in 1 .. n - 1 : r[i] = x
      BY <2>10, <2>12 DEF Contains
    <3>2. PICK j \in 1 .. n : q[j] = x /\ j # k
      BY <2>4, <2>6, <2>10, <3>1
    <3> QED
      BY <2>4, <2>6, <3>2 DEF Contains, Distinct
  <2>13. ASSUME NEW x, Contains(q, x), x # e PROVE Contains(r, x)
    <3>1. PICK j \in 1 .. n : q[j] = x /\ j # k
      BY <2>4, <2>6, <2>13 DEF Contains
    <3>2. CASE j < k
      <4>1. j \in 1 .. n - 1 /\ r[j] = x
        BY <2>4, <2>6, <2>10, <3>1, <3>2
      <4> QED
        BY <2>10, <4>1 DEF Contains
    <3>3. CASE j > k
      <4>1. j - 1 \in 1 .. n - 1 /\ ~(j - 1 <= k - 1) /\ (j - 1) + 1 = j
        BY <2>4, <2>6, <3>1, <3>3
      <4>2. r[j - 1] = x
        BY <2>10, <3>1, <4>1
      <4> QED
        BY <2>10, <4>1, <4>2 DEF Contains
    <3> QED
      BY <2>4, <2>6, <3>1, <3>2, <3>3
  <2> QED
    BY <2>10, <2>11, <2>12, <2>13
<1> QED
  BY <1>1, <1>2

LEMMA Appended ==
  ASSUME NEW X, NEW q \in Seq(X), Distinct(q), NEW e \in X, ~Contains(q, e), NEW r, r = Append(q, e)
  PROVE  /\ r \in Seq(X) /\ Distinct(r)
         /\ \A x : Contains(r, x) <=> Contains(q, x) \/ x = e
<1>1. /\ r \in Seq(X) /\ Len(r) = Len(q) + 1 /\ Len(q) \in Nat
      /\ \A i \in 1 .. Len(q) : r[i] = q[i]
      /\ r[Len(q) + 1] = e
  BY AppendProperties
<1>2. Distinct(r)
  BY <1>1 DEF Distinct, Contains
<1>3. ASSUME NEW x, Contains(r, x) PROVE Contains(q, x) \/ x = e
  BY <1>1, <1>3 DEF Contains
<1>4. ASSUME NEW x, Contains(q, x) PROVE Contains(r, x)
  BY <1>1, <1>4 DEF Contains
<1>5. Contains(r, e)
  BY <1>1 DEF Contains
<1> QED
  BY <1>1, <1>2, <1>3, <1>4, <1>5

-----------------------------------------------------------------------------
\* What am_event does with the next listener, for each of the four events.
Updating   == [of |-> "debugger", removed |-> None]
Calling    == [of |-> "state", removed |-> None]
Listing(d) == [of |-> "list", removed |-> d]
Removing   == [of |-> "removal", removed |-> None]
ListListener(s, l, removed) ==
  IF l = "combo" THEN SelectInCombo(s)
  ELSE IF removed # None /\ s.current = removed THEN SetDebugger(s, None)
  ELSE s
Cutting(ps, a, new) == [of |-> "cut", ps |-> ps, addr |-> a, bytes |-> new]
Merging == [of |-> "merge"]
CutStep(ps, a, new, acc, p) ==
  IF acc.done THEN acc
  ELSE [ps |-> MakeRoom(acc.ps, p, a, new),
        done |-> p <= a /\ PatchEnd(ps, p) > a + Len(new) - 1]
MergeStep(acc, p) ==
  IF p # PatchEnd(acc.ps, acc.head) THEN [acc EXCEPT !.head = p]
  ELSE [acc EXCEPT !.ps = MergeWith(@, acc.head, p)]
Told(how, s, x) ==
  IF how.of = "debugger" THEN DebuggerUpdated(s, x)
  ELSE IF how.of = "state" THEN Callback(s, x)
  ELSE IF how.of = "list" THEN ListListener(s, x, how.removed)
  ELSE IF how.of = "cut" THEN CutStep(how.ps, how.addr, how.bytes, s, x)
  ELSE IF how.of = "merge" THEN MergeStep(s, x)
  ELSE RemoveDebugger(s, x)

\* The function that FoldLeft goes through, on the positions it has dealt with.
IsRun(how, base, q, n, h) ==
  h = [S \in SUBSET (1 .. n) |->
         IF S = {} THEN base ELSE Told(how, h[S \ {Max(S)}], q[Max(S)])]
\* The states after each listener.
IsPassing(how, base, q, n, g) ==
  g[0] = base /\ \A i \in 1 .. n : g[i] = Told(how, g[i - 1], q[i])

LEMMA GreatestPos ==
  ASSUME NEW n \in Nat, NEW S, S \subseteq 1 .. n, S # {}
  PROVE  Max(S) \in S /\ \A i \in S : i <= Max(S)
<1>1. PICK M : M = {n - i : i \in S}
  OBVIOUS
<1>2. M \subseteq Nat /\ M # {}
  <2>1. \A i \in S : n - i \in Nat
    OBVIOUS
  <2> QED
    BY <1>1, <2>1
<1>3. Min(M) \in M /\ \A k \in M : Min(M) <= k
  BY <1>2, LeastPos
<1>4. PICK x \in S : n - x = Min(M)
  BY <1>1, <1>3
<1>5. ASSUME NEW y \in S PROVE y <= x
  <2>1. n - y \in M
    BY <1>1
  <2>2. n - x <= n - y /\ x \in Nat /\ y \in Nat
    BY <1>3, <1>4, <2>1
  <2> QED
    BY <2>2
<1> QED
  BY <1>4, <1>5 DEF Max

LEMMA RunExists ==
  ASSUME NEW how, NEW base, NEW q, NEW n \in Nat
  PROVE  \E h : IsRun(how, base, q, n, h)
<1>1. SUFFICES ASSUME ~\E h : IsRun(how, base, q, n, h) PROVE FALSE
  OBVIOUS
<1>2. PICK B : B = {k \in Nat : ~\E h : IsRun(how, base, q, k, h)}
  OBVIOUS
<1>3. B \subseteq Nat /\ B # {}
  BY <1>1, <1>2
<1>4. PICK k : k = Min(B)
  OBVIOUS
<1>5. k \in B /\ \A j \in B : k <= j
  BY <1>3, <1>4, LeastPos
<1>6. k \in Nat /\ ~\E h : IsRun(how, base, q, k, h)
  BY <1>2, <1>5
<1>7. CASE k = 0
  <2>1. PICK h : h = [S \in SUBSET (1 .. k) |-> base]
    OBVIOUS
  <2>2. ASSUME NEW S \in SUBSET (1 .. k) PROVE S = {}
    BY <1>7
  <2>3. IsRun(how, base, q, k, h)
    BY <2>1, <2>2 DEF IsRun
  <2> QED
    BY <1>6, <2>3
<1>8. CASE k # 0
  <2>1. k - 1 \in Nat /\ ~(k <= k - 1)
    BY <1>6, <1>8
  <2>2. PICK g : IsRun(how, base, q, k - 1, g)
    BY <1>2, <1>5, <2>1
  <2>3. PICK h : h = [S \in SUBSET (1 .. k) |->
                        IF S = {} THEN base ELSE Told(how, g[S \ {Max(S)}], q[Max(S)])]
    OBVIOUS
  <2>4. ASSUME NEW S \in SUBSET (1 .. k), S # {} PROVE S \ {Max(S)} \in SUBSET (1 .. k - 1)
    <3>1. PICK m : m = Max(S)
      OBVIOUS
    <3>2. m \in S /\ \A i \in S : i <= m
      BY <1>6, <2>4, <3>1, GreatestPos
    <3>3. ASSUME NEW i \in S, i # m PROVE i \in 1 .. k - 1
      BY <1>6, <3>2, <3>3
    <3> QED
      BY <3>1, <3>3
  <2>5. ASSUME NEW S \in SUBSET (1 .. k - 1) PROVE h[S] = g[S]
    <3>1. S \in SUBSET (1 .. k)
      BY <1>6
    <3>2. h[S] = IF S = {} THEN base ELSE Told(how, g[S \ {Max(S)}], q[Max(S)])
      BY <2>3, <3>1
    <3>3. g[S] = IF S = {} THEN base ELSE Told(how, g[S \ {Max(S)}], q[Max(S)])
      BY <2>2 DEF IsRun
    <3> QED
      BY <3>2, <3>3
  <2>6. ASSUME NEW S \in SUBSET (1 .. k)
        PROVE  (IF S = {} THEN base ELSE Told(how, g[S \ {Max(S)}], q[Max(S)]))
               = (IF S = {} THEN base ELSE Told(how, h[S \ {Max(S)}], q[Max(S)]))
    <3>1. S # {} => g[S \ {Max(S)}] = h[S \ {Max(S)}]
      BY <2>4, <2>5
    <3> QED
      BY <3>1
  <2>7. IsRun(how, base, q, k, h)
    BY <2>3, <2>6 DEF IsRun
  <2> QED
    BY <1>6, <2>7
<1> QED
  BY <1>7, <1>8

LEMMA PassingIs ==
  ASSUME NEW how, NEW base, NEW q, NEW n \in Nat, NEW h, IsRun(how, base, q, n, h)
  PROVE  \E g : IsPassing(how, base, q, n, g) /\ g[n] = h[1 .. n]
<1>1. PICK g : g = [i \in 0 .. n |-> h[1 .. i]]
  OBVIOUS
<1>2. g[0] = base
  <2>1. 1 .. 0 = {}
    OBVIOUS
  <2>2. {} \in SUBSET (1 .. n)
    OBVIOUS
  <2>3. h[{}] = base
    BY <2>2 DEF IsRun
  <2> QED
    BY <1>1, <2>1, <2>3
<1>3. ASSUME NEW i \in 1 .. n PROVE g[i] = Told(how, g[i - 1], q[i])
  <2>1. PICK S : S = 1 .. i
    OBVIOUS
  <2>2. S \in SUBSET (1 .. n) /\ S # {} /\ i \in S
    BY <2>1
  <2>3. PICK m : m = Max(S)
    OBVIOUS
  <2>4. m \in S /\ \A j \in S : j <= m
    BY <2>2, <2>3, GreatestPos
  <2>5. m = i
    BY <2>1, <2>2, <2>4
  <2>6. S \ {m} = 1 .. i - 1
    BY <2>1, <2>5
  <2>7. h[S] = Told(how, h[S \ {m}], q[m])
    BY <2>2, <2>3 DEF IsRun
  <2>8. g[i] = h[S] /\ g[i - 1] = h[1 .. i - 1]
    <3>1. i \in 0 .. n /\ i - 1 \in 0 .. n
      OBVIOUS
    <3> QED
      BY <1>1, <2>1, <3>1
  <2> QED
    BY <2>5, <2>6, <2>7, <2>8
<1> QED
  <2>1. g[n] = h[1 .. n]
    BY <1>1
  <2>2. IsPassing(how, base, q, n, g)
    BY <1>2, <1>3 DEF IsPassing
  <2> QED
    BY <2>1, <2>2

\* What holds before the first listener, and after each if it did before, holds at last.
LEMMA PassingInduction ==
  ASSUME NEW n \in Nat, NEW Good, 0 \in Good, \A i \in 1 .. n : i - 1 \in Good => i \in Good
  PROVE  n \in Good
<1>1. SUFFICES ASSUME n \notin Good PROVE FALSE
  OBVIOUS
<1>2. PICK B : B = {k \in 0 .. n : k \notin Good}
  OBVIOUS
<1>3. B \subseteq Nat /\ B # {}
  BY <1>1, <1>2
<1>4. PICK k : k = Min(B)
  OBVIOUS
<1>5. k \in B /\ \A j \in B : k <= j
  BY <1>3, <1>4, LeastPos
<1>6. k \in 1 .. n
  BY <1>2, <1>5
<1>7. k - 1 \in 0 .. n /\ ~(k <= k - 1)
  BY <1>6
<1>8. k - 1 \in Good
  BY <1>2, <1>5, <1>7
<1> QED
  BY <1>2, <1>5, <1>6, <1>8

-----------------------------------------------------------------------------
\* Each event passes from listener to listener.
LEMMA SetPasses ==
  ASSUME NEW s, NEW d, NEW n \in Nat, NEW u, u = [s EXCEPT !.current = d], DOMAIN u.onCurrent = 1 .. n
  PROVE  \E g : IsPassing(Updating, u, u.onCurrent, n, g) /\ g[n] = SetDebugger(s, d)
<1> DEFINE Q == u.onCurrent
           Def(h) == h = [S \in SUBSET (1 .. n) |->
                            IF S = {} THEN u ELSE DebuggerUpdated(h[S \ {Max(S)}], Q[Max(S)])]
<1>1. \A t, x : Told(Updating, t, x) = DebuggerUpdated(t, x)
  BY DEF Told, Updating
<1>2. ASSUME NEW h PROVE IsRun(Updating, u, Q, n, h) <=> Def(h)
  <2>1. ASSUME NEW S \in SUBSET (1 .. n)
        PROVE  (IF S = {} THEN u ELSE Told(Updating, h[S \ {Max(S)}], Q[Max(S)]))
               = IF S = {} THEN u ELSE DebuggerUpdated(h[S \ {Max(S)}], Q[Max(S)])
    BY <1>1
  <2> HIDE DEF Q
  <2> QED
    BY <2>1 DEF IsRun
<1>3. PICK h : h = CHOOSE f : Def(f)
  OBVIOUS
<1>4. \E f : Def(f)
  <2>1. \E f : IsRun(Updating, u, Q, n, f)
    BY RunExists
  <2> QED
    BY <1>2, <2>1
<1>5. Def(h)
  BY <1>3, <1>4
<1>6. IsRun(Updating, u, Q, n, h)
  BY <1>2, <1>5
<1>7. SetDebugger(s, d) = h[1 .. n]
  BY <1>3 DEF SetDebugger, FoldLeft, MapThenFoldSet
<1> QED
  BY <1>6, <1>7, PassingIs

LEMMA CallsPass ==
  ASSUME NEW s, NEW d, NEW n \in Nat, NEW u, u = [s EXCEPT !.state[d] = @ + 1], DOMAIN u.onState[d] = 1 .. n
  PROVE  \E g : IsPassing(Calling, u, u.onState[d], n, g) /\ g[n] = StateChanged(s, d)
<1> DEFINE Q == u.onState[d]
           Def(h) == h = [S \in SUBSET (1 .. n) |->
                            IF S = {} THEN u ELSE Callback(h[S \ {Max(S)}], Q[Max(S)])]
<1>1. \A t, x : Told(Calling, t, x) = Callback(t, x)
  BY DEF Told, Calling
<1>2. ASSUME NEW h PROVE IsRun(Calling, u, Q, n, h) <=> Def(h)
  <2>1. ASSUME NEW S \in SUBSET (1 .. n)
        PROVE  (IF S = {} THEN u ELSE Told(Calling, h[S \ {Max(S)}], Q[Max(S)]))
               = IF S = {} THEN u ELSE Callback(h[S \ {Max(S)}], Q[Max(S)])
    BY <1>1
  <2> HIDE DEF Q
  <2> QED
    BY <2>1 DEF IsRun
<1>3. PICK h : h = CHOOSE f : Def(f)
  OBVIOUS
<1>4. \E f : Def(f)
  <2>1. \E f : IsRun(Calling, u, Q, n, f)
    BY RunExists
  <2> QED
    BY <1>2, <2>1
<1>5. Def(h)
  BY <1>3, <1>4
<1>6. IsRun(Calling, u, Q, n, h)
  BY <1>2, <1>5
<1>7. StateChanged(s, d) = h[1 .. n]
  BY <1>3 DEF StateChanged, FoldLeft, MapThenFoldSet
<1> QED
  BY <1>6, <1>7, PassingIs

LEMMA ListPasses ==
  ASSUME NEW s, NEW d, NEW n \in Nat, DOMAIN s.onList = 1 .. n
  PROVE  \E g : IsPassing(Listing(d), s, s.onList, n, g) /\ g[n] = ListEvent(s, d)
<1> DEFINE Q == s.onList
           Def(h) == h = [S \in SUBSET (1 .. n) |->
                            IF S = {} THEN s ELSE IF Q[Max(S)] = "combo" THEN SelectInCombo(h[S \ {Max(S)}])
      ELSE IF d # None /\ h[S \ {Max(S)}].current = d THEN SetDebugger(h[S \ {Max(S)}], None) ELSE h[S \ {Max(S)}]]
<1>1. \A t, x : Told(Listing(d), t, x) = IF x = "combo" THEN SelectInCombo(t)
      ELSE IF d # None /\ t.current = d THEN SetDebugger(t, None) ELSE t
  BY DEF Told, Listing, ListListener
<1>2. ASSUME NEW h PROVE IsRun(Listing(d), s, Q, n, h) <=> Def(h)
  <2>1. ASSUME NEW S \in SUBSET (1 .. n)
        PROVE  (IF S = {} THEN s ELSE Told(Listing(d), h[S \ {Max(S)}], Q[Max(S)]))
               = IF S = {} THEN s ELSE IF Q[Max(S)] = "combo" THEN SelectInCombo(h[S \ {Max(S)}])
      ELSE IF d # None /\ h[S \ {Max(S)}].current = d THEN SetDebugger(h[S \ {Max(S)}], None) ELSE h[S \ {Max(S)}]
    BY <1>1
  <2> HIDE DEF Q
  <2> QED
    BY <2>1 DEF IsRun
<1>3. PICK h : h = CHOOSE f : Def(f)
  OBVIOUS
<1>4. \E f : Def(f)
  <2>1. \E f : IsRun(Listing(d), s, Q, n, f)
    BY RunExists
  <2> QED
    BY <1>2, <2>1
<1>5. Def(h)
  BY <1>3, <1>4
<1>6. IsRun(Listing(d), s, Q, n, h)
  BY <1>2, <1>5
<1>7. ListEvent(s, d) = h[1 .. n]
  BY <1>3 DEF ListEvent, FoldLeft, MapThenFoldSet
<1> QED
  BY <1>6, <1>7, PassingIs

LEMMA RemovalsPass ==
  ASSUME NEW s, NEW n \in Nat, DOMAIN s.list = 1 .. n
  PROVE  \E g : IsPassing(Removing, s, s.list, n, g) /\ g[n] = FoldLeft(RemoveDebugger, s, s.list)
<1> DEFINE Q == s.list
           Def(h) == h = [S \in SUBSET (1 .. n) |->
                            IF S = {} THEN s ELSE RemoveDebugger(h[S \ {Max(S)}], Q[Max(S)])]
<1>1. \A t, x : Told(Removing, t, x) = RemoveDebugger(t, x)
  BY DEF Told, Removing
<1>2. ASSUME NEW h PROVE IsRun(Removing, s, Q, n, h) <=> Def(h)
  <2>1. ASSUME NEW S \in SUBSET (1 .. n)
        PROVE  (IF S = {} THEN s ELSE Told(Removing, h[S \ {Max(S)}], Q[Max(S)]))
               = IF S = {} THEN s ELSE RemoveDebugger(h[S \ {Max(S)}], Q[Max(S)])
    BY <1>1
  <2> HIDE DEF Q
  <2> QED
    BY <2>1 DEF IsRun
<1>3. PICK h : h = CHOOSE f : Def(f)
  OBVIOUS
<1>4. \E f : Def(f)
  <2>1. \E f : IsRun(Removing, s, Q, n, f)
    BY RunExists
  <2> QED
    BY <1>2, <2>1
<1>5. Def(h)
  BY <1>3, <1>4
<1>6. IsRun(Removing, s, Q, n, h)
  BY <1>2, <1>5
<1>7. FoldLeft(RemoveDebugger, s, s.list) = h[1 .. n]
  BY <1>3 DEF FoldLeft, MapThenFoldSet
<1> QED
  BY <1>6, <1>7, PassingIs

-----------------------------------------------------------------------------
Shown == [dbg : Debuggers \cup {None}, state : Nat]
GuiStates ==
  [list : Seq(Debuggers), current : Debuggers \cup {None}, state : [Debuggers -> Nat],
   onList : Seq({"manager", "combo"}), onCurrent : Seq(Watchers),
   onState : [Debuggers -> Seq(Watchers)], last : [Watchers -> Debuggers \cup {None}],
   shows : [Watchers -> Shown], inhibit : SUBSET Explorers, own : SUBSET Watchers, combo : Nat, raised : BOOLEAN]

OpenIn(s) == {w \in Watchers : Contains(s.onCurrent, w)}

\* The current debugger can be found in the list, and none was ever looked up in vain.
Listed(s) == (s.current # None => Contains(s.list, s.current)) /\ ~s.raised
\* The manager hears of a change of the list before the toolbar, which does hear of it.
InOrder(s) ==
  /\ Len(s.onList) >= 1 /\ s.onList[1] = "manager"
  /\ \A i \in 2 .. Len(s.onList) : s.onList[i] = "combo"
  /\ Toolbar \in OpenIn(s) => Len(s.onList) >= 2
\* Each watcher is subscribed where it remembers to be, and nowhere else, at most once.
Subscribed(s) ==
  /\ Distinct(s.onCurrent)
  /\ \A d \in Debuggers : Distinct(s.onState[d])
  /\ \A w \in Watchers, d \in Debuggers : Contains(s.onState[d], w) <=> s.last[w] = d
\* What is closed remembers nothing.
ClosedForget(s) == \A w \in Watchers : s.last[w] # None => w \in OpenIn(s)
\* The watchers of P follow the current debugger, and those of P show it, but
\* for a Call Explorer after its own clicks or one that inhibits its callback.
Following(s, P) == \A w \in P : s.last[w] = s.current
ShowsIt(s, w) ==
  IF w \in s.own THEN s.shows[w].dbg = s.current ELSE s.shows[w] = Reading(s)
Showing(s, P) == \A w \in P : w \in s.inhibit \/ ShowsIt(s, w)
\* What w shows is the same.
SameShown(s, t, w) == t.shows[w] = s.shows[w] /\ (w \in t.own <=> w \in s.own)
Selected(s) == s.combo = Row(s.list, s.current)

\* What the subscriptions and callbacks of a watcher leave alone.
SameList(s, t) ==
  /\ t.list = s.list /\ t.current = s.current /\ t.state = s.state
  /\ t.onList = s.onList /\ t.onCurrent = s.onCurrent /\ t.inhibit = s.inhibit

LEMMA RowType ==
  ASSUME NEW q \in Seq(Debuggers), NEW d
  PROVE  Row(q, d) \in Nat
<1>1. PICK I : I = {i \in 1 .. Len(q) : q[i] = d}
  OBVIOUS
<1>2. I \subseteq Nat
  BY <1>1
<1>3. I # {} => Min(I) \in Nat
  BY <1>2, LeastPos
<1>4. Row(q, d) = IF I # {} THEN Min(I) ELSE 0
  BY <1>1 DEF Row, SelectInSeq
<1> QED
  BY <1>3, <1>4

LEMMA ComboSelected ==
  ASSUME NEW s \in GuiStates, Listed(s), NEW t, t = SelectInCombo(s)
  PROVE  t \in GuiStates /\ Listed(t) /\ SameList(s, t) /\ Selected(t)
         /\ t.last = s.last /\ t.onState = s.onState /\ t.shows = s.shows /\ t.own = s.own
<1>1. PICK r \in Nat : r = Row(s.list, s.current)
  BY RowType DEF GuiStates
<1>2. t = [s EXCEPT !.combo = r]
  BY <1>1 DEF SelectInCombo, Listed
<1> QED
  BY <1>1, <1>2 DEF GuiStates, Listed, SameList, Selected

LEMMA ReadingType ==
  ASSUME NEW s \in GuiStates
  PROVE  Reading(s) \in Shown
  BY DEF Reading, Shown, GuiStates, Nothing

LEMMA ReadingSame ==
  ASSUME NEW s, NEW t, t.current = s.current, t.state = s.state
  PROVE  Reading(t) = Reading(s)
  BY DEF Reading

LEMMA ShowsTheSame ==
  ASSUME NEW s, NEW t, NEW P, SameShown(s, t, P), P \in s.inhibit \/ ShowsIt(s, P),
         t.current = s.current, t.state = s.state, t.inhibit = s.inhibit
  PROVE  P \in t.inhibit \/ ShowsIt(t, P)
<1>1. Reading(t) = Reading(s)
  BY ReadingSame
<1> QED
  BY <1>1 DEF SameShown, ShowsIt

LEMMA Called ==
  ASSUME NEW s \in GuiStates, Listed(s), NEW w \in Watchers, NEW t, t = Callback(s, w)
  PROVE  /\ t \in GuiStates /\ Listed(t) /\ SameList(s, t)
         /\ t.last = s.last /\ t.onState = s.onState
         /\ w \in t.inhibit \/ ShowsIt(t, w)
         /\ \A v \in Watchers : v # w \/ v \in s.inhibit => SameShown(s, t, v)
         /\ w = Toolbar => Selected(t)
         /\ Selected(s) => Selected(t)
<1>0. w = Toolbar => w \notin s.inhibit
  BY DebuggersAssumption DEF GuiStates
<1> SUFFICES ASSUME w \notin s.inhibit
             PROVE  /\ t \in GuiStates /\ Listed(t) /\ SameList(s, t)
                    /\ t.last = s.last /\ t.onState = s.onState
                    /\ w \in t.inhibit \/ ShowsIt(t, w)
                    /\ \A v \in Watchers : v # w \/ v \in s.inhibit => SameShown(s, t, v)
                    /\ w = Toolbar => Selected(t)
                    /\ Selected(s) => Selected(t)
  BY <1>0 DEF Callback, SameList, SameShown
<1>1. PICK u : u = IF w = Toolbar THEN SelectInCombo(s) ELSE s
  OBVIOUS
<1>2. /\ u \in GuiStates /\ Listed(u) /\ SameList(s, u)
      /\ u.last = s.last /\ u.onState = s.onState /\ u.shows = s.shows /\ u.own = s.own
      /\ w = Toolbar => Selected(u)
      /\ Selected(s) => Selected(u)
  BY <1>1, ComboSelected DEF SameList
<1>3. PICK r : r = Reading(u)
  OBVIOUS
<1>4. r \in Shown /\ r = Reading(s)
  BY <1>2, <1>3, ReadingType, ReadingSame DEF SameList
<1>5. t = [u EXCEPT !.shows[w] = r, !.own = @ \ {w}]
  BY <1>1, <1>3 DEF Callback
<1>6. t \in GuiStates /\ t.shows = [u.shows EXCEPT ![w] = r] /\ t.own = u.own \ {w}
      /\ t.last = u.last /\ t.onState = u.onState /\ SameList(u, t)
      /\ t.combo = u.combo /\ t.raised = u.raised
  <2>1. PICK f : f = [u.shows EXCEPT ![w] = r]
    OBVIOUS
  <2>2. f \in [Watchers -> Shown]
    BY <1>2, <1>4, <2>1 DEF GuiStates
  <2>3. t = [u EXCEPT !.shows = f, !.own = u.own \ {w}]
    BY <1>5, <2>1
  <2>4. t \in GuiStates
    BY <1>2, <2>2, <2>3 DEF GuiStates
  <2> QED
    BY <1>2, <2>1, <2>3, <2>4 DEF GuiStates, SameList
<1>7. Reading(t) = Reading(s)
  BY <1>2, <1>6, ReadingSame DEF SameList
<1>8. t.shows[w] = Reading(t) /\ w \notin t.own
  BY <1>2, <1>4, <1>6, <1>7 DEF GuiStates
<1>9. \A v \in Watchers : v # w \/ v \in s.inhibit => SameShown(s, t, v)
  BY <1>2, <1>6 DEF SameShown, GuiStates
<1> QED
  BY <1>2, <1>6, <1>8, <1>9 DEF SameList, Listed, Selected, ShowsIt

\* What a change of subscriptions does: watchers remember l.
Resubscribed(s, t, l) ==
  /\ t \in GuiStates /\ Subscribed(t) /\ SameList(s, t) /\ t.last = l
  /\ t.shows = s.shows /\ t.own = s.own /\ t.combo = s.combo /\ t.raised = s.raised

LEMMA Unsubscribed ==
  ASSUME NEW s \in GuiStates, Subscribed(s), NEW w \in Watchers, NEW t, t = Unsubscribe(s, w)
  PROVE  Resubscribed(s, t, [s.last EXCEPT ![w] = None])
<1>1. CASE s.last[w] = None
  BY <1>1 DEF Unsubscribe, GuiStates, SameList, Resubscribed
<1>2. CASE s.last[w] # None
  <2>1. PICK d \in Debuggers : d = s.last[w]
    BY <1>2 DEF GuiStates
  <2>2. PICK q \in Seq(Watchers) : q = s.onState[d]
    BY DEF GuiStates
  <2>3. PICK r : r = RemoveFirst(q, w)
    OBVIOUS
  <2>4. r \in Seq(Watchers) /\ Distinct(r) /\ \A x : Contains(r, x) <=> Contains(q, x) /\ x # w
    BY <2>2, <2>3, FirstRemoved DEF Subscribed
  <2>5. t = [s EXCEPT !.onState[d] = r, !.last[w] = None]
    BY <1>2, <2>1, <2>2, <2>3 DEF Unsubscribe
  <2>6. t \in GuiStates /\ t.last = [s.last EXCEPT ![w] = None]
        /\ t.onState = [s.onState EXCEPT ![d] = r] /\ SameList(s, t)
        /\ t.shows = s.shows /\ t.own = s.own /\ t.combo = s.combo /\ t.raised = s.raised
    <3>1. PICK f : f = [s.onState EXCEPT ![d] = r]
      OBVIOUS
    <3>2. PICK l : l = [s.last EXCEPT ![w] = None]
      OBVIOUS
    <3>3. f \in [Debuggers -> Seq(Watchers)] /\ l \in [Watchers -> Debuggers \cup {None}]
      BY <2>4, <3>1, <3>2 DEF GuiStates
    <3>4. t = [s EXCEPT !.onState = f, !.last = l]
      BY <2>5, <3>1, <3>2
    <3>5. t \in GuiStates
      BY <3>3, <3>4 DEF GuiStates
    <3> QED
      BY <3>1, <3>2, <3>4, <3>5 DEF GuiStates, SameList
  <2>7. Subscribed(t)
    <3>1. \A e \in Debuggers : Distinct(t.onState[e])
      BY <2>4, <2>6 DEF Subscribed, GuiStates
    <3>2. ASSUME NEW v \in Watchers, NEW e \in Debuggers
          PROVE  Contains(t.onState[e], v) <=> t.last[v] = e
      <4>1. t.onState[e] = IF e = d THEN r ELSE s.onState[e]
        BY <2>6 DEF GuiStates
      <4>2. t.last[v] = IF v = w THEN None ELSE s.last[v]
        BY <2>6 DEF GuiStates
      <4>3. Contains(s.onState[e], v) <=> s.last[v] = e
        BY DEF Subscribed
      <4>4. e # None
        BY DebuggersAssumption
      <4> QED
        BY <2>1, <2>2, <2>4, <4>1, <4>2, <4>3, <4>4
    <3> QED
      BY <2>6, <3>1, <3>2 DEF Subscribed, SameList
  <2> QED
    BY <2>6, <2>7 DEF Resubscribed
<1> QED
  BY <1>1, <1>2

LEMMA SubscribedTo ==
  ASSUME NEW s \in GuiStates, Subscribed(s), NEW w \in Watchers, s.last[w] = None,
         NEW t, t = Subscribe(s, w)
  PROVE  Resubscribed(s, t, [s.last EXCEPT ![w] = s.current])
<1>1. CASE s.current = None
  BY <1>1 DEF Subscribe, GuiStates, SameList, Resubscribed
<1>2. CASE s.current # None
  <2>1. PICK d \in Debuggers : d = s.current
    BY <1>2 DEF GuiStates
  <2>2. PICK q \in Seq(Watchers) : q = s.onState[d]
    BY DEF GuiStates
  <2>3. PICK r : r = Append(q, w)
    OBVIOUS
  <2>4. r \in Seq(Watchers) /\ Distinct(r) /\ \A x : Contains(r, x) <=> Contains(q, x) \/ x = w
    <3>1. Distinct(q) /\ ~Contains(q, w)
      BY <2>2, DebuggersAssumption DEF Subscribed
    <3> QED
      BY <2>3, <3>1, Appended
  <2>5. t = [s EXCEPT !.onState[d] = r, !.last[w] = d]
    BY <1>2, <2>1, <2>2, <2>3 DEF Subscribe
  <2>6. t \in GuiStates /\ t.last = [s.last EXCEPT ![w] = d]
        /\ t.onState = [s.onState EXCEPT ![d] = r] /\ SameList(s, t)
        /\ t.shows = s.shows /\ t.own = s.own /\ t.combo = s.combo /\ t.raised = s.raised
    <3>1. PICK f : f = [s.onState EXCEPT ![d] = r]
      OBVIOUS
    <3>2. PICK l : l = [s.last EXCEPT ![w] = d]
      OBVIOUS
    <3>3. f \in [Debuggers -> Seq(Watchers)] /\ l \in [Watchers -> Debuggers \cup {None}]
      BY <2>4, <3>1, <3>2 DEF GuiStates
    <3>4. t = [s EXCEPT !.onState = f, !.last = l]
      BY <2>5, <3>1, <3>2
    <3>5. t \in GuiStates
      BY <3>3, <3>4 DEF GuiStates
    <3> QED
      BY <3>1, <3>2, <3>4, <3>5 DEF GuiStates, SameList
  <2>7. Subscribed(t)
    <3>1. \A e \in Debuggers : Distinct(t.onState[e])
      BY <2>4, <2>6 DEF Subscribed, GuiStates
    <3>2. ASSUME NEW v \in Watchers, NEW e \in Debuggers
          PROVE  Contains(t.onState[e], v) <=> t.last[v] = e
      <4>1. t.onState[e] = IF e = d THEN r ELSE s.onState[e]
        BY <2>6 DEF GuiStates
      <4>2. t.last[v] = IF v = w THEN d ELSE s.last[v]
        BY <2>6 DEF GuiStates
      <4>3. Contains(s.onState[e], v) <=> s.last[v] = e
        BY DEF Subscribed
      <4>4. e # None
        BY DebuggersAssumption
      <4> QED
        BY <2>1, <2>2, <2>4, <4>1, <4>2, <4>3, <4>4
    <3> QED
      BY <2>6, <3>1, <3>2 DEF Subscribed, SameList
  <2> QED
    BY <2>1, <2>6, <2>7 DEF Resubscribed
<1> QED
  BY <1>1, <1>2

-----------------------------------------------------------------------------
LEMMA Updated ==
  ASSUME NEW s \in GuiStates, Subscribed(s), Listed(s), NEW w \in Watchers,
         NEW t, t = DebuggerUpdated(s, w)
  PROVE  /\ t \in GuiStates /\ Subscribed(t) /\ Listed(t) /\ SameList(s, t)
         /\ t.last = [s.last EXCEPT ![w] = s.current]
         /\ w \in t.inhibit \/ ShowsIt(t, w)
         /\ \A x \in Watchers \ {w} : SameShown(s, t, x)
         /\ w = Toolbar => Selected(t)
         /\ Selected(s) => Selected(t)
<1>1. PICK u : u = Unsubscribe(s, w)
  OBVIOUS
<1>2. Resubscribed(s, u, [s.last EXCEPT ![w] = None])
  BY <1>1, Unsubscribed
<1>3. PICK v : v = Subscribe(u, w)
  OBVIOUS
<1>4. u.last[w] = None
  BY <1>2 DEF Resubscribed, GuiStates
<1>5. Resubscribed(u, v, [u.last EXCEPT ![w] = u.current])
  <2>1. u \in GuiStates /\ Subscribed(u)
    BY <1>2 DEF Resubscribed
  <2> QED
    BY <1>3, <1>4, <2>1, SubscribedTo
<1>6. /\ SameList(s, v) /\ Listed(v) /\ v.shows = s.shows /\ v.own = s.own /\ v.combo = s.combo
      /\ v.last = [s.last EXCEPT ![w] = s.current]
  <2>1. [[s.last EXCEPT ![w] = None] EXCEPT ![w] = s.current] = [s.last EXCEPT ![w] = s.current]
    BY DEF GuiStates
  <2> QED
    BY <1>2, <1>5, <2>1 DEF Resubscribed, SameList, Listed
<1>7. Selected(s) => Selected(v)
  BY <1>6 DEF SameList, Selected
<1>8. t = Callback(v, w)
  BY <1>1, <1>3 DEF DebuggerUpdated
<1>9. /\ t \in GuiStates /\ Listed(t) /\ SameList(v, t)
      /\ t.last = v.last /\ t.onState = v.onState
      /\ w \in t.inhibit \/ ShowsIt(t, w)
      /\ \A x \in Watchers \ {w} : SameShown(v, t, x)
      /\ w = Toolbar => Selected(t)
      /\ Selected(v) => Selected(t)
  <2>1. v \in GuiStates
    BY <1>5 DEF Resubscribed
  <2> QED
    BY <1>6, <1>8, <2>1, Called
<1>10. Subscribed(t)
  BY <1>5, <1>9 DEF Resubscribed, Subscribed, SameList
<1>11. SameList(s, t) /\ \A x \in Watchers \ {w} : SameShown(s, t, x)
  BY <1>6, <1>9 DEF SameList, SameShown
<1> QED
  BY <1>6, <1>7, <1>9, <1>10, <1>11

\* Between two listeners of the current debugger: those of P have been told.
Halfway(u, t, P) ==
  /\ t \in GuiStates /\ Subscribed(t) /\ Listed(t) /\ SameList(u, t)
  /\ Following(t, P) /\ Showing(t, P) /\ (Toolbar \in P => Selected(t))
  /\ \A w \in Watchers \ P : t.last[w] = u.last[w]

LEMMA HalfwayOn ==
  ASSUME NEW u, NEW s, NEW P, P \subseteq Watchers, Halfway(u, s, P), NEW w \in Watchers,
         NEW t, t = DebuggerUpdated(s, w)
  PROVE  Halfway(u, t, P \cup {w})
<1>1. s \in GuiStates /\ Subscribed(s) /\ Listed(s) /\ SameList(u, s)
  BY DEF Halfway
<1>2. /\ t \in GuiStates /\ Subscribed(t) /\ Listed(t) /\ SameList(s, t)
      /\ t.last = [s.last EXCEPT ![w] = s.current]
      /\ w \in t.inhibit \/ ShowsIt(t, w)
      /\ \A x \in Watchers \ {w} : SameShown(s, t, x)
      /\ w = Toolbar => Selected(t)
      /\ Selected(s) => Selected(t)
  BY <1>1, Updated
<1>4. ASSUME NEW v \in P \cup {w}
      PROVE  t.last[v] = t.current /\ (v \in t.inhibit \/ ShowsIt(t, v))
  <2>1. v \in Watchers /\ t.current = s.current
    BY <1>2 DEF SameList
  <2>2. v \in P => s.last[v] = s.current /\ (v \in s.inhibit \/ ShowsIt(s, v))
    BY DEF Halfway, Following, Showing
  <2>3. t.last[v] = IF v = w THEN s.current ELSE s.last[v]
    BY <1>1, <1>2, <2>1 DEF GuiStates
  <2>4. v # w => v \in t.inhibit \/ ShowsIt(t, v)
    BY <1>2, <1>4, <2>1, <2>2, ShowsTheSame DEF SameList
  <2> QED
    BY <1>2, <1>4, <2>1, <2>2, <2>3, <2>4
<1>5. SameList(u, t)
  BY <1>1, <1>2 DEF SameList
<1>6. Toolbar \in P \cup {w} => Selected(t)
  BY <1>2 DEF Halfway
<1>7. \A v \in Watchers \ (P \cup {w}) : t.last[v] = u.last[v]
  BY <1>1, <1>2 DEF Halfway, GuiStates
<1> QED
  BY <1>2, <1>4, <1>5, <1>6, <1>7 DEF Halfway, Following, Showing

\* What is right about the debuggers between two events.
Right(s) ==
  /\ s \in GuiStates /\ Subscribed(s) /\ ClosedForget(s) /\ InOrder(s)
  /\ Listed(s) /\ Distinct(s.list)
  /\ Following(s, OpenIn(s)) /\ Showing(s, OpenIn(s)) /\ (Toolbar \in OpenIn(s) => Selected(s))

ToldFirst(u, q, i, t) == Halfway(u, t, {q[j] : j \in 1 .. i})

LEMMA DebuggerSet ==
  ASSUME NEW s \in GuiStates, Subscribed(s), ClosedForget(s), InOrder(s), Distinct(s.list),
         ~s.raised, NEW d \in Debuggers \cup {None}, d # None => Contains(s.list, d),
         NEW t, t = SetDebugger(s, d)
  PROVE  /\ Right(t) /\ t.current = d
         /\ t.list = s.list /\ t.state = s.state /\ t.onList = s.onList /\ t.onCurrent = s.onCurrent /\ t.inhibit = s.inhibit
<1>1. PICK u : u = [s EXCEPT !.current = d]
  OBVIOUS
<1>2. /\ u \in GuiStates /\ u.current = d /\ u.list = s.list /\ u.state = s.state
      /\ u.onList = s.onList /\ u.onCurrent = s.onCurrent /\ u.inhibit = s.inhibit /\ u.onState = s.onState
      /\ u.last = s.last /\ u.raised = s.raised
  BY <1>1 DEF GuiStates
<1>3. Subscribed(u) /\ Listed(u)
  BY <1>2 DEF Subscribed, Listed
<1>4. PICK q \in Seq(Watchers) : q = u.onCurrent
  BY <1>2 DEF GuiStates
<1>5. PICK n \in Nat : n = Len(q) /\ DOMAIN q = 1 .. n
  BY LenProperties
<1>6. PICK g : IsPassing(Updating, u, q, n, g) /\ g[n] = t
  <2>1. DOMAIN u.onCurrent = 1 .. n
    BY <1>4, <1>5
  <2>2. \E g : IsPassing(Updating, u, u.onCurrent, n, g) /\ g[n] = SetDebugger(s, d)
    BY <1>1, <2>1, SetPasses
  <2> QED
    BY <1>4, <2>2
<1>7. PICK Good : Good = {i \in 0 .. n : ToldFirst(u, q, i, g[i])}
  OBVIOUS
<1>8. 0 \in Good
  <2>1. {q[j] : j \in 1 .. 0} = {} /\ g[0] = u
    BY <1>6 DEF IsPassing
  <2>2. Halfway(u, u, {})
    BY <1>2, <1>3 DEF Halfway, Following, Showing, SameList
  <2> QED
    <3>1. ToldFirst(u, q, 0, g[0])
      BY <2>1, <2>2 DEF ToldFirst
    <3> QED
      BY <1>7, <3>1
<1>9. ASSUME NEW i \in 1 .. n, i - 1 \in Good PROVE i \in Good
  <2>1. PICK P : P = {q[j] : j \in 1 .. i - 1}
    OBVIOUS
  <2>2. P \subseteq Watchers /\ q[i] \in Watchers /\ P \cup {q[i]} = {q[j] : j \in 1 .. i}
    BY <1>4, <1>5, <2>1, ElementOfSeq
  <2>3. Halfway(u, g[i - 1], P)
    BY <1>7, <1>9, <2>1 DEF ToldFirst
  <2>4. g[i] = DebuggerUpdated(g[i - 1], q[i])
    BY <1>6 DEF IsPassing, Told, Updating
  <2>5. Halfway(u, g[i], P \cup {q[i]})
    BY <2>2, <2>3, <2>4, HalfwayOn
  <2> QED
    <3>1. ToldFirst(u, q, i, g[i])
      BY <2>2, <2>5 DEF ToldFirst
    <3> QED
      BY <1>7, <3>1
<1>10. n \in Good
  BY <1>8, <1>9, PassingInduction
<1>11. Halfway(u, t, {q[j] : j \in 1 .. n})
  BY <1>6, <1>7, <1>10 DEF ToldFirst
<1>12. t.onCurrent = q
  BY <1>4, <1>11 DEF Halfway, SameList
<1>13. OpenIn(t) = {q[j] : j \in 1 .. n} /\ OpenIn(s) = OpenIn(t)
  BY <1>2, <1>4, <1>5, <1>12, ElementOfSeq DEF OpenIn, Contains
<1>14. ClosedForget(t)
  BY <1>2, <1>11, <1>13 DEF Halfway, ClosedForget
<1>15. InOrder(t) /\ Distinct(t.list)
  BY <1>2, <1>11, <1>13 DEF Halfway, InOrder, SameList
<1> QED
  BY <1>2, <1>11, <1>13, <1>14, <1>15 DEF Halfway, SameList, Right

\* Right, but for the row of the toolbar, with the debuggers and listeners of s.
RightButRow(s, t, c) ==
  /\ t \in GuiStates /\ Subscribed(t) /\ ClosedForget(t) /\ InOrder(t)
  /\ Listed(t) /\ Distinct(t.list)
  /\ Following(t, OpenIn(t)) /\ Showing(t, OpenIn(t))
  /\ t.list = s.list /\ t.state = s.state /\ t.onList = s.onList /\ t.onCurrent = s.onCurrent /\ t.inhibit = s.inhibit
  /\ t.current = c

LEMMA RowIsRight ==
  ASSUME NEW s, NEW c, NEW t, RightButRow(s, t, c), NEW v, v = SelectInCombo(t)
  PROVE  RightButRow(s, v, c) /\ Selected(v)
<1>1. t \in GuiStates /\ Listed(t)
  BY DEF RightButRow
<1>2. v \in GuiStates /\ Listed(v) /\ SameList(t, v) /\ Selected(v)
      /\ v.last = t.last /\ v.onState = t.onState /\ v.shows = t.shows /\ v.own = t.own
  BY <1>1, ComboSelected
<1>3. Reading(v) = Reading(t) /\ OpenIn(v) = OpenIn(t)
  BY <1>2, ReadingSame DEF SameList, OpenIn
<1>4. Following(v, OpenIn(v)) /\ Showing(v, OpenIn(v)) /\ ClosedForget(v)
  BY <1>2, <1>3 DEF RightButRow, Following, Showing, ShowsIt, ClosedForget, SameList
<1>5. Subscribed(v) /\ InOrder(v)
  BY <1>2, <1>3 DEF RightButRow, Subscribed, InOrder, SameList
<1> QED
  BY <1>2, <1>4, <1>5 DEF RightButRow, SameList

\* The list has just changed: r is not listed any more.
Changed(s, r) ==
  /\ s \in GuiStates /\ Subscribed(s) /\ ClosedForget(s) /\ InOrder(s) /\ Distinct(s.list)
  /\ ~s.raised /\ Following(s, OpenIn(s)) /\ Showing(s, OpenIn(s))
  /\ s.current # None => s.current = r \/ Contains(s.list, s.current)
Without(c, r) == IF c = r THEN None ELSE c
ListTold(s, r, i, t) == RightButRow(s, t, Without(s.current, r)) /\ (i >= 2 => Selected(t))

LEMMA ListHeard ==
  ASSUME NEW s, NEW r \in Debuggers \cup {None}, Changed(s, r), NEW t, t = ListEvent(s, r)
  PROVE  /\ Right(t) /\ t.current = Without(s.current, r)
         /\ t.list = s.list /\ t.state = s.state /\ t.onList = s.onList /\ t.onCurrent = s.onCurrent /\ t.inhibit = s.inhibit
<1>1. PICK n \in Nat : n = Len(s.onList) /\ DOMAIN s.onList = 1 .. n
  BY LenProperties DEF Changed, GuiStates
<1>2. /\ n >= 1 /\ s.onList[1] = "manager" /\ \A i \in 2 .. n : s.onList[i] = "combo"
      /\ Toolbar \in OpenIn(s) => n >= 2
  BY <1>1 DEF Changed, InOrder
<1>3. PICK g : IsPassing(Listing(r), s, s.onList, n, g) /\ g[n] = t
  BY <1>1, ListPasses
<1>4. ListTold(s, r, 1, g[1])
  <2>1. g[1] = ListListener(s, "manager", r)
    <3>1. 1 \in 1 .. n /\ 1 - 1 = 0
      BY <1>2
    <3>2. g[1] = Told(Listing(r), g[0], s.onList[1]) /\ g[0] = s
      BY <1>3, <3>1 DEF IsPassing
    <3> QED
      BY <1>2, <3>2 DEF Told, Listing
  <2>2. CASE r # None /\ s.current = r
    <3>1. g[1] = SetDebugger(s, None)
      BY <2>1, <2>2 DEF ListListener
    <3>2. PICK v : v = g[1]
      OBVIOUS
    <3>3. /\ Right(v) /\ v.current = None
          /\ v.list = s.list /\ v.state = s.state /\ v.onList = s.onList /\ v.onCurrent = s.onCurrent /\ v.inhibit = s.inhibit
      BY <3>1, <3>2, DebuggerSet DEF Changed
    <3> QED
      BY <2>2, <3>2, <3>3 DEF ListTold, RightButRow, Right, Without
  <2>3. CASE ~(r # None /\ s.current = r)
    <3>1. g[1] = s
      BY <2>1, <2>3 DEF ListListener
    <3>2. Listed(s) /\ Without(s.current, r) = s.current
      BY <2>3 DEF Changed, Listed, Without
    <3>3. RightButRow(s, s, s.current)
      BY <3>2 DEF Changed, RightButRow
    <3> QED
      BY <3>1, <3>2, <3>3 DEF ListTold
  <2> QED
    BY <2>2, <2>3
<1>5. ASSUME NEW i \in 2 .. n, ListTold(s, r, i - 1, g[i - 1]) PROVE ListTold(s, r, i, g[i])
  <2>1. g[i] = SelectInCombo(g[i - 1])
    <3>1. i \in 1 .. n /\ s.onList[i] = "combo"
      BY <1>2
    <3>2. g[i] = Told(Listing(r), g[i - 1], s.onList[i])
      BY <1>3, <3>1 DEF IsPassing
    <3> QED
      BY <3>1, <3>2 DEF Told, Listing, ListListener
  <2>2. RightButRow(s, g[i - 1], Without(s.current, r))
    BY <1>5 DEF ListTold
  <2>3. RightButRow(s, g[i], Without(s.current, r)) /\ Selected(g[i])
    BY <2>1, <2>2, RowIsRight
  <2> QED
    BY <2>3 DEF ListTold
<1>6. PICK Good : Good = {0} \cup {i \in 1 .. n : ListTold(s, r, i, g[i])}
  OBVIOUS
<1>7. ASSUME NEW i \in 1 .. n, i - 1 \in Good PROVE i \in Good
  <2>1. CASE i = 1
    BY <1>4, <1>6, <2>1
  <2>2. CASE i # 1
    <3>1. i \in 2 .. n /\ i - 1 # 0
      BY <2>2
    <3>2. ListTold(s, r, i - 1, g[i - 1])
      BY <1>6, <1>7, <3>1
    <3>3. ListTold(s, r, i, g[i])
      BY <1>5, <3>1, <3>2
    <3> QED
      BY <1>6, <3>3
  <2> QED
    BY <2>1, <2>2
<1>8. n \in Good
  <2>1. 0 \in Good
    BY <1>6
  <2> QED
    BY <1>7, <2>1, PassingInduction
<1>9. ListTold(s, r, n, t)
  <2>1. ListTold(s, r, n, g[n])
    BY <1>2, <1>6, <1>8
  <2> QED
    BY <1>3, <2>1
<1>10. OpenIn(t) = OpenIn(s)
  BY <1>9 DEF ListTold, RightButRow, OpenIn
<1> QED
  BY <1>2, <1>9, <1>10 DEF ListTold, RightButRow, Right

-----------------------------------------------------------------------------
LEMMA DebuggerAdded ==
  ASSUME NEW s, Right(s), NEW d \in Debuggers, ~Contains(s.list, d), NEW t, t = AddDebugger(s, d)
  PROVE  /\ Right(t) /\ t.current = s.current
         /\ t.state = s.state /\ t.onList = s.onList /\ t.onCurrent = s.onCurrent /\ t.inhibit = s.inhibit
         /\ \A x : Contains(t.list, x) <=> Contains(s.list, x) \/ x = d
<1>0. s \in GuiStates
  BY DEF Right
<1>1. PICK q \in Seq(Debuggers) : q = s.list
  BY <1>0 DEF GuiStates
<1>2. PICK r : r = Append(q, d)
  OBVIOUS
<1>3. r \in Seq(Debuggers) /\ Distinct(r) /\ \A x : Contains(r, x) <=> Contains(q, x) \/ x = d
  <2>1. Distinct(q) /\ ~Contains(q, d)
    BY <1>1 DEF Right
  <2> QED
    BY <1>2, <2>1, Appended
<1>4. PICK u : u = [s EXCEPT !.list = r]
  OBVIOUS
<1>5. /\ u \in GuiStates /\ u.list = r /\ u.current = s.current /\ u.state = s.state
      /\ u.onList = s.onList /\ u.onCurrent = s.onCurrent /\ u.inhibit = s.inhibit /\ u.onState = s.onState
      /\ u.last = s.last /\ u.shows = s.shows /\ u.own = s.own /\ u.raised = s.raised
  BY <1>0, <1>3, <1>4 DEF GuiStates
<1>6. Reading(u) = Reading(s) /\ OpenIn(u) = OpenIn(s)
  BY <1>5, ReadingSame DEF OpenIn
<1>7. Changed(u, None)
  <2>1. Subscribed(u) /\ ClosedForget(u) /\ InOrder(u) /\ ~u.raised
    BY <1>5, <1>6 DEF Right, Subscribed, ClosedForget, InOrder, Listed
  <2>2. Following(u, OpenIn(u)) /\ Showing(u, OpenIn(u))
    BY <1>5, <1>6 DEF Right, Following, Showing, ShowsIt
  <2>3. u.current # None => Contains(u.list, u.current)
    BY <1>1, <1>3, <1>5 DEF Right, Listed
  <2> QED
    BY <1>3, <1>5, <2>1, <2>2, <2>3 DEF Changed
<1>8. t = ListEvent(u, None)
  BY <1>1, <1>2, <1>4 DEF AddDebugger
<1>9. /\ Right(t) /\ t.current = Without(u.current, None)
      /\ t.list = u.list /\ t.state = u.state /\ t.onList = u.onList /\ t.onCurrent = u.onCurrent /\ t.inhibit = u.inhibit
  BY <1>7, <1>8, ListHeard
<1> QED
  BY <1>1, <1>3, <1>5, <1>9 DEF Without

LEMMA DebuggerRemoved ==
  ASSUME NEW s, Right(s), NEW d \in Debuggers, NEW t, t = RemoveDebugger(s, d)
  PROVE  /\ Right(t) /\ t.current = Without(s.current, d)
         /\ t.state = s.state /\ t.onList = s.onList /\ t.onCurrent = s.onCurrent /\ t.inhibit = s.inhibit
         /\ \A x : Contains(t.list, x) <=> Contains(s.list, x) /\ x # d
<1>0. s \in GuiStates
  BY DEF Right
<1>1. PICK q \in Seq(Debuggers) : q = s.list
  BY <1>0 DEF GuiStates
<1>2. PICK r : r = RemoveFirst(q, d)
  OBVIOUS
<1>3. r \in Seq(Debuggers) /\ Distinct(r) /\ \A x : Contains(r, x) <=> Contains(q, x) /\ x # d
  BY <1>1, <1>2, FirstRemoved DEF Right
<1>4. PICK u : u = [s EXCEPT !.list = r]
  OBVIOUS
<1>5. /\ u \in GuiStates /\ u.list = r /\ u.current = s.current /\ u.state = s.state
      /\ u.onList = s.onList /\ u.onCurrent = s.onCurrent /\ u.inhibit = s.inhibit /\ u.onState = s.onState
      /\ u.last = s.last /\ u.shows = s.shows /\ u.own = s.own /\ u.raised = s.raised
  BY <1>0, <1>3, <1>4 DEF GuiStates
<1>6. Reading(u) = Reading(s) /\ OpenIn(u) = OpenIn(s)
  BY <1>5, ReadingSame DEF OpenIn
<1>7. Changed(u, d)
  <2>1. Subscribed(u) /\ ClosedForget(u) /\ InOrder(u) /\ ~u.raised
    BY <1>5, <1>6 DEF Right, Subscribed, ClosedForget, InOrder, Listed
  <2>2. Following(u, OpenIn(u)) /\ Showing(u, OpenIn(u))
    BY <1>5, <1>6 DEF Right, Following, Showing, ShowsIt
  <2>3. u.current # None => u.current = d \/ Contains(u.list, u.current)
    BY <1>1, <1>3, <1>5 DEF Right, Listed
  <2> QED
    BY <1>3, <1>5, <2>1, <2>2, <2>3 DEF Changed
<1>8. t = ListEvent(u, d)
  BY <1>1, <1>2, <1>4 DEF RemoveDebugger
<1>9. /\ Right(t) /\ t.current = Without(u.current, d)
      /\ t.list = u.list /\ t.state = u.state /\ t.onList = u.onList /\ t.onCurrent = u.onCurrent /\ t.inhibit = u.inhibit
  BY <1>7, <1>8, ListHeard
<1> QED
  BY <1>1, <1>3, <1>5, <1>9

LEMMA CurrentSet ==
  ASSUME NEW s, Right(s), NEW d \in Debuggers \cup {None}, d # None => Contains(s.list, d),
         NEW t, t = SetDebugger(s, d)
  PROVE  /\ Right(t) /\ t.current = d
         /\ t.list = s.list /\ t.state = s.state /\ t.onList = s.onList /\ t.onCurrent = s.onCurrent /\ t.inhibit = s.inhibit
  BY DebuggerSet DEF Right, Listed

\* Between two listeners of a debugger: those of P have shown its new state.
ShownTo(u, t, P) ==
  /\ t \in GuiStates /\ Listed(t) /\ SameList(u, t)
  /\ t.last = u.last /\ t.onState = u.onState
  /\ Showing(t, P) /\ (Selected(u) => Selected(t))
  /\ \A v \in u.inhibit : SameShown(u, t, v)
ShownFirst(u, q, i, t) == ShownTo(u, t, {q[j] : j \in 1 .. i})

LEMMA ShownOn ==
  ASSUME NEW u, NEW s, NEW P, P \subseteq Watchers, ShownTo(u, s, P), NEW w \in Watchers,
         NEW t, t = Callback(s, w)
  PROVE  ShownTo(u, t, P \cup {w})
<1>1. s \in GuiStates /\ Listed(s) /\ SameList(u, s)
  BY DEF ShownTo
<1>2. /\ t \in GuiStates /\ Listed(t) /\ SameList(s, t)
      /\ t.last = s.last /\ t.onState = s.onState
      /\ w \in t.inhibit \/ ShowsIt(t, w)
      /\ \A v \in Watchers : v # w \/ v \in s.inhibit => SameShown(s, t, v)
      /\ Selected(s) => Selected(t)
  BY <1>1, Called
<1>4. ASSUME NEW v \in P \cup {w} PROVE v \in t.inhibit \/ ShowsIt(t, v)
  <2>1. v \in P => v \in s.inhibit \/ ShowsIt(s, v)
    BY DEF ShownTo, Showing
  <2>2. v # w => SameShown(s, t, v)
    BY <1>2
  <2>3. v # w => v \in t.inhibit \/ ShowsIt(t, v)
    BY <1>2, <1>4, <2>1, <2>2, ShowsTheSame DEF SameList
  <2> QED
    BY <1>2, <2>3
<1>5. SameList(u, t)
  BY <1>1, <1>2 DEF SameList
<1>6. \A v \in u.inhibit : SameShown(u, t, v)
  <2>1. \A v \in s.inhibit : v \in Watchers
    BY <1>1, DebuggersAssumption DEF GuiStates, Watchers
  <2> QED
    BY <1>1, <1>2, <2>1 DEF ShownTo, SameShown, SameList
<1> QED
  BY <1>2, <1>4, <1>5, <1>6 DEF ShownTo, Showing

LEMMA StateIsShown ==
  ASSUME NEW s, Right(s), NEW d \in Debuggers, NEW t, t = StateChanged(s, d)
  PROVE  /\ Right(t) /\ t.current = s.current /\ t.list = s.list
         /\ t.onList = s.onList /\ t.onCurrent = s.onCurrent /\ t.inhibit = s.inhibit
         /\ \A v \in s.inhibit : SameShown(s, t, v)
<1>0. s \in GuiStates
  BY DEF Right
<1>1. PICK f : f = [s.state EXCEPT ![d] = @ + 1]
  OBVIOUS
<1>2. f \in [Debuggers -> Nat] /\ \A e \in Debuggers : e # d => f[e] = s.state[e]
  BY <1>0, <1>1 DEF GuiStates
<1>3. PICK u : u = [s EXCEPT !.state[d] = @ + 1]
  OBVIOUS
<1>4. u = [s EXCEPT !.state = f]
  BY <1>1, <1>3
<1>5. /\ u \in GuiStates /\ u.list = s.list /\ u.current = s.current /\ u.state = f
      /\ u.onList = s.onList /\ u.onCurrent = s.onCurrent /\ u.inhibit = s.inhibit /\ u.onState = s.onState
      /\ u.last = s.last /\ u.shows = s.shows /\ u.own = s.own /\ u.raised = s.raised /\ u.combo = s.combo
  BY <1>0, <1>2, <1>4 DEF GuiStates
<1>6. PICK q \in Seq(Watchers) : q = u.onState[d]
  BY <1>5 DEF GuiStates
<1>7. PICK n \in Nat : n = Len(q) /\ DOMAIN q = 1 .. n
  BY LenProperties
<1>8. PICK g : IsPassing(Calling, u, q, n, g) /\ g[n] = t
  <2>1. DOMAIN u.onState[d] = 1 .. n
    BY <1>6, <1>7
  <2>2. \E g : IsPassing(Calling, u, u.onState[d], n, g) /\ g[n] = StateChanged(s, d)
    BY <1>3, <2>1, CallsPass
  <2> QED
    BY <1>6, <2>2
<1>9. OpenIn(u) = OpenIn(s) /\ Listed(u)
  BY <1>5 DEF OpenIn, Right, Listed
<1>10. \A w \in Watchers : Contains(q, w) <=> s.last[w] = d
  BY <1>5, <1>6 DEF Right, Subscribed
<1>11. PICK Good : Good = {i \in 0 .. n : ShownFirst(u, q, i, g[i])}
  OBVIOUS
<1>12. 0 \in Good
  <2>1. {q[j] : j \in 1 .. 0} = {} /\ g[0] = u
    BY <1>8 DEF IsPassing
  <2>2. ShownTo(u, u, {})
    BY <1>5, <1>9 DEF ShownTo, Showing, SameShown, SameList
  <2>3. ShownFirst(u, q, 0, g[0])
    BY <2>1, <2>2 DEF ShownFirst
  <2> QED
    BY <1>11, <2>3
<1>13. ASSUME NEW i \in 1 .. n, i - 1 \in Good PROVE i \in Good
  <2>1. PICK P : P = {q[j] : j \in 1 .. i - 1}
    OBVIOUS
  <2>2. P \subseteq Watchers /\ q[i] \in Watchers /\ P \cup {q[i]} = {q[j] : j \in 1 .. i}
    BY <1>6, <1>7, <2>1, ElementOfSeq
  <2>3. ShownTo(u, g[i - 1], P)
    BY <1>11, <1>13, <2>1 DEF ShownFirst
  <2>4. g[i] = Callback(g[i - 1], q[i])
    BY <1>8 DEF IsPassing, Told, Calling
  <2>5. ShownTo(u, g[i], P \cup {q[i]})
    BY <2>2, <2>3, <2>4, ShownOn
  <2>6. ShownFirst(u, q, i, g[i])
    BY <2>2, <2>5 DEF ShownFirst
  <2> QED
    BY <1>11, <2>6
<1>14. n \in Good
  BY <1>12, <1>13, PassingInduction
<1>15. ShownTo(u, t, {q[j] : j \in 1 .. n})
  BY <1>8, <1>11, <1>14 DEF ShownFirst
<1>16. OpenIn(t) = OpenIn(s) /\ t.current = s.current /\ t.list = s.list /\ t.last = s.last
       /\ t.onState = s.onState /\ t.onList = s.onList /\ t.onCurrent = s.onCurrent /\ t.inhibit = s.inhibit
  BY <1>5, <1>9, <1>15 DEF ShownTo, SameList, OpenIn
<1>17. Showing(t, OpenIn(t))
  <2>1. CASE d = s.current
    <3>1. ASSUME NEW w \in OpenIn(t) PROVE w \in {q[j] : j \in 1 .. n}
      <4>1. w \in Watchers /\ s.last[w] = d
        BY <1>16, <2>1 DEF Right, Following, OpenIn
      <4>2. Contains(q, w)
        BY <1>10, <4>1
      <4> QED
        BY <1>7, <4>2 DEF Contains
    <3> QED
      BY <1>15, <3>1 DEF ShownTo, Showing
  <2>2. CASE d # s.current
    <3>1. ASSUME NEW w \in Watchers PROVE ~Contains(q, w)
      <4>1. CASE w \in OpenIn(s)
        BY <1>10, <2>2, <4>1 DEF Right, Following
      <4>2. CASE w \notin OpenIn(s)
        BY <1>10, <4>2, DebuggersAssumption DEF Right, ClosedForget
      <4> QED
        BY <4>1, <4>2
    <3>2. n = 0
      <4>1. SUFFICES ASSUME n # 0 PROVE FALSE
        OBVIOUS
      <4>2. 1 \in 1 .. n /\ q[1] \in Watchers
        BY <1>6, <1>7, <4>1, ElementOfSeq
      <4> QED
        BY <1>7, <3>1, <4>2 DEF Contains
    <3>3. t = u
      BY <1>8, <3>2 DEF IsPassing
    <3>4. Reading(u) = Reading(s)
      BY <1>0, <1>2, <1>5, <2>2 DEF Reading, GuiStates
    <3> QED
      BY <1>5, <1>16, <3>3, <3>4 DEF Right, Showing, ShowsIt
  <2> QED
    BY <2>1, <2>2
<1>18. Selected(s) => Selected(t)
  <2>1. Selected(s) => Selected(u)
    BY <1>5 DEF Selected
  <2> QED
    BY <1>15, <2>1 DEF ShownTo
<1>19. Subscribed(t) /\ ClosedForget(t) /\ InOrder(t) /\ Following(t, OpenIn(t))
  BY <1>16 DEF Right, Subscribed, ClosedForget, InOrder, Following
<1>20. \A v \in s.inhibit : SameShown(s, t, v)
  BY <1>5, <1>15 DEF ShownTo, SameShown
<1> QED
  BY <1>15, <1>16, <1>17, <1>18, <1>19, <1>20 DEF Right, ShownTo

LEMMA Watched ==
  ASSUME NEW s, Right(s), NEW w \in Watchers, w \notin OpenIn(s), w = Toolbar => Len(s.onList) >= 2,
         NEW t, t = Watch(s, w)
  PROVE  /\ Right(t) /\ t.current = s.current /\ t.list = s.list
         /\ OpenIn(t) = OpenIn(s) \cup {w} /\ t.inhibit = s.inhibit \ {w}
<1>0. s \in GuiStates
  BY DEF Right
<1>1. PICK q \in Seq(Watchers) : q = s.onCurrent
  BY <1>0 DEF GuiStates
<1>2. PICK r : r = Append(q, w)
  OBVIOUS
<1>3. r \in Seq(Watchers) /\ Distinct(r) /\ \A x : Contains(r, x) <=> Contains(q, x) \/ x = w
  <2>1. Distinct(q) /\ ~Contains(q, w)
    BY <1>1 DEF Right, Subscribed, OpenIn
  <2> QED
    BY <1>2, <2>1, Appended
<1>4. PICK u : u = [s EXCEPT !.onCurrent = r, !.inhibit = s.inhibit \ {w}, !.own = s.own \ {w}]
  OBVIOUS
<1>5. /\ u \in GuiStates /\ u.list = s.list /\ u.current = s.current /\ u.state = s.state
      /\ u.onList = s.onList /\ u.onCurrent = r /\ u.onState = s.onState
      /\ u.last = s.last /\ u.shows = s.shows /\ u.raised = s.raised /\ u.combo = s.combo
      /\ u.inhibit = s.inhibit \ {w} /\ u.own = s.own \ {w}
  BY <1>0, <1>3, <1>4 DEF GuiStates
<1>6. Subscribed(u)
  BY <1>3, <1>5 DEF Right, Subscribed
<1>7. u.last[w] = None
  BY <1>0, <1>5 DEF Right, ClosedForget
<1>8. PICK v : v = Subscribe(u, w)
  OBVIOUS
<1>9. Resubscribed(u, v, [u.last EXCEPT ![w] = u.current])
  BY <1>5, <1>6, <1>7, <1>8, SubscribedTo
<1>10. v \in GuiStates /\ Listed(v)
  BY <1>5, <1>9 DEF Resubscribed, SameList, Right, Listed
<1>11. t = Callback(v, w)
  BY <1>1, <1>2, <1>4, <1>8 DEF Watch
<1>12. /\ t \in GuiStates /\ Listed(t) /\ SameList(v, t)
       /\ t.last = v.last /\ t.onState = v.onState
       /\ w \in t.inhibit \/ ShowsIt(t, w)
       /\ \A x \in Watchers \ {w} : SameShown(v, t, x)
       /\ w = Toolbar => Selected(t)
       /\ Selected(v) => Selected(t)
  BY <1>10, <1>11, Called
<1>13. /\ t.list = s.list /\ t.current = s.current /\ t.state = s.state /\ t.onList = s.onList
       /\ t.onCurrent = r /\ t.last = [s.last EXCEPT ![w] = s.current]
       /\ t.inhibit = s.inhibit \ {w} /\ (Selected(s) => Selected(t))
  BY <1>5, <1>9, <1>12 DEF Resubscribed, SameList, Selected
<1>14. Reading(t) = Reading(s) /\ \A x \in Watchers \ {w} : SameShown(s, t, x)
  BY <1>5, <1>9, <1>12, <1>13, ReadingSame DEF Resubscribed, SameShown
<1>15. OpenIn(t) = OpenIn(s) \cup {w}
  BY <1>1, <1>3, <1>13 DEF OpenIn
<1>16. Subscribed(t)
  BY <1>9, <1>12 DEF Resubscribed, Subscribed, SameList
<1>17. ASSUME NEW x \in OpenIn(t)
       PROVE  t.last[x] = t.current /\ (x \in t.inhibit \/ ShowsIt(t, x))
  <2>1. x \in Watchers /\ (x # w => x \in OpenIn(s))
    BY <1>15 DEF OpenIn
  <2>2. x # w => s.last[x] = s.current /\ (x \in s.inhibit \/ ShowsIt(s, x))
    BY <2>1 DEF Right, Following, Showing
  <2>3. t.last[x] = t.current
    BY <1>0, <1>13, <2>1, <2>2 DEF GuiStates
  <2>4. x # w => x \in t.inhibit \/ ShowsIt(t, x)
    BY <1>13, <1>14, <2>1, <2>2 DEF SameShown, ShowsIt
  <2> QED
    BY <1>12, <2>3, <2>4
<1>18. ClosedForget(t)
  BY <1>0, <1>13, <1>15 DEF Right, ClosedForget, GuiStates
<1>19. InOrder(t)
  BY <1>13, <1>15 DEF Right, InOrder
<1>20. Toolbar \in OpenIn(t) => Selected(t)
  BY <1>12, <1>13, <1>15 DEF Right
<1> QED
  BY <1>12, <1>13, <1>15, <1>16, <1>17, <1>18, <1>19, <1>20 DEF Right, Following, Showing

LEMMA Unwatched ==
  ASSUME NEW s, Right(s), NEW w \in Watchers, NEW t, t = Shutdown(s, w)
  PROVE  /\ Right(t) /\ t.current = s.current /\ t.list = s.list
         /\ OpenIn(t) = OpenIn(s) \ {w} /\ t.inhibit = s.inhibit
<1>0. s \in GuiStates
  BY DEF Right
<1>1. PICK q \in Seq(Watchers) : q = s.onCurrent
  BY <1>0 DEF GuiStates
<1>2. PICK r : r = RemoveFirst(q, w)
  OBVIOUS
<1>3. r \in Seq(Watchers) /\ Distinct(r) /\ \A x : Contains(r, x) <=> Contains(q, x) /\ x # w
  <2>1. Distinct(q)
    BY <1>1 DEF Right, Subscribed
  <2> QED
    BY <1>2, <2>1, FirstRemoved
<1>4. PICK u : u = [s EXCEPT !.onCurrent = r]
  OBVIOUS
<1>5. /\ u \in GuiStates /\ u.list = s.list /\ u.current = s.current /\ u.state = s.state
      /\ u.inhibit = s.inhibit
      /\ u.onList = s.onList /\ u.onCurrent = r /\ u.onState = s.onState
      /\ u.last = s.last /\ u.shows = s.shows /\ u.own = s.own /\ u.raised = s.raised /\ u.combo = s.combo
  BY <1>0, <1>3, <1>4 DEF GuiStates
<1>6. Subscribed(u)
  BY <1>3, <1>5 DEF Right, Subscribed
<1>7. t = Unsubscribe(u, w)
  BY <1>1, <1>2, <1>4 DEF Shutdown
<1>8. Resubscribed(u, t, [u.last EXCEPT ![w] = None])
  BY <1>5, <1>6, <1>7, Unsubscribed
<1>9. /\ t \in GuiStates /\ Subscribed(t)
      /\ t.list = s.list /\ t.current = s.current /\ t.state = s.state /\ t.onList = s.onList
      /\ t.onCurrent = r /\ t.last = [s.last EXCEPT ![w] = None] /\ t.inhibit = s.inhibit
      /\ t.shows = s.shows /\ t.own = s.own /\ t.combo = s.combo /\ t.raised = s.raised
  BY <1>5, <1>8 DEF Resubscribed, SameList
<1>10. OpenIn(t) = OpenIn(s) \ {w}
  BY <1>1, <1>3, <1>9 DEF OpenIn
<1>11. Reading(t) = Reading(s) /\ Listed(t) /\ (Selected(s) => Selected(t))
  BY <1>9, ReadingSame DEF Right, Listed, Selected
<1>12. ASSUME NEW x \in OpenIn(t)
       PROVE  t.last[x] = t.current /\ (x \in t.inhibit \/ ShowsIt(t, x))
  <2>1. x \in Watchers /\ x # w /\ x \in OpenIn(s)
    BY <1>10 DEF OpenIn
  <2>2. s.last[x] = s.current /\ (x \in s.inhibit \/ ShowsIt(s, x))
    BY <2>1 DEF Right, Following, Showing
  <2>3. t.last[x] = t.current
    BY <1>0, <1>9, <2>1, <2>2 DEF GuiStates
  <2> QED
    BY <1>9, <1>11, <2>2, <2>3 DEF ShowsIt
<1>13. ClosedForget(t)
  BY <1>0, <1>9, <1>10 DEF Right, ClosedForget, GuiStates
<1>14. InOrder(t) /\ (Toolbar \in OpenIn(t) => Selected(t))
  BY <1>9, <1>10, <1>11 DEF Right, InOrder
<1> QED
  BY <1>9, <1>10, <1>11, <1>12, <1>13, <1>14 DEF Right, Following, Showing

LEMMA ToolbarHears ==
  ASSUME NEW s, Right(s), NEW t, t = [s EXCEPT !.onList = Append(@, "combo")]
  PROVE  /\ Right(t) /\ Len(t.onList) >= 2
         /\ t.current = s.current /\ t.list = s.list /\ t.onCurrent = s.onCurrent /\ t.inhibit = s.inhibit
<1>0. s \in GuiStates
  BY DEF Right
<1>1. PICK q \in Seq({"manager", "combo"}) : q = s.onList
  BY <1>0 DEF GuiStates
<1>2. PICK r : r = Append(q, "combo")
  OBVIOUS
<1>3. /\ r \in Seq({"manager", "combo"}) /\ Len(q) \in Nat /\ Len(r) = Len(q) + 1
      /\ \A i \in 1 .. Len(q) : r[i] = q[i]
      /\ r[Len(q) + 1] = "combo"
  BY <1>2, AppendProperties
<1>4. t = [s EXCEPT !.onList = r]
  BY <1>1, <1>2
<1>5. /\ t \in GuiStates /\ t.list = s.list /\ t.current = s.current /\ t.state = s.state
      /\ t.onList = r /\ t.onCurrent = s.onCurrent /\ t.inhibit = s.inhibit /\ t.onState = s.onState
      /\ t.last = s.last /\ t.shows = s.shows /\ t.own = s.own /\ t.raised = s.raised /\ t.combo = s.combo
  BY <1>0, <1>3, <1>4 DEF GuiStates
<1>6. Len(q) >= 1 /\ q[1] = "manager" /\ \A i \in 2 .. Len(q) : q[i] = "combo"
  BY <1>1 DEF Right, InOrder
<1>7. Len(r) >= 2 /\ r[1] = "manager" /\ \A i \in 2 .. Len(r) : r[i] = "combo"
  BY <1>3, <1>6
<1>8. OpenIn(t) = OpenIn(s) /\ Reading(t) = Reading(s)
  BY <1>5, ReadingSame DEF OpenIn
<1>9. Subscribed(t) /\ ClosedForget(t) /\ Listed(t) /\ (Selected(s) => Selected(t))
  BY <1>5, <1>8 DEF Right, Subscribed, ClosedForget, Listed, Selected
<1>10. Following(t, OpenIn(t)) /\ Showing(t, OpenIn(t))
  BY <1>5, <1>8 DEF Right, Following, Showing, ShowsIt
<1>11. InOrder(t)
  <2>1. Len(r) >= 1
    BY <1>3, <1>7
  <2> QED
    BY <1>5, <1>7, <2>1 DEF InOrder
<1> QED
  BY <1>5, <1>7, <1>8, <1>9, <1>10, <1>11 DEF Right

-----------------------------------------------------------------------------
\* SimOf finds the simulation debugger, if there is one.
LEMMA SimFound ==
  ASSUME NEW s \in GuiStates
  PROVE  /\ SimOf(s) = 0 => \A d \in Sims : ~Contains(s.list, d)
         /\ SimOf(s) # 0 => s.list[SimOf(s)] \in Sims /\ Contains(s.list, s.list[SimOf(s)])
<1>1. PICK q \in Seq(Debuggers) : q = s.list
  BY DEF GuiStates
<1>2. PICK I : I = {i \in 1 .. Len(q) : q[i] \in Sims}
  OBVIOUS
<1>3. SimOf(s) = IF I # {} THEN Min(I) ELSE 0
  BY <1>1, <1>2 DEF SimOf, SelectInSeq
<1>4. I \subseteq Nat /\ \A i \in I : i # 0
  BY <1>2
<1>5. CASE I = {}
  BY <1>1, <1>2, <1>3, <1>5 DEF Contains
<1>6. CASE I # {}
  <2>1. Min(I) \in I
    BY <1>4, <1>6, LeastPos
  <2>2. SimOf(s) \in 1 .. Len(q) /\ q[SimOf(s)] \in Sims /\ SimOf(s) # 0
    BY <1>2, <1>3, <1>4, <1>6, <2>1
  <2> QED
    BY <1>1, <2>2 DEF Contains
<1> QED
  BY <1>5, <1>6

\* Nothing was opened or closed, and no Call Explorer inhibited.
SameWatching(s, t) == t.onCurrent = s.onCurrent /\ t.inhibit = s.inhibit

\* The list of s, without what is in the first i places of q.
ListLacks(s, q, i, t) ==
  /\ Right(t) /\ SameWatching(s, t)
  /\ \A x : Contains(t.list, x) => Contains(s.list, x) /\ \A j \in 1 .. i : x # q[j]

LEMMA ContainersReset ==
  ASSUME NEW s, Right(s), NEW t, t = ResetContainers(s)
  PROVE  Right(t) /\ SameWatching(s, t) /\ \A x : ~Contains(t.list, x)
<1>1. PICK u : u = UpdateSimgrDebuggers(s, 0, None)
  OBVIOUS
<1>2. Right(u) /\ SameWatching(s, u)
  <2>1. CASE SimOf(s) = 0
    BY <1>1, <2>1 DEF UpdateSimgrDebuggers, SameWatching
  <2>2. CASE SimOf(s) # 0
    <3>1. PICK d \in Sims : d = s.list[SimOf(s)]
      BY <2>2, SimFound DEF Right
    <3>2. u = RemoveDebugger(s, d) /\ d \in Debuggers
      BY <1>1, <2>2, <3>1 DEF UpdateSimgrDebuggers, Debuggers
    <3> QED
      BY <3>2, DebuggerRemoved DEF SameWatching
  <2> QED
    BY <2>1, <2>2
<1>3. PICK q \in Seq(Debuggers) : q = u.list
  BY <1>2 DEF Right, GuiStates
<1>4. PICK n \in Nat : n = Len(q) /\ DOMAIN q = 1 .. n
  BY LenProperties
<1>5. PICK g : IsPassing(Removing, u, q, n, g) /\ g[n] = t
  <2>1. DOMAIN u.list = 1 .. n
    BY <1>3, <1>4
  <2>2. \E g : IsPassing(Removing, u, u.list, n, g) /\ g[n] = FoldLeft(RemoveDebugger, u, u.list)
    BY <2>1, RemovalsPass
  <2>3. t = FoldLeft(RemoveDebugger, u, u.list)
    BY <1>1 DEF ResetContainers
  <2> QED
    BY <1>3, <2>2, <2>3
<1>6. PICK Good : Good = {i \in 0 .. n : ListLacks(u, q, i, g[i])}
  OBVIOUS
<1>7. 0 \in Good
  <2>1. g[0] = u
    BY <1>5 DEF IsPassing
  <2>2. ListLacks(u, q, 0, g[0])
    BY <1>2, <2>1 DEF ListLacks, SameWatching
  <2> QED
    BY <1>6, <2>2
<1>8. ASSUME NEW i \in 1 .. n, i - 1 \in Good PROVE i \in Good
  <2>1. g[i] = RemoveDebugger(g[i - 1], q[i])
    BY <1>5 DEF IsPassing, Told, Removing
  <2>2. q[i] \in Debuggers
    BY <1>3, <1>4, ElementOfSeq
  <2>3. ListLacks(u, q, i - 1, g[i - 1])
    BY <1>6, <1>8
  <2>4. /\ Right(g[i]) /\ SameWatching(u, g[i])
        /\ \A x : Contains(g[i].list, x) <=> Contains(g[i - 1].list, x) /\ x # q[i]
    <3>1. PICK p : p = g[i - 1]
      OBVIOUS
    <3>2. PICK d \in Debuggers : d = q[i]
      BY <2>2
    <3>3. PICK v : v = g[i]
      OBVIOUS
    <3>4. Right(p) /\ SameWatching(u, p) /\ v = RemoveDebugger(p, d)
      BY <2>1, <2>3, <3>1, <3>2, <3>3 DEF ListLacks
    <3>5. Right(v) /\ SameWatching(u, v) /\ \A x : Contains(v.list, x) <=> Contains(p.list, x) /\ x # d
      BY <3>4, DebuggerRemoved DEF SameWatching
    <3> QED
      BY <3>1, <3>2, <3>3, <3>5
  <2>5. ASSUME NEW x, Contains(g[i].list, x)
        PROVE  Contains(u.list, x) /\ \A j \in 1 .. i : x # q[j]
    <3>1. x # q[i] /\ Contains(u.list, x) /\ \A j \in 1 .. i - 1 : x # q[j]
      BY <2>3, <2>4, <2>5 DEF ListLacks
    <3> QED
      BY <3>1
  <2>6. ListLacks(u, q, i, g[i])
    BY <2>4, <2>5 DEF ListLacks
  <2> QED
    BY <1>6, <2>6
<1>9. n \in Good
  BY <1>7, <1>8, PassingInduction
<1>10. ListLacks(u, q, n, t)
  BY <1>5, <1>6, <1>9
<1> QED
  BY <1>2, <1>3, <1>4, <1>10 DEF ListLacks, SameWatching, Contains

-----------------------------------------------------------------------------
(***************************************************************************)
(* The inductive invariant: what is right about the debuggers, and which of *)
(* them are listed.                                                        *)
(***************************************************************************)
SimsListed(list, n) ==
  /\ n > 0 <=> \E d \in Sims : Contains(list, d)
  /\ \A d \in Sims, e \in Sims : Contains(list, d) /\ Contains(list, e) => d = e
\* What watches is what is open and the tables left behind, and only a click that
\* raised leaves the inhibition of a Call Explorer in place.
WindowsRight ==
  /\ OpenIn(gui) = open \cup left /\ open \subseteq Watchers /\ left \subseteq Tables
  /\ gui.inhibit \subseteq failed
DebuggersInv ==
  /\ Right(gui) /\ WindowsRight
  /\ simgrs \in Nat /\ loads \in 0 .. MaxLoads /\ madeIn \in [Debuggers -> Nat]
  /\ \A d \in Debuggers : Contains(gui.list, d) => madeIn[d] = loads
  /\ SimsListed(gui.list, simgrs)

LEMMA ListedAreDebuggers ==
  ASSUME NEW s \in GuiStates, NEW d, Contains(s.list, d)
  PROVE  d \in Debuggers
<1>1. s.list \in Seq(Debuggers)
  BY DEF GuiStates
<1> QED
  BY <1>1, ElementOfSeq DEF Contains

LEMMA NothingElse ==
  ASSUME DebuggersInv, Right(gui'), WindowsRight', gui'.list = gui.list,
         UNCHANGED <<simgrs, madeIn, loads>>
  PROVE  DebuggersInv'
  BY DEF DebuggersInv, Right

LEMMA SameWindows ==
  ASSUME DebuggersInv, SameWatching(gui, gui'), UNCHANGED <<open, left, failed>>
  PROVE  WindowsRight'
  BY DEF DebuggersInv, WindowsRight, SameWatching, OpenIn

LEMMA InitDebuggers == DebuggersInit => DebuggersInv
<1> SUFFICES ASSUME DebuggersInit PROVE DebuggersInv
  OBVIOUS
<1>1. gui \in GuiStates
  BY DEF DebuggersInit, GuiStates, Shown, Nothing
<1>2. \A x : ~Contains(<<>>, x)
  BY DEF Contains
<1>3. /\ gui.list = <<>> /\ gui.current = None /\ gui.onList = <<"manager">> /\ gui.onCurrent = <<>>
      /\ ~gui.raised /\ OpenIn(gui) = {}
      /\ gui.onState = [d \in Debuggers |-> <<>>] /\ gui.last = [w \in Watchers |-> None]
  BY <1>2 DEF DebuggersInit, OpenIn
<1>4. Distinct(<<>>)
  BY DEF Distinct
<1>5. Subscribed(gui)
  BY <1>2, <1>3, <1>4, DebuggersAssumption DEF Subscribed
<1>6. InOrder(gui) /\ Listed(gui) /\ ClosedForget(gui)
  BY <1>3 DEF InOrder, Listed, ClosedForget
<1>7. Right(gui)
  BY <1>1, <1>3, <1>4, <1>5, <1>6 DEF Right, Following, Showing
<1>10. WindowsRight
  BY <1>3 DEF DebuggersInit, WindowsRight
<1>8. simgrs = 0 /\ loads = 0 /\ madeIn \in [Debuggers -> Nat] /\ MaxLoads \in Nat
  BY DebuggersAssumption DEF DebuggersInit, NotMade
<1>9. SimsListed(gui.list, simgrs)
  BY <1>2, <1>3, <1>8 DEF SimsListed
<1> QED
  BY <1>2, <1>3, <1>7, <1>8, <1>9, <1>10 DEF DebuggersInv

-----------------------------------------------------------------------------
\* One lemma for each action.
LEMMA OpenedView ==
  ASSUME DebuggersInv, NEW v \in Views, OpenView(v)
  PROVE  DebuggersInv'
<1>1. PICK s : s = gui
  OBVIOUS
<1>2. PICK t : t = gui'
  OBVIOUS
<1>3. v \in Watchers /\ v # Toolbar /\ v \notin OpenIn(s) /\ t = Watch(s, v) /\ Right(s)
  BY <1>1, <1>2, DebuggersAssumption DEF OpenView, Watchers, DebuggersInv, WindowsRight
<1>4. /\ Right(t) /\ t.current = s.current /\ t.list = s.list
      /\ OpenIn(t) = OpenIn(s) \cup {v} /\ t.inhibit = s.inhibit \ {v}
  BY <1>3, Watched
<1>5. WindowsRight'
  BY <1>1, <1>2, <1>3, <1>4 DEF OpenView, DebuggersInv, WindowsRight
<1> QED
  BY <1>1, <1>2, <1>4, <1>5, NothingElse DEF OpenView

LEMMA Closed ==
  ASSUME DebuggersInv, NEW w \in Watchers, w \notin Tables, w \in open, open' = open \ {w},
         gui' = Shutdown(gui, w), UNCHANGED <<left, failed, simgrs, madeIn, loads>>
  PROVE  DebuggersInv'
<1>1. PICK s : s = gui
  OBVIOUS
<1>2. PICK t : t = gui'
  OBVIOUS
<1>3. Right(s) /\ t = Shutdown(s, w)
  BY <1>1, <1>2 DEF DebuggersInv
<1>4. /\ Right(t) /\ t.current = s.current /\ t.list = s.list
      /\ OpenIn(t) = OpenIn(s) \ {w} /\ t.inhibit = s.inhibit
  BY <1>3, Unwatched
<1>5. WindowsRight'
  BY <1>1, <1>2, <1>4 DEF DebuggersInv, WindowsRight
<1> QED
  BY <1>1, <1>2, <1>4, <1>5, NothingElse

LEMMA ClosedView ==
  ASSUME DebuggersInv, NEW v \in Views, CloseView(v)
  PROVE  DebuggersInv'
<1>1. v \in Watchers /\ v \in open /\ open' = open \ {v}
  BY DEF CloseView, Watchers
<1>2. CASE v \in Tables
  <2>1. UNCHANGED gui /\ left' = left \cup {v} /\ UNCHANGED <<failed, simgrs, madeIn, loads>>
    BY <1>2 DEF CloseView
  <2>2. WindowsRight'
    BY <1>1, <1>2, <2>1 DEF DebuggersInv, WindowsRight
  <2> QED
    BY <2>1, <2>2, NothingElse DEF DebuggersInv
<1>3. CASE v \notin Tables
  BY <1>1, <1>3, Closed DEF CloseView
<1> QED
  BY <1>2, <1>3

\* A Call Explorer may inhibit its callback at any time.
LEMMA Inhibited ==
  ASSUME NEW s, Right(s), NEW v \in Explorers, NEW t, t = [s EXCEPT !.inhibit = @ \cup {v}]
  PROVE  Right(t) /\ t.current = s.current /\ t.list = s.list /\ OpenIn(t) = OpenIn(s)
<1>1. s \in GuiStates
  BY DEF Right
<1>2. /\ t \in GuiStates /\ t.list = s.list /\ t.current = s.current /\ t.state = s.state
      /\ t.onList = s.onList /\ t.onCurrent = s.onCurrent /\ t.onState = s.onState
      /\ t.last = s.last /\ t.shows = s.shows /\ t.own = s.own /\ t.raised = s.raised
      /\ t.combo = s.combo /\ t.inhibit = s.inhibit \cup {v}
  BY <1>1 DEF GuiStates
<1>3. OpenIn(t) = OpenIn(s) /\ Reading(t) = Reading(s)
  BY <1>2, ReadingSame DEF OpenIn
<1>4. Subscribed(t) /\ ClosedForget(t) /\ Listed(t) /\ InOrder(t) /\ (Selected(s) => Selected(t))
  BY <1>2, <1>3 DEF Right, Subscribed, ClosedForget, Listed, InOrder, Selected
<1>5. Following(t, OpenIn(t)) /\ Showing(t, OpenIn(t))
  BY <1>2, <1>3 DEF Right, Following, Showing, ShowsIt
<1> QED
  BY <1>2, <1>3, <1>4, <1>5 DEF Right

LEMMA ItemClickFailed ==
  ASSUME DebuggersInv, NEW v \in Explorers, ClickItemFails(v)
  PROVE  DebuggersInv'
<1>1. PICK s : s = gui
  OBVIOUS
<1>2. PICK t : t = gui'
  OBVIOUS
<1>3. Right(s) /\ t = [s EXCEPT !.inhibit = @ \cup {v}] /\ s \in GuiStates
  BY <1>1, <1>2 DEF DebuggersInv, ClickItemFails, Right
<1>4. Right(t) /\ t.list = s.list /\ OpenIn(t) = OpenIn(s) /\ t.inhibit = s.inhibit \cup {v}
  BY <1>3, Inhibited DEF GuiStates
<1>5. WindowsRight'
  BY <1>1, <1>2, <1>4 DEF ClickItemFails, DebuggersInv, WindowsRight
<1> QED
  BY <1>1, <1>2, <1>4, <1>5, NothingElse DEF ClickItemFails

\* The explorer that was clicked in goes on to show the debugger it showed.
LEMMA ItemClicked ==
  ASSUME DebuggersInv, NEW v \in Explorers, ClickItem(v)
  PROVE  DebuggersInv'
<1>1. PICK s : s = gui
  OBVIOUS
<1>2. PICK u : u = [s EXCEPT !.inhibit = @ \cup {v}]
  OBVIOUS
<1>3. PICK d \in Debuggers : d = s.current
  BY <1>1 DEF ClickItem, Debuggers
<1>4. PICK r : r = StateChanged(u, d)
  OBVIOUS
<1>5. PICK t : t = gui'
  OBVIOUS
<1>6. Right(s) /\ s \in GuiStates /\ v \in Watchers /\ v \in OpenIn(s)
  BY <1>1, DebuggersAssumption DEF DebuggersInv, WindowsRight, Right, ClickItem, Watchers
<1>7. /\ Right(u) /\ u.current = d /\ u.list = s.list /\ OpenIn(u) = OpenIn(s)
      /\ u.inhibit = s.inhibit \cup {v} /\ u.shows = s.shows /\ u.own = s.own
      /\ u.onCurrent = s.onCurrent
  BY <1>2, <1>3, <1>6, Inhibited DEF GuiStates
<1>8. /\ Right(r) /\ r.current = d /\ r.list = s.list /\ r.onCurrent = s.onCurrent
      /\ r.inhibit = s.inhibit \cup {v} /\ \A w \in s.inhibit \cup {v} : SameShown(u, r, w)
  BY <1>4, <1>7, StateIsShown
<1>9. t = [r EXCEPT !.inhibit = s.inhibit, !.own = @ \cup {v}]
  BY <1>1, <1>2, <1>3, <1>4, <1>5 DEF ClickItem
<1>10. r \in GuiStates
  BY <1>8 DEF Right
<1>11. /\ t \in GuiStates /\ t.list = r.list /\ t.current = r.current /\ t.state = r.state
       /\ t.onList = r.onList /\ t.onCurrent = r.onCurrent /\ t.onState = r.onState
       /\ t.last = r.last /\ t.shows = r.shows /\ t.own = r.own \cup {v} /\ t.raised = r.raised
       /\ t.combo = r.combo /\ t.inhibit = s.inhibit
  BY <1>6, <1>9, <1>10 DEF GuiStates
<1>12. OpenIn(t) = OpenIn(r) /\ OpenIn(r) = OpenIn(s) /\ Reading(t) = Reading(r)
  BY <1>8, <1>11, ReadingSame DEF OpenIn
<1>13. Subscribed(t) /\ ClosedForget(t) /\ Listed(t) /\ InOrder(t) /\ (Selected(r) => Selected(t))
  BY <1>8, <1>11, <1>12 DEF Right, Subscribed, ClosedForget, Listed, InOrder, Selected
<1>14. v \in s.inhibit \/ s.shows[v].dbg = d
  <2>1. v \in s.inhibit \/ ShowsIt(s, v)
    BY <1>6 DEF Right, Showing
  <2>2. d # None => Reading(s).dbg = d
    BY <1>3 DEF Reading
  <2>3. d # None
    BY DebuggersAssumption
  <2> QED
    BY <1>3, <2>1, <2>2, <2>3 DEF ShowsIt
<1>15. Following(t, OpenIn(t))
  BY <1>8, <1>11, <1>12 DEF Right, Following
<1>16. ASSUME NEW w \in OpenIn(t) PROVE w \in t.inhibit \/ ShowsIt(t, w)
  <2>1. CASE w = v
    BY <1>7, <1>8, <1>11, <1>14, <2>1 DEF SameShown, ShowsIt
  <2>2. CASE w # v
    <3>1. w \in r.inhibit \/ ShowsIt(r, w)
      BY <1>8, <1>12, <1>16 DEF Right, Showing
    <3> QED
      BY <1>8, <1>11, <1>12, <2>2, <3>1 DEF ShowsIt
  <2> QED
    BY <2>1, <2>2
<1>17. Right(t)
  BY <1>8, <1>11, <1>12, <1>13, <1>15, <1>16 DEF Right, Showing
<1>18. WindowsRight'
  BY <1>1, <1>5, <1>11, <1>12 DEF ClickItem, DebuggersInv, WindowsRight
<1> QED
  BY <1>1, <1>5, <1>8, <1>11, <1>17, <1>18, NothingElse DEF ClickItem

LEMMA ToolbarShown ==
  ASSUME DebuggersInv, ShowToolbar
  PROVE  DebuggersInv'
<1>1. PICK s : s = gui
  OBVIOUS
<1>2. PICK u : u = [s EXCEPT !.onList = Append(@, "combo")]
  OBVIOUS
<1>3. PICK t : t = gui'
  OBVIOUS
<1>4. /\ Right(s) /\ Toolbar \in Watchers /\ Toolbar \notin OpenIn(s) /\ Toolbar \notin s.inhibit
      /\ t = Watch(u, Toolbar)
  BY <1>1, <1>2, <1>3, DebuggersAssumption
     DEF ShowToolbar, DebuggersInv, WindowsRight, Right, GuiStates, Watchers
<1>5. /\ Right(u) /\ Len(u.onList) >= 2
      /\ u.current = s.current /\ u.list = s.list /\ u.onCurrent = s.onCurrent /\ u.inhibit = s.inhibit
  BY <1>2, <1>4, ToolbarHears
<1>6. Toolbar \notin OpenIn(u)
  BY <1>4, <1>5 DEF OpenIn
<1>7. /\ Right(t) /\ t.current = u.current /\ t.list = u.list
      /\ OpenIn(t) = OpenIn(u) \cup {Toolbar} /\ t.inhibit = u.inhibit \ {Toolbar}
  BY <1>4, <1>5, <1>6, Watched
<1>8. OpenIn(u) = OpenIn(s) /\ t.inhibit = s.inhibit
  BY <1>4, <1>5, <1>7 DEF OpenIn
<1>9. WindowsRight'
  BY <1>1, <1>3, <1>4, <1>7, <1>8 DEF ShowToolbar, DebuggersInv, WindowsRight
<1> QED
  BY <1>1, <1>3, <1>5, <1>7, <1>9, NothingElse DEF ShowToolbar

\* A new debugger is added and selected.
LEMMA NewSelected ==
  ASSUME NEW s, Right(s), NEW d \in Debuggers, ~Contains(s.list, d),
         NEW t, t = SetDebugger(AddDebugger(s, d), d)
  PROVE  /\ Right(t) /\ SameWatching(s, t)
         /\ \A x : Contains(t.list, x) <=> Contains(s.list, x) \/ x = d
<1>1. PICK u : u = AddDebugger(s, d)
  OBVIOUS
<1>2. /\ Right(u) /\ SameWatching(s, u)
      /\ \A x : Contains(u.list, x) <=> Contains(s.list, x) \/ x = d
  BY <1>1, DebuggerAdded DEF SameWatching
<1>3. Right(t) /\ SameWatching(u, t) /\ t.list = u.list
  <2>1. t = SetDebugger(u, d) /\ Contains(u.list, d)
    BY <1>1, <1>2
  <2> QED
    BY <1>2, <2>1, CurrentSet DEF SameWatching
<1> QED
  BY <1>2, <1>3 DEF SameWatching

\* What was not made is not listed.
LEMMA NotYetListed ==
  ASSUME DebuggersInv, NEW d \in Debuggers, madeIn[d] = NotMade
  PROVE  ~Contains(gui.list, d)
  BY DebuggersAssumption DEF DebuggersInv, NotMade

LEMMA MadeNow ==
  ASSUME DebuggersInv, NEW d \in Debuggers, Make(d)
  PROVE  /\ madeIn' \in [Debuggers -> Nat] /\ madeIn'[d] = loads
         /\ \A e \in Debuggers : e # d => madeIn'[e] = madeIn[e]
  BY DebuggersAssumption DEF DebuggersInv, Make

LEMMA TraceCreated ==
  ASSUME DebuggersInv, NEW d \in Debuggers, CreateTraceDebugger(d)
  PROVE  DebuggersInv'
<1>1. PICK s : s = gui
  OBVIOUS
<1>2. PICK t : t = gui'
  OBVIOUS
<1>3. d \notin Sims /\ Make(d) /\ UNCHANGED <<simgrs, loads>>
  BY DebuggersAssumption DEF CreateTraceDebugger
<1>4. Right(s) /\ ~Contains(s.list, d) /\ t = SetDebugger(AddDebugger(s, d), d)
  BY <1>1, <1>2, <1>3, NotYetListed DEF CreateTraceDebugger, DebuggersInv, Make
<1>5. /\ Right(t) /\ SameWatching(s, t)
      /\ \A x : Contains(t.list, x) <=> Contains(s.list, x) \/ x = d
  BY <1>4, NewSelected
<1>6. /\ madeIn' \in [Debuggers -> Nat] /\ madeIn'[d] = loads
      /\ \A e \in Debuggers : e # d => madeIn'[e] = madeIn[e]
  BY <1>3, MadeNow
<1>7. \A e \in Debuggers : Contains(t.list, e) => madeIn'[e] = loads
  BY <1>1, <1>5, <1>6 DEF DebuggersInv
<1>8. SimsListed(t.list, simgrs)
  BY <1>1, <1>3, <1>5 DEF DebuggersInv, SimsListed
<1>9. WindowsRight'
  BY <1>1, <1>2, <1>5, SameWindows DEF CreateTraceDebugger
<1> QED
  BY <1>2, <1>3, <1>5, <1>6, <1>7, <1>8, <1>9 DEF DebuggersInv

LEMMA ManagerCreated ==
  ASSUME DebuggersInv, CreateSimulationManager
  PROVE  DebuggersInv'
<1>1. PICK new \in Sims :
        /\ simgrs' = simgrs + 1
        /\ IF SimOf(gui) = 0 THEN Make(new) ELSE UNCHANGED madeIn
        /\ LET t == UpdateSimgrDebuggers(gui, simgrs', new) IN gui' = StateChanged(t, t.list[SimOf(t)])
        /\ UNCHANGED <<open, left, failed, loads>>
  BY DEF CreateSimulationManager
<1>2. PICK s : s = gui
  OBVIOUS
<1>3. PICK u : u = UpdateSimgrDebuggers(s, simgrs', new)
  OBVIOUS
<1>4. PICK t : t = gui'
  OBVIOUS
<1>5. Right(s) /\ s \in GuiStates /\ new \in Debuggers /\ simgrs' \in Nat /\ simgrs' > 0
  BY <1>1, <1>2 DEF DebuggersInv, Right, Debuggers
<1>6. /\ Right(u) /\ SameWatching(s, u)
      /\ madeIn' \in [Debuggers -> Nat] /\ SimsListed(u.list, simgrs')
      /\ \A e \in Debuggers : Contains(u.list, e) => madeIn'[e] = loads
  <2>1. CASE SimOf(s) = 0
    <3>1. Make(new) /\ u = SetDebugger(AddDebugger(s, new), new)
      BY <1>1, <1>2, <1>3, <1>5, <2>1 DEF UpdateSimgrDebuggers
    <3>2. ~Contains(s.list, new) /\ \A e \in Sims : ~Contains(s.list, e)
      BY <1>5, <2>1, SimFound
    <3>3. /\ Right(u) /\ SameWatching(s, u)
          /\ \A x : Contains(u.list, x) <=> Contains(s.list, x) \/ x = new
      BY <1>5, <3>1, <3>2, NewSelected
    <3>4. /\ madeIn' \in [Debuggers -> Nat] /\ madeIn'[new] = loads
          /\ \A e \in Debuggers : e # new => madeIn'[e] = madeIn[e]
      BY <1>5, <3>1, MadeNow
    <3>5. SimsListed(u.list, simgrs')
      BY <1>5, <3>2, <3>3 DEF SimsListed
    <3>6. \A e \in Debuggers : Contains(u.list, e) => madeIn'[e] = loads
      BY <1>2, <3>3, <3>4 DEF DebuggersInv
    <3> QED
      BY <3>3, <3>4, <3>5, <3>6
  <2>2. CASE SimOf(s) # 0
    <3>1. u = s /\ UNCHANGED madeIn
      BY <1>1, <1>2, <1>3, <1>5, <2>2 DEF UpdateSimgrDebuggers
    <3>2. \E d \in Sims : Contains(s.list, d)
      BY <1>5, <2>2, SimFound
    <3>3. SimsListed(s.list, simgrs')
      BY <1>2, <1>5, <3>2 DEF DebuggersInv, SimsListed
    <3> QED
      BY <1>2, <1>5, <3>1, <3>3 DEF DebuggersInv, SameWatching
  <2> QED
    BY <2>1, <2>2
<1>7. PICK d : d = u.list[SimOf(u)]
  OBVIOUS
<1>8. d \in Debuggers
  <2>1. u \in GuiStates /\ \E e \in Sims : Contains(u.list, e)
    BY <1>5, <1>6 DEF Right, SimsListed
  <2>2. SimOf(u) # 0
    BY <2>1, SimFound
  <2>3. d \in Sims
    BY <1>7, <2>1, <2>2, SimFound
  <2> QED
    BY <2>3 DEF Debuggers
<1>9. t = StateChanged(u, d)
  BY <1>1, <1>2, <1>3, <1>4, <1>7
<1>10. Right(t) /\ SameWatching(s, t) /\ t.list = u.list
  BY <1>6, <1>8, <1>9, StateIsShown DEF SameWatching
<1>11. WindowsRight'
  BY <1>1, <1>2, <1>4, <1>10, SameWindows
<1> QED
  BY <1>1, <1>4, <1>5, <1>6, <1>10, <1>11 DEF DebuggersInv

LEMMA Chosen ==
  ASSUME DebuggersInv, NEW i \in 0 .. Len(gui.list), SelectByIndex(i)
  PROVE  DebuggersInv'
<1>1. PICK s : s = gui
  OBVIOUS
<1>2. PICK t : t = gui'
  OBVIOUS
<1>3. PICK d : d = IF i = 0 THEN None ELSE s.list[i]
  OBVIOUS
<1>4. Right(s) /\ s \in GuiStates
  BY <1>1 DEF DebuggersInv, Right
<1>5. d # None => Contains(s.list, d)
  <2>1. i # 0 => i \in 1 .. Len(s.list)
    BY <1>1
  <2> QED
    BY <1>3, <2>1 DEF Contains
<1>6. d \in Debuggers \cup {None}
  BY <1>4, <1>5, ListedAreDebuggers
<1>7. t = SetDebugger(s, d)
  BY <1>1, <1>2, <1>3 DEF SelectByIndex
<1>8. Right(t) /\ SameWatching(s, t) /\ t.list = s.list
  BY <1>4, <1>5, <1>6, <1>7, CurrentSet DEF SameWatching
<1>9. WindowsRight'
  BY <1>1, <1>2, <1>8, SameWindows DEF SelectByIndex
<1> QED
  BY <1>1, <1>2, <1>8, <1>9, NothingElse DEF SelectByIndex

LEMMA Stopped ==
  ASSUME DebuggersInv, Stop
  PROVE  DebuggersInv'
<1>1. PICK s : s = gui
  OBVIOUS
<1>2. PICK t : t = gui'
  OBVIOUS
<1>3. PICK d \in Traces : d = s.current
  BY <1>1 DEF Stop
<1>4. d \in Debuggers /\ d \notin Sims /\ Right(s) /\ t = RemoveDebugger(s, d)
  BY <1>1, <1>2, <1>3, DebuggersAssumption DEF Stop, Debuggers, DebuggersInv
<1>5. /\ Right(t) /\ SameWatching(s, t)
      /\ \A x : Contains(t.list, x) <=> Contains(s.list, x) /\ x # d
  BY <1>4, DebuggerRemoved DEF SameWatching
<1>6. UNCHANGED <<simgrs, madeIn, loads>>
  BY DEF Stop
<1>7. SimsListed(t.list, simgrs)
  BY <1>1, <1>4, <1>5 DEF DebuggersInv, SimsListed
<1>8. WindowsRight'
  BY <1>1, <1>2, <1>5, SameWindows DEF Stop
<1> QED
  BY <1>1, <1>2, <1>5, <1>6, <1>7, <1>8 DEF DebuggersInv

LEMMA StateMoved ==
  ASSUME DebuggersInv, NEW d \in Debuggers, ChangeState(d)
  PROVE  DebuggersInv'
<1>1. PICK s : s = gui
  OBVIOUS
<1>2. PICK t : t = gui'
  OBVIOUS
<1>3. Right(s) /\ t = StateChanged(s, d)
  BY <1>1, <1>2 DEF DebuggersInv, ChangeState
<1>4. Right(t) /\ SameWatching(s, t) /\ t.list = s.list
  BY <1>3, StateIsShown DEF SameWatching
<1>5. WindowsRight'
  BY <1>1, <1>2, <1>4, SameWindows DEF ChangeState
<1> QED
  BY <1>1, <1>2, <1>4, <1>5, NothingElse DEF ChangeState

LEMMA ProjectLoaded ==
  ASSUME DebuggersInv, LoadProject
  PROVE  DebuggersInv'
<1>1. PICK s : s = gui
  OBVIOUS
<1>2. PICK t : t = gui'
  OBVIOUS
<1>3. Right(s) /\ t = ResetContainers(s)
  BY <1>1, <1>2 DEF DebuggersInv, LoadProject
<1>4. Right(t) /\ SameWatching(s, t) /\ \A x : ~Contains(t.list, x)
  BY <1>3, ContainersReset
<1>5. simgrs' = 0 /\ madeIn' = madeIn /\ loads' \in 0 .. MaxLoads
  BY DebuggersAssumption DEF DebuggersInv, LoadProject
<1>6. SimsListed(t.list, 0)
  BY <1>4 DEF SimsListed
<1>7. WindowsRight'
  BY <1>1, <1>2, <1>4, SameWindows DEF LoadProject
<1> QED
  BY <1>2, <1>4, <1>5, <1>6, <1>7 DEF DebuggersInv

LEMMA NextDebuggers == DebuggersInv /\ [DebuggersNext]_debuggerVars => DebuggersInv'
<1> SUFFICES ASSUME DebuggersInv, [DebuggersNext]_debuggerVars PROVE DebuggersInv'
  OBVIOUS
<1>1. ASSUME NEW v \in Views, OpenView(v) PROVE DebuggersInv'
  BY <1>1, OpenedView
<1>2. ASSUME NEW v \in Views, CloseView(v) PROVE DebuggersInv'
  BY <1>2, ClosedView
<1>3. CASE ShowToolbar
  BY <1>3, ToolbarShown
<1>4. CASE HideToolbar
  BY <1>4, Closed, DebuggersAssumption DEF HideToolbar, Watchers
<1>5. ASSUME NEW d \in Debuggers, CreateTraceDebugger(d) PROVE DebuggersInv'
  BY <1>5, TraceCreated
<1>6. ASSUME NEW d \in Debuggers, ChangeState(d) PROVE DebuggersInv'
  BY <1>6, StateMoved
<1>7. CASE CreateSimulationManager
  BY <1>7, ManagerCreated
<1>8. ASSUME NEW i \in 0 .. Len(gui.list), SelectByIndex(i) PROVE DebuggersInv'
  BY <1>8, Chosen
<1>9. CASE Stop
  BY <1>9, Stopped
<1>10. CASE LoadProject
  BY <1>10, ProjectLoaded
<1>11. CASE UNCHANGED debuggerVars
  BY <1>11 DEF debuggerVars, DebuggersInv, WindowsRight
<1>12. ASSUME NEW v \in Explorers, ClickItem(v) \/ ClickItemFails(v) PROVE DebuggersInv'
  BY <1>12, ItemClicked, ItemClickFailed
<1> QED
  BY <1>1, <1>2, <1>3, <1>4, <1>5, <1>6, <1>7, <1>8, <1>9, <1>10, <1>11, <1>12 DEF DebuggersNext

\* The inductive invariant holds of the debuggers and everything that watches them.
THEOREM DebuggersAlwaysRight == DebuggersSpec => []DebuggersInv
  BY InitDebuggers, NextDebuggers, PTL DEF DebuggersSpec

\* How often an element occurs in a sequence without repetitions.
LEMMA OccursOnce ==
  ASSUME NEW q, Distinct(q), NEW n \in Nat, n = Len(q), NEW e, NEW I, I = {i \in 1 .. n : q[i] = e}
  PROVE  Cardinality(I) = IF Contains(q, e) THEN 1 ELSE 0
<1>1. CASE Contains(q, e)
  <2>1. PICK k \in 1 .. n : q[k] = e
    BY <1>1 DEF Contains
  <2>2. I = {k}
    BY <2>1 DEF Distinct
  <2> QED
    BY <1>1, <2>2, FS_Singleton
<1>2. CASE ~Contains(q, e)
  <2>1. I = {}
    BY <1>2 DEF Contains
  <2> QED
    BY <1>2, <2>1, FS_EmptySet
<1> QED
  BY <1>1, <1>2

LEMMA FollowFromInv == DebuggersInv => WatchersFollow
<1> SUFFICES ASSUME DebuggersInv, NEW w \in Watchers, NEW d \in Debuggers
    PROVE  Cardinality({i \in DOMAIN gui.onState[d] : gui.onState[d][i] = w}) =
             IF w \in open \cup left /\ d = gui.current THEN 1 ELSE 0
  BY DEF WatchersFollow
<1>1. gui \in GuiStates /\ Subscribed(gui) /\ ClosedForget(gui) /\ Following(gui, OpenIn(gui))
  BY DEF DebuggersInv, Right
<1>2. PICK q \in Seq(Watchers) : q = gui.onState[d]
  BY <1>1 DEF GuiStates
<1>3. PICK n \in Nat : n = Len(q) /\ DOMAIN q = 1 .. n
  BY LenProperties
<1>4. PICK I : I = {i \in 1 .. n : q[i] = w}
  OBVIOUS
<1>5. Cardinality(I) = IF Contains(q, w) THEN 1 ELSE 0
  <2>1. Distinct(q)
    BY <1>1, <1>2 DEF Subscribed
  <2> QED
    BY <1>3, <1>4, <2>1, OccursOnce
<1>6. Contains(q, w) <=> w \in open \cup left /\ d = gui.current
  <2>1. Contains(q, w) <=> gui.last[w] = d
    BY <1>1, <1>2 DEF Subscribed
  <2>2. w \in open \cup left <=> w \in OpenIn(gui)
    BY DEF DebuggersInv, WindowsRight
  <2>3. w \in OpenIn(gui) => gui.last[w] = gui.current
    BY <1>1 DEF Following
  <2>4. gui.last[w] # None => w \in OpenIn(gui)
    BY <1>1 DEF ClosedForget
  <2>5. d # None
    BY DebuggersAssumption
  <2> QED
    BY <2>1, <2>2, <2>3, <2>4, <2>5
<1> QED
  BY <1>2, <1>3, <1>4, <1>5, <1>6

\* Whatever is opened, closed, selected or removed, what is open is subscribed
\* once to the current debugger, and to no other, and what was closed to none,
\* but for the tables of Registers and Stack (WatchersFollow).
THEOREM WatchersAlwaysFollow == DebuggersSpec => []WatchersFollow
  BY DebuggersAlwaysRight, FollowFromInv, PTL

LEMMA CurrentFromInv == DebuggersInv => ShowsCurrent
<1> SUFFICES ASSUME DebuggersInv PROVE ShowsCurrent
  OBVIOUS
<1>1. open \subseteq OpenIn(gui) /\ gui.inhibit \subseteq failed
  BY DEF DebuggersInv, WindowsRight
<1> QED
  BY <1>1 DEF DebuggersInv, Right, ShowsCurrent, Showing, ShowsIt, Selected, Listed

\* What is open shows the current debugger in its current state, but for a Call
\* Explorer after its own clicks or one of which a click raised; the toolbar has
\* its row selected, and no listener ever looked it up in vain (ShowsCurrent).
THEOREM AlwaysShowsCurrent == DebuggersSpec => []ShowsCurrent
  BY DebuggersAlwaysRight, CurrentFromInv, PTL

LEMMA ListFromInv == DebuggersInv => ListFitsProject
<1> SUFFICES ASSUME DebuggersInv PROVE ListFitsProject
  OBVIOUS
<1>1. PICK q \in Seq(Debuggers) : q = gui.list
  BY DEF DebuggersInv, Right, GuiStates
<1>2. PICK n \in Nat : n = Len(q) /\ DOMAIN q = 1 .. n
  BY LenProperties
<1>3. \A i \in 1 .. n : q[i] \in Debuggers /\ Contains(q, q[i])
  BY <1>1, <1>2, ElementOfSeq DEF Contains
<1>4. PICK I : I = {i \in 1 .. n : q[i] \in Sims}
  OBVIOUS
<1>5. Distinct(q) /\ SimsListed(q, simgrs)
  BY <1>1 DEF DebuggersInv, Right
<1>6. Cardinality(I) = IF simgrs > 0 THEN 1 ELSE 0
  <2>1. CASE simgrs > 0
    <3>1. PICK d \in Sims : Contains(q, d)
      BY <1>5, <2>1 DEF SimsListed
    <3>2. I = {i \in 1 .. n : q[i] = d}
      BY <1>3, <1>4, <1>5, <3>1 DEF SimsListed
    <3> QED
      BY <1>2, <1>5, <2>1, <3>1, <3>2, OccursOnce
  <2>2. CASE ~(simgrs > 0)
    <3>1. I = {}
      BY <1>3, <1>4, <1>5, <2>2 DEF SimsListed
    <3> QED
      BY <2>2, <3>1, FS_EmptySet
  <2> QED
    BY <2>1, <2>2
<1>7. \A i \in 1 .. n : madeIn[q[i]] = loads
  BY <1>1, <1>3 DEF DebuggersInv
<1> QED
  BY <1>1, <1>2, <1>4, <1>6, <1>7 DEF ListFitsProject

\* There is one debugger for all simulation managers and none without them, and
\* no debugger outlives the project it was made for (ListFitsProject).
THEOREM ListAlwaysFits == DebuggersSpec => []ListFitsProject
  BY DebuggersAlwaysRight, ListFromInv, PTL

-----------------------------------------------------------------------------
(***************************************************************************)
(* Patches.                                                                *)
(***************************************************************************)
\* Patches are not empty and do not overlap.
Good(ps, X) ==
  /\ DOMAIN ps \subseteq Nat /\ IsFiniteSet(DOMAIN ps) /\ ps \in [DOMAIN ps -> Seq(X)]
  /\ \A p \in DOMAIN ps : Len(ps[p]) >= 1
  /\ \A p, q \in DOMAIN ps : p < q => PatchEnd(ps, p) <= q

\* A patch of ps has byte v at x.
Covers(ps, p, x) == p <= x /\ x < PatchEnd(ps, p)
Says(ps, x, v) == \E p \in DOMAIN ps : Covers(ps, p, x) /\ v = ps[p][x - p + 1]
SayTheSame(ps, t, x) == \A v : Says(t, x, v) <=> Says(ps, x, v)

LEMMA EndOf ==
  ASSUME NEW X, NEW ps, Good(ps, X), NEW p \in DOMAIN ps
  PROVE  /\ ps[p] \in Seq(X) /\ p \in Nat /\ Len(ps[p]) \in Nat /\ Len(ps[p]) >= 1
         /\ PatchEnd(ps, p) = p + Len(ps[p]) /\ PatchEnd(ps, p) \in Nat /\ p < PatchEnd(ps, p)
<1>1. ps[p] \in Seq(X) /\ p \in Nat
  BY DEF Good
<1>2. Len(ps[p]) \in Nat /\ Len(ps[p]) >= 1
  BY <1>1, LenProperties DEF Good
<1> QED
  BY <1>1, <1>2 DEF PatchEnd

\* One patch at most covers an address.
LEMMA OneCovers ==
  ASSUME NEW X, NEW ps, Good(ps, X), NEW p \in DOMAIN ps, NEW q \in DOMAIN ps, NEW x \in Nat,
         Covers(ps, p, x), Covers(ps, q, x)
  PROVE  p = q
<1>1. p \in Nat /\ q \in Nat /\ PatchEnd(ps, p) \in Nat /\ PatchEnd(ps, q) \in Nat
  BY EndOf
<1>2. (p < q => PatchEnd(ps, p) <= q) /\ (q < p => PatchEnd(ps, q) <= p)
  BY DEF Good
<1> QED
  BY <1>1, <1>2 DEF Covers

\* What is read is what a patch says, or else what is in memory.
Bare(x) == IF x \in DOMAIN Memory THEN Memory[x] ELSE Unreadable
LEMMA ReadIs ==
  ASSUME NEW X, NEW ps, Good(ps, X), NEW x \in Nat
  PROVE  /\ \A v : Says(ps, x, v) => Read(ps, x) = v
         /\ (\A v : ~Says(ps, x, v)) => Read(ps, x) = Bare(x)
<1>1. PICK hit : hit = {p \in DOMAIN ps : Covers(ps, p, x)}
  OBVIOUS
<1>2. hit = GetAllPatches(ps, x, x)
  BY <1>1 DEF GetAllPatches, Covers
<1>3. Read(ps, x) = IF hit # {} THEN ps[Min(hit)][x - Min(hit) + 1] ELSE Bare(x)
  BY <1>2 DEF Read, Bare
<1>4. ASSUME NEW v, Says(ps, x, v) PROVE Read(ps, x) = v
  <2>1. PICK p \in DOMAIN ps : Covers(ps, p, x) /\ v = ps[p][x - p + 1]
    BY <1>4 DEF Says
  <2>2. hit = {p}
    BY <1>1, <2>1, OneCovers
  <2>3. Min(hit) = p
    <3>1. {p} \subseteq Nat
      BY EndOf
    <3>2. Min({p}) \in {p}
      BY <3>1, LeastPos
    <3> QED
      BY <2>2, <3>2
  <2> QED
    BY <1>3, <2>1, <2>2, <2>3
<1>5. ASSUME \A v : ~Says(ps, x, v) PROVE Read(ps, x) = Bare(x)
  <2>1. hit = {}
    BY <1>1, <1>5 DEF Says
  <2> QED
    BY <1>3, <2>1
<1> QED
  BY <1>4, <1>5

LEMMA SameRead ==
  ASSUME NEW X, NEW ps, Good(ps, X), NEW t, Good(t, X), NEW x \in Nat, SayTheSame(ps, t, x)
  PROVE  Read(t, x) = Read(ps, x)
<1>1. CASE \A v : ~Says(ps, x, v)
  <2>1. \A v : ~Says(t, x, v)
    BY <1>1 DEF SayTheSame
  <2>2. Read(t, x) = Bare(x)
    BY <2>1, ReadIs
  <2>3. Read(ps, x) = Bare(x)
    BY <1>1, ReadIs
  <2> QED
    BY <2>2, <2>3
<1>2. ASSUME NEW v, Says(ps, x, v) PROVE Read(t, x) = Read(ps, x)
  <2>1. Says(t, x, v)
    BY <1>2 DEF SayTheSame
  <2>2. Read(t, x) = v
    BY <2>1, ReadIs
  <2>3. Read(ps, x) = v
    BY <1>2, ReadIs
  <2> QED
    BY <2>2, <2>3
<1> QED
  BY <1>1, <1>2

-----------------------------------------------------------------------------
\* t is ps without patch p.
Taken(ps, t, p) ==
  \A x \in Nat : \A v : Says(t, x, v) <=> Says(ps, x, v) /\ ~Covers(ps, p, x)
\* t is ps with the bytes b at p, where ps had none.
Filled(ps, t, p, b) ==
  \A x \in Nat : \A v : Says(t, x, v) <=> IF p <= x /\ x < p + Len(b) THEN v = b[x - p + 1]
                                          ELSE Says(ps, x, v)
\* The patches other than p are in t as in ps.
SameBut(ps, t, p) ==
  \A q : q # p => /\ q \in DOMAIN t <=> q \in DOMAIN ps
                  /\ q \in DOMAIN ps => t[q] = ps[q] /\ PatchEnd(t, q) = PatchEnd(ps, q)
\* No patch of ps but p meets the addresses from first to before end.
ClearBut(ps, p, first, end) ==
  \A q \in DOMAIN ps : q # p => end <= q \/ PatchEnd(ps, q) <= first

LEMMA PatchTaken ==
  ASSUME NEW X, NEW ps, Good(ps, X), NEW p \in DOMAIN ps, NEW t, t = RemovePatch(ps, p)
  PROVE  Good(t, X) /\ Taken(ps, t, p) /\ SameBut(ps, t, p) /\ p \notin DOMAIN t
<1>1. DOMAIN t = DOMAIN ps \ {p} /\ \A q \in DOMAIN t : t[q] = ps[q]
  BY DEF RemovePatch, Restrict
<1>2. \A q \in DOMAIN t : PatchEnd(t, q) = PatchEnd(ps, q)
  BY <1>1 DEF PatchEnd
<1>3. Good(t, X)
  <2>1. IsFiniteSet(DOMAIN t) /\ DOMAIN t \subseteq Nat
    BY <1>1, FS_Subset DEF Good
  <2>2. t \in [DOMAIN t -> Seq(X)]
    <3>1. t = [q \in DOMAIN ps \ {p} |-> ps[q]]
      BY DEF RemovePatch, Restrict
    <3>2. \A q \in DOMAIN ps \ {p} : ps[q] \in Seq(X)
      BY EndOf
    <3> QED
      BY <1>1, <3>1, <3>2
  <2>3. \A q \in DOMAIN t : Len(t[q]) >= 1
    BY <1>1 DEF Good
  <2>4. \A q, r \in DOMAIN t : q < r => PatchEnd(t, q) <= r
    BY <1>1, <1>2 DEF Good
  <2> QED
    BY <2>1, <2>2, <2>3, <2>4 DEF Good
<1>4. ASSUME NEW x \in Nat, NEW v PROVE Says(t, x, v) <=> Says(ps, x, v) /\ ~Covers(ps, p, x)
  <2>1. ASSUME Says(t, x, v) PROVE Says(ps, x, v) /\ ~Covers(ps, p, x)
    <3>1. PICK q \in DOMAIN t : Covers(t, q, x) /\ v = t[q][x - q + 1]
      BY <2>1 DEF Says
    <3>2. q \in DOMAIN ps /\ q # p /\ Covers(ps, q, x) /\ v = ps[q][x - q + 1]
      BY <1>1, <1>2, <3>1 DEF Covers
    <3>3. ~Covers(ps, p, x)
      BY <3>2, OneCovers
    <3> QED
      BY <3>2, <3>3 DEF Says
  <2>2. ASSUME Says(ps, x, v), ~Covers(ps, p, x) PROVE Says(t, x, v)
    <3>1. PICK q \in DOMAIN ps : Covers(ps, q, x) /\ v = ps[q][x - q + 1]
      BY <2>2 DEF Says
    <3>2. q \in DOMAIN t /\ Covers(t, q, x) /\ v = t[q][x - q + 1]
      BY <1>1, <1>2, <2>2, <3>1 DEF Covers
    <3> QED
      BY <3>2 DEF Says
  <2> QED
    BY <2>1, <2>2
<1> QED
  BY <1>1, <1>2, <1>3, <1>4 DEF Taken, SameBut

LEMMA PatchPut ==
  ASSUME NEW X, NEW ps, Good(ps, X), NEW p \in Nat, p \notin DOMAIN ps, NEW b \in Seq(X), Len(b) >= 1,
         ClearBut(ps, p, p, p + Len(b)), NEW t, t = AddPatch(ps, p, b)
  PROVE  /\ Good(t, X) /\ Filled(ps, t, p, b) /\ SameBut(ps, t, p)
         /\ p \in DOMAIN t /\ t[p] = b
<1>1. PICK n \in Nat : n = Len(b) /\ n >= 1
  BY LenProperties
<1>3. DOMAIN t = DOMAIN ps \cup {p} /\ t[p] = b /\ \A q \in DOMAIN ps : t[q] = ps[q]
  BY DEF AddPatch
<1>4. PatchEnd(t, p) = p + n /\ \A q \in DOMAIN ps : PatchEnd(t, q) = PatchEnd(ps, q)
  BY <1>1, <1>3 DEF PatchEnd
<1>5. \A q \in DOMAIN ps : q \in Nat /\ PatchEnd(ps, q) \in Nat /\ q < PatchEnd(ps, q)
                           /\ (p + n <= q \/ PatchEnd(ps, q) <= p)
  BY <1>1, EndOf DEF ClearBut
<1>6. Good(t, X)
  <2>1. IsFiniteSet(DOMAIN t) /\ DOMAIN t \subseteq Nat
    BY <1>3, FS_AddElement DEF Good
  <2>2. t \in [DOMAIN t -> Seq(X)]
    <3>1. t = [q \in DOMAIN ps \cup {p} |-> IF q = p THEN b ELSE ps[q]]
      BY DEF AddPatch
    <3>2. \A q \in DOMAIN ps \cup {p} : (IF q = p THEN b ELSE ps[q]) \in Seq(X)
      BY EndOf
    <3> QED
      BY <1>3, <3>1, <3>2
  <2>3. \A q \in DOMAIN t : Len(t[q]) >= 1
    BY <1>1, <1>3 DEF Good
  <2>4. ASSUME NEW q \in DOMAIN t, NEW r \in DOMAIN t, q < r PROVE PatchEnd(t, q) <= r
    <3>1. CASE q = p
      BY <1>1, <1>3, <1>4, <1>5, <2>4, <3>1
    <3>2. CASE q # p /\ r = p
      BY <1>1, <1>3, <1>4, <1>5, <2>4, <3>2
    <3>3. CASE q # p /\ r # p
      BY <1>3, <1>4, <2>4, <3>3 DEF Good
    <3> QED
      BY <3>1, <3>2, <3>3
  <2> QED
    BY <2>1, <2>2, <2>3, <2>4 DEF Good
<1>7. ASSUME NEW x \in Nat, NEW v
      PROVE  Says(t, x, v) <=> IF p <= x /\ x < p + n THEN v = b[x - p + 1] ELSE Says(ps, x, v)
  <2>1. Covers(t, p, x) <=> p <= x /\ x < p + n
    BY <1>4 DEF Covers
  <2>2. \A q \in DOMAIN ps : Covers(t, q, x) <=> Covers(ps, q, x)
    BY <1>4 DEF Covers
  <2>3. Says(t, x, v) <=> (Covers(t, p, x) /\ v = b[x - p + 1]) \/ Says(ps, x, v)
    BY <1>3, <2>2 DEF Says
  <2>4. Says(ps, x, v) => ~(p <= x /\ x < p + n)
    <3>1. \A q \in DOMAIN ps : Covers(ps, q, x) => ~(p <= x /\ x < p + n)
      BY <1>5 DEF Covers
    <3> QED
      BY <3>1 DEF Says
  <2> QED
    BY <2>1, <2>3, <2>4
<1> QED
  BY <1>1, <1>3, <1>4, <1>6, <1>7 DEF Filled, SameBut

\* Patch p gets other bytes b.
Overwritten(ps, t, p, b) ==
  \A x \in Nat : \A v : Says(t, x, v) <=> IF p <= x /\ x < p + Len(b) THEN v = b[x - p + 1]
                                          ELSE Says(ps, x, v) /\ ~Covers(ps, p, x)
LEMMA PatchOverwritten ==
  ASSUME NEW X, NEW ps, Good(ps, X), NEW p \in DOMAIN ps, NEW b \in Seq(X), Len(b) >= 1,
         ClearBut(ps, p, p, p + Len(b)), NEW t, t = AddPatch(ps, p, b)
  PROVE  /\ Good(t, X) /\ Overwritten(ps, t, p, b) /\ SameBut(ps, t, p)
         /\ p \in DOMAIN t /\ t[p] = b
<1>1. PICK u : u = RemovePatch(ps, p)
  OBVIOUS
<1>2. Good(u, X) /\ Taken(ps, u, p) /\ SameBut(ps, u, p) /\ p \notin DOMAIN u
  BY <1>1, PatchTaken
<1>3. t = AddPatch(u, p, b)
  <2>1. t = [q \in DOMAIN ps \cup {p} |-> IF q = p THEN b ELSE ps[q]]
    BY DEF AddPatch
  <2>2. DOMAIN ps \cup {p} = DOMAIN u \cup {p}
    BY <1>2 DEF SameBut
  <2>3. \A q \in DOMAIN ps \cup {p} : (IF q = p THEN b ELSE ps[q]) = IF q = p THEN b ELSE u[q]
    BY <1>2 DEF SameBut
  <2> QED
    BY <2>1, <2>2, <2>3 DEF AddPatch
<1>4. ClearBut(u, p, p, p + Len(b)) /\ p \in Nat
  BY <1>2, EndOf DEF ClearBut, SameBut
<1>5. Good(t, X) /\ Filled(u, t, p, b) /\ SameBut(u, t, p) /\ p \in DOMAIN t /\ t[p] = b
  BY <1>2, <1>3, <1>4, PatchPut
<1>6. Overwritten(ps, t, p, b)
  BY <1>2, <1>5 DEF Overwritten, Filled, Taken
<1>7. SameBut(ps, t, p)
  BY <1>2, <1>5 DEF SameBut
<1> QED
  BY <1>5, <1>6, <1>7


-----------------------------------------------------------------------------
\* q lists the numbers of S in their order.
IsAscending(q, S) ==
  /\ Cardinality(S) \in Nat /\ q \in [1 .. Cardinality(S) -> S]
  /\ \A i, j \in DOMAIN q : i < j => q[i] < q[j]
Lists(q, S) == \A x \in S : \E i \in 1 .. Cardinality(S) : q[i] = x

LEMMA AscendingExists ==
  ASSUME NEW S, S \subseteq Nat, IsFiniteSet(S)
  PROVE  \E q : IsAscending(q, S)
<1>1. SUFFICES ASSUME ~\E q : IsAscending(q, S) PROVE FALSE
  OBVIOUS
<1>2. PICK B : B = {k \in Nat : \E T \in SUBSET S : Cardinality(T) = k /\ ~\E q : IsAscending(q, T)}
  OBVIOUS
<1>3. B \subseteq Nat /\ B # {}
  <2>1. Cardinality(S) \in Nat
    BY FS_CardinalityType
  <2> QED
    BY <1>1, <1>2, <2>1
<1>4. PICK k : k = Min(B)
  OBVIOUS
<1>5. k \in B /\ \A j \in B : k <= j
  BY <1>3, <1>4, LeastPos
<1>6. k \in Nat
  BY <1>3, <1>5
<1>7. PICK T \in SUBSET S : Cardinality(T) = k /\ ~\E q : IsAscending(q, T)
  BY <1>2, <1>5
<1>8. IsFiniteSet(T) /\ T \subseteq Nat
  BY FS_Subset
<1>9. CASE k = 0
  <2>1. T = {}
    BY <1>7, <1>8, <1>9, FS_EmptySet
  <2>2. PICK q : q = [i \in 1 .. 0 |-> i]
    OBVIOUS
  <2>3. q \in [1 .. 0 -> T] /\ DOMAIN q = {}
    BY <2>1, <2>2
  <2>4. IsAscending(q, T)
    BY <1>7, <1>9, <2>3 DEF IsAscending
  <2> QED
    BY <1>7, <2>4
<1>10. CASE k # 0
  <2>1. T # {}
    BY <1>7, <1>10, FS_EmptySet
  <2>2. PICK m : m = Min(T)
    OBVIOUS
  <2>3. m \in T /\ \A y \in T : m <= y
    BY <1>8, <2>1, <2>2, LeastPos
  <2>4. PICK U : U = T \ {m}
    OBVIOUS
  <2>5. Cardinality(U) = k - 1
    BY <1>7, <1>8, <2>3, <2>4, FS_RemoveElement
  <2>6. U \in SUBSET S /\ k - 1 \in Nat /\ ~(k <= k - 1)
    <3>1. U \in SUBSET S
      BY <1>7, <2>4
    <3> QED
      BY <1>6, <1>10, <3>1
  <2>7. PICK r : IsAscending(r, U)
    BY <1>2, <1>5, <2>5, <2>6
  <2>8. DOMAIN r = 1 .. k - 1 /\ \A i \in 1 .. k - 1 : r[i] \in T /\ r[i] \in Nat /\ m < r[i]
    <3>1. r \in [1 .. k - 1 -> U]
      BY <2>5, <2>7 DEF IsAscending
    <3>2. \A i \in 1 .. k - 1 : r[i] \in U
      BY <3>1
    <3>3. \A x \in U : x \in T /\ x \in Nat /\ m < x
      BY <1>8, <2>3, <2>4
    <3> QED
      BY <3>1, <3>2, <3>3
  <2>9. PICK q : q = [i \in 1 .. k |-> IF i = 1 THEN m ELSE r[i - 1]]
    OBVIOUS
  <2>10. q \in [1 .. k -> T]
    <3>1. \A i \in 1 .. k : i # 1 => i - 1 \in 1 .. k - 1
      BY <1>6
    <3>2. \A i \in 1 .. k : (IF i = 1 THEN m ELSE r[i - 1]) \in T
      BY <2>3, <2>8, <3>1
    <3> QED
      BY <2>9, <3>2
  <2>11. ASSUME NEW i \in 1 .. k, NEW j \in 1 .. k, i < j PROVE q[i] < q[j]
    <3>1. j # 1 /\ j - 1 \in 1 .. k - 1 /\ q[j] = r[j - 1]
      BY <1>6, <2>9, <2>11
    <3>2. CASE i = 1
      BY <2>8, <2>9, <3>1, <3>2
    <3>3. CASE i # 1
      <4>1. i - 1 \in 1 .. k - 1 /\ q[i] = r[i - 1] /\ i - 1 < j - 1
        BY <1>6, <2>9, <2>11, <3>3
      <4> QED
        BY <2>7, <2>8, <3>1, <4>1 DEF IsAscending
    <3> QED
      BY <3>2, <3>3
  <2>12. IsAscending(q, T)
    BY <1>6, <1>7, <2>10, <2>11 DEF IsAscending
  <2> QED
    BY <1>7, <2>12
<1> QED
  BY <1>9, <1>10

LEMMA AscendingIs ==
  ASSUME NEW S, S \subseteq Nat, IsFiniteSet(S)
  PROVE  IsAscending(Ascending(S), S) /\ Lists(Ascending(S), S)
<1>1. PICK q : q = Ascending(S)
  OBVIOUS
<1>2. IsAscending(q, S)
  <2>1. \E r \in [1 .. Cardinality(S) -> S] : \A i, j \in DOMAIN r : i < j => r[i] < r[j]
    BY AscendingExists DEF IsAscending
  <2>2. Cardinality(S) \in Nat
    BY FS_CardinalityType
  <2> QED
    BY <1>1, <2>1, <2>2 DEF Ascending, IsAscending
<1>3. PICK n \in Nat : n = Cardinality(S)
  BY FS_CardinalityType
<1>4. q \in [1 .. n -> S]
  BY <1>2, <1>3 DEF IsAscending
<1>5. \A i, j \in 1 .. n : q[i] = q[j] => i = j
  <2>1. \A i \in 1 .. n : q[i] \in Nat
    BY <1>4
  <2>2. \A i, j \in 1 .. n : i < j => q[i] < q[j]
    BY <1>2, <1>4 DEF IsAscending
  <2> QED
    BY <2>1, <2>2
<1>6. q \in Injection(1 .. n, S)
  BY <1>4, <1>5 DEF Injection, IsInjective
<1>7. Cardinality(1 .. n) = n
  BY FS_Interval
<1>8. q \in Surjection(1 .. n, S)
  BY <1>3, <1>6, <1>7, FS_Injection
<1>9. Lists(q, S)
  BY <1>3, <1>8 DEF Surjection, Lists
<1> QED
  BY <1>1, <1>2, <1>9

-----------------------------------------------------------------------------
\* b is the bytes of patch p from address lo to before hi.
IsPart(ps, p, lo, hi, b) ==
  \A x \in Nat : lo <= x /\ x < hi => b[x - lo + 1] = ps[p][x - p + 1]
Part(ps, p, lo, hi) == SubSeq(ps[p], lo - p + 1, hi - p)
LEMMA PartIs ==
  ASSUME NEW X, NEW ps, Good(ps, X), NEW p \in DOMAIN ps, NEW lo \in Nat, NEW hi \in Nat,
         p <= lo, lo < hi, hi <= PatchEnd(ps, p), NEW b, b = Part(ps, p, lo, hi)
  PROVE  b \in Seq(X) /\ Len(b) = hi - lo /\ Len(b) >= 1 /\ IsPart(ps, p, lo, hi, b)
<1>1. /\ ps[p] \in Seq(X) /\ p \in Nat /\ Len(ps[p]) \in Nat /\ PatchEnd(ps, p) = p + Len(ps[p])
  BY EndOf
<1>0. PICK i \in Int, j \in Int : i = lo - p + 1 /\ j = hi - p
  BY <1>1
<1>2. i >= 1 /\ j <= Len(ps[p]) /\ i <= j /\ j - i + 1 = hi - lo
  BY <1>0, <1>1
<1>3. \A k \in i .. j : ps[p][k] \in X
  <2>1. \A k \in i .. j : k \in 1 .. Len(ps[p])
    BY <1>1, <1>2
  <2> QED
    BY <1>1, <2>1, ElementOfSeq
<1>4. b \in Seq(X) /\ Len(b) = j - i + 1 /\ \A k \in 1 .. j - i + 1 : b[k] = ps[p][i + k - 1]
  <2>1. b = SubSeq(ps[p], i, j)
    BY <1>0 DEF Part
  <2> QED
    BY <1>2, <1>3, <2>1, SubSeqProperties
<1>5. ASSUME NEW x \in Nat, lo <= x, x < hi PROVE b[x - lo + 1] = ps[p][x - p + 1]
  <2>1. PICK k \in Int : k = x - lo + 1
    OBVIOUS
  <2>2. 1 <= k /\ k <= hi - lo
    BY <1>5, <2>1
  <2>3. i + k - 1 = x - p + 1
    BY <1>0, <1>1, <2>1
  <2>4. k \in 1 .. j - i + 1
    BY <1>2, <2>2
  <2> QED
    BY <1>4, <2>1, <2>3, <2>4
<1> QED
  BY <1>2, <1>4, <1>5 DEF IsPart

\* What a patch says where it is.
LEMMA SaysThere ==
  ASSUME NEW X, NEW ps, Good(ps, X), NEW p \in DOMAIN ps, NEW x \in Nat, Covers(ps, p, x)
  PROVE  \A v : Says(ps, x, v) <=> v = ps[p][x - p + 1]
BY OneCovers DEF Says

\* Patches other than p do not meet what p covers.
LEMMA ClearThere ==
  ASSUME NEW X, NEW ps, Good(ps, X), NEW p \in DOMAIN ps, NEW lo \in Nat, NEW hi \in Nat,
         p <= lo, hi <= PatchEnd(ps, p)
  PROVE  ClearBut(ps, p, lo, hi)
<1>1. \A q \in DOMAIN ps : q # p => q \in Nat /\ PatchEnd(ps, q) \in Nat
                                    /\ (q < p => PatchEnd(ps, q) <= p)
                                    /\ (p < q => PatchEnd(ps, p) <= q)
  BY EndOf DEF Good
<1>2. p \in Nat /\ PatchEnd(ps, p) \in Nat
  BY EndOf
<1> QED
  BY <1>1, <1>2 DEF ClearBut

\* What MakeRoom does to a patch that does not hold the range from a to before e.
RoomAt(t, p, a, e) ==
  IF p < a THEN AddPatch(t, p, SubSeq(t[p], 1, a - p))
  ELSE IF PatchEnd(t, p) > e
       THEN AddPatch(RemovePatch(t, p), e, SubSeq(t[p], e - p + 1, PatchEnd(t, p) - p))
       ELSE RemovePatch(t, p)
LEMMA RoomIs ==
  ASSUME NEW X, NEW t, Good(t, X), NEW p \in DOMAIN t, NEW a \in Nat, NEW new \in Seq(X),
         NEW e \in Nat, e = a + Len(new), ~(p <= a /\ PatchEnd(t, p) >= e)
  PROVE  MakeRoom(t, p, a, new) = RoomAt(t, p, a, e)
<1>1. PICK n \in Nat : n = Len(new)
  BY LenProperties
<1>2. PICK L \in Nat : L = Len(t[p])
  BY EndOf
<1>3. PICK E \in Nat : E = PatchEnd(t, p)
  BY EndOf
<1>4. E = p + L /\ p \in Nat
  BY <1>2, <1>3, EndOf
<1>5. PICK last \in Int : last = a + n - 1
  OBVIOUS
<1>6. PICK c \in Int : c = last - p + 2
  BY <1>4
<1>7. PICK k \in Int : k = last + 1
  BY <1>5
<1>8. PICK r \in Int : r = E - 1
  OBVIOUS
<1>9. MakeRoom(t, p, a, new) =
        IF p <= a /\ r >= last THEN AddPatch(t, p, SubSeq(t[p], 1, a - p) \o new \o SubSeq(t[p], c, L))
        ELSE IF p >= a /\ r <= last THEN RemovePatch(t, p)
        ELSE IF p >= a THEN AddPatch(RemovePatch(t, p), k, SubSeq(t[p], c, L))
        ELSE AddPatch(t, p, SubSeq(t[p], 1, a - p))
  BY <1>1, <1>2, <1>3, <1>5, <1>6, <1>7, <1>8 DEF MakeRoom
<1>10. ~(p <= a /\ r >= last) /\ (p >= a <=> ~(p < a)) /\ (r <= last <=> ~(E > e))
       /\ k = e /\ c = e - p + 1 /\ L = E - p
  <2>1. e = a + n /\ last = e - 1
    BY <1>1, <1>5
  <2>2. p >= a <=> ~(p < a)
    BY <1>4
  <2>3. ~(p <= a /\ r >= last) /\ (r <= last <=> ~(E > e))
    BY <1>3, <1>5, <1>8, <2>1
  <2>4. k = e
    BY <1>7, <2>1
  <2>5. c = e - p + 1
    BY <1>4, <1>6, <2>1
  <2>6. L = E - p
    BY <1>2, <1>3, <1>4
  <2> QED
    BY <2>2, <2>3, <2>4, <2>5, <2>6
<1>11. RoomAt(t, p, a, e) = IF p < a THEN AddPatch(t, p, SubSeq(t[p], 1, a - p))
                            ELSE IF E > e THEN AddPatch(RemovePatch(t, p), e, SubSeq(t[p], c, L))
                            ELSE RemovePatch(t, p)
  BY <1>3, <1>10 DEF RoomAt
<1> QED
  BY <1>9, <1>10, <1>11

-----------------------------------------------------------------------------
\* Patches of u other than p and e are as in t; outside of the range, u says what t says.
KeptBut(t, u, p, e) ==
  \A q : q # p /\ q # e => /\ q \in DOMAIN u <=> q \in DOMAIN t
                           /\ q \in DOMAIN t => u[q] = t[q] /\ PatchEnd(u, q) = PatchEnd(t, q)
SameOutside(t, u, a, e) == \A x \in Nat : ~(a <= x /\ x < e) => SayTheSame(t, u, x)

\* t is ps after room was made from a to before e, but for the patches still to cut.
Hits(t, p, a, e) == p < e /\ a < PatchEnd(t, p)
CutSoFar(ps, t, X, a, e, uncut) ==
  /\ Good(t, X)
  /\ SameOutside(ps, t, a, e)
  /\ \A p \in uncut : p \in DOMAIN t /\ t[p] = ps[p] /\ Hits(t, p, a, e)
  /\ \A p \in DOMAIN t : Hits(t, p, a, e) => p \in uncut

LEMMA CutBelow ==
  ASSUME NEW X, NEW t, Good(t, X), NEW p \in DOMAIN t, NEW a \in Nat, NEW e \in Nat, a <= e,
         p < a, a < PatchEnd(t, p), PatchEnd(t, p) <= e, NEW u, u = RoomAt(t, p, a, e)
  PROVE  /\ Good(u, X) /\ SameBut(t, u, p) /\ p \in DOMAIN u /\ ~Hits(u, p, a, e)
         /\ SameOutside(t, u, a, e)
<1>1. p \in Nat /\ PatchEnd(t, p) \in Nat
  BY EndOf
<1>2. PICK b : b = SubSeq(t[p], 1, a - p)
  OBVIOUS
<1>3. b \in Seq(X) /\ Len(b) = a - p /\ Len(b) >= 1 /\ IsPart(t, p, p, a, b)
  <2>1. p - p + 1 = 1 /\ p <= p /\ a <= PatchEnd(t, p)
    BY <1>1
  <2>2. b = Part(t, p, p, a)
    BY <1>2, <2>1 DEF Part
  <2> QED
    BY <1>1, <2>1, <2>2, PartIs
<1>4. p + Len(b) = a
  BY <1>1, <1>3
<1>5. ClearBut(t, p, p, p + Len(b))
  <2>1. p <= p /\ a <= PatchEnd(t, p)
    BY <1>1
  <2> QED
    BY <1>1, <1>4, <2>1, ClearThere
<1>6. u = AddPatch(t, p, b)
  BY <1>2 DEF RoomAt
<1>7. Good(u, X) /\ Overwritten(t, u, p, b) /\ SameBut(t, u, p) /\ p \in DOMAIN u /\ u[p] = b
  BY <1>3, <1>5, <1>6, PatchOverwritten
<1>8. PatchEnd(u, p) = a
  BY <1>4, <1>7 DEF PatchEnd
<1>9. ~Hits(u, p, a, e)
  BY <1>8 DEF Hits
<1>10. ASSUME NEW x \in Nat, ~(a <= x /\ x < e), NEW v PROVE Says(u, x, v) <=> Says(t, x, v)
  <2>1. Says(u, x, v) <=> IF p <= x /\ x < a THEN v = b[x - p + 1] ELSE Says(t, x, v) /\ ~Covers(t, p, x)
    BY <1>4, <1>7 DEF Overwritten
  <2>2. CASE p <= x /\ x < a
    <3>1. Covers(t, p, x)
      BY <1>1, <2>2 DEF Covers
    <3> QED
      BY <1>3, <2>1, <2>2, <3>1, SaysThere DEF IsPart
  <2>3. CASE ~(p <= x /\ x < a)
    <3>1. ~Covers(t, p, x)
      BY <1>1, <1>10, <2>3 DEF Covers
    <3> QED
      BY <2>1, <2>3, <3>1
  <2> QED
    BY <2>2, <2>3
<1> QED
  BY <1>7, <1>9, <1>10 DEF SameOutside, SayTheSame

LEMMA CutAbove ==
  ASSUME NEW X, NEW t, Good(t, X), NEW p \in DOMAIN t, NEW a \in Nat, NEW e \in Nat, a <= e,
         a <= p, p < e, e < PatchEnd(t, p), NEW u, u = RoomAt(t, p, a, e)
  PROVE  /\ Good(u, X) /\ KeptBut(t, u, p, e) /\ p \notin DOMAIN u
         /\ SameOutside(t, u, a, e)
<1>1. p \in Nat /\ PatchEnd(t, p) \in Nat
  BY EndOf
<1>2. PICK b : b = SubSeq(t[p], e - p + 1, PatchEnd(t, p) - p)
  OBVIOUS
<1>3. b \in Seq(X) /\ Len(b) = PatchEnd(t, p) - e /\ Len(b) >= 1 /\ IsPart(t, p, e, PatchEnd(t, p), b)
  <2>1. PICK hi \in Nat : hi = PatchEnd(t, p)
    BY <1>1
  <2>2. p <= e /\ hi <= PatchEnd(t, p) /\ e < hi
    BY <1>1, <2>1
  <2>3. b = Part(t, p, e, hi)
    BY <1>2, <2>1 DEF Part
  <2>4. b \in Seq(X) /\ Len(b) = hi - e /\ Len(b) >= 1 /\ IsPart(t, p, e, hi, b)
    BY <2>2, <2>3, PartIs
  <2> QED
    BY <2>1, <2>4
<1>4. e + Len(b) = PatchEnd(t, p)
  BY <1>1, <1>3
<1>5. PICK w : w = RemovePatch(t, p)
  OBVIOUS
<1>6. Good(w, X) /\ Taken(t, w, p) /\ SameBut(t, w, p) /\ p \notin DOMAIN w
  BY <1>5, PatchTaken
<1>7. ~(p < a) /\ u = AddPatch(w, e, b)
  BY <1>1, <1>2, <1>5 DEF RoomAt
<1>8. e \notin DOMAIN w
  <2>1. SUFFICES ASSUME e \in DOMAIN w PROVE FALSE
    OBVIOUS
  <2>2. e \in DOMAIN t /\ e # p
    BY <1>1, <1>6, <2>1 DEF SameBut
  <2>3. PatchEnd(t, p) <= e
    BY <2>2 DEF Good
  <2> QED
    BY <1>1, <2>3
<1>9. ClearBut(w, e, e, e + Len(b))
  <2>1. ClearBut(t, p, e, PatchEnd(t, p))
    <3>1. p <= e /\ PatchEnd(t, p) <= PatchEnd(t, p)
      BY <1>1
    <3> QED
      BY <1>1, <3>1, ClearThere
  <2> QED
    BY <1>4, <1>6, <2>1 DEF ClearBut, SameBut
<1>10. Good(u, X) /\ Filled(w, u, e, b) /\ SameBut(w, u, e)
  BY <1>3, <1>6, <1>7, <1>8, <1>9, PatchPut
<1>11. ASSUME NEW x \in Nat, ~(a <= x /\ x < e), NEW v PROVE Says(u, x, v) <=> Says(t, x, v)
  <2>1. Says(u, x, v) <=> IF e <= x /\ x < PatchEnd(t, p) THEN v = b[x - e + 1]
                          ELSE Says(t, x, v) /\ ~Covers(t, p, x)
    BY <1>4, <1>6, <1>10 DEF Filled, Taken
  <2>2. CASE e <= x /\ x < PatchEnd(t, p)
    <3>1. Covers(t, p, x)
      BY <1>1, <2>2 DEF Covers
    <3> QED
      BY <1>3, <2>1, <2>2, <3>1, SaysThere DEF IsPart
  <2>3. CASE ~(e <= x /\ x < PatchEnd(t, p))
    <3>1. ~Covers(t, p, x)
      BY <1>1, <1>11, <2>3 DEF Covers
    <3> QED
      BY <2>1, <2>3, <3>1
  <2> QED
    BY <2>2, <2>3
<1>12. p # e
  BY <1>1
<1>13. p \notin DOMAIN u
  BY <1>6, <1>10, <1>12 DEF SameBut
<1>14. KeptBut(t, u, p, e)
  BY <1>6, <1>10 DEF SameBut, KeptBut
<1> QED
  BY <1>10, <1>11, <1>13, <1>14 DEF SameOutside, SayTheSame

LEMMA CutOne ==
  ASSUME NEW X, NEW ps, NEW t, NEW a \in Nat, NEW e \in Nat, a <= e, NEW uncut, CutSoFar(ps, t, X, a, e, uncut),
         NEW p \in uncut, Hits(t, p, a, e), ~(p <= a /\ PatchEnd(t, p) >= e),
         NEW u, u = RoomAt(t, p, a, e), NEW rest, rest = uncut \ {p}
  PROVE  CutSoFar(ps, u, X, a, e, rest)
<1>1. Good(t, X) /\ p \in DOMAIN t
  BY DEF CutSoFar
<1>2. p \in Nat /\ PatchEnd(t, p) \in Nat /\ p < e /\ a < PatchEnd(t, p)
  BY <1>1, EndOf DEF Hits
<1>3. /\ Good(u, X)
      /\ KeptBut(t, u, p, e)
      /\ p \in DOMAIN u => ~Hits(u, p, a, e)
      /\ SameOutside(t, u, a, e)
  <2>1. CASE p < a
    <3>1. PatchEnd(t, p) <= e
      BY <1>2, <2>1
    <3>2. Good(u, X) /\ SameBut(t, u, p) /\ ~Hits(u, p, a, e)
      BY <1>1, <1>2, <2>1, <3>1, CutBelow
    <3>3. SameOutside(t, u, a, e)
      BY <1>1, <1>2, <2>1, <3>1, CutBelow
    <3> QED
      BY <3>2, <3>3 DEF SameBut, KeptBut
  <2>2. CASE ~(p < a) /\ PatchEnd(t, p) > e
    <3>1. a <= p
      BY <1>2, <2>2
    <3>2. e < PatchEnd(t, p)
      BY <1>2, <2>2
    <3>3. Good(u, X) /\ KeptBut(t, u, p, e) /\ p \notin DOMAIN u /\ SameOutside(t, u, a, e)
      BY <1>1, <1>2, <3>1, <3>2, CutAbove
    <3> QED
      BY <3>3
  <2>3. CASE ~(p < a) /\ ~(PatchEnd(t, p) > e)
    <3>1. u = RemovePatch(t, p)
      BY <2>3 DEF RoomAt
    <3>2. Good(u, X) /\ Taken(t, u, p) /\ SameBut(t, u, p) /\ p \notin DOMAIN u
      BY <1>1, <3>1, PatchTaken
    <3>3. ASSUME NEW x \in Nat, ~(a <= x /\ x < e) PROVE SayTheSame(t, u, x)
      <4>1. ~Covers(t, p, x)
        BY <1>2, <2>3, <3>3 DEF Covers
      <4> QED
        BY <3>2, <4>1 DEF Taken, SayTheSame
    <3> QED
      BY <3>2, <3>3 DEF SameBut, KeptBut, SameOutside
  <2> QED
    BY <2>1, <2>2, <2>3
<1>4. SameOutside(ps, u, a, e)
  BY <1>3 DEF CutSoFar, SameOutside, SayTheSame
<1>5. ASSUME NEW q \in DOMAIN u, Hits(u, q, a, e) PROVE q \in rest
  <2>1. q # p
    BY <1>3, <1>5
  <2>2. q \in Nat /\ q < e
    BY <1>3, <1>5, EndOf DEF Hits
  <2>3. q # e
    BY <2>2
  <2>4. q \in DOMAIN t /\ Hits(t, q, a, e)
    BY <1>3, <1>5, <2>1, <2>3 DEF Hits, KeptBut
  <2> QED
    BY <2>1, <2>4 DEF CutSoFar
<1>6. Good(u, X)
  BY <1>3
<1>7. ASSUME NEW q \in rest PROVE q \in DOMAIN u /\ u[q] = ps[q] /\ Hits(u, q, a, e)
  <2>1. q # p /\ q \in DOMAIN t /\ t[q] = ps[q] /\ Hits(t, q, a, e)
    BY <1>7 DEF CutSoFar
  <2>2. q \in Nat /\ q < e
    BY <1>1, <2>1, EndOf DEF Hits
  <2>3. q # e
    BY <2>2
  <2> QED
    BY <1>3, <2>1, <2>3 DEF Hits, KeptBut
<1> QED
  BY <1>4, <1>5, <1>6, <1>7 DEF CutSoFar

-----------------------------------------------------------------------------
\* The hits, and the hits still to cut when i of them are.
HitBy(ps, a, new) == GetAllPatches(ps, a, a + Len(new) - 1)
Start(ps) == [ps |-> ps, done |-> FALSE]
LEMMA RoomPasses ==
  ASSUME NEW ps, NEW a, NEW new, NEW q, q = Ascending(HitBy(ps, a, new)),
         NEW n \in Nat, DOMAIN q = 1 .. n
  PROVE  \E g : IsPassing(Cutting(ps, a, new), Start(ps), q, n, g) /\ g[n] = RoomFor(ps, a, new)
<1>0. PICK how : how = Cutting(ps, a, new)
  OBVIOUS
<1>00. PICK s : s = Start(ps)
  OBVIOUS
<1> DEFINE Def(h) == h = [S \in SUBSET (1 .. n) |->
                            IF S = {} THEN s ELSE CutStep(ps, a, new, h[S \ {Max(S)}], q[Max(S)])]
<1>1. \A t, x : Told(how, t, x) = CutStep(ps, a, new, t, x)
  BY <1>0 DEF Told, Cutting
<1>2. ASSUME NEW h PROVE IsRun(how, s, q, n, h) <=> Def(h)
  <2>1. ASSUME NEW S \in SUBSET (1 .. n)
        PROVE  (IF S = {} THEN s ELSE Told(how, h[S \ {Max(S)}], q[Max(S)]))
               = IF S = {} THEN s ELSE CutStep(ps, a, new, h[S \ {Max(S)}], q[Max(S)])
    BY <1>1
  <2> QED
    BY <2>1 DEF IsRun
<1>3. PICK h : h = CHOOSE f : Def(f)
  OBVIOUS
<1>4. \E f : Def(f)
  <2>1. \E f : IsRun(how, s, q, n, f)
    BY RunExists
  <2> QED
    BY <1>2, <2>1
<1>5. Def(h)
  BY <1>3, <1>4
<1>6. IsRun(how, s, q, n, h)
  BY <1>2, <1>5
<1>7. RoomFor(ps, a, new) = h[1 .. n]
  BY <1>00, <1>3 DEF RoomFor, FoldLeft, MapThenFoldSet, CutStep, Start, HitBy
<1> QED
  BY <1>0, <1>00, <1>6, <1>7, PassingIs

-----------------------------------------------------------------------------
LEMMA HitByIs ==
  ASSUME NEW X, NEW ps, Good(ps, X), NEW a \in Nat, NEW new \in Seq(X),
         NEW e \in Nat, e = a + Len(new), NEW hits, hits = HitBy(ps, a, new)
  PROVE  /\ hits \subseteq DOMAIN ps /\ hits \subseteq Nat /\ IsFiniteSet(hits)
         /\ \A p \in DOMAIN ps : p \in hits <=> Hits(ps, p, a, e)
<1>1. PICK n \in Nat : n = Len(new)
  BY LenProperties
<1>2. hits = {p \in DOMAIN ps : p <= a + n - 1 /\ a < PatchEnd(ps, p)}
  BY <1>1 DEF HitBy, GetAllPatches
<1>3. \A p \in DOMAIN ps : p <= a + n - 1 <=> p < e
  <2>1. \A p \in DOMAIN ps : p \in Nat
    BY EndOf
  <2> QED
    BY <1>1, <2>1
<1>4. IsFiniteSet(hits)
  BY <1>2, FS_Subset DEF Good
<1> QED
  BY <1>2, <1>3, <1>4 DEF Hits, Good

ToCut(q, i, n) == {q[j] : j \in i + 1 .. n}
RoomWith(ps, a, new, e, X, q, n, i, s) ==
  s.done = FALSE /\ CutSoFar(ps, s.ps, X, a, e, ToCut(q, i, n))
LEMMA RoomStep ==
  ASSUME NEW X, NEW ps, NEW a \in Nat, NEW new \in Seq(X), NEW e \in Nat, e = a + Len(new), a < e,
         \A p \in DOMAIN ps : Hits(ps, p, a, e) => ~(p <= a /\ PatchEnd(ps, p) >= e), Good(ps, X),
         NEW q, NEW n \in Nat, \A j \in 1 .. n : q[j] \in DOMAIN ps /\ Hits(ps, q[j], a, e),
         \A j, k \in 1 .. n : q[j] = q[k] => j = k,
         NEW i \in 1 .. n, NEW s, RoomWith(ps, a, new, e, X, q, n, i - 1, s),
         NEW u, u = CutStep(ps, a, new, s, q[i])
  PROVE  RoomWith(ps, a, new, e, X, q, n, i, u)
<1>1. PICK p : p = q[i]
  OBVIOUS
<1>2. PICK t : t = s.ps
  OBVIOUS
<1>3. PICK uncut : uncut = ToCut(q, i - 1, n)
  OBVIOUS
<1>4. PICK rest : rest = uncut \ {p}
  OBVIOUS
<1>5. rest = ToCut(q, i, n)
  <2>1. \A j \in i .. n : q[j] = p <=> j = i
    BY <1>1
  <2>2. i - 1 + 1 = i
    OBVIOUS
  <2>3. uncut = {q[j] : j \in i .. n}
    BY <1>3, <2>2 DEF ToCut
  <2>4. \A j : j \in i + 1 .. n <=> j \in i .. n /\ j # i
    OBVIOUS
  <2> QED
    BY <1>4, <2>1, <2>3, <2>4 DEF ToCut
<1>6. p \in uncut
  <2>1. i - 1 + 1 = i /\ i \in i .. n
    OBVIOUS
  <2> QED
    BY <1>1, <1>3, <2>1 DEF ToCut
<1>7. CutSoFar(ps, t, X, a, e, uncut) /\ s.done = FALSE
  BY <1>2, <1>3 DEF RoomWith
<1>8. p \in DOMAIN t /\ t[p] = ps[p] /\ Hits(t, p, a, e) /\ Good(t, X)
  BY <1>6, <1>7 DEF CutSoFar
<1>9. p \in DOMAIN ps /\ Hits(ps, p, a, e) /\ PatchEnd(t, p) = PatchEnd(ps, p)
  BY <1>1, <1>8 DEF PatchEnd
<1>10. ~(p <= a /\ PatchEnd(t, p) >= e)
  BY <1>9
<1>11. PICK w : w = RoomAt(t, p, a, e)
  OBVIOUS
<1>12. CutSoFar(ps, w, X, a, e, rest)
  <2>1. a <= e
    OBVIOUS
  <2> QED
    BY <1>4, <1>6, <1>7, <1>8, <1>10, <1>11, <2>1, CutOne
<1>13. MakeRoom(t, p, a, new) = w
  BY <1>8, <1>10, <1>11, RoomIs
<1>14. ~(p <= a /\ PatchEnd(ps, p) > a + Len(new) - 1)
  <2>1. Len(new) \in Nat /\ PatchEnd(ps, p) \in Nat
    BY <1>9, EndOf, LenProperties
  <2> QED
    BY <1>9, <1>10, <2>1
<1>15. u.ps = w /\ u.done = FALSE
  BY <1>1, <1>2, <1>7, <1>13, <1>14 DEF CutStep
<1> QED
  BY <1>5, <1>12, <1>15 DEF RoomWith

\* When no patch holds the range, room is made by every patch it meets.
LEMMA RoomMade ==
  ASSUME NEW X, NEW ps, Good(ps, X), NEW a \in Nat, NEW new \in Seq(X), NEW e \in Nat,
         e = a + Len(new), a < e,
         \A p \in DOMAIN ps : ~(p <= a /\ PatchEnd(ps, p) >= e)
  PROVE  RoomFor(ps, a, new).done = FALSE /\ CutSoFar(ps, RoomFor(ps, a, new).ps, X, a, e, {})
<1>1. PICK hits : hits = HitBy(ps, a, new)
  OBVIOUS
<1>2. /\ hits \subseteq DOMAIN ps /\ hits \subseteq Nat /\ IsFiniteSet(hits)
      /\ \A p \in DOMAIN ps : p \in hits <=> Hits(ps, p, a, e)
  BY <1>1, HitByIs
<1>3. PICK q : q = Ascending(hits)
  OBVIOUS
<1>4. PICK n : n = Cardinality(hits)
  OBVIOUS
<1>5. IsAscending(q, hits) /\ Lists(q, hits)
  BY <1>2, <1>3, AscendingIs
<1>6. n \in Nat /\ q \in [1 .. n -> hits] /\ \A i, j \in 1 .. n : i < j => q[i] < q[j]
  BY <1>4, <1>5 DEF IsAscending
<1>7. \A j \in 1 .. n : q[j] \in hits /\ q[j] \in Nat /\ q[j] \in DOMAIN ps /\ Hits(ps, q[j], a, e)
  <2>1. \A j \in 1 .. n : q[j] \in hits
    BY <1>6
  <2> QED
    BY <1>2, <2>1
<1>8. \A j, k \in 1 .. n : q[j] = q[k] => j = k
  BY <1>6, <1>7
<1>9. PICK g : IsPassing(Cutting(ps, a, new), Start(ps), q, n, g) /\ g[n] = RoomFor(ps, a, new)
  <2>1. DOMAIN q = 1 .. n
    BY <1>6
  <2> QED
    BY <1>1, <1>3, <1>6, <2>1, RoomPasses
<1>10. PICK G : G = {i \in 0 .. n : RoomWith(ps, a, new, e, X, q, n, i, g[i])}
  OBVIOUS
<1>11. 0 \in G
  <2>1. g[0].ps = ps /\ g[0].done = FALSE
    BY <1>9 DEF IsPassing, Start
  <2>2. hits = ToCut(q, 0, n)
    <3>1. \A x \in hits : \E j \in 1 .. n : q[j] = x
      BY <1>4, <1>5 DEF Lists
    <3>2. 0 + 1 = 1
      OBVIOUS
    <3>3. hits = {q[j] : j \in 1 .. n}
      BY <1>7, <3>1
    <3> QED
      BY <3>2, <3>3 DEF ToCut
  <2>3. SameOutside(ps, ps, a, e)
    BY DEF SameOutside, SayTheSame
  <2>4. CutSoFar(ps, ps, X, a, e, hits)
    BY <1>2, <2>3 DEF CutSoFar
  <2>5. RoomWith(ps, a, new, e, X, q, n, 0, g[0])
    BY <2>1, <2>2, <2>4 DEF RoomWith
  <2>6. 0 \in 0 .. n
    BY <1>6
  <2> QED
    BY <1>10, <2>5, <2>6
<1>12. ASSUME NEW i \in 1 .. n, i - 1 \in G PROVE i \in G
  <2>1. RoomWith(ps, a, new, e, X, q, n, i - 1, g[i - 1])
    BY <1>10, <1>12
  <2>2. g[i] = CutStep(ps, a, new, g[i - 1], q[i])
    BY <1>9 DEF IsPassing, Told, Cutting
  <2>3. \A p \in DOMAIN ps : Hits(ps, p, a, e) => ~(p <= a /\ PatchEnd(ps, p) >= e)
    OBVIOUS
  <2>4. RoomWith(ps, a, new, e, X, q, n, i, g[i])
    BY <1>6, <1>7, <1>8, <2>1, <2>2, <2>3, RoomStep
  <2> QED
    BY <1>6, <1>10, <2>4
<1>13. n \in G
  BY <1>6, <1>11, <1>12, PassingInduction
<1>14. RoomWith(ps, a, new, e, X, q, n, n, RoomFor(ps, a, new))
  BY <1>9, <1>10, <1>13
<1>15. ToCut(q, n, n) = {}
  BY <1>6 DEF ToCut
<1> QED
  BY <1>14, <1>15 DEF RoomWith

-----------------------------------------------------------------------------
\* A patch that holds the range is the only one to be met, and takes the bytes in.
LEMMA RoomHeld ==
  ASSUME NEW X, NEW ps, Good(ps, X), NEW a \in Nat, NEW new \in Seq(X), NEW e \in Nat,
         e = a + Len(new), a < e, NEW p \in DOMAIN ps, p <= a, PatchEnd(ps, p) >= e
  PROVE  RoomFor(ps, a, new) = [ps |-> MakeRoom(ps, p, a, new), done |-> TRUE]
<1>1. PICK hits : hits = HitBy(ps, a, new)
  OBVIOUS
<1>2. /\ hits \subseteq DOMAIN ps /\ hits \subseteq Nat /\ IsFiniteSet(hits)
      /\ \A r \in DOMAIN ps : r \in hits <=> Hits(ps, r, a, e)
  BY <1>1, HitByIs
<1>3. p \in Nat /\ PatchEnd(ps, p) \in Nat
  BY EndOf
<1>4. hits = {p}
  <2>1. p \in hits
    BY <1>2, <1>3 DEF Hits
  <2>2. ClearBut(ps, p, a, e)
    BY <1>3, ClearThere
  <2>3. ASSUME NEW r \in hits PROVE r = p
    <3>1. r \in DOMAIN ps /\ Hits(ps, r, a, e)
      BY <1>2
    <3>2. r \in Nat /\ PatchEnd(ps, r) \in Nat
      BY <3>1, EndOf
    <3> QED
      BY <2>2, <3>1, <3>2 DEF ClearBut, Hits
  <2> QED
    BY <2>1, <2>3
<1>5. PICK q : q = Ascending(hits)
  OBVIOUS
<1>6. IsAscending(q, hits)
  BY <1>2, <1>5, AscendingIs
<1>7. Cardinality(hits) = 1
  BY <1>4, FS_Singleton
<1>8. q \in [1 .. 1 -> {p}]
  BY <1>4, <1>6, <1>7 DEF IsAscending
<1>9. DOMAIN q = 1 .. 1 /\ q[1] = p
  BY <1>8
<1>10. PICK g : IsPassing(Cutting(ps, a, new), Start(ps), q, 1, g) /\ g[1] = RoomFor(ps, a, new)
  <2>1. PICK n \in Nat : n = 1
    OBVIOUS
  <2>2. DOMAIN q = 1 .. n
    BY <1>9, <2>1
  <2>3. \E g : IsPassing(Cutting(ps, a, new), Start(ps), q, n, g) /\ g[n] = RoomFor(ps, a, new)
    BY <1>1, <1>5, <2>2, RoomPasses
  <2> QED
    BY <2>1, <2>3
<1>11. g[1] = CutStep(ps, a, new, Start(ps), p)
  <2>1. 1 \in 1 .. 1 /\ 1 - 1 = 0
    OBVIOUS
  <2>2. g[1] = Told(Cutting(ps, a, new), g[0], q[1]) /\ g[0] = Start(ps)
    BY <1>10, <2>1 DEF IsPassing
  <2> QED
    BY <1>9, <2>2 DEF Told, Cutting
<1>12. p <= a /\ PatchEnd(ps, p) > a + Len(new) - 1
  <2>1. Len(new) \in Nat
    BY LenProperties
  <2> QED
    BY <1>3, <2>1
<1> QED
  BY <1>10, <1>11, <1>12 DEF CutStep, Start

\* u is ps with the bytes new from a on, and says what ps says anywhere else.
Wrote(ps, u, a, new) ==
  \A x \in Nat : \A v : Says(u, x, v) <=> IF a <= x /\ x < a + Len(new) THEN v = new[x - a + 1]
                                          ELSE Says(ps, x, v)

LEMMA HeldIs ==
  ASSUME NEW X, NEW ps, Good(ps, X), NEW a \in Nat, NEW new \in Seq(X), NEW e \in Nat,
         e = a + Len(new), a < e, NEW p \in DOMAIN ps, p <= a, PatchEnd(ps, p) >= e
  PROVE  Good(MakeRoom(ps, p, a, new), X) /\ Wrote(ps, MakeRoom(ps, p, a, new), a, new)
<1>1. /\ p \in Nat /\ Len(ps[p]) \in Nat /\ ps[p] \in Seq(X) /\ Len(ps[p]) >= 1
      /\ PatchEnd(ps, p) = p + Len(ps[p])
  BY EndOf
<1>2. PICK n \in Nat : n = Len(new)
  BY LenProperties
<1>3. PICK L \in Nat : L = Len(ps[p])
  BY <1>1
<1>4. PICK c \in Int : c = (a + n - 1) - p + 2
  BY <1>1
<1>5. PICK below : below = SubSeq(ps[p], 1, a - p)
  OBVIOUS
<1>6. PICK above : above = SubSeq(ps[p], c, L)
  OBVIOUS
<1>7. PICK b : b = below \o new \o above
  OBVIOUS
<1>8. MakeRoom(ps, p, a, new) = AddPatch(ps, p, b)
  <2>1. PICK last \in Int : last = a + n - 1
    OBVIOUS
  <2>2. PatchEnd(ps, p) - 1 >= last
    BY <1>1, <1>2, <2>1
  <2>3. c = last - p + 2
    BY <1>4, <2>1
  <2> QED
    BY <1>2, <1>3, <1>5, <1>6, <1>7, <2>1, <2>2, <2>3 DEF MakeRoom
<1>9. \A k \in 1 .. L : ps[p][k] \in X
  BY <1>1, <1>3, ElementOfSeq
<1>10. below \in Seq(X) /\ Len(below) = a - p /\ \A k \in 1 .. a - p : below[k] = ps[p][k]
  <2>1. \A k \in 1 .. a - p : ps[p][k] \in X
    BY <1>1, <1>2, <1>3, <1>9
  <2>2. /\ 1 \in Int /\ a - p \in Int /\ a - p - 1 + 1 = a - p
        /\ (IF 1 <= a - p THEN a - p - 1 + 1 ELSE 0) = a - p
    BY <1>1
  <2>3. \A k \in 1 .. a - p : 1 + k - 1 = k
    BY <1>1
  <2> QED
    BY <1>5, <2>1, <2>2, <2>3, SubSeqProperties
<1>11. c >= 1 /\ c <= L + 1 /\ L - c + 1 = PatchEnd(ps, p) - e
  BY <1>1, <1>2, <1>3, <1>4
<1>12. above \in Seq(X) /\ Len(above) = L - c + 1 /\ \A k \in 1 .. L - c + 1 : above[k] = ps[p][c + k - 1]
  <2>1. \A k \in c .. L : ps[p][k] \in X
    BY <1>9, <1>11
  <2>2. (IF c <= L THEN L - c + 1 ELSE 0) = L - c + 1
    BY <1>11
  <2> QED
    BY <1>6, <2>1, <2>2, SubSeqProperties
<1>13a. PICK A \in Nat : A = a - p
  BY <1>1
<1>13b. PICK M \in Nat : M = A + n
  BY <1>2
<1>13c. PICK R \in Int : R = L - c + 1
  BY <1>3, <1>4
<1>13d. c = M + 1 /\ M + R = L /\ p + M = a + n /\ p + A = a
  <2>1. c = a + n - 1 - p + 2
    BY <1>1, <1>2, <1>4
  <2>2. a \in Int /\ n \in Int /\ p \in Int /\ L \in Int /\ c \in Int /\ A \in Int /\ M \in Int /\ R \in Int
    BY <1>1, <1>2, <1>3, <1>4, <1>13a, <1>13b, <1>13c
  <2>3. M = a - p + n
    BY <1>13a, <1>13b
  <2>4. c = M + 1
    BY <2>1, <2>2, <2>3
  <2>5. M + R = L
    BY <1>13c, <2>2, <2>4
  <2>6. p + M = a + n
    BY <2>2, <2>3
  <2>7. p + A = a
    BY <1>13a, <2>2
  <2> QED
    BY <2>4, <2>5, <2>6, <2>7
<1>13. A = a - p /\ M = A + n /\ R = L - c + 1 /\ R \in Nat
  <2>1. p + M <= p + L /\ p \in Int
    BY <1>1, <1>2, <1>3, <1>13d
  <2>2. M <= L
    BY <1>3, <1>13b, <2>1
  <2>3. R = L - M
    BY <1>3, <1>13b, <1>13c, <1>13d
  <2>4. R \in Nat
    BY <1>3, <1>13b, <2>2, <2>3
  <2> QED
    BY <1>13a, <1>13b, <1>13c, <2>4
<1>14. PICK first : first = below \o new
  OBVIOUS
<1>15. first \in Seq(X) /\ Len(first) = M
       /\ \A k \in 1 .. M : first[k] = IF k <= A THEN below[k] ELSE new[k - A]
  <2>1. Len(below) = A /\ Len(below) + Len(new) = M
    BY <1>2, <1>10, <1>13
  <2>2. first \in Seq(X) /\ Len(first) = Len(below) + Len(new)
        /\ \A k \in 1 .. Len(below) + Len(new) :
             first[k] = IF k <= Len(below) THEN below[k] ELSE new[k - Len(below)]
    BY <1>10, <1>14, ConcatProperties
  <2> QED
    BY <2>1, <2>2
<1>16. b \in Seq(X) /\ Len(b) = M + R
       /\ \A k \in 1 .. M + R : b[k] = IF k <= M THEN first[k] ELSE above[k - M]
  <2>1. Len(above) = R
    BY <1>12, <1>13
  <2>2. b = first \o above
    BY <1>7, <1>14
  <2>3. b \in Seq(X) /\ Len(b) = Len(first) + Len(above)
        /\ \A k \in 1 .. Len(first) + Len(above) :
             b[k] = IF k <= Len(first) THEN first[k] ELSE above[k - Len(first)]
    BY <1>12, <1>15, <2>2, ConcatProperties
  <2> QED
    BY <1>15, <2>1, <2>3
<1>17. M + R = L /\ p + L = PatchEnd(ps, p) /\ L >= 1 /\ p + M = e /\ c = M + 1 /\ p + A = a
  <2>1. p + L = PatchEnd(ps, p) /\ L >= 1
    BY <1>1, <1>3
  <2>2. e = a + n
    BY <1>2
  <2> QED
    BY <1>13d, <2>1, <2>2
<1>18. Len(b) = L /\ p + Len(b) = PatchEnd(ps, p) /\ Len(b) >= 1
  BY <1>16, <1>17
<1>19. ASSUME NEW x \in Nat, p <= x, x < PatchEnd(ps, p)
       PROVE  b[x - p + 1] = IF a <= x /\ x < e THEN new[x - a + 1] ELSE ps[p][x - p + 1]
  <2>1. PICK k \in Int : k = x - p + 1
    BY <1>1
  <2>2. k \in 1 .. M + R
    BY <1>1, <1>17, <1>19, <2>1
  <2>3. b[k] = IF k <= M THEN first[k] ELSE above[k - M]
    BY <1>16, <2>2
  <2>4. CASE x < a
    <3>1. k \in 1 .. A /\ k \in 1 .. M /\ k <= M /\ k <= A
      <4>1. k >= 1 /\ k <= A
        BY <1>1, <1>17, <1>19, <2>1, <2>4
      <4>2. A <= M
        BY <1>13
      <4> QED
        BY <4>1, <4>2
    <3>2. first[k] = ps[p][k]
      BY <1>10, <1>13, <1>15, <3>1
    <3>3. ~(a <= x /\ x < e)
      BY <2>4
    <3> QED
      BY <2>1, <2>3, <3>1, <3>2, <3>3
  <2>5. CASE a <= x /\ x < e
    <3>1. k \in 1 .. M /\ k <= M /\ ~(k <= A) /\ k - A = x - a + 1
      <4>1. k <= M
        BY <1>1, <1>17, <2>1, <2>5
      <4>2. ~(k <= A) /\ k - A = x - a + 1
        BY <1>1, <1>17, <2>1, <2>5
      <4> QED
        BY <2>2, <4>1, <4>2
    <3> QED
      BY <1>15, <2>1, <2>3, <2>5, <3>1
  <2>6. CASE e <= x
    <3>1. PICK m \in Int : m = k - M
      OBVIOUS
    <3>2. ~(k <= M) /\ m \in 1 .. R /\ c + m - 1 = k
      <4>1. ~(k <= M)
        BY <1>1, <1>17, <2>1, <2>6
      <4>2. m \in 1 .. R
        BY <2>2, <3>1, <4>1
      <4>3. c + m - 1 = k
        BY <1>17, <3>1
      <4> QED
        BY <4>1, <4>2, <4>3
    <3>3. above[m] = ps[p][k]
      BY <1>12, <1>13, <3>2
    <3>4. ~(a <= x /\ x < e)
      BY <2>6
    <3> QED
      BY <2>1, <2>3, <3>1, <3>2, <3>3, <3>4
  <2> QED
    BY <2>4, <2>5, <2>6
<1>20. ClearBut(ps, p, p, p + Len(b))
  <2>1. p <= p /\ PatchEnd(ps, p) <= PatchEnd(ps, p) /\ PatchEnd(ps, p) \in Nat
    BY <1>1
  <2> QED
    BY <1>1, <1>18, <2>1, ClearThere
<1>21. PICK u : u = MakeRoom(ps, p, a, new)
  OBVIOUS
<1>22. Good(u, X) /\ Overwritten(ps, u, p, b)
  BY <1>8, <1>16, <1>18, <1>20, <1>21, PatchOverwritten
<1>23. ASSUME NEW x \in Nat, NEW v
       PROVE  Says(u, x, v) <=> IF a <= x /\ x < e THEN v = new[x - a + 1] ELSE Says(ps, x, v)
  <2>1. Says(u, x, v) <=> IF p <= x /\ x < PatchEnd(ps, p) THEN v = b[x - p + 1]
                          ELSE Says(ps, x, v) /\ ~Covers(ps, p, x)
    BY <1>18, <1>22 DEF Overwritten
  <2>2. CASE p <= x /\ x < PatchEnd(ps, p)
    <3>1. Covers(ps, p, x)
      BY <2>2 DEF Covers
    <3>2. Says(ps, x, v) <=> v = ps[p][x - p + 1]
      BY <3>1, SaysThere
    <3> QED
      BY <1>19, <2>1, <2>2, <3>2
  <2>3. CASE ~(p <= x /\ x < PatchEnd(ps, p))
    <3>1. ~Covers(ps, p, x)
      BY <2>3 DEF Covers
    <3>2. ~(a <= x /\ x < e)
      BY <1>1, <2>3
    <3> QED
      BY <2>1, <2>3, <3>1, <3>2
  <2> QED
    BY <2>2, <2>3
<1> QED
  BY <1>21, <1>22, <1>23 DEF Wrote

-----------------------------------------------------------------------------
\* Room made, the bytes extend the patch that ends at a, or are one.
LEMMA ExtendedIs ==
  ASSUME NEW X, NEW t, Good(t, X), NEW a \in Nat, NEW new \in Seq(X), NEW e \in Nat, e = a + Len(new),
         a < e, \A p \in DOMAIN t : ~Hits(t, p, a, e),
         NEW m \in DOMAIN t, PatchEnd(t, m) = a, NEW u, u = [t EXCEPT ![m] = @ \o new]
  PROVE  Good(u, X) /\ Wrote(t, u, a, new)
<1>1. m \in Nat /\ t[m] \in Seq(X) /\ Len(t[m]) \in Nat /\ Len(t[m]) >= 1 /\ m + Len(t[m]) = a /\ m < a
  BY EndOf
<1>2. PICK L \in Nat : L = Len(t[m])
  BY <1>1
<1>3. PICK n \in Nat : n = Len(new)
  BY LenProperties
<1>4. PICK b : b = t[m] \o new
  OBVIOUS
<1>5. b \in Seq(X) /\ Len(b) = L + n /\ \A k \in 1 .. L + n : b[k] = IF k <= L THEN t[m][k] ELSE new[k - L]
  BY <1>1, <1>2, <1>3, <1>4, ConcatProperties
<1>6. m + L = a /\ a + n = e /\ L >= 1
  BY <1>1, <1>2, <1>3
<1>7. m + Len(b) = e /\ Len(b) >= 1
  BY <1>1, <1>2, <1>3, <1>5, <1>6
<1>8. u = AddPatch(t, m, b)
  <2>1. t = [q \in DOMAIN t |-> t[q]]
    BY DEF Good
  <2>2. DOMAIN t \cup {m} = DOMAIN t
    OBVIOUS
  <2> QED
    BY <1>4, <2>1, <2>2 DEF AddPatch
<1>9. ClearBut(t, m, m, e)
  <2>1. ASSUME NEW q \in DOMAIN t, q # m PROVE e <= q \/ PatchEnd(t, q) <= m
    <3>1. q \in Nat /\ PatchEnd(t, q) \in Nat /\ q < PatchEnd(t, q)
      BY EndOf
    <3>2. ~(q < e /\ a < PatchEnd(t, q))
      BY DEF Hits
    <3>3. (q < m => PatchEnd(t, q) <= m) /\ (m < q => a <= q)
      BY DEF Good
    <3> QED
      BY <1>1, <2>1, <3>1, <3>2, <3>3
  <2> QED
    BY <2>1 DEF ClearBut
<1>10. Good(u, X) /\ Overwritten(t, u, m, b)
  BY <1>1, <1>5, <1>7, <1>8, <1>9, PatchOverwritten
<1>11. ASSUME NEW x \in Nat, NEW v
       PROVE  Says(u, x, v) <=> IF a <= x /\ x < e THEN v = new[x - a + 1] ELSE Says(t, x, v)
  <2>1. Says(u, x, v) <=> IF m <= x /\ x < e THEN v = b[x - m + 1]
                          ELSE Says(t, x, v) /\ ~Covers(t, m, x)
    BY <1>7, <1>10 DEF Overwritten
  <2>2. Covers(t, m, x) <=> m <= x /\ x < a
    BY DEF Covers
  <2>3. PICK k \in Int : k = x - m + 1
    BY <1>1
  <2>4. CASE Covers(t, m, x)
    <3>1. k \in 1 .. L + n /\ k <= L
      BY <1>1, <1>2, <1>3, <1>6, <2>2, <2>3, <2>4
    <3>2. b[k] = t[m][k]
      BY <1>5, <3>1
    <3>3. Says(t, x, v) <=> v = t[m][x - m + 1]
      BY <2>4, SaysThere
    <3>4. ~(a <= x /\ x < e) /\ m <= x /\ x < e
      BY <1>1, <2>2, <2>4
    <3> QED
      BY <2>1, <2>3, <3>2, <3>3, <3>4
  <2>5. CASE a <= x /\ x < e
    <3>1. k \in 1 .. L + n
      BY <1>1, <1>2, <1>3, <1>6, <2>3, <2>5
    <3>2. ~(k <= L)
      BY <1>1, <1>2, <1>3, <1>6, <2>3, <2>5
    <3>3. k - L = x - a + 1
      <4>1. m \in Int /\ L \in Int /\ L = a - m
        BY <1>1, <1>2, <1>6
      <4> QED
        BY <2>3, <4>1
    <3>4. b[k] = new[x - a + 1]
      BY <1>5, <3>1, <3>2, <3>3
    <3>5. m <= x
      BY <1>1, <2>5
    <3> QED
      BY <2>1, <2>3, <2>5, <3>4, <3>5
  <2>6. CASE ~Covers(t, m, x) /\ ~(a <= x /\ x < e)
    <3>1. ~(m <= x /\ x < e)
      BY <2>2, <2>6
    <3> QED
      BY <2>1, <2>6, <3>1
  <2> QED
    BY <2>4, <2>5, <2>6
<1> QED
  BY <1>10, <1>11 DEF Wrote

LEMMA AddedIs ==
  ASSUME NEW X, NEW t, Good(t, X), NEW a \in Nat, NEW new \in Seq(X), NEW e \in Nat, e = a + Len(new),
         a < e, \A p \in DOMAIN t : ~Hits(t, p, a, e), NEW u, u = AddPatch(t, a, new)
  PROVE  Good(u, X) /\ Wrote(t, u, a, new)
<1>1. Len(new) >= 1 /\ Len(new) \in Nat
  BY LenProperties
<1>2. a \notin DOMAIN t
  <2>1. SUFFICES ASSUME a \in DOMAIN t PROVE FALSE
    OBVIOUS
  <2>2. a < PatchEnd(t, a)
    BY <2>1, EndOf
  <2> QED
    BY <2>1, <2>2 DEF Hits
<1>3. ClearBut(t, a, a, a + Len(new))
  <2>1. ASSUME NEW q \in DOMAIN t PROVE e <= q \/ PatchEnd(t, q) <= a
    <3>1. q \in Nat /\ PatchEnd(t, q) \in Nat
      BY EndOf
    <3> QED
      BY <3>1 DEF Hits
  <2> QED
    BY <2>1 DEF ClearBut
<1>4. Good(u, X) /\ Filled(t, u, a, new)
  BY <1>1, <1>2, <1>3, PatchPut
<1> QED
  BY <1>4 DEF Filled, Wrote

\* What auto_patch does.
LEMMA AutoPatchIs ==
  ASSUME NEW X, NEW ps, Good(ps, X), NEW a \in Nat, NEW new \in Seq(X), new # <<>>
  PROVE  Good(AutoPatch(ps, a, new), X) /\ Wrote(ps, AutoPatch(ps, a, new), a, new)
<1>1. Len(new) \in Nat /\ Len(new) >= 1
  BY EmptySeq
<1>2. PICK e \in Nat : e = a + Len(new)
  BY <1>1
<1>3. a < e
  BY <1>1, <1>2
<1>4. PICK u : u = AutoPatch(ps, a, new)
  OBVIOUS
<1>5. CASE \E p \in DOMAIN ps : p <= a /\ PatchEnd(ps, p) >= e
  <2>1. PICK p \in DOMAIN ps : p <= a /\ PatchEnd(ps, p) >= e
    BY <1>5
  <2>2. RoomFor(ps, a, new) = [ps |-> MakeRoom(ps, p, a, new), done |-> TRUE]
    BY <1>2, <1>3, <2>1, RoomHeld
  <2>3. u = MakeRoom(ps, p, a, new)
    BY <1>4, <2>2 DEF AutoPatch
  <2> QED
    BY <1>2, <1>3, <1>4, <2>1, <2>3, HeldIs
<1>6. CASE \A p \in DOMAIN ps : ~(p <= a /\ PatchEnd(ps, p) >= e)
  <2>1. PICK t : t = RoomFor(ps, a, new).ps
    OBVIOUS
  <2>2. RoomFor(ps, a, new).done = FALSE /\ CutSoFar(ps, t, X, a, e, {})
    BY <1>2, <1>3, <1>6, <2>1, RoomMade
  <2>3. Good(t, X) /\ SameOutside(ps, t, a, e) /\ \A p \in DOMAIN t : ~Hits(t, p, a, e)
    BY <2>2 DEF CutSoFar
  <2>4. PICK before : before = GetAllPatches(t, a - 1, a - 1)
    OBVIOUS
  <2>5. PICK m : m = Min(before)
    OBVIOUS
  <2>6. u = IF a > 0 /\ before # {} THEN [t EXCEPT ![m] = @ \o new] ELSE AddPatch(t, a, new)
    BY <1>4, <2>1, <2>2, <2>4, <2>5 DEF AutoPatch
  <2>7. Good(u, X) /\ Wrote(t, u, a, new)
    <3>1. CASE a > 0 /\ before # {}
      <4>1. before = {p \in DOMAIN t : p <= a - 1 /\ a - 1 < PatchEnd(t, p)}
        BY <2>4 DEF GetAllPatches
      <4>2. before \subseteq Nat
        BY <2>3, <4>1 DEF Good
      <4>3. m \in before
        BY <2>5, <3>1, <4>2, LeastPos
      <4>4. m \in DOMAIN t /\ m \in Nat /\ PatchEnd(t, m) \in Nat /\ m <= a - 1 /\ a - 1 < PatchEnd(t, m)
        BY <2>3, <4>1, <4>3, EndOf
      <4>5. ~(m < e /\ a < PatchEnd(t, m))
        BY <2>3, <4>4 DEF Hits
      <4>6. PatchEnd(t, m) = a
        BY <1>3, <4>4, <4>5
      <4>7. u = [t EXCEPT ![m] = @ \o new]
        BY <2>6, <3>1
      <4> QED
        BY <1>2, <1>3, <2>3, <4>4, <4>6, <4>7, ExtendedIs
    <3>2. CASE ~(a > 0 /\ before # {})
      <4>1. u = AddPatch(t, a, new)
        BY <2>6, <3>2
      <4> QED
        BY <1>2, <1>3, <2>3, <4>1, AddedIs
    <3> QED
      BY <3>1, <3>2
  <2>8. Wrote(ps, u, a, new)
    <3>1. ASSUME NEW x \in Nat, NEW v
          PROVE  Says(u, x, v) <=> IF a <= x /\ x < e THEN v = new[x - a + 1] ELSE Says(ps, x, v)
      <4>1. Says(u, x, v) <=> IF a <= x /\ x < e THEN v = new[x - a + 1] ELSE Says(t, x, v)
        BY <1>2, <2>7 DEF Wrote
      <4>2. ~(a <= x /\ x < e) => (Says(t, x, v) <=> Says(ps, x, v))
        BY <2>3 DEF SameOutside, SayTheSame
      <4> QED
        BY <4>1, <4>2
    <3> QED
      BY <1>2, <3>1 DEF Wrote
  <2> QED
    BY <1>4, <2>7, <2>8
<1> QED
  BY <1>5, <1>6

\* The bytes written are read back at their place, and no other byte changes.
LEMMA WriteRead ==
  ASSUME NEW X, NEW ps, Good(ps, X), NEW a \in Nat, NEW new \in Seq(X), new # <<>>, NEW x \in Nat
  PROVE  Read(AutoPatch(ps, a, new), x) = IF a <= x /\ x < a + Len(new) THEN new[x - a + 1] ELSE Read(ps, x)
<1>1. PICK u : u = AutoPatch(ps, a, new)
  OBVIOUS
<1>2. Good(u, X) /\ Wrote(ps, u, a, new)
  BY <1>1, AutoPatchIs
<1>3. CASE a <= x /\ x < a + Len(new)
  <2>1. Says(u, x, new[x - a + 1])
    BY <1>2, <1>3 DEF Wrote
  <2>2. Read(u, x) = new[x - a + 1]
    BY <1>2, <2>1, ReadIs
  <2> QED
    BY <1>1, <1>3, <2>2
<1>4. CASE ~(a <= x /\ x < a + Len(new))
  <2>1. SayTheSame(ps, u, x)
    BY <1>2, <1>4 DEF Wrote, SayTheSame
  <2>2. Read(u, x) = Read(ps, x)
    BY <1>2, <2>1, SameRead
  <2> QED
    BY <1>1, <1>4, <2>2
<1> QED
  BY <1>3, <1>4

-----------------------------------------------------------------------------
AllTheSame(ps, t) == \A x \in Nat : SayTheSame(ps, t, x)

\* Splitting a patch moves no byte.
LEMMA SplitIs ==
  ASSUME NEW X, NEW ps, Good(ps, X), NEW p \in DOMAIN ps, NEW cursor \in Nat, p < cursor,
         cursor < PatchEnd(ps, p), NEW t, t = SplitPatch(ps, p, cursor)
  PROVE  Good(t, X) /\ AllTheSame(ps, t)
<1>1. p \in Nat /\ PatchEnd(ps, p) \in Nat /\ Len(ps[p]) \in Nat /\ PatchEnd(ps, p) = p + Len(ps[p])
  BY EndOf
<1>2. PICK end \in Nat : end = PatchEnd(ps, p)
  BY <1>1
<1>3. PICK below : below = Part(ps, p, p, cursor)
  OBVIOUS
<1>4. PICK above : above = Part(ps, p, cursor, end)
  OBVIOUS
<1>5. below \in Seq(X) /\ Len(below) = cursor - p /\ Len(below) >= 1 /\ IsPart(ps, p, p, cursor, below)
  <2>1. p <= p /\ cursor <= PatchEnd(ps, p)
    BY <1>1
  <2> QED
    BY <1>1, <1>3, <2>1, PartIs
<1>6. above \in Seq(X) /\ Len(above) = end - cursor /\ Len(above) >= 1 /\ IsPart(ps, p, cursor, end, above)
  <2>1. p <= cursor /\ end <= PatchEnd(ps, p) /\ cursor < end
    BY <1>1, <1>2
  <2> QED
    BY <1>4, <2>1, PartIs
<1>7. p + Len(below) = cursor
  BY <1>1, <1>5
<1>8. cursor + Len(above) = end
  BY <1>2, <1>6
<1>9. PICK u : u = AddPatch(ps, p, below)
  OBVIOUS
<1>10. t = AddPatch(u, cursor, above)
  <2>1. PICK o \in Int : o = cursor - p
    BY <1>1
  <2>2. below = SubSeq(ps[p], 1, o)
    <3>1. p - p + 1 = 1
      BY <1>1
    <3> QED
      BY <1>3, <2>1, <3>1 DEF Part
  <2>3. above = SubSeq(ps[p], o + 1, Len(ps[p]))
    <3>1. end - p = Len(ps[p])
      BY <1>1, <1>2
    <3> QED
      BY <1>4, <2>1, <3>1 DEF Part
  <2>4. [ps EXCEPT ![p] = below] = u
    <3>1. ps = [q \in DOMAIN ps |-> ps[q]]
      BY DEF Good
    <3>2. DOMAIN ps \cup {p} = DOMAIN ps
      OBVIOUS
    <3> QED
      BY <1>9, <3>1, <3>2 DEF AddPatch
  <2>5. t = AddPatch([ps EXCEPT ![p] = SubSeq(ps[p], 1, o)], cursor, SubSeq(ps[p], o + 1, Len(ps[p])))
    BY <2>1 DEF SplitPatch
  <2> QED
    BY <2>2, <2>3, <2>4, <2>5
<1>11. Good(u, X) /\ Overwritten(ps, u, p, below) /\ SameBut(ps, u, p) /\ p \in DOMAIN u /\ u[p] = below
  <2>1. ClearBut(ps, p, p, cursor)
    <3>1. p <= p /\ cursor <= PatchEnd(ps, p)
      BY <1>1
    <3> QED
      BY <1>1, <3>1, ClearThere
  <2> QED
    BY <1>5, <1>7, <1>9, <2>1, PatchOverwritten
<1>12. ClearBut(ps, p, cursor, end)
  <2>1. p <= cursor /\ end <= PatchEnd(ps, p)
    BY <1>1, <1>2
  <2> QED
    BY <2>1, ClearThere
<1>13. cursor \notin DOMAIN u
  <2>1. SUFFICES ASSUME cursor \in DOMAIN ps PROVE FALSE
    BY <1>1, <1>11 DEF SameBut
  <2>2. cursor # p
    BY <1>1
  <2>3. cursor < PatchEnd(ps, cursor) /\ PatchEnd(ps, cursor) \in Nat
    BY <2>1, EndOf
  <2>4. end <= cursor \/ PatchEnd(ps, cursor) <= cursor
    BY <1>12, <2>1, <2>2 DEF ClearBut
  <2> QED
    BY <1>2, <2>3, <2>4
<1>14. ClearBut(u, cursor, cursor, end)
  <2>1. PatchEnd(u, p) = cursor
    BY <1>7, <1>11 DEF PatchEnd
  <2>2. ASSUME NEW q \in DOMAIN u, q # p PROVE end <= q \/ PatchEnd(u, q) <= cursor
    BY <1>11, <1>12, <2>2 DEF SameBut, ClearBut
  <2> QED
    BY <2>1, <2>2 DEF ClearBut
<1>15. Good(t, X) /\ Filled(u, t, cursor, above)
  BY <1>6, <1>8, <1>10, <1>11, <1>13, <1>14, PatchPut
<1>16. ASSUME NEW x \in Nat, NEW v PROVE Says(t, x, v) <=> Says(ps, x, v)
  <2>1. Says(t, x, v) <=> IF cursor <= x /\ x < end THEN v = above[x - cursor + 1] ELSE Says(u, x, v)
    BY <1>8, <1>15 DEF Filled
  <2>2. Says(u, x, v) <=> IF p <= x /\ x < cursor THEN v = below[x - p + 1]
                          ELSE Says(ps, x, v) /\ ~Covers(ps, p, x)
    BY <1>7, <1>11 DEF Overwritten
  <2>3. Covers(ps, p, x) <=> p <= x /\ x < end
    BY <1>2 DEF Covers
  <2>4. CASE cursor <= x /\ x < end
    <3>1. Covers(ps, p, x)
      BY <1>1, <2>3, <2>4
    <3>2. above[x - cursor + 1] = ps[p][x - p + 1]
      BY <1>6, <2>4 DEF IsPart
    <3> QED
      BY <2>1, <2>4, <3>1, <3>2, SaysThere
  <2>5. CASE p <= x /\ x < cursor
    <3>1. Covers(ps, p, x) /\ ~(cursor <= x /\ x < end)
      BY <1>1, <1>2, <2>3, <2>5
    <3>2. below[x - p + 1] = ps[p][x - p + 1]
      BY <1>5, <2>5 DEF IsPart
    <3> QED
      BY <2>1, <2>2, <2>5, <3>1, <3>2, SaysThere
  <2>6. CASE ~Covers(ps, p, x)
    <3>1. ~(cursor <= x /\ x < end) /\ ~(p <= x /\ x < cursor)
      BY <1>1, <1>2, <2>3, <2>6
    <3> QED
      BY <2>1, <2>2, <2>6, <3>1
  <2> QED
    BY <1>1, <1>2, <2>3, <2>4, <2>5, <2>6
<1> QED
  BY <1>15, <1>16 DEF AllTheSame, SayTheSame

-----------------------------------------------------------------------------
\* Merging.
MergeStart(ps, h) == [ps |-> ps, head |-> h]
LEMMA MergePasses ==
  ASSUME NEW ps, NEW selected, NEW h, h = Min(selected), NEW q, q = Ascending(selected \ {h}),
         NEW n \in Nat, DOMAIN q = 1 .. n
  PROVE  \E g : IsPassing(Merging, MergeStart(ps, h), q, n, g) /\ g[n].ps = MergeAdjacent(ps, selected)
<1>0. PICK how : how = Merging
  OBVIOUS
<1>00. PICK s : s = MergeStart(ps, h)
  OBVIOUS
<1> DEFINE Def(f) == f = [S \in SUBSET (1 .. n) |->
                            IF S = {} THEN s ELSE MergeStep(f[S \ {Max(S)}], q[Max(S)])]
<1>1. \A t, x : Told(how, t, x) = MergeStep(t, x)
  BY <1>0 DEF Told, Merging
<1>2. ASSUME NEW f PROVE IsRun(how, s, q, n, f) <=> Def(f)
  <2>1. ASSUME NEW S \in SUBSET (1 .. n)
        PROVE  (IF S = {} THEN s ELSE Told(how, f[S \ {Max(S)}], q[Max(S)]))
               = IF S = {} THEN s ELSE MergeStep(f[S \ {Max(S)}], q[Max(S)])
    BY <1>1
  <2> QED
    BY <2>1 DEF IsRun
<1>3. PICK f : f = CHOOSE r : Def(r)
  OBVIOUS
<1>4. \E r : Def(r)
  <2>1. \E r : IsRun(how, s, q, n, r)
    BY RunExists
  <2> QED
    BY <1>2, <2>1
<1>5. Def(f)
  BY <1>3, <1>4
<1>6. IsRun(how, s, q, n, f)
  BY <1>2, <1>5
<1>7. MergeAdjacent(ps, selected) = f[1 .. n].ps
  BY <1>00, <1>3 DEF MergeAdjacent, FoldLeft, MapThenFoldSet, MergeStep, MergeStart
<1> QED
  BY <1>0, <1>00, <1>6, <1>7, PassingIs

-----------------------------------------------------------------------------
\* A patch that takes in its successor moves no byte.
LEMMA MergeOne ==
  ASSUME NEW X, NEW t, Good(t, X), NEW h \in DOMAIN t, NEW p \in DOMAIN t, p = PatchEnd(t, h),
         NEW u, u = MergeWith(t, h, p)
  PROVE  Good(u, X) /\ AllTheSame(t, u) /\ DOMAIN u = DOMAIN t \ {p}
<1>1. h \in Nat /\ p \in Nat /\ h < p /\ t[p] \in Seq(X) /\ Len(t[p]) \in Nat /\ Len(t[p]) >= 1
      /\ PatchEnd(t, p) \in Nat /\ PatchEnd(t, p) = p + Len(t[p])
  BY EndOf
<1>2. PICK new : new = t[p]
  OBVIOUS
<1>3. PICK e \in Nat : e = PatchEnd(t, p)
  BY <1>1
<1>4. PICK w : w = RemovePatch(t, p)
  OBVIOUS
<1>5. Good(w, X) /\ Taken(t, w, p) /\ SameBut(t, w, p) /\ p \notin DOMAIN w
  BY <1>4, PatchTaken
<1>6. h # p
  BY <1>1
<1>7. h \in DOMAIN w /\ PatchEnd(w, h) = p /\ w[h] = t[h]
  BY <1>5, <1>6 DEF SameBut
<1>8. DOMAIN w = DOMAIN t \ {p} /\ \A q \in DOMAIN w : w[q] = t[q]
  BY <1>4 DEF RemovePatch, Restrict
<1>9. u = [w EXCEPT ![h] = @ \o new]
  <2>1. PICK v : v = [t EXCEPT ![h] = @ \o new]
    OBVIOUS
  <2>2. u = [q \in DOMAIN v \ {p} |-> v[q]]
    BY <1>2, <2>1 DEF MergeWith, RemovePatch, Restrict
  <2>3. DOMAIN v = DOMAIN t /\ v[h] = t[h] \o new /\ \A q \in DOMAIN t : q # h => v[q] = t[q]
    BY <2>1
  <2>4. PICK z : z = [w EXCEPT ![h] = @ \o new]
    OBVIOUS
  <2>5. z = [q \in DOMAIN w |-> IF q = h THEN t[h] \o new ELSE w[q]]
    <3>1. w = [q \in DOMAIN w |-> w[q]]
      BY <1>5 DEF Good
    <3> QED
      BY <1>7, <2>4, <3>1
  <2>6. \A q \in DOMAIN w : v[q] = IF q = h THEN t[h] \o new ELSE w[q]
    BY <1>8, <2>3
  <2>7. u = [q \in DOMAIN w |-> v[q]]
    BY <1>8, <2>2, <2>3
  <2> QED
    BY <2>4, <2>5, <2>6, <2>7
<1>10. \A q \in DOMAIN w : ~Hits(w, q, p, e)
  <2>1. ClearBut(t, p, p, e)
    <3>1. p <= p /\ e <= PatchEnd(t, p)
      BY <1>1, <1>3
    <3> QED
      BY <1>1, <3>1, ClearThere
  <2>2. ASSUME NEW q \in DOMAIN w PROVE ~(q < e /\ p < PatchEnd(w, q))
    <3>1. q \in DOMAIN t /\ q # p /\ PatchEnd(w, q) = PatchEnd(t, q)
      BY <1>5 DEF SameBut
    <3>2. e <= q \/ PatchEnd(w, q) <= p
      BY <2>1, <3>1 DEF ClearBut
    <3>3. q \in Nat /\ PatchEnd(w, q) \in Nat
      BY <1>5, EndOf
    <3> QED
      BY <1>1, <3>2, <3>3
  <2> QED
    BY <2>2 DEF Hits
<1>11. Good(u, X) /\ Wrote(w, u, p, new)
  <2>1. e = p + Len(new) /\ p < e /\ new \in Seq(X)
    BY <1>1, <1>2, <1>3
  <2> QED
    BY <1>1, <1>5, <1>7, <1>9, <1>10, <2>1, ExtendedIs
<1>12. ASSUME NEW x \in Nat, NEW v PROVE Says(u, x, v) <=> Says(t, x, v)
  <2>1. Says(u, x, v) <=> IF p <= x /\ x < e THEN v = new[x - p + 1] ELSE Says(t, x, v) /\ ~Covers(t, p, x)
    BY <1>1, <1>2, <1>3, <1>5, <1>11 DEF Wrote, Taken
  <2>2. Covers(t, p, x) <=> p <= x /\ x < e
    BY <1>3 DEF Covers
  <2>3. Covers(t, p, x) => (Says(t, x, v) <=> v = new[x - p + 1])
    BY <1>2, SaysThere
  <2> QED
    BY <2>1, <2>2, <2>3
<1>13. DOMAIN u = DOMAIN t \ {p}
  BY <1>8, <1>9
<1> QED
  BY <1>11, <1>12, <1>13 DEF AllTheSame, SayTheSame

MergedSoFar(ps, X, q, n, i, s) ==
  /\ Good(s.ps, X) /\ AllTheSame(ps, s.ps)
  /\ s.head \in DOMAIN s.ps
  /\ \A j \in i + 1 .. n : q[j] \in DOMAIN s.ps /\ q[j] # s.head
  /\ s = [ps |-> s.ps, head |-> s.head]

LEMMA MergeStepIs ==
  ASSUME NEW X, NEW ps, NEW q, NEW n \in Nat, \A j, k \in 1 .. n : q[j] = q[k] => j = k,
         NEW i \in 1 .. n, NEW s, MergedSoFar(ps, X, q, n, i - 1, s), NEW r, r = MergeStep(s, q[i])
  PROVE  MergedSoFar(ps, X, q, n, i, r)
<1>1. PICK p : p = q[i]
  OBVIOUS
<1>2. PICK t : t = s.ps
  OBVIOUS
<1>3. PICK h : h = s.head
  OBVIOUS
<1>4. s = [ps |-> t, head |-> h] /\ Good(t, X) /\ AllTheSame(ps, t) /\ h \in DOMAIN t
  BY <1>2, <1>3 DEF MergedSoFar
<1>5. \A j \in i .. n : q[j] \in DOMAIN t /\ q[j] # h
  <2>1. i - 1 + 1 = i
    OBVIOUS
  <2> QED
    BY <1>2, <1>3, <2>1 DEF MergedSoFar
<1>6. p \in DOMAIN t /\ p # h
  <2>1. i \in i .. n
    OBVIOUS
  <2> QED
    BY <1>1, <1>5, <2>1
<1>7. \A j \in i + 1 .. n : j \in i .. n /\ j \in 1 .. n /\ j # i
  OBVIOUS
<1>8. \A j \in i + 1 .. n : q[j] \in DOMAIN t /\ q[j] # h /\ q[j] # p
  BY <1>1, <1>5, <1>7
<1>9. CASE p # PatchEnd(t, h)
  <2>1. r = [ps |-> t, head |-> p]
    BY <1>1, <1>4, <1>9 DEF MergeStep
  <2> QED
    BY <1>4, <1>6, <1>8, <2>1 DEF MergedSoFar
<1>10. CASE p = PatchEnd(t, h)
  <2>1. PICK u : u = MergeWith(t, h, p)
    OBVIOUS
  <2>2. r = [ps |-> u, head |-> h]
    BY <1>1, <1>4, <1>10, <2>1 DEF MergeStep
  <2>3. Good(u, X) /\ AllTheSame(t, u) /\ DOMAIN u = DOMAIN t \ {p}
    BY <1>4, <1>6, <1>10, <2>1, MergeOne
  <2>4. AllTheSame(ps, u)
    BY <1>4, <2>3 DEF AllTheSame, SayTheSame
  <2> QED
    BY <1>4, <1>6, <1>8, <2>2, <2>3, <2>4 DEF MergedSoFar
<1> QED
  BY <1>9, <1>10

\* Merging the selected patches moves no byte.
LEMMA MergeIs ==
  ASSUME NEW X, NEW ps, Good(ps, X), NEW selected, selected \subseteq DOMAIN ps, selected # {}
  PROVE  Good(MergeAdjacent(ps, selected), X) /\ AllTheSame(ps, MergeAdjacent(ps, selected))
<1>1. selected \subseteq Nat
  BY DEF Good
<1>2. PICK h : h = Min(selected)
  OBVIOUS
<1>3. h \in selected
  BY <1>1, <1>2, LeastPos
<1>4. PICK rest : rest = selected \ {h}
  OBVIOUS
<1>5. rest \subseteq Nat /\ IsFiniteSet(rest) /\ rest \subseteq DOMAIN ps /\ h \notin rest
  <2>1. rest \in SUBSET DOMAIN ps /\ rest \subseteq Nat /\ h \notin rest
    BY <1>1, <1>4
  <2> QED
    BY <2>1, FS_Subset DEF Good
<1>6. PICK q : q = Ascending(rest)
  OBVIOUS
<1>7. PICK n : n = Cardinality(rest)
  OBVIOUS
<1>8. IsAscending(q, rest)
  BY <1>5, <1>6, AscendingIs
<1>9. n \in Nat /\ q \in [1 .. n -> rest] /\ \A i, j \in 1 .. n : i < j => q[i] < q[j]
  BY <1>7, <1>8 DEF IsAscending
<1>10. \A j \in 1 .. n : q[j] \in Nat /\ q[j] \in DOMAIN ps /\ q[j] # h
  <2>1. \A j \in 1 .. n : q[j] \in rest
    BY <1>9
  <2> QED
    BY <1>5, <2>1
<1>11. \A j, k \in 1 .. n : q[j] = q[k] => j = k
  BY <1>9, <1>10
<1>12. PICK g : IsPassing(Merging, MergeStart(ps, h), q, n, g) /\ g[n].ps = MergeAdjacent(ps, selected)
  <2>1. DOMAIN q = 1 .. n
    BY <1>9
  <2>2. q = Ascending(selected \ {h})
    BY <1>4, <1>6
  <2> QED
    BY <1>2, <1>9, <2>1, <2>2, MergePasses
<1>13. PICK G : G = {i \in 0 .. n : MergedSoFar(ps, X, q, n, i, g[i])}
  OBVIOUS
<1>14. 0 \in G
  <2>1. g[0] = [ps |-> ps, head |-> h]
    BY <1>12 DEF IsPassing, MergeStart
  <2>2. AllTheSame(ps, ps)
    BY DEF AllTheSame, SayTheSame
  <2>3. 0 + 1 = 1 /\ 0 \in 0 .. n
    BY <1>9
  <2>4. MergedSoFar(ps, X, q, n, 0, g[0])
    BY <1>3, <1>10, <2>1, <2>2, <2>3 DEF MergedSoFar
  <2> QED
    BY <1>13, <2>3, <2>4
<1>15. ASSUME NEW i \in 1 .. n, i - 1 \in G PROVE i \in G
  <2>1. MergedSoFar(ps, X, q, n, i - 1, g[i - 1])
    BY <1>13, <1>15
  <2>2. g[i] = MergeStep(g[i - 1], q[i])
    BY <1>12 DEF IsPassing, Told, Merging
  <2>3. MergedSoFar(ps, X, q, n, i, g[i])
    BY <1>9, <1>11, <2>1, <2>2, MergeStepIs
  <2> QED
    BY <1>9, <1>13, <2>3
<1>16. n \in G
  BY <1>9, <1>14, <1>15, PassingInduction
<1> QED
  BY <1>12, <1>13, <1>16 DEF MergedSoFar

-----------------------------------------------------------------------------
\* What is read is a byte, or nothing; what is shown is a byte.
LEMMA ZeroIsByte == ZeroByte \in Bytes
BY PatchAssumption DEF ZeroByte, Bytes

LEMMA ValueIsByte ==
  ASSUME NEW ps, Good(ps, Bytes), NEW x \in Nat
  PROVE  Value(ps, x) \in Bytes
<1>1. Read(ps, x) = Unreadable \/ Read(ps, x) \in Bytes
  <2>1. ASSUME NEW v, Says(ps, x, v) PROVE Read(ps, x) \in Bytes
    <3>1. PICK p \in DOMAIN ps : Covers(ps, p, x) /\ v = ps[p][x - p + 1]
      BY <2>1 DEF Says
    <3>2. ps[p] \in Seq(Bytes) /\ p \in Nat /\ Len(ps[p]) \in Nat /\ PatchEnd(ps, p) = p + Len(ps[p])
      BY EndOf
    <3>3. x - p + 1 \in 1 .. Len(ps[p])
      BY <3>1, <3>2 DEF Covers
    <3>4. v \in Bytes
      BY <3>1, <3>2, <3>3, ElementOfSeq
    <3>5. Read(ps, x) = v
      BY <2>1, ReadIs
    <3> QED
      BY <3>4, <3>5
  <2>2. ASSUME \A v : ~Says(ps, x, v) PROVE Read(ps, x) = Unreadable \/ Read(ps, x) \in Bytes
    <3>1. Read(ps, x) = Bare(x)
      BY <2>2, ReadIs
    <3>2. x \in DOMAIN Memory => Memory[x] \in Bytes
      BY PatchAssumption
    <3> QED
      BY <3>1, <3>2 DEF Bare
  <2> QED
    BY <2>1, <2>2
<1> QED
  BY <1>1, ZeroIsByte DEF Value

LEMMA RestrictedIs ==
  ASSUME NEW X, NEW ps, Good(ps, X), NEW S, S \subseteq DOMAIN ps, NEW t, t = Restrict(ps, S)
  PROVE  Good(t, X)
<1>1. t = [q \in S |-> ps[q]]
  BY DEF Restrict
<1>2. DOMAIN t = S /\ \A q \in S : t[q] = ps[q]
  BY <1>1
<1>3. \A q \in S : PatchEnd(t, q) = PatchEnd(ps, q)
  BY <1>2 DEF PatchEnd
<1>4. DOMAIN t \subseteq Nat /\ IsFiniteSet(DOMAIN t)
  <2>1. S \in SUBSET DOMAIN ps
    OBVIOUS
  <2> QED
    BY <1>2, <2>1, FS_Subset DEF Good
<1>5. t \in [DOMAIN t -> Seq(X)]
  <2>1. \A q \in S : ps[q] \in Seq(X)
    BY EndOf
  <2> QED
    BY <1>1, <1>2, <2>1
<1>6. \A p \in DOMAIN t : Len(t[p]) >= 1
  BY <1>2 DEF Good
<1>7. \A p, q \in DOMAIN t : p < q => PatchEnd(t, p) <= q
  BY <1>2, <1>3 DEF Good
<1> QED
  BY <1>4, <1>5, <1>6, <1>7 DEF Good

\* More bytes can be told apart than there are.
LEMMA MoreBytes ==
  ASSUME NEW X, NEW Y, X \subseteq Y, NEW ps, Good(ps, X)
  PROVE  Good(ps, Y)
<1>1. \A p \in DOMAIN ps : ps[p] \in Seq(Y)
  <2>1. ASSUME NEW p \in DOMAIN ps PROVE ps[p] \in Seq(Y)
    <3>1. ps[p] \in Seq(X)
      BY EndOf
    <3> QED
      BY <3>1
  <2> QED
    BY <2>1
<1>2. ps \in [DOMAIN ps -> Seq(Y)]
  BY <1>1 DEF Good
<1> QED
  BY <1>2 DEF Good

LEMMA FiniteGreatest ==
  ASSUME NEW S, S \subseteq Nat, IsFiniteSet(S), S # {}
  PROVE  Max(S) \in S
<1>1. PICK q : q = Ascending(S)
  OBVIOUS
<1>2. IsAscending(q, S) /\ Lists(q, S)
  BY <1>1, AscendingIs
<1>3. PICK n : n = Cardinality(S)
  OBVIOUS
<1>4. n \in Nat /\ q \in [1 .. n -> S] /\ \A i, j \in 1 .. n : i < j => q[i] < q[j]
  BY <1>2, <1>3 DEF IsAscending
<1>5. n # 0
  BY <1>3, FS_EmptySet
<1>6. n \in 1 .. n /\ q[n] \in S
  BY <1>4, <1>5
<1>7. ASSUME NEW x \in S PROVE x <= q[n]
  <2>1. PICK i \in 1 .. n : q[i] = x
    BY <1>2, <1>3 DEF Lists
  <2>2. x \in Nat /\ q[n] \in Nat
    BY <1>6
  <2>3. i = n \/ i < n
    BY <1>4
  <2> QED
    BY <1>4, <1>6, <2>1, <2>2, <2>3
<1> QED
  BY <1>6, <1>7 DEF Max

-----------------------------------------------------------------------------
PatchInv == Good(patches, Bytes) /\ clipboard \in Seq(Bytes)

\* Nothing is known of patches once an assembled one was put over another.
ApartOrOverlapped == overlapped \/ PatchInv

LEMMA EditKeepsInv ==
  ASSUME PatchInv, NEW ps, Good(ps, Bytes), Change(ps)
  PROVE  PatchInv'
BY DEF PatchInv, Change, Good, PatchEnd

LEMMA WriteKeepsInv ==
  ASSUME PatchInv, NEW a \in Region, NEW new \in Seq(Bytes), new # <<>>, Edit(AutoPatch(patches, a, new))
  PROVE  PatchInv'
<1>1. a \in Nat
  BY PatchAssumption
<1>2. Good(AutoPatch(patches, a, new), Bytes)
  BY <1>1, AutoPatchIs DEF PatchInv
<1> QED
  BY <1>2, EditKeepsInv DEF Edit

LEMMA TypingKeepsInv ==
  ASSUME PatchInv, NEW a \in Region, NEW b \in Bytes, Edit(AutoPatch(patches, a, <<b>>))
  PROVE  PatchInv'
<1>1. PICK new : new = <<b>>
  OBVIOUS
<1>2. new \in Seq(Bytes) /\ new # <<>>
  BY <1>1
<1> QED
  BY <1>1, <1>2, WriteKeepsInv

LEMMA NibbleKeepsInv ==
  ASSUME PatchInv, NEW a \in Region, NEW n \in {0, 1}, NEW d \in Typed, SetNibbleValue(a, n, d)
  PROVE  PatchInv'
<1>1. a \in Nat /\ d \in Digits
  BY PatchAssumption
<1>2. Value(patches, a) \in Bytes
  BY <1>1, ValueIsByte DEF PatchInv
<1>3. TypedByte(a, n, d) \in Bytes
  BY <1>1, <1>2 DEF TypedByte, Bytes
<1> QED
  BY <1>3, TypingKeepsInv DEF SetNibbleValue

LEMMA CopyKeepsInv ==
  ASSUME PatchInv, NEW first \in Region, NEW last \in Region, first <= last, CopySelectedBytes(first, last)
  PROVE  PatchInv'
<1>1. first \in Nat /\ last \in Nat
  BY PatchAssumption
<1>2. PICK n \in Nat : n = last - first + 1
  BY <1>1
<1>3. PICK new : new = [i \in 1 .. n |-> Value(patches, first + i - 1)]
  OBVIOUS
<1>4. \A i \in 1 .. n : Value(patches, first + i - 1) \in Bytes
  <2>1. \A i \in 1 .. n : first + i - 1 \in Nat
    BY <1>1
  <2> QED
    BY <2>1, ValueIsByte DEF PatchInv
<1>5. new \in Seq(Bytes)
  BY <1>3, <1>4
<1>6. clipboard' = new /\ patches' = patches
  BY <1>2, <1>3 DEF CopySelectedBytes
<1> QED
  BY <1>5, <1>6 DEF PatchInv, Good, PatchEnd

LEMMA SplitKeepsInv ==
  ASSUME PatchInv, NEW p \in DOMAIN patches, NEW cursor \in Region, Split(p, cursor)
  PROVE  PatchInv'
<1>1. cursor \in Nat /\ Good(patches, Bytes)
  BY PatchAssumption DEF PatchInv
<1>2. p < cursor /\ cursor < PatchEnd(patches, p) /\ Edit(SplitPatch(patches, p, cursor))
  BY DEF Split, CanSplit
<1>3. Good(SplitPatch(patches, p, cursor), Bytes)
  BY <1>1, <1>2, SplitIs
<1> QED
  BY <1>2, <1>3, EditKeepsInv DEF Edit

LEMMA MergeKeepsInv ==
  ASSUME PatchInv, NEW first, NEW last, MergeSelected(first, last)
  PROVE  PatchInv'
<1>1. Active(first, last) \subseteq DOMAIN patches /\ Active(first, last) # {}
  BY DEF Active, GetAllPatches, MergeSelected
<1>2. Good(MergeAdjacent(patches, Active(first, last)), Bytes)
  BY <1>1, MergeIs DEF PatchInv
<1> QED
  BY <1>2, EditKeepsInv DEF Edit, MergeSelected

LEMMA RevertKeepsInv ==
  ASSUME PatchInv, NEW S, Edit(Restrict(patches, DOMAIN patches \ S))
  PROVE  PatchInv'
<1>1. Good(Restrict(patches, DOMAIN patches \ S), Bytes)
  BY RestrictedIs DEF PatchInv
<1> QED
  BY <1>1, EditKeepsInv DEF Edit

\* An assembled patch takes the place of the one at its address, and meets no other.
LEMMA AssembleKeepsInv ==
  ASSUME PatchInv, NEW a \in Region, NEW new \in Assembled, Assemble(a, new), ~overlapped'
  PROVE  PatchInv'
<1>1. a \in Nat
  BY PatchAssumption
<1>2. new \in Seq(Bytes) /\ Len(new) \in Nat /\ Len(new) >= 1
  <2>1. PICK n \in 1 .. 2 : new = [i \in 1 .. n |-> ZeroByte]
    BY DEF Assembled
  <2> QED
    BY <2>1, ZeroIsByte
<1>3. PICK e \in Nat : e = a + Len(new)
  BY <1>1, <1>2
<1>4. a < e
  BY <1>1, <1>2, <1>3
<1>5. HitBy(patches, a, new) \subseteq {a} /\ Change(AddPatch(patches, a, new))
  BY DEF Assemble, HitBy
<1>6. PICK rest : rest = RemovePatch(patches, a)
  OBVIOUS
<1>7. Good(rest, Bytes)
  BY <1>6, RestrictedIs DEF RemovePatch, PatchInv
<1>8. DOMAIN rest = DOMAIN patches \ {a} /\ \A p \in DOMAIN rest : rest[p] = patches[p]
  BY <1>6 DEF RemovePatch, Restrict
<1>9. \A p \in DOMAIN rest : ~Hits(rest, p, a, e)
  <2>1. ASSUME NEW p \in DOMAIN rest PROVE ~Hits(patches, p, a, e)
    BY <1>1, <1>2, <1>3, <1>5, <1>8, HitByIs DEF PatchInv
  <2> QED
    BY <1>8, <2>1 DEF Hits, PatchEnd
<1>10. AddPatch(patches, a, new) = AddPatch(rest, a, new)
  BY <1>8 DEF AddPatch
<1>11. Good(AddPatch(patches, a, new), Bytes)
  BY <1>1, <1>2, <1>3, <1>4, <1>7, <1>9, <1>10, AddedIs
<1> QED
  BY <1>5, <1>11, EditKeepsInv

-----------------------------------------------------------------------------
LEMMA InvKeepsBytes ==
  ASSUME PatchInv
  PROVE  PatchesKeepBytes
<1>1. Good(patches, Bytes)
  BY DEF PatchInv
<1>2. Region \subseteq Nat
  BY PatchAssumption
<1>3. \A x \in Seen : x \in Nat
  <2>1. Min(Region) \in Nat
    BY PatchAssumption, LeastPos
  <2>2. Max(Region) \in Nat
    BY PatchAssumption, FiniteGreatest
  <2>3. Cardinality(Region) \in Nat
    BY PatchAssumption, FS_CardinalityType
  <2> QED
    BY <2>1, <2>2, <2>3 DEF Seen
<1>4. PatchesDisjoint
  <2>1. ASSUME NEW p \in DOMAIN patches, NEW q \in DOMAIN patches, p # q
        PROVE  Extent(patches, p) \cap Extent(patches, q) = {}
    <3>1. p \in Nat /\ q \in Nat /\ PatchEnd(patches, p) \in Nat /\ PatchEnd(patches, q) \in Nat
      BY <1>1, EndOf
    <3>2. (p < q => PatchEnd(patches, p) <= q) /\ (q < p => PatchEnd(patches, q) <= p)
      BY <1>1 DEF Good
    <3> QED
      BY <2>1, <3>1, <3>2 DEF Extent
  <2> QED
    BY <2>1 DEF PatchesDisjoint
<1>5. WritesOnlyThere
  <2>1. ASSUME NEW a \in Region, NEW n \in 1 .. Cardinality(Region), NEW x \in Seen
        PROVE  Read(AutoPatch(patches, a, Written(n)), x)
               = IF x \in a .. a + n - 1 THEN Written(n)[x - a + 1] ELSE Read(patches, x)
    <3>1. n \in Nat /\ n >= 1
      <4>1. Cardinality(Region) \in Nat
        BY PatchAssumption, FS_CardinalityType
      <4> QED
        BY <4>1
    <3>2. PICK M : M = {[k \in {0, 1} |-> -i] : i \in Nat}
      OBVIOUS
    <3>3. PICK Y : Y = Bytes \cup M
      OBVIOUS
    <3>4. Good(patches, Y)
      BY <1>1, <3>3, MoreBytes
    <3>5. PICK new : new = Written(n)
      OBVIOUS
    <3>6. \A i \in 1 .. n : [k \in {0, 1} |-> -i] \in Y
      BY <3>1, <3>2, <3>3
    <3>7. new = [i \in 1 .. n |-> [k \in {0, 1} |-> -i]]
      BY <3>5 DEF Written
    <3>8. new \in Seq(Y) /\ Len(new) = n
      BY <3>1, <3>6, <3>7
    <3>9. new # <<>>
      BY <3>1, <3>8
    <3>10. a \in Nat /\ x \in Nat
      BY <1>2, <1>3
    <3>11. Read(AutoPatch(patches, a, new), x)
           = IF a <= x /\ x < a + Len(new) THEN new[x - a + 1] ELSE Read(patches, x)
      BY <3>4, <3>8, <3>9, <3>10, WriteRead
    <3>12. x \in a .. a + n - 1 <=> a <= x /\ x < a + Len(new)
      BY <3>1, <3>8, <3>10
    <3> QED
      BY <3>5, <3>11, <3>12
  <2> QED
    BY <2>1 DEF WritesOnlyThere
<1>6. ASSUME NEW t, Good(t, Bytes), AllTheSame(patches, t) PROVE SameBytes(t)
  <2>1. ASSUME NEW x \in Seen PROVE Read(t, x) = Read(patches, x)
    <3>1. x \in Nat /\ SayTheSame(patches, t, x)
      BY <1>3, <1>6 DEF AllTheSame
    <3> QED
      BY <1>1, <1>6, <3>1, SameRead
  <2> QED
    BY <2>1 DEF SameBytes
<1>7. ASSUME NEW p \in DOMAIN patches, NEW cursor \in Region, CanSplit(p, cursor)
      PROVE  SameBytes(SplitPatch(patches, p, cursor))
  <2>1. p < cursor /\ cursor < PatchEnd(patches, p) /\ cursor \in Nat
    BY <1>2, <1>7 DEF CanSplit
  <2>2. Good(SplitPatch(patches, p, cursor), Bytes) /\ AllTheSame(patches, SplitPatch(patches, p, cursor))
    BY <1>1, <2>1, SplitIs
  <2> QED
    BY <1>6, <2>2
<1>8. ASSUME NEW first \in Region, NEW last \in Region, Active(first, last) # {}
      PROVE  SameBytes(MergeAdjacent(patches, Active(first, last)))
  <2>1. Active(first, last) \subseteq DOMAIN patches
    BY DEF Active, GetAllPatches
  <2>2. /\ Good(MergeAdjacent(patches, Active(first, last)), Bytes)
        /\ AllTheSame(patches, MergeAdjacent(patches, Active(first, last)))
    BY <1>1, <1>8, <2>1, MergeIs
  <2> QED
    BY <1>6, <2>2
<1> QED
  BY <1>4, <1>5, <1>7, <1>8 DEF PatchesKeepBytes, RearrangingKeepsBytes

\* Patches do not overlap; what is written is read back at its place and nowhere
\* else, and splitting and merging patches change no byte of the program, until
\* the assembler, which asks for no room, puts a patch over a part of another.
THEOREM PatchesAlwaysKeepBytes == PatchSpec => []PatchesKeepBytes
<1>1. PatchInit => ApartOrOverlapped
  <2>1. SUFFICES ASSUME PatchInit PROVE PatchInv
    BY DEF ApartOrOverlapped
  <2>2. patches = <<>> /\ clipboard = <<>>
    BY <2>1 DEF PatchInit
  <2>3. DOMAIN patches = {}
    BY <2>2
  <2>4. patches \in [DOMAIN patches -> Seq(Bytes)]
    BY <2>2, <2>3
  <2>5. Good(patches, Bytes)
    BY <2>3, <2>4, FS_EmptySet DEF Good
  <2> QED
    BY <2>2, <2>5 DEF PatchInv
<1>2. ApartOrOverlapped /\ [PatchNext]_patchVars => ApartOrOverlapped'
  <2>1. SUFFICES ASSUME PatchInv, [PatchNext]_patchVars, ~overlapped' PROVE PatchInv'
    <3>1. overlapped /\ [PatchNext]_patchVars => overlapped'
      BY DEF PatchNext, patchVars, SetNibbleValue, SetByteValue, PasteCopiedBytes, Split, Revert,
             CopySelectedBytes, MergeSelected, RevertSelected, Assemble, Edit
    <3> QED
      BY <3>1 DEF ApartOrOverlapped
  <2>2. CASE UNCHANGED patchVars
    BY <2>1, <2>2 DEF PatchInv, Good, PatchEnd, patchVars
  <2>3. ASSUME NEW a \in Region, NEW n \in {0, 1}, NEW d \in Typed, SetNibbleValue(a, n, d) PROVE PatchInv'
    BY <2>1, <2>3, NibbleKeepsInv
  <2>4. ASSUME NEW a \in Region, NEW b \in Printable, SetByteValue(a, b) PROVE PatchInv'
    <3>1. b \in Bytes
      BY PatchAssumption
    <3> QED
      BY <2>1, <2>4, <3>1, TypingKeepsInv DEF SetByteValue
  <2>5. ASSUME NEW a \in Region, PasteCopiedBytes(a) PROVE PatchInv'
    <3>1. clipboard \in Seq(Bytes) /\ clipboard # <<>> /\ Edit(AutoPatch(patches, a, clipboard))
      BY <2>1, <2>5 DEF PatchInv, PasteCopiedBytes
    <3> QED
      BY <2>1, <3>1, WriteKeepsInv
  <2>6. ASSUME NEW p \in DOMAIN patches, NEW cursor \in Region, Split(p, cursor) PROVE PatchInv'
    BY <2>1, <2>6, SplitKeepsInv
  <2>7. ASSUME NEW p \in DOMAIN patches, Revert(p) PROVE PatchInv'
    BY <2>1, <2>7, RevertKeepsInv DEF Revert, RemovePatch
  <2>8. ASSUME NEW first \in Region, NEW last \in Region, first <= last, CopySelectedBytes(first, last)
        PROVE  PatchInv'
    BY <2>1, <2>8, CopyKeepsInv
  <2>9. ASSUME NEW first \in Region, NEW last \in Region, MergeSelected(first, last) PROVE PatchInv'
    BY <2>1, <2>9, MergeKeepsInv
  <2>10. ASSUME NEW first \in Region, NEW last \in Region, RevertSelected(first, last) PROVE PatchInv'
    BY <2>1, <2>10, RevertKeepsInv DEF RevertSelected
  <2>11. ASSUME NEW a \in Region, NEW new \in Assembled, Assemble(a, new) PROVE PatchInv'
    BY <2>1, <2>11, AssembleKeepsInv
  <2> QED
    BY <2>1, <2>2, <2>3, <2>4, <2>5, <2>6, <2>7, <2>8, <2>9, <2>10, <2>11 DEF PatchNext
<1>3. ApartOrOverlapped => PatchesKeepBytes
  BY InvKeepsBytes DEF ApartOrOverlapped, PatchesKeepBytes
<1> QED
  BY <1>1, <1>2, <1>3, PTL DEF PatchSpec
==============================================================================
