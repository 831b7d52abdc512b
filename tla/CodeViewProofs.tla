---------------------------- MODULE CodeViewProofs ----------------------------
(***************************************************************************)
(* Proofs about the decompilation pipeline (CodeView): when every job and   *)
(* signal is done, the pseudocode view shows the code of its function.      *)
(***************************************************************************)
EXTENDS CodeView, SequenceTheorems, TLAPS

Kinds == {"varec", "decompile"}
FocusAddrs == Funcs \cup {NoFunc}
Signals == [kind : {"starting", "finished", "exception"}, job : Jobs]

TypeOK ==
  /\ view \in [func : FocusAddrs, code : FocusAddrs, last : FocusAddrs]
  /\ cache \in SUBSET Funcs /\ ranCca \in SUBSET Funcs
  /\ todo \in Seq(Jobs) /\ running \in Seq(Jobs) /\ Len(running) <= 1
  /\ signals \in Seq(Signals)
  /\ modal \in BOOLEAN /\ failed \in BOOLEAN /\ asks \in Nat
  /\ todo # <<>> \/ running # <<>> \/ signals # <<>> => view.func # NoFunc

(* Functions of which the code can be asked for at once. *)
Ready == Funcs \ (NeedsCca \ ranCca)

(* Where a job can be: with the worker, or handed back and not yet handled. *)
In(q, x) == \E i \in 1 .. Len(q) : q[i] = x
FinishedSignal(j) == [kind |-> "finished", job |-> j]
Unfinished(j) == In(running, j) \/ In(todo, j)
Finished(j) == In(signals, FinishedSignal(j))

(* A variable recovery is asked for with a focus in its own function, and a
   decompilation focuses only on a function that is ready. *)
FocusIsReady ==
  \A j \in Jobs :
    /\ (Unfinished(j) \/ Finished(j)) /\ j.kind = "varec" => j.focus \in {j.func, NoFunc}
    /\ Finished(j) /\ j.kind = "varec" => j.func \in ranCca
    /\ (Unfinished(j) \/ Finished(j)) /\ j.kind = "decompile" => j.focus \in Ready \cup {NoFunc}

(* A function that is not ready is decompiled only behind its recovery. *)
RecoveryRuns(f) ==
  \E k \in 1 .. Len(running) : running[k].kind = "varec" /\ running[k].func = f
RecoveryQueued(f, n) == \E k \in 1 .. n : todo[k].kind = "varec" /\ todo[k].func = f
RecoveryIsFirst ==
  /\ \A f \in Funcs \ Ready :
       /\ \A i \in 1 .. Len(todo) :
            todo[i].kind = "decompile" /\ todo[i].func = f =>
              RecoveryRuns(f) \/ RecoveryQueued(f, i - 1)
       /\ view.func = f => RecoveryRuns(f) \/ RecoveryQueued(f, Len(todo))
  /\ \A i \in 1 .. Len(running) : running[i].kind = "decompile" => running[i].func \in Ready
  /\ cache \subseteq Ready

(* What was shown last is ready, and when its code was dropped it is on its
   way again. *)
LastComesBack ==
  view.last # NoFunc =>
    /\ view.last \in Ready
    /\ view.last \notin cache =>
         \E j \in Jobs : Unfinished(j) /\ j.kind = "decompile" /\ j.func = view.last

(* A function that is not yet shown has a request of its own on the way, one
   that does not move the view to another function. *)
Serves(j, f) ==
  /\ j.focus \in {f, NoFunc}
  /\ \/ j.kind = "varec" /\ (Unfinished(j) \/ Finished(j))
     \/ j.kind = "decompile" /\ j.func = f /\ (Unfinished(j) \/ (Finished(j) /\ f \in cache))
FuncIsServed == view.func # view.last => \E j \in Jobs : Serves(j, view.func)

(* Code of another function than the one shown last is replaced by a job that
   is still to be handled. *)
CodeIsReplaced ==
  view.code # view.last => \E j \in Jobs : Unfinished(j) \/ Finished(j)

Settles == FocusIsReady /\ RecoveryIsFirst /\ LastComesBack /\ FuncIsServed /\ CodeIsReplaced
ViewInv == ~failed => Settles

-----------------------------------------------------------------------------
(* A queue holds what it held and what is appended. *)
LEMMA InAppend ==
  ASSUME NEW S, NEW q \in Seq(S), NEW e \in S, NEW x
  PROVE  In(Append(q, e), x) <=> In(q, x) \/ x = e
  BY AppendProperties, LenProperties DEF In

(* A queue holds its head and what its tail holds. *)
LEMMA InTail ==
  ASSUME NEW S, NEW q \in Seq(S), q # <<>>, NEW x
  PROVE  /\ In(q, x) <=> In(Tail(q), x) \/ x = Head(q)
         /\ Head(q) \in S /\ Tail(q) \in Seq(S) /\ Len(Tail(q)) = Len(q) - 1
<1>1. /\ Head(q) = q[1] /\ Head(q) \in S /\ Tail(q) \in Seq(S)
      /\ Len(q) \in Nat \ {0} /\ Len(Tail(q)) = Len(q) - 1
      /\ \A i \in 1 .. Len(Tail(q)) : Tail(q)[i] = q[i + 1]
  BY HeadTailProperties, EmptySeq, LenProperties
<1>2. ASSUME In(q, x), x # Head(q) PROVE In(Tail(q), x)
  <2>1. PICK i \in 1 .. Len(q) : q[i] = x
    BY <1>2 DEF In
  <2>2. i - 1 \in 1 .. Len(Tail(q)) /\ (i - 1) + 1 = i
    BY <1>1, <1>2, <2>1
  <2> QED
    BY <1>1, <2>1, <2>2 DEF In
<1>3. ASSUME In(Tail(q), x) PROVE In(q, x)
  BY <1>1, <1>3 DEF In
<1> QED
  BY <1>1, <1>2, <1>3 DEF In

(* A queue of length one holds its head and nothing else. *)
LEMMA InSingle ==
  ASSUME NEW S, NEW q \in Seq(S), Len(q) <= 1, q # <<>>, NEW x
  PROVE  /\ In(q, x) <=> x = Head(q)
         /\ Head(q) \in S /\ Head(q) = q[1] /\ Len(q) = 1
<1>1. Len(q) \in Nat /\ Len(q) # 0
  BY EmptySeq, LenProperties
<1>2. Head(q) = q[1] /\ Head(q) \in S /\ Len(q) = 1
  BY <1>1, HeadTailProperties
<1> QED
  BY <1>2 DEF In

(* Nothing is in the empty queue. *)
LEMMA InEmpty == ASSUME NEW x PROVE ~In(<<>>, x)
  BY DEF In
-----------------------------------------------------------------------------
(* The state a handler works on, by its parts. *)
State(f, code, last, c, q) ==
  [view |-> [func |-> f, code |-> code, last |-> last], cache |-> c, todo |-> q]
(* The request for f with the given focus. *)
RequestFor(f, focus) ==
  [kind |-> IF f \in NeedsCca \ ranCca THEN "varec" ELSE "decompile",
   func |-> f, focus |-> focus]

LEMMA GuiStateIs ==
  ASSUME TypeOK
  PROVE  GuiState = State(view.func, view.code, view.last, cache, todo)
  BY DEF GuiState, State, TypeOK

LEMMA ShowIs ==
  ASSUME NEW f, NEW code, NEW last, NEW c, NEW q
  PROVE  Show(State(f, code, last, c, q)) = State(f, f, last, c, q)
<1> DEFINE s == State(f, code, last, c, q)
           v == [func |-> f, code |-> code, last |-> last]
<1>1. s.view = v /\ s.view.func = f
  BY DEF State
<1>2. [v EXCEPT !.code = f] = [func |-> f, code |-> f, last |-> last]
  OBVIOUS
<1>3. [s EXCEPT !.view = [v EXCEPT !.code = f]] = State(f, f, last, c, q)
  BY <1>2 DEF State
<1> HIDE DEF s
<1>4. [s EXCEPT !.view = [s.view EXCEPT !.code = s.view.func]] = State(f, f, last, c, q)
  BY <1>1, <1>3
<1> QED
  BY <1>4 DEF Show, s

LEMMA RememberIs ==
  ASSUME NEW f, NEW code, NEW last, NEW c, NEW q
  PROVE  Remember(State(f, code, last, c, q)) = State(f, code, f, c, q)
<1> DEFINE s == State(f, code, last, c, q)
           v == [func |-> f, code |-> code, last |-> last]
<1>1. s.view = v /\ s.view.func = f
  BY DEF State
<1>2. [v EXCEPT !.last = f] = [func |-> f, code |-> code, last |-> f]
  OBVIOUS
<1>3. [s EXCEPT !.view = [v EXCEPT !.last = f]] = State(f, code, f, c, q)
  BY <1>2 DEF State
<1> HIDE DEF s
<1>4. [s EXCEPT !.view = [s.view EXCEPT !.last = s.view.func]] = State(f, code, f, c, q)
  BY <1>1, <1>3
<1> QED
  BY <1>4 DEF Remember, s

(* Switching to a function leaves early, shows cached code, or asks for it. *)
LEMMA SetFunctionIs ==
  ASSUME NEW g, NEW code, NEW last, NEW c, NEW q, NEW focus, NEW f \in Funcs
  PROVE  LET early == code # NoFunc /\ last = f
             after == SetFunction(State(g, code, last, c, q), f, focus)
         IN  /\ early => after = State(f, code, last, c, q)
             /\ ~early /\ f \in c => after = State(f, f, f, c, q)
             /\ ~early /\ f \notin c =>
                  after = State(f, code, last, c, Append(q, RequestFor(f, focus)))
<1> DEFINE s == State(f, code, last, c, q)
<1>1. [State(g, code, last, c, q) EXCEPT !.view.func = f] = s
  BY DEF State
<1>2. s.view.code = code /\ s.view.last = last /\ s.view.func = f /\ s.cache = c
  BY DEF State
<1>3. Remember(Show(s)) = State(f, f, f, c, q)
  BY ShowIs, RememberIs
<1>4. Decompile(s, focus, FALSE) = State(f, code, last, c, Append(q, RequestFor(f, focus)))
  BY CodeViewAssumption DEF Decompile, AddJob, State, RequestFor
<1>5. SetFunction(State(g, code, last, c, q), f, focus) = OnNewFunction(s, focus)
  BY <1>1 DEF SetFunction
<1>6. OnNewFunction(s, focus) =
        IF code # NoFunc /\ last = f THEN s
        ELSE IF f \in c THEN Remember(Show(s))
        ELSE Decompile(s, focus, FALSE)
  BY <1>2 DEF OnNewFunction
<1> QED
  BY <1>3, <1>4, <1>5, <1>6

(* What a finished decompilation does: nothing when the function shown has no
   code, and else it shows the code and follows the focus. *)
LEMMA DecompReadyIs ==
  ASSUME NEW g, NEW code, NEW last, NEW q, NEW c \in SUBSET Funcs, NEW a \in FocusAddrs
  PROVE  LET after == DecompReady(State(g, code, last, c, q), a)
             moves == g \in c /\ a \notin {NoFunc, g}
         IN  /\ g \notin c => after = State(g, code, last, c, q)
             /\ g \in c /\ a \in {NoFunc, g} => after = State(g, g, g, c, q)
             /\ moves /\ last = a => after = State(a, g, a, c, q)
             /\ moves /\ last # a /\ a \in c => after = State(a, a, a, c, q)
             /\ moves /\ last # a /\ a \notin c =>
                  after = State(a, g, a, c, Append(q, RequestFor(a, a)))
<1> DEFINE s == State(g, code, last, c, q)
           t == State(g, g, last, c, q)
<1>1. s.view.func = g /\ s.cache = c /\ t.view.code = g /\ t.view.func = g
  BY DEF State
<1>2. Show(s) = t /\ Remember(t) = State(g, g, g, c, q)
  BY ShowIs, RememberIs
<1>3. g \notin c => DecompReady(s, a) = s
  BY <1>1 DEF DecompReady
<1>4. g \in c => DecompReady(s, a) = Remember(FocusCore(t, a))
  BY <1>1, <1>2 DEF DecompReady
<1>5. a \in {NoFunc, g} => FocusCore(t, a) = t
  BY <1>1 DEF FocusCore, OnNewAddr
<1>6. ASSUME g \in c, a \notin {NoFunc, g}
      PROVE  FocusCore(t, a) = SetFunction(t, a, a) /\ a \in Funcs /\ g # NoFunc
  BY <1>1, <1>6, CodeViewAssumption DEF FocusCore, OnNewAddr, FocusAddrs
<1>7. ASSUME g \in c, a \notin {NoFunc, g}
      PROVE  /\ last = a => SetFunction(t, a, a) = State(a, g, last, c, q)
             /\ last # a /\ a \in c => SetFunction(t, a, a) = State(a, a, a, c, q)
             /\ last # a /\ a \notin c =>
                  SetFunction(t, a, a) = State(a, g, last, c, Append(q, RequestFor(a, a)))
  <2>1. a \in Funcs /\ g # NoFunc
    BY <1>6, <1>7
  <2>2. last = a => SetFunction(State(g, g, last, c, q), a, a) = State(a, g, last, c, q)
    BY <2>1, SetFunctionIs
  <2>3. last # a /\ a \in c => SetFunction(State(g, g, last, c, q), a, a) = State(a, a, a, c, q)
    BY <2>1, SetFunctionIs
  <2>4. last # a /\ a \notin c =>
          SetFunction(State(g, g, last, c, q), a, a) =
            State(a, g, last, c, Append(q, RequestFor(a, a)))
    BY <2>1, SetFunctionIs
  <2> QED
    BY <2>2, <2>3, <2>4
<1>8. /\ Remember(State(a, g, last, c, q)) = State(a, g, a, c, q)
      /\ Remember(State(a, a, a, c, q)) = State(a, a, a, c, q)
      /\ Remember(State(a, g, last, c, Append(q, RequestFor(a, a)))) =
           State(a, g, a, c, Append(q, RequestFor(a, a)))
  BY RememberIs
<1> HIDE DEF s, t
<1>9. ASSUME g \in c, a \notin {NoFunc, g}
      PROVE  /\ last = a => DecompReady(s, a) = State(a, g, a, c, q)
             /\ last # a /\ a \in c => DecompReady(s, a) = State(a, a, a, c, q)
             /\ last # a /\ a \notin c =>
                  DecompReady(s, a) = State(a, g, a, c, Append(q, RequestFor(a, a)))
  BY <1>4, <1>6, <1>7, <1>8, <1>9
<1> QED
  BY <1>2, <1>3, <1>4, <1>5, <1>9 DEF s
-----------------------------------------------------------------------------
(* What a handler that switches to f leaves. *)
ViewBecomes(f, code, last) == view' = [func |-> f, code |-> code, last |-> last]

Switches(f, focus) ==
  /\ cache' = cache
  /\ \/ /\ view.code # NoFunc /\ view.last = f
        /\ ViewBecomes(f, view.code, view.last) /\ todo' = todo
     \/ f \in cache /\ ViewBecomes(f, f, f) /\ todo' = todo
     \/ /\ f \notin cache
        /\ ViewBecomes(f, view.code, view.last)
        /\ todo' = Append(todo, RequestFor(f, focus))

(* What a handler that follows the focus a of a finished decompilation
   leaves, when the function shown has code. *)
Follows(a) ==
  /\ cache' = cache
  /\ \/ /\ a \in {NoFunc, view.func}
        /\ ViewBecomes(view.func, view.func, view.func) /\ todo' = todo
     \/ /\ a \notin {NoFunc, view.func} /\ view.last = a
        /\ ViewBecomes(a, view.func, a) /\ todo' = todo
     \/ /\ a \notin {NoFunc, view.func} /\ view.last # a /\ a \in cache
        /\ ViewBecomes(a, a, a) /\ todo' = todo
     \/ /\ a \notin {NoFunc, view.func} /\ view.last # a /\ a \notin cache
        /\ ViewBecomes(a, view.func, a)
        /\ todo' = Append(todo, RequestFor(a, a))

KeepsView == view' = view /\ cache' = cache /\ todo' = todo

LEMMA BecomesIs ==
  ASSUME NEW f, NEW code, NEW last, NEW c, NEW q, Becomes(State(f, code, last, c, q))
  PROVE  ViewBecomes(f, code, last) /\ cache' = c /\ todo' = q
  BY DEF Becomes, State, ViewBecomes

LEMMA SwitchStep ==
  ASSUME TypeOK, NEW f \in Funcs, NEW focus, Becomes(SetFunction(GuiState, f, focus))
  PROVE  Switches(f, focus)
<1> DEFINE after == SetFunction(GuiState, f, focus)
           early == view.code # NoFunc /\ view.last = f
<1>1. /\ early => after = State(f, view.code, view.last, cache, todo)
      /\ ~early /\ f \in cache => after = State(f, f, f, cache, todo)
      /\ ~early /\ f \notin cache =>
           after = State(f, view.code, view.last, cache, Append(todo, RequestFor(f, focus)))
  BY GuiStateIs, SetFunctionIs
<1>2. Becomes(after)
  OBVIOUS
<1> HIDE DEF after
<1>3. CASE early
  BY <1>1, <1>2, <1>3, BecomesIs DEF Switches
<1>4. CASE ~early /\ f \in cache
  BY <1>1, <1>2, <1>4, BecomesIs DEF Switches
<1>5. CASE ~early /\ f \notin cache
  BY <1>1, <1>2, <1>5, BecomesIs DEF Switches
<1> QED
  BY <1>3, <1>4, <1>5

LEMMA JumpStep ==
  ASSUME TypeOK, NEW a \in Funcs, Becomes(OnNewAddr(GuiState, a))
  PROVE  KeepsView \/ Switches(a, a)
<1>1. CASE OnNewAddr(GuiState, a) = GuiState
  BY <1>1 DEF Becomes, GuiState, KeepsView
<1>2. CASE OnNewAddr(GuiState, a) = SetFunction(GuiState, a, a)
  BY <1>2, SwitchStep
<1> QED
  BY <1>1, <1>2 DEF OnNewAddr

LEMMA ReadyStep ==
  ASSUME TypeOK, NEW a \in FocusAddrs, Becomes(DecompReady(GuiState, a))
  PROVE  IF view.func \in cache THEN Follows(a) ELSE KeepsView
<1> DEFINE after == DecompReady(GuiState, a)
           g == view.func
           moves == g \in cache /\ a \notin {NoFunc, g}
<1>1. /\ g \notin cache => after = State(g, view.code, view.last, cache, todo)
      /\ g \in cache /\ a \in {NoFunc, g} => after = State(g, g, g, cache, todo)
      /\ moves /\ view.last = a => after = State(a, g, a, cache, todo)
      /\ moves /\ view.last # a /\ a \in cache => after = State(a, a, a, cache, todo)
      /\ moves /\ view.last # a /\ a \notin cache =>
           after = State(a, g, a, cache, Append(todo, RequestFor(a, a)))
  BY GuiStateIs, DecompReadyIs DEF TypeOK
<1>2. Becomes(after)
  OBVIOUS
<1> HIDE DEF after
<1>3. CASE g \notin cache
  <2>1. after = GuiState
    BY <1>1, <1>3, GuiStateIs
  <2> QED
    BY <1>2, <1>3, <2>1 DEF Becomes, GuiState, KeepsView
<1>4. CASE g \in cache /\ a \in {NoFunc, g}
  BY <1>1, <1>2, <1>4, BecomesIs DEF Follows
<1>5. CASE moves /\ view.last = a
  BY <1>1, <1>2, <1>5, BecomesIs DEF Follows
<1>6. CASE moves /\ view.last # a /\ a \in cache
  BY <1>1, <1>2, <1>6, BecomesIs DEF Follows
<1>7. CASE moves /\ view.last # a /\ a \notin cache
  BY <1>1, <1>2, <1>7, BecomesIs DEF Follows
<1> QED
  BY <1>3, <1>4, <1>5, <1>6, <1>7

(* Asking for the function shown, with its code dropped or not. *)
LEMMA AskStep ==
  ASSUME TypeOK, view.func # NoFunc, NEW reset \in BOOLEAN,
         Becomes(Decompile(GuiState, NoFunc, reset))
  PROVE  /\ view' = view /\ cache' \in {cache, cache \ {view.func}}
         /\ todo' = Append(todo, RequestFor(view.func, NoFunc))
  BY DEF Becomes, Decompile, AddJob, GuiState, RequestFor

LEMMA VarecStep ==
  ASSUME TypeOK, NEW job, Becomes(DecompAfterVarec(GuiState, job))
  PROVE  /\ view' = view /\ cache' = cache
         /\ todo' = Append(todo, [kind |-> "decompile", func |-> view.func, focus |-> job.focus])
  BY DEF Becomes, DecompAfterVarec, AddJob, GuiState
-----------------------------------------------------------------------------
(***************************************************************************)
(* Type correctness: the jobs are for functions, since one is asked for     *)
(* only when a function is shown.                                          *)
(***************************************************************************)
LEMMA RequestIsJob ==
  ASSUME NEW f \in Funcs, NEW focus \in FocusAddrs
  PROVE  RequestFor(f, focus) \in Jobs
  BY DEF RequestFor, Jobs, FocusAddrs

LEMMA ViewIsTyped ==
  ASSUME NEW f \in FocusAddrs, NEW code \in FocusAddrs, NEW last \in FocusAddrs,
         ViewBecomes(f, code, last)
  PROVE  /\ view' \in [func : FocusAddrs, code : FocusAddrs, last : FocusAddrs]
         /\ view'.func = f /\ view'.code = code /\ view'.last = last
  BY DEF ViewBecomes

(* What the GUI thread does to the view, the cache and the queue keeps their
   types. *)
GuiTypes ==
  /\ view' \in [func : FocusAddrs, code : FocusAddrs, last : FocusAddrs]
  /\ view'.func # NoFunc /\ cache' \in SUBSET Funcs /\ todo' \in Seq(Jobs)

LEMMA ViewParts ==
  ASSUME TypeOK
  PROVE  /\ view.func \in FocusAddrs /\ view.code \in FocusAddrs /\ view.last \in FocusAddrs
         /\ view = [func |-> view.func, code |-> view.code, last |-> view.last]
         /\ NoFunc \in FocusAddrs /\ Funcs \subseteq FocusAddrs
         /\ \A f \in FocusAddrs : f # NoFunc => f \in Funcs
         /\ NoFunc \notin Funcs
  BY CodeViewAssumption DEF TypeOK, FocusAddrs

LEMMA SwitchTypes ==
  ASSUME TypeOK, NEW f \in Funcs, NEW focus \in FocusAddrs, Switches(f, focus)
  PROVE  GuiTypes
<1>1. f # NoFunc /\ f \in FocusAddrs /\ cache' \in SUBSET Funcs /\ todo \in Seq(Jobs)
  BY ViewParts DEF Switches, TypeOK
<1>2. todo' \in Seq(Jobs)
  BY <1>1, RequestIsJob, AppendProperties DEF Switches
<1>3. ViewBecomes(f, view.code, view.last) \/ ViewBecomes(f, f, f)
  BY DEF Switches
<1>4. /\ view' \in [func : FocusAddrs, code : FocusAddrs, last : FocusAddrs]
      /\ view'.func = f
  BY <1>1, <1>3, ViewParts, ViewIsTyped
<1> QED
  BY <1>1, <1>2, <1>4 DEF GuiTypes

LEMMA FollowTypes ==
  ASSUME TypeOK, view.func \in cache, NEW a \in FocusAddrs, Follows(a)
  PROVE  GuiTypes
<1>1. /\ view.func \in Funcs /\ view.func # NoFunc
      /\ cache' \in SUBSET Funcs /\ todo \in Seq(Jobs)
  BY ViewParts DEF Follows, TypeOK
<1>2. todo' \in Seq(Jobs)
  BY <1>1, ViewParts, RequestIsJob, AppendProperties DEF Follows
<1>3. /\ view' \in [func : FocusAddrs, code : FocusAddrs, last : FocusAddrs]
      /\ view'.func \in {view.func, a} /\ view'.func # NoFunc
  BY <1>1, ViewParts, ViewIsTyped DEF Follows
<1> QED
  BY <1>1, <1>2, <1>3 DEF GuiTypes

LEMMA NoJobs == <<>> \in Seq(Jobs) /\ <<>> \in Seq(Signals) /\ Len(<<>>) = 0
  OBVIOUS

LEMMA InitType == Init => TypeOK
<1> SUFFICES ASSUME Init PROVE TypeOK
  OBVIOUS
<1>1. view \in [func : FocusAddrs, code : FocusAddrs, last : FocusAddrs]
  BY DEF Init, FocusAddrs
<1>2. todo \in Seq(Jobs) /\ running \in Seq(Jobs) /\ signals \in Seq(Signals) /\ Len(running) <= 1
  BY NoJobs DEF Init
<1> QED
  BY <1>1, <1>2 DEF Init, TypeOK

LEMMA AskType ==
  ASSUME TypeOK, GuiTypes,
         UNCHANGED <<ranCca, running, signals, modal, failed>>, asks' = asks + 1
  PROVE  TypeOK'
  BY DEF TypeOK, GuiTypes

LEMMA SignalIsTyped ==
  ASSUME NEW kind \in {"starting", "finished", "exception"}, NEW j \in Jobs
  PROVE  [kind |-> kind, job |-> j] \in Signals
  BY DEF Signals

(* A handler takes a well-formed signal. *)
LEMMA HandleType ==
  ASSUME TypeOK, NEW kind, Handle(kind)
  PROVE  /\ signals # <<>> /\ signals' = Tail(signals) /\ signals' \in Seq(Signals)
         /\ Head(signals) \in Signals /\ Head(signals).kind = kind
         /\ Head(signals).job \in Jobs /\ view.func \in Funcs
         /\ Head(signals) = [kind |-> kind, job |-> Head(signals).job]
<1>1. /\ signals # <<>> /\ signals' = Tail(signals) /\ signals' \in Seq(Signals)
      /\ Head(signals) \in Signals /\ Head(signals).kind = kind
  BY InTail DEF Handle, TypeOK
<1>2. view.func \in Funcs
  BY <1>1, ViewParts DEF TypeOK
<1> QED
  BY <1>1, <1>2 DEF Signals

LEMMA NextType == TypeOK /\ [Next]_vars => TypeOK'
<1> SUFFICES ASSUME TypeOK, [Next]_vars PROVE TypeOK'
  OBVIOUS
<1>1. ASSUME NEW f \in Funcs, NEW focus \in Funcs \cup {NoFunc}, DecompileFunction(f, focus)
      PROVE  TypeOK'
  <2>1. GuiTypes
    BY <1>1, SwitchStep, SwitchTypes DEF DecompileFunction, Ask, FocusAddrs
  <2> QED
    BY <1>1, <2>1, AskType DEF DecompileFunction, Ask
<1>2. ASSUME NEW reset \in BOOLEAN, DecompileCurrent(reset) PROVE TypeOK'
  <2>1. /\ view.func # NoFunc /\ view.func \in Funcs /\ view' = view
        /\ cache' \in {cache, cache \ {view.func}}
        /\ todo' = Append(todo, RequestFor(view.func, NoFunc))
    BY <1>2, AskStep, ViewParts DEF DecompileCurrent, Ask
  <2>2. todo' \in Seq(Jobs)
    BY <2>1, RequestIsJob, ViewParts, AppendProperties DEF TypeOK
  <2>3. GuiTypes
    BY <2>1, <2>2 DEF GuiTypes, TypeOK
  <2> QED
    BY <1>2, <2>3, AskType DEF DecompileCurrent, Ask
<1>3. ASSUME NEW a \in Funcs, JumpTo(a) PROVE TypeOK'
  <2>1. CASE KeepsView
    BY <1>3, <2>1 DEF TypeOK, KeepsView, JumpTo, Ask
  <2>2. CASE Switches(a, a)
    <3>1. GuiTypes
      BY <2>2, SwitchTypes, ViewParts
    <3> QED
      BY <1>3, <3>1, AskType DEF JumpTo, Ask
  <2> QED
    BY <1>3, <2>1, <2>2, JumpStep DEF JumpTo, Ask
<1>4. CASE WorkerStarts
  <2>1. /\ Head(todo) \in Jobs /\ Tail(todo) \in Seq(Jobs) /\ view.func # NoFunc
    BY <1>4, InTail DEF WorkerStarts, TypeOK
  <2>2. <<Head(todo)>> \in Seq(Jobs) /\ Len(<<Head(todo)>>) <= 1
    BY <2>1
  <2>3. signals' \in Seq(Signals)
    BY <1>4, <2>1, SignalIsTyped, AppendProperties DEF WorkerStarts, TypeOK
  <2> QED
    BY <1>4, <2>1, <2>2, <2>3 DEF WorkerStarts, TypeOK
<1>5. CASE WorkerEnds \/ WorkerFails
  <2>1. /\ Head(running) \in Jobs /\ view.func # NoFunc
    BY <1>5, InSingle DEF WorkerEnds, WorkerFails, TypeOK
  <2>2. signals' \in Seq(Signals)
    <3>1. PICK kind \in {"finished", "exception"} :
             signals' = Append(signals, [kind |-> kind, job |-> Head(running)])
      BY <1>5 DEF WorkerEnds, WorkerFails, Emit
    <3>2. [kind |-> kind, job |-> Head(running)] \in Signals
      BY <2>1, SignalIsTyped
    <3> QED
      BY <3>1, <3>2, AppendProperties DEF TypeOK
  <2>3. cache' \in SUBSET Funcs /\ ranCca' \in SUBSET Funcs
    BY <1>5, <2>1 DEF WorkerEnds, WorkerFails, TypeOK, Jobs
  <2>4. running' \in Seq(Jobs) /\ Len(running') <= 1
    <3>1. running' = <<>>
      BY <1>5 DEF WorkerEnds, WorkerFails
    <3> QED
      BY <3>1, NoJobs
  <2> QED
    BY <1>5, <2>1, <2>2, <2>3, <2>4 DEF WorkerEnds, WorkerFails, TypeOK
<1>6. CASE GuiJobStarting \/ GuiJobException
  <2>1. signals' \in Seq(Signals) /\ view.func # NoFunc
    BY <1>6, HandleType, ViewParts DEF GuiJobStarting, GuiJobException
  <2>2. modal' \in BOOLEAN
    BY <1>6 DEF GuiJobStarting, GuiJobException
  <2> QED
    BY <1>6, <2>1, <2>2 DEF GuiJobStarting, GuiJobException, TypeOK
<1>7. CASE GuiVarecFinished
  <2> DEFINE job == Head(signals).job
             new == [kind |-> "decompile", func |-> view.func, focus |-> job.focus]
  <2>1. signals' \in Seq(Signals) /\ job \in Jobs /\ view.func \in Funcs
    BY <1>7, HandleType DEF GuiVarecFinished
  <2>2. view' = view /\ cache' = cache /\ todo' = Append(todo, new)
    BY <1>7, VarecStep DEF GuiVarecFinished
  <2>3. new \in Jobs
    BY <2>1 DEF Jobs
  <2>4. todo' \in Seq(Jobs)
    BY <2>2, <2>3, AppendProperties DEF TypeOK
  <2> QED
    BY <1>7, <2>1, <2>2, <2>4, ViewParts DEF GuiVarecFinished, TypeOK
<1>8. CASE GuiDecompileFinished
  <2> DEFINE job == Head(signals).job
  <2>1. signals' \in Seq(Signals) /\ job \in Jobs /\ view.func \in Funcs
    BY <1>8, HandleType DEF GuiDecompileFinished
  <2>2. job.focus \in FocusAddrs
    BY <2>1 DEF Jobs, FocusAddrs
  <2>3. IF view.func \in cache THEN Follows(job.focus) ELSE KeepsView
    BY <1>8, <2>2, ReadyStep DEF GuiDecompileFinished
  <2>4. GuiTypes
    <3>1. CASE view.func \in cache
      BY <2>2, <2>3, <3>1, FollowTypes
    <3>2. CASE view.func \notin cache
      BY <2>1, <2>3, <3>2, ViewParts DEF KeepsView, GuiTypes, TypeOK
    <3> QED
      BY <3>1, <3>2
  <2> QED
    BY <1>8, <2>1, <2>4 DEF GuiDecompileFinished, TypeOK, GuiTypes
<1>9. CASE UNCHANGED vars
  BY <1>9 DEF vars, TypeOK
<1> QED
  BY <1>1, <1>2, <1>3, <1>4, <1>5, <1>6, <1>7, <1>8, <1>9 DEF Next, Worker, Gui
-----------------------------------------------------------------------------
(***************************************************************************)
(* What a handler of the GUI thread has to show for each conjunct of the    *)
(* invariant: it adds at most one job, and takes at most one signal.        *)
(***************************************************************************)
Adds(j) == todo' = Append(todo, j)
GuiKeeps ==
  /\ UNCHANGED <<running, ranCca>>
  /\ signals' = signals \/ (signals # <<>> /\ signals' = Tail(signals))

LEMMA AddedJob ==
  ASSUME TypeOK, GuiKeeps, NEW j \in Jobs, Adds(j), NEW x
  PROVE  Unfinished(x)' <=> Unfinished(x) \/ x = j
<1>1. In(Append(todo, j), x) <=> In(todo, x) \/ x = j
  BY InAppend DEF TypeOK
<1> QED
  BY <1>1 DEF Unfinished, Adds, GuiKeeps, In

LEMMA SameQueue ==
  ASSUME UNCHANGED <<running, todo>>, NEW x
  PROVE  Unfinished(x)' <=> Unfinished(x)
  BY DEF Unfinished, In

LEMMA SameSignals ==
  ASSUME UNCHANGED signals, NEW x
  PROVE  Finished(x)' <=> Finished(x)
  BY DEF Finished, In

LEMMA TakenSignal ==
  ASSUME TypeOK, signals # <<>>, signals' = Tail(signals), NEW x
  PROVE  Finished(x) <=> Finished(x)' \/ FinishedSignal(x) = Head(signals)
<1>1. In(signals, FinishedSignal(x)) <=>
        In(Tail(signals), FinishedSignal(x)) \/ FinishedSignal(x) = Head(signals)
  BY InTail DEF TypeOK
<1> QED
  BY <1>1 DEF Finished, In

LEMMA FewerSignals ==
  ASSUME TypeOK, GuiKeeps, NEW x, Finished(x)'
  PROVE  Finished(x)
  BY TakenSignal, SameSignals DEF GuiKeeps

(* The job of a finished signal that is taken: another one is still there. *)
LEMMA OtherSignal ==
  ASSUME TypeOK, NEW j \in Jobs, NEW x \in Jobs, x # j, Finished(x), signals # <<>>,
         signals' = Tail(signals), Head(signals) = [kind |-> "finished", job |-> j]
  PROVE  Finished(x)'
<1>1. FinishedSignal(x) # Head(signals)
  BY DEF FinishedSignal
<1> QED
  BY <1>1, TakenSignal

GoodFocus(j) ==
  /\ j.kind = "varec" => j.focus \in {j.func, NoFunc}
  /\ j.kind = "decompile" => j.focus \in Ready \cup {NoFunc}

LEMMA FocusStays ==
  ASSUME TypeOK, GuiKeeps, FocusIsReady,
         todo' = todo \/ \E j \in Jobs : Adds(j) /\ GoodFocus(j)
  PROVE  FocusIsReady'
<1>1. Ready' = Ready /\ ranCca' = ranCca
  BY DEF Ready, GuiKeeps
<1> SUFFICES ASSUME NEW x \in Jobs
             PROVE  /\ (Unfinished(x)' \/ Finished(x)') => GoodFocus(x)
                    /\ Finished(x)' /\ x.kind = "varec" => x.func \in ranCca
  BY <1>1 DEF FocusIsReady, GoodFocus
<1>2. (Unfinished(x) \/ Finished(x)) => GoodFocus(x)
  BY DEF FocusIsReady, GoodFocus
<1>3. Finished(x)' => Finished(x)
  BY FewerSignals
<1>4. Unfinished(x)' => Unfinished(x) \/ GoodFocus(x)
  BY AddedJob, SameQueue DEF GuiKeeps
<1> QED
  BY <1>2, <1>3, <1>4 DEF FocusIsReady

(* The view moves to a function that is ready, or behind its recovery. *)
LEMMA RecoveryStays ==
  ASSUME TypeOK, GuiKeeps, RecoveryIsFirst, cache' \subseteq cache,
         \/ /\ todo' = todo
            /\ view'.func = view.func \/ view'.func \in Ready
         \/ \E j \in Jobs :
              /\ Adds(j)
              /\ j.kind = "decompile" => j.func \in Ready \/ j.func = view.func
              /\ \/ view'.func = view.func \/ view'.func \in Ready
                 \/ j.kind = "varec" /\ j.func = view'.func
  PROVE  RecoveryIsFirst'
<1>1. Ready' = Ready /\ cache' \subseteq Ready /\ running' = running
  BY DEF Ready, GuiKeeps, RecoveryIsFirst
<1>2. CASE /\ todo' = todo
           /\ view'.func = view.func \/ view'.func \in Ready
  BY <1>1, <1>2 DEF RecoveryIsFirst, RecoveryRuns, RecoveryQueued
<1>3. ASSUME NEW j \in Jobs, Adds(j),
             j.kind = "decompile" => j.func \in Ready \/ j.func = view.func,
             \/ view'.func = view.func \/ view'.func \in Ready
             \/ j.kind = "varec" /\ j.func = view'.func
      PROVE  RecoveryIsFirst'
  <2>1. PICK n \in Nat : n = Len(todo)
    BY LenProperties DEF TypeOK
  <2>2. /\ Len(todo') = n + 1 /\ todo'[n + 1] = j
        /\ \A i \in 1 .. n : todo'[i] = todo[i]
    BY <1>3, <2>1, AppendProperties DEF Adds, TypeOK
  <2>3. ASSUME NEW i \in 0 .. n, NEW f
        PROVE  /\ RecoveryQueued(f, i) => RecoveryQueued(f, i)'
               /\ RecoveryQueued(f, i)' => RecoveryQueued(f, n + 1)'
               /\ RecoveryRuns(f) => RecoveryRuns(f)'
    BY <1>1, <2>2 DEF RecoveryQueued, RecoveryRuns
  <2>4. ASSUME NEW f \in Funcs \ Ready, NEW i \in 1 .. n + 1,
               todo'[i].kind = "decompile", todo'[i].func = f
        PROVE  RecoveryRuns(f)' \/ RecoveryQueued(f, i - 1)'
    <3>1. CASE i = n + 1
      <4>1. f = view.func
        BY <1>3, <2>2, <2>4, <3>1
      <4>2. RecoveryRuns(f) \/ RecoveryQueued(f, n)
        BY <2>1, <4>1 DEF RecoveryIsFirst
      <4>3. n \in 0 .. n /\ i - 1 = n
        BY <3>1
      <4> QED
        BY <2>3, <4>2, <4>3
    <3>2. CASE i \in 1 .. n
      <4>1. RecoveryRuns(f) \/ RecoveryQueued(f, i - 1)
        BY <2>1, <2>2, <2>4, <3>2 DEF RecoveryIsFirst
      <4>2. i - 1 \in 0 .. n
        BY <3>2
      <4> QED
        BY <2>3, <4>1, <4>2
    <3> QED
      BY <3>1, <3>2
  <2>5. ASSUME NEW f \in Funcs \ Ready, view'.func = f
        PROVE  RecoveryRuns(f)' \/ RecoveryQueued(f, n + 1)'
    <3>1. CASE view.func = f
      <4>1. RecoveryRuns(f) \/ RecoveryQueued(f, n)
        BY <2>1, <3>1 DEF RecoveryIsFirst
      <4>2. n \in 0 .. n
        OBVIOUS
      <4> QED
        BY <2>3, <4>1, <4>2
    <3>2. CASE j.kind = "varec" /\ j.func = f
      BY <2>2, <3>2 DEF RecoveryQueued
    <3> QED
      BY <1>3, <2>5, <3>1, <3>2
  <2>6. \A f \in Funcs \ Ready :
          /\ \A i \in 1 .. Len(todo') :
               todo'[i].kind = "decompile" /\ todo'[i].func = f =>
                 RecoveryRuns(f)' \/ RecoveryQueued(f, i - 1)'
          /\ view'.func = f => RecoveryRuns(f)' \/ RecoveryQueued(f, Len(todo))'
    BY <2>2, <2>4, <2>5
  <2>7. /\ \A i \in 1 .. Len(running') :
             running'[i].kind = "decompile" => running'[i].func \in Ready'
        /\ cache' \subseteq Ready'
    BY <1>1 DEF RecoveryIsFirst
  <2> QED
    BY <1>1, <2>6, <2>7 DEF RecoveryIsFirst
<1> QED
  BY <1>2, <1>3

(* What is shown last has code, is what it was, or is decompiled again. *)
LEMMA LastStays ==
  ASSUME TypeOK, GuiKeeps, RecoveryIsFirst, LastComesBack,
         \/ todo' = todo \/ \E j \in Jobs : Adds(j),
         \/ view'.last \in cache /\ cache' = cache
         \/ view'.last = view.last /\ cache' = cache
         \/ view'.last = view.last /\ cache' = cache \ {view.func} /\ view.func # view.last
         \/ /\ view'.last \in Ready
            /\ \E j \in Jobs : Adds(j) /\ j.kind = "decompile" /\ j.func = view'.last
  PROVE  LastComesBack'
<1>1. Ready' = Ready
  BY DEF Ready, GuiKeeps
<1>2. ASSUME NEW x, Unfinished(x) PROVE Unfinished(x)'
  BY <1>2, AddedJob, SameQueue DEF GuiKeeps
<1>3. CASE view'.last \in cache /\ cache' = cache
  BY <1>1, <1>3 DEF LastComesBack, RecoveryIsFirst
<1>4. CASE /\ view'.last = view.last
           /\ cache' = cache \/ (cache' = cache \ {view.func} /\ view.func # view.last)
  BY <1>1, <1>2, <1>4 DEF LastComesBack
<1>5. ASSUME view'.last \in Ready,
             NEW j \in Jobs, Adds(j), j.kind = "decompile", j.func = view'.last
      PROVE  LastComesBack'
  <2>1. Unfinished(j)'
    BY <1>5, AddedJob
  <2> QED
    BY <1>1, <1>5, <2>1 DEF LastComesBack
<1> QED
  BY <1>3, <1>4, <1>5
-----------------------------------------------------------------------------
(* A request is good: its focus is in the function, which is ready when it is
   decompiled at once. *)
LEMMA RequestIsGood ==
  ASSUME NEW f \in Funcs, NEW focus \in {f, NoFunc}
  PROVE  LET j == RequestFor(f, focus) IN
         /\ GoodFocus(j) /\ j.func = f /\ j.focus = focus
         /\ j.kind = "varec" \/ (j.kind = "decompile" /\ f \in Ready)
         /\ f \in Ready => j.kind = "decompile"
  BY DEF RequestFor, GoodFocus, Ready

(* Another job waits when a finished decompilation cannot show anything or
   moves the view away. *)
LEMMA AnotherJob ==
  ASSUME TypeOK, Settles, view.func \in Funcs,
         NEW j \in Jobs, j.kind = "decompile", signals # <<>>,
         signals' = Tail(signals), Head(signals) = [kind |-> "finished", job |-> j],
         UNCHANGED <<running, todo>>,
         \/ view.func \notin cache
         \/ view.func # view.last /\ j.focus \notin {view.func, NoFunc}
  PROVE  \E x \in Jobs : Unfinished(x)' \/ Finished(x)'
<1>1. ASSUME NEW x \in Jobs, x # j, Unfinished(x) \/ Finished(x)
      PROVE  Unfinished(x)' \/ Finished(x)'
  BY <1>1, SameQueue, OtherSignal
<1>2. ASSUME NEW x \in Jobs, Unfinished(x) PROVE Unfinished(x)'
  BY <1>2, SameQueue
<1>3. CASE view.func # view.last
  <2>1. PICK x \in Jobs : Serves(x, view.func)
    BY <1>3 DEF Settles, FuncIsServed
  <2>2. Unfinished(x) \/ Finished(x)
    BY <2>1 DEF Serves
  <2>3. CASE Unfinished(x)
    BY <1>2, <2>3
  <2>4. CASE ~Unfinished(x)
    <3>1. x # j
      BY <2>1, <2>4 DEF Serves
    <3> QED
      BY <1>1, <2>2, <3>1
  <2> QED
    BY <2>3, <2>4
<1>4. CASE view.func = view.last
  <2>1. PICK x \in Jobs : Unfinished(x)
    BY <1>4, ViewParts DEF Settles, LastComesBack
  <2> QED
    BY <1>2, <2>1
<1> QED
  BY <1>3, <1>4

LEMMA SwitchSettles ==
  ASSUME TypeOK, Settles, NEW f \in Funcs, NEW focus \in {f, NoFunc}, Switches(f, focus),
         UNCHANGED <<running, ranCca, signals>>
  PROVE  Settles'
<1>j. PICK j \in Jobs : j = RequestFor(f, focus)
  BY RequestIsJob, ViewParts
<1>1. GuiKeeps /\ cache' = cache /\ f \in FocusAddrs
  BY ViewParts DEF GuiKeeps, Switches
<1>2. /\ GoodFocus(j) /\ j.func = f /\ j.focus = focus
      /\ j.kind = "varec" \/ (j.kind = "decompile" /\ f \in Ready)
  BY <1>j, RequestIsGood
<1>3. CASE /\ view.code # NoFunc /\ view.last = f
           /\ ViewBecomes(f, view.code, view.last) /\ todo' = todo
  <2>1. view'.func = f /\ view'.code = view.code /\ view'.last = view.last /\ f # NoFunc
    BY <1>1, <1>3, ViewIsTyped, ViewParts
  <2>2. f \in Ready
    BY <1>3, <2>1 DEF Settles, LastComesBack
  <2>3. FocusIsReady'
    BY <1>1, <1>3, FocusStays DEF Settles
  <2>4. RecoveryIsFirst'
    BY <1>1, <1>3, <2>1, <2>2, RecoveryStays DEF Settles
  <2>5. LastComesBack'
    BY <1>1, <1>3, <2>1, LastStays DEF Settles
  <2>6. FuncIsServed'
    BY <1>3, <2>1 DEF FuncIsServed
  <2>7. CodeIsReplaced'
    BY <1>3, <2>1, SameQueue, SameSignals DEF Settles, CodeIsReplaced
  <2> QED
    BY <2>3, <2>4, <2>5, <2>6, <2>7 DEF Settles
<1>4. CASE f \in cache /\ ViewBecomes(f, f, f) /\ todo' = todo
  <2>1. view'.func = f /\ view'.code = f /\ view'.last = f
    BY <1>1, <1>4, ViewIsTyped
  <2>2. f \in Ready
    BY <1>4 DEF Settles, RecoveryIsFirst
  <2>3. FocusIsReady'
    BY <1>1, <1>4, FocusStays DEF Settles
  <2>4. RecoveryIsFirst'
    BY <1>1, <1>4, <2>1, <2>2, RecoveryStays DEF Settles
  <2>5. LastComesBack'
    BY <1>1, <1>4, <2>1, LastStays DEF Settles
  <2>6. FuncIsServed' /\ CodeIsReplaced'
    BY <2>1 DEF FuncIsServed, CodeIsReplaced
  <2> QED
    BY <2>3, <2>4, <2>5, <2>6 DEF Settles
<1>5. CASE ViewBecomes(f, view.code, view.last) /\ Adds(j)
  <2>1. view'.func = f /\ view'.code = view.code /\ view'.last = view.last
    BY <1>1, <1>5, ViewIsTyped, ViewParts
  <2>2. Unfinished(j)'
    BY <1>1, <1>5, AddedJob
  <2>3. FocusIsReady'
    BY <1>1, <1>2, <1>5, FocusStays DEF Settles
  <2>4. RecoveryIsFirst'
    BY <1>1, <1>2, <1>5, <2>1, RecoveryStays DEF Settles
  <2>5. LastComesBack'
    BY <1>1, <1>5, <2>1, LastStays DEF Settles
  <2>6. Serves(j, f)'
    BY <1>2, <2>2 DEF Serves
  <2>7. FuncIsServed' /\ CodeIsReplaced'
    BY <1>1, <2>1, <2>2, <2>6 DEF FuncIsServed, CodeIsReplaced
  <2> QED
    BY <2>3, <2>4, <2>5, <2>7 DEF Settles
<1> QED
  BY <1>j, <1>3, <1>4, <1>5 DEF Switches, Adds

LEMMA AskSettles ==
  ASSUME TypeOK, Settles, view.func # NoFunc, view' = view,
         cache' \in {cache, cache \ {view.func}},
         todo' = Append(todo, RequestFor(view.func, NoFunc)),
         UNCHANGED <<running, ranCca, signals>>
  PROVE  Settles'
<1>f. PICK f \in Funcs : f = view.func
  BY ViewParts
<1>j. PICK j \in Jobs : j = RequestFor(f, NoFunc)
  BY RequestIsJob, ViewParts
<1>1. GuiKeeps /\ Adds(j) /\ view'.func = f
  BY <1>f, <1>j DEF GuiKeeps, Adds
<1>2. /\ GoodFocus(j) /\ j.func = f /\ j.focus = NoFunc
      /\ j.kind = "varec" \/ (j.kind = "decompile" /\ f \in Ready)
      /\ f \in Ready => j.kind = "decompile"
  BY <1>j, RequestIsGood
<1>3. Unfinished(j)'
  BY <1>1, AddedJob
<1>4. FocusIsReady'
  BY <1>1, <1>2, FocusStays DEF Settles
<1>5. RecoveryIsFirst'
  BY <1>1, <1>2, RecoveryStays DEF Settles
<1>6. LastComesBack'
  <2>1. CASE view.func # view.last
    BY <1>1, <2>1, LastStays DEF Settles
  <2>2. CASE view.func = view.last
    <3>1. view.last \in Ready
      BY <1>1, <2>2 DEF Settles, LastComesBack
    <3> QED
      BY <1>f, <1>1, <1>2, <2>2, <3>1, LastStays DEF Settles
  <2> QED
    BY <2>1, <2>2
<1>7. Serves(j, f)'
  BY <1>2, <1>3 DEF Serves
<1>8. FuncIsServed' /\ CodeIsReplaced'
  BY <1>1, <1>3, <1>7 DEF FuncIsServed, CodeIsReplaced
<1> QED
  BY <1>4, <1>5, <1>6, <1>8 DEF Settles

(* A finished variable recovery is followed by the decompilation of the
   function shown, with its focus. *)
LEMMA VarecSettles ==
  ASSUME TypeOK, Settles, view.func \in Funcs, signals # <<>>, signals' = Tail(signals),
         NEW job \in Jobs, Head(signals) = [kind |-> "finished", job |-> job],
         job.kind = "varec", view' = view, cache' = cache,
         todo' = Append(todo, [kind |-> "decompile", func |-> view.func, focus |-> job.focus]),
         UNCHANGED <<running, ranCca>>
  PROVE  Settles'
<1>f. PICK f \in Funcs : f = view.func
  OBVIOUS
<1> DEFINE j == [kind |-> "decompile", func |-> f, focus |-> job.focus]
<1>1. /\ j \in Jobs /\ j.kind = "decompile" /\ j.func = f /\ j.focus = job.focus
      /\ job.func \in Funcs
  BY DEF Jobs
<1> HIDE DEF j
<1>2. GuiKeeps /\ Adds(j) /\ view'.func = f /\ view'.last = view.last /\ view'.code = view.code
  BY <1>f DEF GuiKeeps, Adds, j
<1>3. Finished(job)
  BY TakenSignal DEF FinishedSignal
<1>4. job.focus \in {job.func, NoFunc} /\ job.func \in ranCca
  BY <1>3 DEF Settles, FocusIsReady
<1>5. GoodFocus(j)
  BY <1>1, <1>4 DEF GoodFocus, Ready
<1>6. Unfinished(j)'
  BY <1>1, <1>2, AddedJob
<1>7. FocusIsReady'
  BY <1>1, <1>2, <1>5, FocusStays DEF Settles
<1>8. RecoveryIsFirst'
  BY <1>f, <1>1, <1>2, RecoveryStays DEF Settles
<1>9. LastComesBack'
  BY <1>1, <1>2, LastStays DEF Settles
<1>10. FuncIsServed'
  <2> SUFFICES ASSUME f # view.last PROVE \E x \in Jobs : Serves(x, f)'
    BY <1>2 DEF FuncIsServed
  <2>1. PICK x \in Jobs : Serves(x, f)
    BY <1>f DEF Settles, FuncIsServed
  <2>2. CASE x = job
    <3>1. Serves(j, f)'
      BY <1>1, <1>6, <2>1, <2>2 DEF Serves
    <3> QED
      BY <1>1, <3>1
  <2>3. CASE x # job
    <3>1. /\ Unfinished(x) => Unfinished(x)'
          /\ Finished(x) => Finished(x)'
      BY <1>1, <1>2, <2>3, AddedJob, OtherSignal
    <3>2. Serves(x, f)'
      BY <2>1, <3>1 DEF Serves
    <3> QED
      BY <3>2
  <2> QED
    BY <2>2, <2>3
<1>11. CodeIsReplaced'
  BY <1>1, <1>6 DEF CodeIsReplaced
<1> QED
  BY <1>7, <1>8, <1>9, <1>10, <1>11 DEF Settles

(* A finished decompilation that shows nothing. *)
LEMMA NothingShownSettles ==
  ASSUME TypeOK, Settles, view.func \in Funcs, signals # <<>>, signals' = Tail(signals),
         NEW job \in Jobs, Head(signals) = [kind |-> "finished", job |-> job],
         job.kind = "decompile", view.func \notin cache, KeepsView,
         UNCHANGED <<running, ranCca>>
  PROVE  Settles'
<1>f. PICK f \in Funcs : f = view.func
  OBVIOUS
<1>1. /\ GuiKeeps /\ view'.func = f /\ view'.last = view.last /\ view'.code = view.code
      /\ cache' = cache /\ todo' = todo
  BY <1>f DEF GuiKeeps, KeepsView
<1>2. FocusIsReady'
  BY <1>1, FocusStays DEF Settles
<1>3. RecoveryIsFirst'
  BY <1>f, <1>1, RecoveryStays DEF Settles
<1>4. LastComesBack'
  BY <1>1, LastStays DEF Settles
<1>5. FuncIsServed'
  <2> SUFFICES ASSUME f # view.last PROVE \E x \in Jobs : Serves(x, f)'
    BY <1>1 DEF FuncIsServed
  <2>1. PICK x \in Jobs : Serves(x, f)
    BY <1>f DEF Settles, FuncIsServed
  <2>2. Unfinished(x) => Unfinished(x)'
    BY <1>1, SameQueue
  <2>3. x.kind = "varec" /\ Finished(x) => Finished(x)'
    BY OtherSignal
  <2>4. Serves(x, f)'
    BY <1>f, <1>1, <2>1, <2>2, <2>3 DEF Serves
  <2> QED
    BY <2>4
<1>6. CodeIsReplaced'
  BY <1>1, AnotherJob DEF CodeIsReplaced
<1> QED
  BY <1>2, <1>3, <1>4, <1>5, <1>6 DEF Settles

(* A finished decompilation that shows code and follows its focus. *)
LEMMA FollowSettles ==
  ASSUME TypeOK, Settles, view.func \in Funcs, signals # <<>>, signals' = Tail(signals),
         NEW job \in Jobs, Head(signals) = [kind |-> "finished", job |-> job],
         job.kind = "decompile", view.func \in cache, Follows(job.focus),
         UNCHANGED <<running, ranCca>>
  PROVE  Settles'
<1>f. PICK f \in Funcs : f = view.func
  OBVIOUS
<1>a. PICK a \in FocusAddrs : a = job.focus
  BY DEF Jobs, FocusAddrs
<1>1. GuiKeeps /\ cache' = cache
  BY DEF GuiKeeps, Follows
<1>2. f \in FocusAddrs /\ f \in Ready /\ f \in cache
  BY <1>f, ViewParts DEF Settles, RecoveryIsFirst
<1>3. Finished(job)
  BY TakenSignal DEF FinishedSignal
<1>4. a \in Ready \cup {NoFunc}
  BY <1>a, <1>3 DEF Settles, FocusIsReady
<1>5. CASE a \in {NoFunc, f} /\ ViewBecomes(f, f, f) /\ todo' = todo
  <2>1. view'.func = f /\ view'.code = f /\ view'.last = f
    BY <1>2, <1>5, ViewIsTyped
  <2>2. FocusIsReady' /\ RecoveryIsFirst' /\ LastComesBack'
    BY <1>1, <1>2, <1>5, <2>1, FocusStays, RecoveryStays, LastStays DEF Settles
  <2>3. FuncIsServed' /\ CodeIsReplaced'
    BY <2>1 DEF FuncIsServed, CodeIsReplaced
  <2> QED
    BY <2>2, <2>3 DEF Settles
<1>6. CASE a \notin {NoFunc, f} /\ view.last = a /\ ViewBecomes(a, f, a) /\ todo' = todo
  <2>1. view'.func = a /\ view'.code = f /\ view'.last = a /\ a \in Ready
    BY <1>2, <1>4, <1>6, ViewIsTyped
  <2>2. FocusIsReady' /\ RecoveryIsFirst' /\ LastComesBack'
    BY <1>1, <1>2, <1>6, <2>1, FocusStays, RecoveryStays, LastStays DEF Settles
  <2>3. FuncIsServed'
    BY <2>1 DEF FuncIsServed
  <2>4. CodeIsReplaced'
    <3>1. view.func # view.last /\ job.focus \notin {view.func, NoFunc}
      BY <1>f, <1>a, <1>6
    <3> QED
      BY <1>6, <3>1, AnotherJob DEF CodeIsReplaced
  <2> QED
    BY <2>2, <2>3, <2>4 DEF Settles
<1>7. CASE a \notin {NoFunc, f} /\ a \in cache /\ ViewBecomes(a, a, a) /\ todo' = todo
  <2>1. view'.func = a /\ view'.code = a /\ view'.last = a /\ a \in Ready
    BY <1>4, <1>7, ViewIsTyped
  <2>2. FocusIsReady' /\ RecoveryIsFirst' /\ LastComesBack'
    BY <1>1, <1>2, <1>7, <2>1, FocusStays, RecoveryStays, LastStays DEF Settles
  <2>3. FuncIsServed' /\ CodeIsReplaced'
    BY <2>1 DEF FuncIsServed, CodeIsReplaced
  <2> QED
    BY <2>2, <2>3 DEF Settles
<1>8. CASE a \notin {NoFunc, f} /\ ViewBecomes(a, f, a) /\ Adds(RequestFor(a, a))
  <2>1. view'.func = a /\ view'.code = f /\ view'.last = a /\ a \in Ready /\ a \in Funcs
    BY <1>2, <1>4, <1>8, ViewIsTyped, ViewParts
  <2>2. PICK j \in Jobs : j = RequestFor(a, a)
    BY <2>1, RequestIsJob
  <2>3. GoodFocus(j) /\ j.func = a /\ j.kind = "decompile" /\ Adds(j)
    BY <1>8, <2>1, <2>2, RequestIsGood
  <2>4. FocusIsReady'
    BY <1>1, <2>3, FocusStays DEF Settles
  <2>5. RecoveryIsFirst'
    BY <1>1, <2>1, <2>3, RecoveryStays DEF Settles
  <2>6. LastComesBack'
    BY <1>1, <2>1, <2>3, LastStays DEF Settles
  <2>7. Unfinished(j)'
    BY <1>1, <2>3, AddedJob
  <2>8. FuncIsServed' /\ CodeIsReplaced'
    BY <2>1, <2>7 DEF FuncIsServed, CodeIsReplaced
  <2> QED
    BY <2>4, <2>5, <2>6, <2>8 DEF Settles
<1> QED
  BY <1>f, <1>a, <1>5, <1>6, <1>7, <1>8 DEF Follows, Adds
-----------------------------------------------------------------------------
(* The worker moves the first job of the queue to its hands. *)
LEMMA StartSettles ==
  ASSUME TypeOK, Settles, WorkerStarts
  PROVE  Settles'
<1>j. PICK j \in Jobs : j = Head(todo)
  BY InTail DEF WorkerStarts, TypeOK
<1>1. /\ running = <<>> /\ running' = <<j>> /\ todo' = Tail(todo) /\ todo # <<>>
      /\ signals' = Append(signals, [kind |-> "starting", job |-> j])
      /\ UNCHANGED <<view, cache, ranCca>>
  BY <1>j DEF WorkerStarts
<1>2. ASSUME NEW x PROVE Unfinished(x)' <=> Unfinished(x)
  <2>1. In(todo, x) <=> In(Tail(todo), x) \/ x = j
    BY <1>j, <1>1, InTail DEF TypeOK
  <2>2. In(<<j>>, x) <=> x = j
    BY DEF In
  <2>3. ~In(running, x)
    BY <1>1, InEmpty
  <2>4. Unfinished(x)' <=> In(<<j>>, x) \/ In(Tail(todo), x)
    BY <1>1 DEF Unfinished, In
  <2> QED
    BY <2>1, <2>2, <2>3, <2>4 DEF Unfinished
<1>3. ASSUME NEW x PROVE Finished(x)' <=> Finished(x)
  <2> DEFINE s == [kind |-> "starting", job |-> j]
  <2>1. s \in Signals /\ FinishedSignal(x) # s
    BY SignalIsTyped DEF FinishedSignal
  <2> HIDE DEF s
  <2>2. In(Append(signals, s), FinishedSignal(x)) <=>
          In(signals, FinishedSignal(x)) \/ FinishedSignal(x) = s
    BY <2>1, InAppend DEF TypeOK
  <2>3. Finished(x)' <=> In(Append(signals, s), FinishedSignal(x))
    BY <1>1 DEF Finished, In, s, FinishedSignal
  <2> QED
    BY <2>1, <2>2, <2>3 DEF Finished
<1>4. Ready' = Ready
  BY <1>1 DEF Ready
<1>5. FocusIsReady'
  BY <1>1, <1>2, <1>3, <1>4 DEF Settles, FocusIsReady
<1>6. LastComesBack'
  BY <1>1, <1>2, <1>4 DEF Settles, LastComesBack
<1>7. FuncIsServed'
  <2>1. ASSUME NEW x, NEW f, Serves(x, f) PROVE Serves(x, f)'
    BY <1>1, <1>2, <1>3, <2>1 DEF Serves
  <2>2. PICK f : f = view.func
    OBVIOUS
  <2>3. ASSUME f # view.last PROVE \E x \in Jobs : Serves(x, f)'
    BY <2>1, <2>2, <2>3 DEF Settles, FuncIsServed
  <2> QED
    BY <1>1, <2>2, <2>3 DEF FuncIsServed
<1>8. CodeIsReplaced'
  BY <1>1, <1>2, <1>3 DEF Settles, CodeIsReplaced
<1>9. RecoveryIsFirst'
  <2>1. PICK n \in Nat : n = Len(todo) - 1
    <3>1. todo \in Seq(Jobs) /\ todo # <<>>
      BY <1>1 DEF TypeOK
    <3>2. Len(todo) \in Nat /\ Len(todo) # 0
      BY <3>1, EmptySeq, LenProperties
    <3>3. Len(todo) - 1 \in Nat
      BY <3>2
    <3> QED
      BY <3>3
  <2>2. /\ todo[1] = j /\ Len(todo) = n + 1 /\ Len(todo') = n
        /\ \A i \in 1 .. n : todo'[i] = todo[i + 1]
    BY <1>j, <1>1, <2>1, HeadTailProperties DEF TypeOK
  <2>3. running'[1] = j /\ Len(running') = 1 /\ Len(running) = 0
    BY <1>1
  <2>4. ASSUME NEW i \in 0 .. n, NEW f, RecoveryQueued(f, i + 1) \/ RecoveryRuns(f)
        PROVE  RecoveryRuns(f)' \/ RecoveryQueued(f, i)'
    <3>1. PICK k \in 1 .. i + 1 : todo[k].kind = "varec" /\ todo[k].func = f
      BY <2>3, <2>4 DEF RecoveryQueued, RecoveryRuns
    <3>2. CASE k = 1
      BY <2>2, <2>3, <3>1, <3>2 DEF RecoveryRuns
    <3>3. CASE k # 1
      <4>1. PICK m \in 1 .. i : k = m + 1
        <5>1. k - 1 \in 1 .. i /\ k = (k - 1) + 1
          BY <3>3
        <5> QED
          BY <5>1
      <4>2. todo'[m] = todo[k]
        BY <2>2, <4>1
      <4> QED
        BY <3>1, <4>1, <4>2 DEF RecoveryQueued
    <3> QED
      BY <3>2, <3>3
  <2>5. ASSUME NEW f \in Funcs \ Ready, NEW i \in 1 .. n,
               todo'[i].kind = "decompile", todo'[i].func = f
        PROVE  RecoveryRuns(f)' \/ RecoveryQueued(f, i - 1)'
    <3>1. i + 1 \in 1 .. Len(todo) /\ todo[i + 1].kind = "decompile" /\ todo[i + 1].func = f
      BY <2>2, <2>5
    <3>2. RecoveryRuns(f) \/ RecoveryQueued(f, (i + 1) - 1)
      BY <3>1 DEF Settles, RecoveryIsFirst
    <3>3. (i + 1) - 1 = (i - 1) + 1 /\ i - 1 \in 0 .. n
      OBVIOUS
    <3> QED
      BY <2>4, <3>2, <3>3
  <2>6. ASSUME NEW f \in Funcs \ Ready, view.func = f
        PROVE  RecoveryRuns(f)' \/ RecoveryQueued(f, n)'
    <3>1. RecoveryRuns(f) \/ RecoveryQueued(f, n + 1)
      BY <2>2, <2>6 DEF Settles, RecoveryIsFirst
    <3>2. n \in 0 .. n
      OBVIOUS
    <3> QED
      BY <2>4, <3>1, <3>2
  <2>7. j.kind = "decompile" => j.func \in Ready
    <3> SUFFICES ASSUME j.kind = "decompile", j.func \notin Ready PROVE FALSE
      OBVIOUS
    <3>1. j.func \in Funcs
      BY DEF Jobs
    <3>2. 1 \in 1 .. Len(todo)
      BY <2>2
    <3>3. RecoveryRuns(j.func) \/ RecoveryQueued(j.func, 1 - 1)
      BY <2>2, <3>1, <3>2 DEF Settles, RecoveryIsFirst
    <3> QED
      BY <2>3, <3>3 DEF RecoveryRuns, RecoveryQueued
  <2>8. \A i \in 1 .. Len(running') : running'[i].kind = "decompile" => running'[i].func \in Ready
    BY <2>3, <2>7
  <2>9. \A f \in Funcs \ Ready :
          /\ \A i \in 1 .. Len(todo') :
               todo'[i].kind = "decompile" /\ todo'[i].func = f =>
                 RecoveryRuns(f)' \/ RecoveryQueued(f, i - 1)'
          /\ view'.func = f => RecoveryRuns(f)' \/ RecoveryQueued(f, Len(todo))'
    BY <1>1, <2>2, <2>5, <2>6
  <2> QED
    BY <1>1, <1>4, <2>8, <2>9 DEF Settles, RecoveryIsFirst
<1> QED
  BY <1>5, <1>6, <1>7, <1>8, <1>9 DEF Settles

(* The worker stores the result of its job and hands it back. *)
LEMMA EndSettles ==
  ASSUME TypeOK, Settles, WorkerEnds
  PROVE  Settles'
<1>j. PICK j \in Jobs : j = Head(running)
  BY InSingle DEF WorkerEnds, TypeOK
<1>1. /\ running # <<>> /\ running' = <<>> /\ todo' = todo /\ view' = view
      /\ signals' = Append(signals, FinishedSignal(j))
      /\ cache' = IF j.kind = "decompile" THEN cache \cup {j.func} ELSE cache
      /\ ranCca' = IF j.kind = "varec" THEN ranCca \cup {j.func} ELSE ranCca
  BY <1>j DEF WorkerEnds, Emit, FinishedSignal
<1>2. /\ running[1] = j /\ Len(running) = 1
      /\ \A x : In(running, x) <=> x = j
  BY <1>j, <1>1, InSingle DEF TypeOK
<1>3. ASSUME NEW x PROVE Unfinished(x) <=> Unfinished(x)' \/ x = j
  <2>1. ~In(<<>>, x)
    BY InEmpty
  <2>2. Unfinished(x)' <=> In(<<>>, x) \/ In(todo, x)
    BY <1>1 DEF Unfinished, In
  <2> QED
    BY <1>2, <2>1, <2>2 DEF Unfinished
<1>4. ASSUME NEW x \in Jobs PROVE Finished(x)' <=> Finished(x) \/ x = j
  <2>1. FinishedSignal(j) \in Signals /\ (FinishedSignal(x) = FinishedSignal(j) <=> x = j)
    BY SignalIsTyped DEF FinishedSignal
  <2>2. In(Append(signals, FinishedSignal(j)), FinishedSignal(x)) <=>
          In(signals, FinishedSignal(x)) \/ FinishedSignal(x) = FinishedSignal(j)
    BY <2>1, InAppend DEF TypeOK
  <2>3. Finished(x)' <=> In(Append(signals, FinishedSignal(j)), FinishedSignal(x))
    BY <1>1 DEF Finished, In, FinishedSignal
  <2> QED
    BY <2>1, <2>2, <2>3 DEF Finished
<1>5. /\ Ready \subseteq Ready' /\ cache \subseteq cache' /\ ranCca \subseteq ranCca'
      /\ j.func \in Funcs
      /\ j.kind = "varec" => j.func \in ranCca' /\ j.func \in Ready'
  BY <1>1 DEF Ready, Jobs
<1>6. Unfinished(j)
  BY <1>3
<1>7. FocusIsReady'
  <2> SUFFICES ASSUME NEW x \in Jobs
               PROVE  /\ (Unfinished(x)' \/ Finished(x)') /\ x.kind = "varec" =>
                           x.focus \in {x.func, NoFunc}
                      /\ Finished(x)' /\ x.kind = "varec" => x.func \in ranCca'
                      /\ (Unfinished(x)' \/ Finished(x)') /\ x.kind = "decompile" =>
                           x.focus \in Ready' \cup {NoFunc}
    BY DEF FocusIsReady
  <2>1. Unfinished(x)' \/ Finished(x)' => Unfinished(x) \/ Finished(x)
    BY <1>3, <1>4, <1>6
  <2>2. Finished(x)' => Finished(x) \/ x = j
    BY <1>4
  <2> QED
    BY <1>5, <2>1, <2>2 DEF Settles, FocusIsReady
<1>8. RecoveryIsFirst'
  <2>1. \A f \in Funcs \ Ready' : f \in Funcs \ Ready /\ ~RecoveryRuns(f)
    BY <1>2, <1>5 DEF RecoveryRuns
  <2>2. ASSUME NEW f, NEW i, RecoveryQueued(f, i) PROVE RecoveryQueued(f, i)'
    BY <1>1, <2>2 DEF RecoveryQueued
  <2>3. \A f \in Funcs \ Ready' :
          /\ \A i \in 1 .. Len(todo') :
               todo'[i].kind = "decompile" /\ todo'[i].func = f => RecoveryQueued(f, i - 1)'
          /\ view'.func = f => RecoveryQueued(f, Len(todo))'
    <3> SUFFICES ASSUME NEW f \in Funcs \ Ready'
                 PROVE  /\ \A i \in 1 .. Len(todo') :
                             todo'[i].kind = "decompile" /\ todo'[i].func = f =>
                               RecoveryQueued(f, i - 1)'
                        /\ view'.func = f => RecoveryQueued(f, Len(todo))'
      OBVIOUS
    <3>1. /\ \A i \in 1 .. Len(todo) :
               todo[i].kind = "decompile" /\ todo[i].func = f => RecoveryQueued(f, i - 1)
          /\ view.func = f => RecoveryQueued(f, Len(todo))
      BY <2>1 DEF Settles, RecoveryIsFirst
    <3> QED
      BY <1>1, <2>2, <3>1
  <2>4. cache' \subseteq Ready'
    <3>1. cache \subseteq Ready
      BY DEF Settles, RecoveryIsFirst
    <3>2. j.kind = "decompile" => j.func \in Ready
      BY <1>2 DEF Settles, RecoveryIsFirst
    <3> QED
      BY <1>1, <1>5, <3>1, <3>2
  <2>5. Len(running') = 0
    BY <1>1
  <2> QED
    BY <2>3, <2>4, <2>5 DEF RecoveryIsFirst
<1>9. LastComesBack'
  <2> SUFFICES ASSUME view.last # NoFunc
               PROVE  /\ view.last \in Ready'
                      /\ view.last \notin cache' =>
                           \E x \in Jobs : /\ Unfinished(x)'
                                           /\ x.kind = "decompile" /\ x.func = view.last
    BY <1>1 DEF LastComesBack
  <2>1. ASSUME NEW x \in Jobs, Unfinished(x), x.kind = "decompile", x.func = view.last,
               view.last \notin cache'
        PROVE  Unfinished(x)'
    BY <1>1, <1>3, <2>1
  <2> QED
    BY <1>5, <2>1 DEF Settles, LastComesBack
<1>10. FuncIsServed'
  <2>1. PICK f : f = view.func
    OBVIOUS
  <2>2. ASSUME NEW x \in Jobs, Serves(x, f) PROVE Serves(x, f)'
    <3>1. CASE x = j
      <4>1. Finished(x)'
        BY <1>4, <3>1
      <4>2. x.kind = "decompile" => x.func \in cache'
        BY <1>1, <3>1
      <4> QED
        BY <2>2, <4>1, <4>2 DEF Serves
    <3>2. CASE x # j
      <4>1. /\ Unfinished(x) => Unfinished(x)'
            /\ Finished(x) => Finished(x)'
        BY <1>3, <1>4, <3>2
      <4> QED
        BY <1>5, <2>2, <4>1 DEF Serves
    <3> QED
      BY <3>1, <3>2
  <2>3. ASSUME f # view.last PROVE \E x \in Jobs : Serves(x, f)'
    BY <2>1, <2>2, <2>3 DEF Settles, FuncIsServed
  <2> QED
    BY <1>1, <2>1, <2>3 DEF FuncIsServed
<1>11. CodeIsReplaced'
  <2>1. Finished(j)'
    BY <1>4
  <2> QED
    BY <2>1 DEF CodeIsReplaced
<1> QED
  BY <1>7, <1>8, <1>9, <1>10, <1>11 DEF Settles

(* A signal that finishes no job changes nothing of this. *)
LEMMA OtherSignalSettles ==
  ASSUME TypeOK, Settles, signals # <<>>, signals' = Tail(signals),
         Head(signals).kind # "finished",
         UNCHANGED <<view, cache, ranCca, todo, running>>
  PROVE  Settles'
<1>1. ASSUME NEW x PROVE Unfinished(x)' <=> Unfinished(x)
  BY SameQueue
<1>2. ASSUME NEW x PROVE Finished(x)' <=> Finished(x)
  <2>1. FinishedSignal(x) # Head(signals)
    BY DEF FinishedSignal
  <2> QED
    BY <2>1, TakenSignal
<1>3. Ready' = Ready
  BY DEF Ready
<1>4. FocusIsReady'
  BY <1>1, <1>2, <1>3 DEF Settles, FocusIsReady
<1>5. RecoveryIsFirst'
  BY <1>3 DEF Settles, RecoveryIsFirst, RecoveryRuns, RecoveryQueued
<1>6. LastComesBack'
  BY <1>1, <1>3 DEF Settles, LastComesBack
<1>7. FuncIsServed'
  <2>1. PICK f : f = view.func
    OBVIOUS
  <2>2. ASSUME NEW x, Serves(x, f) PROVE Serves(x, f)'
    BY <1>1, <1>2, <2>2 DEF Serves
  <2> QED
    BY <2>1, <2>2 DEF Settles, FuncIsServed
<1>8. CodeIsReplaced'
  BY <1>1, <1>2 DEF Settles, CodeIsReplaced
<1> QED
  BY <1>4, <1>5, <1>6, <1>7, <1>8 DEF Settles

LEMMA InitSettles == Init => ViewInv
<1> SUFFICES ASSUME Init PROVE Settles
  BY DEF ViewInv
<1>1. ASSUME NEW x PROVE ~Unfinished(x) /\ ~Finished(x)
  BY InEmpty DEF Init, Unfinished, Finished
<1>2. Len(todo) = 0 /\ Len(running) = 0 /\ view.func = NoFunc /\ NoFunc \notin Funcs
  BY CodeViewAssumption DEF Init
<1>3. FocusIsReady
  BY <1>1 DEF FocusIsReady
<1>4. RecoveryIsFirst
  BY <1>2 DEF RecoveryIsFirst, Init
<1> QED
  BY <1>3, <1>4 DEF Settles, Init, LastComesBack, FuncIsServed, CodeIsReplaced

LEMMA NextSettles == TypeOK /\ ViewInv /\ [Next]_vars => ViewInv'
<1> SUFFICES ASSUME TypeOK, ViewInv, [Next]_vars, ~failed' PROVE Settles'
  BY DEF ViewInv
<1>0. Settles
  BY DEF ViewInv, Next, Ask, DecompileFunction, DecompileCurrent, JumpTo, Worker, Gui,
     WorkerStarts, WorkerEnds, WorkerFails, GuiJobStarting, GuiJobException,
     GuiVarecFinished, GuiDecompileFinished, vars
<1>1. ASSUME NEW f \in Funcs, NEW focus \in Funcs \cup {NoFunc}, DecompileFunction(f, focus)
      PROVE  Settles'
  <2>1. Switches(f, focus) /\ focus \in {f, NoFunc}
    BY <1>1, SwitchStep DEF DecompileFunction, Ask
  <2> QED
    BY <1>0, <1>1, <2>1, SwitchSettles DEF DecompileFunction, Ask
<1>2. ASSUME NEW reset \in BOOLEAN, DecompileCurrent(reset) PROVE Settles'
  BY <1>0, <1>2, AskStep, AskSettles DEF DecompileCurrent, Ask
<1>3. ASSUME NEW a \in Funcs, JumpTo(a) PROVE Settles'
  <2>1. CASE KeepsView
    <3>1. UNCHANGED <<view, cache, ranCca, todo, running, signals>>
      BY <1>3, <2>1 DEF JumpTo, Ask, KeepsView
    <3> QED
      BY <1>0, <3>1 DEF Settles, FocusIsReady, RecoveryIsFirst, RecoveryRuns, RecoveryQueued,
         LastComesBack, FuncIsServed, Serves, CodeIsReplaced, Unfinished, Finished, In, Ready
  <2>2. CASE Switches(a, a)
    BY <1>0, <1>3, <2>2, SwitchSettles DEF JumpTo, Ask
  <2> QED
    BY <1>3, <2>1, <2>2, JumpStep DEF JumpTo, Ask
<1>4. CASE WorkerStarts
  BY <1>0, <1>4, StartSettles
<1>5. CASE WorkerEnds
  BY <1>0, <1>5, EndSettles
<1>6. CASE WorkerFails
  BY <1>6 DEF WorkerFails
<1>7. CASE GuiJobStarting \/ GuiJobException
  BY <1>0, <1>7, HandleType, OtherSignalSettles DEF GuiJobStarting, GuiJobException
<1>8. CASE GuiVarecFinished
  <2>1. PICK job \in Jobs : job = Head(signals).job
    BY <1>8, HandleType DEF GuiVarecFinished
  <2>2. /\ signals # <<>> /\ signals' = Tail(signals) /\ view.func \in Funcs
        /\ Head(signals) = [kind |-> "finished", job |-> job]
    BY <1>8, <2>1, HandleType DEF GuiVarecFinished
  <2>3. /\ view' = view /\ cache' = cache
        /\ todo' = Append(todo, [kind |-> "decompile", func |-> view.func, focus |-> job.focus])
        /\ job.kind = "varec" /\ UNCHANGED <<running, ranCca>>
    BY <1>8, <2>1, VarecStep DEF GuiVarecFinished
  <2> QED
    BY <1>0, <2>2, <2>3, VarecSettles
<1>9. CASE GuiDecompileFinished
  <2>1. PICK job \in Jobs : job = Head(signals).job
    BY <1>9, HandleType DEF GuiDecompileFinished
  <2>2. /\ signals # <<>> /\ signals' = Tail(signals) /\ view.func \in Funcs
        /\ Head(signals) = [kind |-> "finished", job |-> job]
    BY <1>9, <2>1, HandleType DEF GuiDecompileFinished
  <2>3. job.focus \in FocusAddrs /\ job.kind = "decompile" /\ UNCHANGED <<running, ranCca>>
    BY <1>9, <2>1 DEF GuiDecompileFinished, Jobs, FocusAddrs
  <2>4. IF view.func \in cache THEN Follows(job.focus) ELSE KeepsView
    BY <1>9, <2>1, <2>3, ReadyStep DEF GuiDecompileFinished
  <2> QED
    BY <1>0, <2>2, <2>3, <2>4, FollowSettles, NothingShownSettles
<1>10. CASE UNCHANGED vars
  <2>1. UNCHANGED <<view, cache, ranCca, todo, running, signals>>
    BY <1>10 DEF vars
  <2> QED
    BY <1>0, <2>1 DEF Settles, FocusIsReady, RecoveryIsFirst, RecoveryRuns, RecoveryQueued,
       LastComesBack, FuncIsServed, Serves, CodeIsReplaced, Unfinished, Finished, In, Ready
<1> QED
  BY <1>1, <1>2, <1>3, <1>4, <1>5, <1>6, <1>7, <1>8, <1>9, <1>10 DEF Next, Worker, Gui

LEMMA InvSettlesView == ViewInv => SettledShowsFunction
<1> SUFFICES ASSUME ViewInv, Quiet, view.func # NoFunc, ~failed PROVE view.code = view.func
  BY DEF SettledShowsFunction
<1>1. ASSUME NEW x PROVE ~Unfinished(x) /\ ~Finished(x)
  BY InEmpty DEF Quiet, Unfinished, Finished
<1>2. view.func = view.last
  BY <1>1 DEF ViewInv, Settles, FuncIsServed, Serves
<1>3. view.code = view.last
  BY <1>1 DEF ViewInv, Settles, CodeIsReplaced
<1> QED
  BY <1>2, <1>3

(* For any functions and however much the user asks for: once every job and
   signal is done and none failed, the pseudocode view shows the code of its
   function, although the callbacks look the function up anew
   (_on_new_function, decomp, decomp_ready). *)
THEOREM SettledViewIsRight == Spec => []SettledShowsFunction
<1>1. Init => TypeOK /\ ViewInv
  BY InitType, InitSettles
<1>2. TypeOK /\ ViewInv /\ [Next]_vars => (TypeOK /\ ViewInv)'
  BY NextType, NextSettles
<1>3. TypeOK /\ ViewInv => SettledShowsFunction
  BY InvSettlesView
<1> QED
  BY <1>1, <1>2, <1>3, PTL DEF Spec
=============================================================================
