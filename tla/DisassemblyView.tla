---------------------------- MODULE DisassemblyView ----------------------------
(***************************************************************************)
(* The disassembly view (ui/views/disassembly_view.py): its navigation      *)
(* history, its graph and its linear viewer, of which it shows one, and the *)
(* selection both share (logic/disassembly/info_dock.py).  All of it runs in *)
(* the GUI thread; every jump selects, every selection may move what is     *)
(* shown, and either may switch from one to the other.                      *)
(* Blocks have one instruction, at their address; operands, variables and   *)
(* what the mouse hovers over are left out of the selection.                *)
(***************************************************************************)
EXTENDS JumpHistory, LinearViewer

CONSTANTS
  NoFunc,     \* None
  Stops,      \* bound: where the slider is moved to
  MaxChanges  \* bound on how often code is undefined

ASSUME DisassemblyAssumption ==
  /\ Addr \subseteq Nat /\ Stops \subseteq Nat /\ MaxChanges \in Nat
  /\ \A v \in Versions : \A o \in DOMAIN v : v[o].func \in Addr \cup {NoFunc}

VARIABLES
  disasm,     \* the view, see DisassemblyInit
  changes     \* bound: how often the code has changed

viewVars == <<history, pos, shown, raised, code, linear, disasm, changes>>

FuncsIn(v) == {v[a].func : a \in DOMAIN v} \ {NoFunc}
Here(d, l) == [d |-> d, l |-> l]
Become(s) == disasm' = [s.d EXCEPT !.focus = NoFunc] /\ linear' = s.l

-----------------------------------------------------------------------------
(* The code *)
Holding(c, a) == {o \in DOMAIN Objects(c) : o <= a /\ a < End(c, o)}
ItemAt(c, a) == CHOOSE o \in Holding(c, a) : TRUE
KindAt(c, a) == IF Holding(c, a) = {} THEN "none" ELSE Objects(c)[ItemAt(c, a)].kind
(* IF   a block of a function holds the address THEN it is that function *)
LocateFunction(c, a) ==
  IF KindAt(c, a) = "code" /\ Objects(c)[ItemAt(c, a)].func \in c.funcs
  THEN Objects(c)[ItemAt(c, a)].func ELSE NoFunc
Inside(c, f) == {o \in DOMAIN Objects(c) : Objects(c)[o].kind = "code" /\ Objects(c)[o].func = f}

-----------------------------------------------------------------------------
(* The selection *)
UnselectAllLabels(s) == [s EXCEPT !.d.labels = {}]
UnselectLabel(s, a) == [s EXCEPT !.d.labels = @ \ {a}]
UnselectInstruction(s, a) == [s EXCEPT !.d.insns = @ \ {a}]
ClearSelection(s) == [s EXCEPT !.d.insns = {}]   \* labels stay selected
SelectLabel(s, a) == [s EXCEPT !.d.insns = {}, !.d.labels = {a}]

(* the graph centres an instruction it has; the linear viewer goes to any *)
ShowInstruction(c, s, a) ==
  IF ~s.d.graph THEN [s EXCEPT !.l = NavigateToAddr(c, @, a)]
  ELSE IF a \in Inside(c, s.d.graphFunc) THEN [s EXCEPT !.d.focus = a]
  ELSE s
SelectInstruction(c, s, a, unique, visible) ==
  LET t == UnselectAllLabels(s)
      u == [t EXCEPT !.d.insns = IF unique THEN {a} ELSE @ \cup {a}]
  IN  IF a \in t.d.insns THEN t ELSE IF visible THEN u ELSE ShowInstruction(c, u, a)

-----------------------------------------------------------------------------
(* What is shown *)
SetFunctionGraph(s, f) ==
  IF s.d.graphFunc = f /\ ~s.d.gone THEN s
  ELSE [s EXCEPT !.d = [@ EXCEPT !.graphFunc = f, !.gone = FALSE, !.focus = f]]
DisplayFunctionOf(c, s, f) ==
  LET t == SetFunctionGraph(ClearSelection([s EXCEPT !.d.func = f]), f) IN
  IF ~t.d.graph /\ f # NoFunc THEN [t EXCEPT !.l = NavigateToAddr(c, @, f)] ELSE t

Selected(s) == CHOOSE a \in s.d.insns : TRUE
DisplayLinearViewer(c, s, prefer) ==
  LET t == [s EXCEPT !.d.graph = FALSE, !.d.prefer = @ /\ ~prefer] IN
  IF s.d.insns # {} THEN ShowInstruction(c, t, Selected(s))
  ELSE IF s.d.func # NoFunc THEN ShowInstruction(c, t, s.d.func) ELSE t

JumpInLinear(c, s, a) ==
  IF KindAt(c, a) = "code" THEN SelectInstruction(c, s, ItemAt(c, a), TRUE, FALSE)
  ELSE LET t == IF KindAt(c, a) = "data" THEN SelectLabel(s, ItemAt(c, a)) ELSE s
       IN  [t EXCEPT !.l = NavigateToAddr(c, @, a)]

(* IF the address is in a function THEN the graph shows it *)
(* ELSE the linear viewer has to                           *)
JumpFromHere(c, s, a) ==
  LET f == LocateFunction(c, a) IN
  IF s.d.graph /\ f # NoFunc
  THEN SelectInstruction(c, DisplayFunctionOf(c, s, f), ItemAt(c, a), TRUE, FALSE)
  ELSE With(IF s.d.graph THEN DisplayLinearViewer(c, s, FALSE) ELSE s,
            LAMBDA t : JumpInLinear(c, t, a))

DisplayDisasmGraph(c, s, prefer) ==
  LET t == [s EXCEPT !.d.graph = TRUE, !.d.prefer = @ \/ prefer] IN
  IF s.d.insns # {} THEN JumpFromHere(c, t, Selected(s))
  ELSE IF s.d.func # NoFunc THEN ShowInstruction(c, t, s.d.func) ELSE t

(* not the code: the view stays in the linear viewer once it is there *)
JumpToStays(c, s, a) == JumpFromHere(c, s, a)
JumpToAddr(c, s, a) ==
  With(IF s.d.prefer /\ ~s.d.graph THEN DisplayDisasmGraph(c, s, FALSE) ELSE s,
       LAMBDA t : JumpFromHere(c, t, a))

ReloadIfChanged(c, s) ==
  LET f == s.d.graphFunc IN
  IF f = NoFunc \/ ~s.d.gone THEN s
  ELSE IF f \in c.funcs THEN DisplayFunctionOf(c, s, f)
  ELSE JumpToAddr(c, DisplayFunctionOf(c, s, NoFunc), f)

ReloadGraph(c, s, insns) ==
  IF s.d.graphFunc = NoFunc THEN s
  ELSE FoldSet(LAMBDA a, t : SelectInstruction(c, t, a, FALSE, FALSE),
               [s EXCEPT !.d.focus = s.d.graphFunc], insns)
ReloadView(c, s) ==
  With(ReloadIfChanged(c, [s EXCEPT !.d.insns = {}]),
       LAMBDA t : IF t.d.graph THEN ReloadGraph(c, t, s.d.insns)
                  ELSE [t EXCEPT !.l = ReloadLinear(c, @)])
CfbEvent(c, s) ==
  With(ReloadIfChanged(c, s), LAMBDA t : [t EXCEPT !.l = ReloadLinear(c, @)])

-----------------------------------------------------------------------------
(* The CFG has just been made and no function is shown yet *)
DisassemblyInit ==
  /\ Init /\ changes = 0
  /\ \E v \in Versions : code = [cfb |-> v, funcs |-> FuncsIn(v)]
  /\ linear = ReloadLinear(code, [offset |-> NoOffset, start |-> 0, shown |-> {}, cache |-> <<>>])
  /\ disasm = [prefer |-> TRUE,        \* _prefer_graph
               graph  |-> TRUE,        \* _current_view is _flow_graph
               func   |-> NoFunc,      \* function
               graphFunc |-> NoFunc,   \* _flow_graph.function_graph
               gone   |-> FALSE,       \* that function object has left the knowledge base
               focus  |-> NoFunc,      \* what an operation centres the graph on, not kept
               insns  |-> {}, labels |-> {}]

Current == Here(disasm, linear)
NoJump == UNCHANGED <<history, pos, shown, raised>>
SameCode == UNCHANGED <<code, changes>>

FollowTo(src, a) ==
  ViewJumpTo(src, a) /\ Become(JumpToAddr(code, Current, a)) /\ SameCode
DisplayFunction(f) ==
  f \in code.funcs /\ ViewJumpTo(NoAddr, f) /\ Become(DisplayFunctionOf(code, Current, f)) /\ SameCode
GoneTo(p) ==
  IF InRange(history, p) THEN Become(JumpToAddr(code, Current, history[p + 1]))
  ELSE UNCHANGED <<disasm, linear>>
GoBack == ViewJumpBack /\ GoneTo(BackPos(pos)) /\ SameCode
GoForward == ViewJumpForward /\ GoneTo(ForwardPos(history, pos)) /\ SameCode
GoToPosition(q) == ViewJumpToPosition(q) /\ GoneTo(StepPos(history, pos, q)) /\ SameCode

Handle(s) == Become(s) /\ NoJump /\ SameCode
ToggleView ==
  Handle(IF disasm.graph THEN DisplayLinearViewer(code, Current, TRUE)
         ELSE DisplayDisasmGraph(code, Current, TRUE))

(* the mouse, on what the view has drawn *)
DrawnInsns ==
  IF disasm.graph THEN Inside(code, disasm.graphFunc)
  ELSE {a \in linear.shown : linear.cache[a].kind = "code"}
DrawnData == IF disasm.graph THEN {} ELSE {a \in linear.shown : linear.cache[a].kind = "data"}
ClickInstruction(a, unique) ==
  a \in DrawnInsns
  /\ Handle(IF a \in disasm.insns THEN UnselectInstruction(Current, a)
            ELSE SelectInstruction(code, Current, a, unique, TRUE))
ClickLabel(a) == a \in DrawnData /\ Handle(SelectLabel(Current, a))
ToggleLabel(a) ==   \* in the menu of a label
  a \in DrawnData
  /\ Handle(IF a \in disasm.labels THEN UnselectLabel(Current, a) ELSE SelectLabel(Current, a))

Scroll(n) == ~disasm.graph /\ Handle([Current EXCEPT !.l = Scrolled(code, @, n)])
MoveSlider(offset) ==
  /\ ~disasm.graph
  /\ Handle([Current EXCEPT !.l = PrepareObjects(code, @, offset, 0, TRUE)])
Reload == Handle(ReloadView(code, Current))

(* The function of a selected instruction leaves the knowledge base at once; the
   CFG without it, or with a new object for it, comes when the job is done. *)
UndefineCode(f) ==
  /\ changes < MaxChanges /\ changes' = changes + 1
  /\ disasm.insns # {} /\ f = LocateFunction(code, Selected(Current))
  /\ code' = [code EXCEPT !.funcs = @ \ {f}]
  /\ disasm' = [disasm EXCEPT !.gone = @ \/ disasm.graphFunc = f]
  /\ NoJump /\ UNCHANGED linear
CfgGenerated(v) ==
  LET c == [cfb |-> v, funcs |-> FuncsIn(v)] IN
  /\ code.funcs \subseteq FuncsIn(v) /\ code # c /\ code' = c
  /\ Become(CfbEvent(c, Current)) /\ NoJump /\ UNCHANGED changes

(* references are followed from an instruction or an item of data *)
Sources == {a \in Addr : KindAt(code, a) # "none"}
DisassemblyNext ==
  \/ \E src \in Sources \cup {NoAddr}, a \in Addr : FollowTo(src, a)
  \/ \E f \in code.funcs : DisplayFunction(f)
  \/ GoBack \/ GoForward \/ \E q \in 0 .. MaxLen - 1 : GoToPosition(q)
  \/ ToggleView
  \/ \E a \in DrawnInsns, unique \in BOOLEAN : ClickInstruction(a, unique)
  \/ \E a \in DrawnData : ClickLabel(a) \/ ToggleLabel(a)
  \/ Scroll(-2) \/ Scroll(1)   \* more lines at a time are these, repeated
  \/ \E offset \in Stops : MoveSlider(offset)
  \/ Reload
  \/ \E f \in code.funcs : UndefineCode(f)
  \/ \E v \in Versions : CfgGenerated(v)

DisassemblySpec == DisassemblyInit /\ [][DisassemblyNext]_viewVars

-----------------------------------------------------------------------------
(* Scrolling by some lines moves the first line shown by as many, up to the
   first line and to a screen that shows no more, whatever objects it passes and
   wherever a jump or the slider had left the viewer (prepare_objects).  What the
   code does not promise: above a byte of no object, where scrolling down past an
   object leaves the viewer, the lines of that object are passed over on the way
   up; and a jump below the first region leaves the viewer where it does not
   scroll at all. *)
LinesBetween(c, s, lo, hi) ==
  FoldSet(LAMBDA a, n : n + LinesOf(c, s, a), 0, {a \in DOMAIN Objects(c) : lo <= a /\ a < hi})
AllAbove(c) == Max(DOMAIN Objects(c)) + 1
Top(c, s) ==
  LET first == IF s.shown = {} THEN AllAbove(c) ELSE Min(s.shown) IN
  LinesBetween(c, s, 0, first) + s.start
Total(c, s) == LinesBetween(c, s, 0, AllAbove(c))
AddrAtTop(s) == AddrFromOffset(RegionFromOffset(s.offset), s.offset)
PassedOver(c, s, n) ==
  IF s.start + n < 0 /\ Holding(c, AddrAtTop(s)) = {}
  THEN LinesBetween(c, s, FloorAddr(c, AddrAtTop(s)), AddrAtTop(s)) ELSE 0
ScrollsBy(c, s, n) ==
  Top(c, Scrolled(c, s, n)) = Max({0, Min({Top(c, s) + n - PassedOver(c, s, n), Total(c, s)})})
ScrollMovesByLines ==
  linear.offset >= 0 => \A n \in {-2, -1, 1, 2} : ScrollsBy(code, linear, n)

(* Wherever the view is and whatever became of the code, a jump ends with its
   target selected and on the screen: in the graph of its function where graphs
   are preferred, in the linear viewer otherwise (_jump_to, select_instruction).
   What the code does not promise: a selected instruction whose function is gone
   holds the view in the linear viewer, which does not scroll to an instruction
   that was selected before. *)
Paintable(a) ==
  KindAt(code, a) # "none" /\ ObjToPaintable(code, linear, ItemAt(code, a)).kind # "none"
SelectionInGraphs == \A a \in disasm.insns : LocateFunction(code, a) # NoFunc
JumpShowsTarget ==
  \A a \in Addr \cup DOMAIN Objects(code) : \A t \in {JumpToAddr(code, Current, a)} :
    LET f == LocateFunction(code, a)
        item == ItemAt(code, a)
    IN  /\ disasm.prefer /\ f # NoFunc /\ (disasm.graph \/ SelectionInGraphs) =>
             t.d.graph /\ t.d.func = f /\ t.d.graphFunc = f /\ t.d.focus = item
        /\ KindAt(code, a) = "code" =>
             IF item \in disasm.insns THEN item \in t.d.insns ELSE t.d.insns = {item}
        /\ KindAt(code, a) = "data" => t.d.labels = {item}
        /\ ~t.d.graph /\ Paintable(a) /\ item \notin disasm.insns =>
             item \in t.l.shown
========================================
