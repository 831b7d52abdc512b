----------------------------- MODULE LinearViewer -----------------------------
(***************************************************************************)
(* The linear disassembly (ui/widgets/qlinear_viewer.py).  It shows the     *)
(* objects of the CFB one below the other.  Where it stands is an offset,   *)
(* in bytes into the regions laid end to end, and a line of the object at   *)
(* that offset; both are kept up by walking over the objects and counting   *)
(* the lines of what they are painted as.  An object once painted is kept   *)
(* under its address (self.objects) and never made again.                   *)
(***************************************************************************)
EXTENDS Integers, FiniteSets, SequencesExt, FiniteSetsExt, Functions

CONSTANTS
  Regions,    \* the memory regions of the CFB, [addr, size], by address
  Versions,   \* CFBs of the project: from addresses to [size, kind, lines, func]
  Height,     \* lines the viewport holds
  LineBytes   \* bytes in a line of data, 16

ASSUME ViewerAssumption ==
  /\ Height \in Nat /\ LineBytes \in Nat \ {0}
  /\ Regions \in Seq([addr : Nat, size : Nat \ {0}]) /\ Regions # <<>>
  /\ \A i, j \in DOMAIN Regions : i < j => Regions[i].addr + Regions[i].size <= Regions[j].addr
  /\ \A v \in Versions :
       /\ IsFiniteSet(DOMAIN v) /\ DOMAIN v \subseteq Nat
       /\ \A o \in DOMAIN v : /\ v[o].size \in Nat \ {0} /\ v[o].lines \in Nat
                             /\ v[o].kind \in {"code", "data", "unknown"}
       \* objects are apart and each is in a region; bytes may be in none
       /\ \A o, p \in DOMAIN v : o < p => o + v[o].size <= p
       /\ \A o \in DOMAIN v : \E r \in Range(Regions) :
            r.addr <= o /\ o + v[o].size <= r.addr + r.size

VARIABLES
  code,     \* [cfb: the CFB in the instance, funcs: the functions in its knowledge base]
  linear    \* [offset, start: _start_line_in_object, shown: what is visible, cache: objects]

NoOffset == -100
NotPaintable == [kind |-> "none", lines |-> 0]

(* F of the value of v, for TLC to evaluate v only once *)
With(v, F(_)) == CHOOSE r \in {F(x) : x \in {v}} : TRUE

-----------------------------------------------------------------------------
(* Offsets and addresses *)
Base == [i \in 1 .. Len(Regions) + 1 |-> FoldLeft(LAMBDA n, r : n + r.size, 0, SubSeq(Regions, 1, i - 1))]
RegionFromOffset(offset) == Max({0} \cup {i \in DOMAIN Regions : Base[i] <= offset})
RegionFromAddr(a) == Max({0} \cup {i \in DOMAIN Regions : Regions[i].addr <= a})
AddrFromOffset(i, offset) == Regions[i].addr + offset - Base[i]
OffsetFromAddr(i, a) == Base[i] + a - Regions[i].addr
RegionEnd(i) == Regions[i].addr + Regions[i].size
MaxOffset == Base[Len(Regions) + 1]

(* The objects of the CFB, by address *)
Objects(c) == c.cfb
End(c, a) == a + Objects(c)[a].size
FloorAddr(c, a) ==
  LET below == {o \in DOMAIN Objects(c) : o <= a} IN IF below = {} THEN a ELSE Max(below)
Ascending(S) == [i \in 1 .. Cardinality(S) |-> CHOOSE a \in S : Cardinality({b \in S : b <= a}) = i]
UpFrom(c, a) == Ascending({o \in DOMAIN Objects(c) : FloorAddr(c, a) <= o})
DownFrom(c, a) == Reverse(Ascending({o \in DOMAIN Objects(c) : o < FloorAddr(c, a)}))

(* IF   an object was painted at the address THEN it is painted as it was then *)
(* ELSE IF it is a block whose function is gone THEN it is not painted         *)
ObjToPaintable(c, s, a) ==
  IF a \in DOMAIN s.cache THEN s.cache[a]
  ELSE LET o == Objects(c)[a] IN
       IF o.kind = "code" /\ o.func \notin c.funcs THEN NotPaintable
       ELSE [kind |-> o.kind, lines |-> o.lines]
LinesOf(c, s, a) == ObjToPaintable(c, s, a).lines

-----------------------------------------------------------------------------
(* not the code: the object at the top counts as one above itself *)
CompensateFromTop(c, s, addr, start, offset) ==
  IF start >= 0 THEN [addr |-> addr, offset |-> offset, start |-> start]
  ELSE [addr |-> FloorAddr(c, addr), offset |-> offset,
        start |-> Max({0, start + LinesOf(c, s, FloorAddr(c, addr))})]

(* A first line above the first object is looked for in the objects before it *)
Compensate(c, s, addr, start, offset) ==
  LET Above(t, a) ==
        IF t.start >= 0 \/ ObjToPaintable(c, s, a).kind = "none" THEN t
        ELSE [addr |-> a, start |-> t.start + LinesOf(c, s, a)]
      Step(u, a) == With(u, LAMBDA t : Above(t, a))
      top == FoldLeft(Step, [addr |-> addr, start |-> start], DownFrom(c, addr))
  IN  IF start >= 0 THEN [addr |-> addr, offset |-> offset, start |-> start]
      ELSE IF top.start < 0 THEN [addr |-> Regions[1].addr, offset |-> Base[1], start |-> 0]
      ELSE [addr |-> top.addr, start |-> top.start,
            offset |-> OffsetFromAddr(RegionFromAddr(top.addr), top.addr)]

(* The line of a data object that holds an address, when the slider is moved *)
AdjustedStart(q, a, addr, start, adjust) ==
  IF q.kind = "data" /\ adjust /\ a < addr /\ start = 0
  THEN (addr \div LineBytes) - (a \div LineBytes) ELSE start

(* Objects are passed over while the first line is behind them, then painted
   until the viewport is full.  t.region is the region of the objects reached. *)
PaintFrom(c, s, addr, offset, start, region, adjust) ==
  LET Paint(t, a) ==
        LET q     == ObjToPaintable(c, s, a)
            line  == AdjustedStart(q, a, addr, t.start, adjust)
            reg   == IF a >= RegionEnd(t.region) THEN RegionFromAddr(a) ELSE t.region
            lines == t.lines + q.lines - line
        IN  IF t.full \/ End(c, a) <= addr \/ q.kind = "none" THEN t
            ELSE IF line > 0 /\ line >= q.lines THEN
              [t EXCEPT !.start = line - q.lines, !.region = reg,
                        !.offset = IF a <= addr THEN @ + End(c, a) - addr
                                   ELSE OffsetFromAddr(reg, End(c, a))]
            ELSE
              [t EXCEPT !.start = 0, !.region = reg, !.lines = lines, !.full = lines > Height,
                        !.first = IF line > 0 THEN line ELSE @,
                        !.shown = @ \cup {a}]
      Step(u, a) == With(u, LAMBDA t : Paint(t, a))
      nothing == [start |-> start, offset |-> offset, region |-> region, lines |-> 0,
                  first |-> 0, full |-> FALSE, shown |-> {}]
  IN  FoldLeft(Step, nothing, UpFrom(c, addr))

PrepareObjects(c, s, at, start, adjust) ==
  LET offset == IF at = NoOffset THEN 0 ELSE at
      region == RegionFromOffset(offset)
      From(top) == PaintFrom(c, s, top.addr, top.offset, top.start, region, adjust)
      Painted(done) ==
        [offset |-> done.offset, start |-> done.first, shown |-> done.shown,
         cache |-> [a \in done.shown \cup DOMAIN s.cache |-> ObjToPaintable(c, s, a)]]
  IN  IF offset = s.offset /\ start = s.start THEN s
      ELSE IF region = 0 THEN [s EXCEPT !.offset = offset]
      ELSE With(With(Compensate(c, s, AddrFromOffset(region, offset), start, offset), From), Painted)

NavigateTo(c, s, offset) == PrepareObjects(c, s, offset, 0, FALSE)
NavigateToAddr(c, s, a) ==
  LET i == RegionFromAddr(a) IN NavigateTo(c, s, OffsetFromAddr(IF i = 0 THEN 1 ELSE i, a))

(* initialize() forgets the line, so only the offset is prepared again *)
ReloadLinear(c, s) ==
  PrepareObjects(c, [s EXCEPT !.offset = NoOffset, !.start = 0], s.offset, 0, FALSE)

Scrolled(c, s, n) == PrepareObjects(c, s, s.offset, s.start + n, FALSE)
=============================================================================
