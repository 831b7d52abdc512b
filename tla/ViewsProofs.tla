------------------------------ MODULE ViewsProofs ------------------------------
(***************************************************************************)
(* Proofs about what views show: the cursor and the viewport of the hex     *)
(* view (HexCursor), for rows of any length, windows of any height and any  *)
(* region, and the view manager and the groups of synchronized views        *)
(* (Views), for any views.                                                  *)
(***************************************************************************)
EXTENDS HexCursor, Views, FiniteSetTheorems, WellFoundedInduction, TLAPS

(* A HexGraphicsObject. *)
HexObjects ==
  [start : Nat, end : Nat, disp : Int, rows : Nat \ {0}, cursor : Int, sel : Int,
   nibble : {None, 0, 1}, ascii : BOOLEAN]

TypeOK == hex \in HexObjects /\ source \in Sources /\ loaded \in BOOLEAN

(* The cursor, the selection and the viewport are in the region. *)
CursorIn(h) == InRegion(h, h.cursor)
SelIn(h) == h.sel = None \/ InRegion(h, h.sel)
DispIn(h) == h.start <= h.disp /\ h.disp < h.end
Fits(h) == h.start < h.end => CursorIn(h) /\ SelIn(h) /\ DispIn(h)

HexInv == TypeOK /\ Fits(hex)

(* Two objects of the same region and window. *)
SameRegion(g, h) == g.start = h.start /\ g.end = h.end /\ g.rows = h.rows
-----------------------------------------------------------------------------
(***************************************************************************)
(* Rows.                                                                   *)
(***************************************************************************)
(* The start of the row of an address is at most a row before it. *)
LEMMA RowStartIs ==
  ASSUME NEW a \in Int
  PROVE  /\ RowStart(a) \in Int /\ RowStart(a) <= a /\ a < RowStart(a) + Row
         /\ a % Row \in Nat /\ a % Row < Row
         /\ RowStart(a) = a - (a % Row)
<1>1. Row \in Nat \ {0}
  BY HexAssumption
<1>2. a % Row \in 0 .. Row - 1
  BY <1>1
<1>3. PICK m \in 0 .. Row - 1 : m = a % Row
  BY <1>2
<1>4. RowStart(a) = a - m
  BY <1>3 DEF RowStart
<1> QED
  BY <1>1, <1>3, <1>4

(* Scrolling keeps everything but the offset, which stays in the region. *)
LEMMA DisplayOffset ==
  ASSUME NEW h, NEW offset, h \in HexObjects, offset \in Int
  PROVE  LET g == SetDisplayOffset(h, offset) IN
         /\ g \in HexObjects /\ SameRegion(g, h)
         /\ g.cursor = h.cursor /\ g.sel = h.sel /\ g.nibble = h.nibble /\ g.ascii = h.ascii
         /\ g.disp = h.start + Most(0, Least(RowStart(offset), h.end - h.start - Row))
         /\ h.start < h.end => DispIn(g)
<1> DEFINE e == h.end - h.start - Row
           x == Most(0, Least(RowStart(offset), e))
           g == SetDisplayOffset(h, offset)
<1>1. h.start \in Nat /\ h.end \in Nat /\ Row \in Nat \ {0} /\ RowStart(offset) \in Int
  BY HexAssumption, RowStartIs DEF HexObjects
<1>2. x \in Nat /\ (h.start < h.end => h.start + x < h.end)
  BY <1>1 DEF Most, Least
<1> HIDE DEF x
<1>3. g = [h EXCEPT !.disp = h.start + x]
  BY DEF SetDisplayOffset, x
<1>4. h.start + x \in Int /\ h.start <= h.start + x
  BY <1>1, <1>2
<1>5. /\ g \in HexObjects /\ SameRegion(g, h) /\ g.disp = h.start + x
      /\ g.cursor = h.cursor /\ g.sel = h.sel /\ g.nibble = h.nibble /\ g.ascii = h.ascii
  BY <1>3, <1>4 DEF HexObjects, SameRegion
<1> QED
  BY <1>2, <1>4, <1>5 DEF DispIn, SameRegion, x

(* So does moving the viewport to an address. *)
Scrolled(g, h) ==
  /\ g \in HexObjects /\ SameRegion(g, h)
  /\ g.cursor = h.cursor /\ g.sel = h.sel /\ g.nibble = h.nibble /\ g.ascii = h.ascii
  /\ h.start < h.end /\ DispIn(h) => DispIn(g)

LEMMA MovedViewport ==
  ASSUME NEW h, NEW a, NEW keepRow, h \in HexObjects, a \in Int
  PROVE  Scrolled(MoveViewportTo(h, a, keepRow), h)
<1>1. /\ h.start \in Int /\ h.disp \in Int /\ h.rows \in Int /\ h.cursor \in Int /\ Row \in Int
  BY HexAssumption DEF HexObjects
<1>2. Row * (h.rows - 1) \in Int
  BY <1>1
<1>3. /\ a - h.cursor + h.disp - h.start \in Int /\ a - h.start \in Int
      /\ a - Row * (h.rows - 1) - h.start + Row \in Int
  BY <1>1, <1>2
<1>4. \A o \in Int : Scrolled(SetDisplayOffset(h, o), h)
  BY DisplayOffset DEF Scrolled
<1>5. Scrolled(h, h)
  BY DEF Scrolled, SameRegion
<1> QED
  BY <1>3, <1>4, <1>5 DEF MoveViewportTo

(* Setting the cursor. *)
Placed(g, h, a) ==
  /\ g \in HexObjects /\ SameRegion(g, h) /\ g.sel = h.sel
  /\ g.cursor = IF InRegion(h, a) THEN a ELSE h.cursor
  /\ h.start < h.end /\ DispIn(h) => DispIn(g)

LEMMA CursorSet ==
  ASSUME NEW h, NEW a, NEW column, NEW nibble, NEW follow,
         h \in HexObjects, a \in Int, column \in BOOLEAN, nibble \in {None, 0, 1}
  PROVE  Placed(SetCursorIn(h, a, column, nibble, follow), h, a)
<1> DEFINE moved == IF follow /\ a # h.cursor THEN MoveViewportTo(h, a, FALSE) ELSE h
           g == SetCursorIn(h, a, column, nibble, follow)
<1>1. Scrolled(moved, h)
  <2>1. Scrolled(MoveViewportTo(h, a, FALSE), h)
    BY MovedViewport, Zenon
  <2>2. Scrolled(h, h)
    BY DEF Scrolled, SameRegion
  <2> QED
    BY <2>1, <2>2, Zenon
<1> HIDE DEF moved
<1>2. CASE ~InRegion(h, a)
  <2>1. g = h
    BY <1>2, Zenon DEF SetCursorIn
  <2> QED
    BY <1>2, <2>1 DEF Placed, SameRegion
<1>3. CASE InRegion(h, a)
  <2>1. g = [moved EXCEPT !.cursor = a, !.ascii = column, !.nibble = nibble]
    BY <1>3, Zenon DEF SetCursorIn, moved
  <2>2. g \in HexObjects /\ SameRegion(g, moved) /\ g.sel = moved.sel /\ g.cursor = a
        /\ g.disp = moved.disp
    BY <1>1, <2>1 DEF Scrolled, HexObjects, SameRegion
  <2> HIDE DEF g
  <2>3. Placed(g, h, a)
    BY <1>1, <1>3, <2>2 DEF Placed, Scrolled, SameRegion, DispIn
  <2> QED
    BY <2>3 DEF g
<1> QED
  BY <1>2, <1>3

(* An operation that sets the cursor keeps what is in the region there. *)
LEMMA CursorFits ==
  ASSUME NEW h, NEW a, NEW column, NEW nibble, NEW follow,
         h \in HexObjects, Fits(h), a \in Int, column \in BOOLEAN, nibble \in {None, 0, 1}
  PROVE  /\ SetCursorIn(h, a, column, nibble, follow) \in HexObjects
         /\ Fits(SetCursorIn(h, a, column, nibble, follow))
<1> DEFINE g == SetCursorIn(h, a, column, nibble, follow)
<1>0. Placed(g, h, a)
  BY CursorSet
<1> HIDE DEF g
<1>1. /\ g \in HexObjects /\ SameRegion(g, h) /\ g.sel = h.sel
      /\ g.cursor = IF InRegion(h, a) THEN a ELSE h.cursor
      /\ h.start < h.end /\ DispIn(h) => DispIn(g)
  BY <1>0 DEF Placed
<1>2. g.start = h.start /\ g.end = h.end
  BY <1>1 DEF SameRegion
<1>3. h.start < h.end => CursorIn(g)
  BY <1>1, <1>2 DEF Fits, CursorIn, InRegion
<1>4. h.start < h.end => SelIn(g)
  BY <1>1, <1>2 DEF Fits, SelIn, InRegion
<1> QED
  BY <1>1, <1>2, <1>3, <1>4 DEF Fits, g

LEMMA SelectionFits ==
  ASSUME NEW h, NEW shift, h \in HexObjects, Fits(h)
  PROVE  /\ ClearSelection(h) \in HexObjects /\ Fits(ClearSelection(h))
         /\ BeginSelection(h) \in HexObjects /\ Fits(BeginSelection(h))
         /\ ExtendOrClear(h, shift) \in HexObjects /\ Fits(ExtendOrClear(h, shift))
         /\ SameRegion(ExtendOrClear(h, shift), h)
         /\ ExtendOrClear(h, shift).disp = h.disp /\ ExtendOrClear(h, shift).cursor = h.cursor
         /\ ExtendOrClear(h, shift).ascii = h.ascii
<1>1. /\ ClearSelection(h) \in HexObjects /\ SameRegion(ClearSelection(h), h)
      /\ ClearSelection(h).sel = None /\ ClearSelection(h).cursor = h.cursor
      /\ ClearSelection(h).disp = h.disp /\ ClearSelection(h).ascii = h.ascii
  BY DEF ClearSelection, HexObjects, SameRegion, None
<1>2. /\ BeginSelection(h) \in HexObjects /\ SameRegion(BeginSelection(h), h)
      /\ BeginSelection(h).sel = h.cursor /\ BeginSelection(h).cursor = h.cursor
      /\ BeginSelection(h).disp = h.disp /\ BeginSelection(h).ascii = h.ascii
  BY DEF BeginSelection, HexObjects, SameRegion
<1>3. Fits(ClearSelection(h))
  BY <1>1 DEF Fits, CursorIn, SelIn, DispIn, InRegion, SameRegion
<1>4. Fits(BeginSelection(h))
  BY <1>2 DEF Fits, CursorIn, SelIn, DispIn, InRegion, SameRegion
<1> QED
  BY <1>1, <1>2, <1>3, <1>4 DEF ExtendOrClear, SameRegion

(* A new region is shown from its start, without a selection. *)
LEMMA DataFits ==
  ASSUME NEW h, NEW start, NEW size, h \in HexObjects, start \in Nat, size \in Nat
  PROVE  LET g == SetData(h, start, size) IN
         g \in HexObjects /\ Fits(g) /\ g.start = start /\ g.end = start + size
<1> DEFINE r == [h EXCEPT !.start = start, !.end = start + size]
           c == ClearSelection(r)
           d == SetDisplayOffset(c, 0)
           g == SetData(h, start, size)
<1>0. start + size \in Nat
  OBVIOUS
<1>1. r \in HexObjects /\ r.start = start /\ r.end = start + size
  BY <1>0 DEF HexObjects
<1> HIDE DEF r
<1>2. c \in HexObjects /\ c.start = start /\ c.end = start + size /\ c.sel = None
  <2>1. c = [r EXCEPT !.sel = None] /\ None \in Int
    BY DEF ClearSelection, None
  <2> QED
    BY <1>1, <2>1 DEF HexObjects
<1> HIDE DEF c
<1>3. /\ d \in HexObjects /\ d.start = start /\ d.end = start + size /\ d.sel = None
      /\ start < start + size => DispIn(d)
  BY <1>2, DisplayOffset DEF SameRegion
<1>4. Placed(g, d, start)
  <2>1. start \in Int /\ d.ascii \in BOOLEAN /\ None \in {None, 0, 1}
    BY <1>3 DEF HexObjects
  <2>2. Placed(SetCursorIn(d, start, d.ascii, None, TRUE), d, start)
    BY <1>3, <2>1, CursorSet, Zenon
  <2> QED
    BY <2>2, Zenon DEF SetData, SetCursor, r, c
<1> HIDE DEF d, g
<1>5. /\ g \in HexObjects /\ SameRegion(g, d) /\ g.sel = None
      /\ g.cursor = IF InRegion(d, start) THEN start ELSE d.cursor
      /\ d.start < d.end /\ DispIn(d) => DispIn(g)
  BY <1>3, <1>4 DEF Placed
<1>6. g.start = start /\ g.end = start + size
  BY <1>3, <1>5 DEF SameRegion
<1>7. start < start + size => InRegion(d, start) /\ InRegion(g, start)
  BY <1>3, <1>6 DEF InRegion
<1>8. Fits(g)
  BY <1>3, <1>5, <1>6, <1>7 DEF Fits, CursorIn, SelIn
<1> QED
  BY <1>5, <1>6, <1>8 DEF g

(* Reloading restores the viewport and the cursor, as far as they fit. *)
LEMMA ReloadFits ==
  ASSUME NEW h, NEW src, NEW isLoaded, h \in HexObjects
  PROVE  ReloadData(h, src, isLoaded) \in HexObjects /\ Fits(ReloadData(h, src, isLoaded))
<1> DEFINE again(start, size) ==
      SetCursor(SetDisplayOffset(SetData(h, start, size), h.disp - start), h.cursor)
<1>1. ASSUME NEW start \in Nat, NEW size \in Nat
      PROVE  again(start, size) \in HexObjects /\ Fits(again(start, size))
  <2> DEFINE d == SetData(h, start, size)
             o == SetDisplayOffset(d, h.disp - start)
  <2>1. d \in HexObjects /\ Fits(d)
    BY DataFits
  <2>2. h.disp - start \in Int /\ h.cursor \in Int
    BY DEF HexObjects
  <2> HIDE DEF d
  <2>3. o \in HexObjects /\ Fits(o)
    BY <2>1, <2>2, DisplayOffset DEF Fits, CursorIn, SelIn, DispIn, InRegion, SameRegion
  <2>4. o.ascii \in BOOLEAN /\ None \in {None, 0, 1}
    BY <2>3 DEF HexObjects
  <2>5. /\ SetCursorIn(o, h.cursor, o.ascii, None, TRUE) \in HexObjects
        /\ Fits(SetCursorIn(o, h.cursor, o.ascii, None, TRUE))
    BY <2>2, <2>3, <2>4, CursorFits, Zenon
  <2> QED
    BY <2>5, Zenon DEF SetCursor, d
<1>2. /\ DebuggerEnd \in Nat /\ LoaderMin \in Nat /\ LoaderMax - LoaderMin + 1 \in Nat
      /\ 0 \in Nat
  BY HexAssumption
<1>3. SetData(h, 0, 0) \in HexObjects /\ Fits(SetData(h, 0, 0))
  BY DataFits
<1>4. /\ again(0, DebuggerEnd) \in HexObjects /\ Fits(again(0, DebuggerEnd))
      /\ again(LoaderMin, LoaderMax - LoaderMin + 1) \in HexObjects
      /\ Fits(again(LoaderMin, LoaderMax - LoaderMin + 1))
  BY <1>1, <1>2
<1> QED
  BY <1>3, <1>4 DEF ReloadData
-----------------------------------------------------------------------------
(***************************************************************************)
(* The cursor, the selection and the viewport stay in the region.           *)
(***************************************************************************)
LEMMA ScrolledFits ==
  ASSUME NEW g, NEW h, Scrolled(g, h), Fits(h)
  PROVE  g \in HexObjects /\ Fits(g)
  BY DEF Scrolled, SameRegion, Fits, CursorIn, SelIn, DispIn, InRegion

LEMMA KeyTargetIs ==
  ASSUME NEW h, NEW key \in Keys, h \in HexObjects
  PROVE  KeyTarget(h, key) \in Int
<1>1. /\ Row \in Int /\ h.rows \in Int /\ h.start \in Int /\ h.end \in Int /\ h.cursor \in Int
      /\ RowStart(h.cursor) \in Int
  BY HexAssumption, RowStartIs DEF HexObjects
<1>2. (h.rows - 1) * Row \in Int
  BY <1>1
<1>3. PICK page \in Int : page = (h.rows - 1) * Row
  BY <1>2
<1>4. /\ Most(h.start, h.cursor - page) \in Int /\ Least(h.end - 1, h.cursor + page) \in Int
      /\ Most(h.start, RowStart(h.cursor)) \in Int
      /\ Least(h.end - 1, RowStart(h.cursor) + Row - 1) \in Int
  BY <1>1, <1>3 DEF Most, Least
<1> QED
  BY <1>1, <1>3, <1>4 DEF KeyTarget, Keys

(* A key that moves the cursor: first the selection, then the viewport, then
   the cursor. *)
LEMMA KeyPressed ==
  ASSUME NEW h, NEW key \in Keys, NEW shift, h \in HexObjects
  PROVE  LET picked == ExtendOrClear(h, shift)
             to     == KeyTarget(h, key)
             keep   == key \in {"PageUp", "PageDown"}
         IN  /\ ~InRegion(h, to) => PressKey(h, key, shift) = picked
             /\ InRegion(h, to) =>
                  PressKey(h, key, shift) =
                    [MoveViewportTo(picked, to, keep) EXCEPT
                       !.cursor = to, !.ascii = h.ascii, !.nibble = None]
                  \/ (/\ ~InRegion(MoveViewportTo(picked, to, keep), to)
                      /\ PressKey(h, key, shift) = MoveViewportTo(picked, to, keep))
  BY Zenon DEF PressKey, SetCursorIn

LEMMA KeyFits ==
  ASSUME NEW h, NEW key \in Keys, NEW shift, h \in HexObjects, Fits(h)
  PROVE  PressKey(h, key, shift) \in HexObjects /\ Fits(PressKey(h, key, shift))
<1> DEFINE picked == ExtendOrClear(h, shift)
           to     == KeyTarget(h, key)
           keep   == key \in {"PageUp", "PageDown"}
<1>1. /\ picked \in HexObjects /\ Fits(picked) /\ to \in Int
      /\ h.ascii \in BOOLEAN /\ None \in {None, 0, 1}
  BY SelectionFits, KeyTargetIs DEF HexObjects
<1>2. Scrolled(MoveViewportTo(picked, to, keep), picked)
  BY <1>1, MovedViewport, Zenon
<1>3. PICK moved : moved = MoveViewportTo(picked, to, keep) /\ Scrolled(moved, picked)
  BY <1>2, Zenon
<1>4. moved \in HexObjects /\ Fits(moved)
  BY <1>1, <1>3, ScrolledFits
<1>5. /\ SetCursorIn(moved, to, h.ascii, None, FALSE) \in HexObjects
      /\ Fits(SetCursorIn(moved, to, h.ascii, None, FALSE))
  BY <1>1, <1>4, CursorFits, Zenon
<1>6. /\ SetCursorIn(MoveViewportTo(picked, to, keep), to, h.ascii, None, FALSE) \in HexObjects
      /\ Fits(SetCursorIn(MoveViewportTo(picked, to, keep), to, h.ascii, None, FALSE))
  BY <1>3, <1>5, Zenon
<1> QED
  BY <1>1, <1>6, Zenon DEF PressKey

(* set_cursor with the column shown. *)
LEMMA SetCursorFits ==
  ASSUME NEW h, NEW a, h \in HexObjects, Fits(h), a \in Int
  PROVE  SetCursor(h, a) \in HexObjects /\ Fits(SetCursor(h, a))
<1>1. h.ascii \in BOOLEAN /\ None \in {None, 0, 1}
  BY DEF HexObjects
<1>2. /\ SetCursorIn(h, a, h.ascii, None, TRUE) \in HexObjects
      /\ Fits(SetCursorIn(h, a, h.ascii, None, TRUE))
  BY <1>1, CursorFits, Zenon
<1> QED
  BY <1>2, Zenon DEF SetCursor

(* What an action has to leave. *)
LEMMA HexInvIs ==
  ASSUME hex' \in HexObjects, Fits(hex'), source' \in Sources, loaded' \in BOOLEAN
  PROVE  HexInv'
  BY DEF HexInv, TypeOK, Fits, CursorIn, SelIn, DispIn, InRegion, HexObjects

LEMMA InitFits == HexInit => HexInv
<1> SUFFICES ASSUME HexInit PROVE HexInv
  OBVIOUS
<1>1. PICK n \in Nat \ {0} :
        hex = [start |-> 0, end |-> 0, disp |-> 0, rows |-> n, cursor |-> 0, sel |-> None,
               nibble |-> None, ascii |-> FALSE]
  BY HexAssumption DEF HexInit
<1>2. hex \in HexObjects
  BY <1>1 DEF HexObjects, None
<1>3. Fits(hex)
  BY <1>1 DEF Fits
<1> QED
  BY <1>2, <1>3 DEF HexInv, TypeOK, HexInit, Sources

LEMMA NextFits == HexInv /\ [HexNext]_hexVars => HexInv'
<1> SUFFICES ASSUME HexInv, [HexNext]_hexVars PROVE HexInv'
  OBVIOUS
<1>0. hex \in HexObjects /\ Fits(hex) /\ source \in Sources /\ loaded \in BOOLEAN
  BY DEF HexInv, TypeOK
<1>a. /\ hex.cursor \in Int /\ hex.ascii \in BOOLEAN /\ hex.nibble \in {None, 0, 1}
      /\ hex.start \in Int /\ hex.disp \in Int /\ Row \in Int /\ None \in {None, 0, 1}
      /\ HexAddrs \subseteq Int
  BY <1>0, HexAssumption DEF HexObjects, HexAddrs
<1>1. ASSUME NEW key \in Keys, NEW shift \in BOOLEAN, MoveKey(key, shift) PROVE HexInv'
  <2>1. hex' = PressKey(hex, key, shift) /\ UNCHANGED <<source, loaded>>
    BY <1>1 DEF MoveKey, Keep
  <2>2. hex' \in HexObjects /\ Fits(hex')
    BY <1>0, <2>1, KeyFits, Zenon
  <2> QED
    BY <1>0, <2>1, <2>2, HexInvIs
<1>2. ASSUME NEW a \in HexAddrs, NEW column \in BOOLEAN, NEW shift \in BOOLEAN,
             Click(a, column, shift)
      PROVE  HexInv'
  <2>1. hex' = SetCursorIn(ExtendOrClear(hex, shift), a, column, None, TRUE)
        /\ UNCHANGED <<source, loaded>>
    BY <1>2, Zenon DEF Click, Keep
  <2>2. ExtendOrClear(hex, shift) \in HexObjects /\ Fits(ExtendOrClear(hex, shift)) /\ a \in Int
    BY <1>0, <1>a, SelectionFits
  <2>3. hex' \in HexObjects /\ Fits(hex')
    BY <1>a, <2>1, <2>2, CursorFits, Zenon
  <2> QED
    BY <1>0, <2>1, <2>3, HexInvIs, Zenon
<1>3. ASSUME NEW first \in HexAddrs, NEW last \in HexAddrs, DoubleClick(first, last) PROVE HexInv'
  <2>1. hex' = SetCursor(BeginSelection(SetCursor(hex, last)), first)
        /\ UNCHANGED <<source, loaded>> /\ first \in Int /\ last \in Int
    BY <1>a, <1>3 DEF DoubleClick, SelectRegion, Keep
  <2>2. SetCursor(hex, last) \in HexObjects /\ Fits(SetCursor(hex, last))
    BY <1>0, <2>1, SetCursorFits
  <2>3. PICK h \in HexObjects : h = BeginSelection(SetCursor(hex, last)) /\ Fits(h)
    BY <2>2, SelectionFits
  <2>4. hex' \in HexObjects /\ Fits(hex')
    BY <2>1, <2>3, SetCursorFits
  <2> QED
    BY <1>0, <2>1, <2>4, HexInvIs
<1>4. CASE TypeDigit
  <2>1. hex' = SetCursorIn(hex, hex.cursor + 1 - NibbleToType, hex.ascii, 1 - NibbleToType, TRUE)
        /\ UNCHANGED <<source, loaded>>
    BY <1>4, Zenon DEF TypeDigit, Keep
  <2>2. NibbleToType \in {0, 1}
    BY <1>a DEF NibbleToType, None
  <2>3. hex.cursor + 1 - NibbleToType \in Int /\ 1 - NibbleToType \in {None, 0, 1}
    BY <1>a, <2>2
  <2>4. hex' \in HexObjects /\ Fits(hex')
    BY <1>0, <1>a, <2>1, <2>3, CursorFits, Zenon
  <2> QED
    BY <1>0, <2>1, <2>4, HexInvIs, Zenon
<1>5. CASE TypeCharacter
  <2>1. hex' = SetCursor(hex, hex.cursor + 1) /\ UNCHANGED <<source, loaded>>
        /\ hex.cursor + 1 \in Int
    BY <1>a, <1>5 DEF TypeCharacter, Keep
  <2>2. hex' \in HexObjects /\ Fits(hex')
    BY <1>0, <2>1, SetCursorFits
  <2> QED
    BY <1>0, <2>1, <2>2, HexInvIs
<1>6. CASE SwitchColumn
  <2>1. hex' = SetCursorIn(hex, hex.cursor, ~hex.ascii, None, TRUE) /\ UNCHANGED <<source, loaded>>
        /\ (~hex.ascii) \in BOOLEAN
    BY <1>6, Zenon DEF SwitchColumn, Keep
  <2>2. hex' \in HexObjects /\ Fits(hex')
    BY <1>0, <1>a, <2>1, CursorFits, Zenon
  <2> QED
    BY <1>0, <2>1, <2>2, HexInvIs, Zenon
<1>7. ASSUME NEW rows \in -1 .. 1, Scroll(hex.disp - hex.start + rows * Row) PROVE HexInv'
  <2>1. PICK offset \in Int : offset = hex.disp - hex.start + rows * Row
    BY <1>a
  <2>2. hex' = SetDisplayOffset(hex, offset) /\ UNCHANGED <<source, loaded>>
    BY <1>7, <2>1 DEF Scroll, Keep
  <2>3. Scrolled(hex', hex)
    BY <1>0, <2>2, DisplayOffset DEF Scrolled
  <2> QED
    BY <1>0, <2>2, <2>3, ScrolledFits, HexInvIs
<1>8. ASSUME NEW n \in RowCounts, Resize(n) PROVE HexInv'
  <2>1. Most(n, 1) \in Nat \ {0}
    BY HexAssumption DEF Most
  <2>2. hex' = [hex EXCEPT !.rows = Most(n, 1)] /\ UNCHANGED <<source, loaded>>
    BY <1>8 DEF Resize, SetDisplayNumRows, Keep
  <2>3. /\ hex' \in HexObjects /\ hex'.start = hex.start /\ hex'.end = hex.end
        /\ hex'.cursor = hex.cursor /\ hex'.sel = hex.sel /\ hex'.disp = hex.disp
    BY <1>0, <2>1, <2>2 DEF HexObjects
  <2>4. Fits(hex')
    BY <1>0, <2>3 DEF Fits, CursorIn, SelIn, DispIn, InRegion
  <2> QED
    BY <1>0, <2>2, <2>3, <2>4, HexInvIs
<1>9. ASSUME NEW a \in HexAddrs, JumpToAddr(a) PROVE HexInv'
  <2>1. hex' = SetCursor(ClearSelection(hex), a) /\ UNCHANGED <<source, loaded>> /\ a \in Int
    BY <1>a, <1>9 DEF JumpToAddr, Keep
  <2>2. hex' \in HexObjects /\ Fits(hex')
    BY <1>0, <2>1, SelectionFits, SetCursorFits
  <2> QED
    BY <1>0, <2>1, <2>2, HexInvIs
<1>10. CASE CfbEvent
  <2>1. ReloadData(hex, source, TRUE) \in HexObjects /\ Fits(ReloadData(hex, source, TRUE))
    BY <1>0, ReloadFits, Zenon
  <2>2. hex' = ReloadData(hex, source, TRUE) /\ source' = source /\ loaded' \in BOOLEAN
    BY <1>10, Zenon DEF CfbEvent
  <2>3. hex' \in HexObjects /\ Fits(hex')
    BY <2>1, <2>2, Zenon
  <2> QED
    BY <1>0, <2>2, <2>3, HexInvIs, Zenon
<1>11. ASSUME NEW s \in Sources, SourceChanged(s) PROVE HexInv'
  <2>1. ReloadData(hex, s, loaded) \in HexObjects /\ Fits(ReloadData(hex, s, loaded))
    BY <1>0, ReloadFits
  <2> QED
    BY <1>0, <1>11, <2>1, HexInvIs DEF SourceChanged
<1>12. CASE UNCHANGED hexVars
  BY <1>0, <1>12, HexInvIs DEF hexVars
<1> QED
  BY <1>1, <1>2, <1>3, <1>4, <1>5, <1>6, <1>7, <1>8, <1>9, <1>10, <1>11, <1>12
  DEF HexNext, AnyMoveKey

(* Wherever the user clicks, types, scrolls or jumps, and whichever region the
   source changes to, the cursor, the selection and the viewport stay in the
   region that is shown (set_cursor, set_display_offset, _reload_data). *)
THEOREM CursorStaysInRegion == HexSpec => []CursorInRegion
<1>1. HexInit => HexInv
  BY InitFits
<1>2. HexInv /\ [HexNext]_hexVars => HexInv'
  BY NextFits
<1>3. HexInv => CursorInRegion
  BY DEF HexInv, CursorInRegion, Fits, CursorIn, SelIn, DispIn
<1> QED
  BY <1>1, <1>2, <1>3, PTL DEF HexSpec
-----------------------------------------------------------------------------
(***************************************************************************)
(* A movement key brings the cursor onto the screen.                        *)
(***************************************************************************)
LEMMA DivMod ==
  ASSUME NEW a, a \in Int
  PROVE  /\ a \div Row \in Int /\ a % Row \in Int /\ 0 <= a % Row /\ a % Row < Row
         /\ a = Row * (a \div Row) + (a % Row)
<1>0. Row \in Nat /\ Row # 0
  BY HexAssumption
<1>1. a \div Row \in Int /\ a % Row \in Int
  BY <1>0
<1>2. 0 <= a % Row /\ a % Row < Row
  BY <1>0
<1>3. a = Row * (a \div Row) + (a % Row)
  BY <1>0
<1> QED
  BY <1>1, <1>2, <1>3

(* A positive multiple of Row is at least Row. *)
LEMMA RowMultiple ==
  ASSUME NEW k, k \in Int
  PROVE  Row * k \in Int /\ (k >= 1 => Row * k >= Row)
  BY HexAssumption

(* A difference of less than n rows is a row number less than n. *)
LEMMA RowNumber ==
  ASSUME NEW a, NEW n, a \in Int, n \in Int
  PROVE  a < Row * n <=> a \div Row < n
<1>1. PICK q \in Int, r \in Int :
        /\ q = a \div Row /\ 0 <= r /\ r < Row /\ a = Row * q + r
  BY DivMod
<1>2. n - q \in Int /\ q - n + 1 \in Int /\ Row \in Int
  BY HexAssumption
<1>3. Row * (n - q) = Row * n - Row * q /\ Row * (q - n + 1) = Row * q - Row * n + Row
  BY <1>2
<1>4. Row * n \in Int /\ Row * q \in Int
  BY RowMultiple
<1>5. CASE q < n
  <2>1. PICK k \in Int : k = n - q /\ k >= 1
    BY <1>2, <1>5
  <2>2. Row * k >= Row
    BY <2>1, RowMultiple
  <2> QED
    BY <1>1, <1>2, <1>3, <1>4, <1>5, <2>1, <2>2
<1>6. CASE q >= n
  <2>1. PICK k \in Int : k = q - n + 1 /\ k >= 1
    BY <1>2, <1>6
  <2>2. Row * k >= Row
    BY <2>1, RowMultiple
  <2> QED
    BY <1>1, <1>2, <1>3, <1>4, <1>6, <2>1, <2>2
<1> QED
  BY <1>1, <1>5, <1>6

(* An address is at least its place in its row. *)
LEMMA RowWithin ==
  ASSUME NEW a, a \in Int, a >= 0
  PROVE  a % Row <= a
<1>1. PICK q \in Int, w \in Int, p \in Int :
        w = a % Row /\ 0 <= w /\ w < Row /\ p = Row * q /\ a = p + w
  BY DivMod, RowMultiple
<1>2. PICK m \in Int : m = 0 - q /\ Row * m = 0 - p
  <2>1. Row * (0 - q) = 0 - Row * q
    BY HexAssumption
  <2> QED
    BY <1>1, <2>1
<1>3. ~(m >= 1)
  BY <1>1, <1>2, RowMultiple, HexAssumption
<1>4. Row * q >= 0
  BY <1>2, <1>3, HexAssumption
<1> QED
  BY <1>1, <1>4

(* Adding whole rows does not move an address within its row. *)
LEMMA RowKept ==
  ASSUME NEW a, NEW x, a \in Int, x \in Int
  PROVE  (a + RowStart(x)) % Row <= a % Row
<1> DEFINE b == a + RowStart(x)
<1>0. RowStart(x) \in Int /\ b \in Int
  BY RowStartIs
<1>1. PICK qa \in Int, ra \in Int :
        ra = a % Row /\ 0 <= ra /\ ra < Row /\ a = Row * qa + ra
  BY DivMod
<1>2. PICK qx \in Int : RowStart(x) = Row * qx
  <2>1. PICK q \in Int, r \in Int : r = x % Row /\ q = x \div Row /\ x = Row * q + r
    BY DivMod
  <2>2. RowStart(x) = x - r /\ Row * q \in Int
    BY <2>1, RowMultiple DEF RowStart
  <2> QED
    BY <2>1, <2>2
<1>3. PICK qb \in Int, rb \in Int :
        rb = b % Row /\ 0 <= rb /\ rb < Row /\ b = Row * qb + rb
  BY <1>0, DivMod
<1>4. qa + qx - qb \in Int /\ Row \in Int
  BY HexAssumption
<1>5. Row * (qa + qx - qb) = Row * qa + Row * qx - Row * qb
  BY <1>4
<1>6. Row * qa \in Int /\ Row * qx \in Int /\ Row * qb \in Int
  BY RowMultiple
<1>7. Row * (qa + qx - qb) = rb - ra
  BY <1>0, <1>1, <1>2, <1>3, <1>5, <1>6
<1>8. ~(qa + qx - qb >= 1)
  <2> SUFFICES ASSUME qa + qx - qb >= 1 PROVE FALSE
    OBVIOUS
  <2>1. Row * (qa + qx - qb) >= Row
    BY <1>4, RowMultiple
  <2> QED
    BY <1>1, <1>3, <1>4, <1>7, <2>1
<1>9. Row * (qb - qa - qx) >= 0
  BY <1>4, <1>8, HexAssumption
<1>10. Row * (qb - qa - qx) = ra - rb
  <2>1. Row * (qb - qa - qx) = Row * qb - Row * qa - Row * qx
    BY <1>4
  <2> QED
    BY <1>0, <1>1, <1>2, <1>3, <1>6, <2>1
<1> QED
  BY <1>1, <1>3, <1>9, <1>10

(* The place in its row of an offset of whole rows and D - s. *)
LEMMA RowOfDifference ==
  ASSUME NEW D, NEW s, NEW k, D \in Int, s \in Int, k \in Int
  PROVE  ((Row * k + D - s) % Row) + (s % Row) <= (D % Row) + Row
<1>0. PICK kr \in Int, o \in Int : kr = Row * k /\ o = kr + D - s
  BY RowMultiple
<1>1. PICK qd \in Int, rd \in Int :
        rd = D % Row /\ 0 <= rd /\ rd < Row /\ D = Row * qd + rd
  BY DivMod
<1>2. PICK qs \in Int, rs \in Int :
        rs = s % Row /\ 0 <= rs /\ rs < Row /\ s = Row * qs + rs
  BY DivMod
<1>3. PICK qo \in Int, ro \in Int :
        ro = o % Row /\ 0 <= ro /\ ro < Row /\ o = Row * qo + ro
  BY DivMod
<1>4. PICK m \in Int : m = k + qd - qs - qo - 1
  OBVIOUS
<1>5. Row \in Int
  BY HexAssumption
<1>6. PICK dr \in Int, sr \in Int, or \in Int :
        dr = Row * qd /\ sr = Row * qs /\ or = Row * qo
  BY RowMultiple
<1>7. Row * m = kr + dr - sr - or - Row
  BY <1>0, <1>4, <1>5, <1>6
<1>8. Row * m = ro + rs - rd - Row
  <2>1. D = dr + rd /\ s = sr + rs /\ o = or + ro
    BY <1>1, <1>2, <1>3, <1>6
  <2>2. PICK rm : rm = Row * m
    OBVIOUS
  <2> QED
    BY <1>0, <1>5, <1>7, <2>1, <2>2
<1>9. ~(m >= 1)
  BY <1>1, <1>2, <1>3, <1>5, <1>8, RowMultiple
<1>10. Row * m <= 0
  BY <1>9, HexAssumption
<1>11. ro + rs <= rd + Row
  BY <1>5, <1>8, <1>10
<1> QED
  BY <1>0, <1>1, <1>2, <1>3, <1>11

(* What is on the screen: less than Row * rows past the row that the viewport
   starts in. *)
LEMMA OnScreenIs ==
  ASSUME NEW g, NEW a, g \in HexObjects, a \in Int, g.disp <= a, a < g.end,
         a - g.disp + (g.disp % Row) < Row * g.rows
  PROVE  OnScreen(g, a)
<1>1. g.disp \in Int /\ g.end \in Int /\ g.rows \in Int /\ Row \in Int
  BY HexAssumption DEF HexObjects
<1>2. PICK r \in Int : r = g.disp % Row /\ 0 <= r /\ RowStart(g.disp) = g.disp - r
  <2>1. PICK d \in Int : d = g.disp
    BY <1>1
  <2>2. d % Row \in Nat /\ RowStart(d) = d - (d % Row)
    BY <2>1, RowStartIs
  <2> QED
    BY <2>1, <2>2
<1>3. PICK y \in Int : y = a - RowStart(g.disp)
  BY <1>1, <1>2
<1>4. PICK n \in Int : n = Row * g.rows
  BY <1>1, RowMultiple
<1>5. y < Row * g.rows
  BY <1>1, <1>2, <1>3, <1>4
<1>6. y \div Row < g.rows
  BY <1>1, <1>3, <1>5, RowNumber
<1>7. ScreenRow(g, a) < g.rows
  BY <1>3, <1>6 DEF ScreenRow
<1>8. g.rows * Row = n
  BY <1>1, <1>4
<1>9. a < g.disp + g.rows * Row
  BY <1>1, <1>2, <1>4, <1>8
<1>10. a < DisplayEnd(g)
  BY <1>9 DEF DisplayEnd, Least
<1> QED
  BY <1>7, <1>10 DEF OnScreen, Displayed

(* A viewport less than a page before the address shows it. *)
LEMMA PageShows ==
  ASSUME NEW g, NEW a, g \in HexObjects, a \in Int, g.disp <= a, a < g.end,
         a <= g.disp + Row * (g.rows - 1)
  PROVE  OnScreen(g, a)
<1>1. g.disp \in Int /\ g.rows \in Int /\ Row \in Int
  BY HexAssumption DEF HexObjects
<1>2. PICK r \in Int : r = g.disp % Row /\ r < Row
  BY <1>1, DivMod
<1>3. PICK f \in Int : f = Row * (g.rows - 1)
  BY <1>1
<1>4. Row * g.rows = f + Row
  BY <1>1, <1>3
<1>5. a - g.disp + (g.disp % Row) < Row * g.rows
  BY <1>1, <1>2, <1>3, <1>4
<1> QED
  BY <1>5, OnScreenIs

(* The rows that are fully displayed: at least one in a window of two. *)
LEMMA FullRows ==
  ASSUME NEW h, h \in HexObjects, h.rows > 1
  PROVE  /\ Row * (h.rows - 1) \in Int /\ Row * (h.rows - 1) >= Row
         /\ (h.rows - 1) * Row = Row * (h.rows - 1)
<1>1. PICK k \in Int : k = h.rows - 1 /\ k >= 1
  BY DEF HexObjects
<1>2. k * Row = Row * k
  BY HexAssumption
<1> QED
  BY <1>1, <1>2, RowMultiple

(* The viewport that moves because the address was not fully displayed. *)
LEMMA MovedShows ==
  ASSUME NEW h, NEW a, NEW keepRow, h \in HexObjects, a \in Int, h.rows > 1,
         DispIn(h), InRegion(h, a), ~(keepRow /\ Displayed(h, h.cursor))
  PROVE  OnScreen(MoveViewportTo(h, a, keepRow), a)
<1>1. /\ h.start \in Int /\ h.end \in Int /\ h.disp \in Int /\ h.rows \in Int
      /\ Row \in Int /\ Row >= 1
      /\ h.start <= h.disp /\ h.disp < h.end /\ h.start <= a /\ a < h.end
  BY HexAssumption DEF HexObjects, DispIn, InRegion
<1>2. PICK f \in Int : f = Row * (h.rows - 1) /\ f >= Row
  BY FullRows
<1>3. ASSUME NEW o, o \in Int, a - f <= h.start + o, h.start + o < a + Row,
             RowStart(o) <= a - h.start, a - f <= h.start + RowStart(o)
      PROVE  OnScreen(SetDisplayOffset(h, o), a)
  <2>1. PICK g : g = SetDisplayOffset(h, o)
    OBVIOUS
  <2>2. PICK x \in Int : x = RowStart(o)
    BY <1>3, RowStartIs
  <2>3. /\ g \in HexObjects /\ SameRegion(g, h)
        /\ g.disp = h.start + Most(0, Least(x, h.end - h.start - Row))
    BY <1>3, <2>1, <2>2, DisplayOffset
  <2>4. g.disp <= a /\ a <= g.disp + f
    BY <1>1, <1>2, <1>3, <2>2, <2>3 DEF Most, Least
  <2>5. a < g.end /\ a <= g.disp + Row * (g.rows - 1)
    BY <1>1, <1>2, <2>3, <2>4 DEF SameRegion
  <2> QED
    BY <2>1, <2>3, <2>4, <2>5, PageShows
<1>4. CASE a < h.disp
  <2>1. PICK o \in Int : o = a - h.start
    BY <1>1
  <2>2. RowStart(o) \in Int /\ RowStart(o) <= o /\ o < RowStart(o) + Row
    BY <2>1, RowStartIs
  <2>3. OnScreen(SetDisplayOffset(h, o), a)
    BY <1>1, <1>2, <1>3, <2>1, <2>2
  <2> QED
    BY <1>4, <2>1, <2>3 DEF MoveViewportTo
<1>5. CASE ~(a < h.disp) /\ a >= h.disp + Row * (h.rows - 1)
  <2>1. PICK o \in Int : o = a - Row * (h.rows - 1) - h.start + Row
    BY <1>1, <1>2
  <2>2. RowStart(o) \in Int /\ RowStart(o) <= o /\ o < RowStart(o) + Row
    BY <2>1, RowStartIs
  <2>3. OnScreen(SetDisplayOffset(h, o), a)
    BY <1>1, <1>2, <1>3, <2>1, <2>2
  <2> QED
    BY <1>5, <2>1, <2>3 DEF MoveViewportTo
<1>6. CASE ~(a < h.disp) /\ ~(a >= h.disp + Row * (h.rows - 1))
  <2>1. MoveViewportTo(h, a, keepRow) = h
    BY <1>6 DEF MoveViewportTo
  <2>2. OnScreen(h, a)
    BY <1>1, <1>2, <1>6, PageShows
  <2> QED
    BY <2>1, <2>2
<1> QED
  BY <1>4, <1>5, <1>6

(* The address that the viewport follows on the row of the cursor: the region
   starts at the start of a row and the cursor is on a full row, or the cursor
   is not on the last row and moves by a whole page. *)
KeptRow(h, a) ==
  \/ h.start % Row = 0 /\ h.cursor < h.disp + (h.rows - 1) * Row
  \/ /\ ScreenRow(h, h.cursor) < h.rows - 1
     /\ a \in {h.cursor - (h.rows - 1) * Row, h.cursor + (h.rows - 1) * Row}

(* The offset that keeps the row of the cursor, then leaves room for it. *)
LEMMA KeptOffset ==
  ASSUME NEW h, NEW a, NEW f, NEW o, h \in HexObjects, a \in Int, f \in Int, o \in Int,
         h.rows > 1, f = Row * (h.rows - 1), DispIn(h), CursorIn(h), Displayed(h, h.cursor),
         KeptRow(h, a), o = a - h.cursor + h.disp - h.start
  PROVE  /\ h.cursor - h.disp < f
         /\ (o % Row) + (h.cursor - h.disp) + (h.start % Row) < f + Row
<1>1. /\ h.start \in Int /\ h.disp \in Int /\ h.rows \in Int /\ h.cursor \in Int
      /\ Row \in Int /\ (h.rows - 1) * Row = f
  BY FullRows, HexAssumption DEF HexObjects
<1>2. PICK d \in Int : d = h.disp % Row /\ 0 <= d /\ d < Row /\ RowStart(h.disp) = h.disp - d
  <2>1. PICK x \in Int : x = h.disp
    BY <1>1
  <2>2. x % Row \in Nat /\ x % Row < Row /\ RowStart(x) = x - (x % Row)
    BY <2>1, RowStartIs
  <2> QED
    BY <2>1, <2>2
<1>3. PICK s \in Int, w \in Int :
        s = h.start % Row /\ 0 <= s /\ s < Row /\ w = o % Row /\ 0 <= w /\ w < Row
  BY <1>1, DivMod
<1>4. CASE s = 0 /\ h.cursor < h.disp + (h.rows - 1) * Row
  BY <1>1, <1>3, <1>4
<1>5. CASE /\ ScreenRow(h, h.cursor) < h.rows - 1
           /\ a \in {h.cursor - (h.rows - 1) * Row, h.cursor + (h.rows - 1) * Row}
  <2>1. h.cursor - h.disp + d < f
    <3>1. PICK y \in Int, n \in Int : y = h.cursor - RowStart(h.disp) /\ n = h.rows - 1
      BY <1>1, <1>2
    <3>2. y \div Row < n
      BY <1>5, <3>1 DEF ScreenRow
    <3>3. y < Row * n
      BY <3>1, <3>2, RowNumber
    <3> QED
      BY <1>1, <1>2, <3>1, <3>3
  <2>2. PICK k \in Int : o = Row * k + h.disp - h.start
    <3>1. a = h.cursor - f \/ a = h.cursor + f
      BY <1>1, <1>5
    <3>2. PICK n \in Int : n = h.rows - 1
      BY <1>1
    <3>3. Row * n = f /\ Row * (0 - n) = 0 - f
      BY <1>1, <3>2
    <3>4. o = f + h.disp - h.start \/ o = (0 - f) + h.disp - h.start
      BY <1>1, <3>1
    <3> QED
      BY <3>2, <3>3, <3>4
  <2>3. w + s <= d + Row
    <3>1. PICK D \in Int, S \in Int : D = h.disp /\ S = h.start
      BY <1>1
    <3>2. ((Row * k + D - S) % Row) + (S % Row) <= (D % Row) + Row
      BY RowOfDifference
    <3> QED
      BY <1>2, <1>3, <2>2, <3>1, <3>2
  <2> QED
    BY <1>1, <1>2, <1>3, <2>1, <2>3
<1> QED
  BY <1>3, <1>4, <1>5 DEF KeptRow

(* The viewport that keeps the row of the cursor. *)
LEMMA KeptShows ==
  ASSUME NEW h, NEW a, NEW keepRow, h \in HexObjects, a \in Int, h.rows > 1,
         DispIn(h), CursorIn(h), InRegion(h, a),
         keepRow /\ Displayed(h, h.cursor), KeptRow(h, a)
  PROVE  OnScreen(MoveViewportTo(h, a, keepRow), a)
<1>1. /\ h.start \in Int /\ h.end \in Int /\ h.disp \in Int /\ h.rows \in Int /\ h.cursor \in Int
      /\ Row \in Int /\ Row >= 1 /\ h.start <= a /\ a < h.end /\ h.disp <= h.cursor
  BY HexAssumption DEF HexObjects, InRegion, Displayed
<1>2. PICK f \in Int : f = Row * (h.rows - 1) /\ f >= Row
  BY FullRows
<1>3. PICK o \in Int : o = a - h.cursor + h.disp - h.start
  BY <1>1
<1>4. PICK g : g = SetDisplayOffset(h, o) /\ g = MoveViewportTo(h, a, keepRow)
  BY <1>3 DEF MoveViewportTo
<1>5. PICK w \in Int, x \in Int :
        w = o % Row /\ 0 <= w /\ w < Row /\ x = RowStart(o) /\ x = o - w
  BY RowStartIs
<1>6. PICK c \in Int, s \in Int :
        c = h.cursor - h.disp /\ c < f /\ s = h.start % Row /\ 0 <= s /\ s < Row
        /\ w + c + s < f + Row
  <2>1. PICK c \in Int, S \in Int : c = h.cursor - h.disp /\ S = h.start
    BY <1>1
  <2>2. PICK s \in Int : s = S % Row /\ 0 <= s /\ s < Row
    BY <2>1, DivMod
  <2>3. Displayed(h, h.cursor)
    OBVIOUS
  <2>4. c < f /\ w + c + s < f + Row
    BY <1>2, <1>3, <1>5, <2>1, <2>2, <2>3, KeptOffset
  <2> QED
    BY <2>1, <2>2, <2>4
<1>7. /\ g \in HexObjects /\ SameRegion(g, h)
      /\ g.disp = h.start + Most(0, Least(x, h.end - h.start - Row))
  BY <1>4, <1>5, DisplayOffset
<1>8. g.end = h.end /\ g.rows = h.rows /\ g.disp \in Int
  BY <1>7 DEF SameRegion, HexObjects
<1>9. CASE g.disp = h.start + x
  <2>1. PICK r \in Int : r = g.disp % Row /\ r <= s
    BY <1>1, <1>5, <1>6, <1>8, <1>9, RowKept, DivMod
  <2>2. g.disp <= a /\ a - g.disp + r < f + Row
    BY <1>1, <1>3, <1>5, <1>6, <1>9, <2>1
  <2>3. Row * g.rows = f + Row
    BY <1>1, <1>2, <1>8
  <2> QED
    BY <1>1, <1>4, <1>7, <1>8, <2>1, <2>2, <2>3, OnScreenIs
<1>10. CASE g.disp # h.start + x
  <2>1. CASE x < 0 /\ g.disp = h.start
    <3>1. o < 0
      BY <1>5, <2>1, RowWithin
    <3>2. g.disp <= a /\ a <= g.disp + f
      BY <1>1, <1>3, <1>6, <2>1, <3>1
    <3> QED
      BY <1>1, <1>2, <1>4, <1>7, <1>8, <3>2, PageShows
  <2>2. CASE g.disp = h.end - Row /\ g.disp < h.start + x
    <3>1. g.disp <= a /\ a <= g.disp + f
      BY <1>1, <1>2, <1>3, <1>5, <1>6, <2>2
    <3> QED
      BY <1>1, <1>2, <1>4, <1>7, <1>8, <3>1, PageShows
  <2>3. CASE g.disp = h.start /\ h.end - h.start - Row < 0
    <3>1. g.disp <= a /\ a <= g.disp + f
      BY <1>1, <1>2, <2>3
    <3> QED
      BY <1>1, <1>2, <1>4, <1>7, <1>8, <3>1, PageShows
  <2>4. \/ x < 0 /\ g.disp = h.start
        \/ g.disp = h.end - Row /\ g.disp < h.start + x
        \/ g.disp = h.start /\ h.end - h.start - Row < 0
    <3>1. PICK e \in Int : e = h.end - h.start - Row
      BY <1>1
    <3>2. g.disp = h.start + Most(0, Least(x, e))
      BY <1>7, <3>1
    <3> QED
      BY <1>1, <1>5, <1>10, <3>1, <3>2 DEF Most, Least
  <2> QED
    BY <2>1, <2>2, <2>3, <2>4, Zenon
<1> QED
  BY <1>9, <1>10, Zenon

LEMMA KeyShows ==
  ASSUME NEW h, NEW key \in Keys, NEW shift, h \in HexObjects, Fits(h), h.rows > 1,
         InRegion(h, KeyTarget(h, key)),
         key \in {"PageUp", "PageDown"} /\ Displayed(h, h.cursor) => PageKeepsRow(h, key)
  PROVE  LET g == PressKey(h, key, shift) IN OnScreen(g, g.cursor)
<1> DEFINE keep == key \in {"PageUp", "PageDown"}
           g == PressKey(h, key, shift)
<1>1. PICK picked \in HexObjects :
        /\ picked = ExtendOrClear(h, shift) /\ Fits(picked) /\ SameRegion(picked, h)
        /\ picked.disp = h.disp /\ picked.cursor = h.cursor
  BY SelectionFits
<1>2. PICK to \in Int : to = KeyTarget(h, key)
  BY KeyTargetIs
<1>3. /\ picked.start = h.start /\ picked.end = h.end /\ picked.rows = h.rows /\ picked.rows > 1
      /\ InRegion(picked, to) /\ picked.start < picked.end
  <2>1. picked.start = h.start /\ picked.end = h.end /\ picked.rows = h.rows
    BY <1>1 DEF SameRegion
  <2>2. InRegion(picked, to)
    BY <1>2, <2>1 DEF InRegion
  <2> QED
    BY <1>2, <2>1, <2>2 DEF InRegion, HexObjects
<1>4. DispIn(picked) /\ CursorIn(picked)
  BY <1>1, <1>3 DEF Fits
<1>5. keep /\ Displayed(picked, picked.cursor) => KeptRow(picked, to)
  <2>1. Displayed(picked, picked.cursor) <=> Displayed(h, h.cursor)
    BY <1>1, <1>3 DEF Displayed, DisplayEnd
  <2>2. PageKeepsRow(h, key) => KeptRow(picked, to)
    BY <1>1, <1>2, <1>3 DEF PageKeepsRow, KeptRow, ScreenRow
  <2> QED
    BY <2>1, <2>2
<1>6. OnScreen(MoveViewportTo(picked, to, keep), to)
  <2>1. CASE keep /\ Displayed(picked, picked.cursor)
    BY <1>3, <1>4, <1>5, <2>1, KeptShows, Zenon
  <2>2. CASE ~(keep /\ Displayed(picked, picked.cursor))
    BY <1>3, <1>4, <2>2, MovedShows, Zenon
  <2> QED
    BY <2>1, <2>2, Zenon
<1>7. Scrolled(MoveViewportTo(picked, to, keep), picked)
  BY MovedViewport, Zenon
<1>8. PICK moved :
        moved = MoveViewportTo(picked, to, keep) /\ OnScreen(moved, to) /\ Scrolled(moved, picked)
  BY <1>6, <1>7, Zenon
<1>9. InRegion(moved, to)
  BY <1>3, <1>8 DEF Scrolled, SameRegion, InRegion
<1>10. g = [moved EXCEPT !.cursor = to, !.ascii = h.ascii, !.nibble = None]
  BY <1>1, <1>2, <1>8, <1>9, Zenon DEF PressKey, SetCursorIn
<1> HIDE DEF g
<1>11. /\ g.cursor = to /\ g.start = moved.start /\ g.end = moved.end /\ g.rows = moved.rows
       /\ g.disp = moved.disp
  BY <1>8, <1>10 DEF Scrolled, HexObjects
<1>12. OnScreen(g, to)
  BY <1>8, <1>11 DEF OnScreen, Displayed, DisplayEnd, ScreenRow
<1> QED
  BY <1>11, <1>12 DEF g

(* Wherever the viewport had been scrolled to, a movement key leaves the cursor
   on the screen (move_viewport_to); a page key does so under the condition of
   PageKeepsRow. *)
THEOREM KeyAlwaysShowsCursor == HexSpec => KeyShowsCursor
<1> DEFINE Shown(key, shift) ==
      (/\ MoveKey(key, shift) /\ InRegion(hex, KeyTarget(hex, key)) /\ hex.rows > 1
       /\ key \in {"PageUp", "PageDown"} /\ Displayed(hex, hex.cursor) =>
            PageKeepsRow(hex, key))
      => OnScreen(hex', hex'.cursor)
<1>1. HexInv => \A key \in Keys, shift \in BOOLEAN : Shown(key, shift)
  <2> SUFFICES ASSUME HexInv, NEW key \in Keys, NEW shift \in BOOLEAN,
                      MoveKey(key, shift), InRegion(hex, KeyTarget(hex, key)), hex.rows > 1,
                      key \in {"PageUp", "PageDown"} /\ Displayed(hex, hex.cursor) =>
                        PageKeepsRow(hex, key)
               PROVE  OnScreen(hex', hex'.cursor)
    BY Zenon
  <2>1. hex \in HexObjects /\ Fits(hex)
    BY DEF HexInv, TypeOK
  <2>2. hex' = PressKey(hex, key, shift)
    BY DEF MoveKey
  <2>3. LET g == PressKey(hex, key, shift) IN OnScreen(g, g.cursor)
    BY <2>1, KeyShows, Zenon
  <2> QED
    BY <2>2, <2>3, Zenon
<1>2. HexInit => HexInv
  BY InitFits
<1>3. HexInv /\ [HexNext]_hexVars => HexInv'
  BY NextFits
<1> QED
  BY <1>1, <1>2, <1>3, PTL DEF HexSpec, KeyShowsCursor

-----------------------------------------------------------------------------
(***************************************************************************)
(* The groups of synchronized views.  Agree(s, P, O, L, Q) says of the       *)
(* cursors and groups s in the middle of a handler: the groups consist of   *)
(* the views of P, those of O show the cursor of their group, the hex views *)
(* of L highlight what the others have selected, and those outside Q        *)
(* highlight nothing.                                                       *)
(***************************************************************************)
MaybeAddrs == Addrs \cup {NoAddr}
Insns == SUBSET Addrs
Regions == [Synced -> Insns]
Groups == [views : SUBSET Synced, cursor : MaybeAddrs, regions : Regions]
SyncStates ==
  [at : [Synced -> MaybeAddrs], sel : [Synced -> Insns], sync : [Synced -> Synced],
   state : [Synced -> Groups], green : [HexViews -> Regions]]

ShowsCursor(s, v) ==
  LET a == s.state[s.sync[v]].cursor IN
  a # NoAddr =>
    IF v \in HexViews THEN a \in HexShows => s.at[v] = a
    ELSE s.at[v] = FuncStart(a)
Selected(s, h) == [s.state[s.sync[h]].regions EXCEPT ![h] = {}]

MembersAgree(s, P) ==
  \A g \in Synced, v \in Synced : v \in s.state[g].views <=> v \in P /\ s.sync[v] = g
RegionsAgree(s, P) ==
  \A g \in Synced, v \in Synced : s.state[g].regions[v] # {} => v \in P /\ s.sync[v] = g
CursorsShown(s, O) == \A v \in O : ShowsCursor(s, v)
Highlighted(s, L) == \A h \in L : s.green[h] = Selected(s, h)
Dark(s, Q) == \A h \in HexViews \ Q : s.green[h] = NoGreen

Bounds(P, O, L, Q) ==
  O \subseteq P /\ L \subseteq P \cap HexViews /\ P \subseteq Q /\ P \subseteq Synced
Agree(s, P, O, L, Q) ==
  /\ s \in SyncStates /\ Bounds(P, O, L, Q)
  /\ MembersAgree(s, P) /\ RegionsAgree(s, P)
  /\ CursorsShown(s, O) /\ Highlighted(s, L) /\ Dark(s, Q)

(* What the constants are. *)
LEMMA ViewFacts ==
  /\ HexViews \subseteq Synced /\ CodeViews \subseteq Synced
  /\ Synced \subseteq Views /\ Synced = HexViews \cup CodeViews
  /\ HexViews \cap CodeViews = {} /\ NoAddr \notin Addrs /\ NoAddr \in MaybeAddrs
  /\ Addrs \subseteq MaybeAddrs /\ NoGreen \in Regions
  /\ \A a \in Addrs : FuncStart(a) \in Addrs /\ FuncStart(FuncStart(a)) = FuncStart(a)
  /\ {} \in Insns /\ \A a \in Addrs : {a} \in Insns
  BY ViewsAssumption DEF Synced, Views, MaybeAddrs, NoGreen, Regions, Insns

(* A state object that nobody uses is made anew. *)
LEMMA FreshFacts ==
  /\ Fresh \in Groups /\ Fresh.views = {} /\ Fresh.cursor = NoAddr /\ Fresh.regions = NoGreen
  /\ \A v \in Synced : NoGreen[v] = {}
<1>1. NoGreen \in Regions
  BY ViewFacts
<1> QED
  BY <1>1, ViewFacts DEF Fresh, Groups, NoGreen

(* Telling hex views of the regions of their group. *)
LEMMA Told ==
  ASSUME NEW s, NEW vs, s \in SyncStates
  PROVE  LET t == RegionsChanged(s, vs) IN
         /\ t \in SyncStates /\ t.at = s.at /\ t.sync = s.sync /\ t.state = s.state
         /\ \A h \in HexViews : t.green[h] = IF h \in vs THEN Selected(s, h) ELSE s.green[h]
<1> DEFINE new == [h \in HexViews |-> IF h \in vs THEN Selected(s, h) ELSE s.green[h]]
           t == RegionsChanged(s, vs)
<1>1. t = [s EXCEPT !.green = new]
  BY DEF RegionsChanged, Selected
<1>2. \A h \in HexViews : Selected(s, h) \in Regions /\ s.green[h] \in Regions
  BY ViewFacts DEF SyncStates, Groups, Selected, Regions
<1>3. /\ new \in [HexViews -> Regions]
      /\ \A h \in HexViews : new[h] = IF h \in vs THEN Selected(s, h) ELSE s.green[h]
  BY <1>2
<1> HIDE DEF new
<1>4. t \in SyncStates /\ t.at = s.at /\ t.sync = s.sync /\ t.state = s.state /\ t.green = new
  BY <1>1, <1>3 DEF SyncStates
<1> QED
  BY <1>3, <1>4

(* Views that are told highlight what they should. *)
LEMMA ToldAgree ==
  ASSUME NEW s, NEW P, NEW O, NEW L, NEW Q, NEW vs, Agree(s, P, O, L, Q), vs \subseteq P
  PROVE  Agree(RegionsChanged(s, vs), P, O, L \cup (vs \cap HexViews), Q)
<1>1. PICK t : t = RegionsChanged(s, vs)
  OBVIOUS
<1>2. /\ t \in SyncStates /\ t.at = s.at /\ t.sync = s.sync /\ t.state = s.state
      /\ \A h \in HexViews : t.green[h] = IF h \in vs THEN Selected(s, h) ELSE s.green[h]
  BY <1>1, Told DEF Agree
<1>3. \A h : Selected(t, h) = Selected(s, h)
  BY <1>2 DEF Selected
<1>4. MembersAgree(t, P) /\ RegionsAgree(t, P)
  BY <1>2 DEF Agree, MembersAgree, RegionsAgree
<1>5. CursorsShown(t, O)
  BY <1>2 DEF Agree, CursorsShown, ShowsCursor
<1>6. Highlighted(t, L \cup (vs \cap HexViews))
  BY <1>2, <1>3 DEF Agree, Bounds, Highlighted
<1>7. Dark(t, Q)
  BY <1>2 DEF Agree, Bounds, Dark
<1>8. Bounds(P, O, L \cup (vs \cap HexViews), Q)
  BY DEF Agree, Bounds
<1> QED
  BY <1>1, <1>2, <1>4, <1>5, <1>6, <1>7, <1>8 DEF Agree

(* The regions of a view change: what is highlighted in its group is stale. *)
LEMMA RegionSet ==
  ASSUME NEW s, NEW v, NEW a, s \in SyncStates, v \in Synced, a \in Insns
  PROVE  LET t == SetRegions(s, v, a) IN
         /\ t \in SyncStates /\ t.at = s.at /\ t.sync = s.sync /\ t.green = s.green
         /\ \A g \in Synced :
              /\ t.state[g].views = s.state[g].views /\ t.state[g].cursor = s.state[g].cursor
              /\ t.state[g].regions = IF g = s.sync[v] THEN [s.state[g].regions EXCEPT ![v] = a]
                                      ELSE s.state[g].regions
<1> DEFINE t == SetRegions(s, v, a)
<1>1. PICK g \in Synced : g = s.sync[v]
  BY DEF SyncStates
<1>2. s.state[g] \in Groups /\ s.state \in [Synced -> Groups]
  BY DEF SyncStates
<1>3. PICK new : new = [s.state[g] EXCEPT !.regions = [s.state[g].regions EXCEPT ![v] = a]]
  OBVIOUS
<1>4. /\ new \in Groups /\ new.views = s.state[g].views /\ new.cursor = s.state[g].cursor
      /\ new.regions = [s.state[g].regions EXCEPT ![v] = a]
  BY <1>2, <1>3 DEF Groups, Regions
<1>5. t = [s EXCEPT !.state = [s.state EXCEPT ![g] = new]]
  BY <1>1, <1>3 DEF SetRegions
<1>6. PICK st : st = [s.state EXCEPT ![g] = new]
  OBVIOUS
<1>7. st \in [Synced -> Groups] /\ st[g] = new /\ \A k \in Synced : k # g => st[k] = s.state[k]
  BY <1>2, <1>4, <1>6
<1>8. t = [s EXCEPT !.state = st]
  BY <1>5, <1>6
<1>9. t \in SyncStates /\ t.at = s.at /\ t.sync = s.sync /\ t.green = s.green /\ t.state = st
  BY <1>7, <1>8 DEF SyncStates
<1> QED
  BY <1>1, <1>4, <1>7, <1>9

(* The regions of v are of no interest to v itself. *)
LEMMA RegionSetAgree ==
  ASSUME NEW s, NEW P, NEW O, NEW L, NEW Q, NEW v, NEW a,
         Agree(s, P, O, L, Q), v \in P, a \in Insns
  PROVE  LET t == SetRegions(s, v, a) IN
         /\ Agree(t, P, O, L \ (s.state[s.sync[v]].views \ {v}), Q)
         /\ t.at = s.at /\ t.sync = s.sync
         /\ t.state[t.sync[v]].views = s.state[s.sync[v]].views
         /\ t.state[t.sync[v]].regions[v] = a
<1>1. PICK t : t = SetRegions(s, v, a)
  OBVIOUS
<1>2. v \in Synced /\ s \in SyncStates
  BY DEF Agree, Bounds
<1>3. /\ t \in SyncStates /\ t.at = s.at /\ t.sync = s.sync /\ t.green = s.green
      /\ \A g \in Synced :
           /\ t.state[g].views = s.state[g].views /\ t.state[g].cursor = s.state[g].cursor
           /\ t.state[g].regions = IF g = s.sync[v] THEN [s.state[g].regions EXCEPT ![v] = a]
                                   ELSE s.state[g].regions
  BY <1>1, <1>2, RegionSet
<1>4. /\ s.sync \in [Synced -> Synced] /\ \A g \in Synced : s.state[g].regions \in Regions
  BY <1>2 DEF SyncStates, Groups
<1>a. /\ MembersAgree(s, P) /\ RegionsAgree(s, P) /\ CursorsShown(s, O) /\ Highlighted(s, L)
      /\ O \subseteq Synced
  BY DEF Agree, Bounds
<1>5. MembersAgree(t, P)
  <2> SUFFICES ASSUME NEW g \in Synced, NEW w \in Synced
               PROVE  w \in t.state[g].views <=> w \in P /\ t.sync[w] = g
    BY DEF MembersAgree
  <2>1. t.state[g].views = s.state[g].views /\ t.sync[w] = s.sync[w]
    BY <1>3
  <2> QED
    BY <1>a, <2>1 DEF MembersAgree
<1>6. RegionsAgree(t, P)
  <2> SUFFICES ASSUME NEW g \in Synced, NEW w \in Synced, t.state[g].regions[w] # {}
               PROVE  w \in P /\ s.sync[w] = g
    BY <1>3 DEF RegionsAgree
  <2>1. CASE g = s.sync[v] /\ w = v
    BY <2>1
  <2>2. CASE ~(g = s.sync[v] /\ w = v)
    <3>1. t.state[g].regions[w] = s.state[g].regions[w]
      BY <1>3, <1>4, <2>2 DEF Regions
    <3> QED
      BY <1>a, <3>1 DEF RegionsAgree
  <2> QED
    BY <2>1, <2>2
<1>7. CursorsShown(t, O)
  <2> SUFFICES ASSUME NEW w \in O PROVE ShowsCursor(t, w)
    BY DEF CursorsShown
  <2>1. t.at[w] = s.at[w] /\ t.state[t.sync[w]].cursor = s.state[s.sync[w]].cursor
    BY <1>3, <1>4, <1>a
  <2> QED
    BY <1>a, <2>1 DEF CursorsShown, ShowsCursor
<1>8. Highlighted(t, L \ (s.state[s.sync[v]].views \ {v}))
  <2> SUFFICES ASSUME NEW h \in L, h \notin s.state[s.sync[v]].views \ {v}
               PROVE  t.green[h] = Selected(t, h)
    BY DEF Highlighted
  <2>1. h \in P /\ h \in Synced /\ s.green[h] = Selected(s, h)
    BY DEF Agree, Bounds, Highlighted
  <2>2. CASE h = v
    <3>1. [[s.state[s.sync[v]].regions EXCEPT ![v] = a] EXCEPT ![v] = {}]
            = [s.state[s.sync[v]].regions EXCEPT ![v] = {}]
      BY <1>2, <1>4 DEF Regions
    <3> QED
      BY <1>2, <1>3, <1>4, <2>1, <2>2, <3>1 DEF Selected
  <2>3. CASE h # v
    <3>1. s.sync[h] # s.sync[v]
      BY <1>2, <1>4, <2>1, <2>3 DEF Agree, MembersAgree
    <3> QED
      BY <1>2, <1>3, <1>4, <2>1, <3>1 DEF Selected
  <2> QED
    BY <2>2, <2>3
<1>9. Dark(t, Q) /\ Bounds(P, O, L \ (s.state[s.sync[v]].views \ {v}), Q)
  BY <1>3 DEF Agree, Bounds, Dark
<1>10. Agree(t, P, O, L \ (s.state[s.sync[v]].views \ {v}), Q)
  BY <1>3, <1>5, <1>6, <1>7, <1>8, <1>9 DEF Agree
<1>11. t.state[t.sync[v]].regions[v] = a
  <2>1. PICK g \in Synced : g = s.sync[v]
    BY <1>2, <1>4
  <2>2. t.state[g].regions = [s.state[g].regions EXCEPT ![v] = a] /\ t.sync[v] = g
    BY <1>3, <2>1
  <2> QED
    BY <1>2, <1>4, <2>2 DEF Regions
<1> QED
  BY <1>1, <1>2, <1>3, <1>4, <1>10, <1>11

(* update_highlight_regions_for_synchronized_views: no cursor changes. *)
CursorsKept(s, u) ==
  u.at = s.at /\ u.sync = s.sync /\ \A g \in Synced : u.state[g].cursor = s.state[g].cursor
LEMMA PublishRegionsAgree ==
  ASSUME NEW s, NEW P, NEW O, NEW L, NEW Q, NEW v, Agree(s, P, O, L, Q), v \in P
  PROVE  Agree(PublishRegions(s, v), P, O, L, Q) /\ CursorsKept(s, PublishRegions(s, v))
<1>0. PICK a : a = s.sel[v]
  OBVIOUS
<1>a. a \in Insns /\ v \in Synced /\ s \in SyncStates
  BY <1>0 DEF Agree, Bounds, SyncStates
<1>1. PICK t : t = SetRegions(s, v, a)
  OBVIOUS
<1>2. PICK others : others = s.state[s.sync[v]].views \ {v}
  OBVIOUS
<1>3. Agree(t, P, O, L \ others, Q) /\ t.state[t.sync[v]].views \ {v} = others
  <2>1. /\ Agree(t, P, O, L \ (s.state[s.sync[v]].views \ {v}), Q)
        /\ t.state[t.sync[v]].views = s.state[s.sync[v]].views
    BY <1>1, <1>a, RegionSetAgree
  <2> QED
    BY <1>2, <2>1
<1>b. CursorsKept(s, t) /\ t \in SyncStates
  <2>1. /\ t \in SyncStates /\ t.at = s.at /\ t.sync = s.sync /\ t.green = s.green
        /\ \A g \in Synced :
             /\ t.state[g].views = s.state[g].views /\ t.state[g].cursor = s.state[g].cursor
             /\ t.state[g].regions = IF g = s.sync[v] THEN [s.state[g].regions EXCEPT ![v] = a]
                                     ELSE s.state[g].regions
    BY <1>1, <1>a, RegionSet
  <2> QED
    BY <2>1 DEF CursorsKept
<1>4. others \subseteq P
  <2>1. s.sync[v] \in Synced /\ s.state[s.sync[v]].views \subseteq Synced
    BY DEF Agree, Bounds, SyncStates, Groups
  <2> QED
    BY <1>2, <2>1 DEF Agree, MembersAgree
<1>5. Agree(RegionsChanged(t, others), P, O, (L \ others) \cup (others \cap HexViews), Q)
  BY <1>3, <1>4, ToldAgree
<1>6. L \subseteq (L \ others) \cup (others \cap HexViews)
  BY DEF Agree, Bounds
<1>7. PICK u : u = RegionsChanged(t, others)
  OBVIOUS
<1>8. Agree(u, P, O, L, Q)
  BY <1>5, <1>6, <1>7 DEF Agree, Bounds, Highlighted
<1>9. CursorsKept(s, u)
  BY <1>7, <1>b, Told DEF CursorsKept
<1>10. u = PublishRegions(s, v)
  BY <1>0, <1>1, <1>3, <1>7 DEF PublishRegions
<1> QED
  BY <1>8, <1>9, <1>10

(* Another state of a group. *)
SetGroup(s, g, r) == [s EXCEPT !.state[g] = r]

LEMMA GroupSet ==
  ASSUME NEW s, NEW g, NEW r, s \in SyncStates, g \in Synced, r \in Groups
  PROVE  LET t == SetGroup(s, g, r) IN
         /\ t \in SyncStates /\ t.at = s.at /\ t.sync = s.sync /\ t.green = s.green
         /\ \A k \in Synced : t.state[k] = IF k = g THEN r ELSE s.state[k]
<1>1. PICK st : st = [s.state EXCEPT ![g] = r]
  OBVIOUS
<1>2. st \in [Synced -> Groups] /\ \A k \in Synced : st[k] = IF k = g THEN r ELSE s.state[k]
  BY <1>1 DEF SyncStates
<1>3. PICK t : t = SetGroup(s, g, r) /\ t = [s EXCEPT !.state = st]
  BY <1>1 DEF SetGroup
<1>4. t \in SyncStates /\ t.at = s.at /\ t.sync = s.sync /\ t.green = s.green /\ t.state = st
  BY <1>2, <1>3 DEF SyncStates
<1> QED
  BY <1>2, <1>3, <1>4

(* What a hex view highlights stays right while its group keeps its regions. *)
LEMMA StillHighlighted ==
  ASSUME NEW s, NEW t, NEW L, NEW M, s \in SyncStates, t \in SyncStates, Highlighted(s, L),
         M \subseteq L, M \subseteq Synced,
         \A h \in M : /\ t.green[h] = s.green[h]
                     /\ t.state[t.sync[h]].regions = s.state[s.sync[h]].regions
  PROVE  Highlighted(t, M)
<1> SUFFICES ASSUME NEW h \in M PROVE t.green[h] = Selected(t, h)
  BY DEF Highlighted
<1>1. s.green[h] = Selected(s, h)
  BY DEF Highlighted
<1> QED
  BY <1>1 DEF Selected

(* A view whose regions are gone leaves its group, which is forgotten with the
   last view of it. *)
LEMMA LeaveAgree ==
  ASSUME NEW s, NEW P, NEW O, NEW L, NEW Q, NEW v,
         Agree(s, P, O, L, Q), v \in P, s.state[s.sync[v]].regions[v] = {}
  PROVE  LET t == Leave(s, v) IN
         /\ Agree(t, P \ {v}, O \ {v}, L \ {v}, Q) /\ t.at = s.at /\ t.sync = s.sync
<1>c. PICK g : g = s.sync[v] /\ s.state[g].regions[v] = {}
  OBVIOUS
<1>0. PICK left : left = s.state[g].views \ {v}
  OBVIOUS
<1>1. PICK r : r = IF left = {} THEN Fresh ELSE [s.state[g] EXCEPT !.views = left]
  OBVIOUS
<1>2. /\ v \in Synced /\ g \in Synced /\ s \in SyncStates /\ O \subseteq Synced /\ L \subseteq Synced
      /\ s.sync \in [Synced -> Synced] /\ s.state[g] \in Groups
  BY <1>c DEF Agree, Bounds, SyncStates
<1>3. /\ r \in Groups /\ r.views = left /\ (left = {} => r = Fresh)
      /\ left # {} => r.cursor = s.state[g].cursor /\ r.regions = s.state[g].regions
  BY <1>0, <1>1, <1>2, FreshFacts DEF Groups
<1>4. PICK t : t = Leave(s, v)
  OBVIOUS
<1>a. t = SetGroup(s, g, r)
  BY <1>0, <1>1, <1>2, <1>4, <1>c DEF SetGroup, Leave, SyncStates
<1>5. /\ t \in SyncStates /\ t.at = s.at /\ t.sync = s.sync /\ t.green = s.green
      /\ \A k \in Synced : t.state[k] = IF k = g THEN r ELSE s.state[k]
  BY <1>2, <1>3, <1>a, GroupSet
<1>6. \A k \in Synced : \A w : w \in t.state[k].views <=> w \in s.state[k].views /\ (k = g => w # v)
  BY <1>0, <1>3, <1>5
<1>b. \A w \in P \ {v} : /\ t.state[t.sync[w]].cursor = s.state[s.sync[w]].cursor
                        /\ t.state[t.sync[w]].regions = s.state[s.sync[w]].regions
  <2> SUFFICES ASSUME NEW w \in P, w # v
               PROVE  /\ t.state[t.sync[w]].cursor = s.state[s.sync[w]].cursor
                      /\ t.state[t.sync[w]].regions = s.state[s.sync[w]].regions
    OBVIOUS
  <2>1. PICK k \in Synced : k = s.sync[w]
    BY <1>2 DEF Agree, Bounds
  <2>2. k = g => w \in left
    BY <1>0, <1>2, <1>c, <2>1 DEF Agree, Bounds, MembersAgree
  <2> QED
    BY <1>3, <1>5, <2>1, <2>2
<1>7. MembersAgree(t, P \ {v})
  <2> SUFFICES ASSUME NEW k \in Synced, NEW w \in Synced
               PROVE  w \in t.state[k].views <=> w \in P \ {v} /\ t.sync[w] = k
    BY DEF MembersAgree
  <2>1. w \in s.state[k].views <=> w \in P /\ s.sync[w] = k
    BY DEF Agree, MembersAgree
  <2> QED
    BY <1>5, <1>6, <1>c, <2>1
<1>8. RegionsAgree(t, P \ {v})
  <2> SUFFICES ASSUME NEW k \in Synced, NEW w \in Synced, t.state[k].regions[w] # {}
               PROVE  w \in P \ {v} /\ t.sync[w] = k
    BY DEF RegionsAgree
  <2>0. t.state[k].regions = s.state[k].regions
    BY <1>3, <1>5, FreshFacts
  <2>1. w \in P /\ s.sync[w] = k
    BY <2>0 DEF Agree, RegionsAgree
  <2>2. w # v
    BY <1>c, <2>0, <2>1
  <2> QED
    BY <1>5, <2>1, <2>2
<1>9. CursorsShown(t, O \ {v})
  BY <1>2, <1>5, <1>b DEF Agree, Bounds, CursorsShown, ShowsCursor
<1>10. Highlighted(t, L \ {v})
  <2>1. Highlighted(s, L) /\ L \subseteq P /\ t \in SyncStates
    BY <1>5 DEF Agree, Bounds
  <2> QED
    BY <1>2, <1>5, <1>b, <2>1, StillHighlighted
<1>11. Dark(t, Q) /\ Bounds(P \ {v}, O \ {v}, L \ {v}, Q)
  BY <1>5 DEF Agree, Bounds, Dark
<1> QED
  BY <1>0, <1>4, <1>5, <1>7, <1>8, <1>9, <1>10, <1>11 DEF Agree

(* unregister_view *)
LEMMA UnregisterAgree ==
  ASSUME NEW s, NEW P, NEW O, NEW L, NEW Q, NEW v, Agree(s, P, O, L, Q), v \in P
  PROVE  LET u == Unregister(s, v) IN
         Agree(u, P \ {v}, O \ {v}, L \ {v}, Q) /\ u.at = s.at /\ u.sync = s.sync
<1>1. PICK g : g = s.sync[v]
  OBVIOUS
<1>2. PICK t : t = SetRegions(s, v, {})
  OBVIOUS
<1>3. PICK u : u = IF s.state[g].regions[v] = {} THEN t ELSE RegionsChanged(t, t.state[g].views)
  OBVIOUS
<1>4. /\ s \in SyncStates /\ v \in Synced /\ g \in Synced /\ {} \in Insns
      /\ L \subseteq Synced
  BY <1>1, ViewFacts DEF Agree, Bounds, SyncStates
<1>5. /\ Agree(t, P, O, L \ (s.state[g].views \ {v}), Q) /\ t.at = s.at /\ t.sync = s.sync
      /\ t.state[g].views = s.state[g].views /\ t.state[g].regions[v] = {}
  <2>1. /\ Agree(t, P, O, L \ (s.state[g].views \ {v}), Q) /\ t.at = s.at /\ t.sync = s.sync
        /\ t.state[t.sync[v]].views = s.state[s.sync[v]].views
        /\ t.state[t.sync[v]].regions[v] = {}
    BY <1>1, <1>2, <1>4, RegionSetAgree
  <2> QED
    BY <1>1, <2>1
<1>6. Agree(u, P, O, L, Q) /\ u.at = s.at /\ u.sync = s.sync /\ u.state[g].regions[v] = {}
  <2>1. CASE s.state[g].regions[v] = {}
    <3>1. u = t
      BY <1>3, <2>1
    <3>2. \A k \in Synced : t.state[k].regions = s.state[k].regions
      <4>1. s.state[g].regions \in Regions
        BY <1>4 DEF SyncStates, Groups
      <4>2. [s.state[g].regions EXCEPT ![v] = {}] = s.state[g].regions
        BY <1>4, <2>1, <4>1 DEF Regions
      <4>3. \A k \in Synced :
              /\ t.state[k].views = s.state[k].views /\ t.state[k].cursor = s.state[k].cursor
              /\ t.state[k].regions = IF k = s.sync[v] THEN [s.state[k].regions EXCEPT ![v] = {}]
                                      ELSE s.state[k].regions
        <5>1. PICK none : none = {} /\ none \in Insns
          BY <1>4
        <5>2. t = SetRegions(s, v, none)
          BY <1>2, <5>1
        <5>3. s \in SyncStates /\ v \in Synced /\ none \in Insns
          BY <1>4, <5>1
        <5>4. /\ t \in SyncStates /\ t.at = s.at /\ t.sync = s.sync /\ t.green = s.green
              /\ \A k \in Synced :
                /\ t.state[k].views = s.state[k].views /\ t.state[k].cursor = s.state[k].cursor
                /\ t.state[k].regions = IF k = s.sync[v] THEN [s.state[k].regions EXCEPT ![v] = none]
                                        ELSE s.state[k].regions
          BY <5>2, <5>3, RegionSet
        <5> QED
          BY <5>1, <5>4
      <4> QED
        BY <1>1, <4>2, <4>3
    <3>3. t.green = s.green
      BY <1>1, <1>2, <1>4, RegionSet
    <3>4. Highlighted(t, L)
      <4>1. Highlighted(s, L) /\ t \in SyncStates
        BY <1>5 DEF Agree
      <4>2. \A h \in L : s.sync[h] \in Synced /\ t.sync[h] = s.sync[h]
        BY <1>4, <1>5 DEF SyncStates
      <4> QED
        BY <1>4, <3>2, <3>3, <4>1, <4>2, StillHighlighted
    <3> QED
      BY <1>5, <3>1, <3>4 DEF Agree, Bounds
  <2>2. CASE s.state[g].regions[v] # {}
    <3>1. PICK vs : vs = t.state[g].views
      OBVIOUS
    <3>2. vs \subseteq P
      <4>1. vs \subseteq Synced
        BY <1>4, <1>5, <3>1 DEF Agree, SyncStates, Groups
      <4> QED
        BY <1>4, <1>5, <3>1, <4>1 DEF Agree, MembersAgree
    <3>3. Agree(RegionsChanged(t, vs), P, O, (L \ (vs \ {v})) \cup (vs \cap HexViews), Q)
      BY <1>5, <3>1, <3>2, ToldAgree
    <3>4. L \subseteq (L \ (vs \ {v})) \cup (vs \cap HexViews)
      BY DEF Agree, Bounds
    <3>5. u = RegionsChanged(t, vs)
      BY <1>3, <2>2, <3>1
    <3>6. Agree(u, P, O, L, Q)
      BY <3>3, <3>4, <3>5 DEF Agree, Bounds, Highlighted
    <3>7. u.at = t.at /\ u.sync = t.sync /\ u.state = t.state
      BY <1>5, <3>5, Told DEF Agree
    <3> QED
      BY <1>5, <3>6, <3>7
  <2> QED
    BY <2>1, <2>2
<1>8. PICK w : w = Leave(u, v)
  OBVIOUS
<1>9. Agree(w, P \ {v}, O \ {v}, L \ {v}, Q) /\ w.at = u.at /\ w.sync = u.sync
  <2>1. u.state[u.sync[v]].regions[v] = {} /\ Agree(u, P, O, L, Q)
    BY <1>1, <1>6
  <2>2. /\ Agree(Leave(u, v), P \ {v}, O \ {v}, L \ {v}, Q)
        /\ Leave(u, v).at = u.at /\ Leave(u, v).sync = u.sync
    BY ONLY <2>1, v \in P, LeaveAgree
  <2> QED
    BY <1>8, <2>2
<1>10. w = Unregister(s, v)
  BY <1>1, <1>2, <1>3, <1>8 DEF Unregister
<1> QED
  BY <1>6, <1>9, <1>10

(* Less may be asked of a state ... *)
LEMMA AgreeLess ==
  ASSUME NEW s, NEW P, NEW O, NEW L, NEW Q, NEW N, NEW M,
         Agree(s, P, O, L, Q), N \subseteq O, M \subseteq L
  PROVE  Agree(s, P, N, M, Q)
  BY DEF Agree, Bounds, CursorsShown, Highlighted

(* ... and a view that shows the cursor of its group may be counted in. *)
LEMMA AgreeShown ==
  ASSUME NEW s, NEW P, NEW O, NEW L, NEW Q, NEW v,
         Agree(s, P, O \ {v}, L, Q), v \in P, ShowsCursor(s, v), O \subseteq P
  PROVE  Agree(s, P, O \cup {v}, L, Q)
  BY DEF Agree, Bounds, CursorsShown

(* A view moves its own cursor. *)
SetAt(s, v, a) == [s EXCEPT !.at[v] = a]
LEMMA AtSet ==
  ASSUME NEW s, NEW P, NEW O, NEW L, NEW Q, NEW v, NEW a,
         Agree(s, P, O, L, Q), v \in Synced, a \in MaybeAddrs
  PROVE  LET t == SetAt(s, v, a) IN
         /\ Agree(t, P, O \ {v}, L, Q) /\ t.at[v] = a
         /\ t.sync = s.sync /\ t.state = s.state /\ t.green = s.green
<1>1. PICK new : new = [s.at EXCEPT ![v] = a]
  OBVIOUS
<1>2. s \in SyncStates /\ O \subseteq Synced
  BY DEF Agree, Bounds
<1>3. new \in [Synced -> MaybeAddrs] /\ new[v] = a /\ \A w \in Synced : w # v => new[w] = s.at[w]
  BY <1>1, <1>2 DEF SyncStates
<1>4. PICK t : t = SetAt(s, v, a) /\ t = [s EXCEPT !.at = new]
  BY <1>1 DEF SetAt
<1>5. /\ t \in SyncStates /\ t.at = new /\ t.sync = s.sync /\ t.state = s.state
      /\ t.green = s.green
  BY <1>2, <1>3, <1>4 DEF SyncStates
<1>6. MembersAgree(t, P) /\ RegionsAgree(t, P)
  BY <1>5 DEF Agree, MembersAgree, RegionsAgree
<1>7. CursorsShown(t, O \ {v})
  <2> SUFFICES ASSUME NEW w \in O, w # v PROVE ShowsCursor(t, w)
    BY DEF CursorsShown
  <2>1. ShowsCursor(s, w) /\ t.at[w] = s.at[w]
    BY <1>2, <1>3, <1>5 DEF Agree, CursorsShown
  <2> QED
    BY <1>5, <2>1 DEF ShowsCursor
<1>8. Highlighted(t, L) /\ Dark(t, Q) /\ Bounds(P, O \ {v}, L, Q)
  BY <1>5 DEF Agree, Bounds, Highlighted, Selected, Dark
<1> QED
  BY <1>3, <1>4, <1>5, <1>6, <1>7, <1>8 DEF Agree

(* A view selects other instructions: nobody has been told yet. *)
SetSel(s, v, insns) == [s EXCEPT !.sel[v] = insns]
LEMMA SelSet ==
  ASSUME NEW s, NEW P, NEW O, NEW L, NEW Q, NEW v, NEW insns,
         Agree(s, P, O, L, Q), v \in Synced, insns \in Insns
  PROVE  LET t == SetSel(s, v, insns) IN Agree(t, P, O, L, Q) /\ CursorsKept(s, t)
<1>1. PICK new : new = [s.sel EXCEPT ![v] = insns]
  OBVIOUS
<1>2. s \in SyncStates /\ new \in [Synced -> Insns]
  BY <1>1 DEF Agree, SyncStates
<1>3. PICK t : t = SetSel(s, v, insns) /\ t = [s EXCEPT !.sel = new]
  BY <1>1 DEF SetSel
<1>4. /\ t \in SyncStates /\ t.at = s.at /\ t.sync = s.sync /\ t.state = s.state
      /\ t.green = s.green
  BY <1>2, <1>3 DEF SyncStates
<1>5. MembersAgree(t, P) /\ RegionsAgree(t, P)
  BY <1>4 DEF Agree, MembersAgree, RegionsAgree
<1>6. CursorsShown(t, O)
  BY <1>4 DEF Agree, CursorsShown, ShowsCursor
<1>7. Highlighted(t, L) /\ Dark(t, Q) /\ Bounds(P, O, L, Q)
  BY <1>4 DEF Agree, Highlighted, Selected, Dark
<1> QED
  BY <1>3, <1>4, <1>5, <1>6, <1>7 DEF Agree, CursorsKept

(* Every change of the instructions selected is published. *)
LEMMA SetSelectedAgree ==
  ASSUME NEW s, NEW P, NEW O, NEW L, NEW Q, NEW v, NEW insns,
         Agree(s, P, O, L, Q), v \in P, insns \in Insns
  PROVE  LET t == SetSelected(s, v, insns) IN Agree(t, P, O, L, Q) /\ CursorsKept(s, t)
<1>1. v \in Synced
  BY DEF Agree, Bounds
<1>2. PICK u : u = SetSel(s, v, insns)
  OBVIOUS
<1>3. Agree(u, P, O, L, Q) /\ CursorsKept(s, u)
  BY <1>1, <1>2, SelSet
<1>4. PICK t : t = PublishRegions(u, v)
  OBVIOUS
<1>5. Agree(t, P, O, L, Q) /\ CursorsKept(u, t)
  BY <1>3, <1>4, PublishRegionsAgree
<1>6. t = SetSelected(s, v, insns)
  BY <1>2, <1>4 DEF SetSelected, SetSel
<1> QED
  BY <1>3, <1>5, <1>6 DEF CursorsKept

(* The cursor of a group moves: its views are yet to be told. *)
SetGroupCursor(s, g, a) == [s EXCEPT !.state[g].cursor = a]
LEMMA GroupCursorSet ==
  ASSUME NEW s, NEW P, NEW O, NEW L, NEW Q, NEW g, NEW a,
         Agree(s, P, O, L, Q), g \in Synced, a \in MaybeAddrs
  PROVE  LET t == SetGroupCursor(s, g, a) IN
         /\ Agree(t, P, O \ s.state[g].views, L, Q)
         /\ t.at = s.at /\ t.sync = s.sync
         /\ t.state[g].cursor = a /\ t.state[g].views = s.state[g].views
<1>1. PICK r : r = [s.state[g] EXCEPT !.cursor = a]
  OBVIOUS
<1>2. /\ s \in SyncStates /\ O \subseteq P /\ P \subseteq Synced /\ L \subseteq Synced
      /\ s.sync \in [Synced -> Synced] /\ s.state[g] \in Groups
  BY DEF Agree, Bounds, SyncStates
<1>3. /\ r \in Groups /\ r.views = s.state[g].views /\ r.cursor = a
      /\ r.regions = s.state[g].regions
  BY <1>1, <1>2 DEF Groups
<1>4. PICK t : t = SetGroupCursor(s, g, a) /\ t = SetGroup(s, g, r)
  BY <1>1 DEF SetGroupCursor, SetGroup
<1>5. /\ t \in SyncStates /\ t.at = s.at /\ t.sync = s.sync /\ t.green = s.green
      /\ \A k \in Synced : t.state[k] = IF k = g THEN r ELSE s.state[k]
  BY <1>2, <1>3, <1>4, GroupSet
<1>6. \A k \in Synced :
        /\ t.state[k].views = s.state[k].views /\ t.state[k].regions = s.state[k].regions
        /\ t.state[k].cursor = IF k = g THEN a ELSE s.state[k].cursor
  BY <1>3, <1>5
<1>7. MembersAgree(t, P) /\ RegionsAgree(t, P)
  <2>1. MembersAgree(s, P) /\ RegionsAgree(s, P)
    BY DEF Agree
  <2>2. MembersAgree(t, P)
    <3> SUFFICES ASSUME NEW k \in Synced, NEW w \in Synced
                 PROVE  w \in t.state[k].views <=> w \in P /\ t.sync[w] = k
      BY DEF MembersAgree
    <3> QED
      BY <1>5, <1>6, <2>1 DEF MembersAgree
  <2>3. RegionsAgree(t, P)
    BY <1>5, <1>6, <2>1 DEF RegionsAgree
  <2> QED
    BY <2>2, <2>3
<1>8. CursorsShown(t, O \ s.state[g].views)
  <2> SUFFICES ASSUME NEW w \in O, w \notin s.state[g].views PROVE ShowsCursor(t, w)
    BY DEF CursorsShown
  <2>1. ShowsCursor(s, w) /\ w \in P /\ w \in Synced /\ s.sync[w] \in Synced
    BY <1>2 DEF Agree, CursorsShown
  <2>2. s.sync[w] # g
    BY <2>1 DEF Agree, MembersAgree
  <2> QED
    BY <1>5, <1>6, <2>1, <2>2 DEF ShowsCursor
<1>9. Highlighted(t, L)
  <2>1. Highlighted(s, L) /\ \A h \in L : s.sync[h] \in Synced
    BY <1>2 DEF Agree
  <2> QED
    BY <1>2, <1>5, <1>6, <2>1, StillHighlighted
<1>10. Dark(t, Q) /\ Bounds(P, O \ s.state[g].views, L, Q)
  BY <1>5 DEF Agree, Bounds, Dark
<1> QED
  BY <1>4, <1>5, <1>6, <1>7, <1>8, <1>9, <1>10 DEF Agree

(* The views of vs move to the cursor of their group, and the disassembly views
   among them show the function and select the instruction. *)
ToldAt(s, vs, a, v) ==
  IF v \in vs \cap CodeViews THEN FuncStart(a)
  ELSE IF v \in vs /\ Shows(v, a) THEN a ELSE s.at[v]
Moved(s, vs, a) ==
  [s EXCEPT
    !.at = [v \in Synced |-> ToldAt(s, vs, a, v)],
    !.sel = [v \in Synced |-> IF v \in vs \cap CodeViews THEN {a} ELSE s.sel[v]],
    !.state = [g \in Synced |->
      [s.state[g] EXCEPT !.regions = [v \in Synced |->
         IF v \in vs \cap CodeViews /\ s.sync[v] = g THEN {a} ELSE s.state[g].regions[v]]]]]

HasMoved(s, t, vs, a) ==
  /\ t \in SyncStates /\ t.sync = s.sync /\ t.green = s.green
  /\ \A v \in Synced : t.at[v] = ToldAt(s, vs, a, v)
  /\ \A g \in Synced :
       /\ t.state[g].views = s.state[g].views /\ t.state[g].cursor = s.state[g].cursor
       /\ t.state[g].regions \in Regions
       /\ \A v \in Synced : t.state[g].regions[v] =
            IF v \in vs \cap CodeViews /\ s.sync[v] = g THEN {a} ELSE s.state[g].regions[v]
LEMMA MovedFacts ==
  ASSUME NEW s, NEW vs, NEW a, s \in SyncStates, a \in Addrs
  PROVE  HasMoved(s, Moved(s, vs, a), vs, a)
<1> DEFINE new(g) == [v \in Synced |->
                        IF v \in vs \cap CodeViews /\ s.sync[v] = g THEN {a} ELSE s.state[g].regions[v]]
<1>1. PICK nat : nat = [v \in Synced |-> ToldAt(s, vs, a, v)]
  OBVIOUS
<1>a. PICK nsel : nsel = [v \in Synced |-> IF v \in vs \cap CodeViews THEN {a} ELSE s.sel[v]]
  OBVIOUS
<1>b. nsel \in [Synced -> Insns]
  BY <1>a, ViewFacts DEF SyncStates
<1>2. PICK st : st = [g \in Synced |-> [s.state[g] EXCEPT !.regions = new(g)]]
  OBVIOUS
<1>3. /\ nat \in [Synced -> MaybeAddrs]
      /\ \A v \in Synced : nat[v] = ToldAt(s, vs, a, v)
  BY <1>1, ViewFacts DEF SyncStates, ToldAt
<1>4. \A g \in Synced : s.state[g] \in Groups
  BY DEF SyncStates
<1>5. \A g \in Synced :
        /\ new(g) \in Regions
        /\ \A v \in Synced : new(g)[v] =
             IF v \in vs \cap CodeViews /\ s.sync[v] = g THEN {a} ELSE s.state[g].regions[v]
  BY <1>4, ViewFacts DEF Groups, Regions
<1>6. \A g \in Synced : st[g] = [s.state[g] EXCEPT !.regions = new(g)]
  BY <1>2
<1>7. Moved(s, vs, a) = [s EXCEPT !.at = nat, !.sel = nsel, !.state = st]
  BY <1>1, <1>2, <1>a DEF Moved
<1> HIDE DEF new
<1>8. \A g \in Synced : /\ st[g] \in Groups /\ st[g].views = s.state[g].views
                        /\ st[g].cursor = s.state[g].cursor /\ st[g].regions = new(g)
  <2> SUFFICES ASSUME NEW g \in Synced
               PROVE  /\ st[g] \in Groups /\ st[g].views = s.state[g].views
                      /\ st[g].cursor = s.state[g].cursor /\ st[g].regions = new(g)
    OBVIOUS
  <2>1. PICK n : n = new(g)
    OBVIOUS
  <2>2. n \in Regions /\ st[g] = [s.state[g] EXCEPT !.regions = n]
    BY <1>5, <1>6, <2>1
  <2> QED
    BY <1>4, <2>1, <2>2 DEF Groups
<1>9. st \in [Synced -> Groups]
  BY <1>2, <1>8
<1>10. PICK t : t = Moved(s, vs, a) /\ t = [s EXCEPT !.at = nat, !.sel = nsel, !.state = st]
  BY <1>7
<1>11. /\ t \in SyncStates /\ t.at = nat /\ t.state = st /\ t.sync = s.sync /\ t.green = s.green
  BY <1>3, <1>9, <1>10, <1>b DEF SyncStates
<1>12. \A v \in Synced : t.at[v] = ToldAt(s, vs, a, v)
  BY <1>3, <1>11
<1>13. \A g \in Synced :
         /\ t.state[g].views = s.state[g].views /\ t.state[g].cursor = s.state[g].cursor
         /\ t.state[g].regions = new(g)
  BY <1>8, <1>11
<1> QED
  BY <1>5, <1>10, <1>11, <1>12, <1>13 DEF HasMoved

(* jump_to in each view of vs, and the regions of the disassembly views among
   them: the rest of the group hears of those. *)
OthersKept(s, u, vs) ==
  /\ u.sync = s.sync /\ \A v \in Synced \ vs : u.at[v] = s.at[v]
  /\ \A g \in Synced : u.state[g].cursor = s.state[g].cursor
LEMMA FollowAgree ==
  ASSUME NEW s, NEW P, NEW O, NEW L, NEW Q, NEW vs, NEW a,
         Agree(s, P, O, L, Q), vs \subseteq P, a \in Addrs,
         \A v \in vs : s.state[s.sync[v]].cursor = a
  PROVE  LET u == Follow(s, vs, a) IN
         Agree(u, P, O \cup vs, L, Q) /\ OthersKept(s, u, vs)
<1>1. PICK t : t = Moved(s, vs, a)
  OBVIOUS
<1>2. PICK codes : codes = vs \cap CodeViews
  OBVIOUS
<1>3. PICK told : told = UNION {t.state[t.sync[v]].views \ {v} : v \in codes}
  OBVIOUS
<1>4. /\ s \in SyncStates /\ O \subseteq P /\ P \subseteq Synced /\ L \subseteq P \cap HexViews
      /\ a \in MaybeAddrs /\ a # NoAddr /\ s.sync \in [Synced -> Synced]
  BY ViewFacts DEF Agree, Bounds, SyncStates
<1>5. /\ t \in SyncStates /\ t.sync = s.sync /\ t.green = s.green
      /\ \A v \in Synced : t.at[v] = ToldAt(s, vs, a, v)
      /\ \A k \in Synced :
           /\ t.state[k].views = s.state[k].views /\ t.state[k].cursor = s.state[k].cursor
           /\ t.state[k].regions \in Regions
           /\ \A v \in Synced : t.state[k].regions[v] =
                IF v \in codes /\ s.sync[v] = k THEN {a} ELSE s.state[k].regions[v]
  <2>1. HasMoved(s, t, vs, a)
    BY <1>1, <1>4, MovedFacts
  <2> QED
    BY <1>2, <2>1 DEF HasMoved
<1>6. MembersAgree(s, P) /\ RegionsAgree(s, P) /\ CursorsShown(s, O) /\ Highlighted(s, L) /\ Dark(s, Q)
  BY DEF Agree
<1>7. MembersAgree(t, P)
  <2> SUFFICES ASSUME NEW k \in Synced, NEW w \in Synced
               PROVE  w \in t.state[k].views <=> w \in P /\ t.sync[w] = k
    BY DEF MembersAgree
  <2> QED
    BY <1>5, <1>6 DEF MembersAgree
<1>8. RegionsAgree(t, P)
  <2> SUFFICES ASSUME NEW k \in Synced, NEW w \in Synced, t.state[k].regions[w] # {}
               PROVE  w \in P /\ s.sync[w] = k
    BY <1>5 DEF RegionsAgree
  <2>1. CASE w \in codes /\ s.sync[w] = k
    BY <1>2, <2>1
  <2>2. CASE ~(w \in codes /\ s.sync[w] = k)
    <3>1. t.state[k].regions[w] = s.state[k].regions[w]
      BY <1>5, <2>2
    <3> QED
      BY <1>6, <3>1 DEF RegionsAgree
  <2> QED
    BY <2>1, <2>2
<1>9. CursorsShown(t, O \cup vs)
  <2> SUFFICES ASSUME NEW w \in O \cup vs PROVE ShowsCursor(t, w)
    BY DEF CursorsShown
  <2>1. w \in Synced /\ s.sync[w] \in Synced
    BY <1>4
  <2>2. t.state[t.sync[w]].cursor = s.state[s.sync[w]].cursor
    BY <1>5, <2>1
  <2>3. CASE w \in vs
    <3>1. t.state[t.sync[w]].cursor = a /\ t.at[w] = ToldAt(s, vs, a, w)
      BY <1>5, <2>1, <2>2, <2>3
    <3> QED
      BY <1>4, <2>1, <2>3, <3>1, ViewFacts DEF Shows, ShowsCursor, ToldAt
  <2>4. CASE w \notin vs
    <3>1. t.at[w] = s.at[w] /\ ShowsCursor(s, w)
      BY <1>5, <1>6, <2>1, <2>4 DEF CursorsShown, ToldAt
    <3> QED
      BY <2>2, <3>1 DEF ShowsCursor
  <2> QED
    BY <2>3, <2>4
<1>10. told \subseteq P
  <2> SUFFICES ASSUME NEW v \in codes, NEW w \in t.state[t.sync[v]].views PROVE w \in P
    BY <1>3
  <2>1. PICK k \in Synced : k = t.sync[v]
    BY <1>2, <1>4, <1>5
  <2>2. w \in Synced
    BY <1>5, <2>1 DEF SyncStates, Groups
  <2> QED
    BY <1>7, <2>1, <2>2 DEF MembersAgree
<1>11. Highlighted(t, L \ told)
  <2> SUFFICES ASSUME NEW h \in L, h \notin told
               PROVE  t.state[t.sync[h]].regions = s.state[s.sync[h]].regions
    BY <1>4, <1>5, <1>6, StillHighlighted
  <2>1. PICK k \in Synced : k = s.sync[h]
    BY <1>4
  <2>2. \A v \in codes : s.sync[v] # k
    <3> SUFFICES ASSUME NEW v \in codes, s.sync[v] = k PROVE FALSE
      OBVIOUS
    <3>1. h \in t.state[t.sync[v]].views
      BY <1>4, <1>5, <1>7, <2>1 DEF MembersAgree
    <3>2. h # v
      BY <1>2, <1>4, ViewFacts
    <3> QED
      BY <1>3, <3>1, <3>2
  <2>3. t.state[k].regions \in Regions /\ s.state[k].regions \in Regions
    BY <1>4, <1>5 DEF SyncStates, Groups
  <2>4. \A v \in Synced : t.state[k].regions[v] = s.state[k].regions[v]
    BY <1>5, <2>2
  <2>5. t.state[k].regions = s.state[k].regions
    BY <2>3, <2>4 DEF Regions
  <2> QED
    BY <1>5, <2>1, <2>5
<1>12. Agree(t, P, O \cup vs, L \ told, Q)
  <2>1. Dark(t, Q) /\ Bounds(P, O \cup vs, L \ told, Q)
    BY <1>5, <1>6 DEF Agree, Bounds, Dark
  <2> QED
    BY <1>5, <1>7, <1>8, <1>9, <1>11, <2>1 DEF Agree
<1>13. PICK u : u = RegionsChanged(t, told)
  OBVIOUS
<1>14. Agree(u, P, O \cup vs, (L \ told) \cup (told \cap HexViews), Q)
  BY <1>10, <1>12, <1>13, ToldAgree
<1>15. u.at = t.at /\ u.sync = t.sync /\ u.state = t.state
  BY <1>5, <1>13, Told
<1>16. u = Follow(s, vs, a)
  BY <1>1, <1>2, <1>3, <1>13 DEF Follow, Moved, ToldAt
<1>17. Agree(u, P, O \cup vs, L, Q)
  BY <1>4, <1>14, AgreeLess
<1> QED
  BY <1>5, <1>15, <1>16, <1>17 DEF OthersKept, ToldAt

(* set_synchronized_cursor_address *)
LEMMA PublishCursorAgree ==
  ASSUME NEW s, NEW P, NEW O, NEW L, NEW Q, NEW v, NEW a,
         Agree(s, P, O, L, Q), v \in P, a \in Addrs
  PROVE  LET u == PublishCursor(s, v, a) IN
         /\ Agree(u, P, O \ {v}, L, Q) /\ u.sync = s.sync
         /\ u.at[v] = s.at[v] /\ u.state[u.sync[v]].cursor = a
<1>1. PICK g : g = s.sync[v]
  OBVIOUS
<1>2. PICK t : t = SetGroupCursor(s, g, a)
  OBVIOUS
<1>3. PICK vs : vs = s.state[g].views \ {v}
  OBVIOUS
<1>4. /\ s \in SyncStates /\ v \in Synced /\ g \in Synced /\ O \subseteq P /\ P \subseteq Synced
      /\ a \in MaybeAddrs
  BY <1>1, ViewFacts DEF Agree, Bounds, SyncStates
<1>5. /\ Agree(t, P, O \ s.state[g].views, L, Q) /\ t.at = s.at /\ t.sync = s.sync
      /\ t.state[g].cursor = a /\ t.state[g].views = s.state[g].views
  BY <1>2, <1>4, GroupCursorSet
<1>6. vs \subseteq P /\ \A w \in vs : s.sync[w] = g
  <2>1. s.state[g].views \subseteq Synced
    BY <1>4 DEF SyncStates, Groups
  <2> QED
    BY <1>3, <1>4, <2>1 DEF Agree, MembersAgree
<1>7. PICK u : u = Follow(t, vs, a)
  OBVIOUS
<1>8. /\ Agree(u, P, (O \ s.state[g].views) \cup vs, L, Q) /\ u.sync = t.sync
      /\ \A w \in Synced \ vs : u.at[w] = t.at[w]
      /\ u.state[g].cursor = a
  <2>1. \A w \in vs : t.state[t.sync[w]].cursor = a
    BY <1>5, <1>6
  <2>2. PICK N : N = O \ s.state[g].views
    OBVIOUS
  <2>3. Agree(t, P, N, L, Q)
    BY <1>5, <2>2
  <2>4. Agree(u, P, N \cup vs, L, Q) /\ OthersKept(t, u, vs)
    BY <1>6, <1>7, <2>1, <2>3, FollowAgree
  <2> QED
    BY <1>4, <1>5, <2>2, <2>4 DEF OthersKept
<1>9. Agree(u, P, O \ {v}, L, Q)
  BY <1>3, <1>8, AgreeLess
<1>10. u = PublishCursor(s, v, a)
  <2>1. t = [s EXCEPT !.state[s.sync[v]].cursor = a]
    BY <1>1, <1>2 DEF SetGroupCursor
  <2>2. vs = t.state[t.sync[v]].views \ {v}
    BY <1>1, <1>3, <1>5
  <2> QED
    BY <1>7, <2>1, <2>2 DEF PublishCursor
<1> QED
  BY <1>1, <1>3, <1>4, <1>5, <1>8, <1>9, <1>10

(* A disassembly view moves the cursor of its group to where it is itself. *)
LEMMA PublishOwnAgree ==
  ASSUME NEW s, NEW P, NEW O, NEW L, NEW Q, NEW v, NEW a,
         Agree(s, P, O, L, Q), v \in P, v \notin HexViews, a \in Addrs, s.at[v] = FuncStart(a)
  PROVE  LET u == PublishCursor(s, v, a) IN
         Agree(u, P, O \cup {v}, L, Q) /\ u.at[v] = s.at[v]
<1>1. PICK u : u = PublishCursor(s, v, a)
  OBVIOUS
<1>2. /\ Agree(u, P, O \ {v}, L, Q) /\ u.at[v] = s.at[v] /\ u.state[u.sync[v]].cursor = a
  BY <1>1, PublishCursorAgree
<1>3. ShowsCursor(u, v) /\ O \subseteq P
  BY <1>2 DEF ShowsCursor, Agree, Bounds
<1> QED
  BY <1>1, <1>2, <1>3, AgreeShown

(* select_instruction *)
LEMMA SelectAgree ==
  ASSUME NEW s, NEW P, NEW O, NEW L, NEW Q, NEW v, NEW a, NEW unique \in BOOLEAN,
         Agree(s, P, O, L, Q), v \in P, v \notin HexViews, a \in Addrs, s.at[v] = FuncStart(a)
  PROVE  Agree(Select(s, v, a, unique), P, O \cup {v}, L, Q)
<1>1. PICK t : t = PublishCursor(s, v, a)
  OBVIOUS
<1>2. PICK N : N = O \cup {v}
  OBVIOUS
<1>3. Agree(t, P, N, L, Q)
  BY <1>1, <1>2, PublishOwnAgree
<1>4. PICK insns : insns = IF unique THEN {a} ELSE s.sel[v] \cup {a}
  OBVIOUS
<1>5. insns \in Insns
  BY <1>4 DEF Agree, Bounds, SyncStates, Insns
<1>6. Agree(SetSelected(t, v, insns), P, N, L, Q)
  BY <1>3, <1>5, SetSelectedAgree
<1>7. Select(s, v, a, unique) = IF a \in s.sel[v] THEN t ELSE SetSelected(t, v, insns)
  BY <1>1, <1>4 DEF Select
<1> QED
  BY <1>2, <1>3, <1>6, <1>7

(* _display_function *)
LEMMA ShowFunctionAgree ==
  ASSUME NEW s, NEW P, NEW O, NEW L, NEW Q, NEW v, NEW f,
         Agree(s, P, O, L, Q), v \in P, v \notin HexViews, f \in Addrs, FuncStart(f) = f
  PROVE  LET t == ShowFunction(s, v, f) IN Agree(t, P, O \cup {v}, L, Q) /\ t.at[v] = f
<1>1. v \in Synced /\ f \in MaybeAddrs /\ O \subseteq P
  BY ViewFacts DEF Agree, Bounds
<1>2. PICK t : t = PublishCursor(s, v, f)
  OBVIOUS
<1>3. PICK N : N = O \ {v}
  OBVIOUS
<1>4. Agree(t, P, N, L, Q) /\ t.state[t.sync[v]].cursor = f
  BY <1>2, <1>3, PublishCursorAgree
<1>5. PICK u : u = SetAt(t, v, f)
  OBVIOUS
<1>6. Agree(u, P, N \ {v}, L, Q) /\ u.at[v] = f /\ u.sync = t.sync /\ u.state = t.state
  BY <1>1, <1>4, <1>5, AtSet
<1>7. Agree(u, P, O \ {v}, L, Q) /\ ShowsCursor(u, v)
  <2>1. N \ {v} = O \ {v}
    BY <1>3
  <2> QED
    BY <1>4, <1>6, <2>1 DEF ShowsCursor
<1>8. PICK M : M = O \cup {v}
  OBVIOUS
<1>9. Agree(u, P, M, L, Q)
  BY <1>1, <1>7, <1>8, AgreeShown
<1>10. PICK w : w = SetSelected(u, v, {})
  OBVIOUS
<1>11. Agree(w, P, M, L, Q) /\ CursorsKept(u, w)
  BY <1>9, <1>10, ViewFacts, SetSelectedAgree
<1>12. w = ShowFunction(s, v, f)
  BY <1>2, <1>5, <1>10 DEF ShowFunction, SetAt
<1> QED
  BY <1>6, <1>8, <1>11, <1>12 DEF CursorsKept

(* on_cursor_changed of a hex view, _jump_to of a disassembly view *)
LEMMA JumpToAgree ==
  ASSUME NEW s, NEW P, NEW O, NEW L, NEW Q, NEW v, NEW a,
         Agree(s, P, O, L, Q), v \in P, a \in Addrs
  PROVE  Agree(JumpTo(s, v, a), P, O \cup {v}, L, Q)
<1>1. v \in Synced /\ a \in MaybeAddrs /\ a # NoAddr /\ O \subseteq P
  BY ViewFacts DEF Agree, Bounds
<1>2. CASE v \in HexViews
  <2>1. PICK t : t = SetAt(s, v, a)
    OBVIOUS
  <2>2. Agree(t, P, O \ {v}, L, Q) /\ t.at[v] = a
    BY <1>1, <2>1, AtSet
  <2>3. PICK u : u = PublishCursor(t, v, a)
    OBVIOUS
  <2>4. /\ Agree(u, P, (O \ {v}) \ {v}, L, Q) /\ u.at[v] = a
        /\ u.state[u.sync[v]].cursor = a
    BY <2>2, <2>3, PublishCursorAgree
  <2>5. Agree(u, P, O \ {v}, L, Q) /\ ShowsCursor(u, v)
    BY <1>2, <2>4, AgreeLess DEF ShowsCursor
  <2>6. u = JumpTo(s, v, a)
    BY <1>2, <2>1, <2>3 DEF JumpTo, SetAt
  <2> QED
    BY <1>1, <2>5, <2>6, AgreeShown
<1>3. CASE v \notin HexViews
  <2>1. PICK f \in Addrs : f = FuncStart(a) /\ FuncStart(f) = f
    BY ViewFacts
  <2>2. PICK t : t = ShowFunction(s, v, f)
    OBVIOUS
  <2>3. PICK N : N = O \cup {v}
    OBVIOUS
  <2>4. Agree(t, P, N, L, Q) /\ t.at[v] = f
    BY <1>3, <2>1, <2>2, <2>3, ShowFunctionAgree
  <2>5. PICK u : u = Select(t, v, a, TRUE)
    OBVIOUS
  <2>6. Agree(u, P, N \cup {v}, L, Q)
    BY <1>3, <2>1, <2>4, <2>5, SelectAgree
  <2>7. u = JumpTo(s, v, a)
    BY <1>3, <2>1, <2>2, <2>5 DEF JumpTo
  <2>8. N \cup {v} = O \cup {v}
    BY <2>3
  <2> QED
    BY <2>6, <2>7, <2>8
<1> QED
  BY <1>2, <1>3

(* A state object that is made anew changes nothing for the views in groups. *)
LEMMA FreshAgree ==
  ASSUME NEW s, NEW P, NEW O, NEW L, NEW Q, NEW g,
         Agree(s, P, O, L, Q), g \in Synced, s.state[g].views = {}
  PROVE  LET t == SetGroup(s, g, Fresh) IN
         /\ Agree(t, P, O, L, Q) /\ t.at = s.at /\ t.sync = s.sync /\ t.green = s.green
         /\ t.state[g] = Fresh
<1>1. PICK t : t = SetGroup(s, g, Fresh)
  OBVIOUS
<1>2. /\ s \in SyncStates /\ O \subseteq P /\ P \subseteq Synced /\ L \subseteq P
      /\ s.sync \in [Synced -> Synced]
  BY DEF Agree, Bounds, SyncStates
<1>3. /\ t \in SyncStates /\ t.at = s.at /\ t.sync = s.sync /\ t.green = s.green
      /\ \A k \in Synced : t.state[k] = IF k = g THEN Fresh ELSE s.state[k]
  BY <1>1, <1>2, FreshFacts, GroupSet
<1>4. MembersAgree(s, P) /\ RegionsAgree(s, P) /\ CursorsShown(s, O) /\ Highlighted(s, L) /\ Dark(s, Q)
  BY DEF Agree
<1>5. \A w \in P : s.sync[w] # g
  BY <1>2, <1>4 DEF MembersAgree
<1>6. MembersAgree(t, P)
  <2> SUFFICES ASSUME NEW k \in Synced, NEW w \in Synced
               PROVE  w \in t.state[k].views <=> w \in P /\ t.sync[w] = k
    BY DEF MembersAgree
  <2> QED
    BY <1>3, <1>4, <1>5, FreshFacts DEF MembersAgree
<1>7. RegionsAgree(t, P)
  <2> SUFFICES ASSUME NEW k \in Synced, NEW w \in Synced, t.state[k].regions[w] # {}
               PROVE  w \in P /\ t.sync[w] = k
    BY DEF RegionsAgree
  <2> QED
    BY <1>3, <1>4, FreshFacts DEF RegionsAgree
<1>8. \A w \in P : t.state[t.sync[w]] = s.state[s.sync[w]]
  BY <1>2, <1>3, <1>5
<1>9. CursorsShown(t, O)
  BY <1>2, <1>3, <1>4, <1>8 DEF CursorsShown, ShowsCursor
<1>10. Highlighted(t, L)
  BY <1>2, <1>3, <1>4, <1>8 DEF Highlighted, Selected
<1>11. Dark(t, Q) /\ Bounds(P, O, L, Q)
  BY <1>3, <1>4 DEF Agree, Dark
<1> QED
  BY <1>1, <1>3, <1>6, <1>7, <1>9, <1>10, <1>11 DEF Agree

(* register_view: a view in no group joins one. *)
Joined(s, t, v, g) ==
  /\ t.at = s.at /\ t.green = s.green /\ t.sync[v] = g
  /\ t.state[g].views = s.state[g].views \cup {v}
  /\ t.state[g].cursor = s.state[g].cursor /\ t.state[g].regions = s.state[g].regions
LEMMA RegisterAgree ==
  ASSUME NEW s, NEW P, NEW O, NEW L, NEW Q, NEW v, NEW g,
         Agree(s, P, O, L, Q), v \in Synced, v \notin P, g \in Synced
  PROVE  LET t == Register(s, v, g) IN
         Agree(t, P \cup {v}, O, L, Q \cup {v}) /\ Joined(s, t, v, g)
<1>1. PICK r : r = [s.state[g] EXCEPT !.views = s.state[g].views \cup {v}]
  OBVIOUS
<1>2. PICK u : u = SetGroup(s, g, r)
  OBVIOUS
<1>3. PICK new : new = [s.sync EXCEPT ![v] = g]
  OBVIOUS
<1>4. /\ s \in SyncStates /\ O \subseteq P /\ P \subseteq Synced /\ L \subseteq P
      /\ s.sync \in [Synced -> Synced] /\ s.state[g] \in Groups
  BY DEF Agree, Bounds, SyncStates
<1>5. /\ r \in Groups /\ r.views = s.state[g].views \cup {v}
      /\ r.cursor = s.state[g].cursor /\ r.regions = s.state[g].regions
  BY <1>1, <1>4 DEF Groups
<1>6. new \in [Synced -> Synced] /\ new[v] = g /\ \A w \in Synced : w # v => new[w] = s.sync[w]
  BY <1>3, <1>4
<1>7. /\ u \in SyncStates /\ u.at = s.at /\ u.green = s.green
      /\ \A k \in Synced : u.state[k] = IF k = g THEN r ELSE s.state[k]
  BY <1>2, <1>4, <1>5, GroupSet
<1>8. PICK t : t = Register(s, v, g)
  OBVIOUS
<1>9. t = [u EXCEPT !.sync = new]
  BY <1>1, <1>2, <1>3, <1>4, <1>8 DEF Register, SetGroup, SyncStates
<1>10. /\ t \in SyncStates /\ t.at = s.at /\ t.green = s.green /\ t.sync = new
       /\ \A k \in Synced : t.state[k] = IF k = g THEN r ELSE s.state[k]
  BY <1>6, <1>7, <1>9 DEF SyncStates
<1>11. MembersAgree(s, P) /\ RegionsAgree(s, P) /\ CursorsShown(s, O) /\ Highlighted(s, L) /\ Dark(s, Q)
  BY DEF Agree
<1>12. MembersAgree(t, P \cup {v})
  <2> SUFFICES ASSUME NEW k \in Synced, NEW w \in Synced
               PROVE  w \in t.state[k].views <=> w \in P \cup {v} /\ new[w] = k
    BY <1>10 DEF MembersAgree
  <2>1. w \in s.state[k].views <=> w \in P /\ s.sync[w] = k
    BY <1>11 DEF MembersAgree
  <2>2. w \in t.state[k].views <=> w \in s.state[k].views \/ (k = g /\ w = v)
    BY <1>5, <1>10
  <2>3. w = v => new[w] = g
    BY <1>6
  <2>4. w # v => new[w] = s.sync[w]
    BY <1>6
  <2> QED
    BY <2>1, <2>2, <2>3, <2>4
<1>13. RegionsAgree(t, P \cup {v})
  <2> SUFFICES ASSUME NEW k \in Synced, NEW w \in Synced, t.state[k].regions[w] # {}
               PROVE  w \in P \cup {v} /\ new[w] = k
    BY <1>10 DEF RegionsAgree
  <2>1. s.state[k].regions[w] # {}
    BY <1>5, <1>10
  <2> QED
    BY <1>6, <1>11, <2>1 DEF RegionsAgree
<1>14. \A w \in P : /\ t.at[w] = s.at[w]
                    /\ t.state[t.sync[w]].cursor = s.state[s.sync[w]].cursor
                    /\ t.state[t.sync[w]].regions = s.state[s.sync[w]].regions
  <2> SUFFICES ASSUME NEW w \in P
               PROVE  /\ t.state[t.sync[w]].cursor = s.state[s.sync[w]].cursor
                      /\ t.state[t.sync[w]].regions = s.state[s.sync[w]].regions
    BY <1>10
  <2>1. PICK k \in Synced : k = s.sync[w]
    BY <1>4
  <2>2. t.sync[w] = k
    BY <1>4, <1>6, <1>10, <2>1
  <2> QED
    BY <1>5, <1>10, <2>1, <2>2
<1>15. CursorsShown(t, O)
  BY <1>4, <1>11, <1>14 DEF CursorsShown, ShowsCursor
<1>16. Highlighted(t, L)
  BY <1>4, <1>10, <1>11, <1>14, StillHighlighted
<1>17. Dark(t, Q \cup {v}) /\ Bounds(P \cup {v}, O, L, Q \cup {v})
  BY <1>10, <1>11 DEF Agree, Bounds, Dark
<1>18. Agree(t, P \cup {v}, O, L, Q \cup {v})
  BY <1>10, <1>12, <1>13, <1>15, <1>16, <1>17 DEF Agree
<1> QED
  BY <1>5, <1>6, <1>8, <1>10, <1>18 DEF Joined

(* There are as many state objects as views: one is free for a view that is in
   no group. *)
LEMMA UnusedExists ==
  ASSUME NEW s, NEW P, NEW O, NEW L, NEW Q, NEW v,
         Agree(s, P, O, L, Q), v \in Synced, v \notin P
  PROVE  Unused(s) \in Synced /\ s.state[Unused(s)].views = {}
<1>1. s \in SyncStates /\ P \subseteq Synced /\ MembersAgree(s, P)
  BY DEF Agree, Bounds
<1>2. IsFiniteSet(Synced)
  BY ViewFacts, ViewsAssumption, FS_Subset
<1>3. IsFiniteSet(P) /\ Cardinality(P) < Cardinality(Synced)
  BY <1>1, <1>2, FS_Subset, FS_CardinalityType
<1>4. \E g \in Synced : s.state[g].views = {}
  <2> SUFFICES ASSUME \A g \in Synced : s.state[g].views # {} PROVE FALSE
    OBVIOUS
  <2>1. PICK f : f = [g \in Synced |-> CHOOSE w : w \in s.state[g].views]
    OBVIOUS
  <2>2. \A g \in Synced : f[g] \in P /\ s.sync[f[g]] = g
    <3> SUFFICES ASSUME NEW g \in Synced PROVE f[g] \in P /\ s.sync[f[g]] = g
      OBVIOUS
    <3>1. f[g] \in s.state[g].views /\ s.state[g].views \subseteq Synced
      BY <1>1, <2>1 DEF SyncStates, Groups
    <3> QED
      BY <1>1, <3>1 DEF MembersAgree
  <2>3. f \in [Synced -> P]
    BY <2>1, <2>2
  <2>4. \E x, y \in Synced : x # y /\ f[x] = f[y]
    BY <1>2, <1>3, <2>3, FS_PigeonHole
  <2> QED
    BY <2>2, <2>4
<1> QED
  BY <1>4 DEF Unused

(* A new SynchronizedViewState for a view that is in no group. *)
AloneInFresh(s, v) ==
  /\ s.state[s.sync[v]].views = {v} /\ s.state[s.sync[v]].cursor = NoAddr
  /\ s.state[s.sync[v]].regions = NoGreen
LEMMA NewStateAgree ==
  ASSUME NEW s, NEW P, NEW O, NEW L, NEW Q, NEW v,
         Agree(s, P, O, L, Q), v \in Synced, v \notin P
  PROVE  LET t == NewState(s, v) IN
         /\ Agree(t, P \cup {v}, O, L, Q \cup {v}) /\ AloneInFresh(t, v)
         /\ t.at = s.at /\ t.green = s.green
<1>1. PICK g : g = Unused(s)
  OBVIOUS
<1>2. g \in Synced /\ s.state[g].views = {}
  BY <1>1, UnusedExists
<1>3. PICK u : u = SetGroup(s, g, Fresh)
  OBVIOUS
<1>4. Agree(u, P, O, L, Q) /\ u.at = s.at /\ u.green = s.green /\ u.state[g] = Fresh
  BY <1>2, <1>3, FreshAgree
<1>5. PICK t : t = Register(u, v, g)
  OBVIOUS
<1>6. /\ Agree(t, P \cup {v}, O, L, Q \cup {v})
      /\ t.at = u.at /\ t.green = u.green /\ t.sync[v] = g
      /\ t.state[g].views = u.state[g].views \cup {v}
      /\ t.state[g].cursor = u.state[g].cursor /\ t.state[g].regions = u.state[g].regions
  <2>1. Agree(t, P \cup {v}, O, L, Q \cup {v}) /\ Joined(u, t, v, g)
    BY <1>2, <1>4, <1>5, RegisterAgree
  <2> QED
    BY <2>1 DEF Joined
<1>7. AloneInFresh(t, v)
  BY <1>4, <1>6, FreshFacts DEF AloneInFresh
<1>8. t = NewState(s, v)
  BY <1>1, <1>3, <1>5 DEF NewState, SetGroup
<1> QED
  BY <1>4, <1>6, <1>7, <1>8

(* sync_from_state: the view takes over the cursor and the regions. *)
LEMMA SyncFromStateAgree ==
  ASSUME NEW s, NEW P, NEW O, NEW L, NEW Q, NEW v,
         Agree(s, P, O, L, Q), v \in P
  PROVE  LET t == SyncFromState(s, v) IN
         /\ Agree(t, P, O \cup {v}, L \cup ({v} \cap HexViews), Q)
         /\ AloneInFresh(s, v) => AloneInFresh(t, v)
<1>1. PICK a : a = s.state[s.sync[v]].cursor
  OBVIOUS
<1>2. PICK u : u = IF a = NoAddr THEN s ELSE Follow(s, {v}, a)
  OBVIOUS
<1>3. /\ s \in SyncStates /\ P \subseteq Synced /\ O \subseteq P /\ {v} \subseteq P
      /\ s.sync[v] \in Synced
  BY DEF Agree, Bounds, SyncStates
<1>4. a \in MaybeAddrs
  BY <1>1, <1>3 DEF SyncStates, Groups
<1>5. Agree(u, P, O \cup {v}, L, Q)
  <2>1. CASE a = NoAddr
    <3>1. ShowsCursor(s, v)
      BY <1>1, <2>1 DEF ShowsCursor
    <3>2. Agree(s, P, O \ {v}, L, Q)
      BY AgreeLess
    <3> QED
      BY <1>2, <1>3, <2>1, <3>1, <3>2, AgreeShown
  <2>2. CASE a # NoAddr
    <3>1. a \in Addrs /\ \A w \in {v} : s.state[s.sync[w]].cursor = a
      BY <1>1, <1>4, <2>2 DEF MaybeAddrs
    <3> QED
      BY <1>2, <1>3, <2>2, <3>1, FollowAgree
  <2> QED
    BY <2>1, <2>2
<1>6. PICK t : t = RegionsChanged(u, {v})
  OBVIOUS
<1>7. PICK N : N = O \cup {v}
  OBVIOUS
<1>8. Agree(t, P, N, L \cup ({v} \cap HexViews), Q)
  <2>1. Agree(u, P, N, L, Q)
    BY <1>5, <1>7
  <2> QED
    BY <1>3, <1>6, <2>1, ToldAgree
<1>9. ASSUME AloneInFresh(s, v) PROVE AloneInFresh(t, v)
  <2>1. u = s
    BY <1>1, <1>2, <1>9 DEF AloneInFresh
  <2>2. t.sync = s.sync /\ t.state = s.state
    BY <1>3, <1>6, <2>1, Told
  <2> QED
    BY <1>9, <2>2 DEF AloneInFresh
<1>10. t = SyncFromState(s, v)
  BY <1>1, <1>2, <1>6 DEF SyncFromState
<1> QED
  BY <1>7, <1>8, <1>9, <1>10

(* desync: a view leaves its group for a new one of its own. *)
LEMMA DesyncAgree ==
  ASSUME NEW s, NEW P, NEW O, NEW L, NEW Q, NEW v,
         Agree(s, P, O, L, Q), v \in P
  PROVE  LET t == Desync(s, v) IN
         /\ Agree(t, P, O \cup {v}, L \cup ({v} \cap HexViews), Q) /\ AloneInFresh(t, v)
<1>1. PICK N, M, R : N = P \ {v} /\ M = O \ {v} /\ R = L \ {v}
  OBVIOUS
<1>2. v \in Synced /\ v \notin N /\ v \in Q
  BY <1>1 DEF Agree, Bounds
<1>3. PICK t : t = Unregister(s, v)
  OBVIOUS
<1>4. Agree(t, N, M, R, Q)
  BY <1>1, <1>3, UnregisterAgree
<1>5. PICK u : u = NewState(t, v)
  OBVIOUS
<1>6. Agree(u, N \cup {v}, M, R, Q \cup {v}) /\ AloneInFresh(u, v)
  BY <1>2, <1>4, <1>5, NewStateAgree
<1>7. N \cup {v} = P /\ Q \cup {v} = Q
  BY <1>1, <1>2
<1>8. PICK w : w = SyncFromState(u, v)
  OBVIOUS
<1>9. Agree(w, P, M \cup {v}, R \cup ({v} \cap HexViews), Q) /\ AloneInFresh(w, v)
  BY <1>6, <1>7, <1>8, SyncFromStateAgree
<1>10. O \cup {v} \subseteq M \cup {v} /\ L \cup ({v} \cap HexViews) \subseteq R \cup ({v} \cap HexViews)
  BY <1>1 DEF Agree, Bounds
<1>11. Agree(w, P, O \cup {v}, L \cup ({v} \cap HexViews), Q)
  BY <1>9, <1>10, AgreeLess
<1> QED
  BY <1>3, <1>5, <1>8, <1>9, <1>11 DEF Desync

(* sync_with_state_object *)
LEMMA SyncWithAgree ==
  ASSUME NEW s, NEW P, NEW O, NEW L, NEW Q, NEW v, NEW g,
         Agree(s, P, O, L, Q), v \in P, g \in Synced
  PROVE  Agree(SyncWith(s, v, g), P, O \cup {v}, L \cup ({v} \cap HexViews), Q)
<1>1. PICK N, M, R : N = P \ {v} /\ M = O \ {v} /\ R = L \ {v}
  OBVIOUS
<1>2. v \in Synced /\ v \notin N /\ v \in Q
  BY <1>1 DEF Agree, Bounds
<1>3. PICK t : t = Unregister(s, v)
  OBVIOUS
<1>4. Agree(t, N, M, R, Q)
  BY <1>1, <1>3, UnregisterAgree
<1>5. PICK u : u = Register(t, v, g)
  OBVIOUS
<1>6. Agree(u, N \cup {v}, M, R, Q \cup {v})
  BY <1>2, <1>4, <1>5, RegisterAgree
<1>7. N \cup {v} = P /\ Q \cup {v} = Q
  BY <1>1, <1>2
<1>8. PICK w : w = SyncFromState(u, v)
  OBVIOUS
<1>9. Agree(w, P, M \cup {v}, R \cup ({v} \cap HexViews), Q)
  BY <1>6, <1>7, <1>8, SyncFromStateAgree
<1>10. O \cup {v} \subseteq M \cup {v} /\ L \cup ({v} \cap HexViews) \subseteq R \cup ({v} \cap HexViews)
  BY <1>1 DEF Agree, Bounds
<1>11. Agree(w, P, O \cup {v}, L \cup ({v} \cap HexViews), Q)
  BY <1>9, <1>10, AgreeLess
<1> QED
  BY <1>3, <1>5, <1>8, <1>11 DEF SyncWith

(* What a view was and had selected is forgotten when it is in no group. *)
Forgotten(s, v) == [s EXCEPT !.at[v] = NoAddr, !.sel[v] = {}, !.sync[v] = v]
LEMMA ForgottenAgree ==
  ASSUME NEW s, NEW P, NEW O, NEW L, NEW Q, NEW v,
         Agree(s, P, O, L, Q), v \in Synced, v \notin P
  PROVE  Agree(Forgotten(s, v), P, O, L, Q)
<1>1. PICK nat, nsel, nsync : /\ nat = [s.at EXCEPT ![v] = NoAddr]
                             /\ nsel = [s.sel EXCEPT ![v] = {}]
                             /\ nsync = [s.sync EXCEPT ![v] = v]
  OBVIOUS
<1>2. s \in SyncStates /\ O \subseteq P /\ P \subseteq Synced /\ L \subseteq P
  BY DEF Agree, Bounds
<1>3. /\ nat \in [Synced -> MaybeAddrs] /\ nsel \in [Synced -> Insns]
      /\ nsync \in [Synced -> Synced]
      /\ \A w \in P : nat[w] = s.at[w] /\ nsync[w] = s.sync[w]
  BY <1>1, <1>2, ViewFacts DEF SyncStates
<1>4. PICK t : t = Forgotten(s, v) /\ t = [s EXCEPT !.at = nat, !.sel = nsel, !.sync = nsync]
  BY <1>1 DEF Forgotten
<1>5. /\ t \in SyncStates /\ t.at = nat /\ t.sync = nsync /\ t.state = s.state
      /\ t.green = s.green
  BY <1>2, <1>3, <1>4 DEF SyncStates
<1>6. MembersAgree(t, P) /\ RegionsAgree(t, P)
  <2>1. MembersAgree(s, P) /\ RegionsAgree(s, P)
    BY DEF Agree
  <2> QED
    BY <1>3, <1>5, <2>1 DEF MembersAgree, RegionsAgree
<1>7. CursorsShown(t, O)
  BY <1>2, <1>3, <1>5 DEF Agree, CursorsShown, ShowsCursor
<1>8. Highlighted(t, L)
  BY <1>2, <1>3, <1>5, StillHighlighted DEF Agree
<1>9. Dark(t, Q) /\ Bounds(P, O, L, Q)
  BY <1>5 DEF Agree, Dark
<1> QED
  BY <1>4, <1>5, <1>6, <1>7, <1>8, <1>9 DEF Agree

(* The close event of a view: nothing of it stays behind. *)
LEMMA ClosedAgree ==
  ASSUME NEW s, NEW P, NEW O, NEW L, NEW Q, NEW v,
         Agree(s, P, O, L, Q), v \in P
  PROVE  Agree(Closed(s, v), P \ {v}, O \ {v}, L \ {v}, Q \ {v})
<1>1. PICK t : t = Desync(s, v)
  OBVIOUS
<1>2. /\ Agree(t, P, O \cup {v}, L \cup ({v} \cap HexViews), Q) /\ AloneInFresh(t, v)
  BY <1>1, DesyncAgree
<1>3. Agree(t, P, O \ {v}, L \ {v}, Q)
  BY <1>2, AgreeLess
<1>4. PICK g : g = t.sync[v]
  OBVIOUS
<1>5. /\ t \in SyncStates /\ v \in Synced /\ g \in Synced /\ P \subseteq Synced
      /\ O \ {v} \subseteq P \ {v} /\ L \ {v} \subseteq P \ {v} /\ L \subseteq HexViews /\ P \subseteq Q
      /\ t.sync \in [Synced -> Synced]
      /\ MembersAgree(t, P) /\ RegionsAgree(t, P) /\ CursorsShown(t, O \ {v})
      /\ Highlighted(t, L \ {v}) /\ Dark(t, Q)
  BY <1>3, <1>4 DEF Agree, Bounds, SyncStates
<1>6. \A w \in P \ {v} : t.sync[w] # g
  BY <1>2, <1>4, <1>5 DEF MembersAgree, AloneInFresh
<1>7. PICK u : u = SetGroup(t, g, Fresh)
  OBVIOUS
<1>8. /\ u \in SyncStates /\ u.at = t.at /\ u.sync = t.sync /\ u.green = t.green
      /\ \A k \in Synced : u.state[k] = IF k = g THEN Fresh ELSE t.state[k]
  BY <1>5, <1>7, FreshFacts, GroupSet
<1>9. PICK new : new = [h \in HexViews |-> IF h = v THEN NoGreen ELSE t.green[h]]
  OBVIOUS
<1>10. /\ new \in [HexViews -> Regions]
       /\ \A h \in HexViews : new[h] = IF h = v THEN NoGreen ELSE t.green[h]
  BY <1>5, <1>9, ViewFacts DEF SyncStates
<1>11. PICK w : w = [u EXCEPT !.green = new]
  OBVIOUS
<1>12. /\ w \in SyncStates /\ w.at = t.at /\ w.sync = t.sync /\ w.green = new
       /\ \A k \in Synced : w.state[k] = IF k = g THEN Fresh ELSE t.state[k]
  BY <1>8, <1>10, <1>11 DEF SyncStates
<1>13. Closed(s, v) = Forgotten(w, v)
  <2>1. Closed(s, v) = [t EXCEPT !.state[g] = Fresh, !.at[v] = NoAddr, !.sel[v] = {},
                                 !.sync[v] = v, !.green = new]
    BY <1>1, <1>4, <1>9 DEF Closed
  <2>2. w = [t EXCEPT !.state[g] = Fresh, !.green = new]
    BY <1>7, <1>11 DEF SetGroup
  <2> QED
    BY <1>5, <2>1, <2>2 DEF Forgotten, SyncStates
<1>14. MembersAgree(w, P \ {v})
  <2> SUFFICES ASSUME NEW k \in Synced, NEW x \in Synced
               PROVE  x \in w.state[k].views <=> x \in P \ {v} /\ t.sync[x] = k
    BY <1>12 DEF MembersAgree
  <2>1. x \in t.state[k].views <=> x \in P /\ t.sync[x] = k
    BY <1>5 DEF MembersAgree
  <2>2. k = g => w.state[k].views = {}
    BY <1>12, FreshFacts
  <2> QED
    BY <1>4, <1>6, <1>12, <2>1, <2>2
<1>15. RegionsAgree(w, P \ {v})
  <2> SUFFICES ASSUME NEW k \in Synced, NEW x \in Synced, w.state[k].regions[x] # {}
               PROVE  x \in P \ {v} /\ t.sync[x] = k
    BY <1>12 DEF RegionsAgree
  <2>1. k # g /\ t.state[k].regions[x] # {}
    BY <1>12, FreshFacts
  <2> QED
    BY <1>4, <1>5, <2>1 DEF RegionsAgree
<1>16. \A x \in P \ {v} : w.state[w.sync[x]] = t.state[t.sync[x]]
  BY <1>5, <1>6, <1>12
<1>17. CursorsShown(w, O \ {v})
  <2> SUFFICES ASSUME NEW x \in O \ {v} PROVE ShowsCursor(w, x)
    BY DEF CursorsShown
  <2>1. ShowsCursor(t, x) /\ w.state[w.sync[x]] = t.state[t.sync[x]] /\ w.at[x] = t.at[x]
    BY <1>5, <1>12, <1>16 DEF CursorsShown
  <2> QED
    BY <2>1 DEF ShowsCursor
<1>18. Highlighted(w, L \ {v})
  <2>1. \A h \in L \ {v} : w.green[h] = t.green[h]
    BY <1>5, <1>10, <1>12
  <2> QED
    BY <1>5, <1>12, <1>16, <2>1, StillHighlighted
<1>19. Dark(w, Q \ {v}) /\ Bounds(P \ {v}, O \ {v}, L \ {v}, Q \ {v})
  BY <1>5, <1>10, <1>12 DEF Dark, Bounds
<1>20. Agree(w, P \ {v}, O \ {v}, L \ {v}, Q \ {v})
  BY <1>12, <1>14, <1>15, <1>17, <1>18, <1>19 DEF Agree
<1>21. PICK N, M, R, S : N = P \ {v} /\ M = O \ {v} /\ R = L \ {v} /\ S = Q \ {v}
  OBVIOUS
<1>22. Agree(Forgotten(w, v), N, M, R, S)
  BY <1>5, <1>20, <1>21, ForgottenAgree
<1> QED
  BY <1>13, <1>21, <1>22

-----------------------------------------------------------------------------
(* The manager: all its lists hold the open views, whose captions differ. *)
Lists(V) ==
  [views |-> V, docks |-> V, docked |-> V, category |-> V, activation |-> V]
ListsInv ==
  /\ mgr = Lists(Open) /\ Open \subseteq Views /\ index \in [Views -> Nat]
  /\ \A v, w \in Open : v # w /\ Category(v) = Category(w) => index[v] # index[w]
GroupsInv ==
  /\ removed \subseteq CodeViews /\ Open \cap removed = {}
  /\ Agree(Now, Present, Open \cap Synced, Open \cap HexViews, Present)
ViewsInv == ListsInv /\ GroupsInv

(* _on_dock_widget_closed and remove_view call each other, and end with the
   view in no list. *)
LEMMA ListFacts ==
  ASSUME NEW V, NEW v
  PROVE  /\ Added(Lists(V), v) = Lists(V \cup {v})
         /\ v \in V => DockClosed(Lists(V), v) = Lists(V \ {v})
         /\ v \in V => RemoveView(Lists(V), v) = Lists(V \ {v})
<1>1. Added(Lists(V), v) = Lists(V \cup {v})
  BY DEF Added, Lists
<1>2. ASSUME v \in V PROVE RemoveView(Lists(V), v) = Lists(V \ {v})
  BY <1>2 DEF RemoveView, DockDropped, Lists
<1>3. ASSUME v \in V PROVE DockClosed(Lists(V), v) = Lists(V \ {v})
  <2>1. PICK m : m = [Lists(V) EXCEPT !.docks = @ \ {v}, !.docked = @ \ {v}]
    OBVIOUS
  <2>2. m = [views |-> V, docks |-> V \ {v}, docked |-> V \ {v}, category |-> V, activation |-> V]
    BY <2>1 DEF Lists
  <2>3. RemoveView(m, v) = Lists(V \ {v})
    BY <1>3, <2>2 DEF RemoveView, DockDropped, Lists
  <2>4. RemoveView(Lists(V \ {v}), v) = Lists(V \ {v})
    BY DEF RemoveView, Lists
  <2> QED
    BY <1>3, <2>1, <2>3, <2>4 DEF DockClosed, Lists
<1> QED
  BY <1>1, <1>2, <1>3

(* _update_view_index_in_category finds an index: there are more candidates
   than views of the category. *)
LEMMA FreeIndexIsFree ==
  ASSUME NEW v \in Views, ListsInv
  PROVE  /\ FreeIndex(v) \in Nat
         /\ \A w \in Open : Category(w) = Category(v) => index[w] # FreeIndex(v)
<1> DEFINE same == {w \in mgr.category : Category(w) = Category(v)}
           taken == {index[w] : w \in same}
           Free(i) == i \notin taken /\ \A k \in 1 .. i - 1 : k \in taken
           Candidates == 1 .. Cardinality(taken) + 1
<1>1. same = {w \in Open : Category(w) = Category(v)} /\ same \subseteq Views
  BY DEF ListsInv, Lists
<1>2. IsFiniteSet(same)
  BY <1>1, ViewsAssumption, FS_Subset
<1>3. IsFiniteSet(taken)
  <2>1. PICK f : f = [w \in same |-> index[w]]
    OBVIOUS
  <2>2. f \in Surjection(same, taken)
    BY <2>1 DEF Surjection
  <2> QED
    BY <1>2, <2>2, FS_Surjection
<1>4. Cardinality(taken) \in Nat
  BY <1>3, FS_CardinalityType
<1>5. PICK n \in Nat : n = Cardinality(taken)
  BY <1>4
<1>6. \E i \in 1 .. n + 1 : i \notin taken
  <2> SUFFICES ASSUME 1 .. n + 1 \subseteq taken PROVE FALSE
    OBVIOUS
  <2>1. Cardinality(1 .. n + 1) = n + 1
    BY <1>5, FS_Interval
  <2>2. Cardinality(1 .. n + 1) <= Cardinality(taken)
    BY <1>3, FS_Subset
  <2> QED
    BY <1>5, <2>1, <2>2
<1>7. PICK j \in 1 .. n + 1 : j \notin taken /\ \A k \in 1 .. n + 1 : k \notin taken => ~(k < j)
  <2>1. PICK R : R = {ss \in Nat \X Nat : ss[1] < ss[2]}
    OBVIOUS
  <2>2. IsWellFoundedOn(R, Nat)
    BY <2>1, NatLessThanWellFounded, Zenon DEF OpToRel
  <2>3. PICK T : T = (1 .. n + 1) \ taken
    OBVIOUS
  <2>4. T \subseteq Nat /\ T # {}
    BY <1>6, <2>3
  <2>5. PICK j \in T : \A k \in T : <<k, j>> \notin R
    BY <2>2, <2>4, WFMin
  <2>6. \A k \in T : ~(k < j)
    BY <2>1, <2>4, <2>5
  <2> QED
    BY <2>3, <2>5, <2>6
<1>8. j \in Candidates /\ Free(j)
  <2>1. j \in 1 .. n + 1 /\ j \notin taken
    BY <1>7
  <2>2. ASSUME NEW k \in 1 .. j - 1 PROVE k \in taken
    <3>1. k \in 1 .. n + 1 /\ k < j /\ k \in Nat /\ j \in Nat
      BY <2>1
    <3> QED
      BY <1>7, <3>1
  <2> QED
    BY <1>5, <2>1, <2>2
<1>9. FreeIndex(v) \in Candidates /\ Free(FreeIndex(v))
  <2>1. FreeIndex(v) = CHOOSE i \in Candidates : Free(i)
    BY DEF FreeIndex
  <2> HIDE DEF Candidates, Free
  <2> QED
    BY <1>8, <2>1
<1>10. FreeIndex(v) \in Nat /\ FreeIndex(v) \notin taken
  BY <1>5, <1>9
<1> QED
  BY <1>1, <1>10

(* A handler has run. *)
LEMMA Committed ==
  ASSUME NEW s, NEW P, NEW O, NEW L, NEW Q, Agree(s, P, O, L, Q), Commit(s)
  PROVE  Agree(Now, P, O, L, Q)'
<1>1. s = [at |-> s.at, sel |-> s.sel, sync |-> s.sync, state |-> s.state, green |-> s.green]
  BY DEF Agree, SyncStates
<1>2. Now' = s
  BY <1>1 DEF Commit, Now
<1> QED
  BY <1>2

(* An empty workspace. *)
LEMMA ListsInit == ViewsInit => ListsInv
  BY DEF ViewsInit, ListsInv, Lists, Open

(* Every view is in a group of its own, which holds no view yet. *)
LEMMA GroupsInit == ViewsInit => GroupsInv
<1> SUFFICES ASSUME ViewsInit PROVE GroupsInv
  OBVIOUS
<1>1. Open = {} /\ removed = {} /\ Present = {}
  BY DEF ViewsInit, Open, Present
<1>2. PICK s : s = Now
  OBVIOUS
<1>3. /\ s.at = [v \in Synced |-> NoAddr] /\ s.sel = [v \in Synced |-> {}]
      /\ s.sync = [v \in Synced |-> v]
      /\ s.state = [g \in Synced |-> Fresh] /\ s.green = [v \in HexViews |-> NoGreen]
      /\ s = [at |-> s.at, sel |-> s.sel, sync |-> s.sync, state |-> s.state, green |-> s.green]
  BY <1>2 DEF ViewsInit, Now
<1>4. s \in SyncStates
  <2>1. /\ s.at \in [Synced -> MaybeAddrs] /\ s.sync \in [Synced -> Synced]
        /\ s.sel \in [Synced -> Insns]
        /\ s.state \in [Synced -> Groups] /\ s.green \in [HexViews -> Regions]
    BY <1>3, ViewFacts, FreshFacts
  <2> QED
    BY <1>3, <2>1 DEF SyncStates
<1>5. MembersAgree(s, {}) /\ RegionsAgree(s, {})
  BY <1>3, FreshFacts DEF MembersAgree, RegionsAgree
<1>6. CursorsShown(s, {}) /\ Highlighted(s, {}) /\ Dark(s, {}) /\ Bounds({}, {}, {}, {})
  BY <1>3 DEF CursorsShown, Highlighted, Dark, Bounds
<1>7. Agree(s, {}, {}, {}, {})
  BY <1>4, <1>5, <1>6 DEF Agree
<1> QED
  BY <1>1, <1>2, <1>7 DEF GroupsInv

(* Every handler leaves the lists of the manager in agreement. *)
LEMMA ListsStep == ListsInv /\ [ViewsNext]_vars => ListsInv'
<1> SUFFICES ASSUME ListsInv, [ViewsNext]_vars PROVE ListsInv'
  OBVIOUS
<1>1. \A V : Lists(V).views = V
  BY DEF Lists
<1>2. ASSUME NEW v \in Open, mgr' = Lists(Open \ {v}), UNCHANGED index PROVE ListsInv'
  <2>1. Open' = Open \ {v}
    BY <1>1, <1>2 DEF Open
  <2> QED
    BY <1>2, <2>1 DEF ListsInv
<1>3. ASSUME UNCHANGED <<mgr, index>> PROVE ListsInv'
  BY <1>3 DEF ListsInv, Open
<1>4. ASSUME NEW v \in Views, AddView(v) PROVE ListsInv'
  <2>1. mgr' = Lists(Open \cup {v}) /\ Open' = Open \cup {v} /\ v \notin Open
    BY <1>1, <1>4, ListFacts DEF AddView, ListsInv, Open
  <2>2. index' = [index EXCEPT ![v] = FreeIndex(v)] /\ index \in [Views -> Nat] /\ Open \subseteq Views
    BY <1>4 DEF AddView, ListsInv
  <2>3. PICK f : f = FreeIndex(v)
    OBVIOUS
  <2>4. f \in Nat /\ \A w \in Open : Category(w) = Category(v) => index[w] # f
    BY <2>3, FreeIndexIsFree
  <2>5. index' \in [Views -> Nat] /\ index'[v] = f /\ \A w \in Views : w # v => index'[w] = index[w]
    BY <2>2, <2>3, <2>4
  <2>6. ASSUME NEW x \in Open', NEW w \in Open', x # w, Category(x) = Category(w)
        PROVE  index'[x] # index'[w]
    <3>1. CASE x = v
      BY <2>1, <2>2, <2>4, <2>5, <2>6, <3>1
    <3>2. CASE w = v
      BY <2>1, <2>2, <2>4, <2>5, <2>6, <3>2
    <3>3. CASE x # v /\ w # v
      BY <2>1, <2>2, <2>5, <2>6, <3>3 DEF ListsInv
    <3> QED
      BY <3>1, <3>2, <3>3
  <2> QED
    BY <2>1, <2>2, <2>5, <2>6 DEF ListsInv
<1>5. ASSUME NEW v \in Views, CloseView(v) PROVE ListsInv'
  BY <1>2, <1>5, ListFacts DEF CloseView, ListsInv
<1>6. ASSUME NEW v \in Views, ViewClosesItself(v) PROVE ListsInv'
  BY <1>2, <1>6, ListFacts DEF ViewClosesItself, ListsInv
<1>7. ASSUME NEW v \in Views, PluginRemovesView(v) PROVE ListsInv'
  BY <1>2, <1>7, ListFacts DEF PluginRemovesView, ListsInv
<1>8. ASSUME NEW v \in Views, NEW w \in Views, Synchronize(v, w) PROVE ListsInv'
  BY <1>3, <1>8 DEF Synchronize
<1>9. ASSUME NEW v \in Views, NEW a \in Addrs,
             \/ MoveCursor(v, a) \/ DisplayFunction(v, a)
             \/ UnselectInstruction(v, a) \/ SelectLabel(v, a)
      PROVE  ListsInv'
  BY <1>3, <1>9 DEF MoveCursor, DisplayFunction, UnselectInstruction, SelectLabel
<1>a. ASSUME NEW v \in Views, SelectVariable(v) PROVE ListsInv'
  BY <1>3, <1>a DEF SelectVariable
<1>b. ASSUME NEW v \in Views, NEW a \in Addrs, NEW unique \in BOOLEAN,
             SelectInstruction(v, a, unique)
      PROVE  ListsInv'
  BY <1>3, <1>b DEF SelectInstruction
<1>10. ASSUME UNCHANGED vars PROVE ListsInv'
  BY <1>3, <1>10 DEF vars
<1> QED
  BY <1>4, <1>5, <1>6, <1>7, <1>8, <1>9, <1>10, <1>a, <1>b DEF ViewsNext

(* A view is new to its workspace: no group holds it, and it highlights
   nothing. *)
LEMMA AddedAgree ==
  ASSUME NEW s, NEW P, NEW O, NEW L, NEW v,
         Agree(s, P, O, L, P), v \in Synced, v \notin P
  PROVE  Agree(NewState(s, v),
               P \cup {v}, O \cup {v}, L \cup ({v} \cap HexViews), P \cup {v})
<1>1. PICK t : t = NewState(s, v)
  OBVIOUS
<1>2. PICK R : R = P \cup {v}
  OBVIOUS
<1>3. Agree(t, R, O, L, R) /\ AloneInFresh(t, v) /\ t.green = s.green
  BY <1>1, <1>2, NewStateAgree
<1>4. ShowsCursor(t, v) /\ v \in R /\ O \subseteq R
  BY <1>2, <1>3 DEF ShowsCursor, AloneInFresh, Agree, Bounds
<1>5. Agree(t, R, O \ {v}, L, R)
  BY <1>3, AgreeLess
<1>6. Agree(t, R, O \cup {v}, L, R)
  BY <1>4, <1>5, AgreeShown
<1>7. ASSUME v \in HexViews PROVE t.green[v] = Selected(t, v)
  <2>1. s.green[v] = NoGreen
    BY <1>7 DEF Agree, Dark
  <2>2. Selected(t, v) = [NoGreen EXCEPT ![v] = {}]
    BY <1>3 DEF Selected, AloneInFresh
  <2>3. [NoGreen EXCEPT ![v] = {}] = NoGreen
    BY DEF NoGreen
  <2> QED
    BY <1>3, <2>1, <2>2, <2>3
<1>8. Highlighted(t, L \cup ({v} \cap HexViews))
  BY <1>6, <1>7 DEF Agree, Highlighted
<1>9. Bounds(R, O \cup {v}, L \cup ({v} \cap HexViews), R)
  BY <1>2, <1>6 DEF Agree, Bounds
<1>10. Agree(t, R, O \cup {v}, L \cup ({v} \cap HexViews), R)
  BY <1>6, <1>8, <1>9 DEF Agree
<1> QED
  BY <1>1, <1>2, <1>10

(* Every handler leaves the groups in agreement: the lemmas above, for the
   views present, those that are open and the hex views among them. *)
LEMMA GroupsStep == ViewsInv /\ [ViewsNext]_vars => GroupsInv'
<1> SUFFICES ASSUME ViewsInv, [ViewsNext]_vars PROVE GroupsInv'
  OBVIOUS
<1>1. PICK s, P, O, L : /\ s = Now /\ P = Present
                        /\ O = Open \cap Synced /\ L = Open \cap HexViews
  OBVIOUS
<1>2. /\ Agree(s, P, O, L, P) /\ mgr = Lists(Open) /\ Open \subseteq Views
      /\ removed \subseteq CodeViews /\ Open \cap removed = {}
  BY <1>1 DEF ViewsInv, ListsInv, GroupsInv
<1>3. /\ P = (Open \cup removed) \cap Synced /\ removed \subseteq Synced
      /\ PlainViews \cap Synced = {} /\ HexViews \subseteq Synced /\ CodeViews \cap HexViews = {}
      /\ CodeViews \subseteq Synced /\ Views = Synced \cup PlainViews
  BY <1>1, <1>2, ViewFacts, ViewsAssumption DEF Present, Views
<1>4. \A V : Lists(V).views = V
  BY DEF Lists
<1>5. ASSUME UNCHANGED syncVars, UNCHANGED removed, Open' \cap Synced = O, Open' \cap HexViews = L,
             Open' \cap CodeViews = Open \cap CodeViews
      PROVE  GroupsInv'
  <2>1. Now' = s
    BY <1>1, <1>5 DEF syncVars, Now
  <2>2. Present' = P
    BY <1>1, <1>3, <1>5 DEF Present
  <2> QED
    BY <1>1, <1>2, <1>3, <1>5, <2>1, <2>2 DEF GroupsInv
<1>6. ASSUME NEW t, Commit(t), Agree(t, P, O, L, P), UNCHANGED <<mgr, removed>>
      PROVE  GroupsInv'
  <2>1. Agree(Now, P, O, L, P)'
    BY <1>6, Committed
  <2>2. Present' = P /\ Open' = Open
    BY <1>1, <1>6 DEF Present, Open
  <2> QED
    BY <1>1, <1>2, <1>6, <2>1, <2>2 DEF GroupsInv
<1>7. ASSUME NEW v \in Views, AddView(v) PROVE GroupsInv'
  <2>1. Open' = Open \cup {v} /\ v \notin Open /\ v \notin removed /\ removed' = removed
    BY <1>2, <1>4, <1>7, ListFacts DEF AddView, Open
  <2>2. CASE v \in PlainViews
    BY <1>1, <1>3, <1>5, <1>7, <2>1, <2>2 DEF AddView
  <2>3. CASE v \notin PlainViews
    <3>1. v \in Synced /\ v \notin P
      BY <1>3, <2>1, <2>3
    <3>2. PICK t : t = NewState(s, v)
      OBVIOUS
    <3>3. Agree(t, P \cup {v}, O \cup {v}, L \cup ({v} \cap HexViews), P \cup {v})
      BY <1>2, <3>1, <3>2, AddedAgree
    <3>4. Commit(t)
      BY <1>1, <1>7, <2>3, <3>2 DEF AddView
    <3>5. Agree(Now, P \cup {v}, O \cup {v}, L \cup ({v} \cap HexViews), P \cup {v})'
      BY <3>3, <3>4, Committed
    <3>6. /\ Present' = P \cup {v} /\ Open' \cap Synced = O \cup {v}
          /\ Open' \cap HexViews = L \cup ({v} \cap HexViews)
      BY <1>1, <1>3, <2>1, <3>1 DEF Present
    <3> QED
      BY <1>2, <2>1, <3>5, <3>6 DEF GroupsInv
  <2> QED
    BY <2>2, <2>3
<1>8. ASSUME NEW v \in Views, CloseView(v) PROVE GroupsInv'
  <2>1. v \in Open /\ Open' = Open \ {v} /\ removed' = removed
    BY <1>2, <1>4, <1>8, ListFacts DEF CloseView, Open
  <2>2. CASE v \in PlainViews
    BY <1>1, <1>3, <1>5, <1>8, <2>1, <2>2 DEF CloseView
  <2>3. CASE v \notin PlainViews
    <3>1. v \in P
      BY <1>3, <2>1, <2>3
    <3>2. PICK t : t = Closed(s, v)
      OBVIOUS
    <3>3. Agree(t, P \ {v}, O \ {v}, L \ {v}, P \ {v})
      BY <1>2, <3>1, <3>2, ClosedAgree
    <3>4. Commit(t)
      BY <1>1, <1>8, <2>3, <3>2 DEF CloseView
    <3>5. Agree(Now, P \ {v}, O \ {v}, L \ {v}, P \ {v})'
      BY <3>3, <3>4, Committed
    <3>6. /\ Present' = P \ {v} /\ Open' \cap Synced = O \ {v} /\ Open' \cap HexViews = L \ {v}
      BY <1>1, <1>2, <1>3, <2>1 DEF Present
    <3> QED
      BY <1>2, <2>1, <3>5, <3>6 DEF GroupsInv
  <2> QED
    BY <2>2, <2>3
<1>9. ASSUME NEW v \in Views, ViewClosesItself(v) PROVE GroupsInv'
  <2>1. v \in PlainViews /\ Open' = Open \ {v}
    BY <1>2, <1>4, <1>9, ListFacts DEF ViewClosesItself, Open
  <2> QED
    BY <1>1, <1>3, <1>5, <1>9, <2>1 DEF ViewClosesItself
<1>10. ASSUME NEW v \in Views, PluginRemovesView(v) PROVE GroupsInv'
  <2>1. /\ v \in Open /\ v \in CodeViews /\ Open' = Open \ {v} /\ removed' = removed \cup {v}
        /\ UNCHANGED syncVars
    BY <1>2, <1>4, <1>10, ListFacts DEF PluginRemovesView, Open
  <2>2. Now' = s
    BY <1>1, <2>1 DEF syncVars, Now
  <2>3. Present' = P /\ Open' \cap Synced = O \ {v} /\ Open' \cap HexViews = L
    BY <1>1, <1>3, <2>1 DEF Present
  <2>4. Agree(s, P, O \ {v}, L, P)
    BY <1>2, AgreeLess
  <2> QED
    BY <1>2, <2>1, <2>2, <2>3, <2>4 DEF GroupsInv
<1>11. ASSUME NEW v \in Views, NEW w \in Views, Synchronize(v, w) PROVE GroupsInv'
  <2>1. PICK t : t = IF sync[v] = sync[w] THEN Desync(s, v) ELSE SyncWith(s, v, sync[w])
    OBVIOUS
  <2>2. /\ v \in P /\ v \in O /\ w \in Synced /\ Commit(t) /\ UNCHANGED <<mgr, removed>>
    BY <1>1, <1>3, <1>11, <2>1 DEF Synchronize
  <2>3. sync[w] \in Synced
    BY <1>1, <1>2, <2>2 DEF Now, Agree, SyncStates
  <2>4. Agree(t, P, O \cup {v}, L \cup ({v} \cap HexViews), P)
    BY <1>2, <2>1, <2>2, <2>3, DesyncAgree, SyncWithAgree
  <2>5. Agree(t, P, O, L, P)
    BY <2>4, AgreeLess
  <2> QED
    BY <1>6, <2>2, <2>5
<1>12. ASSUME NEW v \in Views, NEW a \in Addrs, MoveCursor(v, a) PROVE GroupsInv'
  <2>1. PICK t : t = JumpTo(s, v, a)
    OBVIOUS
  <2>2. v \in P /\ v \in O /\ Commit(t) /\ UNCHANGED <<mgr, removed>>
    BY <1>1, <1>3, <1>12, <2>1 DEF MoveCursor
  <2>3. Agree(t, P, O \cup {v}, L, P)
    BY <1>2, <2>1, <2>2, JumpToAgree
  <2>4. Agree(t, P, O, L, P)
    BY <2>3, AgreeLess
  <2> QED
    BY <1>6, <2>2, <2>4
<1>13. ASSUME NEW v \in Views, NEW t, v \in Open, v \in CodeViews,
              Agree(s, P, O, L, P) => Agree(t, P, O \cup {v}, L, P),
              Commit(t), UNCHANGED <<mgr, removed>>
       PROVE  GroupsInv'
  <2>1. Agree(t, P, O, L, P)
    BY <1>2, <1>13, AgreeLess
  <2> QED
    BY <1>6, <1>13, <2>1
<1>a. ASSUME NEW v \in Open, v \in CodeViews PROVE v \in P /\ v \notin HexViews /\ v \in O
  BY <1>1, <1>3, <1>a
<1>14. ASSUME NEW v \in Views, NEW f \in Addrs, DisplayFunction(v, f) PROVE GroupsInv'
  <2>1. PICK t : t = ShowFunction(s, v, f)
    OBVIOUS
  <2>2. /\ v \in Open /\ v \in CodeViews /\ FuncStart(f) = f /\ Commit(t)
        /\ UNCHANGED <<mgr, removed>>
    BY <1>1, <1>14, <2>1 DEF DisplayFunction
  <2>3. Agree(t, P, O \cup {v}, L, P)
    BY <1>2, <1>a, <2>1, <2>2, ShowFunctionAgree
  <2> QED
    BY <1>13, <2>2, <2>3
<1>15. ASSUME NEW v \in Views, NEW a \in Addrs, NEW unique \in BOOLEAN,
              SelectInstruction(v, a, unique)
       PROVE  GroupsInv'
  <2>1. PICK t : t = Select(s, v, a, unique)
    OBVIOUS
  <2>2. /\ v \in Open /\ v \in CodeViews /\ s.at[v] = FuncStart(a) /\ Commit(t)
        /\ UNCHANGED <<mgr, removed>>
    BY <1>1, <1>15, <2>1 DEF SelectInstruction, OfFunctionShown, Now
  <2>3. Agree(t, P, O \cup {v}, L, P)
    BY <1>2, <1>a, <2>1, <2>2, SelectAgree
  <2> QED
    BY <1>13, <2>2, <2>3
<1>16. ASSUME NEW v \in Views, NEW insns \in Insns, v \in Open, v \in CodeViews,
              Commit(SetSelected(s, v, insns)), UNCHANGED <<mgr, removed>>
       PROVE  GroupsInv'
  <2>1. PICK t : t = SetSelected(s, v, insns)
    OBVIOUS
  <2>2. Agree(t, P, O, L, P)
    BY <1>2, <1>a, <1>16, <2>1, SetSelectedAgree
  <2> QED
    BY <1>6, <1>16, <2>1, <2>2
<1>b. sel \in [Synced -> Insns]
  BY <1>1, <1>2 DEF Agree, SyncStates, Now
<1>17. ASSUME NEW v \in Views, NEW a \in Addrs, UnselectInstruction(v, a) PROVE GroupsInv'
  <2>1. sel[v] \ {a} \in Insns /\ v \in Open /\ v \in CodeViews
    BY <1>3, <1>17, <1>b DEF UnselectInstruction, OfFunctionShown, Insns
  <2> QED
    BY <1>1, <1>16, <1>17, <2>1 DEF UnselectInstruction
<1>18. ASSUME NEW v \in Views, NEW a \in Addrs, SelectLabel(v, a) PROVE GroupsInv'
  <2>1. PICK u : u = PublishCursor(s, v, a)
    OBVIOUS
  <2>2. PICK t : t = IF sel[v] = {} THEN u ELSE SetSelected(u, v, {})
    OBVIOUS
  <2>3. /\ v \in Open /\ v \in CodeViews /\ s.at[v] = FuncStart(a) /\ Commit(t)
        /\ UNCHANGED <<mgr, removed>>
    BY <1>1, <1>18, <2>1, <2>2 DEF SelectLabel, OfFunctionShown, Now
  <2>4. PICK N : N = O \cup {v}
    OBVIOUS
  <2>5. Agree(u, P, N, L, P)
    BY <1>2, <1>a, <2>1, <2>3, <2>4, PublishOwnAgree
  <2>6. Agree(SetSelected(u, v, {}), P, N, L, P)
    BY <1>a, <2>3, <2>5, ViewFacts, SetSelectedAgree
  <2>7. Agree(t, P, O \cup {v}, L, P)
    BY <2>2, <2>4, <2>5, <2>6
  <2> QED
    BY <1>13, <2>3, <2>7
<1>19. ASSUME NEW v \in Views, SelectVariable(v) PROVE GroupsInv'
  BY <1>1, <1>16, <1>19, ViewFacts DEF SelectVariable
<1>20. ASSUME UNCHANGED vars PROVE GroupsInv'
  BY <1>1, <1>5, <1>20 DEF vars, syncVars, Open
<1> QED
  BY <1>7, <1>8, <1>9, <1>10, <1>11, <1>12, <1>14, <1>15, <1>17, <1>18, <1>19, <1>20
     DEF ViewsNext

(* The lists of the manager and the groups of views are right after every
   handler. *)
THEOREM ViewsAlwaysInv == ViewsSpec => []ViewsInv
<1>1. ViewsInit => ViewsInv
  BY ListsInit, GroupsInit DEF ViewsInv
<1>2. ViewsInv /\ [ViewsNext]_vars => ViewsInv'
  BY ListsStep, GroupsStep DEF ViewsInv
<1> QED
  BY <1>1, <1>2, PTL DEF ViewsSpec

(* However a view goes, the lists of the manager agree on what is open, and two
   open views of a category never have the same caption
   (_on_dock_widget_closed, remove_view, _update_view_index_in_category). *)
THEOREM ManagerAlwaysAgrees == ViewsSpec => []ManagerAgrees
<1>1. ViewsInv => ManagerAgrees
  BY DEF ViewsInv, ListsInv, Lists, ManagerAgrees
<1> QED
  BY <1>1, ViewsAlwaysInv, PTL

(* The group of an open view has exactly the views synchronized with it and those
   removed without a close event, and a hex view highlights exactly what the others of its group have published as
   selected since they joined it (select_instruction, clear_selection,
   unregister_view, register_view, closeEvent). *)
THEOREM GroupsAlwaysAgree == ViewsSpec => []GroupsAgree
<1>1. ViewsInv => GroupsAgree
  <2> SUFFICES ASSUME ViewsInv PROVE GroupsAgree
    OBVIOUS
  <2>1. PICK s, P : s = Now /\ P = Present
    OBVIOUS
  <2>2. /\ s \in SyncStates /\ P \subseteq Synced /\ MembersAgree(s, P) /\ RegionsAgree(s, P)
        /\ Highlighted(s, Open \cap HexViews)
    BY <2>1 DEF ViewsInv, GroupsInv, Agree, Bounds
  <2>3. s.at = at /\ s.sync = sync /\ s.state = state /\ s.green = green
    BY <2>1 DEF Now
  <2>4. ASSUME NEW v \in Open \cap Synced
        PROVE  state[sync[v]].views = {w \in Present : sync[w] = sync[v]}
    <3>1. PICK g \in Synced : g = sync[v]
      BY <2>2, <2>3 DEF SyncStates
    <3>2. state[g].views \subseteq Synced
      BY <2>2, <2>3 DEF SyncStates, Groups
    <3> QED
      BY <2>1, <2>2, <2>3, <3>1, <3>2 DEF MembersAgree
  <2>5. ASSUME NEW h \in Open \cap HexViews
        PROVE  green[h] = [v \in Synced |->
                 IF v # h /\ v \in Present /\ sync[v] = sync[h] THEN state[sync[h]].regions[v] ELSE {}]
    <3>1. PICK g \in Synced : g = sync[h]
      BY <2>2, <2>3, ViewFacts DEF SyncStates
    <3>2. state[g].regions \in Regions /\ h \in Synced
      BY <2>2, <2>3, ViewFacts DEF SyncStates, Groups
    <3>3. green[h] = [state[g].regions EXCEPT ![h] = {}]
      BY <2>2, <2>3, <3>1 DEF Highlighted, Selected
    <3>4. \A v \in Synced : green[h][v] =
            IF v # h /\ v \in P /\ sync[v] = g THEN state[g].regions[v] ELSE {}
      <4> SUFFICES ASSUME NEW v \in Synced, v # h, ~(v \in P /\ sync[v] = g)
                   PROVE  state[g].regions[v] = {}
        BY <3>2, <3>3 DEF Regions
      <4> QED
        BY <2>2, <2>3, <3>1 DEF RegionsAgree
    <3>5. green[h] \in Regions
      BY <3>2, <3>3, ViewFacts DEF Regions
    <3> QED
      BY <2>1, <3>1, <3>4, <3>5 DEF Regions
  <2> QED
    BY <2>4, <2>5 DEF GroupsAgree
<1> QED
  BY <1>1, ViewsAlwaysInv, PTL

(* The open views of a group show its cursor, whichever of them moved, selected
   or joined last (set_synchronized_cursor_address, select_instruction,
   sync_from_state). *)
THEOREM GroupAlwaysShowsCursor == ViewsSpec => []GroupShowsCursor
<1>1. ViewsInv => GroupShowsCursor
  <2> SUFFICES ASSUME ViewsInv PROVE GroupShowsCursor
    OBVIOUS
  <2>1. CursorsShown(Now, Open \cap Synced)
    BY DEF ViewsInv, GroupsInv, Agree
  <2>2. Now.at = at /\ Now.sync = sync /\ Now.state = state
    BY DEF Now
  <2> QED
    BY <2>1, <2>2 DEF CursorsShown, ShowsCursor, GroupShowsCursor
<1> QED
  BY <1>1, ViewsAlwaysInv, PTL
=============================================================================
