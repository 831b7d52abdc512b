------------------------------ MODULE HexCursor ------------------------------
(***************************************************************************)
(* The cursor, selection and viewport of the hex view                      *)
(* (ui/views/hex_view.py).  The attributes of HexGraphicsObject are one     *)
(* record; each of its methods is an operator from that record to the       *)
(* record it leaves, so a handler is the composition of the calls it makes. *)
(* A row has Row bytes (16 in the code); addresses are natural numbers.     *)
(***************************************************************************)
EXTENDS Integers

CONSTANTS
  Row,        \* bytes of a row
  RowCounts,  \* the numbers of rows a window can have
  LoaderMin,  \* project.loader.min_addr
  LoaderMax,  \* project.loader.max_addr
  DebuggerEnd \* 0x10000000000000000, where the debugger's region ends

ASSUME HexAssumption ==
  /\ Row \in Nat \ {0}
  /\ RowCounts \subseteq Nat \ {0} /\ RowCounts # {}
  /\ LoaderMin \in Nat /\ LoaderMax \in Nat /\ LoaderMin <= LoaderMax
  /\ DebuggerEnd \in Nat \ {0} /\ LoaderMax < DebuggerEnd

VARIABLES
  hex,     \* the HexGraphicsObject
  source,  \* _data_source_combo.currentData()
  loaded   \* the instance has a project and a CFB

hexVars == <<hex, source, loaded>>

None == -1
Sources == {"Loader", "Debugger"}
Keys == {"Up", "Down", "Left", "Right", "PageUp", "PageDown", "Home", "End"}

RowStart(a) == a - (a % Row)                   \* a & ~0xF
Least(a, b) == IF a < b THEN a ELSE b
Most(a, b) == IF a > b THEN a ELSE b

InRegion(h, a) == h.start <= a /\ a < h.end
DisplayEnd(h) == Least(h.end, h.disp + h.rows * Row)
ScreenRow(h, a) == (a - RowStart(h.disp)) \div Row
Displayed(h, a) == h.disp <= a /\ a < DisplayEnd(h)
OnScreen(h, a) == Displayed(h, a) /\ ScreenRow(h, a) < h.rows

(* set_display_offset and set_display_num_rows.  The regions that are then
   built again, and which of them the selection meets, are left out; what is
   done to the patches among them is in HexPatches. *)
SetDisplayOffset(h, offset) ==
  [h EXCEPT !.disp = h.start + Most(0, Least(RowStart(offset), h.end - h.start - Row))]
SetDisplayNumRows(h, n) == [h EXCEPT !.rows = Most(n, 1)]

(* not the code: all rows count as fully displayed *)
MoveViewportAllRows(h, a, keepRow) ==
  LET full == Row * h.rows IN
  IF keepRow /\ Displayed(h, h.cursor)
    THEN SetDisplayOffset(h, a - h.cursor + h.disp - h.start)
  ELSE IF a < h.disp THEN SetDisplayOffset(h, a - h.start)
  ELSE IF a >= h.disp + full THEN SetDisplayOffset(h, a - full - h.start + Row)
  ELSE h
MoveViewportTo(h, a, keepRow) ==
  LET full == Row * (h.rows - 1) IN
  IF keepRow /\ Displayed(h, h.cursor)
    THEN SetDisplayOffset(h, a - h.cursor + h.disp - h.start)
  ELSE IF a < h.disp THEN SetDisplayOffset(h, a - h.start)
  ELSE IF a >= h.disp + full THEN SetDisplayOffset(h, a - full - h.start + Row)
  ELSE h

ClearSelection(h) == [h EXCEPT !.sel = None]
BeginSelection(h) == [h EXCEPT !.sel = h.cursor]
ExtendOrClear(h, shift) ==
  IF ~shift THEN ClearSelection(h) ELSE IF h.sel = None THEN BeginSelection(h) ELSE h

(* set_cursor: nothing happens for an address outside the region; the
   viewport follows only when the address of the cursor changes *)
SetCursorIn(h, a, column, nibble, follow) ==
  IF ~InRegion(h, a) THEN h
  ELSE LET moved == IF follow /\ a # h.cursor THEN MoveViewportTo(h, a, FALSE) ELSE h
       IN  [moved EXCEPT !.cursor = a, !.ascii = column, !.nibble = nibble]
SetCursor(h, a) == SetCursorIn(h, a, h.ascii, None, TRUE)

(* not the code: the selection survives a change of the region *)
SetDataKeepsSelection(h, start, size) ==
  SetCursor(SetDisplayOffset([h EXCEPT !.start = start, !.end = start + size], 0), start)
SetData(h, start, size) ==
  SetCursor(SetDisplayOffset(ClearSelection([h EXCEPT !.start = start, !.end = start + size]),
                             0), start)

(* _reload_data: the region of the source, then the viewport and the cursor
   that were shown before *)
ReloadData(h, src, isLoaded) ==
  LET again(start, size) ==
        SetCursor(SetDisplayOffset(SetData(h, start, size), h.disp - start), h.cursor)
  IN  IF src = "Debugger" THEN again(0, DebuggerEnd)
      ELSE IF ~isLoaded THEN SetData(h, 0, 0)
      ELSE again(LoaderMin, LoaderMax - LoaderMin + 1)

(* keyPressEvent for the movement keys *)
KeyTarget(h, key) ==
  LET page == (h.rows - 1) * Row IN
  CASE key = "Up" -> h.cursor - Row
    [] key = "Down" -> h.cursor + Row
    [] key = "Left" -> h.cursor - 1
    [] key = "Right" -> h.cursor + 1
    [] key = "PageUp" -> Most(h.start, h.cursor - page)
    [] key = "PageDown" -> Least(h.end - 1, h.cursor + page)
    [] key = "Home" -> Most(h.start, RowStart(h.cursor))
    [] key = "End" -> Least(h.end - 1, RowStart(h.cursor) + Row - 1)
PressKey(h, key, shift) ==
  LET sel == ExtendOrClear(h, shift)
      to  == KeyTarget(h, key)
  IN  IF ~InRegion(h, to) THEN sel
      ELSE SetCursorIn(MoveViewportTo(sel, to, key \in {"PageUp", "PageDown"}),
                       to, h.ascii, None, FALSE)

(* mouseDoubleClickEvent on a region of highlighted addresses *)
SelectRegion(h, first, last) == SetCursor(BeginSelection(SetCursor(h, last)), first)
-----------------------------------------------------------------------------
HexInit ==
  /\ source = "Loader" /\ loaded = FALSE
  /\ \E n \in RowCounts :
       hex = [start |-> 0, end |-> 0, disp |-> 0, rows |-> n, cursor |-> 0, sel |-> None,
              nibble |-> None, ascii |-> FALSE]

Keep == UNCHANGED <<source, loaded>>

(* mouse press, and a move with the button held, at a row of the screen *)
Click(a, column, shift) ==
  /\ OnScreen(hex, a)
  /\ hex' = SetCursorIn(ExtendOrClear(hex, shift), a, column, None, TRUE) /\ Keep

MoveKey(key, shift) == hex' = PressKey(hex, key, shift) /\ Keep

(* a region of the program, a patch or a breakpoint under the cursor is
   selected whole; it may reach past the end of what is shown *)
DoubleClick(first, last) ==
  /\ first <= hex.cursor /\ hex.cursor <= last
  /\ hex' = SelectRegion(hex, first, last) /\ Keep

(* a digit sets the high nibble, then the low one, and moves on; a character
   sets the byte.  What they write is in HexPatches; only the loader's memory
   can be written *)
Writable == source = "Loader" /\ loaded
NibbleToType == IF hex.nibble = None THEN 1 ELSE hex.nibble
TypeDigit ==
  /\ Writable /\ ~hex.ascii
  /\ hex' = SetCursorIn(hex, hex.cursor + 1 - NibbleToType, hex.ascii, 1 - NibbleToType, TRUE)
  /\ Keep
TypeCharacter ==
  /\ Writable /\ hex.ascii
  /\ hex' = SetCursor(hex, hex.cursor + 1) /\ Keep

(* Ctrl+Space *)
SwitchColumn == hex' = SetCursorIn(hex, hex.cursor, ~hex.ascii, None, TRUE) /\ Keep

(* the wheel and the scroll bar *)
Scroll(offset) == hex' = SetDisplayOffset(hex, offset) /\ Keep
Resize(n) == hex' = SetDisplayNumRows(hex, n) /\ Keep

(* the jump dialog and synchronized views *)
JumpToAddr(a) == hex' = SetCursor(ClearSelection(hex), a) /\ Keep

(* another project or CFB; the choice of another source *)
CfbEvent == loaded' = TRUE /\ hex' = ReloadData(hex, source, TRUE) /\ UNCHANGED source
SourceChanged(s) ==
  /\ source' = s /\ hex' = ReloadData(hex, s, loaded) /\ UNCHANGED loaded

HexAddrs == 0 .. DebuggerEnd - 1

AnyMoveKey == \E key \in Keys, shift \in BOOLEAN : MoveKey(key, shift)

HexNext ==
  \/ AnyMoveKey
  \/ \E a \in HexAddrs, column \in BOOLEAN, shift \in BOOLEAN : Click(a, column, shift)
  \/ \E first \in HexAddrs, last \in HexAddrs : DoubleClick(first, last)
  \/ TypeDigit
  \/ TypeCharacter
  \/ SwitchColumn
  \/ \E rows \in -1 .. 1 : Scroll(hex.disp - hex.start + rows * Row)
  \/ \E n \in RowCounts : Resize(n)
  \/ \E a \in HexAddrs : JumpToAddr(a)
  \/ CfbEvent
  \/ \E s \in Sources : SourceChanged(s)

HexSpec == HexInit /\ [][HexNext]_hexVars
-----------------------------------------------------------------------------
(* The cursor and the selection stay inside the region that is shown, also
   when the source changes under them (set_cursor, clear_selection,
   _reload_data); an empty view keeps a stale cursor, to which it gives no
   access. *)
CursorInRegion ==
  hex.start < hex.end =>
    /\ InRegion(hex, hex.cursor)
    /\ hex.sel = None \/ InRegion(hex, hex.sel)
    /\ hex.start <= hex.disp /\ hex.disp < hex.end

(* A movement key brings the cursor it moves onto the screen, wherever the
   viewport had been scrolled to (move_viewport_to: "Translate the visible
   range so `addr` is visible").  A window of one row is too small for the
   rule of the code, which wants the row fully displayed.  And a page key
   scrolls by whole rows of the region: it may lose a cursor on the last row
   and, where the region starts within a row, one whose page the end of the
   region cuts short. *)
PageKeepsRow(h, key) ==
  \/ h.start % Row = 0 /\ h.cursor < h.disp + (h.rows - 1) * Row
  \/ /\ ScreenRow(h, h.cursor) < h.rows - 1
     /\ KeyTarget(h, key) \in {h.cursor - (h.rows - 1) * Row, h.cursor + (h.rows - 1) * Row}
KeyShowsCursor ==
  [][\A key \in Keys, shift \in BOOLEAN :
         (/\ MoveKey(key, shift) /\ InRegion(hex, KeyTarget(hex, key)) /\ hex.rows > 1
          /\ key \in {"PageUp", "PageDown"} /\ Displayed(hex, hex.cursor) =>
               PageKeepsRow(hex, key))
       => OnScreen(hex', hex'.cursor)]_hexVars
=============================================================================
