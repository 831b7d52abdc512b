------------------------------ MODULE HexPatches ------------------------------
(***************************************************************************)
(* The patches of the project as the hex view edits them: what is typed,    *)
(* pasted, split, merged, reverted or assembled (ui/views/hex_view.py and   *)
(* Workspace.patch).  Where the cursor is, what is selected and which       *)
(* regions are active is an input here and the state of HexCursor; only the *)
(* loader's memory is edited.  project.kb.patches is angr's patch manager:  *)
(* one patch per address, listed in the order of the addresses.             *)
(***************************************************************************)
EXTENDS Integers, FiniteSets, Sequences, SequencesExt, FiniteSetsExt, Functions

CONSTANTS
  Region,        \* the addresses the view shows, of the loader's memory
  Memory,        \* the bytes of the loaded objects: address -> byte
  Digits,        \* what a nibble can be, 0 among them
  Typed,         \* the digits that are typed
  Printable,     \* the bytes that are typed as text
  MaxEdits       \* bound on the edits of a behaviour

Bytes == [{0, 1} -> Digits]      \* nibble 1 is the high one
ZeroByte == [n \in {0, 1} |-> 0]
Unreadable == <<>>               \* "?", a byte no object holds

ASSUME PatchAssumption ==
  /\ Region \subseteq Nat /\ Region # {} /\ IsFiniteSet(Region)
  /\ 0 \in Digits /\ Typed \subseteq Digits /\ Printable \subseteq Bytes
  /\ DOMAIN Memory \subseteq Region /\ Memory \in [DOMAIN Memory -> Bytes]
  /\ MaxEdits \in Nat

VARIABLES
  patches,    \* kb.patches: address -> the bytes of the patch
  clipboard,  \* _clipboard, <<>> when there is none
  edits,      \* edits so far
  overlapped  \* whether an assembled patch was put over a part of another

patchVars == <<patches, clipboard, edits, overlapped>>

PatchEnd(ps, p) == p + Len(ps[p])
Extent(ps, p) == p .. PatchEnd(ps, p) - 1
Ascending(S) ==
  CHOOSE q \in [1 .. Cardinality(S) -> S] : \A i, j \in DOMAIN q : i < j => q[i] < q[j]
GetAllPatches(ps, first, last) == {p \in DOMAIN ps : p <= last /\ first < PatchEnd(ps, p)}
RemovePatch(ps, p) == Restrict(ps, DOMAIN ps \ {p})
AddPatch(ps, p, bytes) == [q \in DOMAIN ps \cup {p} |-> IF q = p THEN bytes ELSE ps[q]]

(* project_memory_read_func *)
Read(ps, a) ==
  LET hit == GetAllPatches(ps, a, a) IN
  IF hit # {} THEN ps[Min(hit)][a - Min(hit) + 1]
  ELSE IF a \in DOMAIN Memory THEN Memory[a] ELSE Unreadable
Value(ps, a) == IF Read(ps, a) = Unreadable THEN ZeroByte ELSE Read(ps, a)

(* not the code: a patch that is cut from below keeps its address *)
MakeRoomInPlace(ps, p, a, new) ==
  LET last == a + Len(new) - 1
      below == SubSeq(ps[p], 1, a - p)
      above == SubSeq(ps[p], last - p + 2, Len(ps[p]))
      reach == PatchEnd(ps, p) - 1
  IN  IF p <= a /\ reach >= last THEN AddPatch(ps, p, below \o new \o above)
      ELSE IF p >= a /\ reach <= last THEN RemovePatch(ps, p)
      ELSE IF p >= a THEN AddPatch(ps, p, above)
      ELSE AddPatch(ps, p, below)
(* the loop of auto_patch, for one patch that the new bytes meet: it holds
   them all, or loses what they overwrite *)
MakeRoom(ps, p, a, new) ==
  LET last == a + Len(new) - 1
      below == SubSeq(ps[p], 1, a - p)
      above == SubSeq(ps[p], last - p + 2, Len(ps[p]))
      reach == PatchEnd(ps, p) - 1
  IN  IF p <= a /\ reach >= last THEN AddPatch(ps, p, below \o new \o above)
      ELSE IF p >= a /\ reach <= last THEN RemovePatch(ps, p)
      ELSE IF p >= a THEN AddPatch(RemovePatch(ps, p), last + 1, above)
      ELSE AddPatch(ps, p, below)

(* auto_patch: the patches that the new bytes meet make room, until one holds
   them all *)
RoomFor(ps, a, new) ==
  LET last == a + Len(new) - 1
      step(acc, p) ==
        IF acc.done THEN acc
        ELSE [ps |-> MakeRoom(acc.ps, p, a, new), done |-> p <= a /\ PatchEnd(ps, p) > last]
  IN  FoldLeft(step, [ps |-> ps, done |-> FALSE], Ascending(GetAllPatches(ps, a, last)))
(* then the bytes extend the patch before them, or become one *)
AutoPatch(ps, a, new) ==
  LET room == RoomFor(ps, a, new)
      before == GetAllPatches(room.ps, a - 1, a - 1)
  IN  IF room.done THEN room.ps
      ELSE IF a > 0 /\ before # {} THEN [room.ps EXCEPT ![Min(before)] = @ \o new]
      ELSE AddPatch(room.ps, a, new)

(* the regions of patches that meet the addresses first .. last *)
Active(first, last) == GetAllPatches(patches, first, last)

(* merge_with, with the patch that follows *)
MergeWith(ps, h, p) == RemovePatch([ps EXCEPT ![h] = @ \o ps[p]], p)
(* _merge_selected_patches: each patch takes in its adjacent successors *)
MergeAdjacent(ps, selected) ==
  LET step(acc, p) ==
        IF p # PatchEnd(acc.ps, acc.head) THEN [acc EXCEPT !.head = p]
        ELSE [acc EXCEPT !.ps = MergeWith(@, acc.head, p)]
  IN  FoldLeft(step, [ps |-> ps, head |-> Min(selected)],
               Ascending(selected \ {Min(selected)})).ps
-----------------------------------------------------------------------------
PatchInit == patches = <<>> /\ clipboard = <<>> /\ edits = 0 /\ overlapped = FALSE

Change(ps) ==
  /\ edits < MaxEdits /\ edits' = edits + 1
  /\ patches' = ps /\ UNCHANGED clipboard
Edit(ps) == Change(ps) /\ UNCHANGED overlapped

(* _set_nibble_value and _set_byte_value *)
TypedByte(a, n, d) == [Value(patches, a) EXCEPT ![n] = d]
SetNibbleValue(a, n, d) == Edit(AutoPatch(patches, a, <<TypedByte(a, n, d)>>))
SetByteValue(a, b) == Edit(AutoPatch(patches, a, <<b>>))

CopySelectedBytes(first, last) ==
  /\ clipboard' = [i \in 1 .. last - first + 1 |-> Value(patches, first + i - 1)]
  /\ UNCHANGED <<patches, edits, overlapped>>

(* the bytes may reach past the end of the region *)
PasteCopiedBytes(a) == clipboard # <<>> /\ Edit(AutoPatch(patches, a, clipboard))

CanSplit(p, cursor) == p < cursor /\ cursor < PatchEnd(patches, p)
SplitPatch(ps, p, cursor) ==
  LET o == cursor - p
  IN  AddPatch([ps EXCEPT ![p] = SubSeq(@, 1, o)], cursor, SubSeq(ps[p], o + 1, Len(ps[p])))
Split(p, cursor) == CanSplit(p, cursor) /\ Edit(SplitPatch(patches, p, cursor))

MergeSelected(first, last) ==
  /\ Active(first, last) # {}
  /\ MergeAdjacent(patches, Active(first, last)) # patches
  /\ Edit(MergeAdjacent(patches, Active(first, last)))

Revert(p) == Edit(RemovePatch(patches, p))
RevertSelected(first, last) ==
  /\ Active(first, last) # {}
  /\ Edit(Restrict(patches, DOMAIN patches \ Active(first, last)))

(* Workspace.patch: the assembled bytes are a patch of their own, in the place
   of the one at the address; no other makes room.  What angr finds among
   patches that overlap is left open: nothing is claimed of them. *)
Assemble(a, new) ==
  /\ Change(AddPatch(patches, a, new))
  /\ overlapped' = (overlapped \/ GetAllPatches(patches, a, a + Len(new) - 1) \ {a} # {})

Assembled == {[i \in 1 .. n |-> ZeroByte] : n \in 1 .. 2}

PatchNext ==
  \/ \E a \in Region, n \in {0, 1}, d \in Typed : SetNibbleValue(a, n, d)
  \/ \E a \in Region, b \in Printable : SetByteValue(a, b)
  \/ \E a \in Region : PasteCopiedBytes(a)
  \/ \E p \in DOMAIN patches, cursor \in Region : Split(p, cursor)
  \/ \E p \in DOMAIN patches : Revert(p)
  \/ \E first \in Region, last \in Region :
       first <= last /\ (\/ CopySelectedBytes(first, last)
                         \/ MergeSelected(first, last)
                         \/ RevertSelected(first, last))
  \/ \E a \in Region, new \in Assembled : Assemble(a, new)

PatchSpec == PatchInit /\ [][PatchNext]_patchVars
-----------------------------------------------------------------------------
(* No two patches hold the same address: auto_patch makes room before it
   writes, and splitting and merging move bytes without copying them.  The
   read function and the shrinking rely on it. *)
PatchesDisjoint ==
  \A p, q \in DOMAIN patches : p # q => Extent(patches, p) \cap Extent(patches, q) = {}

(* every address a patch can hold: a paste may start at the last one *)
Seen == Min(Region) .. Max(Region) + Cardinality(Region)

(* What is written is read back at its place, and no other byte of the
   program changes, however the write cuts the patches that are there
   (auto_patch: "ensure new_bytes are patched at addr").  The bytes written
   here are told apart from all that a patch can hold. *)
Written(n) == [i \in 1 .. n |-> [k \in {0, 1} |-> -i]]
WritesOnlyThere ==
  \A a \in Region, n \in 1 .. Cardinality(Region) :
    LET after == AutoPatch(patches, a, Written(n)) IN
    \A x \in Seen : Read(after, x) = IF x \in a .. a + n - 1 THEN Written(n)[x - a + 1]
                                     ELSE Read(patches, x)

(* Splitting a patch and merging patches change no byte of the program
   (PatchHighlightRegion.split and merge_with). *)
SameBytes(ps) == \A x \in Seen : Read(ps, x) = Read(patches, x)
RearrangingKeepsBytes ==
  /\ \A p \in DOMAIN patches, cursor \in Region :
       CanSplit(p, cursor) => SameBytes(SplitPatch(patches, p, cursor))
  /\ \A first, last \in Region :
       Active(first, last) # {} => SameBytes(MergeAdjacent(patches, Active(first, last)))

(* Patches hold what was written where it was written, and only that: they do
   not overlap, and whatever is done to them next changes the bytes it is
   meant to change and no other.  The one exception is an assembled patch that
   meets another than the one it replaces: Workspace.patch makes no room. *)
PatchesKeepBytes ==
  overlapped \/ (PatchesDisjoint /\ WritesOnlyThere /\ RearrangingKeepsBytes)
=============================================================================
