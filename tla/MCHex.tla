------------------------------- MODULE MCHex -------------------------------
(***************************************************************************)
(* The cursor and the patches of the hex view: windows of one to three      *)
(* rows, and a program of four bytes with a hole.  What the patches need of  *)
(* the cursor is an input of their actions, so they have no state in         *)
(* common, and a behaviour moves the one or the other.                       *)
(***************************************************************************)
EXTENDS HexCursor, HexPatches

MCRowCounts == 1 .. 3
MCRegion == 0 .. 3
MCMemory == [a \in {0, 1, 3} |-> [n \in {0, 1} |-> 1]]
MCPrintable == {[n \in {0, 1} |-> 0]}

HexViewInit == HexInit /\ PatchInit
HexViewNext ==
  \/ HexNext /\ PatchInit /\ UNCHANGED patchVars
  \/ PatchNext /\ HexInit /\ hex.rows = 1 /\ UNCHANGED hexVars
HexViewSpec == HexViewInit /\ [][HexViewNext]_<<hexVars, patchVars>>
=============================================================================
