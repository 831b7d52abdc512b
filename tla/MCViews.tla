------------------------------- MODULE MCViews -------------------------------
(* A hex view, two disassembly views and a pseudocode view; two instructions of a function and a
   function outside the memory the hex view shows. *)
EXTENDS Views
CONSTANTS h, d, e, c
MCHex == {h}
MCCode == {d, e}
MCPlain == {c}
MCCategory(v) == IF v = h THEN "hex" ELSE IF v = c THEN "pseudocode" ELSE "disassembly"
MCFuncStart(a) == IF a = 3 THEN 3 ELSE 1
=============================================================================
