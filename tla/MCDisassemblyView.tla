-------------------------- MODULE MCDisassemblyView --------------------------
(* Two regions with a gap, a byte of no object at the end of the first, and one
   object of each kind besides the function that may become data. *)
EXTENDS DisassemblyView

Obj(size, kind, lines, func) == [size |-> size, kind |-> kind, lines |-> lines, func |-> func]
MCRegions == <<[addr |-> 2, size |-> 6], [addr |-> 10, size |-> 3]>>
Kept == (2 :> Obj(2, "code", 1, 2)) @@ (4 :> Obj(3, "data", 2, NoFunc)) @@ (12 :> Obj(1, "unknown", 1, NoFunc))
MCVersions == {Kept @@ (10 :> Obj(2, "code", 1, 10)), Kept @@ (10 :> Obj(2, "data", 1, NoFunc))}
MCNone == -1
MCAddr == {1, 2, 10}
MCStops == {7}
=============================================================================
