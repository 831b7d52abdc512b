---------------------------- MODULE MCFeatureMap ----------------------------
(* Two binaries: one with a hole and a region not shown to scale that another one
   overlaps, one of two regions that touch. *)
EXTENDS FeatureMap
CONSTANTS code, data

Item(addr, size, tag) == [addr |-> addr, size |-> size, tags |-> {tag}]
Region(addr, size, scaled) == [addr |-> addr, size |-> size, scaled |-> scaled]
MCBinaries ==
  <<[regions |-> <<Region(8, 3, FALSE), Region(0, 5, TRUE), Region(4, 2, TRUE)>>,
     items |-> {Item(0, 1, code), Item(1, 2, data), Item(9, 1, code)},
     tried |-> {Item(0, 1, code), Item(1, 2, code), Item(2, 3, data), Item(3, 0, data), Item(9, 1, code)}],
    [regions |-> <<Region(0, 3, TRUE), Region(3, 6, TRUE)>>,
     items |-> {Item(2, 2, code), Item(6, 2, data)},
     tried |-> {Item(1, 4, data), Item(2, 2, code)}]>>
MCBins == <<4, 2, 1>>
MCAddr == 0 .. 11
MCWidths == {3, 12}
=============================================================================
