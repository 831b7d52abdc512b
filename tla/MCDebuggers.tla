----------------------------- MODULE MCDebuggers -----------------------------
(* Debuggers for TLC: a Call Explorer, a table and the toolbar;
   symmetric traces and simulations. *)
EXTENDS Debuggers, TLC
CONSTANTS t1, t2, s1, s2, e1, b1

TwoTraces == {t1, t2}
TwoSims == {s1, s2}
OneExplorer == {e1}
OneTable == {b1}
TwoViews == OneExplorer \cup OneTable
Symmetry == Permutations(TwoTraces) \cup Permutations(TwoSims)
=============================================================================
