---------------------------- MODULE MCGraphLayout ----------------------------
(***************************************************************************)
(* SuperGraph on the transition graphs of four blocks, and GraphLayout on    *)
(* the graphs of five nodes and at most MaxEdges edges, and on two wider     *)
(* ones, in which every node is reached from the first.  What is laid out    *)
(* is an input of the layout, so a behaviour does the one or the other.      *)
(***************************************************************************)
EXTENDS GraphLayout, SuperGraph

CONSTANT MaxEdges

N == 5
MCNodes == 1 .. N
(* the edges that go forward, two that go back, and a node that follows itself *)
Pairs == {e \in MCNodes \X MCNodes : e[1] < e[2]} \cup {<<3, 2>>, <<4, 4>>, <<5, 1>>}
ReachedFrom(n, E) ==
  LET step[k \in 0 .. N] ==
        IF k = 0 THEN {n}
        ELSE UNION {S \cup {e[2] : e \in {e \in E : e[1] \in S}} : S \in {step[k - 1]}}
  IN  step[N]
(* what quasi_topological_sort_nodes ensures: an edge goes back only within a
   strongly connected component *)
Ordered(E) == \A e \in E : e[2] < e[1] => e[1] \in ReachedFrom(e[2], E)
Wide == {({1} \X {2, 3}) \cup ({2, 3} \X {4, 5}), ({1} \X {2, 3, 4}) \cup ({2, 3, 4} \X {5})}
MCGraphs ==
  Wide \cup {E \in UNION {kSubset(k, Pairs) : k \in N - 1 .. MaxEdges} :
               ReachedFrom(1, E) = MCNodes /\ Ordered(E)}
MCKeys == {[n \in MCNodes |-> n], [n \in MCNodes |-> N - n]}
MCSizes == {[n \in MCNodes |-> <<20 * n + 11, 10 + n>>]}

(* Blocks 1 to 4 in a row; after them a function that does not return, another
   one that does, and a block of somebody else. *)
InRow == 1 .. 4
NoReturn == 5
Callee == 7
Elsewhere == 9
MCBlocks == InRow \cup {Elsewhere}
MCFunctions == {NoReturn, Callee}
(* how a block can end: return, jump, branch, call, leave the function *)
Endings(b) ==
  LET to(c, t) == [e \in {<<b, c>>} |-> t]
      follows == {c \in InRow : c = b + 1}
  IN  {<<>>}
      \cup {to(c, "transition") : c \in InRow \ {b}}
      \cup {to(d, "transition") @@ to(c, "transition") : c \in InRow \ {b + 1}, d \in follows}
      \cup {to(Callee, "call") @@ to(d, "fake_return") @@ [e \in {<<Callee, d>>} |-> "return"]
            : d \in follows}
      \cup {to(NoReturn, "call"), to(Elsewhere, "outside")}
Flow(n, edges) ==
  [entry |-> n, edges |-> edges, blocks |-> InRow \cup {c \in MCBlocks : \E e \in DOMAIN edges : e[2] = c}]
Alone == [entry |-> 1, edges |-> <<>>, blocks |-> {1}]
MCFlows ==
  {Alone} \cup
  {f \in {Flow(n, a @@ b @@ c @@ d)
          : n \in InRow, a \in Endings(1), b \in Endings(2), c \in Endings(3), d \in Endings(4)} :
     LET reached == ReachedFrom(f.entry, {e \in DOMAIN f.edges : e[1] \in InRow})
     IN  Cardinality(InRow \ reached) <= 1}

Plain == [edges |-> {<<n, n + 1>> : n \in 1 .. N - 1}, key |-> [n \in MCNodes |-> n],
          size |-> [n \in MCNodes |-> <<20 * n + 11, 10 + n>>], backwards |-> FALSE]
GraphInit ==
  \/ SuperInit /\ flow = Alone /\ LayoutInit
  \/ LayoutInit /\ graph = Plain /\ SuperInit
GraphNext ==
  \/ LayoutNext /\ flow = Alone /\ left # {} /\ UNCHANGED superVars
  \/ SuperNext /\ graph = Plain /\ phase = "rows" /\ todo = Nodes /\ UNCHANGED vars
GraphSpec == GraphInit /\ [][GraphNext]_<<vars, superVars>>
=============================================================================
