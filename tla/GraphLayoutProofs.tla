-------------------------- MODULE GraphLayoutProofs --------------------------
(***************************************************************************)
(* Theorems about the layout, for any graph, any keys, sizes and margins    *)
(* and any order of its edges: rows follow the edges, the blocks of a row   *)
(* stay apart, routes keep clear of the blocks and of each other, and the   *)
(* blocks that are drawn in the end do not overlap.  And about the graph    *)
(* that is laid out: merging blocks shows the function as it is.            *)
(***************************************************************************)
EXTENDS GraphLayout, SuperGraph, SequenceTheorems, FiniteSetTheorems, WellFoundedInduction, TLAPS

Phases == {"rows", "up", "down", "route", "done"}

LayoutTypeOK ==
  /\ graph.edges \in Graphs /\ phase \in Phases /\ todo \subseteq Nodes
  /\ rows \in [Nodes -> Nat] /\ cols \in [Nodes -> Int] /\ maxCol \in Nat
  /\ row \in Int /\ next \in [min : Int, max : Int]

(* The nodes that were visited come before the others in the order, and have
   pushed their successors down. *)
RowsSoFar ==
  phase = "rows" =>
    /\ \A u \in Nodes \ todo, t \in todo : u < t
    /\ \A u \in Nodes \ todo : \A v \in Successors(u) : rows[u] < rows[v]
    /\ \A n \in Nodes : cols[n] = None

(* The pass up has placed the lower rows, and of the row it is in what is to
   the left of next. *)
UpSoFar ==
  phase = "up" =>
    /\ \A n \in Nodes : cols[n] = None <=> n \in todo
    /\ row = None => todo = Nodes
    /\ row # None =>
         /\ 1 <= next.min /\ next.min <= next.max
         /\ \A t \in todo : rows[t] <= row
         /\ \A p \in Nodes \ todo : rows[p] >= row /\ (rows[p] = row => cols[p] + 2 <= next.min)

(* Later every node has a column. *)
AllPlaced ==
  phase \in {"down", "route", "done"} =>
    /\ \A n \in Nodes : cols[n] # None
    /\ next.min = None \/ 1 <= next.min

LayoutInv == LayoutTypeOK /\ RowsSoFar /\ UpSoFar /\ AllPlaced /\ Layered
-----------------------------------------------------------------------------
LEMMA AcyclicEdges ==
  ASSUME LayoutTypeOK
  PROVE  /\ \A e \in Acyclic : e[1] \in Nodes /\ e[2] \in Successors(e[1]) /\ e[1] < e[2]
         /\ \A m \in Nodes : \A n \in Successors(m) :
              n \in Nodes /\ m < n /\ \E e \in Acyclic : e[1] = m /\ e[2] = n
<1>1. \A e \in Acyclic : e \in Nodes \X Nodes /\ e[1] < e[2]
  BY LayoutAssumption DEF LayoutTypeOK, Acyclic
<1>2. \A e \in Nodes \X Nodes : e = <<e[1], e[2]>> /\ e[1] \in Nodes /\ e[2] \in Nodes
  OBVIOUS
<1>3. ASSUME NEW m \in Nodes, NEW n \in Successors(m)
      PROVE  n \in Nodes /\ m < n /\ \E e \in Acyclic : e[1] = m /\ e[2] = n
  <2>1. n \in Nodes /\ <<m, n>> \in Acyclic
    BY <1>3 DEF Successors
  <2> QED BY <2>1, <1>1
<1> QED BY <1>1, <1>2, <1>3 DEF Successors

(* What the loop over columns ends with is not left of any of them. *)
LEMMA GrownIsBound ==
  ASSUME NEW columns \in SUBSET Int, NEW max \in Int, NEW x \in Grown(columns, max)
  PROVE  x \in Int /\ \A c \in columns : c <= x
<1>1. PICK hi \in columns :
        /\ \A c \in columns : c <= hi
        /\ x \in IF max >= hi THEN {max}
                 ELSE {hi + 1} \cup {h \in {hi} : hi - 1 \in columns /\ max < hi - 1}
  BY DEF Grown
<1>2. x \in {max, hi + 1, hi} /\ (x = max => max >= hi)
  BY <1>1
<1> QED BY <1>1, <1>2

(* The span of a node begins at its row's next column or to the right of it. *)
LEMMA UpSpanBounds ==
  ASSUME LayoutInv, phase = "up", NEW n \in Nodes, First(n, UpBefore(n)), NEW s \in UpSpans(n)
  PROVE  /\ s.min \in Int /\ s.max \in Int /\ s.min <= s.max
         /\ 1 <= UpStart(n).min /\ UpStart(n).min <= s.min
         /\ UpStart(n).min \in Int
         /\ rows[n] = row => UpStart(n) = next
<1>1. n \in todo /\ rows[n] \in Nat /\ rows[n] # None
  BY DEF LayoutInv, LayoutTypeOK, First, None
<1>2. /\ UpStart(n).min \in Int /\ UpStart(n).max \in Int
      /\ 1 <= UpStart(n).min /\ UpStart(n).min <= UpStart(n).max
      /\ rows[n] = row => UpStart(n) = next
  BY <1>1 DEF LayoutInv, LayoutTypeOK, UpSoFar, UpStart
<1> DEFINE below == {cols[m] : m \in Successors(n)}
<1>3. below \subseteq Int
  BY DEF LayoutInv, LayoutTypeOK, Successors
<1>4. CASE below = {}
  BY <1>2, <1>4 DEF UpSpans
<1>5. CASE below # {}
  <2>1. PICK e \in Ends(below, None) :
          s = [min |-> Larger(e[1], UpStart(n).min),
               max |-> IF e[2] < UpStart(n).min THEN UpStart(n).min + 1 ELSE e[2]]
    BY <1>5 DEF UpSpans
  <2>2. e[1] \in below /\ e[1] \in Int /\ e[2] \in Grown(below, None)
    BY <1>3 DEF Ends, Leftmost
  <2>3. e[2] \in Int /\ e[1] <= e[2]
    BY <1>3, <2>2, GrownIsBound DEF None
  <2> QED BY <1>2, <2>1, <2>2, <2>3 DEF Larger
<1> QED BY <1>4, <1>5

(* A column that DetectOverlap gives is free of the others. *)
LEMMA DetectOverlapIsFree ==
  ASSUME NEW ideal \in Int, NEW min \in Int, NEW columns \in SUBSET Int,
         NEW col \in DetectOverlap(ideal, min, columns)
  PROVE  col \in Int /\ FreeOf(col, columns) /\ (col = ideal \/ col >= min)
<1>1. CASE FreeOf(ideal, columns)
  BY <1>1 DEF DetectOverlap
<1>2. CASE ~FreeOf(ideal, columns)
  <2>1. col \in Suggestions(min, columns)
    BY <1>2 DEF DetectOverlap, Leftmost
  <2> QED BY <2>1 DEF Suggestions
<1> QED BY <1>1, <1>2
-----------------------------------------------------------------------------
LEMMA LayoutInitInv == LayoutInit => LayoutInv
<1> SUFFICES ASSUME LayoutInit PROVE LayoutInv
  OBVIOUS
<1>1. graph.edges \in Graphs
  BY DEF LayoutInit
<1> QED BY <1>1 DEF LayoutInit, LayoutInv, LayoutTypeOK, Phases, RowsSoFar, UpSoFar, AllPlaced,
           Layered, EdgesGoDown, BlocksApart, MarginsFree, None

LEMMA NextLoopPreserves ==
  ASSUME LayoutInv, NextLoop
  PROVE  LayoutInv'
<1>1. CASE phase = "rows"
  <2>1. phase' = "up" /\ todo = {} /\ todo' = Nodes /\ row' = None
        /\ UNCHANGED <<graph, rows, cols, maxCol>> /\ next' = [min |-> None, max |-> None]
    BY <1>1 DEF NextLoop, input
  <2>2. LayoutTypeOK' /\ RowsSoFar' /\ AllPlaced'
    BY <2>1 DEF LayoutInv, LayoutTypeOK, Phases, RowsSoFar, AllPlaced, None
  <2>3. UpSoFar'
    BY <1>1, <2>1 DEF LayoutInv, RowsSoFar, UpSoFar
  <2>4. EdgesGoDown'
    <3>1. \A e \in Acyclic : rows[e[1]] < rows[e[2]]
      BY <1>1, <2>1, AcyclicEdges DEF LayoutInv, RowsSoFar
    <3> QED BY <2>1, <3>1 DEF EdgesGoDown, Acyclic
  <2>5. BlocksApart' /\ MarginsFree'
    BY <2>1 DEF LayoutInv, Layered, BlocksApart, MarginsFree
  <2> QED BY <2>2, <2>3, <2>4, <2>5 DEF LayoutInv, Layered
<1>2. CASE phase \in {"up", "down"}
  <2>1. /\ phase' \in {"down", "route"} /\ todo = {} /\ todo' \subseteq Nodes /\ row' = None
        /\ UNCHANGED <<graph, rows, cols, maxCol>> /\ next' = [min |-> None, max |-> None]
    BY <1>2 DEF NextLoop, input
  <2>2. LayoutTypeOK' /\ RowsSoFar' /\ UpSoFar'
    BY <2>1 DEF LayoutInv, LayoutTypeOK, Phases, RowsSoFar, UpSoFar, None
  <2>3. AllPlaced'
    BY <1>2, <2>1 DEF LayoutInv, UpSoFar, AllPlaced
  <2>4. Layered'
    BY <1>2, <2>1 DEF LayoutInv, Layered, EdgesGoDown, BlocksApart, MarginsFree, Acyclic
  <2> QED BY <2>2, <2>3, <2>4 DEF LayoutInv
<1> QED BY <1>1, <1>2 DEF NextLoop
LEMMA AssignRowPreserves ==
  ASSUME LayoutInv, NEW n \in Nodes, AssignRow(n)
  PROVE  LayoutInv'
<1>1. /\ phase = "rows" /\ phase' = "rows" /\ n \in todo /\ todo' = todo \ {n}
      /\ \A t \in todo : ~(t < n)
      /\ rows' = [m \in Nodes |-> IF m \in Successors(n) THEN Larger(rows[m], rows[n] + 1)
                                  ELSE rows[m]]
      /\ UNCHANGED <<graph, cols, maxCol, row, next>>
  BY DEF AssignRow, First, RowsBefore, input, LayoutInv, LayoutTypeOK
<1>2. /\ Nodes \subseteq Nat /\ rows \in [Nodes -> Nat] /\ todo \subseteq Nodes
      /\ \A u \in Nodes \ todo, t \in todo : u < t
      /\ \A u \in Nodes \ todo : \A v \in Successors(u) : rows[u] < rows[v]
      /\ \A m \in Nodes : cols[m] = None
  BY <1>1, LayoutAssumption DEF LayoutInv, LayoutTypeOK, RowsSoFar
<1>3. \A u \in Nodes : Successors(u)' = Successors(u)
  BY <1>1 DEF Successors, Acyclic
<1>4. \A m \in Nodes : /\ rows'[m] \in Nat /\ rows'[m] >= rows[m]
                       /\ m \in Successors(n) => rows'[m] >= rows[n] + 1
                       /\ m \notin Successors(n) => rows'[m] = rows[m]
  BY <1>1, <1>2 DEF Larger
<1>5. \A u \in Nodes : \A v \in Successors(u) : v \in Nodes /\ u < v
  BY AcyclicEdges DEF LayoutInv
<1>6. \A u \in Nodes \ todo' : \A t \in todo' : u < t
  BY <1>1, <1>2
<1>7. ASSUME NEW u \in Nodes \ todo', NEW v \in Successors(u)
      PROVE  rows'[u] < rows'[v]
  <2>1. u = n \/ (u < n /\ u \in Nodes \ todo)
    BY <1>1, <1>2
  <2>2. u \notin Successors(n)
    BY <2>1, <1>2, <1>5
  <2>3. v \in Nodes /\ rows'[u] = rows[u]
    BY <1>4, <1>5, <2>2
  <2> QED BY <1>2, <1>4, <2>1, <2>3
<1>8. LayoutTypeOK'
  BY <1>1, <1>4 DEF LayoutInv, LayoutTypeOK, Phases
<1>9. RowsSoFar' /\ UpSoFar' /\ AllPlaced'
  BY <1>1, <1>2, <1>3, <1>6, <1>7 DEF RowsSoFar, UpSoFar, AllPlaced, None
<1>10. Layered'
  BY <1>1, <1>2 DEF Layered, EdgesGoDown, BlocksApart, MarginsFree, None
<1> QED BY <1>8, <1>9, <1>10 DEF LayoutInv

LEMMA PlaceUpPreserves ==
  ASSUME LayoutInv, NEW n \in Nodes, PlaceUp(n)
  PROVE  LayoutInv'
<1>1. PICK s \in UpSpans(n) : PutAt(n, (s.min + s.max) \div 2, AfterSpan(s))
  BY DEF PlaceUp
<1> DEFINE col == (s.min + s.max) \div 2
<1>2. /\ phase = "up" /\ phase' = "up" /\ n \in todo /\ todo' = todo \ {n}
      /\ First(n, UpBefore(n)) /\ \A t \in todo : t \notin UpBefore(n)
      /\ row' = rows[n] /\ UNCHANGED <<graph, rows>>
      /\ cols' = [cols EXCEPT ![n] = col] /\ maxCol' = Larger(maxCol, col)
      /\ next' = AfterSpan(s)
  BY <1>1 DEF PlaceUp, PutAt, First, input
<1>3. /\ rows \in [Nodes -> Nat] /\ cols \in [Nodes -> Int] /\ todo \subseteq Nodes
      /\ maxCol \in Nat /\ row \in Int
      /\ \A m \in Nodes : cols[m] = None <=> m \in todo
      /\ row = None => todo = Nodes
      /\ row # None =>
           /\ \A t \in todo : rows[t] <= row
           /\ \A p \in Nodes \ todo : rows[p] >= row /\ (rows[p] = row => cols[p] + 2 <= next.min)
  BY <1>2 DEF LayoutInv, LayoutTypeOK, UpSoFar
<1>4. /\ s.min \in Int /\ s.max \in Int /\ s.min <= s.max /\ 1 <= s.min
      /\ rows[n] = row => next.min \in Int /\ next.min <= s.min
  BY <1>2, UpSpanBounds
<1>5. col \in Int /\ s.min <= col /\ 1 <= col
  BY <1>4
<1>6. /\ next'.min \in Int /\ next'.max = next'.min + 1 /\ col + 2 <= next'.min
      /\ next' \in [min : Int, max : Int]
  BY <1>2, <1>4 DEF AfterSpan
<1>7. ASSUME NEW t \in todo PROVE rows[t] <= rows[n]
  <2>1. ~(rows[t] > rows[n])
    BY <1>2, <1>3 DEF UpBefore
  <2> QED BY <1>3, <2>1
<1> HIDE DEF col
<1>8. \A m \in Nodes : cols'[m] = IF m = n THEN col ELSE cols[m]
  BY <1>2, <1>3
<1>9. \A p \in Nodes \ todo : rows[p] >= rows[n] /\ (rows[p] = rows[n] => cols[p] + 2 <= s.min)
  BY <1>2, <1>3, <1>4
<1>10. LayoutTypeOK'
  BY <1>2, <1>3, <1>5, <1>6 DEF LayoutInv, LayoutTypeOK, Larger
<1>11. UpSoFar'
  <2>1. \A m \in Nodes : cols'[m] = None <=> m \in todo'
    BY <1>2, <1>3, <1>5, <1>8 DEF None
  <2>2. row' # None /\ \A t \in todo' : rows'[t] <= row'
    BY <1>2, <1>3, <1>7 DEF None
  <2>3. ASSUME NEW p \in Nodes \ todo'
        PROVE  rows'[p] >= row' /\ (rows'[p] = row' => cols'[p] + 2 <= next'.min)
    <3>1. CASE p = n
      BY <1>2, <1>3, <1>6, <1>8, <3>1
    <3>2. CASE p # n
      BY <1>2, <1>3, <1>4, <1>5, <1>6, <1>8, <1>9, <3>2
    <3> QED BY <3>1, <3>2
  <2>4. 1 <= next'.min /\ next'.min <= next'.max
    BY <1>5, <1>6
  <2> QED BY <2>1, <2>2, <2>3, <2>4 DEF UpSoFar
<1>12. BlocksApart'
  <2>1. ASSUME NEW p \in Nodes, p # n, rows[p] = rows[n], cols[p] # None
        PROVE  cols[p] + 1 < col
    BY <1>3, <1>4, <1>5, <1>9, <2>1
  <2>2. BlocksApart
    BY DEF LayoutInv, Layered
  <2> QED BY <1>2, <1>3, <1>8, <2>1, <2>2 DEF BlocksApart
<1>13. EdgesGoDown' /\ MarginsFree'
  BY <1>2, <1>3, <1>5, <1>8 DEF LayoutInv, Layered, EdgesGoDown, MarginsFree, Acyclic, Larger
<1> QED BY <1>2, <1>10, <1>11, <1>12, <1>13 DEF LayoutInv, Layered, RowsSoFar, AllPlaced

LEMMA StayDownPreserves ==
  ASSUME LayoutInv, NEW n \in Nodes, StayDown(n)
  PROVE  LayoutInv'
<1>1. /\ phase = "down" /\ phase' = "down" /\ todo' = todo \ {n} /\ row' = rows[n]
      /\ next' = [min |-> Larger(Larger(DownStart(n).min, 0), cols[n] + 2),
                  max |-> Larger(Larger(DownStart(n).max, 0), cols[n] + 3)]
      /\ UNCHANGED <<graph, rows, cols, maxCol>>
  BY DEF StayDown, input
<1>2. DownStart(n).min \in Int /\ DownStart(n).max \in Int
  BY DEF LayoutInv, LayoutTypeOK, DownStart, None
<1>3. rows[n] \in Nat /\ cols[n] \in Int /\ cols[n] >= 1
  BY <1>1 DEF LayoutInv, LayoutTypeOK, AllPlaced, Layered, MarginsFree
<1>4. next' \in [min : Int, max : Int] /\ 1 <= next'.min
  BY <1>1, <1>2, <1>3 DEF Larger
<1>5. LayoutTypeOK' /\ RowsSoFar' /\ UpSoFar' /\ AllPlaced'
  BY <1>1, <1>3, <1>4 DEF LayoutInv, LayoutTypeOK, RowsSoFar, UpSoFar, AllPlaced
<1>6. Layered'
  BY <1>1 DEF LayoutInv, Layered, EdgesGoDown, BlocksApart, MarginsFree, Acyclic
<1> QED BY <1>5, <1>6 DEF LayoutInv

LEMMA PlaceDownPreserves ==
  ASSUME LayoutInv, NEW n \in Nodes, PlaceDown(n)
  PROVE  LayoutInv'
<1>0. PICK s \in DownSpans(n) :
        \E col \in DetectOverlap((s.min + s.max) \div 2, s.min, Others(n)) :
          PutAt(n, col, [min |-> s.max + 1, max |-> s.max + 2])
  BY DEF PlaceDown
<1>1. PICK col \in DetectOverlap((s.min + s.max) \div 2, s.min, Others(n)) :
        PutAt(n, col, [min |-> s.max + 1, max |-> s.max + 2])
  BY <1>0
<1>2. /\ phase = "down" /\ phase' = "down" /\ todo' = todo \ {n} /\ row' = rows[n]
      /\ UNCHANGED <<graph, rows>>
      /\ cols' = [cols EXCEPT ![n] = col] /\ maxCol' = Larger(maxCol, col)
      /\ next' = [min |-> s.max + 1, max |-> s.max + 2]
  BY <1>1 DEF PlaceDown, PutAt, input
<1>3. /\ rows \in [Nodes -> Nat] /\ cols \in [Nodes -> Int] /\ todo \subseteq Nodes /\ maxCol \in Nat
      /\ \A m \in Nodes : cols[m] # None /\ 1 <= cols[m] /\ cols[m] <= maxCol
      /\ next.min \in Int /\ next.max \in Int /\ (next.min = None \/ 1 <= next.min)
  BY <1>2 DEF LayoutInv, LayoutTypeOK, AllPlaced, Layered, MarginsFree
<1>4. /\ DownStart(n).min \in Int /\ DownStart(n).max \in Int
      /\ DownStart(n).min = None \/ 1 <= DownStart(n).min
  BY <1>3 DEF DownStart, None
<1>5. s.min \in Int /\ s.max \in Int /\ 1 <= s.min /\ 1 <= s.max
  <2> DEFINE above == {cols[p] : p \in Predecessors(n)}
  <2>1. \A c \in above : c \in Int /\ 1 <= c
    BY <1>3 DEF Predecessors
  <2>2. PICK e \in Ends(above, DownStart(n).max) :
          s = [min |-> IF DownStart(n).min = None THEN e[1] ELSE Smaller(e[1], DownStart(n).min),
               max |-> e[2]]
    BY DEF DownSpans
  <2>3. e[1] \in above /\ e[2] \in Grown(above, DownStart(n).max)
    BY DEF Ends, Leftmost
  <2>4. e[2] \in Int /\ e[1] <= e[2]
    BY <1>4, <2>1, <2>3, GrownIsBound
  <2>5. e[1] \in Int /\ 1 <= e[1] /\ e[2] \in Int /\ 1 <= e[2]
    BY <2>1, <2>3, <2>4
  <2> QED BY <1>4, <2>2, <2>5 DEF Smaller
<1>6. Others(n) \subseteq Int
  BY <1>3 DEF Others
<1>7. (s.min + s.max) \div 2 \in Int /\ 1 <= (s.min + s.max) \div 2
  BY <1>5
<1>8. col \in Int /\ FreeOf(col, Others(n)) /\ 1 <= col
  BY <1>5, <1>6, <1>7, DetectOverlapIsFree
<1>9. \A m \in Nodes : cols'[m] = IF m = n THEN col ELSE cols[m]
  BY <1>2, <1>3
<1>10. LayoutTypeOK'
  BY <1>2, <1>3, <1>5, <1>8 DEF LayoutInv, LayoutTypeOK, Larger
<1>11. RowsSoFar' /\ UpSoFar' /\ AllPlaced'
  BY <1>2, <1>3, <1>5, <1>8, <1>9 DEF RowsSoFar, UpSoFar, AllPlaced, None
<1>12. BlocksApart'
  <2>1. ASSUME NEW p \in Nodes, p # n, rows[p] = rows[n]
        PROVE  col + 1 < cols[p] \/ cols[p] + 1 < col
    <3>1. cols[p] \in Others(n) /\ cols[p] \in Int
      BY <1>3, <2>1 DEF Others
    <3> QED BY <1>8, <3>1 DEF FreeOf
  <2>2. BlocksApart
    BY DEF LayoutInv, Layered
  <2> QED BY <1>2, <1>3, <1>9, <2>1, <2>2 DEF BlocksApart
<1>13. EdgesGoDown' /\ MarginsFree'
  BY <1>2, <1>3, <1>8, <1>9 DEF LayoutInv, Layered, EdgesGoDown, MarginsFree, Acyclic, Larger
<1> QED BY <1>10, <1>11, <1>12, <1>13 DEF LayoutInv, Layered

(* The routes do not move the blocks. *)
LEMMA RoutingPreserves ==
  ASSUME LayoutInv, \/ \E e \in graph.edges : RouteEdge(e)
                    \/ LayoutDone
                    \/ UNCHANGED vars
  PROVE  LayoutInv'
<1>1. /\ phase' = phase \/ (phase = "route" /\ phase' = "done")
      /\ UNCHANGED <<graph, todo, rows, cols, maxCol, row, next>>
  BY DEF RouteEdge, LayoutDone, vars, input, grid
<1> QED BY <1>1 DEF LayoutInv, LayoutTypeOK, Phases, RowsSoFar, UpSoFar, AllPlaced, Layered,
           EdgesGoDown, BlocksApart, MarginsFree, Acyclic, Successors
-----------------------------------------------------------------------------
LEMMA LayoutStep == LayoutInv /\ [LayoutNext]_vars => LayoutInv'
<1> SUFFICES ASSUME LayoutInv, [LayoutNext]_vars PROVE LayoutInv'
  OBVIOUS
<1>1. CASE NextLoop
  BY <1>1, NextLoopPreserves
<1>2. CASE \E n \in Nodes : AssignRow(n) \/ PlaceUp(n) \/ StayDown(n) \/ PlaceDown(n)
  BY <1>2, AssignRowPreserves, PlaceUpPreserves, StayDownPreserves, PlaceDownPreserves
<1>3. CASE (\E e \in graph.edges : RouteEdge(e)) \/ LayoutDone \/ UNCHANGED vars
  BY <1>3, RoutingPreserves
<1> QED BY <1>1, <1>2, <1>3 DEF LayoutNext, Idle

LEMMA LayoutInvariant == LayoutSpec => []LayoutInv
  BY LayoutInitInv, LayoutStep, PTL DEF LayoutSpec

(* In every layout edges that go forward lead to lower rows, the blocks of a
   row never overlap, and the outer columns stay free for the routes
   (_assign_rows, _assign_columns, _detect_overlap). *)
THEOREM LayoutIsLayered == LayoutSpec => []Layered
<1>1. LayoutInv => Layered
  BY DEF LayoutInv
<1> QED BY LayoutInvariant, <1>1, PTL

(* The search of _route_edge ends inside the grid: the outermost columns hold
   no block in any row, so a route never wraps around to a negative index. *)
LEMMA OuterColumnsClear ==
  ASSUME LayoutInv, phase \in {"route", "done"}, NEW r \in Int
  PROVE  Clear(0, r) /\ Clear(LastCol, r)
<1>1. \A n \in Nodes : cols[n] \in Int /\ 1 <= cols[n] /\ cols[n] <= maxCol /\ maxCol \in Nat
  BY DEF LayoutInv, LayoutTypeOK, AllPlaced, Layered, MarginsFree
<1> QED BY <1>1 DEF Clear, Columns, LastCol
-----------------------------------------------------------------------------
LEMMA LeastIs ==
  ASSUME NEW S, S \subseteq Nat, S # {}
  PROVE  Min(S) \in S /\ \A x \in S : Min(S) <= x
<1>1. PICK R : R = {ss \in Nat \X Nat : ss[1] < ss[2]}
  OBVIOUS
<1>2. IsWellFoundedOn(R, Nat)
  BY <1>1, NatLessThanWellFounded, Zenon DEF OpToRel
<1>3. PICK x \in S : \A y \in S : <<y, x>> \notin R
  BY <1>2, WFMin
<1>4. ASSUME NEW y \in S PROVE x <= y
  <2>1. x \in Nat /\ y \in Nat /\ <<y, x>> \in Nat \X Nat
    OBVIOUS
  <2>2. ~(y < x)
    BY <1>1, <1>3, <2>1
  <2> QED
    BY <2>1, <2>2
<1> QED
  BY <1>3, <1>4 DEF Min

\* A set of naturals with a bound, and the greatest of it.
Bounded(S) == S \subseteq Nat /\ \E b \in Nat : \A x \in S : x <= b

LEMMA GreatestIs ==
  ASSUME NEW S, Bounded(S), S # {}
  PROVE  Max(S) \in S /\ Max(S) \in Nat /\ \A x \in S : x <= Max(S)
<1>1. PICK B : B = {b \in Nat : \A x \in S : x <= b}
  OBVIOUS
<1>2. B \subseteq Nat /\ B # {}
  BY <1>1 DEF Bounded
<1>3. PICK m \in B : \A b \in B : m <= b
  BY <1>2, LeastIs
<1>4. m \in Nat /\ \A x \in S : x \in Nat /\ x <= m
  BY <1>1 DEF Bounded
<1>5. m \in S
  <2> SUFFICES ASSUME m \notin S PROVE FALSE
    OBVIOUS
  <2>1. \A x \in S : x <= m - 1
    BY <1>4
  <2>2. m - 1 \in Nat
    BY <1>4, <2>1
  <2>3. m - 1 \in B
    BY <1>1, <2>1, <2>2
  <2> QED
    BY <1>3, <1>4, <2>3
<1> QED
  BY <1>4, <1>5 DEF Max

LEMMA LargestIs ==
  ASSUME NEW S, Bounded(S)
  PROVE  Largest(S) \in Nat /\ (\A x \in S : x <= Largest(S)) /\ (S # {} => Largest(S) \in S)
  BY GreatestIs DEF Largest

\* What holds of a subset once it does of all smaller ones holds of all subsets.
LEMMA SubsetInduction ==
  ASSUME NEW S, IsFiniteSet(S), NEW Good,
         \A s \in SUBSET S : (\A t \in SUBSET s : t # s => t \in Good) => s \in Good
  PROVE  \A s \in SUBSET S : s \in Good
<1>1. IsWellFoundedOn(StrictSubsetOrdering(S), SUBSET S)
  BY FS_StrictSubsetOrderingWellFounded, FS_FiniteSubsetsOfFinite
<1>2. SUFFICES ASSUME NEW s \in SUBSET S, s \notin Good PROVE FALSE
  OBVIOUS
<1>3. PICK B : B = {t \in SUBSET S : t \notin Good}
  OBVIOUS
<1>4. B \subseteq SUBSET S /\ B # {}
  BY <1>2, <1>3
<1>5. PICK x \in B : \A t \in B : <<t, x>> \notin StrictSubsetOrdering(S)
  BY <1>1, <1>4, WFMin
<1>6. ASSUME NEW t \in SUBSET x, t # x PROVE t \in Good
  <2>1. <<t, x>> \in StrictSubsetOrdering(S)
    BY <1>4, <1>6 DEF StrictSubsetOrdering
  <2> QED
    BY <1>3, <1>4, <1>5, <2>1
<1> QED
  BY <1>3, <1>6

LEMMA FiniteBounded ==
  ASSUME NEW S, S \subseteq Nat, IsFiniteSet(S)
  PROVE  Bounded(S)
<1>1. PICK Good : Good = {s \in SUBSET S : Bounded(s)}
  OBVIOUS
<1>2. ASSUME NEW s \in SUBSET S, \A t \in SUBSET s : t # s => t \in Good
      PROVE  Bounded(s)
  <2>1. CASE s = {}
    BY <2>1 DEF Bounded
  <2>2. CASE s # {}
    <3>1. PICK x \in s : TRUE
      BY <2>2
    <3>2. Bounded(s \ {x})
      <4>1. s \ {x} \in SUBSET s /\ s \ {x} # s
        OBVIOUS
      <4> QED
        BY <1>1, <1>2, <4>1
    <3>3. PICK b \in Nat : \A y \in s \ {x} : y <= b
      BY <3>2 DEF Bounded
    <3>4. x \in Nat /\ \A y \in s : y \in Nat /\ (y = x \/ y <= b)
      BY <3>3
    <3>5. PICK c \in Nat : c = b + x
      BY <3>4
    <3>6. s \subseteq Nat /\ \A y \in s : y <= c
      BY <3>4, <3>5
    <3> QED
      BY <3>5, <3>6 DEF Bounded
  <2> QED
    BY <2>1, <2>2
<1>3. \A s \in SUBSET S : (\A t \in SUBSET s : t # s => t \in Good) => s \in Good
  BY <1>1, <1>2
<1>4. \A s \in SUBSET S : s \in Good
  BY <1>3, SubsetInduction
<1> QED
  BY <1>1, <1>4

\* The values of a function on finitely many nodes have a bound.
LEMMA ImageBounded ==
  ASSUME NEW T \in SUBSET Nodes, NEW f \in [T -> Nat], NEW S, S = {f[n] : n \in T}
  PROVE  Bounded(S)
<1>1. IsFiniteSet(T)
  BY LayoutAssumption, FS_Subset
<1>2. f \in Surjection(T, S)
  BY DEF Surjection
<1>3. IsFiniteSet(S) /\ S \subseteq Nat
  BY <1>1, <1>2, FS_Surjection
<1> QED
  BY <1>3, FiniteBounded DEF Bounded
-----------------------------------------------------------------------------
(***************************************************************************)
(* The routes.  An edge takes in each cell a lane that no other has there, *)
(* and its search for a column ends at one of the grid.                    *)
(***************************************************************************)
LEMMA FirstUnusedIs ==
  ASSUME NEW used, Bounded(used)
  PROVE  FirstUnused(used) \in Nat /\ FirstUnused(used) \notin used
<1>1. CASE used = {}
  BY <1>1 DEF FirstUnused
<1>2. CASE used # {}
  <2>1. PICK S : S = {i + 1 : i \in used} \ used
    OBVIOUS
  <2>2. S \subseteq Nat
    BY <2>1 DEF Bounded
  <2>3. PICK m \in used : m \in Nat /\ \A x \in used : x <= m
    BY <1>2, GreatestIs
  <2>4. m + 1 \in S
    BY <2>1, <2>3
  <2>5. Min(S) \in S
    BY <2>2, <2>4, LeastIs
  <2> QED
    BY <1>2, <2>1, <2>2, <2>5 DEF FirstUnused
<1> QED
  BY <1>1, <1>2

\* The lanes of a table, in a grid of some columns and rows.
Table(taken, columns, height) ==
  /\ taken \subseteq (0 .. columns) \X (0 .. height) \X Nat
  /\ Bounded({t[3] : t \in taken})

LEMMA AvailableIs ==
  ASSUME NEW columns \in Nat, NEW height \in Nat, NEW taken, Table(taken, columns, height),
         NEW cells
  PROVE  /\ AvailableIndex(cells, taken) \in Nat
         /\ \A x, y : <<x, y>> \in cells => <<x, y, AvailableIndex(cells, taken)>> \notin taken
<1>1. PICK used : used = {t[3] : t \in {t \in taken : <<t[1], t[2]>> \in cells}}
  OBVIOUS
<1>2. Bounded(used)
  BY <1>1 DEF Table, Bounded
<1>3. PICK i \in Nat : i = AvailableIndex(cells, taken) /\ i \notin used
  BY <1>1, <1>2, FirstUnusedIs DEF AvailableIndex
<1>4. ASSUME NEW x, NEW y, <<x, y>> \in cells, <<x, y, i>> \in taken PROVE FALSE
  <2>1. PICK t \in taken : t = <<x, y, i>>
    BY <1>4
  <2>2. t[1] = x /\ t[2] = y /\ t[3] = i
    BY <2>1
  <2> QED
    BY <1>1, <1>3, <1>4, <2>2
<1> QED
  BY <1>3, <1>4

LEMMA AssignedIs ==
  ASSUME NEW columns \in Nat, NEW height \in Nat, NEW taken, Table(taken, columns, height),
         NEW cells \in SUBSET ((0 .. columns) \X (0 .. height)), NEW lane \in Nat
  PROVE  /\ Table(taken \cup Assign(cells, lane), columns, height)
         /\ \A x, y : <<x, y>> \in cells => <<x, y, lane>> \in Assign(cells, lane)
<1>1. PICK new : new = Assign(cells, lane)
  OBVIOUS
<1>2. new \subseteq (0 .. columns) \X (0 .. height) \X Nat /\ \A t \in new : t[3] = lane
  BY <1>1 DEF Assign
<1>3. PICK b \in Nat : \A t \in taken : t[3] <= b
  BY DEF Table, Bounded
<1>4. PICK c \in Nat : c = b + lane
  OBVIOUS
<1>5. ASSUME NEW t \in taken \cup new PROVE t[3] \in Nat /\ t[3] <= c
  <2>1. CASE t \in taken
    <3>1. t[3] \in Nat
      BY <2>1 DEF Table
    <3> QED
      BY <1>3, <1>4, <2>1, <3>1
  <2>2. CASE t \in new
    BY <1>2, <1>4, <2>2
  <2> QED
    BY <2>1, <2>2
<1>6. Bounded({t[3] : t \in taken \cup new})
  BY <1>5 DEF Bounded
<1>7. ASSUME NEW x, NEW y, <<x, y>> \in cells PROVE <<x, y, lane>> \in new
  BY <1>1, <1>7 DEF Assign
<1> QED
  BY <1>1, <1>2, <1>6, <1>7 DEF Table

LEMMA GridIs ==
  ASSUME LayoutInv, phase \in {"route", "done"}
  PROVE  /\ LastCol \in Nat /\ LastCol = maxCol + 2 /\ MaxRow \in Nat
         /\ \A n \in Nodes : /\ rows[n] \in 0 .. MaxRow /\ cols[n] \in Int
                             /\ 1 <= cols[n] /\ cols[n] + 1 < LastCol
<1>1. /\ rows \in [Nodes -> Nat] /\ maxCol \in Nat
      /\ \A n \in Nodes : cols[n] \in Int /\ 1 <= cols[n] /\ cols[n] <= maxCol
  BY DEF LayoutInv, LayoutTypeOK, AllPlaced, Layered, MarginsFree
<1>2. PICK S : S = {rows[n] : n \in Nodes}
  OBVIOUS
<1>3. Bounded(S)
  BY <1>1, <1>2, ImageBounded
<1>4. MaxRow \in Nat /\ \A r \in S : r <= MaxRow
  BY <1>2, <1>3, LargestIs DEF MaxRow
<1>5. \A n \in Nodes : rows[n] \in 0 .. MaxRow
  BY <1>1, <1>2, <1>4
<1> QED
  BY <1>1, <1>4, <1>5 DEF LastCol

\* How far a column is from another, twice, and one more to the left: the search of
\* _route_edge comes to columns in this order.
Distance(c, col) == IF c < col THEN 2 * (col - c) + 1 ELSE 2 * (c - col)

LEMMA NearerIs ==
  ASSUME NEW c \in Int, NEW d \in Int, NEW col \in Int
  PROVE  /\ Distance(c, col) <= Distance(d, col) => Nearer(c, d, col)
         /\ Nearer(c, d, col) => Distance(c, col) <= Distance(d, col)
  BY DEF Nearer, Distance

LEMMA RouteColumnIs ==
  ASSUME LayoutInv, phase \in {"route", "done"}, NEW col \in 0 .. LastCol,
         NEW first \in Int, NEW end \in Int, NEW c, c = RouteColumn(col, first, end)
  PROVE  c \in 0 .. LastCol /\ \A r \in first .. end - 1 : Clear(c, r)
<1>1. LastCol \in Nat
  BY GridIs
<1>2. PICK A : A = {d \in -LastCol .. LastCol : EdgeAvailable(d, first, end)}
  OBVIOUS
<1>3. 0 \in A
  BY <1>1, <1>2, OuterColumnsClear DEF EdgeAvailable
<1>4. PICK D : D = {Distance(d, col) : d \in A}
  OBVIOUS
<1>5. D \subseteq Nat /\ D # {}
  <2>1. \A d \in A : d \in Int /\ Distance(d, col) \in Nat
    BY <1>1, <1>2 DEF Distance
  <2> QED
    BY <1>3, <1>4, <2>1
<1>6. PICK b \in D : \A x \in D : b <= x
  BY <1>5, LeastIs
<1>7. PICK a \in A : b = Distance(a, col)
  BY <1>4
<1>8. \A d \in A : Nearer(a, d, col)
  <2>1. \A d \in A : d \in Int /\ Distance(a, col) <= Distance(d, col)
    BY <1>1, <1>2, <1>4, <1>6, <1>7
  <2> QED
    BY <2>1, NearerIs
<1>9. c = CHOOSE x \in A : \A d \in A : Nearer(x, d, col)
  BY <1>2 DEF RouteColumn
<1>10. c \in A /\ \A d \in A : Nearer(c, d, col)
  BY <1>8, <1>9
<1>11. c >= 0
  <2>1. c \in Int /\ Nearer(c, 0, col)
    BY <1>1, <1>2, <1>3, <1>10
  <2>2. Distance(c, col) <= Distance(0, col)
    BY <2>1, NearerIs
  <2> QED
    BY <1>1, <2>1, <2>2 DEF Distance
<1>12. c \in 0 .. LastCol /\ EdgeAvailable(c, first, end)
  BY <1>1, <1>2, <1>10, <1>11
<1> QED
  BY <1>1, <1>12 DEF EdgeAvailable

\* Cells of the grid, and what a run of an edge goes through.
LEMMA CorridorIs ==
  ASSUME NEW columns \in Nat, NEW height \in Nat, NEW a \in 0 .. columns, NEW b \in 0 .. columns,
         NEW r \in 0 .. height
  PROVE  /\ Corridor(a, b, r) \in SUBSET ((0 .. columns) \X (0 .. height))
         /\ \A x \in Between(a, b) : <<x, r>> \in Corridor(a, b, r)
<1>1. Smaller(a, b) \in 0 .. columns /\ Larger(a, b) \in 0 .. columns
  BY DEF Smaller, Larger
<1>2. \A x \in Between(a, b) : x \in 0 .. columns
  BY <1>1 DEF Between
<1> QED
  BY <1>2 DEF Corridor

\* A column is taken from the row below where its run begins.
LEMMA VerticalIs ==
  ASSUME NEW columns \in Nat, NEW height \in Nat, NEW col \in 0 .. columns,
         NEW start \in 1 .. height + 1, NEW end \in 0 .. height
  PROVE  /\ VerticalCells(col, start, end) \in SUBSET ((0 .. columns) \X (0 .. height + 2))
         /\ \A r \in Smaller(start, end) .. Larger(start, end) - 1 :
              <<col, r + 1>> \in VerticalCells(col, start, end)
<1>1. PICK lo \in Int, hi \in Int :
        /\ VerticalCells(col, start, end) = {col} \X (lo .. hi)
        /\ lo = Smaller(start + 1, end)
        /\ hi = Smaller(start + 1, end) + Larger(end - start, start - end) + 1
  BY DEF VerticalCells, Smaller, Larger
<1>2. CASE start < end
  <2>1. lo = start + 1 /\ hi = end + 2
    BY <1>1, <1>2 DEF Smaller, Larger
  <2> QED
    BY <1>1, <1>2, <2>1 DEF Smaller, Larger
<1>3. CASE start >= end
  <2>1. lo = end /\ hi = start + 1
    BY <1>1, <1>3 DEF Smaller, Larger
  <2> QED
    BY <1>1, <1>3, <2>1 DEF Smaller, Larger
<1> QED
  BY <1>2, <1>3
-----------------------------------------------------------------------------
\* The run of an edge from column c and row r to a point: a run down a column meets no
\* block, and the lane of a run is marked in its cells, or was not before.
Point == Int \X Int \X Nat
Down(r, p) == Smaller(r, p[2]) .. Larger(r, p[2]) - 1
Marked(c, r, p, m) ==
  /\ p[1] = c => \A x \in Down(r, p) : Clear(c, x) /\ <<c, x + 1, p[3]>> \in m.vertical
  /\ p[1] # c => \A x \in Between(c, p[1]) : <<x, p[2], p[3]>> \in m.horizontal
Fresh(c, r, p, l) ==
  /\ p[1] = c => \A x \in Down(r, p) : <<c, x + 1, p[3]>> \notin l.vertical
  /\ p[1] # c => \A x \in Between(c, p[1]) : <<x, p[2], p[3]>> \notin l.horizontal
Turns(c, r, p) == (p[1] = c) # (p[2] = r)

\* A route of an edge, up to its last turn and the whole of it.
Begins(q, e) == q \in Seq(Point) /\ Len(q) >= 1 /\ q[1][1] = cols[e[1]] + 1 /\ q[1][2] = rows[e[1]] + 1
RouteMarked(q, m) == \A i \in 2 .. Len(q) : Marked(q[i - 1][1], q[i - 1][2], q[i], m)
RouteFresh(q, l) == \A i \in 2 .. Len(q) : Fresh(q[i - 1][1], q[i - 1][2], q[i], l)
RouteTurns(q, n) == \A i \in 2 .. n : Turns(q[i - 1][1], q[i - 1][2], q[i])
StartsRight(q, e, l, m) == Begins(q, e) /\ RouteMarked(q, m) /\ RouteFresh(q, l) /\ RouteTurns(q, Len(q))
At(q, c, r) == q[Len(q)][1] = c /\ q[Len(q)][2] = r
Whole(q, e, m) ==
  /\ Begins(q, e) /\ RouteMarked(q, m) /\ RouteTurns(q, Len(q) - 1)
  /\ At(q, cols[e[2]] + 1, rows[e[2]])

LEMMA Extended ==
  ASSUME NEW q, NEW e, NEW l, NEW m, StartsRight(q, e, l, m), NEW c, NEW r, At(q, c, r),
         NEW p \in Point, Marked(c, r, p, m), Fresh(c, r, p, l),
         NEW z, z = q \o <<p>>
  PROVE  /\ Begins(z, e) /\ RouteMarked(z, m) /\ RouteFresh(z, l) /\ RouteTurns(z, Len(z) - 1)
         /\ At(z, p[1], p[2])
         /\ Turns(c, r, p) => StartsRight(z, e, l, m)
<1>1. PICK n \in Nat : n = Len(q) /\ n >= 1 /\ q \in Seq(Point)
  BY LenProperties DEF StartsRight, Begins
<1>2. <<p>> \in Seq(Point) /\ Len(<<p>>) = 1 /\ <<p>>[1] = p
  OBVIOUS
<1>3. z \in Seq(Point) /\ Len(z) = n + 1
  BY <1>1, <1>2, ConcatProperties
<1>4. \A i \in 1 .. n + 1 : z[i] = IF i <= n THEN q[i] ELSE <<p>>[i - n]
  BY <1>1, <1>2, ConcatProperties
<1>5. (\A i \in 1 .. n : z[i] = q[i]) /\ z[n + 1] = p
  BY <1>1, <1>2, <1>4
<1>6. ASSUME NEW i \in 2 .. n + 1
      PROVE  \/ i \in 2 .. n /\ z[i] = q[i] /\ z[i - 1] = q[i - 1]
             \/ i = n + 1 /\ z[i] = p /\ z[i - 1][1] = c /\ z[i - 1][2] = r
  BY <1>1, <1>5 DEF At
<1>7. Begins(z, e)
  BY <1>1, <1>3, <1>5 DEF StartsRight, Begins
<1>8. RouteMarked(z, m)
  BY <1>1, <1>3, <1>6 DEF StartsRight, RouteMarked
<1>9. RouteFresh(z, l)
  BY <1>1, <1>3, <1>6 DEF StartsRight, RouteFresh
<1>10. RouteTurns(z, Len(z) - 1)
  <2>1. ASSUME NEW i \in 2 .. n PROVE Turns(z[i - 1][1], z[i - 1][2], z[i])
    <3>0. i \in 1 .. n /\ i - 1 \in 1 .. n
      OBVIOUS
    <3>1. z[i] = q[i] /\ z[i - 1] = q[i - 1]
      BY <1>5, <3>0
    <3>2. RouteTurns(q, n)
      BY <1>1 DEF StartsRight
    <3>3. Turns(q[i - 1][1], q[i - 1][2], q[i])
      BY <3>2 DEF RouteTurns
    <3> QED
      BY <3>1, <3>3
  <2>2. Len(z) - 1 = n
    BY <1>1, <1>3
  <2> QED
    BY <2>1, <2>2 DEF RouteTurns
<1>11. ASSUME Turns(c, r, p) PROVE RouteTurns(z, Len(z))
  BY <1>1, <1>3, <1>6, <1>11 DEF StartsRight, RouteTurns
<1> QED
  BY <1>3, <1>5, <1>7, <1>8, <1>9, <1>10, <1>11 DEF StartsRight, At

\* A point that is there only in some cases.
LEMMA ExtendedWhen ==
  ASSUME NEW q, NEW e, NEW l, NEW m, StartsRight(q, e, l, m), NEW c, NEW r, At(q, c, r),
         NEW b \in BOOLEAN, NEW p \in Point,
         b => Marked(c, r, p, m) /\ Fresh(c, r, p, l) /\ Turns(c, r, p),
         ~b => p[1] = c /\ p[2] = r,
         NEW z, z = q \o (IF b THEN <<p>> ELSE <<>>)
  PROVE  StartsRight(z, e, l, m) /\ At(z, p[1], p[2])
<1>1. CASE b
  <2>1. z = q \o <<p>>
    BY <1>1
  <2> QED
    BY <1>1, <2>1, Extended
<1>2. CASE ~b
  <2>1. q \in Seq(Point)
    BY DEF StartsRight, Begins
  <2>2. z = q
    BY <1>2, <2>1, ConcatEmptySeq
  <2> QED
    BY <1>2, <2>2 DEF At
<1> QED
  BY <1>1, <1>2

\* What _assign_edge_to does with some cells: it marks a lane that was free.
LEMMA Assigned ==
  ASSUME NEW columns \in Nat, NEW height \in Nat, NEW t, Table(t, columns, height),
         NEW cells \in SUBSET ((0 .. columns) \X (0 .. height)), NEW lane, lane = AvailableIndex(cells, t),
         NEW u, u = t \cup Assign(cells, lane)
  PROVE  /\ lane \in Nat /\ Table(u, columns, height) /\ t \subseteq u
         /\ \A x, y : <<x, y>> \in cells => <<x, y, lane>> \in u \ t
<1>1. lane \in Nat /\ \A x, y : <<x, y>> \in cells => <<x, y, lane>> \notin t
  BY AvailableIs
<1>2. Table(u, columns, height) /\ \A x, y : <<x, y>> \in cells => <<x, y, lane>> \in Assign(cells, lane)
  BY <1>1, AssignedIs
<1> QED
  BY <1>1, <1>2

Tables(l) == Table(l.vertical, LastCol, MaxRow + 2) /\ Table(l.horizontal, LastCol, MaxRow + 1)
Grows(l, m) == l.vertical \subseteq m.vertical /\ l.horizontal \subseteq m.horizontal

LEMMA RouteOfIs ==
  ASSUME LayoutInv, phase = "route", NEW e \in graph.edges, NEW l, Tables(l), NEW u, u = RouteOf(e, l)
  PROVE  /\ Whole(u.points, e, u.lanes) /\ RouteFresh(u.points, l)
         /\ Tables(u.lanes) /\ Grows(l, u.lanes)
<1> DEFINE startCol == cols[e[1]] + 1
           startRow == rows[e[1]] + 1
           endCol == cols[e[2]] + 1
           endRow == rows[e[2]]
           col == RouteColumn(startCol, Smaller(startRow, endRow), Larger(startRow, endRow))
           exit == {<<startCol, startRow>>}
           i1 == AvailableIndex(exit, l.vertical)
           v1 == l.vertical \cup Assign(exit, i1)
           out == IF col = startCol THEN Corridor(col, col + 1, startRow)
                  ELSE Corridor(startCol, col, startRow)
           i2 == AvailableIndex(out, l.horizontal)
           h2 == l.horizontal \cup Assign(out, i2)
           down == IF startRow = endRow THEN {} ELSE VerticalCells(col, startRow, endRow)
           i3 == AvailableIndex(down, v1)
           v3 == v1 \cup Assign(down, i3)
           over == IF col = endCol THEN {} ELSE Corridor(col, endCol, endRow)
           i4 == AvailableIndex(over, h2)
           h4 == h2 \cup Assign(over, i4)
           entry == IF col = endCol THEN {} ELSE {<<endCol, endRow>>}
           i5 == AvailableIndex(entry, v3)
           v5 == v3 \cup Assign(entry, i5)
           q1 == <<<<startCol, startRow, i1>>>>
           q2 == q1 \o (IF col # startCol THEN <<<<col, startRow, i2>>>> ELSE <<>>)
           q3 == q2 \o (IF startRow # endRow THEN <<<<col, endRow, i3>>>> ELSE <<>>)
           q4 == q3 \o (IF col # endCol THEN <<<<endCol, endRow, i4>>, <<endCol, endRow, i5>>>> ELSE <<>>)
<1>0. u = [points |-> q4, lanes |-> [vertical |-> v5, horizontal |-> h4]]
  BY DEF RouteOf
<1>1. e[1] \in Nodes /\ e[2] \in Nodes
  <2>1. graph.edges \in Graphs
    BY DEF LayoutInv, LayoutTypeOK
  <2>2. e \in Nodes \X Nodes
    BY <2>1, LayoutAssumption
  <2> QED
    BY <2>2
<1>2. PICK C \in Nat, R \in Nat : C = LastCol /\ R = MaxRow
  BY GridIs
<1>3. /\ startCol \in 0 .. C /\ startCol + 1 \in 0 .. C /\ endCol \in 0 .. C
      /\ startRow \in 1 .. R + 1 /\ endRow \in 0 .. R
  BY <1>1, <1>2, GridIs
<1>4. col \in 0 .. C /\ \A r \in Smaller(startRow, endRow) .. Larger(startRow, endRow) - 1 : Clear(col, r)
  <2>1. Smaller(startRow, endRow) \in Int /\ Larger(startRow, endRow) \in Int
    BY <1>3 DEF Smaller, Larger
  <2> QED
    BY <1>2, <1>3, <2>1, RouteColumnIs
<1>H. PICK H \in Nat : H = R + 1
  OBVIOUS
<1>V. PICK V \in Nat : V = R + 2
  OBVIOUS
<1>5. Table(l.vertical, C, V) /\ Table(l.horizontal, C, H)
  BY <1>2, <1>H, <1>V DEF Tables
<1>6. exit \in SUBSET ((0 .. C) \X (0 .. R + 2)) /\ entry \in SUBSET ((0 .. C) \X (0 .. R + 2))
  BY <1>2, <1>3
<1>7. /\ out \in SUBSET ((0 .. C) \X (0 .. R + 1))
      /\ col # startCol => \A x \in Between(startCol, col) : <<x, startRow>> \in out
  <2>1. startRow \in 0 .. R + 1 /\ R + 1 \in Nat
    BY <1>2, <1>3
  <2> HIDE DEF startCol, startRow, col
  <2>2. CASE col = startCol
    <3>1. col + 1 \in 0 .. C
      BY <1>3, <2>2
    <3>2. Corridor(col, col + 1, startRow) \in SUBSET ((0 .. C) \X (0 .. R + 1))
      BY <1>4, <2>1, <3>1, CorridorIs
    <3> QED
      BY <2>2, <3>2
  <2>3. CASE col # startCol
    <3>1. out = Corridor(startCol, col, startRow)
      BY <2>3
    <3> QED
      BY <1>3, <1>4, <2>1, <3>1, CorridorIs
  <2> QED
    BY <2>2, <2>3
<1>8. /\ down \in SUBSET ((0 .. C) \X (0 .. R + 2))
      /\ startRow # endRow =>
           \A r \in Smaller(startRow, endRow) .. Larger(startRow, endRow) - 1 : <<col, r + 1>> \in down
  <2> HIDE DEF startCol, startRow, endRow, col
  <2> QED
    BY <1>2, <1>3, <1>4, VerticalIs
<1>9. /\ over \in SUBSET ((0 .. C) \X (0 .. R + 1))
      /\ col # endCol => \A x \in Between(col, endCol) : <<x, endRow>> \in over
  <2> HIDE DEF startCol, endCol, startRow, endRow, col
  <2>1. endRow \in 0 .. R + 1 /\ R + 1 \in Nat
    BY <1>2, <1>3
  <2> QED
    BY <1>3, <1>4, <2>1, CorridorIs
<1>a. i1 = AvailableIndex(exit, l.vertical) /\ v1 = l.vertical \cup Assign(exit, i1)
  OBVIOUS
<1>b. i2 = AvailableIndex(out, l.horizontal) /\ h2 = l.horizontal \cup Assign(out, i2)
  OBVIOUS
<1>c. i3 = AvailableIndex(down, v1) /\ v3 = v1 \cup Assign(down, i3)
  OBVIOUS
<1>d. i4 = AvailableIndex(over, h2) /\ h4 = h2 \cup Assign(over, i4)
  OBVIOUS
<1>e. i5 = AvailableIndex(entry, v3) /\ v5 = v3 \cup Assign(entry, i5)
  OBVIOUS
<1> HIDE DEF startCol, startRow, endCol, endRow, col, exit, out, down, over, entry,
             i1, v1, i2, h2, i3, v3, i4, h4, i5, v5
<1>f. /\ exit \in SUBSET ((0 .. C) \X (0 .. V)) /\ entry \in SUBSET ((0 .. C) \X (0 .. V))
      /\ down \in SUBSET ((0 .. C) \X (0 .. V))
      /\ out \in SUBSET ((0 .. C) \X (0 .. H)) /\ over \in SUBSET ((0 .. C) \X (0 .. H))
  <2>1. 0 .. R + 2 = 0 .. V /\ 0 .. R + 1 = 0 .. H
    BY <1>H, <1>V
  <2> QED
    BY <1>6, <1>7, <1>8, <1>9, <2>1, Zenon
<1>11. /\ i1 \in Nat /\ Table(v1, C, V) /\ l.vertical \subseteq v1
       /\ \A x, y : <<x, y>> \in exit => <<x, y, i1>> \in v1 \ l.vertical
  BY <1>a, <1>5, <1>f, Assigned
<1>12. /\ i2 \in Nat /\ Table(h2, C, H) /\ l.horizontal \subseteq h2
       /\ \A x, y : <<x, y>> \in out => <<x, y, i2>> \in h2 \ l.horizontal
  BY <1>b, <1>5, <1>f, Assigned
<1>13. /\ i3 \in Nat /\ Table(v3, C, V) /\ v1 \subseteq v3
       /\ \A x, y : <<x, y>> \in down => <<x, y, i3>> \in v3 \ v1
  BY <1>c, <1>f, <1>11, Assigned
<1>14. /\ i4 \in Nat /\ Table(h4, C, H) /\ h2 \subseteq h4
       /\ \A x, y : <<x, y>> \in over => <<x, y, i4>> \in h4 \ h2
  BY <1>d, <1>f, <1>12, Assigned
<1>15. /\ i5 \in Nat /\ Table(v5, C, V) /\ v3 \subseteq v5
       /\ \A x, y : <<x, y>> \in entry => <<x, y, i5>> \in v5 \ v3
  BY <1>e, <1>f, <1>13, Assigned
<1>16. PICK m : m = [vertical |-> v5, horizontal |-> h4]
  OBVIOUS
<1>17. m.vertical = v5 /\ m.horizontal = h4
  BY <1>16
<1>18. Tables(m) /\ Grows(l, m)
  BY <1>2, <1>H, <1>V, <1>11, <1>12, <1>13, <1>14, <1>15, <1>17 DEF Tables, Grows
<1>19. col # startCol =>
         /\ Marked(startCol, startRow, <<col, startRow, i2>>, m)
         /\ Fresh(startCol, startRow, <<col, startRow, i2>>, l)
         /\ Turns(startCol, startRow, <<col, startRow, i2>>)
  <2> SUFFICES ASSUME col # startCol PROVE
         /\ Marked(startCol, startRow, <<col, startRow, i2>>, m)
         /\ Fresh(startCol, startRow, <<col, startRow, i2>>, l)
         /\ Turns(startCol, startRow, <<col, startRow, i2>>)
    OBVIOUS
  <2>1. \A x \in Between(startCol, col) : <<x, startRow, i2>> \in m.horizontal \ l.horizontal
    BY <1>7, <1>12, <1>14, <1>17
  <2> QED
    BY <2>1 DEF Marked, Fresh, Turns
<1>20. startRow # endRow =>
         /\ Marked(col, startRow, <<col, endRow, i3>>, m)
         /\ Fresh(col, startRow, <<col, endRow, i3>>, l)
         /\ Turns(col, startRow, <<col, endRow, i3>>)
  <2> SUFFICES ASSUME startRow # endRow PROVE
         /\ Marked(col, startRow, <<col, endRow, i3>>, m)
         /\ Fresh(col, startRow, <<col, endRow, i3>>, l)
         /\ Turns(col, startRow, <<col, endRow, i3>>)
    OBVIOUS
  <2>1. \A x \in Down(startRow, <<col, endRow, i3>>) :
          Clear(col, x) /\ <<col, x + 1, i3>> \in m.vertical \ l.vertical
    BY <1>4, <1>8, <1>11, <1>13, <1>15, <1>17 DEF Down
  <2> QED
    BY <2>1 DEF Marked, Fresh, Turns
<1>21. col # endCol =>
         /\ Marked(col, endRow, <<endCol, endRow, i4>>, m)
         /\ Fresh(col, endRow, <<endCol, endRow, i4>>, l)
         /\ Turns(col, endRow, <<endCol, endRow, i4>>)
  <2> SUFFICES ASSUME col # endCol PROVE
         /\ Marked(col, endRow, <<endCol, endRow, i4>>, m)
         /\ Fresh(col, endRow, <<endCol, endRow, i4>>, l)
         /\ Turns(col, endRow, <<endCol, endRow, i4>>)
    OBVIOUS
  <2>1. \A x \in Between(col, endCol) : <<x, endRow, i4>> \in m.horizontal \ l.horizontal
    BY <1>9, <1>12, <1>14, <1>17
  <2> QED
    BY <2>1 DEF Marked, Fresh, Turns
<1>22. /\ Marked(endCol, endRow, <<endCol, endRow, i5>>, m)
       /\ Fresh(endCol, endRow, <<endCol, endRow, i5>>, l)
  <2>1. Down(endRow, <<endCol, endRow, i5>>) = {}
    BY <1>3 DEF Down, Smaller, Larger
  <2> QED
    BY <2>1 DEF Marked, Fresh
<1>23. /\ <<startCol, startRow, i1>> \in Point /\ <<col, startRow, i2>> \in Point
       /\ <<col, endRow, i3>> \in Point /\ <<endCol, endRow, i4>> \in Point
       /\ <<endCol, endRow, i5>> \in Point
  BY <1>3, <1>4, <1>11, <1>12, <1>13, <1>14, <1>15 DEF Point
<1>24. StartsRight(q1, e, l, m) /\ At(q1, startCol, startRow)
  <2>1. q1 \in Seq(Point) /\ Len(q1) = 1 /\ q1[1] = <<startCol, startRow, i1>>
    BY <1>23
  <2>2. Begins(q1, e) /\ At(q1, startCol, startRow)
    BY <2>1 DEF Begins, At, startCol, startRow
  <2>3. 2 .. Len(q1) = {}
    BY <2>1
  <2> QED
    BY <2>2, <2>3 DEF StartsRight, RouteMarked, RouteFresh, RouteTurns
<1> HIDE DEF q1
<1>25. StartsRight(q2, e, l, m) /\ At(q2, col, startRow)
  <2>0. PICK p : p = <<col, startRow, i2>>
    OBVIOUS
  <2>1. p = <<col, startRow, i2>> /\ p[1] = col /\ p[2] = startRow
    BY <2>0
  <2>2. (col # startCol) \in BOOLEAN /\ q2 = q1 \o (IF col # startCol THEN <<p>> ELSE <<>>)
    BY <2>1
  <2> HIDE DEF q2
  <2>3. StartsRight(q2, e, l, m) /\ At(q2, p[1], p[2])
    BY <1>19, <1>23, <1>24, <2>1, <2>2, ExtendedWhen
  <2> QED
    BY <2>1, <2>3
<1> HIDE DEF q2
<1>26. StartsRight(q3, e, l, m) /\ At(q3, col, endRow)
  <2>0. PICK p : p = <<col, endRow, i3>>
    OBVIOUS
  <2>1. p = <<col, endRow, i3>> /\ p[1] = col /\ p[2] = endRow
    BY <2>0
  <2>2. (startRow # endRow) \in BOOLEAN /\ q3 = q2 \o (IF startRow # endRow THEN <<p>> ELSE <<>>)
    BY <2>1
  <2> HIDE DEF q3
  <2>3. StartsRight(q3, e, l, m) /\ At(q3, p[1], p[2])
    BY <1>20, <1>23, <1>25, <2>1, <2>2, ExtendedWhen
  <2> QED
    BY <2>1, <2>3
<1> HIDE DEF q3
<1>27. Whole(q4, e, m) /\ RouteFresh(q4, l)
  <2>1. CASE col = endCol
    <3>1. q3 \in Seq(Point)
      BY <1>26 DEF StartsRight, Begins
    <3>2. q4 = q3
      BY <2>1, <3>1, ConcatEmptySeq
    <3>3. Len(q3) \in Nat
      BY <3>1, LenProperties
    <3>4. RouteTurns(q3, Len(q3) - 1)
      BY <1>26, <3>3 DEF StartsRight, RouteTurns
    <3>5. At(q3, endCol, endRow)
      BY <1>26, <2>1
    <3> QED
      BY <1>26, <3>2, <3>4, <3>5 DEF Whole, StartsRight, endCol, endRow
  <2>2. CASE col # endCol
    <3>p. PICK p : p = <<endCol, endRow, i4>>
      OBVIOUS
    <3>1. p = <<endCol, endRow, i4>> /\ p[1] = endCol /\ p[2] = endRow
      BY <3>p
    <3>o. PICK o : o = <<endCol, endRow, i5>>
      OBVIOUS
    <3>2. o = <<endCol, endRow, i5>> /\ o[1] = endCol /\ o[2] = endRow
      BY <3>o
    <3>3. PICK z : z = q3 \o <<p>>
      OBVIOUS
    <3>4. StartsRight(z, e, l, m) /\ At(z, endCol, endRow)
      BY <1>21, <1>23, <1>26, <2>2, <3>1, <3>3, Extended
    <3>5. q4 = z \o <<o>>
      <4>1. q3 \in Seq(Point)
        BY <1>26 DEF StartsRight, Begins
      <4>2. p \in Point /\ o \in Point
        BY <1>23, <3>1, <3>2
      <4>3. q4 = q3 \o <<p, o>>
        BY <2>2, <3>1, <3>2
      <4>4. <<p, o>> = <<p>> \o <<o>>
        OBVIOUS
      <4>5. <<p>> \in Seq(Point) /\ <<o>> \in Seq(Point)
        BY <4>2
      <4>6. (q3 \o <<p>>) \o <<o>> = q3 \o (<<p>> \o <<o>>)
        BY <4>1, <4>5, ConcatAssociative
      <4> HIDE DEF q4
      <4> QED
        BY <3>3, <4>3, <4>4, <4>6
    <3> HIDE DEF q4
    <3>6. /\ Begins(q4, e) /\ RouteMarked(q4, m) /\ RouteFresh(q4, l) /\ RouteTurns(q4, Len(q4) - 1)
          /\ At(q4, o[1], o[2])
      BY <1>22, <1>23, <3>2, <3>4, <3>5, Extended
    <3> QED
      BY <3>2, <3>6 DEF Whole, endCol, endRow
  <2> QED
    BY <2>1, <2>2
<1> HIDE DEF q4
<1> QED
  BY <1>0, <1>16, <1>18, <1>27
-----------------------------------------------------------------------------
\* Where two routes run next to each other the later one has lanes of its own.
LEMMA RunsApart ==
  ASSUME NEW p, NEW q, NEW l, p \in Seq(Point), q \in Seq(Point), RouteMarked(p, l), RouteFresh(q, l),
         NEW a \in Runs(p), NEW b \in Runs(q),
         a.vertical = b.vertical, a.along = b.along, a.cells \cap b.cells # {}
  PROVE  a.lane # b.lane
<1>1. PICK i \in 2 .. Len(p) :
        a = [vertical |-> p[i][1] = p[i - 1][1],
             along |-> IF p[i][1] = p[i - 1][1] THEN p[i][1] ELSE p[i][2],
             cells |-> IF p[i][1] = p[i - 1][1]
                         THEN Smaller(p[i - 1][2], p[i][2]) .. Larger(p[i - 1][2], p[i][2]) - 1
                         ELSE Between(p[i - 1][1], p[i][1]),
             lane |-> p[i][3]]
  BY DEF Runs
<1>2. PICK j \in 2 .. Len(q) :
        b = [vertical |-> q[j][1] = q[j - 1][1],
             along |-> IF q[j][1] = q[j - 1][1] THEN q[j][1] ELSE q[j][2],
             cells |-> IF q[j][1] = q[j - 1][1]
                         THEN Smaller(q[j - 1][2], q[j][2]) .. Larger(q[j - 1][2], q[j][2]) - 1
                         ELSE Between(q[j - 1][1], q[j][1]),
             lane |-> q[j][3]]
  BY DEF Runs
<1>3. PICK x : x \in a.cells /\ x \in b.cells
  OBVIOUS
<1>4. Marked(p[i - 1][1], p[i - 1][2], p[i], l) /\ Fresh(q[j - 1][1], q[j - 1][2], q[j], l)
  BY DEF RouteMarked, RouteFresh
<1>5. CASE p[i][1] = p[i - 1][1]
  <2>1. /\ a.vertical = TRUE /\ a.along = p[i - 1][1] /\ a.lane = p[i][3]
        /\ a.cells = Down(p[i - 1][2], p[i])
    BY <1>1, <1>5 DEF Down
  <2>2. q[j][1] = q[j - 1][1]
    BY <1>2, <2>1
  <2>3. b.along = q[j - 1][1] /\ b.lane = q[j][3] /\ b.cells = Down(q[j - 1][2], q[j])
    BY <1>2, <2>2 DEF Down
  <2>4. <<a.along, x + 1, a.lane>> \in l.vertical
    BY <1>3, <1>4, <1>5, <2>1 DEF Marked
  <2>5. <<b.along, x + 1, b.lane>> \notin l.vertical
    BY <1>3, <1>4, <2>2, <2>3 DEF Fresh
  <2> QED
    BY <2>4, <2>5
<1>6. CASE p[i][1] # p[i - 1][1]
  <2>1. /\ a.vertical = FALSE /\ a.along = p[i][2] /\ a.lane = p[i][3]
        /\ a.cells = Between(p[i - 1][1], p[i][1])
    BY <1>1, <1>6
  <2>2. q[j][1] # q[j - 1][1]
    BY <1>2, <2>1
  <2>3. b.along = q[j][2] /\ b.lane = q[j][3] /\ b.cells = Between(q[j - 1][1], q[j][1])
    BY <1>2, <2>2
  <2>4. <<x, a.along, a.lane>> \in l.horizontal
    BY <1>3, <1>4, <1>6, <2>1 DEF Marked
  <2>5. <<x, b.along, b.lane>> \notin l.horizontal
    BY <1>3, <1>4, <2>2, <2>3 DEF Fresh
  <2> QED
    BY <2>4, <2>5
<1> QED
  BY <1>5, <1>6

LEMMA MarkedMore ==
  ASSUME NEW q, NEW e, NEW l, NEW m, Grows(l, m), Whole(q, e, l)
  PROVE  Whole(q, e, m)
<1>1. ASSUME NEW i \in 2 .. Len(q) PROVE Marked(q[i - 1][1], q[i - 1][2], q[i], m)
  <2>1. Marked(q[i - 1][1], q[i - 1][2], q[i], l)
    BY DEF Whole, RouteMarked
  <2> QED
    BY <2>1 DEF Marked, Grows
<1> QED
  BY <1>1 DEF Whole, RouteMarked

\* The routes so far, the lanes they marked, and none before the grid is finished.
RoutesInv ==
  /\ phase \notin {"route", "done"} =>
       DOMAIN routes = {} /\ lanes = [vertical |-> {}, horizontal |-> {}]
  /\ Tables(lanes)
  /\ \A e \in DOMAIN routes : Whole(routes[e], e, lanes)
  /\ LanesAreOwn
DrawnInv == LayoutInv /\ graph.size \in Sizes /\ RoutesInv

LEMMA RouteTaken ==
  ASSUME DrawnInv, NEW e \in graph.edges, RouteEdge(e)
  PROVE  RoutesInv'
<1>1. LayoutInv /\ phase = "route" /\ Tables(lanes) /\ LanesAreOwn
  BY DEF DrawnInv, RoutesInv, RouteEdge
<1>2. PICK r : /\ r = RouteOf(e, lanes) /\ lanes' = r.lanes
               /\ routes' = [d \in DOMAIN routes \cup {e} |-> IF d = e THEN r.points ELSE routes[d]]
  BY DEF RouteEdge
<1>3. UNCHANGED <<graph, phase, rows, cols, maxCol>> /\ e \notin DOMAIN routes
  BY DEF RouteEdge, input, grid, Unrouted
<1>4. PICK m : m = lanes' /\ m = r.lanes
  BY <1>2
<1>5. PICK l : l = lanes
  OBVIOUS
<1>6. /\ Whole(r.points, e, m) /\ RouteFresh(r.points, l)
      /\ Tables(m) /\ Grows(l, m)
  BY <1>1, <1>2, <1>4, <1>5, RouteOfIs
<1>7. \A d \in DOMAIN routes : Whole(routes[d], d, l) /\ Whole(routes[d], d, m)
  BY <1>5, <1>6, MarkedMore DEF DrawnInv, RoutesInv
<1>8. DOMAIN routes' = DOMAIN routes \cup {e}
      /\ routes'[e] = r.points /\ \A d \in DOMAIN routes : routes'[d] = routes[d]
  BY <1>2, <1>3
<1>9. ASSUME NEW d \in DOMAIN routes' PROVE Whole(routes'[d], d, m)
  BY <1>6, <1>7, <1>8
<1>10. ASSUME NEW d \in DOMAIN routes, NEW a \in Runs(routes[d]), NEW b \in Runs(r.points),
              a.vertical = b.vertical, a.along = b.along, a.cells \cap b.cells # {}
       PROVE  a.lane # b.lane
  <2>1. PICK p : p = routes[d]
    OBVIOUS
  <2>2. PICK q : q = r.points
    OBVIOUS
  <2>3. p \in Seq(Point) /\ q \in Seq(Point) /\ RouteMarked(p, l) /\ RouteFresh(q, l)
    BY <1>6, <1>7, <2>1, <2>2 DEF Whole, Begins
  <2> QED
    BY <1>10, <2>1, <2>2, <2>3, RunsApart
<1>11. ASSUME NEW d \in DOMAIN routes', NEW f \in DOMAIN routes', d # f,
              NEW a \in Runs(routes'[d]), NEW b \in Runs(routes'[f]),
              a.vertical = b.vertical, a.along = b.along, a.cells \cap b.cells # {}
       PROVE  a.lane # b.lane
  <2>1. CASE d \in DOMAIN routes /\ f \in DOMAIN routes
    BY <1>1, <1>8, <1>11, <2>1 DEF LanesAreOwn
  <2>2. CASE d \in DOMAIN routes /\ f = e
    BY <1>8, <1>10, <1>11, <2>2
  <2>3. CASE d = e /\ f \in DOMAIN routes
    <3>1. b \in Runs(routes[f]) /\ a \in Runs(r.points)
      BY <1>8, <1>11, <2>3
    <3>2. b.lane # a.lane
      BY <1>10, <1>11, <2>3, <3>1
    <3> QED
      BY <3>2
  <2> QED
    BY <1>8, <1>11, <2>1, <2>2, <2>3
<1>12. LanesAreOwn'
  BY <1>11 DEF LanesAreOwn, Runs, Smaller, Larger, Between
<1>13. Tables(lanes)'
  BY <1>3, <1>4, <1>6 DEF Tables, LastCol, MaxRow, Largest, Table, Bounded
<1>14. \A d \in DOMAIN routes' : Whole(routes[d], d, lanes)'
  BY <1>3, <1>4, <1>9 DEF Whole, Begins, RouteMarked, RouteTurns, At, Marked, Turns, Clear, Columns, Down
<1> QED
  BY <1>1, <1>3, <1>12, <1>13, <1>14 DEF RoutesInv

LEMMA NothingRouted ==
  ASSUME DOMAIN routes' = {}, lanes' = [vertical |-> {}, horizontal |-> {}]
  PROVE  RoutesInv'
<1>1. Tables(lanes)'
  <2>1. {t[3] : t \in {}} = {}
    OBVIOUS
  <2>2. Bounded({})
    BY DEF Bounded
  <2> QED
    BY <2>1, <2>2 DEF Tables, Table, Bounded
<1> QED
  BY <1>1 DEF RoutesInv, LanesAreOwn

LEMMA RoutesInit == LayoutInit => RoutesInv
<1> SUFFICES ASSUME LayoutInit PROVE RoutesInv
  OBVIOUS
<1>1. routes = <<>> /\ lanes = [vertical |-> {}, horizontal |-> {}]
  BY DEF LayoutInit
<1>2. DOMAIN routes = {}
  BY <1>1
<1>3. Tables(lanes)
  <2>1. {t[3] : t \in {}} = {}
    OBVIOUS
  <2>2. Bounded({})
    BY DEF Bounded
  <2> QED
    BY <1>1, <2>1, <2>2 DEF Tables, Table
<1> QED
  BY <1>1, <1>2, <1>3 DEF RoutesInv, LanesAreOwn

LEMMA DrawnStep == DrawnInv /\ [LayoutNext]_vars => DrawnInv'
<1> SUFFICES ASSUME DrawnInv, [LayoutNext]_vars PROVE DrawnInv'
  OBVIOUS
<1>1. LayoutInv /\ RoutesInv
  BY DEF DrawnInv
<1>2. LayoutInv' /\ graph'.size \in Sizes
  <2>1. LayoutInv'
    BY <1>1, LayoutStep
  <2>2. graph' = graph
    BY DEF LayoutNext, NextLoop, AssignRow, PlaceUp, StayDown, PlaceDown, RouteEdge, LayoutDone, Idle,
           vars, input
  <2> QED
    BY <2>1, <2>2 DEF DrawnInv
<1>3. CASE NextLoop \/ \E n \in Nodes : AssignRow(n) \/ PlaceUp(n) \/ StayDown(n) \/ PlaceDown(n)
  <2>1. phase \in {"rows", "up", "down"} /\ UNCHANGED <<routes, lanes>>
    BY <1>3 DEF NextLoop, AssignRow, PlaceUp, StayDown, PlaceDown, paths
  <2>2. DOMAIN routes = {} /\ lanes = [vertical |-> {}, horizontal |-> {}]
    BY <1>1, <2>1 DEF RoutesInv
  <2> QED
    BY <1>2, <2>1, <2>2, NothingRouted DEF DrawnInv
<1>4. ASSUME NEW e \in graph.edges, RouteEdge(e) PROVE DrawnInv'
  BY <1>2, <1>4, RouteTaken DEF DrawnInv
<1>5. CASE LayoutDone \/ UNCHANGED vars
  <2>1. /\ UNCHANGED <<rows, cols, maxCol, routes, lanes>>
        /\ phase' = phase \/ phase' = "done"
    BY <1>5 DEF LayoutDone, vars, grid, paths
  <2>2. Tables(lanes)'
    <3>1. Tables(lanes)
      BY <1>1 DEF RoutesInv
    <3>2. LastCol' = LastCol /\ MaxRow' = MaxRow
      BY <2>1 DEF LastCol, MaxRow, Largest
    <3> QED
      BY <2>1, <3>1, <3>2 DEF Tables
  <2>3. \A e \in DOMAIN routes' : Whole(routes[e], e, lanes)'
    <3>1. \A e \in DOMAIN routes : Whole(routes[e], e, lanes)
      BY <1>1 DEF RoutesInv
    <3> QED
      BY <2>1, <3>1 DEF Whole, Begins, RouteMarked, RouteTurns, At, Marked, Turns, Clear, Columns
  <2>4. LanesAreOwn'
    <3>1. LanesAreOwn
      BY <1>1 DEF RoutesInv
    <3> QED
      BY <2>1, <3>1 DEF LanesAreOwn
  <2>5. phase' \notin {"route", "done"} => DOMAIN routes' = {}
                                           /\ lanes' = [vertical |-> {}, horizontal |-> {}]
    BY <1>1, <2>1 DEF RoutesInv
  <2> QED
    BY <1>2, <2>2, <2>3, <2>4, <2>5 DEF DrawnInv, RoutesInv
<1> QED
  BY <1>3, <1>4, <1>5 DEF LayoutNext, Idle

LEMMA DrawnInvariant == LayoutSpec => []DrawnInv
<1>1. LayoutInit => DrawnInv
  <2>1. LayoutInit => graph.size \in Sizes
    BY DEF LayoutInit
  <2> QED
    BY <2>1, LayoutInitInv, RoutesInit DEF DrawnInv
<1> QED
  BY <1>1, DrawnStep, PTL DEF LayoutSpec

LEMMA DrawnRoutes ==
  ASSUME DrawnInv
  PROVE  RoutesInGrid /\ LanesAreOwn
<1>1. ASSUME NEW e \in DOMAIN routes, NEW p, p = routes[e]
      PROVE  /\ <<p[1][1], p[1][2]>> = <<cols[e[1]] + 1, rows[e[1]] + 1>>
             /\ <<p[Len(p)][1], p[Len(p)][2]>> = <<cols[e[2]] + 1, rows[e[2]]>>
             /\ \A i \in 2 .. Len(p) - 1 : (p[i][1] = p[i - 1][1]) # (p[i][2] = p[i - 1][2])
             /\ \A i \in 2 .. Len(p) : p[i][1] = p[i - 1][1] =>
                  \A r \in Smaller(p[i - 1][2], p[i][2]) .. Larger(p[i - 1][2], p[i][2]) - 1 :
                    Clear(p[i][1], r)
  <2>1. Whole(p, e, lanes)
    BY <1>1 DEF DrawnInv, RoutesInv
  <2>2. ASSUME NEW i \in 2 .. Len(p), p[i][1] = p[i - 1][1]
        PROVE  \A r \in Down(p[i - 1][2], p[i]) : Clear(p[i][1], r)
    <3>1. Marked(p[i - 1][1], p[i - 1][2], p[i], lanes)
      BY <2>1 DEF Whole, RouteMarked
    <3> QED
      BY <2>2, <3>1 DEF Marked
  <2>3. \A i \in 2 .. Len(p) - 1 : Turns(p[i - 1][1], p[i - 1][2], p[i])
    BY <2>1 DEF Whole, RouteTurns
  <2> QED
    BY <2>1, <2>2, <2>3 DEF Whole, Begins, At, Turns, Down
<1>2. /\ \A t \in lanes.vertical : t[1] \in 0 .. LastCol /\ t[2] \in 0 .. MaxRow + 2
      /\ \A t \in lanes.horizontal : t[1] \in 0 .. LastCol /\ t[2] \in 0 .. MaxRow + 1
  <2>1. Tables(lanes)
    BY DEF DrawnInv, RoutesInv
  <2> QED
    BY <2>1 DEF Tables, Table
<1> QED
  BY <1>1, <1>2 DEF RoutesInGrid, DrawnInv, RoutesInv
-----------------------------------------------------------------------------
(***************************************************************************)
(* The coordinates.  They are sums over columns and rows; a sum of the     *)
(* community modules is a recursive function of the subsets of what is     *)
(* added up.                                                               *)
(***************************************************************************)
Pick(s) == CHOOSE x \in s : TRUE
IsSum(F, S, h) ==
  h = [s \in SUBSET S |-> IF s = {} THEN 0 ELSE F[Pick(s)] + h[s \ {Pick(s)}]]
Total(F, s) == (CHOOSE h : IsSum(F, s, h))[s]

LEMMA SumSame ==
  ASSUME NEW F, NEW T, IsFiniteSet(T), NEW S \in SUBSET T, NEW h, IsSum(F, S, h), NEW k, IsSum(F, T, k)
  PROVE  \A s \in SUBSET S : h[s] = k[s]
<1>0. IsFiniteSet(S)
  BY FS_Subset
<1>1. PICK Good : Good = {s \in SUBSET S : h[s] = k[s]}
  OBVIOUS
<1>2. ASSUME NEW s \in SUBSET S, \A t \in SUBSET s : t # s => t \in Good
      PROVE  s \in Good
  <2>1. CASE s = {}
    <3>1. h[s] = 0 /\ k[s] = 0
      BY <2>1 DEF IsSum
    <3> QED
      BY <1>1, <3>1
  <2>2. CASE s # {}
    <3>1. PICK x \in s : x = Pick(s)
      BY <2>2 DEF Pick
    <3>2. PICK t : t = s \ {x}
      OBVIOUS
    <3>3. t \in SUBSET s /\ t # s
      BY <3>2
    <3>4. h[t] = k[t]
      BY <1>1, <1>2, <3>3
    <3>5. h[s] = F[x] + h[t] /\ k[s] = F[x] + k[t]
      BY <2>2, <3>1, <3>2 DEF IsSum
    <3> QED
      BY <1>1, <3>4, <3>5
  <2> QED
    BY <2>1, <2>2
<1>3. \A s \in SUBSET S : (\A t \in SUBSET s : t # s => t \in Good) => s \in Good
  BY <1>2
<1>4. \A s \in SUBSET S : s \in Good
  BY <1>0, <1>3, SubsetInduction
<1> QED
  BY <1>1, <1>4

LEMMA SumExists ==
  ASSUME NEW F, NEW S, IsFiniteSet(S)
  PROVE  \E h : IsSum(F, S, h)
<1>1. PICK Good : Good = {s \in SUBSET S : \E h : IsSum(F, s, h)}
  OBVIOUS
<1>2. ASSUME NEW s \in SUBSET S, \A t \in SUBSET s : t # s => t \in Good
      PROVE  s \in Good
  <2>1. ASSUME NEW t \in SUBSET s, t # s
        PROVE  Total(F, t) = IF t = {} THEN 0 ELSE F[Pick(t)] + Total(F, t \ {Pick(t)})
    <3>1. PICK k : k = CHOOSE g : IsSum(F, t, g)
      OBVIOUS
    <3>2. IsSum(F, t, k) /\ Total(F, t) = k[t]
      BY <1>1, <1>2, <2>1, <3>1 DEF Total
    <3>3. CASE t = {}
      BY <3>2, <3>3 DEF IsSum
    <3>4. CASE t # {}
      <4>1. PICK x \in t : x = Pick(t)
        BY <3>4 DEF Pick
      <4>2. PICK u : u = t \ {x}
        OBVIOUS
      <4>3. u \in SUBSET t /\ u \in SUBSET s /\ u # s
        BY <2>1, <4>2
      <4>4. PICK g : g = CHOOSE f : IsSum(F, u, f)
        OBVIOUS
      <4>5. IsSum(F, u, g) /\ Total(F, u) = g[u]
        BY <1>1, <1>2, <4>3, <4>4 DEF Total
      <4>6. IsFiniteSet(t)
        BY <1>2, <2>1, FS_Subset
      <4>7. g[u] = k[u]
        BY <3>2, <4>3, <4>5, <4>6, SumSame
      <4>8. k[t] = F[x] + k[u]
        BY <3>2, <3>4, <4>1, <4>2 DEF IsSum
      <4> QED
        BY <3>2, <3>4, <4>1, <4>2, <4>5, <4>7, <4>8
    <3> QED
      BY <3>3, <3>4
  <2>2. PICK h : h = [t \in SUBSET s |-> IF t = {} THEN 0 ELSE F[Pick(t)] + Total(F, t \ {Pick(t)})]
    OBVIOUS
  <2>3. ASSUME NEW t \in SUBSET s, t # {} PROVE h[t \ {Pick(t)}] = Total(F, t \ {Pick(t)})
    <3>1. PICK x \in t : x = Pick(t)
      BY <2>3 DEF Pick
    <3>2. PICK u : u = t \ {x}
      OBVIOUS
    <3>3. u \in SUBSET s /\ u # s
      BY <3>2
    <3>4. h[u] = Total(F, u)
      BY <2>1, <2>2, <3>3
    <3> QED
      BY <3>1, <3>2, <3>4
  <2>4. \A t \in SUBSET s : (IF t = {} THEN 0 ELSE F[Pick(t)] + Total(F, t \ {Pick(t)}))
                            = (IF t = {} THEN 0 ELSE F[Pick(t)] + h[t \ {Pick(t)}])
    BY <2>3
  <2>5. IsSum(F, s, h)
    BY <2>2, <2>4 DEF IsSum
  <2> QED
    BY <1>1, <2>5
<1>3. \A s \in SUBSET S : (\A t \in SUBSET s : t # s => t \in Good) => s \in Good
  BY <1>2
<1>4. \A s \in SUBSET S : s \in Good
  BY <1>3, SubsetInduction
<1> QED
  BY <1>1, <1>4

\* It does not matter in which order the terms are added.
LEMMA SumAny ==
  ASSUME NEW F, NEW S, IsFiniteSet(S), \A x \in S : F[x] \in Int, NEW h, IsSum(F, S, h)
  PROVE  \A s \in SUBSET S : h[s] \in Int /\ \A x \in s : h[s] = F[x] + h[s \ {x}]
<1>1. PICK Good : Good = {s \in SUBSET S : h[s] \in Int /\ \A x \in s : h[s] = F[x] + h[s \ {x}]}
  OBVIOUS
<1>2. ASSUME NEW s \in SUBSET S, \A t \in SUBSET s : t # s => t \in Good
      PROVE  s \in Good
  <2>1. CASE s = {}
    <3>1. h[s] = 0
      BY <2>1 DEF IsSum
    <3> QED
      BY <1>1, <2>1, <3>1
  <2>2. CASE s # {}
    <3>1. PICK y \in s : y = Pick(s)
      BY <2>2 DEF Pick
    <3>2. PICK t : t = s \ {y}
      OBVIOUS
    <3>3. t \in SUBSET s /\ t # s
      BY <3>2
    <3>4. h[t] \in Int /\ \A x \in t : h[t] = F[x] + h[t \ {x}]
      BY <1>1, <1>2, <3>3
    <3>5. h[s] = F[y] + h[t]
      BY <2>2, <3>1, <3>2 DEF IsSum
    <3>6. h[s] \in Int
      BY <3>1, <3>4, <3>5
    <3>7. ASSUME NEW x \in s PROVE h[s] = F[x] + h[s \ {x}]
      <4>1. CASE x = y
        BY <3>2, <3>5, <4>1
      <4>2. CASE x # y
        <5>1. PICK u : u = s \ {x}
          OBVIOUS
        <5>2. PICK v : v = t \ {x}
          OBVIOUS
        <5>3. u \in SUBSET s /\ u # s /\ y \in u /\ v = u \ {y} /\ x \in t
          BY <3>2, <4>2, <5>1, <5>2
        <5>4. v \in SUBSET s /\ v # s
          BY <3>2, <5>2
        <5>5. h[u] = F[y] + h[v]
          BY <1>1, <1>2, <5>3
        <5>6. h[t] = F[x] + h[v]
          BY <3>4, <5>2, <5>3
        <5>7. h[v] \in Int /\ F[x] \in Int /\ F[y] \in Int
          BY <1>1, <1>2, <3>1, <5>4
        <5> QED
          BY <3>5, <5>1, <5>5, <5>6, <5>7
      <4> QED
        BY <4>1, <4>2
    <3> QED
      BY <1>1, <3>6, <3>7
  <2> QED
    BY <2>1, <2>2
<1>3. \A s \in SUBSET S : (\A t \in SUBSET s : t # s => t \in Good) => s \in Good
  BY <1>2
<1>4. \A s \in SUBSET S : s \in Good
  BY <1>3, SubsetInduction
<1> QED
  BY <1>1, <1>4

\* The columns or rows before one; index -1 is the last one.
Earlier(c) == -1 .. c - 1

LEMMA TotalNext ==
  ASSUME NEW C \in Nat, NEW F, \A i \in -1 .. C : F[i] \in Int, NEW c \in 0 .. C
  PROVE  /\ Total(F, Earlier(c)) \in Int
         /\ Total(F, Earlier(c + 1)) = Total(F, Earlier(c)) + F[c]
<1>1. PICK T : T = Earlier(c + 1)
  OBVIOUS
<1>2. PICK S : S = Earlier(c)
  OBVIOUS
<1>3. S \in SUBSET T /\ S = T \ {c} /\ c \in T /\ \A i \in T : F[i] \in Int
  <2>1. \A i : i \in T <=> i \in Int /\ -1 <= i /\ i <= c
    BY <1>1 DEF Earlier
  <2>2. \A i : i \in S <=> i \in Int /\ -1 <= i /\ i <= c - 1
    BY <1>2 DEF Earlier
  <2>3. \A i \in Int : i <= c - 1 <=> i <= c /\ i # c
    OBVIOUS
  <2>4. S = T \ {c} /\ c \in T
    BY <2>1, <2>2, <2>3
  <2>5. \A i \in T : i \in -1 .. C
    BY <2>1
  <2> QED
    BY <2>4, <2>5
<1>4. IsFiniteSet(T) /\ IsFiniteSet(S)
  <2>1. IsFiniteSet(T)
    BY <1>1, FS_Interval DEF Earlier
  <2> QED
    BY <1>3, <2>1, FS_Subset
<1>5. PICK k : k = CHOOSE f : IsSum(F, T, f)
  OBVIOUS
<1>6. IsSum(F, T, k) /\ Total(F, T) = k[T]
  BY <1>4, <1>5, SumExists DEF Total
<1>7. PICK h : h = CHOOSE f : IsSum(F, S, f)
  OBVIOUS
<1>8. IsSum(F, S, h) /\ Total(F, S) = h[S]
  BY <1>4, <1>7, SumExists DEF Total
<1>9. h[S] = k[S]
  BY <1>3, <1>4, <1>6, <1>8, SumSame
<1>10. k[S] \in Int /\ k[T] = F[c] + k[S] /\ F[c] \in Int
  <2>1. \A s \in SUBSET T : k[s] \in Int /\ \A x \in s : k[s] = F[x] + k[s \ {x}]
    <3>1. IsFiniteSet(T) /\ IsSum(F, T, k)
      BY <1>4, <1>6
    <3>2. \A x \in T : F[x] \in Int
      BY <1>3
    <3> QED
      BY <3>1, <3>2, SumAny
  <2>2. T \in SUBSET T /\ S \in SUBSET T /\ c \in T
    BY <1>3
  <2>3. k[S] \in Int /\ k[T] = F[c] + k[T \ {c}]
    BY <2>1, <2>2
  <2>4. T \ {c} = S /\ F[c] \in Int
    BY <1>3
  <2> QED
    BY <2>3, <2>4
<1> QED
  BY <1>1, <1>2, <1>6, <1>8, <1>9, <1>10

\* Without negative terms sums grow.
LEMMA TotalsGrow ==
  ASSUME NEW C \in Nat, NEW F, \A i \in -1 .. C : F[i] \in Nat, NEW a \in 0 .. C, NEW b \in 0 .. C, a <= b
  PROVE  /\ Total(F, Earlier(a)) \in Int /\ Total(F, Earlier(b)) \in Int
         /\ Total(F, Earlier(a)) <= Total(F, Earlier(b))
<1>0. \A i \in 0 .. C : /\ Total(F, Earlier(i)) \in Int /\ F[i] \in Nat
                        /\ Total(F, Earlier(i + 1)) = Total(F, Earlier(i)) + F[i]
  BY TotalNext
<1>1. SUFFICES ASSUME ~(Total(F, Earlier(a)) <= Total(F, Earlier(b))) PROVE FALSE
  BY <1>0
<1>2. PICK B : B = {i \in 0 .. C : a <= i /\ ~(Total(F, Earlier(a)) <= Total(F, Earlier(i)))}
  OBVIOUS
<1>3. B \subseteq Nat /\ B # {}
  BY <1>1, <1>2
<1>4. PICK i \in B : \A j \in B : i <= j
  BY <1>3, LeastIs
<1>5. i \in 0 .. C /\ a <= i /\ ~(Total(F, Earlier(a)) <= Total(F, Earlier(i)))
  BY <1>2
<1>6. i # a
  <2>1. Total(F, Earlier(a)) \in Int
    BY <1>0
  <2> QED
    BY <1>5, <2>1
<1>7. PICK j \in 0 .. C : j = i - 1 /\ a <= j
  BY <1>5, <1>6
<1>8. Total(F, Earlier(i)) = Total(F, Earlier(j)) + F[j]
  <2>1. i = j + 1
    BY <1>5, <1>7
  <2> QED
    BY <1>0, <2>1
<1>9. ~(Total(F, Earlier(a)) <= Total(F, Earlier(j)))
  BY <1>0, <1>5, <1>7, <1>8
<1>10. j \in B
  BY <1>2, <1>7, <1>9
<1> QED
  BY <1>4, <1>5, <1>7, <1>10

\* The terms of the sums of _calculate_coordinates.
Columnwise(w) == [c \in -1 .. LastCol |-> (IF c = -1 THEN w[LastCol] ELSE w[c]) + ColMargin]
Rowwise(h, g) == [q \in -1 .. MaxRow |-> (IF q = -1 THEN h[MaxRow + 1] ELSE h[q]) + g[q + 1]]

LEMMA GridXIs ==
  ASSUME NEW w, LastCol \in Nat, NEW col \in 0 .. LastCol
  PROVE  GridX(col, w) = Total(Columnwise(w), Earlier(col))
<1> DEFINE Term(c) == (IF c = -1 THEN w[LastCol] ELSE w[c]) + ColMargin
           Def(h) == h = [s \in SUBSET (-1 .. col - 1) |->
                            IF s = {} THEN 0 ELSE Term(Pick(s)) + h[s \ {Pick(s)}]]
<1>1. PICK S : S = -1 .. col - 1
  OBVIOUS
<1>2. PICK F : F = Columnwise(w)
  OBVIOUS
<1>3. \A c \in S : F[c] = Term(c)
  <2>1. \A c \in S : c \in -1 .. LastCol
    BY <1>1
  <2> QED
    BY <1>2, <2>1 DEF Columnwise
<1>4. IsFiniteSet(S)
  BY <1>1, FS_Interval
<1>5. GridX(col, w) = (CHOOSE h : Def(h))[S]
  BY <1>1 DEF GridX, MapThenSumSet, MapThenFoldSet, Pick
<1> HIDE DEF Term
<1>6. ASSUME NEW h PROVE Def(h) <=> IsSum(F, S, h)
  <2>1. ASSUME NEW s \in SUBSET S, s # {} PROVE F[Pick(s)] = Term(Pick(s))
    <3>1. Pick(s) \in s
      BY <2>1 DEF Pick
    <3> QED
      BY <1>3, <3>1
  <2>2. [s \in SUBSET S |-> IF s = {} THEN 0 ELSE Term(Pick(s)) + h[s \ {Pick(s)}]]
        = [s \in SUBSET S |-> IF s = {} THEN 0 ELSE F[Pick(s)] + h[s \ {Pick(s)}]]
    BY <2>1
  <2> QED
    BY <1>1, <2>2 DEF IsSum
<1>7. PICK f : f = CHOOSE h : Def(h)
  OBVIOUS
<1>8. IsSum(F, S, f)
  <2>1. \E h : Def(h)
    BY <1>4, <1>6, SumExists
  <2>2. Def(f)
    BY <1>7, <2>1
  <2> QED
    BY <1>6, <2>2
<1>9. PICK k : k = CHOOSE h : IsSum(F, S, h)
  OBVIOUS
<1>10. IsSum(F, S, k) /\ Total(F, S) = k[S]
  BY <1>4, <1>9, SumExists DEF Total
<1>11. f[S] = k[S]
  BY <1>4, <1>8, <1>10, SumSame
<1> QED
  BY <1>1, <1>2, <1>5, <1>7, <1>10, <1>11 DEF Earlier

LEMMA GridYIs ==
  ASSUME NEW h, NEW g, MaxRow \in Nat, NEW r \in 0 .. MaxRow
  PROVE  GridY(r, h, g) = g[0] + Total(Rowwise(h, g), Earlier(r))
<1> DEFINE Term(q) == (IF q = -1 THEN h[MaxRow + 1] ELSE h[q]) + g[q + 1]
           Def(k) == k = [s \in SUBSET (-1 .. r - 1) |->
                            IF s = {} THEN 0 ELSE Term(Pick(s)) + k[s \ {Pick(s)}]]
<1>1. PICK S : S = -1 .. r - 1
  OBVIOUS
<1>2. PICK F : F = Rowwise(h, g)
  OBVIOUS
<1>3. \A q \in S : F[q] = Term(q)
  <2>1. \A q \in S : q \in -1 .. MaxRow
    BY <1>1
  <2> QED
    BY <1>2, <2>1 DEF Rowwise
<1>4. IsFiniteSet(S)
  BY <1>1, FS_Interval
<1>5. GridY(r, h, g) = g[0] + (CHOOSE k : Def(k))[S]
  BY <1>1 DEF GridY, MapThenSumSet, MapThenFoldSet, Pick
<1> HIDE DEF Term
<1>6. ASSUME NEW k PROVE Def(k) <=> IsSum(F, S, k)
  <2>1. ASSUME NEW s \in SUBSET S, s # {} PROVE F[Pick(s)] = Term(Pick(s))
    <3>1. Pick(s) \in s
      BY <2>1 DEF Pick
    <3> QED
      BY <1>3, <3>1
  <2>2. [s \in SUBSET S |-> IF s = {} THEN 0 ELSE Term(Pick(s)) + k[s \ {Pick(s)}]]
        = [s \in SUBSET S |-> IF s = {} THEN 0 ELSE F[Pick(s)] + k[s \ {Pick(s)}]]
    BY <2>1
  <2> QED
    BY <1>1, <2>2 DEF IsSum
<1>7. PICK f : f = CHOOSE k : Def(k)
  OBVIOUS
<1>8. IsSum(F, S, f)
  <2>1. \E k : Def(k)
    BY <1>4, <1>6, SumExists
  <2>2. Def(f)
    BY <1>7, <2>1
  <2> QED
    BY <1>6, <2>2
<1>9. PICK k : k = CHOOSE j : IsSum(F, S, j)
  OBVIOUS
<1>10. IsSum(F, S, k) /\ Total(F, S) = k[S]
  BY <1>4, <1>9, SumExists DEF Total
<1>11. f[S] = k[S]
  BY <1>4, <1>8, <1>10, SumSame
<1> QED
  BY <1>1, <1>2, <1>5, <1>7, <1>10, <1>11 DEF Earlier
-----------------------------------------------------------------------------
\* The widths and heights that _make_grids computes hold what stands there.
LEMMA LaneSpaceIs ==
  ASSUME NEW taken, Bounded({t[3] : t \in taken}), NEW margin \in Nat
  PROVE  LaneSpace(taken, margin) \in Nat
<1>1. CASE taken = {}
  BY <1>1 DEF LaneSpace
<1>2. CASE taken # {}
  <2>1. PICK S : S = {t[3] : t \in taken}
    OBVIOUS
  <2>2. S # {} /\ Bounded(S)
    BY <1>2, <2>1
  <2>3. PICK m \in Nat : m = Max(S)
    BY <2>2, GreatestIs
  <2>4. (m + 2) * margin \in Nat
    OBVIOUS
  <2> QED
    BY <1>2, <2>1, <2>3, <2>4 DEF LaneSpace
<1> QED
  BY <1>1, <1>2

LEMMA MaxOfThree ==
  ASSUME NEW a \in Nat, NEW b \in Nat, NEW c \in Nat
  PROVE  Max({a, b, c}) \in Nat /\ Max({a, b, c}) >= b
<1>1. Bounded({a, b, c})
  <2>1. a + b + c \in Nat /\ \A x \in {a, b, c} : x <= a + b + c
    OBVIOUS
  <2>2. {a, b, c} \subseteq Nat
    OBVIOUS
  <2> QED
    BY <2>1, <2>2 DEF Bounded
<1>2. PICK S : S = {a, b, c}
  OBVIOUS
<1>3. S # {} /\ b \in S /\ Bounded(S)
  BY <1>1, <1>2
<1>4. Max(S) \in Nat /\ \A x \in S : x <= Max(S)
  BY <1>3, GreatestIs
<1> QED
  BY <1>2, <1>3, <1>4

LEMMA LanesBounded ==
  ASSUME NEW columns, NEW height, NEW taken, Table(taken, columns, height), NEW some \in SUBSET taken
  PROVE  Bounded({t[3] : t \in some})
<1>1. PICK S : S = {t[3] : t \in taken}
  OBVIOUS
<1>2. PICK T : T = {t[3] : t \in some}
  OBVIOUS
<1>3. T \subseteq S /\ Bounded(S)
  BY <1>1, <1>2 DEF Table
<1> QED
  BY <1>2, <1>3 DEF Bounded

LEMMA SizesAre ==
  ASSUME DrawnInv
  PROVE  \A n \in Nodes : graph.size[n][1] \in Nat /\ graph.size[n][2] \in Nat
<1>1. graph.size \in [Nodes -> Nat \X Nat]
  BY LayoutAssumption DEF DrawnInv
<1> QED
  BY <1>1

LEMMA ColWidthIs ==
  ASSUME DrawnInv, NEW col
  PROVE  /\ ColWidth(col) \in Nat
         /\ \A n \in Nodes : col \in Columns(n) => graph.size[n][1] \div 2 <= ColWidth(col)
<1>1. PICK T : T = {n \in Nodes : col \in Columns(n)}
  OBVIOUS
<1>2. PICK f : f = [n \in T |-> graph.size[n][1] \div 2]
  OBVIOUS
<1>3. PICK halves : halves = {graph.size[n][1] \div 2 : n \in T}
  OBVIOUS
<1>4. f \in [T -> Nat]
  <2>1. \A n \in T : graph.size[n][1] \in Nat
    BY <1>1, SizesAre
  <2>2. \A x \in Nat : x \div 2 \in Nat
    OBVIOUS
  <2>3. \A n \in T : graph.size[n][1] \div 2 \in Nat
    BY <2>1, <2>2
  <2> QED
    BY <1>2, <2>3
<1>5. Bounded(halves)
  <2>1. halves = {f[n] : n \in T}
    BY <1>2, <1>3
  <2> QED
    BY <1>1, <1>4, <2>1, ImageBounded
<1>6. PICK b \in Nat : b = Largest(halves) /\ \A x \in halves : x <= b
  BY <1>5, LargestIs
<1>7. PICK taken : taken = {t \in lanes.vertical : t[1] = col /\ t[2] <= MaxRow + 1}
  OBVIOUS
<1>8. PICK c \in Nat : c = LaneSpace(taken, XMargin)
  <2>1. taken \in SUBSET lanes.vertical /\ Table(lanes.vertical, LastCol, MaxRow + 2)
    BY <1>7 DEF DrawnInv, RoutesInv, Tables
  <2>2. Bounded({t[3] : t \in taken})
    BY <2>1, LanesBounded
  <2>3. XMargin \in Nat
    BY LayoutAssumption
  <2> QED
    BY <2>2, <2>3, LaneSpaceIs
<1>9. PICK a \in Nat : a = IF col \in {0, LastCol} THEN 20 ELSE 0
  OBVIOUS
<1>10. ColWidth(col) = Max({a, b, c})
  BY <1>1, <1>3, <1>6, <1>7, <1>8, <1>9 DEF ColWidth
<1>11. ColWidth(col) \in Nat /\ ColWidth(col) >= b
  BY <1>10, MaxOfThree
<1>12. ASSUME NEW n \in Nodes, col \in Columns(n)
       PROVE  graph.size[n][1] \div 2 <= ColWidth(col)
  <2>1. PICK x \in halves : x = graph.size[n][1] \div 2
    BY <1>1, <1>3, <1>12
  <2>2. x \in Nat /\ x <= b
    BY <1>5, <1>6 DEF Bounded
  <2> QED
    BY <1>11, <2>1, <2>2
<1> QED
  BY <1>11, <1>12

LEMMA RowHeightIs ==
  ASSUME DrawnInv, NEW r
  PROVE  /\ RowHeight(r) \in Nat
         /\ \A n \in Nodes : rows[n] = r => graph.size[n][2] <= RowHeight(r)
<1>1. PICK T : T = {n \in Nodes : rows[n] = r}
  OBVIOUS
<1>2. PICK f : f = [n \in T |-> graph.size[n][2]]
  OBVIOUS
<1>3. PICK heights : heights = {graph.size[n][2] : n \in T}
  OBVIOUS
<1>4. f \in [T -> Nat]
  <2>1. \A n \in T : graph.size[n][2] \in Nat
    BY <1>1, SizesAre
  <2> QED
    BY <1>2, <2>1
<1>5. Bounded(heights)
  <2>1. heights = {f[n] : n \in T}
    BY <1>2, <1>3
  <2> QED
    BY <1>1, <1>4, <2>1, ImageBounded
<1>6. PICK b \in Nat : b = Largest(heights) /\ \A x \in heights : x <= b
  BY <1>5, LargestIs
<1>7. PICK taken : taken = {t \in lanes.horizontal : t[2] = r}
  OBVIOUS
<1>8. PICK c \in Nat : c = LaneSpace(taken, YMargin)
  <2>1. taken \in SUBSET lanes.horizontal /\ Table(lanes.horizontal, LastCol, MaxRow + 1)
    BY <1>7 DEF DrawnInv, RoutesInv, Tables
  <2>2. Bounded({t[3] : t \in taken})
    BY <2>1, LanesBounded
  <2>3. YMargin \in Nat
    BY LayoutAssumption
  <2> QED
    BY <2>2, <2>3, LaneSpaceIs
<1>9. RowHeight(r) = Larger(b, c)
  BY <1>1, <1>3, <1>6, <1>7, <1>8 DEF RowHeight
<1>10. RowHeight(r) \in Nat /\ RowHeight(r) >= b
  BY <1>9 DEF Larger
<1>11. ASSUME NEW n \in Nodes, rows[n] = r
       PROVE  graph.size[n][2] <= RowHeight(r)
  <2>1. PICK x \in heights : x = graph.size[n][2]
    BY <1>1, <1>3, <1>11
  <2>2. x \in Nat /\ x <= b
    BY <1>5, <1>6 DEF Bounded
  <2> QED
    BY <1>10, <2>1, <2>2
<1> QED
  BY <1>10, <1>11

LEMMA GapAboveIs ==
  ASSUME DrawnInv, NEW r
  PROVE  GapAbove(r) \in Nat /\ 2 <= GapAbove(r)
<1>1. PICK taken : taken = {t \in lanes.horizontal : t[2] = r}
  OBVIOUS
<1>2. PICK c \in Nat : c = LaneSpace(taken, YMargin)
  <2>1. taken \in SUBSET lanes.horizontal /\ Table(lanes.horizontal, LastCol, MaxRow + 1)
    BY <1>1 DEF DrawnInv, RoutesInv, Tables
  <2>2. Bounded({t[3] : t \in taken})
    BY <2>1, LanesBounded
  <2>3. YMargin \in Nat
    BY LayoutAssumption
  <2> QED
    BY <2>2, <2>3, LaneSpaceIs
<1>3. PICK m \in Nat : m = RowMargin /\ 1 <= m
  BY LayoutAssumption
<1>4. GapAbove(r) = m * 2 + c
  BY <1>1, <1>2, <1>3 DEF GapAbove
<1>5. m * 2 + c \in Nat /\ 2 <= m * 2 + c
  BY <1>3
<1> QED
  BY <1>4, <1>5

\* Blocks of sizes s and t centred on two columns each, or on one row, with the rounding of halves.
LEMMA CentredColumns ==
  ASSUME NEW x \in Int, NEW y \in Int, NEW a \in Nat, NEW b \in Nat, NEW c \in Nat, NEW d \in Nat,
         NEW s \in Nat, NEW t \in Nat,
         s \div 2 <= a, s \div 2 <= b, t \div 2 <= c, t \div 2 <= d,
         x + a + b + 2 <= y
  PROVE  x + (a + b) \div 2 - s \div 2 + s <= y + (c + d) \div 2 - t \div 2
  OBVIOUS

LEMMA CentredRows ==
  ASSUME NEW x \in Int, NEW y \in Int, NEW h \in Nat, NEW k \in Nat, NEW s \in Nat, NEW t \in Nat,
         s <= h, t <= k, x + h + 2 <= y
  PROVE  x + h \div 2 - s \div 2 + s <= y + k \div 2 - t \div 2
  OBVIOUS

LEMMA ColumnsApart ==
  ASSUME DrawnInv, phase \in {"route", "done"}, NEW w, w = [c \in 0 .. LastCol |-> ColWidth(c)],
         NEW m \in Nodes, NEW n \in Nodes, cols[m] + 1 < cols[n]
  PROVE  BlockX(m, w) + graph.size[m][1] <= BlockX(n, w)
<1>1. PICK C \in Nat : C = LastCol
  BY GridIs DEF DrawnInv
<1>2. PICK c \in 0 .. C : c = cols[m] /\ c + 1 \in 0 .. C /\ c + 2 \in 0 .. C
  <2>1. /\ cols[m] \in Int /\ 1 <= cols[m] /\ cols[m] + 1 < C
        /\ cols[n] \in Int /\ 1 <= cols[n] /\ cols[n] + 1 < C
    BY <1>1, GridIs DEF DrawnInv
  <2> QED
    BY <2>1
<1>3. PICK d \in 0 .. C : d = cols[n] /\ d + 1 \in 0 .. C /\ c + 2 <= d
  <2>1. cols[n] \in Int /\ 1 <= cols[n] /\ cols[n] + 1 < C
    BY <1>1, GridIs DEF DrawnInv
  <2> QED
    BY <1>2, <2>1
<1>4. \A i \in 0 .. C : w[i] \in Nat
  BY <1>1, ColWidthIs
<1>5. PICK M \in Nat : M = ColMargin /\ 1 <= M
  BY LayoutAssumption
<1>6. PICK F : F = Columnwise(w)
  OBVIOUS
<1>7. \A i \in 0 .. C : F[i] = w[i] + M
  BY <1>1, <1>5, <1>6 DEF Columnwise
<1>8. \A i \in -1 .. C : F[i] \in Nat
  <2>1. F[-1] = w[C] + M /\ C \in 0 .. C
    <3>1. -1 \in -1 .. C /\ C \in 0 .. C
      OBVIOUS
    <3> QED
      BY <1>1, <1>5, <1>6, <3>1 DEF Columnwise
  <2>2. \A i \in -1 .. C : i = -1 \/ i \in 0 .. C
    OBVIOUS
  <2>3. ASSUME NEW i \in 0 .. C PROVE w[i] + M \in Nat
    <3>1. w[i] \in Nat
      BY <1>4
    <3> QED
      BY <3>1
  <2>4. \A i \in 0 .. C : F[i] \in Nat
    BY <1>7, <2>3
  <2>5. F[-1] \in Nat
    BY <2>1, <2>3
  <2> QED
    BY <2>2, <2>4, <2>5
<1>9. \A i \in -1 .. C : F[i] \in Int
  BY <1>8
<1>10. PICK x \in Int : x = Total(F, Earlier(c))
  BY <1>9, TotalNext
<1>11. Total(F, Earlier(c + 1)) = x + F[c]
  BY <1>9, <1>10, TotalNext
<1>12. Total(F, Earlier(c + 1 + 1)) = Total(F, Earlier(c + 1)) + F[c + 1]
  BY <1>2, <1>9, TotalNext
<1>13. Total(F, Earlier(c + 2)) = x + F[c] + F[c + 1]
  <2>1. c + 1 + 1 = c + 2
    OBVIOUS
  <2> QED
    BY <1>11, <1>12, <2>1
<1>14. PICK y \in Int : y = Total(F, Earlier(d)) /\ Total(F, Earlier(c + 2)) <= y
  BY <1>2, <1>3, <1>8, TotalsGrow
<1>15. GridX(c, w) = x /\ GridX(d, w) = y
  BY <1>1, <1>6, <1>10, <1>14, GridXIs
<1>16. PICK a \in Nat, b \in Nat : a = w[c] /\ b = w[c + 1]
  BY <1>2, <1>4
<1>17. PICK a2 \in Nat, b2 \in Nat : a2 = w[d] /\ b2 = w[d + 1]
  BY <1>3, <1>4
<1>18. PICK s \in Nat, t \in Nat : s = graph.size[m][1] /\ t = graph.size[n][1]
  BY SizesAre
<1>19. x + a + b + 2 <= y
  <2>1. F[c] = a + M /\ F[c + 1] = b + M
    BY <1>2, <1>7, <1>16
  <2>2. x + (a + M) + (b + M) <= y
    BY <1>13, <1>14, <2>1
  <2> QED
    BY <1>5, <2>2
<1>20. s \div 2 <= a /\ s \div 2 <= b
  <2>1. c \in Columns(m) /\ c + 1 \in Columns(m)
    BY <1>2 DEF Columns
  <2>2. graph.size[m][1] \div 2 <= ColWidth(c) /\ graph.size[m][1] \div 2 <= ColWidth(c + 1)
    BY <2>1, ColWidthIs
  <2> QED
    BY <1>1, <1>2, <1>16, <1>18, <2>2
<1>21. t \div 2 <= a2 /\ t \div 2 <= b2
  <2>1. d \in Columns(n) /\ d + 1 \in Columns(n)
    BY <1>3 DEF Columns
  <2>2. graph.size[n][1] \div 2 <= ColWidth(d) /\ graph.size[n][1] \div 2 <= ColWidth(d + 1)
    BY <2>1, ColWidthIs
  <2> QED
    BY <1>1, <1>3, <1>17, <1>18, <2>2
<1>22. x + (a + b) \div 2 - s \div 2 + s <= y + (a2 + b2) \div 2 - t \div 2
  BY <1>19, <1>20, <1>21, CentredColumns
<1>23. /\ BlockX(m, w) = x + (a + b) \div 2 - s \div 2
       /\ BlockX(n, w) = y + (a2 + b2) \div 2 - t \div 2
  BY <1>2, <1>3, <1>15, <1>16, <1>17, <1>18 DEF BlockX
<1> QED
  BY <1>18, <1>22, <1>23

LEMMA RowsApart ==
  ASSUME DrawnInv, phase \in {"route", "done"},
         NEW h, h = [r \in 0 .. MaxRow + 1 |-> RowHeight(r)],
         NEW g, g = [r \in 0 .. MaxRow + 1 |-> GapAbove(r)],
         NEW m \in Nodes, NEW n \in Nodes, rows[m] < rows[n]
  PROVE  BlockY(m, h, g) + graph.size[m][2] <= BlockY(n, h, g)
<1>1. PICK C \in Nat : C = MaxRow
  BY GridIs DEF DrawnInv
<1>2. PICK c \in 0 .. C : c = rows[m] /\ c + 1 \in 0 .. C
  <2>1. rows[m] \in 0 .. C /\ rows[n] \in 0 .. C
    BY <1>1, GridIs DEF DrawnInv
  <2> QED
    BY <2>1
<1>3. PICK d \in 0 .. C : d = rows[n] /\ c + 1 <= d
  <2>1. rows[n] \in 0 .. C
    BY <1>1, GridIs DEF DrawnInv
  <2> QED
    BY <1>2, <2>1
<1>4. \A i \in 0 .. C + 1 : h[i] \in Nat /\ g[i] \in Nat /\ 2 <= g[i]
  BY <1>1, RowHeightIs, GapAboveIs
<1>5. PICK F : F = Rowwise(h, g)
  OBVIOUS
<1>6. \A i \in 0 .. C : F[i] = h[i] + g[i + 1] /\ i \in 0 .. C + 1 /\ i + 1 \in 0 .. C + 1
  <2>1. \A i \in 0 .. C : i \in -1 .. C /\ i # -1 /\ i \in 0 .. C + 1 /\ i + 1 \in 0 .. C + 1
    OBVIOUS
  <2> QED
    BY <1>1, <1>5, <2>1 DEF Rowwise
<1>7. \A i \in -1 .. C : F[i] \in Nat
  <2>1. F[-1] = h[C + 1] + g[0] /\ C + 1 \in 0 .. C + 1 /\ 0 \in 0 .. C + 1
    <3>1. -1 \in -1 .. C /\ -1 + 1 = 0
      OBVIOUS
    <3>2. F[-1] = h[C + 1] + g[-1 + 1]
      BY <1>1, <1>5, <3>1 DEF Rowwise
    <3> QED
      BY <3>1, <3>2
  <2>2. \A i \in -1 .. C : i = -1 \/ i \in 0 .. C
    OBVIOUS
  <2>3. ASSUME NEW i \in 0 .. C PROVE F[i] \in Nat
    <3>0. i \in 0 .. C + 1 /\ i + 1 \in 0 .. C + 1
      BY <1>6
    <3>1. PICK a \in Nat, k \in Nat : a = h[i] /\ k = g[i + 1]
      <4>1. h[i] \in Nat /\ g[i + 1] \in Nat
        BY <1>4, <3>0
      <4> QED
        BY <4>1
    <3>2. F[i] = h[i] + g[i + 1]
      BY <1>6
    <3> QED
      BY <3>1, <3>2
  <2>4. F[-1] \in Nat
    <3>1. PICK a \in Nat, k \in Nat : a = h[C + 1] /\ k = g[0]
      <4>1. h[C + 1] \in Nat /\ g[0] \in Nat
        BY <1>4, <2>1
      <4> QED
        BY <4>1
    <3> QED
      BY <2>1, <3>1
  <2> QED
    BY <2>2, <2>3, <2>4
<1>8. \A i \in -1 .. C : F[i] \in Int
  BY <1>7
<1>9. PICK x \in Int : x = Total(F, Earlier(c))
  BY <1>8, TotalNext
<1>10. Total(F, Earlier(c + 1)) = x + F[c]
  BY <1>8, <1>9, TotalNext
<1>11. PICK y \in Int : y = Total(F, Earlier(d)) /\ Total(F, Earlier(c + 1)) <= y
  BY <1>2, <1>3, <1>7, TotalsGrow
<1>12. PICK z \in Nat : z = g[0]
  <2>1. 0 \in 0 .. C + 1
    OBVIOUS
  <2> QED
    BY <1>4, <2>1
<1>13. GridY(c, h, g) = z + x /\ GridY(d, h, g) = z + y
  BY <1>1, <1>5, <1>9, <1>11, <1>12, GridYIs
<1>14. PICK a \in Nat, b \in Nat : a = h[c] /\ b = h[d]
  BY <1>4, <1>6
<1>15. PICK k \in Nat : k = g[c + 1] /\ 2 <= k
  BY <1>4, <1>6
<1>16. PICK s \in Nat, t \in Nat : s = graph.size[m][2] /\ t = graph.size[n][2]
  BY SizesAre
<1>17. (z + x) + a + 2 <= z + y
  <2>1. F[c] = a + k
    BY <1>6, <1>14, <1>15
  <2>2. x + (a + k) <= y
    BY <1>10, <1>11, <2>1
  <2> QED
    BY <1>15, <2>2
<1>18. s <= a /\ t <= b
  <2>1. graph.size[m][2] <= RowHeight(c) /\ graph.size[n][2] <= RowHeight(d)
    BY <1>2, <1>3, RowHeightIs
  <2> QED
    BY <1>1, <1>6, <1>14, <1>16, <2>1
<1>19. (z + x) + a \div 2 - s \div 2 + s <= (z + y) + b \div 2 - t \div 2
  <2>1. z + x \in Int /\ z + y \in Int
    OBVIOUS
  <2> QED
    BY <1>17, <1>18, <2>1, CentredRows
<1>20. /\ BlockY(m, h, g) = (z + x) + a \div 2 - s \div 2
       /\ BlockY(n, h, g) = (z + y) + b \div 2 - t \div 2
  BY <1>2, <1>3, <1>13, <1>14, <1>16 DEF BlockY
<1> QED
  BY <1>16, <1>19, <1>20

LEMMA DrawnBlocks ==
  ASSUME DrawnInv
  PROVE  BlocksDisjoint
<1> SUFFICES ASSUME phase = "done", NEW at \in NodeCoordinates, NEW m \in Nodes, NEW n \in Nodes, m # n
             PROVE  \E i \in 1 .. 2 : \/ at[m][i] + graph.size[m][i] <= at[n][i]
                                      \/ at[n][i] + graph.size[n][i] <= at[m][i]
  BY DEF BlocksDisjoint
<1> DEFINE Coordinates(w, h, g) == [v \in Nodes |-> <<BlockX(v, w), BlockY(v, h, g)>>]
<1>1. PICK w : w = [c \in 0 .. LastCol |-> ColWidth(c)]
  OBVIOUS
<1>2. PICK h : h = [r \in 0 .. MaxRow + 1 |-> RowHeight(r)]
  OBVIOUS
<1>3. PICK g : g = [r \in 0 .. MaxRow + 1 |-> GapAbove(r)]
  OBVIOUS
<1>4. at = Coordinates(w, h, g)
  <2>1. NodeCoordinates = UNION {{Coordinates(v, k, j) : k \in {h}, j \in {g}} : v \in {w}}
    BY ONLY <1>1, <1>2, <1>3, SMT DEF NodeCoordinates
  <2> HIDE DEF Coordinates
  <2>2. PICK v \in {w} : at \in {Coordinates(v, k, j) : k \in {h}, j \in {g}}
    BY <2>1
  <2> QED
    BY <2>2
<1>5. \A v \in Nodes : at[v][1] = BlockX(v, w) /\ at[v][2] = BlockY(v, h, g)
  BY <1>4
<1>6. \A v \in Nodes : rows[v] \in Int /\ cols[v] \in Int /\ cols[v] # None
  <2>1. MaxRow \in Nat /\ \A v \in Nodes : rows[v] \in 0 .. MaxRow /\ cols[v] \in Int /\ 1 <= cols[v]
    BY GridIs DEF DrawnInv
  <2> QED
    BY <2>1 DEF None
<1>7. CASE rows[m] = rows[n]
  <2>1. cols[m] + 1 < cols[n] \/ cols[n] + 1 < cols[m]
    BY <1>6, <1>7 DEF DrawnInv, LayoutInv, Layered, BlocksApart
  <2>2. \/ BlockX(m, w) + graph.size[m][1] <= BlockX(n, w)
        \/ BlockX(n, w) + graph.size[n][1] <= BlockX(m, w)
    BY <1>1, <2>1, ColumnsApart
  <2>3. \/ at[m][1] + graph.size[m][1] <= at[n][1]
        \/ at[n][1] + graph.size[n][1] <= at[m][1]
    BY <1>5, <2>2
  <2> QED
    BY <2>3
<1>8. CASE rows[m] # rows[n]
  <2>1. rows[m] < rows[n] \/ rows[n] < rows[m]
    BY <1>6, <1>8
  <2>2. \/ BlockY(m, h, g) + graph.size[m][2] <= BlockY(n, h, g)
        \/ BlockY(n, h, g) + graph.size[n][2] <= BlockY(m, h, g)
    BY <1>2, <1>3, <2>1, RowsApart
  <2>3. \/ at[m][2] + graph.size[m][2] <= at[n][2]
        \/ at[n][2] + graph.size[n][2] <= at[m][2]
    BY <1>5, <2>2
  <2> QED
    BY <2>3
<1> QED
  BY <1>7, <1>8

(* Whatever the edges, the keys that rows are sorted by, the sizes of the
   blocks and the margins: the route of an edge leads from below its source to
   above its target and meets no block on its way, stays within the tables and
   has lanes of its own wherever it runs next to another edge, and the blocks
   of the finished drawing do not overlap (_assign_rows, _assign_columns,
   _route_edge, _assign_edge_to, _make_grids, _calculate_coordinates). *)
THEOREM RoutesAndBlocksAlwaysApart == LayoutSpec => []RoutesAndBlocksApart
<1>1. DrawnInv => RoutesAndBlocksApart
  BY DrawnRoutes, DrawnBlocks DEF RoutesAndBlocksApart
<1> QED
  BY <1>1, DrawnInvariant, PTL
-----------------------------------------------------------------------------
(***************************************************************************)
(* The graph of a function.                                                *)
(***************************************************************************)
\* What can have a node; the blocks that were converted, those that the next
\* block is joined to, what has a node, and the links that were made.
Named == Blocks \cup Functions
DoneBlocks == KeptBlocks \ left
Joins == {b \in Blocks : <<b, b + 1>> \in Shrunk}
Leads(e) == e \in Shrunk \/ e[2] \notin Functions
Reached(D) == D \cup {e[2] : e \in {e \in Inside : e[1] \in D /\ Leads(e)}}
InnerOf(D) == {e \in Inner : e[1] \in D}

SuperTypes ==
  [of : [Named -> {NoSuper} \cup Blocks], held : [Blocks -> SUBSET Named],
   nodes : SUBSET Blocks, links : SUBSET (Blocks \X Blocks)]

\* A node is a run of blocks each of which is joined to the next.
InRuns(of, K) ==
  /\ \A x \in Named : of[x] # NoSuper =>
       /\ of[x] <= x
       /\ \A z \in of[x] .. x - 1 : z \in K /\ of[z] = of[x]
  /\ \A b \in K : of[b + 1] = of[b]
Holding(of, held) ==
  /\ \A x \in Named : of[x] # NoSuper => held[of[x]] = {y \in Named : of[y] = of[x]}
  /\ \A b \in Blocks : \A f \in held[b] \cap Functions : <<f - 1, f>> \in Shrunk
\* The graph shows what was followed so far, or a link back has returned.
Drawn(of, nodes, links, R, F) ==
  /\ nodes = {of[x] : x \in R}
  /\ links = {<<of[e[1]], of[e[2]]>> : e \in F}
GoesBack(of, B) ==
  \E b \in B \cap Blocks :
    of[b] # NoSuper /\ \E e \in Inner : {of[e[1]], of[e[2]]} = {of[b]}

\* K: the joins made, R: what has a node, F: the edges that became links, B: the
\* blocks that came too early.
Stage(of, held, nodes, links, K, R, F, B) ==
  /\ [of |-> of, held |-> held, nodes |-> nodes, links |-> links] \in SuperTypes
  /\ \A x \in Named : of[x] # NoSuper <=> x \in R
  /\ R \subseteq Named /\ K \subseteq R \cap Joins
  /\ F \subseteq Inner /\ \A e \in F : e[1] \in R /\ e[2] \in R
  /\ InRuns(of, K) /\ Holding(of, held)
  /\ Drawn(of, nodes, links, R, F) \/ GoesBack(of, B)

\* What came before the block it is joined to is known to have done so.
EarlyKnown(D, B) == \A b \in Joins \ D : b + 1 \in D => b + 1 \in B
\* The same of the block b alone, when R has a node.
TooEarlyKnown(b, R, B) == b + 1 \in R => b + 1 \in B

\* What a transition graph is made of.
LEMMA FlowShape ==
  ASSUME flow \in Flows
  PROVE  /\ flow.entry \in Blocks /\ flow.entry \in KeptBlocks /\ KeptBlocks \subseteq Blocks
         /\ IsFiniteSet(Inside) /\ Blocks \subseteq Nat \ {0} /\ Named \subseteq Nat \ {0}
         /\ NoSuper \notin Blocks /\ Blocks \cap Functions = {}
         /\ \A e \in Inside : e = <<e[1], e[2]>> /\ e[1] \in Named /\ e[2] \in Named
         /\ \A e \in Inside : e[1] \in Blocks => e[1] \in KeptBlocks
         /\ \A e \in Inside : e[2] \in Blocks => e[2] \in KeptBlocks
<1>1. /\ flow.entry \in flow.blocks /\ flow.blocks \subseteq Blocks /\ IsFiniteSet(DOMAIN flow.edges)
      /\ DOMAIN flow.edges \subseteq (flow.blocks \cup Functions) \X (flow.blocks \cup Functions)
      /\ Blocks \subseteq Nat \ {0} /\ Functions \subseteq Nat \ {0} /\ Blocks \cap Functions = {}
  BY FlowsAssumption
<1>1a. \A e \in DOMAIN flow.edges :
         \/ \E d \in Inside : d[2] = e[2]
         \/ e[2] # flow.entry /\ \A d \in DOMAIN flow.edges : d[1] # e[2]
  BY FlowsAssumption DEF Inside
<1>1b. DOMAIN flow.edges \subseteq Named \X Named
  BY <1>1 DEF Named
<1>2. Inside \subseteq DOMAIN flow.edges
  BY DEF Inside
<1>3. IsFiniteSet(Inside)
  BY <1>1, <1>2, FS_Subset
<1>4. \A p \in Named \X Named : p = <<p[1], p[2]>> /\ p[1] \in Named /\ p[2] \in Named
  OBVIOUS
<1>5. \A e \in Inside : e = <<e[1], e[2]>> /\ e[1] \in Named /\ e[2] \in Named
  BY <1>1b, <1>2, <1>4
<1>5a. \A e \in Inside : /\ e[1] \in Blocks => e[1] \in flow.blocks
                         /\ e[2] \in Blocks => e[2] \in flow.blocks
  <2>1. \A p \in (flow.blocks \cup Functions) \X (flow.blocks \cup Functions) :
          p[1] \in flow.blocks \cup Functions /\ p[2] \in flow.blocks \cup Functions
    OBVIOUS
  <2> QED
    BY <1>1, <1>2, <2>1
<1>6. \A e \in Inside : e[2] \in Blocks => e[2] \in KeptBlocks
  BY <1>5a DEF KeptBlocks, Into
\* a block with no edge into it is kept, and so is one that leads somewhere
<1>7. ASSUME NEW b \in flow.blocks, b = flow.entry \/ \E e \in DOMAIN flow.edges : e[1] = b
      PROVE  b \in KeptBlocks
  <2>1. CASE \E e \in DOMAIN flow.edges : e[2] = b
    <3>1. PICK d \in Inside : d[2] = b
      BY <1>1a, <1>7, <2>1
    <3> QED
      BY <3>1 DEF KeptBlocks, Into
  <2>2. CASE ~\E e \in DOMAIN flow.edges : e[2] = b
    BY <2>2 DEF KeptBlocks
  <2> QED
    BY <2>1, <2>2
<1>7a. \A e \in Inside : e[1] \in Blocks => e[1] \in KeptBlocks
  BY <1>2, <1>5a, <1>7
<1>8. flow.entry \in KeptBlocks /\ KeptBlocks \subseteq Blocks /\ flow.entry \in Blocks
  BY <1>1, <1>7 DEF KeptBlocks
<1> QED
  BY <1>1, <1>3, <1>5, <1>7a, <1>6, <1>7, <1>8 DEF NoSuper, Named

\* An edge that is shrunk leads to what follows, which no other block leads to,
\* and its block leads to no other.
LEMMA ShrunkShape ==
  ASSUME flow \in Flows, NEW e \in Shrunk
  PROVE  /\ e \in Inside /\ e = <<e[1], e[1] + 1>>
         /\ \A d \in OutOf(e[1]) : d = e \/ d[2] \in Functions
         /\ \A d \in Into(e[2]) : d = e \/ d[1] \in Functions
         /\ e[2] \in Functions => OutOf(e[1]) = {e} /\ Into(e[2]) = {e}
<1>1. e \in Inside /\ e = <<e[1], e[2]>>
  BY FlowShape DEF Shrunk
<1>2. \A d \in Inside : /\ flow.edges[d] = "call" => d[2] \in Functions
                        /\ flow.edges[d] = "return" => d[1] \in Functions
                        /\ flow.edges[d] = "fake_return" => d[2] = d[1] + 1
  BY FlowsAssumption DEF Inside
<1>3. \A d \in Inside : d = <<d[1], d[2]>> /\ d[1] \in Nat /\ d[2] \in Nat
  BY FlowShape
<1>4. CASE e[2] = e[1] + 1 /\ OutOf(e[1]) = {e} /\ Into(e[2]) = {e}
  BY <1>1, <1>4
<1>5. CASE /\ flow.edges[e] = "fake_return" /\ e[2] \notin Functions
           /\ \A d \in OutOf(e[1]) : flow.edges[d] \in {"fake_return", "call"}
           /\ \A d \in Into(e[2]) : flow.edges[d] \in {"fake_return", "return"}
  <2>1. e[2] = e[1] + 1
    BY <1>1, <1>2, <1>5
  <2>2. ASSUME NEW d \in OutOf(e[1]) PROVE d = e \/ d[2] \in Functions
    <3>1. d \in Inside /\ d[1] = e[1]
      BY DEF OutOf
    <3>2. flow.edges[d] = "fake_return" => d[2] = e[2]
      BY <1>2, <2>1, <3>1
    <3>3. flow.edges[d] = "fake_return" => d = e
      BY <1>1, <1>3, <3>1, <3>2
    <3> QED
      BY <1>2, <1>5, <3>1, <3>3
  <2>3. ASSUME NEW d \in Into(e[2]) PROVE d = e \/ d[1] \in Functions
    <3>1. d \in Inside /\ d[2] = e[2]
      BY DEF Into
    <3>2. flow.edges[d] = "fake_return" => d[1] = e[1]
      BY <1>1, <1>2, <1>3, <2>1, <3>1
    <3>3. flow.edges[d] = "fake_return" => d = e
      BY <1>1, <1>3, <3>1, <3>2
    <3> QED
      BY <1>2, <1>5, <3>1, <3>3
  <2> QED
    BY <1>1, <1>5, <2>1, <2>2, <2>3
<1> QED
  BY <1>4, <1>5 DEF Shrunk

\* The same of a block that the next one is joined to.
LEMMA JoinShape ==
  ASSUME flow \in Flows, NEW b \in Joins
  PROVE  /\ b \in Blocks /\ b + 1 \in Named /\ <<b, b + 1>> \in Shrunk
         /\ \A d \in OutOf(b) : d = <<b, b + 1>> \/ d[2] \in Functions
         /\ \A d \in Into(b + 1) : d = <<b, b + 1>> \/ d[1] \in Functions
<1>1. PICK e \in Shrunk : e = <<b, b + 1>>
  BY DEF Joins
<1>2. e[1] = b /\ e[2] = b + 1
  BY <1>1
<1>3. /\ e \in Inside
      /\ \A d \in OutOf(e[1]) : d = e \/ d[2] \in Functions
      /\ \A d \in Into(e[2]) : d = e \/ d[1] \in Functions
  BY ShrunkShape
<1>4. b + 1 \in Named
  BY <1>2, <1>3, FlowShape
<1> QED
  BY <1>1, <1>2, <1>3, <1>4 DEF Joins
-----------------------------------------------------------------------------
\* Counting up to n.
LEMMA PassingInduction ==
  ASSUME NEW n \in Nat, NEW Good, 0 \in Good, \A i \in 1 .. n : i - 1 \in Good => i \in Good
  PROVE  \A i \in 0 .. n : i \in Good
<1>1. SUFFICES ASSUME NEW x \in 0 .. n, x \notin Good PROVE FALSE
  OBVIOUS
<1>2. PICK B : B = {k \in 0 .. n : k \notin Good}
  OBVIOUS
<1>3. B \subseteq Nat /\ B # {}
  BY <1>1, <1>2
<1>4. PICK k \in B : \A j \in B : k <= j
  BY <1>3, LeastIs
<1>5. k \in 1 .. n
  BY <1>2
<1>6. k - 1 \in 0 .. n /\ ~(k <= k - 1)
  BY <1>5
<1>7. k - 1 \in Good
  BY <1>2, <1>4, <1>6
<1> QED
  BY <1>2, <1>5, <1>7

\* Following the edges of a node in an order.
Followed(g, n, q) == FoldLeft(LAMBDA h, dst : Follow(h, n, dst), g, q)
IsFollowing(g, n, q, S, h) ==
  h = [s \in SUBSET S |-> IF s = {} THEN g ELSE Follow(h[s \ {Max(s)}], n, q[Max(s)])]

\* The fold takes the last position of those that are left.
LEMMA PositionTaken ==
  ASSUME NEW n \in Nat, NEW S \in SUBSET (1 .. n), S # {}
  PROVE  Max(S) \in S /\ \A i \in S : i <= Max(S)
<1>1. S \subseteq Nat /\ \A i \in S : i <= n
  OBVIOUS
<1>2. Bounded(S)
  BY <1>1 DEF Bounded
<1> QED
  BY <1>2, GreatestIs

\* There is such a fold.
LEMMA FollowingExists ==
  ASSUME NEW g, NEW n, NEW q, NEW k \in Nat
  PROVE  \E h : IsFollowing(g, n, q, 1 .. k, h)
<1> DEFINE Up(i) == SUBSET (1 .. i)
           Def(i, h) == h = [s \in Up(i) |-> IF s = {} THEN g ELSE Follow(h[s \ {Max(s)}], n, q[Max(s)])]
<1>1. PICK Good : Good = {i \in 0 .. k : \E h : Def(i, h)}
  OBVIOUS
<1>2. 0 \in Good
  <2>1. 1 .. 0 = {}
    OBVIOUS
  <2>2. PICK h : h = [s \in Up(0) |-> g]
    OBVIOUS
  <2>3. Def(0, h)
    BY <2>1, <2>2
  <2> QED
    BY <1>1, <2>3
<1>3. ASSUME NEW i \in 1 .. k, i - 1 \in Good PROVE i \in Good
  <2>1. PICK h : Def(i - 1, h)
    BY <1>1, <1>3
  <2>2. PICK f : f = [s \in Up(i) |-> IF s = {} THEN g ELSE Follow(h[s \ {Max(s)}], n, q[Max(s)])]
    OBVIOUS
  <2>3. ASSUME NEW s \in Up(i), s # {} PROVE f[s \ {Max(s)}] = h[s \ {Max(s)}]
    <3>1. PICK m : m = Max(s)
      OBVIOUS
    <3>2. i \in Nat /\ s \in SUBSET (1 .. i) /\ s # {}
      BY <2>3
    <3>2a. m \in s /\ \A j \in s : j <= m
      BY <3>1, <3>2, PositionTaken
    <3>3. PICK t : t = s \ {m}
      OBVIOUS
    <3>4. \A j \in t : j \in 1 .. i - 1 /\ j \in 1 .. i
      BY <3>2, <3>2a, <3>3
    <3>5. t \in Up(i - 1) /\ t \in Up(i)
      BY <3>4, Zenon
    <3>6. f[t] = IF t = {} THEN g ELSE Follow(h[t \ {Max(t)}], n, q[Max(t)])
      BY <2>2, <3>5
    <3>7. h[t] = IF t = {} THEN g ELSE Follow(h[t \ {Max(t)}], n, q[Max(t)])
      BY <2>1, <3>5
    <3> QED
      BY <3>1, <3>3, <3>6, <3>7
  <2>4. Def(i, f)
    BY <2>2, <2>3
  <2> HIDE DEF Def
  <2>5. \E h2 : Def(i, h2)
    BY <2>4
  <2>6. i \in 0 .. k
    BY <1>3
  <2> QED
    BY <1>1, <2>5, <2>6
<1>4. k \in Good
  BY <1>2, <1>3, PassingInduction
<1> QED
  BY <1>1, <1>4 DEF IsFollowing

\* The graphs that following passes through, one edge after the other.
Passes(g, n, q, k, h) ==
  /\ h[0] = g /\ Followed(g, n, q) = h[k]
  /\ \A i \in 1 .. k : h[i] = Follow(h[i - 1], n, q[i])

\* It passes from one graph to the next.
LEMMA FollowPasses ==
  ASSUME NEW g, NEW n, NEW q, NEW k \in Nat, DOMAIN q = 1 .. k
  PROVE  \E h : Passes(g, n, q, k, h)
<1>1. PICK f : f = CHOOSE h : IsFollowing(g, n, q, DOMAIN q, h)
  OBVIOUS
<1>2. Followed(g, n, q) = f[DOMAIN q]
  BY <1>1 DEF Followed, FoldLeft, MapThenFoldSet, IsFollowing
<1>3. IsFollowing(g, n, q, 1 .. k, f)
  <2>1. \E h : IsFollowing(g, n, q, DOMAIN q, h)
    BY FollowingExists
  <2> QED
    BY <1>1, <2>1, Zenon
<1>4. PICK h : h = [i \in 0 .. k |-> f[1 .. i]]
  OBVIOUS
<1>5. h[0] = g
  <2>1. 1 .. 0 = {} /\ {} \in SUBSET (1 .. k)
    OBVIOUS
  <2>2. f[{}] = g
    BY <1>3, <2>1 DEF IsFollowing
  <2> QED
    BY <1>4, <2>1, <2>2
<1>6. ASSUME NEW i \in 1 .. k PROVE h[i] = Follow(h[i - 1], n, q[i])
  <2>1. PICK S : S = 1 .. i
    OBVIOUS
  <2>2. S \in SUBSET (1 .. k) /\ S # {} /\ i \in S
    BY <2>1
  <2>3. PICK m : m = Max(S)
    OBVIOUS
  <2>4. m \in S /\ \A j \in S : j <= m
    BY <2>2, <2>3, PositionTaken
  <2>5. m = i
    BY <2>1, <2>2, <2>4
  <2>6. S \ {m} = 1 .. i - 1
    BY <2>1, <2>5
  <2>7. f[S] = Follow(f[S \ {m}], n, q[m])
    BY <1>3, <2>2, <2>3 DEF IsFollowing
  <2>8. h[i] = f[S] /\ h[i - 1] = f[1 .. i - 1]
    <3>1. i \in 0 .. k /\ i - 1 \in 0 .. k
      OBVIOUS
    <3> QED
      BY <1>4, <2>1, <3>1
  <2> QED
    BY <2>5, <2>6, <2>7, <2>8
<1>7. h[k] = f[1 .. k]
  BY <1>4
<1> QED
  BY <1>2, <1>5, <1>6, <1>7 DEF Passes

\* An order of a finite set has each of its elements.
LEMMA OrderCovers ==
  ASSUME NEW S, IsFiniteSet(S), NEW q \in SetToSeqs(S)
  PROVE  \E k \in Nat :
           /\ DOMAIN q = 1 .. k /\ \A i \in 1 .. k : q[i] \in S
           /\ \A x \in S : \E i \in 1 .. k : q[i] = x
<1>1. PICK k \in Nat : k = Cardinality(S)
  BY FS_CardinalityType
<1>2. q \in [1 .. k -> S] /\ \A i, j \in 1 .. k : i # j => q[i] # q[j]
  BY <1>1 DEF SetToSeqs
<1>3. q \in Injection(1 .. k, S)
  BY <1>2 DEF Injection, IsInjective
<1>4. Cardinality(1 .. k) = k
  BY FS_Interval
<1>5. q \in Surjection(1 .. k, S)
  BY <1>1, <1>3, <1>4, FS_Injection
<1> QED
  BY <1>2, <1>5 DEF Surjection

EndsOf(L) == UNION {{l[1], l[2]} : l \in L}
\* A super graph and its fields.
Fields(h, of, held, nodes, links) ==
  /\ h \in SuperTypes
  /\ h.of = of /\ h.held = held /\ h.nodes = nodes /\ h.links = links

\* A super graph, field by field.
LEMMA SuperFields ==
  ASSUME NEW h, h \in SuperTypes
  PROVE  /\ h = [of |-> h.of, held |-> h.held, nodes |-> h.nodes, links |-> h.links]
         /\ h.of \in [Named -> {NoSuper} \cup Blocks] /\ h.held \in [Blocks -> SUBSET Named]
         /\ h.nodes \subseteq Blocks /\ h.links \subseteq Blocks \X Blocks
BY DEF SuperTypes

\* What links join.
LEMMA EndsOfAre ==
  ASSUME NEW L, L \subseteq Blocks \X Blocks
  PROVE  /\ EndsOf(L) \subseteq Blocks
         /\ \A x : x \in EndsOf(L) <=> \E l \in L : x = l[1] \/ x = l[2]
<1>1. \A l \in Blocks \X Blocks : l[1] \in Blocks /\ l[2] \in Blocks
  OBVIOUS
<1>2. \A x : x \in EndsOf(L) <=> \E l \in L : x = l[1] \/ x = l[2]
  BY DEF EndsOf
<1> QED
  BY <1>1, <1>2

\* What Linked, Without, WithSuper and Absorb make of a super graph.
LEMMA LinkedIs ==
  ASSUME NEW g \in SuperTypes, NEW L, L \subseteq Blocks \X Blocks
  PROVE  Fields(Linked(g, L), g.of, g.held, g.nodes \cup EndsOf(L), g.links \cup L)
<1>1. EndsOf(L) \subseteq Blocks
  BY EndsOfAre
<1>2. Linked(g, L) = [g EXCEPT !.nodes = @ \cup EndsOf(L), !.links = @ \cup L]
  BY DEF Linked, EndsOf
<1>3. Linked(g, L) = [of |-> g.of, held |-> g.held, nodes |-> g.nodes \cup EndsOf(L), links |-> g.links \cup L]
  BY <1>2, SuperFields DEF SuperTypes
<1> QED
  BY <1>1, <1>3 DEF SuperTypes, Fields

LEMMA WithoutIs ==
  ASSUME NEW g \in SuperTypes, NEW s
  PROVE  Fields(Without(g, s), g.of, g.held, g.nodes \ {s}, g.links \ LinksOf(g, s))
<1>1. Without(g, s) = [of |-> g.of, held |-> g.held, nodes |-> g.nodes \ {s}, links |-> g.links \ LinksOf(g, s)]
  BY SuperFields DEF SuperTypes, Without
<1> QED
  BY <1>1 DEF SuperTypes, Fields

LEMMA WithSuperIs ==
  ASSUME NEW g \in SuperTypes, NEW x \in Blocks
  PROVE  /\ g.of[x] # NoSuper => WithSuper(g, x) = g
         /\ g.of[x] = NoSuper =>
              Fields(WithSuper(g, x), [g.of EXCEPT ![x] = x], [g.held EXCEPT ![x] = {x}],
                     g.nodes \cup {x}, g.links)
<1>1. g.of[x] # NoSuper => WithSuper(g, x) = g
  BY DEF WithSuper
<1>2. ASSUME g.of[x] = NoSuper
      PROVE  Fields(WithSuper(g, x), [g.of EXCEPT ![x] = x], [g.held EXCEPT ![x] = {x}],
                    g.nodes \cup {x}, g.links)
  <2>1. WithSuper(g, x) = [g EXCEPT !.of[x] = x, !.held[x] = {x}, !.nodes = @ \cup {x}]
    BY <1>2 DEF WithSuper
  <2>2. WithSuper(g, x) = [of |-> [g.of EXCEPT ![x] = x], held |-> [g.held EXCEPT ![x] = {x}],
                           nodes |-> g.nodes \cup {x}, links |-> g.links]
    BY <2>1, SuperFields DEF SuperTypes
  <2>3. /\ [g.of EXCEPT ![x] = x] \in [Named -> {NoSuper} \cup Blocks]
        /\ [g.held EXCEPT ![x] = {x}] \in [Blocks -> SUBSET Named]
        /\ g.nodes \cup {x} \in SUBSET Blocks /\ g.links \in SUBSET (Blocks \X Blocks)
    BY DEF SuperTypes, Named
  <2> QED
    BY <2>2, <2>3 DEF SuperTypes, Fields
<1> QED
  BY <1>1, <1>2

\* What a node takes over with a block, and the links of the other node.
Other(g, y) == IF g.of[y] = NoSuper THEN {} ELSE g.held[g.of[y]]
Touching(L, s) == {l \in L : s \in {l[1], l[2]}}
Renamed(d, s, x) == IF x = d THEN s ELSE x
RenamedAll(S, d, s) == {Renamed(d, s, x) : x \in S}
Moved(L, d, s) == {<<Renamed(d, s, l[1]), Renamed(d, s, l[2])>> : l \in L}

\* The node s takes y, with what the node of y holds and is linked to.
LEMMA AbsorbIs ==
  ASSUME flow \in Flows, NEW g \in SuperTypes, NEW s \in Blocks, NEW y \in Named
  PROVE  /\ Moved(LinksOf(g, g.of[y]), g.of[y], s) \subseteq Blocks \X Blocks
         /\ Fields(Absorb(g, s, y),
              [x \in Named |-> IF x = y \/ x \in Other(g, y) THEN s ELSE g.of[x]],
              [g.held EXCEPT ![s] = @ \cup {y} \cup Other(g, y)],
              (g.nodes \ {g.of[y]}) \cup EndsOf(Moved(LinksOf(g, g.of[y]), g.of[y], s)),
              (g.links \ LinksOf(g, g.of[y])) \cup Moved(LinksOf(g, g.of[y]), g.of[y], s))
<1>1. PICK d : d = g.of[y]
  OBVIOUS
<1>2. PICK other : other = Other(g, y) /\ other \subseteq Named
  <2>1. g.of[y] = NoSuper \/ g.of[y] \in Blocks
    BY DEF SuperTypes
  <2>2. Other(g, y) \subseteq Named
    BY <2>1 DEF SuperTypes, Other
  <2> QED
    BY <2>2
<1>3. PICK L : L = LinksOf(g, d) /\ L \subseteq Blocks \X Blocks
  <2>1. LinksOf(g, d) \subseteq g.links
    BY DEF LinksOf
  <2> QED
    BY <2>1, SuperFields
<1>4. PICK M : M = Moved(L, d, s)
  OBVIOUS
<1>5. M \subseteq Blocks \X Blocks
  <2>1. \A l \in L : l[1] \in Blocks /\ l[2] \in Blocks
    BY <1>3
  <2>2. \A l \in L : Renamed(d, s, l[1]) \in Blocks /\ Renamed(d, s, l[2]) \in Blocks
    BY <2>1 DEF Renamed
  <2> QED
    BY <1>4, <2>2 DEF Moved
<1>6. M = {[i \in 1 .. 2 |-> IF l[i] = d THEN s ELSE l[i]] : l \in L}
  <2>1. \A l : [i \in 1 .. 2 |-> IF l[i] = d THEN s ELSE l[i]] = <<Renamed(d, s, l[1]), Renamed(d, s, l[2])>>
    BY DEF Renamed
  <2> QED
    BY <1>4, <2>1 DEF Moved
<1>7. PICK k : k = [g EXCEPT !.held[s] = @ \cup {y} \cup other,
                             !.of = [n \in DOMAIN @ |-> IF n \in {y} \cup other THEN s ELSE @[n]]]
  OBVIOUS
<1>8. Absorb(g, s, y) = Linked(Without(k, d), M)
  BY <1>1, <1>2, <1>3, <1>6, <1>7 DEF Absorb, Other
<1>9. PICK of : of = [x \in Named |-> IF x = y \/ x \in other THEN s ELSE g.of[x]]
  OBVIOUS
<1>10. PICK held : held = [g.held EXCEPT ![s] = @ \cup {y} \cup other]
  OBVIOUS
<1>11. of \in [Named -> {NoSuper} \cup Blocks] /\ held \in [Blocks -> SUBSET Named]
  BY <1>2, <1>9, <1>10, SuperFields
<1>12. [n \in DOMAIN g.of |-> IF n \in {y} \cup other THEN s ELSE g.of[n]] = of
  BY <1>9, SuperFields
<1>13. k = [g EXCEPT !.held = held, !.of = of]
  BY <1>7, <1>10, <1>12, SuperFields
<1>14. k = [of |-> of, held |-> held, nodes |-> g.nodes, links |-> g.links]
  <2>1. PICK a : a = g.of
    OBVIOUS
  <2>2. PICK b : b = g.held
    OBVIOUS
  <2>3. g = [of |-> a, held |-> b, nodes |-> g.nodes, links |-> g.links]
    BY <2>1, <2>2, SuperFields
  <2> QED
    BY <1>13, <2>3
<1>15. k \in SuperTypes /\ LinksOf(k, d) = L
  BY <1>3, <1>11, <1>14, SuperFields DEF SuperTypes, LinksOf
<1>16. Fields(Without(k, d), of, held, g.nodes \ {d}, g.links \ L)
  BY <1>14, <1>15, WithoutIs
<1>17. Fields(Linked(Without(k, d), M), of, held, (g.nodes \ {d}) \cup EndsOf(M), (g.links \ L) \cup M)
  BY <1>5, <1>16, LinkedIs DEF Fields
<1> QED
  BY <1>1, <1>2, <1>3, <1>4, <1>5, <1>8, <1>9, <1>10, <1>17
-----------------------------------------------------------------------------
\* What a stage says of its parts.
LEMMA StageShape ==
  ASSUME flow \in Flows, NEW of, NEW held, NEW nodes, NEW links, NEW K, NEW R, NEW F, NEW B,
         Stage(of, held, nodes, links, K, R, F, B)
  PROVE  /\ of \in [Named -> {NoSuper} \cup Blocks] /\ held \in [Blocks -> SUBSET Named]
         /\ nodes \subseteq Blocks /\ links \subseteq Blocks \X Blocks
         /\ \A x \in Named : x \in Nat /\ (x \in R <=> of[x] # NoSuper) /\ (x \in R <=> of[x] \in Blocks)
         /\ R \subseteq Named /\ K \subseteq R /\ NoSuper \notin Blocks /\ Blocks \subseteq Nat
         /\ \A b \in K : b \in Joins /\ b \in Nat /\ b + 1 \in Named
         /\ \A e \in F : e \in Inner /\ e[1] \in R /\ e[2] \in R
<1>1. /\ [of |-> of, held |-> held, nodes |-> nodes, links |-> links] \in SuperTypes
      /\ \A x \in Named : of[x] # NoSuper <=> x \in R
      /\ R \subseteq Named /\ K \subseteq R \cap Joins
      /\ F \subseteq Inner /\ \A e \in F : e[1] \in R /\ e[2] \in R
  BY DEF Stage
<1>2. /\ of \in [Named -> {NoSuper} \cup Blocks] /\ held \in [Blocks -> SUBSET Named]
      /\ nodes \subseteq Blocks /\ links \subseteq Blocks \X Blocks
  BY <1>1 DEF SuperTypes
<1>3. Named \subseteq Nat /\ NoSuper \notin Blocks /\ Blocks \subseteq Nat
  BY FlowShape
<1>4. \A b \in K : b \in Joins /\ b \in Nat /\ b + 1 \in Named
  BY <1>1, <1>3, JoinShape
<1> QED
  BY <1>1, <1>2, <1>3, <1>4

\* A block gets a node of its own.
LEMMA StageNew ==
  ASSUME flow \in Flows, NEW of, NEW held, NEW nodes, NEW links, NEW K, NEW R, NEW F, NEW B,
         Stage(of, held, nodes, links, K, R, F, B), NEW x \in Blocks, of[x] = NoSuper
  PROVE  Stage([of EXCEPT ![x] = x], [held EXCEPT ![x] = {x}], nodes \cup {x}, links, K, R \cup {x}, F, B)
<1>1. /\ of \in [Named -> {NoSuper} \cup Blocks] /\ held \in [Blocks -> SUBSET Named]
      /\ nodes \subseteq Blocks /\ links \subseteq Blocks \X Blocks
      /\ \A y \in Named : y \in Nat /\ (y \in R <=> of[y] # NoSuper) /\ (y \in R <=> of[y] \in Blocks)
      /\ R \subseteq Named /\ K \subseteq R /\ NoSuper \notin Blocks /\ Blocks \subseteq Nat
      /\ \A b \in K : b \in Joins /\ b \in Nat /\ b + 1 \in Named
      /\ \A e \in F : e \in Inner /\ e[1] \in R /\ e[2] \in R
  BY StageShape
<1>2. InRuns(of, K) /\ Holding(of, held) /\ (Drawn(of, nodes, links, R, F) \/ GoesBack(of, B))
  BY DEF Stage
<1>3. x \in Named /\ x \notin R /\ x \in Nat /\ x # NoSuper
  BY <1>1 DEF Named
<1>4. PICK of2 : of2 = [of EXCEPT ![x] = x]
  OBVIOUS
<1>5. PICK held2 : held2 = [held EXCEPT ![x] = {x}]
  OBVIOUS
<1>6. /\ of2 \in [Named -> {NoSuper} \cup Blocks] /\ of2[x] = x
      /\ \A y \in Named : y # x => of2[y] = of[y]
  BY <1>1, <1>3, <1>4
<1>7. /\ held2 \in [Blocks -> SUBSET Named] /\ held2[x] = {x}
      /\ \A b \in Blocks : b # x => held2[b] = held[b]
  BY <1>1, <1>3, <1>5
<1>8. \A y \in Named : of2[y] # NoSuper <=> y \in R \cup {x}
  BY <1>1, <1>3, <1>6
<1>9. ASSUME NEW y \in Named, of[y] = x PROVE FALSE
  <2>1. x <= y /\ \A z \in x .. y - 1 : z \in K
    BY <1>2, <1>3, <1>9 DEF InRuns
  <2>2. y # x
    BY <1>3, <1>9
  <2>3. y \in Nat /\ x \in x .. y - 1
    BY <1>1, <1>3, <2>1, <2>2
  <2> QED
    BY <1>1, <1>3, <2>1, <2>3
<1>10. InRuns(of2, K)
  <2>1. ASSUME NEW y \in Named, of2[y] # NoSuper
        PROVE  of2[y] <= y /\ \A z \in of2[y] .. y - 1 : z \in K /\ of2[z] = of2[y]
    <3>1. CASE y = x
      BY <1>3, <1>6, <3>1
    <3>2. CASE y # x
      <4>1. of2[y] = of[y]
        BY <1>6, <3>2
      <4>2. of[y] <= y /\ \A z \in of[y] .. y - 1 : z \in K /\ of[z] = of[y]
        BY <1>2, <2>1, <4>1 DEF InRuns
      <4>3. ASSUME NEW z \in of[y] .. y - 1 PROVE z \in K /\ of2[z] = of2[y]
        <5>1. z \in K /\ of[z] = of[y]
          BY <4>2
        <5>2. z \in Named /\ z # x
          BY <1>1, <1>3, <5>1
        <5> QED
          BY <1>6, <4>1, <5>1, <5>2
      <4> QED
        BY <4>1, <4>2, <4>3
    <3> QED
      BY <3>1, <3>2
  <2>2. ASSUME NEW b \in K PROVE of2[b + 1] = of2[b]
    <3>1. of[b + 1] = of[b] /\ b \in Named /\ b \in R /\ b + 1 \in Named
      BY <1>1, <1>2 DEF InRuns
    <3>2. b # x /\ b + 1 # x
      BY <1>1, <1>3, <3>1
    <3> QED
      BY <1>6, <3>1, <3>2
  <2> QED
    BY <2>1, <2>2 DEF InRuns
<1>11. Holding(of2, held2)
  <2>1. ASSUME NEW y \in Named, of2[y] # NoSuper
        PROVE  held2[of2[y]] = {z \in Named : of2[z] = of2[y]}
    <3>1. CASE y = x
      <4>1. {z \in Named : of2[z] = x} = {x}
        BY <1>3, <1>6, <1>9
      <4> QED
        BY <1>6, <1>7, <3>1, <4>1
    <3>2. CASE y # x
      <4>1. of2[y] = of[y] /\ of[y] # x /\ of[y] \in Blocks
        BY <1>1, <1>6, <1>9, <2>1, <3>2
      <4>2. held2[of[y]] = {z \in Named : of[z] = of[y]}
        BY <1>2, <1>7, <2>1, <4>1 DEF Holding
      <4>3. \A z \in Named : of[z] = of[y] <=> of2[z] = of[y]
        BY <1>3, <1>6, <2>1, <4>1
      <4> QED
        BY <4>1, <4>2, <4>3
    <3> QED
      BY <3>1, <3>2
  <2>2. ASSUME NEW b \in Blocks, NEW f \in held2[b] \cap Functions PROVE <<f - 1, f>> \in Shrunk
    <3>1. b # x
      BY <1>7, FlowShape
    <3>2. f \in held[b] \cap Functions
      BY <1>7, <3>1
    <3> QED
      BY <1>2, <3>2 DEF Holding
  <2> QED
    BY <2>1, <2>2 DEF Holding
<1>12. Drawn(of2, nodes \cup {x}, links, R \cup {x}, F) \/ GoesBack(of2, B)
  <2>1. CASE Drawn(of, nodes, links, R, F)
    <3>1. nodes = {of[y] : y \in R} /\ links = {<<of[e[1]], of[e[2]]>> : e \in F}
      BY <2>1 DEF Drawn
    <3>2. \A y \in R : of2[y] = of[y]
      BY <1>1, <1>3, <1>6
    <3>3. nodes \cup {x} = {of2[y] : y \in R \cup {x}}
      BY <1>6, <3>1, <3>2
    <3>4. \A e \in F : <<of[e[1]], of[e[2]]>> = <<of2[e[1]], of2[e[2]]>>
      BY <1>1, <3>2
    <3>5. links = {<<of2[e[1]], of2[e[2]]>> : e \in F}
      BY <3>1, <3>4
    <3> QED
      BY <3>3, <3>5 DEF Drawn
  <2>2. CASE GoesBack(of, B)
    <3>1. PICK b \in B \cap Blocks : of[b] # NoSuper /\ \E e \in Inner : {of[e[1]], of[e[2]]} = {of[b]}
      BY <2>2 DEF GoesBack
    <3>2. PICK e \in Inner : {of[e[1]], of[e[2]]} = {of[b]}
      BY <3>1
    <3>3. e[1] \in Named /\ e[2] \in Named /\ b \in Named
      BY DEF Inner, Named
    <3>4. e[1] # x /\ e[2] # x /\ b # x
      BY <1>6, <3>1, <3>2, <1>3, <1>1
    <3>5. of2[e[1]] = of[e[1]] /\ of2[e[2]] = of[e[2]] /\ of2[b] = of[b]
      BY <1>6, <3>1, <3>3, <3>4
    <3> QED
      BY <3>1, <3>2, <3>5 DEF GoesBack
  <2> QED
    BY <1>2, <2>1, <2>2
<1>13. [of |-> of2, held |-> held2, nodes |-> nodes \cup {x}, links |-> links] \in SuperTypes
  BY <1>1, <1>6, <1>7 DEF SuperTypes
<1>14. R \cup {x} \subseteq Named /\ K \subseteq (R \cup {x}) \cap Joins /\ F \subseteq Inner
       /\ \A e \in F : e[1] \in R \cup {x} /\ e[2] \in R \cup {x}
  BY <1>1, <1>3
<1> QED
  BY <1>4, <1>5, <1>8, <1>10, <1>11, <1>12, <1>13, <1>14 DEF Stage

\* More blocks may have come too early.
LEMMA StageMore ==
  ASSUME flow \in Flows, NEW of, NEW held, NEW nodes, NEW links, NEW K, NEW R, NEW F, NEW B,
         Stage(of, held, nodes, links, K, R, F, B), NEW C, B \subseteq C
  PROVE  Stage(of, held, nodes, links, K, R, F, C)
<1>1. GoesBack(of, B) => GoesBack(of, C)
  BY DEF GoesBack
<1> QED
  BY <1>1 DEF Stage

\* An edge becomes a link.
LEMMA StageLink ==
  ASSUME flow \in Flows, NEW of, NEW held, NEW nodes, NEW links, NEW K, NEW R, NEW F, NEW B,
         Stage(of, held, nodes, links, K, R, F, B), NEW e \in Inner, e[1] \in R, e[2] \in R
  PROVE  Stage(of, held, nodes \cup {of[e[1]], of[e[2]]}, links \cup {<<of[e[1]], of[e[2]]>>},
               K, R, F \cup {e}, B)
<1>1. /\ of \in [Named -> {NoSuper} \cup Blocks] /\ held \in [Blocks -> SUBSET Named]
      /\ nodes \subseteq Blocks /\ links \subseteq Blocks \X Blocks
      /\ \A y \in Named : y \in R <=> of[y] \in Blocks
      /\ R \subseteq Named
  BY StageShape
<1>2. of[e[1]] \in Blocks /\ of[e[2]] \in Blocks
  BY <1>1
<1>3. [of |-> of, held |-> held, nodes |-> nodes \cup {of[e[1]], of[e[2]]},
       links |-> links \cup {<<of[e[1]], of[e[2]]>>}] \in SuperTypes
  BY <1>1, <1>2 DEF SuperTypes
<1>4. ASSUME Drawn(of, nodes, links, R, F)
      PROVE  Drawn(of, nodes \cup {of[e[1]], of[e[2]]}, links \cup {<<of[e[1]], of[e[2]]>>}, R, F \cup {e})
  <2>1. nodes = {of[y] : y \in R} /\ links = {<<of[d[1]], of[d[2]]>> : d \in F}
    BY <1>4 DEF Drawn
  <2>2. nodes \cup {of[e[1]], of[e[2]]} = {of[y] : y \in R}
    BY <2>1
  <2>3. links \cup {<<of[e[1]], of[e[2]]>>} = {<<of[d[1]], of[d[2]]>> : d \in F \cup {e}}
    BY <2>1
  <2> QED
    BY <2>2, <2>3 DEF Drawn
<1> QED
  BY <1>3, <1>4 DEF Stage

\* Taking a node off and putting it back.
LEMMA StageBack ==
  ASSUME flow \in Flows, NEW of, NEW held, NEW nodes, NEW links, NEW K, NEW R, NEW F, NEW B,
         Stage(of, held, nodes, links, K, R, F, B), NEW n \in R,
         NEW W, W = Touching(links, of[n])
  PROVE  Stage(of, held, (nodes \ {of[n]}) \cup ({of[n]} \cup EndsOf(W)), (links \ W) \cup W, K, R, F, B)
<1>1. /\ of \in [Named -> {NoSuper} \cup Blocks] /\ held \in [Blocks -> SUBSET Named]
      /\ nodes \subseteq Blocks /\ links \subseteq Blocks \X Blocks
      /\ \A y \in Named : y \in R <=> of[y] \in Blocks
      /\ R \subseteq Named /\ \A e \in F : e[1] \in R /\ e[2] \in R
  BY StageShape
<1>2. W \subseteq links /\ W \subseteq Blocks \X Blocks /\ (links \ W) \cup W = links /\ of[n] \in Blocks
  BY <1>1 DEF Touching
<1>3. EndsOf(W) \subseteq Blocks
  BY <1>2, EndsOfAre
<1>4. PICK more : more = (nodes \ {of[n]}) \cup ({of[n]} \cup EndsOf(W))
  OBVIOUS
<1>5. more \subseteq Blocks
  BY <1>1, <1>2, <1>3, <1>4
<1>6. ASSUME Drawn(of, nodes, links, R, F) PROVE more = nodes
  <2>1. nodes = {of[y] : y \in R} /\ links = {<<of[d[1]], of[d[2]]>> : d \in F}
    BY <1>6 DEF Drawn
  <2>2. of[n] \in nodes
    BY <2>1
  <2>3. ASSUME NEW y \in EndsOf(W) PROVE y \in nodes
    <3>1. PICK l \in W : y = l[1] \/ y = l[2]
      BY <1>2, EndsOfAre
    <3>2. PICK d \in F : l = <<of[d[1]], of[d[2]]>>
      BY <1>2, <2>1
    <3> QED
      BY <1>1, <2>1, <3>1, <3>2
  <2> QED
    BY <1>4, <2>2, <2>3
<1>7. [of |-> of, held |-> held, nodes |-> more, links |-> links] \in SuperTypes
  BY <1>1, <1>5 DEF SuperTypes
<1>8. Drawn(of, more, links, R, F) \/ GoesBack(of, B)
  BY <1>6 DEF Stage
<1>9. Stage(of, held, more, links, K, R, F, B)
  BY <1>7, <1>8 DEF Stage
<1> QED
  BY <1>2, <1>4, <1>9

\* What a name is mapped to when the node of y is taken over by s.
HeldWith(of, held, y) == IF of[y] = NoSuper THEN {} ELSE held[of[y]]
Taken(of, held, s, y) ==
  [x \in Named |-> IF x = y \/ x \in HeldWith(of, held, y) THEN s ELSE of[x]]
TakenHeld(of, held, s, y) == [held EXCEPT ![s] = @ \cup {y} \cup HeldWith(of, held, y)]

\* The block n is the last of its node, and what follows begins one, if any.
LEMMA JoinNames ==
  ASSUME flow \in Flows, NEW of, NEW held, NEW nodes, NEW links, NEW K, NEW R, NEW F, NEW B,
         Stage(of, held, nodes, links, K, R, F, B), NEW n \in Joins, n \in R, n \notin K,
         NEW of2, of2 = Taken(of, held, of[n], n + 1)
  PROVE  /\ n + 1 \in Named /\ n \in Named /\ n \in Nat /\ of[n] \in Blocks /\ of[n] <= n
         /\ of[n] # of[n + 1] /\ of[n + 1] \in {NoSuper, n + 1}
         /\ of2 \in [Named -> {NoSuper} \cup Blocks]
         /\ of2[n + 1] = of[n] /\ of2[n] = of[n]
         /\ \A x \in R : of2[x] = Renamed(of[n + 1], of[n], of[x])
         /\ \A x \in Named : x # n + 1 /\ x \notin R => of2[x] = NoSuper
         /\ of[n + 1] # NoSuper => held[of[n + 1]] = {x \in Named : of[x] = of[n + 1]}
<1>1. /\ of \in [Named -> {NoSuper} \cup Blocks] /\ held \in [Blocks -> SUBSET Named]
      /\ \A x \in Named : x \in Nat /\ (x \in R <=> of[x] # NoSuper) /\ (x \in R <=> of[x] \in Blocks)
      /\ R \subseteq Named /\ K \subseteq R /\ NoSuper \notin Blocks /\ Blocks \subseteq Nat
  BY StageShape
<1>2. InRuns(of, K) /\ Holding(of, held)
  BY DEF Stage
<1>3. PICK y : y = n + 1
  OBVIOUS
<1>4. y \in Named /\ n \in Named /\ n \in Nat /\ of[n] \in Blocks
  BY <1>1, <1>3, JoinShape
<1>5. of[n] <= n /\ of[n] \in Nat
  BY <1>1, <1>2, <1>4 DEF InRuns
<1>6. of[y] # NoSuper => of[y] = y
  <2> SUFFICES ASSUME of[y] # NoSuper, of[y] # y PROVE FALSE
    OBVIOUS
  <2>1. of[y] <= y /\ of[y] \in Nat /\ \A z \in of[y] .. y - 1 : z \in K
    BY <1>1, <1>2, <1>4 DEF InRuns
  <2>2. n \in of[y] .. y - 1
    BY <1>3, <1>4, <2>1
  <2> QED
    BY <2>1, <2>2
<1>7. of[n] # of[y]
  BY <1>1, <1>3, <1>4, <1>5, <1>6
<1>8. of[y] # NoSuper => held[of[y]] = {x \in Named : of[x] = of[y]}
  BY <1>2, <1>4 DEF Holding
<1>9. of2 = [x \in Named |-> IF x = y \/ (of[y] # NoSuper /\ of[x] = of[y]) THEN of[n] ELSE of[x]]
  BY <1>3, <1>8 DEF Taken, HeldWith
<1>10. of2 \in [Named -> {NoSuper} \cup Blocks]
  BY <1>1, <1>4, <1>9
<1>11. of2[y] = of[n] /\ of2[n] = of[n]
  BY <1>4, <1>7, <1>9
<1>12. \A x \in R : of2[x] = Renamed(of[y], of[n], of[x])
  BY <1>1, <1>4, <1>9 DEF Renamed
<1>13. \A x \in Named : x # y /\ x \notin R => of2[x] = NoSuper
  BY <1>1, <1>4, <1>9
<1> QED
  BY <1>3, <1>4, <1>5, <1>6, <1>7, <1>8, <1>10, <1>11, <1>12, <1>13

\* The nodes stay runs of joined blocks.
LEMMA JoinRuns ==
  ASSUME flow \in Flows, NEW of, NEW held, NEW nodes, NEW links, NEW K, NEW R, NEW F, NEW B,
         Stage(of, held, nodes, links, K, R, F, B), NEW n \in Joins, n \in R, n \notin K,
         NEW of2, of2 = Taken(of, held, of[n], n + 1)
  PROVE  InRuns(of2, K \cup {n})
<1>1. /\ \A x \in Named : x \in Nat /\ (x \in R <=> of[x] # NoSuper) /\ (x \in R <=> of[x] \in Blocks)
      /\ R \subseteq Named /\ K \subseteq R /\ NoSuper \notin Blocks /\ Blocks \subseteq Nat
      /\ \A b \in K : b \in Nat /\ b + 1 \in Named
  BY StageShape
<1>2. InRuns(of, K)
  BY DEF Stage
<1>3. PICK s : s = of[n]
  OBVIOUS
<1>4. PICK y : y = n + 1
  OBVIOUS
<1>5. PICK d : d = of[y]
  OBVIOUS
<1>6. /\ y \in Named /\ n \in Named /\ n \in Nat /\ s \in Blocks /\ s <= n /\ s \in Nat
      /\ s # d /\ d \in {NoSuper, y} /\ of2[y] = s /\ of2[n] = s
      /\ \A x \in R : of2[x] = Renamed(d, s, of[x])
      /\ \A x \in Named : x # y /\ x \notin R => of2[x] = NoSuper
  <2>1. /\ n + 1 \in Named /\ n \in Named /\ n \in Nat /\ of[n] \in Blocks /\ of[n] <= n
        /\ of[n] # of[n + 1] /\ of[n + 1] \in {NoSuper, n + 1}
        /\ of2[n + 1] = of[n] /\ of2[n] = of[n]
        /\ \A x \in R : of2[x] = Renamed(of[n + 1], of[n], of[x])
        /\ \A x \in Named : x # n + 1 /\ x \notin R => of2[x] = NoSuper
    BY JoinNames
  <2> QED
    BY <1>1, <1>3, <1>4, <1>5, <2>1
<1>7. \A z \in s .. n : z \in K \cup {n} /\ z \in R /\ of2[z] = s
  <2>1. ASSUME NEW z \in s .. n - 1 PROVE z \in K /\ of[z] = s
    BY <1>1, <1>2, <1>3, <1>6 DEF InRuns
  <2>2. ASSUME NEW z \in s .. n - 1 PROVE z \in K /\ z \in R /\ of2[z] = s
    BY <1>1, <1>6, <2>1, <2>2 DEF Renamed
  <2>3. \A z \in s .. n : z = n \/ z \in s .. n - 1
    BY <1>6
  <2> QED
    BY <1>6, <2>2, <2>3
<1>8. ASSUME NEW x \in R
      PROVE  of[x] \in Nat /\ of[x] <= x /\ \A z \in of[x] .. x - 1 : z \in K /\ z \in R /\ of[z] = of[x]
  BY <1>1, <1>2 DEF InRuns
<1>9. ASSUME NEW x \in Named, of2[x] # NoSuper
      PROVE  of2[x] <= x /\ \A z \in of2[x] .. x - 1 : z \in K \cup {n} /\ of2[z] = of2[x]
  <2>1. CASE x = y
    <3>1. of2[x] = s /\ x - 1 = n /\ s <= x
      BY <1>4, <1>6, <2>1
    <3> QED
      BY <1>7, <3>1
  <2>2. CASE x # y /\ of[x] # d
    <3>1. x \in R /\ of2[x] = of[x]
      BY <1>6, <1>9, <2>2 DEF Renamed
    <3>2. ASSUME NEW z \in of[x] .. x - 1 PROVE z \in K /\ of2[z] = of[x]
      BY <1>6, <1>8, <2>2, <3>1 DEF Renamed
    <3> QED
      BY <1>8, <3>1, <3>2
  <2>3. CASE x # y /\ of[x] = d
    <3>1. x \in R
      BY <1>6, <1>9, <2>3
    <3>2. of2[x] = s /\ d = y /\ d <= x
      BY <1>1, <1>6, <1>8, <2>3, <3>1 DEF Renamed
    <3>3. ASSUME NEW z \in s .. x - 1 PROVE z \in K \cup {n} /\ of2[z] = s
      <4>1. z \in s .. n \/ z \in y .. x - 1
        BY <1>1, <1>4, <1>6
      <4>2. CASE z \in s .. n
        BY <1>7, <4>2
      <4>3. CASE z \in y .. x - 1
        <5>1. z \in K /\ z \in R /\ of[z] = d
          BY <1>8, <2>3, <3>1, <3>2, <4>3
        <5> QED
          BY <1>6, <5>1 DEF Renamed
      <4> QED
        BY <4>1, <4>2, <4>3
    <3>4. s <= x
      BY <1>1, <1>4, <1>6, <3>1, <3>2
    <3> QED
      BY <3>2, <3>3, <3>4
  <2> QED
    BY <2>1, <2>2, <2>3
<1>10. ASSUME NEW b \in K \cup {n} PROVE of2[b + 1] = of2[b]
  <2>1. CASE b = n
    BY <1>4, <1>6, <2>1
  <2>2. CASE b \in K
    <3>1. of[b + 1] = of[b] /\ b \in R /\ b + 1 \in R
      BY <1>1, <1>2, <2>2 DEF InRuns
    <3> QED
      BY <1>6, <3>1
  <2> QED
    BY <2>1, <2>2
<1> QED
  BY <1>9, <1>10 DEF InRuns

\* The nodes hold what is mapped to them.
LEMMA JoinHolding ==
  ASSUME flow \in Flows, NEW of, NEW held, NEW nodes, NEW links, NEW K, NEW R, NEW F, NEW B,
         Stage(of, held, nodes, links, K, R, F, B), NEW n \in Joins, n \in R, n \notin K,
         NEW of2, of2 = Taken(of, held, of[n], n + 1),
         NEW held2, held2 = TakenHeld(of, held, of[n], n + 1)
  PROVE  Holding(of2, held2) /\ held2 \in [Blocks -> SUBSET Named]
<1>1. /\ \A x \in Named : x \in Nat /\ (x \in R <=> of[x] # NoSuper) /\ (x \in R <=> of[x] \in Blocks)
      /\ R \subseteq Named /\ NoSuper \notin Blocks /\ held \in [Blocks -> SUBSET Named]
  BY StageShape
<1>2. Holding(of, held)
  BY DEF Stage
<1>3. PICK s : s = of[n]
  OBVIOUS
<1>4. PICK y : y = n + 1
  OBVIOUS
<1>5. PICK d : d = of[y]
  OBVIOUS
<1>6. /\ y \in Named /\ n \in Named /\ s \in Blocks
      /\ s # d /\ of2[y] = s /\ of2[n] = s
      /\ \A x \in R : of2[x] = Renamed(d, s, of[x])
      /\ \A x \in Named : x # y /\ x \notin R => of2[x] = NoSuper
      /\ d # NoSuper => held[d] = {x \in Named : of[x] = d}
  <2>1. /\ n + 1 \in Named /\ n \in Named /\ of[n] \in Blocks
        /\ of[n] # of[n + 1] /\ of2[n + 1] = of[n] /\ of2[n] = of[n]
        /\ \A x \in R : of2[x] = Renamed(of[n + 1], of[n], of[x])
        /\ \A x \in Named : x # n + 1 /\ x \notin R => of2[x] = NoSuper
        /\ of[n + 1] # NoSuper => held[of[n + 1]] = {x \in Named : of[x] = of[n + 1]}
    BY JoinNames
  <2> QED
    BY <1>3, <1>4, <1>5, <2>1
<1>0. PICK other : other = HeldWith(of, held, y)
  OBVIOUS
<1>7. other = {x \in Named : d # NoSuper /\ of[x] = d}
  BY <1>0, <1>4, <1>5, <1>6 DEF HeldWith
<1>8. /\ held2 \in [Blocks -> SUBSET Named] /\ held2[s] = held[s] \cup {y} \cup other
      /\ \A b \in Blocks : b # s => held2[b] = held[b]
  BY <1>0, <1>1, <1>3, <1>4, <1>6, <1>7 DEF TakenHeld
<1>9. held[s] = {x \in Named : of[x] = s}
  BY <1>1, <1>2, <1>3, <1>6 DEF Holding
<1>10. ASSUME NEW x \in Named, of2[x] # NoSuper
       PROVE  held2[of2[x]] = {z \in Named : of2[z] = of2[x]}
  <2>1. CASE of2[x] = s
    <3>1. ASSUME NEW z \in Named PROVE of2[z] = s <=> of[z] = s \/ z = y \/ (d # NoSuper /\ of[z] = d)
      BY <1>1, <1>5, <1>6 DEF Renamed
    <3>2. held2[s] \subseteq Named
      BY <1>6, <1>8
    <3>3. ASSUME NEW z \in Named PROVE z \in held2[s] <=> of[z] = s \/ z = y \/ (d # NoSuper /\ of[z] = d)
      <4>1. z \in other <=> d # NoSuper /\ of[z] = d
        BY <1>7
      <4>2. z \in held[s] <=> of[z] = s
        BY <1>9
      <4> QED
        BY <1>8, <4>1, <4>2
    <3>4. held2[s] = {z \in Named : of2[z] = s}
      BY <3>1, <3>2, <3>3
    <3> QED
      BY <2>1, <3>4
  <2>2. CASE of2[x] # s
    <3>1. PICK t : t = of2[x]
      OBVIOUS
    <3>2. x \in R /\ t = of[x] /\ t # d /\ t # s /\ t # NoSuper /\ t \in Blocks
      BY <1>1, <1>6, <1>10, <2>2, <3>1 DEF Renamed
    <3>3. ASSUME NEW z \in Named PROVE of2[z] = t <=> of[z] = t
      BY <1>1, <1>5, <1>6, <3>2 DEF Renamed
    <3>4. held2[t] = {z \in Named : of[z] = t}
      BY <1>1, <1>2, <1>8, <3>2 DEF Holding
    <3> QED
      BY <3>1, <3>3, <3>4
  <2> QED
    BY <2>1, <2>2
<1>11. ASSUME NEW b \in Blocks, NEW f \in held2[b] \cap Functions PROVE <<f - 1, f>> \in Shrunk
  <2>1. CASE f \in held[b]
    BY <1>2, <1>11, <2>1 DEF Holding
  <2>2. CASE f \notin held[b]
    <3>1. b = s /\ f \in {y} \cup other
      BY <1>8, <2>2
    <3>2. CASE f = y
      <4>1. y - 1 = n /\ <<n, n + 1>> \in Shrunk
        BY <1>4, FlowShape, JoinShape
      <4> QED
        BY <1>4, <3>2, <4>1
    <3>3. CASE f \in other
      <4>1. d # NoSuper /\ d \in Blocks /\ f \in held[d]
        BY <1>1, <1>5, <1>6, <1>7, <3>3
      <4> QED
        BY <1>2, <4>1 DEF Holding
    <3> QED
      BY <3>1, <3>2, <3>3
  <2> QED
    BY <2>1, <2>2
<1> QED
  BY <1>8, <1>10, <1>11 DEF Holding

\* No link has the end d; links join nodes.
Apart(L, d) == \A l \in L : d \notin {l[1], l[2]}
Joining(nodes, links) == \A l \in links : l[1] \in nodes /\ l[2] \in nodes

\* A graph without a link between the two nodes is the one with one of them
\* renamed.
LEMMA RenamedGraph ==
  ASSUME NEW nodes, NEW links, nodes \subseteq Blocks, links \subseteq Blocks \X Blocks,
         Joining(nodes, links),
         NEW s \in nodes, NEW d, s # d,
         NEW W, W = Touching(links, s), Apart(W, d),
         NEW L, L = Touching(links \ W, d)
  PROVE  /\ ((nodes \ {s}) \ {d}) \cup EndsOf(Moved(L, d, s)) \cup ({s} \cup EndsOf(W))
              = RenamedAll(nodes, d, s)
         /\ (((links \ W) \ L) \cup Moved(L, d, s)) \cup W
              = Moved(links, d, s)
<1>0. /\ (\A l \in links : l[1] \in nodes /\ l[2] \in nodes) /\ \A l \in W : d \notin {l[1], l[2]}
      /\ W = {l \in links : s \in {l[1], l[2]}}
      /\ L = {l \in links \ W : d \in {l[1], l[2]}}
  BY DEF Touching, Apart, Joining
<1>1. \A l \in links : l = <<l[1], l[2]>>
  <2>1. \A l \in Blocks \X Blocks : l = <<l[1], l[2]>>
    OBVIOUS
  <2> QED
    BY <2>1
<1>2. \A x : x # d => Renamed(d, s, x) = x
  BY DEF Renamed
<1>3. PICK M : M = Moved(L, d, s)
  OBVIOUS
<1>4. M = {<<Renamed(d, s, l[1]), Renamed(d, s, l[2])>> : l \in L}
  BY <1>3 DEF Moved
<1>5. \A l \in links \ L : <<Renamed(d, s, l[1]), Renamed(d, s, l[2])>> = l
  <2>1. ASSUME NEW l \in links \ L PROVE l[1] # d /\ l[2] # d
    BY <1>0
  <2> QED
    BY <1>1, <1>2, <2>1
<1>6. (((links \ W) \ L) \cup M) \cup W = (links \ L) \cup M
  BY <1>0
<1>7. (links \ L) \cup M = {<<Renamed(d, s, l[1]), Renamed(d, s, l[2])>> : l \in links}
  <2>1. {<<Renamed(d, s, l[1]), Renamed(d, s, l[2])>> : l \in links}
        = {<<Renamed(d, s, l[1]), Renamed(d, s, l[2])>> : l \in links \ L} \cup M
    BY <1>0, <1>4
  <2>2. {<<Renamed(d, s, l[1]), Renamed(d, s, l[2])>> : l \in links \ L} = links \ L
    <3>1. PICK X : X = links \ L
      OBVIOUS
    <3>2. \A l \in X : <<Renamed(d, s, l[1]), Renamed(d, s, l[2])>> = l
      BY <1>5, <3>1
    <3>3. {<<Renamed(d, s, l[1]), Renamed(d, s, l[2])>> : l \in X} = X
      BY ONLY <3>2
    <3> QED
      BY <3>1, <3>3
  <2> QED
    BY <2>1, <2>2
<1>8. PICK E : E = EndsOf(M)
  OBVIOUS
<1>9. \A x \in E : \E y \in nodes : x = Renamed(d, s, y)
  <2>1. ASSUME NEW m \in M PROVE \E l \in L : m[1] = Renamed(d, s, l[1]) /\ m[2] = Renamed(d, s, l[2])
    <3>1. PICK l \in L : m = <<Renamed(d, s, l[1]), Renamed(d, s, l[2])>>
      BY <1>4
    <3> QED
      BY <3>1
  <2>2. \A x \in E : \E m \in M : x = m[1] \/ x = m[2]
    BY <1>8 DEF EndsOf
  <2>3. L \subseteq links
    BY <1>0
  <2>4. ASSUME NEW l \in L PROVE l[1] \in nodes /\ l[2] \in nodes
    BY <1>0, <2>3
  <2>5. ASSUME NEW x \in E PROVE \E y \in nodes : x = Renamed(d, s, y)
    <3>1. PICK m \in M : x = m[1] \/ x = m[2]
      BY <2>2
    <3>2. PICK l \in L : m[1] = Renamed(d, s, l[1]) /\ m[2] = Renamed(d, s, l[2])
      BY <2>1
    <3> QED
      BY <2>4, <3>1, <3>2
  <2> QED
    BY <2>5
<1>10. PICK V : V = EndsOf(W)
  OBVIOUS
<1>11. \A x \in V : x \in nodes /\ x # d
  <2>1. \A x \in V : \E l \in W : x = l[1] \/ x = l[2]
    BY <1>10 DEF EndsOf
  <2> QED
    BY <1>0, <2>1
<1>12. ((nodes \ {s}) \ {d}) \cup E \cup ({s} \cup V) = {Renamed(d, s, x) : x \in nodes}
  <2>1. ASSUME NEW x \in ((nodes \ {s}) \ {d}) \cup E \cup ({s} \cup V)
        PROVE  x \in {Renamed(d, s, y) : y \in nodes}
    <3>1. CASE x \in nodes /\ x # d
      BY <1>2, <3>1
    <3>2. CASE x \in E
      BY <1>9, <3>2
    <3> QED
      BY <1>11, <2>1, <3>1, <3>2
  <2>2. ASSUME NEW x \in nodes PROVE Renamed(d, s, x) \in ((nodes \ {s}) \ {d}) \cup E \cup ({s} \cup V)
    BY DEF Renamed
  <2> QED
    BY <2>1, <2>2
<1> QED
  BY <1>3, <1>6, <1>7, <1>8, <1>10, <1>12 DEF RenamedAll, Moved

\* A node takes the block that follows, and its node if it has one.
LEMMA StageJoin ==
  ASSUME flow \in Flows, NEW of, NEW held, NEW nodes, NEW links, NEW K, NEW R, NEW F, NEW B,
         Stage(of, held, nodes, links, K, R, F, B), NEW n \in Joins, n \in R, n \notin K,
         n + 1 \in R => n + 1 \in B,
         NEW of2, of2 = Taken(of, held, of[n], n + 1),
         NEW held2, held2 = TakenHeld(of, held, of[n], n + 1),
         NEW W, W = Touching(links, of[n]),
         NEW L, L = Touching(links \ W, of[n + 1]),
         NEW M, M = Moved(L, of[n + 1], of[n])
  PROVE  Stage(of2, held2,
               (((nodes \ {of[n]}) \ {of[n + 1]}) \cup EndsOf(M)) \cup ({of[n]} \cup EndsOf(W)),
               (((links \ W) \ L) \cup M) \cup W, K \cup {n}, R \cup {n + 1}, F, B)
<1>1. /\ \A x \in Named : x \in Nat /\ (x \in R <=> of[x] # NoSuper) /\ (x \in R <=> of[x] \in Blocks)
      /\ R \subseteq Named /\ K \subseteq R /\ NoSuper \notin Blocks
      /\ nodes \subseteq Blocks /\ links \subseteq Blocks \X Blocks
      /\ \A e \in F : e \in Inner /\ e[1] \in R /\ e[2] \in R
      /\ \A b \in K : b \in Joins
  BY StageShape
<1>2. PICK s : s = of[n]
  OBVIOUS
<1>3. PICK y : y = n + 1
  OBVIOUS
<1>4. PICK d : d = of[y]
  OBVIOUS
<1>5. /\ y \in Named /\ n \in Named /\ s \in Blocks /\ s # d /\ d \in {NoSuper, y}
      /\ of2 \in [Named -> {NoSuper} \cup Blocks]
      /\ of2[y] = s /\ of2[n] = s
      /\ \A x \in R : of2[x] = Renamed(d, s, of[x])
      /\ \A x \in Named : x # y /\ x \notin R => of2[x] = NoSuper
  <2>1. /\ n + 1 \in Named /\ n \in Named /\ of[n] \in Blocks
        /\ of[n] # of[n + 1] /\ of[n + 1] \in {NoSuper, n + 1}
        /\ of2 \in [Named -> {NoSuper} \cup Blocks]
        /\ of2[n + 1] = of[n] /\ of2[n] = of[n]
        /\ \A x \in R : of2[x] = Renamed(of[n + 1], of[n], of[x])
        /\ \A x \in Named : x # n + 1 /\ x \notin R => of2[x] = NoSuper
    BY JoinNames
  <2> QED
    BY <1>2, <1>3, <1>4, <2>1
<1>6. InRuns(of2, K \cup {n})
  BY JoinRuns
<1>7. Holding(of2, held2) /\ held2 \in [Blocks -> SUBSET Named]
  BY JoinHolding
<1>8. \A x \in Named : of2[x] # NoSuper <=> x \in R \cup {y}
  BY <1>1, <1>5 DEF Renamed
<1>9. PICK E : E = EndsOf(M)
  OBVIOUS
<1>10. PICK V : V = EndsOf(W)
  OBVIOUS
<1>11. PICK nodes2 : nodes2 = (((nodes \ {s}) \ {d}) \cup E) \cup ({s} \cup V)
  OBVIOUS
<1>12. PICK links2 : links2 = (((links \ W) \ L) \cup M) \cup W
  OBVIOUS
<1>13. \A l \in links : l = <<l[1], l[2]>> /\ l[1] \in Blocks /\ l[2] \in Blocks
  <2>1. \A l \in Blocks \X Blocks : l = <<l[1], l[2]>> /\ l[1] \in Blocks /\ l[2] \in Blocks
    OBVIOUS
  <2> QED
    BY <1>1, <2>1
<1>14. links2 \subseteq Blocks \X Blocks /\ nodes2 \subseteq Blocks
  <2>1. ASSUME NEW l \in L PROVE Renamed(d, s, l[1]) \in Blocks /\ Renamed(d, s, l[2]) \in Blocks
    BY <1>5, <1>13 DEF Renamed, Touching
  <2>2. M \subseteq Blocks \X Blocks
    <3>1. M = {<<Renamed(d, s, l[1]), Renamed(d, s, l[2])>> : l \in L}
      BY <1>2, <1>3, <1>4 DEF Moved
    <3>2. ASSUME NEW m \in M PROVE m \in Blocks \X Blocks
      <4>1. PICK l \in L : m = <<Renamed(d, s, l[1]), Renamed(d, s, l[2])>>
        BY <3>1
      <4> QED
        BY <2>1, <4>1
    <3> QED
      BY <3>2
  <2>3. W \subseteq links
    BY DEF Touching
  <2>4. E \subseteq Blocks
    BY <1>9, <2>2, EndsOfAre
  <2>5. V \subseteq Blocks
    BY <1>1, <1>10, <2>3, EndsOfAre
  <2> QED
    BY <1>1, <1>5, <1>11, <1>12, <2>2, <2>3, <2>4, <2>5
<1>15. Drawn(of2, nodes2, links2, R \cup {y}, F) \/ GoesBack(of2, B)
  <2>1. CASE GoesBack(of, B)
    <3>1. PICK b \in B \cap Blocks : of[b] # NoSuper /\ \E e \in Inner : {of[e[1]], of[e[2]]} = {of[b]}
      BY <2>1 DEF GoesBack
    <3>2. PICK e \in Inner : {of[e[1]], of[e[2]]} = {of[b]}
      BY <3>1
    <3>3. e[1] \in Named /\ e[2] \in Named /\ b \in Named
      BY DEF Inner, Named
    <3>4. e[1] \in R /\ e[2] \in R /\ b \in R
      BY <1>1, <3>1, <3>2, <3>3
    <3>5. of2[e[1]] = of2[b] /\ of2[e[2]] = of2[b]
      BY <1>5, <3>2, <3>4
    <3>6. of2[b] # NoSuper
      BY <1>8, <3>3, <3>4
    <3> QED
      BY <3>1, <3>5, <3>6 DEF GoesBack
  <2>2. CASE Drawn(of, nodes, links, R, F)
    <3>1. nodes = {of[x] : x \in R} /\ links = {<<of[e[1]], of[e[2]]>> : e \in F}
      BY <2>2 DEF Drawn
    <3>2. s \in nodes /\ \A l \in links : l[1] \in nodes /\ l[2] \in nodes
      BY <1>1, <1>2, <3>1
    <3>3. CASE \E l \in W : d \in {l[1], l[2]}
      <4>1. PICK l \in W : d \in {l[1], l[2]}
        BY <3>3
      <4>2. l \in links /\ s \in {l[1], l[2]}
        BY <1>2 DEF Touching
      <4>3. PICK e \in F : l = <<of[e[1]], of[e[2]]>>
        BY <3>1, <4>2
      <4>4. {of[e[1]], of[e[2]]} = {s, d}
        BY <1>5, <4>1, <4>2, <4>3
      <4>5. e \in Inner /\ e[1] \in R /\ e[2] \in R
        BY <1>1
      <4>6. of2[e[1]] = s /\ of2[e[2]] = s
        BY <1>5, <4>4, <4>5 DEF Renamed
      <4>7. d # NoSuper
        <5>1. l[1] \in Blocks /\ l[2] \in Blocks
          BY <1>13, <4>2
        <5> QED
          BY <1>1, <4>1, <5>1
      <4>8. y \in B \cap Blocks
        <5>1. l[1] \in Blocks /\ l[2] \in Blocks
          BY <1>13, <4>2
        <5> QED
          BY <1>1, <1>3, <1>4, <1>5, <4>1, <4>7, <5>1
      <4>9. of2[y] = s /\ s # NoSuper
        BY <1>1, <1>5
      <4> QED
        BY <4>5, <4>6, <4>8, <4>9 DEF GoesBack
    <3>4. CASE \A l \in W : d \notin {l[1], l[2]}
      <4>1. W = Touching(links, s) /\ L = Touching(links \ W, d)
            /\ M = Moved(L, d, s)
        BY <1>2, <1>3, <1>4
      <4>2. /\ ((nodes \ {s}) \ {d}) \cup EndsOf(Moved(L, d, s)) \cup ({s} \cup EndsOf(W))
                 = RenamedAll(nodes, d, s)
            /\ (((links \ W) \ L) \cup Moved(L, d, s)) \cup W
                 = Moved(links, d, s)
        <5>1. /\ nodes \subseteq Blocks /\ links \subseteq Blocks \X Blocks
              /\ Joining(nodes, links)
              /\ s \in nodes /\ s # d
              /\ W = Touching(links, s) /\ Apart(W, d)
              /\ L = Touching(links \ W, d)
          BY <1>1, <1>5, <3>2, <3>4, <4>1 DEF Apart, Joining
        <5> QED
          BY ONLY <5>1, RenamedGraph
      <4>3. nodes2 = {Renamed(d, s, x) : x \in nodes}
        BY <1>9, <1>10, <1>11, <4>1, <4>2 DEF RenamedAll
      <4>4. links2 = {<<Renamed(d, s, l[1]), Renamed(d, s, l[2])>> : l \in links}
        BY <1>12, <4>1, <4>2 DEF Moved
      <4>5. {Renamed(d, s, x) : x \in nodes} = {of2[x] : x \in R}
        BY <1>5, <3>1
      <4>6. nodes2 = {of2[x] : x \in R \cup {y}}
        BY <1>5, <4>3, <4>5
      <4>7. ASSUME NEW e \in F
            PROVE  <<Renamed(d, s, of[e[1]]), Renamed(d, s, of[e[2]])>> = <<of2[e[1]], of2[e[2]]>>
        BY <1>1, <1>5
      <4>8. ASSUME NEW l \in links
            PROVE  \E e \in F : <<Renamed(d, s, l[1]), Renamed(d, s, l[2])>> = <<of2[e[1]], of2[e[2]]>>
        <5>1. PICK e \in F : l = <<of[e[1]], of[e[2]]>>
          BY <3>1
        <5> QED
          BY <4>7, <5>1
      <4>9. ASSUME NEW e \in F
            PROVE  \E l \in links : <<Renamed(d, s, l[1]), Renamed(d, s, l[2])>> = <<of2[e[1]], of2[e[2]]>>
        <5>1. PICK l \in links : l = <<of[e[1]], of[e[2]]>>
          BY <3>1
        <5> QED
          BY <4>7, <5>1
      <4>10. links2 = {<<of2[e[1]], of2[e[2]]>> : e \in F}
        BY <4>4, <4>8, <4>9
      <4> QED
        BY <4>6, <4>10 DEF Drawn
    <3> QED
      BY <3>3, <3>4
  <2> QED
    BY <2>1, <2>2 DEF Stage
<1>16. [of |-> of2, held |-> held2, nodes |-> nodes2, links |-> links2] \in SuperTypes
  BY <1>5, <1>7, <1>14 DEF SuperTypes
<1>17. /\ R \cup {y} \subseteq Named /\ K \cup {n} \subseteq (R \cup {y}) \cap Joins
       /\ F \subseteq Inner /\ \A e \in F : e[1] \in R \cup {y} /\ e[2] \in R \cup {y}
  BY <1>1, <1>5
<1>18. Stage(of2, held2, nodes2, links2, K \cup {n}, R \cup {y}, F, B)
  BY <1>6, <1>7, <1>8, <1>15, <1>16, <1>17 DEF Stage
<1> QED
  BY <1>2, <1>3, <1>4, <1>9, <1>10, <1>11, <1>12, <1>18
-----------------------------------------------------------------------------
Ahead(n) == {e[2] : e \in OutOf(n)}
LinkFor(n, dst) == {e \in {<<n, dst>>} : dst \notin Functions}
\* A stage, with what was taken off the graph.
StageOf(g, X, W, K, R, F, B) == Stage(g.of, g.held, g.nodes \cup X, g.links \cup W, K, R, F, B)

\* Following one edge of a node that is joined to nothing.
LEMMA FollowOne ==
  ASSUME flow \in Flows, NEW h \in SuperTypes, NEW X, X \subseteq Blocks, NEW W, W \subseteq Blocks \X Blocks,
         NEW K, NEW R, NEW F, NEW B, StageOf(h, X, W, K, R, F, B),
         NEW n \in Blocks \ Joins, n \in R, NEW dst, <<n, dst>> \in Inside
  PROVE  /\ Follow(h, n, dst) \in SuperTypes
         /\ StageOf(Follow(h, n, dst), X, W, K, R \cup ({dst} \ Functions),
                    F \cup LinkFor(n, dst), B)
<1>1. dst \in Named /\ n \in Named
  <2>1. PICK e \in Inside : e = <<n, dst>>
    OBVIOUS
  <2>2. e[2] = dst /\ e[1] = n
    BY <2>1
  <2> QED
    BY <2>1, <2>2, FlowShape
<1>2. <<n, dst>> \notin Shrunk
  <2> SUFFICES ASSUME <<n, dst>> \in Shrunk PROVE FALSE
    OBVIOUS
  <2>1. PICK e \in Shrunk : e = <<n, dst>>
    OBVIOUS
  <2>2. e[1] = n /\ e = <<e[1], e[1] + 1>>
    BY <2>1, ShrunkShape
  <2> QED
    BY <2>2 DEF Joins
<1>3. CASE dst \in Functions
  <2>1. Follow(h, n, dst) = h
    BY <1>2, <1>3 DEF Follow
  <2>2. R \cup ({dst} \ Functions) = R /\ F \cup LinkFor(n, dst) = F
    BY <1>3 DEF LinkFor
  <2> QED
    BY <2>1, <2>2
<1>4. CASE dst \notin Functions
  <2>1. dst \in Blocks
    BY <1>1, <1>4 DEF Named
  <2>2. PICK w : w = WithSuper(h, dst)
    OBVIOUS
  <2>3. w \in SuperTypes /\ StageOf(w, X, W, K, R \cup {dst}, F, B) /\ w.of[n] # NoSuper /\ w.of[dst] # NoSuper
    <3>1. /\ h.of \in [Named -> {NoSuper} \cup Blocks]
          /\ \A y \in Named : y \in R <=> h.of[y] # NoSuper
          /\ NoSuper \notin Blocks
      BY StageShape DEF StageOf
    <3>2. CASE h.of[dst] # NoSuper
      <4>1. w = h /\ R \cup {dst} = R
        BY <1>1, <2>1, <2>2, <3>1, <3>2, WithSuperIs
      <4> QED
        BY <1>1, <3>1, <3>2, <4>1
    <3>3. CASE h.of[dst] = NoSuper
      <4>1. Fields(w, [h.of EXCEPT ![dst] = dst], [h.held EXCEPT ![dst] = {dst}],
                   h.nodes \cup {dst}, h.links)
        BY <2>1, <2>2, <3>3, WithSuperIs
      <4>2. Stage([h.of EXCEPT ![dst] = dst], [h.held EXCEPT ![dst] = {dst}],
                  (h.nodes \cup X) \cup {dst}, h.links \cup W, K, R \cup {dst}, F, B)
        BY <2>1, <3>3, StageNew DEF StageOf
      <4>3. (h.nodes \cup X) \cup {dst} = (h.nodes \cup {dst}) \cup X
        OBVIOUS
      <4>4. StageOf(w, X, W, K, R \cup {dst}, F, B)
        BY <4>1, <4>2, <4>3 DEF StageOf, Fields
      <4>5. w.of[n] # NoSuper /\ w.of[dst] # NoSuper
        BY <1>1, <2>1, <3>1, <4>1 DEF Fields
      <4> QED
        BY <4>1, <4>4, <4>5 DEF Fields
    <3> QED
      BY <3>2, <3>3
  <2>4. w.of[n] \in Blocks /\ w.of[dst] \in Blocks
    BY <1>1, <2>3, SuperFields
  <2>5. PICK a : a = w.of[n]
    OBVIOUS
  <2>6. PICK b : b = w.of[dst]
    OBVIOUS
  <2>7. Follow(h, n, dst) = Linked(w, {<<h.of[n], b>>})
    BY <1>2, <1>4, <2>2, <2>6 DEF Follow
  <2>8. h.of[n] = a
    <3>1. h.of[n] # NoSuper
      BY <1>1, StageShape DEF StageOf
    <3>2. w = h \/ (w.of = [h.of EXCEPT ![dst] = dst] /\ h.of[dst] = NoSuper)
      BY <2>1, <2>2, WithSuperIs DEF Fields
    <3> QED
      BY <1>1, <2>5, <3>1, <3>2, SuperFields
  <2>9. PICK L : L = {<<a, b>>}
    OBVIOUS
  <2>10. L \subseteq Blocks \X Blocks /\ EndsOf(L) = {a, b}
    BY <2>4, <2>5, <2>6, <2>9 DEF EndsOf
  <2>11. PICK k : k = Follow(h, n, dst)
    OBVIOUS
  <2>12. Fields(k, w.of, w.held, w.nodes \cup {a, b}, w.links \cup {<<a, b>>})
    BY <2>3, <2>7, <2>8, <2>9, <2>10, <2>11, LinkedIs
  <2>13. PICK e : e = <<n, dst>> /\ e[1] = n /\ e[2] = dst
    OBVIOUS
  <2>14. e \in Inner
    BY <1>2, <2>1, <2>13 DEF Inner
  <2>15. Stage(w.of, w.held, (w.nodes \cup X) \cup {w.of[e[1]], w.of[e[2]]},
               (w.links \cup W) \cup {<<w.of[e[1]], w.of[e[2]]>>}, K, R \cup {dst}, F \cup {e}, B)
    <3>1. Stage(w.of, w.held, w.nodes \cup X, w.links \cup W, K, R \cup {dst}, F, B)
      BY <2>3 DEF StageOf
    <3>2. e[1] \in R \cup {dst} /\ e[2] \in R \cup {dst}
      BY <2>13
    <3> QED
      BY <2>14, <3>1, <3>2, StageLink
  <2>16. /\ (w.nodes \cup X) \cup {a, b} = k.nodes \cup X
         /\ (w.links \cup W) \cup {<<a, b>>} = k.links \cup W
         /\ k.of = w.of /\ k.held = w.held
    BY <2>12 DEF Fields
  <2>17. StageOf(k, X, W, K, R \cup {dst}, F \cup {e}, B)
    BY <2>5, <2>6, <2>13, <2>15, <2>16 DEF StageOf
  <2>18. R \cup {dst} = R \cup ({dst} \ Functions)
         /\ F \cup {e} = F \cup LinkFor(n, dst)
    BY <1>4, <2>13 DEF LinkFor
  <2> QED
    BY <2>11, <2>12, <2>17, <2>18 DEF Fields
<1> QED
  BY <1>3, <1>4

\* What the edges of a node lead to, in a finite set.
LEMMA LedToFinite ==
  ASSUME flow \in Flows, NEW n
  PROVE  IsFiniteSet(Ahead(n))
<1>1. PICK S : S = Ahead(n)
  OBVIOUS
<1>2. PICK f : f = [e \in OutOf(n) |-> e[2]]
  OBVIOUS
<1>3. f \in Surjection(OutOf(n), S)
  BY <1>1, <1>2 DEF Surjection, Ahead
<1>4. OutOf(n) \subseteq Inside
  BY DEF OutOf
<1>5. IsFiniteSet(OutOf(n))
  BY <1>4, FlowShape, FS_Subset
<1> QED
  BY <1>1, <1>3, <1>5, FS_Surjection

\* Following all of them.
LEMMA FollowAll ==
  ASSUME flow \in Flows, NEW g \in SuperTypes, NEW X, X \subseteq Blocks, NEW W, W \subseteq Blocks \X Blocks,
         NEW K, NEW R, NEW F, NEW B, StageOf(g, X, W, K, R, F, B),
         NEW n \in Blocks \ Joins, n \in R, NEW q \in SetToSeqs(Ahead(n))
  PROVE  /\ Followed(g, n, q) \in SuperTypes
         /\ StageOf(Followed(g, n, q), X, W, K, R \cup (Ahead(n) \ Functions),
                    F \cup {e \in OutOf(n) : e[2] \notin Functions}, B)
<1>1. PICK S : S = Ahead(n)
  OBVIOUS
<1>2. PICK k \in Nat : /\ DOMAIN q = 1 .. k /\ \A i \in 1 .. k : q[i] \in S
                       /\ \A x \in S : \E i \in 1 .. k : q[i] = x
  BY <1>1, LedToFinite, OrderCovers
<1>4a. PICK h : Passes(g, n, q, k, h)
  <2>1. k \in Nat /\ DOMAIN q = 1 .. k
    BY <1>2
  <2> QED
    BY <2>1, FollowPasses
<1>3. /\ h[0] = g /\ Followed(g, n, q) = h[k]
      /\ \A i \in 1 .. k : h[i] = Follow(h[i - 1], n, q[i])
  BY <1>4a DEF Passes
<1>4. \A x \in S : <<n, x>> \in OutOf(n) /\ <<n, x>> \in Inside
  <2>1. ASSUME NEW e \in OutOf(n) PROVE <<n, e[2]>> = e
    BY FlowShape DEF OutOf
  <2> QED
    BY <1>1, <2>1 DEF OutOf, Ahead
<1> DEFINE P(i) == {q[j] : j \in 1 .. i} \ Functions
           Rs(i) == R \cup P(i)
           Fs(i) == F \cup {<<n, x>> : x \in P(i)}
<1>5. PICK Good : Good = {i \in 0 .. k : h[i] \in SuperTypes /\ StageOf(h[i], X, W, K, Rs(i), Fs(i), B)}
  OBVIOUS
<1>6. 0 \in Good
  <2>1. P(0) = {}
    OBVIOUS
  <2>2. Rs(0) = R /\ Fs(0) = F
    BY <2>1
  <2> HIDE DEF Rs, Fs
  <2>3. 0 \in 0 .. k /\ h[0] \in SuperTypes /\ StageOf(h[0], X, W, K, Rs(0), Fs(0), B)
    BY <1>3, <2>2
  <2> QED
    BY <1>5, <2>3
<1>7. ASSUME NEW i \in 1 .. k, i - 1 \in Good PROVE i \in Good
  <2>1. PICK x : x = q[i]
    OBVIOUS
  <2>2. x \in S /\ <<n, x>> \in Inside
    BY <1>2, <1>4, <2>1
  <2>3. PICK p : p = P(i - 1)
    OBVIOUS
  <2>4. h[i - 1] \in SuperTypes /\ StageOf(h[i - 1], X, W, K, Rs(i - 1), Fs(i - 1), B)
    BY <1>5, <1>7
  <2>5. PICK r : r = Rs(i - 1)
    OBVIOUS
  <2>6. PICK f : f = Fs(i - 1)
    OBVIOUS
  <2>7. PICK c : c = h[i - 1]
    OBVIOUS
  <2>8. n \in r
    BY <2>5
  <2>9. /\ Follow(c, n, x) \in SuperTypes
        /\ StageOf(Follow(c, n, x), X, W, K, r \cup ({x} \ Functions),
                   f \cup LinkFor(n, x), B)
    BY <2>2, <2>4, <2>5, <2>6, <2>7, <2>8, FollowOne
  <2>10. P(i) = p \cup ({x} \ Functions)
    <3>1. 1 .. i = (1 .. i - 1) \cup {i}
      OBVIOUS
    <3> QED
      BY <2>1, <2>3, <3>1
  <2>11. Rs(i) = r \cup ({x} \ Functions)
    BY <2>3, <2>5, <2>10
  <2>12. Fs(i) = f \cup LinkFor(n, x)
    BY <2>3, <2>6, <2>10 DEF LinkFor
  <2>13. h[i] = Follow(c, n, x) /\ i \in 0 .. k
    BY <1>3, <2>1, <2>7
  <2> HIDE DEF Rs, Fs
  <2>14. h[i] \in SuperTypes /\ StageOf(h[i], X, W, K, Rs(i), Fs(i), B)
    BY <2>9, <2>11, <2>12, <2>13
  <2> QED
    BY <1>5, <2>13, <2>14
<1>8. k \in Good
  BY <1>6, <1>7, PassingInduction
<1>9. h[k] \in SuperTypes /\ StageOf(h[k], X, W, K, Rs(k), Fs(k), B)
  BY <1>5, <1>8
<1>10. P(k) = S \ Functions
  BY <1>2
<1>11. {<<n, x>> : x \in S \ Functions} = {e \in OutOf(n) : e[2] \notin Functions}
  <2>1. ASSUME NEW e \in OutOf(n), e[2] \notin Functions PROVE e \in {<<n, x>> : x \in S \ Functions}
    <3>1. e = <<n, e[2]>> /\ e[2] \in S
      BY <1>1, FlowShape DEF OutOf, Ahead
    <3> QED
      BY <2>1, <3>1
  <2>2. ASSUME NEW x \in S \ Functions PROVE <<n, x>> \in {e \in OutOf(n) : e[2] \notin Functions}
    BY <1>4
  <2> QED
    BY <2>1, <2>2
<1>12. Rs(k) = R \cup (S \ Functions) /\ Fs(k) = F \cup {e \in OutOf(n) : e[2] \notin Functions}
  BY <1>10, <1>11
<1> HIDE DEF Rs, Fs
<1>13. StageOf(h[k], X, W, K, R \cup (S \ Functions), F \cup {e \in OutOf(n) : e[2] \notin Functions}, B)
  BY <1>9, <1>12
<1> QED
  BY <1>1, <1>3, <1>9, <1>13

\* Of the edges of a block that is joined to the next only that one is followed.
LEMMA FollowJoin ==
  ASSUME flow \in Flows, NEW g \in SuperTypes, NEW n \in Joins, NEW q \in SetToSeqs(Ahead(n))
  PROVE  Followed(g, n, q) = Absorb(g, g.of[n], n + 1)
<1>1. PICK S : S = Ahead(n)
  OBVIOUS
<1>2. PICK k \in Nat : /\ DOMAIN q = 1 .. k /\ \A i \in 1 .. k : q[i] \in S
                       /\ \A x \in S : \E i \in 1 .. k : q[i] = x
  BY <1>1, LedToFinite, OrderCovers
<1>3. PICK h : Passes(g, n, q, k, h)
  <2>1. k \in Nat /\ DOMAIN q = 1 .. k
    BY <1>2
  <2> QED
    BY <2>1, FollowPasses
<1>4. /\ h[0] = g /\ Followed(g, n, q) = h[k]
      /\ \A i \in 1 .. k : h[i] = Follow(h[i - 1], n, q[i])
  BY <1>3 DEF Passes
<1>5. PICK a : a = Absorb(g, g.of[n], n + 1)
  OBVIOUS
<1>6. <<n, n + 1>> \in Shrunk /\ n + 1 \in S
  <2>1. <<n, n + 1>> \in Shrunk /\ <<n, n + 1>> \in Inside
    BY JoinShape DEF Shrunk
  <2>2. PICK e \in Inside : e = <<n, n + 1>>
    BY <2>1
  <2>3. e \in OutOf(n) /\ e[2] = n + 1
    BY <2>2 DEF OutOf
  <2> QED
    BY <1>1, <2>1, <2>3 DEF Ahead
<1>7. ASSUME NEW x \in S, x # n + 1 PROVE x \in Functions /\ <<n, x>> \notin Shrunk
  <2>1. PICK e \in OutOf(n) : x = e[2]
    BY <1>1 DEF Ahead
  <2>2. e # <<n, n + 1>>
    BY <1>7, <2>1
  <2>3. x \in Functions
    BY <2>1, <2>2, JoinShape
  <2>4. ASSUME NEW c \in Shrunk, c = <<n, x>> PROVE FALSE
    <3>1. c = <<c[1], c[1] + 1>> /\ c[1] = n /\ c[2] = x
      BY <2>4, ShrunkShape
    <3> QED
      BY <1>7, <3>1
  <2> QED
    BY <2>3, <2>4
<1>8. PICK Good : Good = {i \in 0 .. k : h[i] = IF \E j \in 1 .. i : q[j] = n + 1 THEN a ELSE g}
  OBVIOUS
<1>9. 0 \in Good
  BY <1>4, <1>8
<1>10. \A x \in S : x = n + 1 \/ x \in Functions
  BY <1>7
<1>11. ASSUME NEW i \in 1 .. k, i - 1 \in Good PROVE i \in Good
  <2>1. h[i] = Follow(h[i - 1], n, q[i]) /\ q[i] \in S /\ i \in 0 .. k
    BY <1>2, <1>4
  <2>2. h[i - 1] = IF \E j \in 1 .. i - 1 : q[j] = n + 1 THEN a ELSE g
    BY <1>8, <1>11
  <2>3. \A j \in 1 .. i : j \in 1 .. i - 1 \/ j = i
    OBVIOUS
  <2>4. \A j \in 1 .. i - 1 : j \in 1 .. i
    OBVIOUS
  <2>5. CASE q[i] # n + 1
    <3>1. h[i] = h[i - 1]
      BY <1>7, <2>1, <2>5 DEF Follow
    <3>2. (\E j \in 1 .. i : q[j] = n + 1) <=> \E j \in 1 .. i - 1 : q[j] = n + 1
      BY <2>3, <2>4, <2>5
    <3> QED
      BY <1>8, <2>1, <2>2, <3>1, <3>2
  <2>6. CASE q[i] = n + 1
    <3>1. ~\E j \in 1 .. i - 1 : q[j] = n + 1
      <4> SUFFICES ASSUME NEW j \in 1 .. i - 1, q[j] = n + 1 PROVE FALSE
        OBVIOUS
      <4>1. PICK m \in Nat : m = Cardinality(S) /\ q \in [1 .. m -> S]
                             /\ \A i1, i2 \in 1 .. m : i1 # i2 => q[i1] # q[i2]
        BY <1>1, LedToFinite, FS_CardinalityType DEF SetToSeqs
      <4>2. 1 .. m = 1 .. k
        BY <1>2, <4>1
      <4>3. j \in 1 .. k /\ j # i
        OBVIOUS
      <4> QED
        BY <2>6, <4>1, <4>2, <4>3
    <3>2. h[i - 1] = g
      BY <2>2, <3>1
    <3>3. h[i] = a
      BY <1>5, <1>6, <2>1, <2>6, <3>2 DEF Follow
    <3>4. \E j \in 1 .. i : q[j] = n + 1
      BY <2>6
    <3> QED
      BY <1>8, <2>1, <3>3, <3>4
  <2> QED
    BY <2>5, <2>6
<1>12. k \in Good
  BY <1>9, <1>11, PassingInduction
<1>13. \E j \in 1 .. k : q[j] = n + 1
  BY <1>2, <1>6
<1>14. h[k] = a
  BY <1>8, <1>12, <1>13
<1> QED
  BY <1>4, <1>5, <1>14

\* A node is put back, with the links it had.
Put(off, s, W) == Linked([off EXCEPT !.nodes = @ \cup {s}], W)

\* What it is put back with.
LEMMA PutIs ==
  ASSUME NEW off \in SuperTypes, NEW s \in Blocks, NEW W, W \subseteq Blocks \X Blocks
  PROVE  Fields(Put(off, s, W), off.of, off.held, off.nodes \cup ({s} \cup EndsOf(W)), off.links \cup W)
<1>1. PICK m : m = [off EXCEPT !.nodes = @ \cup {s}]
  OBVIOUS
<1>2. m = [of |-> off.of, held |-> off.held, nodes |-> off.nodes \cup {s}, links |-> off.links]
  BY <1>1, SuperFields DEF SuperTypes
<1>3. m \in SuperTypes
  BY <1>2, SuperFields DEF SuperTypes
<1>4. Fields(Linked(m, W), m.of, m.held, m.nodes \cup EndsOf(W), m.links \cup W)
  BY <1>3, LinkedIs
<1>5. m.nodes \cup EndsOf(W) = off.nodes \cup ({s} \cup EndsOf(W))
      /\ m.of = off.of /\ m.held = off.held /\ m.links = off.links
  BY <1>2
<1>6. Put(off, s, W) = Linked(m, W)
  BY <1>1 DEF Put
<1> QED
  BY <1>4, <1>5, <1>6

\* A block that is joined to nothing is converted.
LEMMA ConvertLinks ==
  ASSUME flow \in Flows, NEW g \in SuperTypes, NEW K, NEW R, NEW F, NEW B,
         Stage(g.of, g.held, g.nodes, g.links, K, R, F, B),
         NEW n \in Blocks \ Joins, n \in R, NEW q \in SetToSeqs(Ahead(n)),
         NEW h, h = Put(Followed(Without(g, g.of[n]), n, q), g.of[n], LinksOf(g, g.of[n]))
  PROVE  /\ h \in SuperTypes
         /\ Stage(h.of, h.held, h.nodes, h.links, K, R \cup (Ahead(n) \ Functions),
                  F \cup {e \in OutOf(n) : e[2] \notin Functions}, B)
<1>1. PICK s : s = g.of[n]
  OBVIOUS
<1>2. PICK W : W = Touching(g.links, s) /\ W = LinksOf(g, s) /\ W \subseteq g.links
  BY DEF Touching, LinksOf
<1>3. s \in Blocks /\ W \subseteq Blocks \X Blocks /\ g.nodes \subseteq Blocks
  <2>1. g.links \subseteq Blocks \X Blocks /\ g.nodes \subseteq Blocks /\ g.of[n] \in Blocks
    BY StageShape DEF Named
  <2> QED
    BY <1>1, <1>2, <2>1
<1>4. PICK X : X = {s} \cup EndsOf(W)
  OBVIOUS
<1>5. X \subseteq Blocks
  BY <1>3, <1>4, EndsOfAre
<1>6. PICK b : b = Without(g, s)
  OBVIOUS
<1>7. Fields(b, g.of, g.held, g.nodes \ {s}, g.links \ W)
  BY <1>2, <1>6, WithoutIs
<1>8. Stage(g.of, g.held, (g.nodes \ {s}) \cup X, (g.links \ W) \cup W, K, R, F, B)
  <2>1. W = Touching(g.links, g.of[n])
    BY <1>1, <1>2
  <2>2. Stage(g.of, g.held, (g.nodes \ {g.of[n]}) \cup ({g.of[n]} \cup EndsOf(W)), (g.links \ W) \cup W, K, R, F, B)
    BY <2>1, StageBack
  <2> QED
    BY <1>1, <1>4, <2>2
<1>9. b \in SuperTypes /\ StageOf(b, X, W, K, R, F, B)
  BY <1>7, <1>8 DEF Fields, StageOf
<1>10. PICK c : c = Followed(b, n, q)
  OBVIOUS
<1>11. c \in SuperTypes /\ StageOf(c, X, W, K, R \cup (Ahead(n) \ Functions),
                                   F \cup {e \in OutOf(n) : e[2] \notin Functions}, B)
  BY <1>3, <1>5, <1>9, <1>10, FollowAll
<1>12. Fields(h, c.of, c.held, c.nodes \cup X, c.links \cup W)
  <2>1. h = Put(c, s, W)
    BY <1>1, <1>2, <1>6, <1>10
  <2> QED
    BY <1>3, <1>4, <1>11, <2>1, PutIs
<1> QED
  BY <1>11, <1>12 DEF Fields, StageOf

\* A block that the next one is joined to is converted.
LEMMA ConvertJoins ==
  ASSUME flow \in Flows, NEW g \in SuperTypes, NEW K, NEW R, NEW F, NEW B,
         Stage(g.of, g.held, g.nodes, g.links, K, R, F, B),
         NEW n \in Joins, n \in R, n \notin K, TooEarlyKnown(n, R, B),
         NEW q \in SetToSeqs(Ahead(n)),
         NEW h, h = Put(Followed(Without(g, g.of[n]), n, q), g.of[n], LinksOf(g, g.of[n]))
  PROVE  h \in SuperTypes /\ Stage(h.of, h.held, h.nodes, h.links, K \cup {n}, R \cup {n + 1}, F, B)
<1>1. PICK s : s = g.of[n]
  OBVIOUS
<1>2. PICK W : W = Touching(g.links, s) /\ W = LinksOf(g, s) /\ W \subseteq g.links
  BY DEF Touching, LinksOf
<1>3. s \in Blocks /\ W \subseteq Blocks \X Blocks /\ n + 1 \in Named
  <2>1. g.links \subseteq Blocks \X Blocks /\ g.of[n] \in Blocks
    BY StageShape
  <2> QED
    BY <1>1, <1>2, <2>1, JoinShape
<1>4. PICK b : b = Without(g, s)
  OBVIOUS
<1>5. Fields(b, g.of, g.held, g.nodes \ {s}, g.links \ W) /\ b \in SuperTypes
  BY <1>2, <1>4, WithoutIs DEF Fields
<1>6. PICK c : c = Followed(b, n, q)
  OBVIOUS
<1>7. c = Absorb(b, s, n + 1)
  <2>1. b.of[n] = s
    BY <1>1, <1>5 DEF Fields
  <2> QED
    BY <1>5, <1>6, <2>1, FollowJoin
<1>8. PICK d : d = g.of[n + 1]
  OBVIOUS
<1>9. PICK L : L = Touching(g.links \ W, d)
  OBVIOUS
<1>10. PICK M : M = Moved(L, d, s)
  OBVIOUS
<1>11. PICK of2 : of2 = Taken(g.of, g.held, s, n + 1)
  OBVIOUS
<1>12. PICK held2 : held2 = TakenHeld(g.of, g.held, s, n + 1)
  OBVIOUS
<1>13. Fields(c, of2, held2, ((g.nodes \ {s}) \ {d}) \cup EndsOf(M), ((g.links \ W) \ L) \cup M)
  <2>1. Fields(c, [x \in Named |-> IF x = n + 1 \/ x \in Other(b, n + 1) THEN s ELSE b.of[x]],
               [b.held EXCEPT ![s] = @ \cup {n + 1} \cup Other(b, n + 1)],
               (b.nodes \ {b.of[n + 1]}) \cup EndsOf(Moved(LinksOf(b, b.of[n + 1]), b.of[n + 1], s)),
               (b.links \ LinksOf(b, b.of[n + 1])) \cup Moved(LinksOf(b, b.of[n + 1]), b.of[n + 1], s))
    BY <1>3, <1>5, <1>7, AbsorbIs
  <2>2. b.of = g.of /\ b.held = g.held /\ b.nodes = g.nodes \ {s} /\ b.links = g.links \ W
    BY <1>5 DEF Fields
  <2>3. Other(b, n + 1) = HeldWith(g.of, g.held, n + 1)
    BY <2>2 DEF Other, HeldWith
  <2>4. LinksOf(b, d) = L
    BY <1>9, <2>2 DEF LinksOf, Touching
  <2>5. [x \in Named |-> IF x = n + 1 \/ x \in Other(b, n + 1) THEN s ELSE b.of[x]] = of2
    BY <1>11, <2>2, <2>3 DEF Taken
  <2>6. [b.held EXCEPT ![s] = @ \cup {n + 1} \cup Other(b, n + 1)] = held2
    BY <1>12, <2>2, <2>3 DEF TakenHeld
  <2> QED
    BY <1>8, <1>10, <2>1, <2>2, <2>4, <2>5, <2>6
<1>14. Stage(of2, held2, (((g.nodes \ {s}) \ {d}) \cup EndsOf(M)) \cup ({s} \cup EndsOf(W)),
             (((g.links \ W) \ L) \cup M) \cup W, K \cup {n}, R \cup {n + 1}, F, B)
  <2>1. /\ of2 = Taken(g.of, g.held, g.of[n], n + 1) /\ held2 = TakenHeld(g.of, g.held, g.of[n], n + 1)
        /\ W = Touching(g.links, g.of[n]) /\ L = Touching(g.links \ W, g.of[n + 1])
        /\ M = Moved(L, g.of[n + 1], g.of[n])
    BY <1>1, <1>2, <1>8, <1>9, <1>10, <1>11, <1>12
  <2>2. Stage(of2, held2,
              (((g.nodes \ {g.of[n]}) \ {g.of[n + 1]}) \cup EndsOf(M)) \cup ({g.of[n]} \cup EndsOf(W)),
              (((g.links \ W) \ L) \cup M) \cup W, K \cup {n}, R \cup {n + 1}, F, B)
    BY <2>1, StageJoin DEF TooEarlyKnown
  <2> QED
    BY <1>1, <1>8, <2>2
<1>15. Fields(h, c.of, c.held, c.nodes \cup ({s} \cup EndsOf(W)), c.links \cup W)
  <2>1. h = Put(c, s, W)
    BY <1>1, <1>2, <1>4, <1>6
  <2> QED
    BY <1>3, <1>13, <2>1, PutIs DEF Fields
<1> QED
  BY <1>13, <1>14, <1>15 DEF Fields

\* A block that is converted gets a node first.
LEMMA ReadyStage ==
  ASSUME flow \in Flows, NEW g \in SuperTypes, NEW K, NEW R, NEW F, NEW B,
         Stage(g.of, g.held, g.nodes, g.links, K, R, F, B), NEW n \in Blocks,
         NEW h, h = WithSuper(g, n)
  PROVE  h \in SuperTypes /\ Stage(h.of, h.held, h.nodes, h.links, K, R \cup {n}, F, B)
<1>1. CASE g.of[n] # NoSuper
  <2>1. h = g
    BY <1>1, WithSuperIs
  <2>2. n \in Named /\ \A x \in Named : g.of[x] # NoSuper <=> x \in R
    BY StageShape DEF Named
  <2>3. R \cup {n} = R
    BY <1>1, <2>2
  <2> QED
    BY <2>1, <2>3
<1>2. CASE g.of[n] = NoSuper
  <2>1. Fields(h, [g.of EXCEPT ![n] = n], [g.held EXCEPT ![n] = {n}], g.nodes \cup {n}, g.links)
    BY <1>2, WithSuperIs
  <2>2. Stage([g.of EXCEPT ![n] = n], [g.held EXCEPT ![n] = {n}], g.nodes \cup {n}, g.links,
              K, R \cup {n}, F, B)
    BY <1>2, StageNew
  <2> QED
    BY <2>1, <2>2 DEF Fields
<1> QED
  BY <1>1, <1>2

\* What one more converted block adds.
LEMMA OneMore ==
  ASSUME flow \in Flows, NEW D, D \subseteq Blocks, NEW n \in Blocks
  PROVE  /\ n \notin Joins =>
              /\ Reached(D \cup {n}) = (Reached(D) \cup {n}) \cup (Ahead(n) \ Functions)
              /\ InnerOf(D \cup {n}) = InnerOf(D) \cup {e \in OutOf(n) : e[2] \notin Functions}
         /\ n \in Joins =>
              /\ Reached(D \cup {n}) = (Reached(D) \cup {n}) \cup {n + 1}
              /\ InnerOf(D \cup {n}) = InnerOf(D)
<1>1. PICK T : T = {e[2] : e \in {e \in Inside : e[1] = n /\ Leads(e)}}
  OBVIOUS
<1>2. Reached(D \cup {n}) = (Reached(D) \cup {n}) \cup T
  <2>1. \A e \in Inside : e[1] \in D \cup {n} <=> e[1] \in D \/ e[1] = n
    OBVIOUS
  <2> QED
    BY <1>1, <2>1 DEF Reached
<1>3. PICK I : I = {e \in Inner : e[1] = n}
  OBVIOUS
<1>4. InnerOf(D \cup {n}) = InnerOf(D) \cup I
  BY <1>3 DEF InnerOf
<1>5. ASSUME n \notin Joins
      PROVE  T = Ahead(n) \ Functions /\ I = {e \in OutOf(n) : e[2] \notin Functions}
  <2>1. ASSUME NEW e \in Shrunk, e[1] = n PROVE FALSE
    BY <1>5, <2>1, ShrunkShape DEF Joins
  <2>2. \A e \in OutOf(n) : e \in Inside /\ e[1] = n /\ e \notin Shrunk
    BY <2>1 DEF OutOf
  <2>3. \A e \in Inside : e[1] = n => e \in OutOf(n)
    BY DEF OutOf
  <2>4. T = Ahead(n) \ Functions
    BY <1>1, <2>2, <2>3 DEF Ahead, Leads
  <2>5. \A e \in OutOf(n) : e[2] \in Blocks \/ e[2] \in Functions
    BY <2>2, FlowShape DEF Named
  <2>6. Blocks \cap Functions = {}
    BY FlowShape
  <2>7. I = {e \in OutOf(n) : e[2] \notin Functions}
    BY <1>3, <2>2, <2>3, <2>5, <2>6 DEF Inner
  <2> QED
    BY <2>4, <2>7
<1>6. ASSUME n \in Joins PROVE T = {n + 1} /\ I = {}
  <2>1. <<n, n + 1>> \in Shrunk /\ \A d \in OutOf(n) : d = <<n, n + 1>> \/ d[2] \in Functions
    BY <1>6, JoinShape
  <2>2. <<n, n + 1>> \in Inside
    BY <2>1 DEF Shrunk
  <2>3. ASSUME NEW e \in Inside, e[1] = n PROVE e = <<n, n + 1>> \/ (e[2] \in Functions /\ e \notin Shrunk)
    <3>1. e \in OutOf(n)
      BY <2>3 DEF OutOf
    <3>2. e \in Shrunk => e = <<n, n + 1>>
      BY <2>3, ShrunkShape
    <3> QED
      BY <2>1, <3>1, <3>2
  <2>4. PICK c \in Inside : c = <<n, n + 1>> /\ c[1] = n /\ c[2] = n + 1 /\ c \in Shrunk
    BY <2>1, <2>2
  <2>5. \A e \in Inside : e[1] = n /\ Leads(e) <=> e = c
    BY <2>3, <2>4 DEF Leads
  <2>6. {e \in Inside : e[1] = n /\ Leads(e)} = {c}
    BY <2>5
  <2>7. T = {n + 1}
    BY <1>1, <2>4, <2>6
  <2>8. Blocks \cap Functions = {}
    BY FlowShape
  <2>9. I = {}
    BY <1>3, <2>3, <2>4, <2>8 DEF Inner
  <2> QED
    BY <2>7, <2>9
<1> QED
  BY <1>2, <1>4, <1>5, <1>6

\* The blocks D are converted.
SuperAt(D, B, g) ==
  /\ D \subseteq Blocks /\ g \in SuperTypes /\ EarlyKnown(D, B)
  /\ Stage(g.of, g.held, g.nodes, g.links, D \cap Joins, Reached(D), InnerOf(D), B)

\* Either way what is true of the blocks converted before is true with it.
LEMMA ConvertOne ==
  ASSUME flow \in Flows, NEW D, NEW B, SuperAt(D, B, super), NEW n \in Blocks \ D,
         NEW C, B \subseteq C, \A b \in Joins \ (D \cup {n}) : b + 1 = n => n \in C,
         NEW q \in SetToSeqs(Ahead(n)), NEW g, g = WithSuper(super, n),
         NEW h, h = Put(Followed(Without(g, g.of[n]), n, q), g.of[n], LinksOf(g, g.of[n]))
  PROVE  SuperAt(D \cup {n}, C, h)
<1>1. PICK K : K = D \cap Joins
  OBVIOUS
<1>2. PICK R : R = Reached(D) \cup {n}
  OBVIOUS
<1>3. PICK F : F = InnerOf(D)
  OBVIOUS
<1>4. g \in SuperTypes /\ Stage(g.of, g.held, g.nodes, g.links, K, R, F, B)
  <2>1. super \in SuperTypes
        /\ Stage(super.of, super.held, super.nodes, super.links, K, Reached(D), F, B)
    BY <1>1, <1>3 DEF SuperAt
  <2> QED
    BY <1>2, <2>1, ReadyStage
<1>5. EarlyKnown(D \cup {n}, C) /\ D \cup {n} \subseteq Blocks
  BY DEF SuperAt, EarlyKnown
<1>6. D \subseteq Blocks /\ n \in R
  BY <1>2 DEF SuperAt
<1>7. CASE n \notin Joins
  <2>1. n \in Blocks \ Joins /\ K = (D \cup {n}) \cap Joins
    BY <1>1, <1>7
  <2>2. /\ h \in SuperTypes
        /\ Stage(h.of, h.held, h.nodes, h.links, K, R \cup (Ahead(n) \ Functions),
                 F \cup {e \in OutOf(n) : e[2] \notin Functions}, B)
    BY <1>4, <1>6, <2>1, ConvertLinks
  <2>3. /\ Reached(D \cup {n}) = R \cup (Ahead(n) \ Functions)
        /\ InnerOf(D \cup {n}) = F \cup {e \in OutOf(n) : e[2] \notin Functions}
    BY <1>2, <1>3, <1>6, <1>7, OneMore
  <2>4. Stage(h.of, h.held, h.nodes, h.links, K, R \cup (Ahead(n) \ Functions),
              F \cup {e \in OutOf(n) : e[2] \notin Functions}, C)
    BY <2>2, StageMore
  <2> QED
    BY <1>5, <2>1, <2>2, <2>3, <2>4 DEF SuperAt
<1>8. CASE n \in Joins
  <2>1. K \cup {n} = (D \cup {n}) \cap Joins /\ n \notin K
    BY <1>1, <1>8
  <2>2. /\ n \in Nat /\ <<n, n + 1>> \in Shrunk
        /\ \A d \in Into(n + 1) : d = <<n, n + 1>> \/ d[1] \in Functions
        /\ Blocks \cap Functions = {}
    BY <1>8, JoinShape, FlowShape
  <2>3. ASSUME NEW d \in Into(n + 1) PROVE d[1] \notin D
    <3>1. d = <<n, n + 1>> => d[1] = n
      OBVIOUS
    <3>2. d[1] = n \/ d[1] \in Functions
      BY <2>2, <3>1
    <3>3. n \notin D /\ D \cap Functions = {}
      BY <1>6, <2>2
    <3> QED
      BY <3>2, <3>3
  <2>4. TooEarlyKnown(n, R, B)
    <3> SUFFICES ASSUME n + 1 \in R PROVE n + 1 \in B
      BY DEF TooEarlyKnown
    <3>1. n + 1 \in D \/ \E e \in Inside : e[1] \in D /\ e[2] = n + 1
      BY <1>2, <2>2 DEF Reached
    <3>2. ~\E e \in Inside : e[1] \in D /\ e[2] = n + 1
      BY <2>3 DEF Into
    <3>3. EarlyKnown(D, B)
      BY DEF SuperAt
    <3> QED
      BY <1>8, <3>1, <3>2, <3>3 DEF EarlyKnown
  <2>5. h \in SuperTypes /\ Stage(h.of, h.held, h.nodes, h.links, K \cup {n}, R \cup {n + 1}, F, B)
    BY <1>4, <1>6, <1>8, <2>1, <2>4, ConvertJoins
  <2>6. Reached(D \cup {n}) = R \cup {n + 1} /\ InnerOf(D \cup {n}) = F
    BY <1>2, <1>3, <1>6, <1>8, OneMore
  <2>7. Stage(h.of, h.held, h.nodes, h.links, K \cup {n}, R \cup {n + 1}, F, C)
    BY <2>5, StageMore
  <2> QED
    BY <1>5, <2>1, <2>5, <2>6, <2>7 DEF SuperAt
<1> QED
  BY <1>7, <1>8

\* The invariant: the loop is at such a stage.
SuperInv ==
  flow \in Flows /\ left \subseteq KeptBlocks /\ SuperAt(DoneBlocks, late, super)

\* Nothing is converted at first.
LEMMA SuperInitInv == SuperInit => SuperInv
<1> SUFFICES ASSUME SuperInit PROVE SuperInv
  OBVIOUS
<1>1. flow \in Flows /\ left = KeptBlocks /\ DoneBlocks = {}
  BY DEF SuperInit, DoneBlocks
<1>2. super = [of |-> [n \in Named |-> NoSuper], held |-> [b \in Blocks |-> {}], nodes |-> {}, links |-> {}]
  BY DEF SuperInit, Named
<1>3. super \in SuperTypes
  BY <1>2 DEF SuperTypes
<1>4. super = [of |-> super.of, held |-> super.held, nodes |-> super.nodes, links |-> super.links]
  BY <1>2
<1>5. Reached({}) = {} /\ InnerOf({}) = {} /\ {} \cap Joins = {}
  BY DEF Reached, InnerOf
<1>6. \A x \in Named : super.of[x] = NoSuper
  BY <1>2
<1>7. \A b \in Blocks : super.held[b] = {}
  BY <1>2
<1>8. InRuns(super.of, {}) /\ Holding(super.of, super.held)
  BY <1>6, <1>7 DEF InRuns, Holding
<1>9. Drawn(super.of, super.nodes, super.links, {}, {})
  BY <1>2 DEF Drawn
<1>10. Stage(super.of, super.held, super.nodes, super.links, {}, {}, {}, late)
  BY <1>3, <1>4, <1>6, <1>8, <1>9 DEF Stage
<1>11. EarlyKnown({}, late)
  BY DEF EarlyKnown
<1> QED
  BY <1>1, <1>3, <1>5, <1>10, <1>11 DEF SuperInv, SuperAt

\* The transition graph stays as it is.
LEMMA SameFlow ==
  ASSUME flow' = flow, NEW D, NEW B, NEW g
  PROVE  /\ KeptBlocks' = KeptBlocks /\ SuperAt(D, B, g)' = SuperAt(D, B, g)
         /\ \A n : Into(n)' = Into(n) /\ Ahead(n)' = Ahead(n)
<1>1. Inside' = Inside
  BY DEF Inside
<1>2. \A n : OutOf(n)' = OutOf(n) /\ Into(n)' = Into(n)
  BY <1>1 DEF OutOf, Into
<1>3. KeptBlocks' = KeptBlocks
  BY <1>2 DEF KeptBlocks
<1>4. \A n : Ahead(n)' = Ahead(n)
  BY <1>2 DEF Ahead
<1>5. Shrunk' = Shrunk
  BY <1>1, <1>2 DEF Shrunk
<1>6. Inner' = Inner /\ Joins' = Joins
  BY <1>1, <1>5 DEF Inner, Joins
<1>7. Reached(D)' = Reached(D) /\ InnerOf(D)' = InnerOf(D)
  BY <1>1, <1>5, <1>6 DEF Reached, Leads, InnerOf
<1>8. EarlyKnown(D, B)' = EarlyKnown(D, B)
  BY <1>6 DEF EarlyKnown
<1>9. \A of, held : Holding(of, held)' = Holding(of, held)
  BY <1>5 DEF Holding
<1>10. \A of : GoesBack(of, B)' = GoesBack(of, B)
  BY <1>6 DEF GoesBack
<1>11. \A of, held, nodes, links, K, R, F :
         Stage(of, held, nodes, links, K, R, F, B)' = Stage(of, held, nodes, links, K, R, F, B)
  BY <1>6, <1>9, <1>10 DEF Stage, InRuns, Drawn
<1>12. SuperAt(D, B, g)' = SuperAt(D, B, g)
  BY <1>6, <1>7, <1>8, <1>11 DEF SuperAt
<1> QED
  BY <1>2, <1>3, <1>4, <1>12

\* Every step keeps the invariant.
LEMMA SuperNextInv == SuperInv /\ [SuperNext]_superVars => SuperInv'
<1> SUFFICES ASSUME SuperInv, [SuperNext]_superVars PROVE SuperInv'
  OBVIOUS
<1>1. flow \in Flows /\ left \subseteq KeptBlocks /\ SuperAt(DoneBlocks, late, super)
  BY DEF SuperInv
<1>2. ASSUME NEW n \in Blocks, Convert(n) PROVE SuperInv'
  <2>1. /\ n \in left /\ left' = left \ {n} /\ flow' = flow
        /\ late' = late \cup {b \in {n} : \E e \in Shrunk : e[2] = b /\ e[1] \in left'}
    BY <1>2 DEF Convert
  <2>2. PICK g : g = WithSuper(super, n)
    OBVIOUS
  <2>3. PICK q \in SetToSeqs(Ahead(n)) :
          super' = Put(Followed(Without(g, g.of[n]), n, q), g.of[n], LinksOf(g, g.of[n]))
    BY <1>2, <2>2 DEF Convert, Put, Followed, Ahead
  <2>4. PICK h : h = super'
    OBVIOUS
  <2>5. PICK D : D = DoneBlocks
    OBVIOUS
  <2>6. n \in Blocks \ D
    BY <2>1, <2>5 DEF DoneBlocks
  <2>7. PICK B : B = late
    OBVIOUS
  <2>8. PICK C : C = late'
    OBVIOUS
  <2>9. SuperAt(D, B, super) /\ B \subseteq C
    BY <1>1, <2>1, <2>5, <2>7, <2>8
  <2>10. ASSUME NEW b \in Joins \ (D \cup {n}), b + 1 = n PROVE n \in C
    <3>1. PICK e \in Shrunk : e = <<b, b + 1>>
      BY <1>1, JoinShape
    <3>2. e[1] = b /\ e[2] = n
      BY <2>10, <3>1
    <3>3. b \in KeptBlocks
      BY <1>1, <3>2, FlowShape DEF Shrunk, Joins
    <3>4. b \in left'
      BY <2>1, <2>5, <3>3 DEF DoneBlocks
    <3> QED
      BY <2>1, <2>8, <3>2, <3>4
  <2>11. h = Put(Followed(Without(g, g.of[n]), n, q), g.of[n], LinksOf(g, g.of[n]))
    BY <2>3, <2>4
  <2>12. SuperAt(D \cup {n}, C, h)
    BY <1>1, <2>2, <2>6, <2>9, <2>10, <2>11, ConvertOne
  <2>13. KeptBlocks' = KeptBlocks
    BY <2>1, SameFlow
  <2>14. DoneBlocks' = D \cup {n}
    BY <1>1, <2>1, <2>5, <2>13 DEF DoneBlocks
  <2>15. PICK E : E = D \cup {n}
    OBVIOUS
  <2>16. SuperAt(E, C, h)'
    BY <2>1, <2>12, <2>15, SameFlow
  <2> QED
    BY <1>1, <2>1, <2>4, <2>8, <2>13, <2>14, <2>15, <2>16 DEF SuperInv
<1>3. CASE UNCHANGED superVars
  <2>1. flow' = flow /\ left' = left /\ super' = super /\ late' = late
    BY <1>3 DEF superVars
  <2>2. KeptBlocks' = KeptBlocks
    BY <2>1, SameFlow
  <2>3. DoneBlocks' = DoneBlocks
    BY <2>1, <2>2 DEF DoneBlocks
  <2>4. PICK D : D = DoneBlocks
    OBVIOUS
  <2>5. PICK h : h = super
    OBVIOUS
  <2>6. PICK B : B = late
    OBVIOUS
  <2>7. SuperAt(D, B, h)'
    BY <1>1, <2>1, <2>4, <2>5, <2>6, SameFlow
  <2> QED
    BY <1>1, <2>1, <2>2, <2>3, <2>4, <2>5, <2>6, <2>7 DEF SuperInv
<1> QED
  BY <1>2, <1>3 DEF SuperNext, Converted

\* The nodes hold what is mapped to them, and are runs of blocks.
LEMMA NodesAreRuns ==
  ASSUME SuperInv, left = {}
  PROVE  /\ flow \in Flows /\ super \in SuperTypes
         /\ \A b \in KeptBlocks : b \in Blocks /\ b \in Nat /\ b \in Named
                                  /\ super.of[b] \in Blocks /\ super.of[b] # NoSuper
         /\ \A x \in Named : super.of[x] # NoSuper =>
              /\ super.of[x] \in Blocks
              /\ super.held[super.of[x]] = {y \in Named : super.of[y] = super.of[x]}
              /\ super.of[x] \in Nat /\ x \in Nat /\ super.of[x] <= x
              /\ \A z \in super.of[x] .. x - 1 : z \in Joins
         /\ \A b \in Blocks : \A f \in super.held[b] \cap Functions : <<f - 1, f>> \in Shrunk
<1>1. flow \in Flows /\ DoneBlocks = KeptBlocks /\ SuperAt(KeptBlocks, late, super)
  BY DEF SuperInv, DoneBlocks
<1>2. PICK of : of = super.of
  OBVIOUS
<1>3. PICK held : held = super.held
  OBVIOUS
<1>4. Stage(of, held, super.nodes, super.links, KeptBlocks \cap Joins, Reached(KeptBlocks),
            InnerOf(KeptBlocks), late) /\ super \in SuperTypes
  BY <1>1, <1>2, <1>3 DEF SuperAt
<1>5. /\ \A x \in Named : x \in Nat /\ (of[x] # NoSuper => of[x] \in Blocks)
      /\ \A x \in Named : x \in Reached(KeptBlocks) => of[x] \in Blocks /\ of[x] # NoSuper
      /\ Blocks \subseteq Nat
  BY <1>1, <1>4, StageShape
<1>6. InRuns(of, KeptBlocks \cap Joins) /\ Holding(of, held)
  BY <1>4 DEF Stage
<1>7. \A b \in KeptBlocks : b \in Blocks /\ b \in Nat /\ b \in Named /\ b \in Reached(KeptBlocks)
  BY <1>1, FlowShape DEF Named, Reached
<1>8. ASSUME NEW x \in Named, of[x] # NoSuper
      PROVE  of[x] <= x /\ \A z \in of[x] .. x - 1 : z \in Joins
  BY <1>6, <1>8 DEF InRuns
<1>9. ASSUME NEW x \in Named, of[x] # NoSuper
      PROVE  held[of[x]] = {y \in Named : of[y] = of[x]}
  BY <1>6, <1>9 DEF Holding
<1>10. \A b \in Blocks : \A f \in held[b] \cap Functions : <<f - 1, f>> \in Shrunk
  BY <1>6 DEF Holding
<1> QED
  BY <1>1, <1>2, <1>3, <1>4, <1>5, <1>7, <1>8, <1>9, <1>10

\* Nodes that are such runs are entered first and left last.
LEMMA RunsAreStraight == SuperInv /\ left = {} => Straight
<1> SUFFICES ASSUME SuperInv, left = {} PROVE Straight
  OBVIOUS
<1>1. PICK of : of = super.of
  OBVIOUS
<1>2. PICK held : held = super.held
  OBVIOUS
<1>3. /\ flow \in Flows /\ super.nodes \subseteq Blocks
      /\ \A b \in KeptBlocks : b \in Blocks /\ b \in Nat /\ b \in Named
                               /\ of[b] \in Blocks /\ of[b] # NoSuper
      /\ \A x \in Named : of[x] # NoSuper =>
           /\ of[x] \in Blocks
           /\ held[of[x]] = {y \in Named : of[y] = of[x]}
           /\ of[x] \in Nat /\ x \in Nat /\ of[x] <= x
           /\ \A z \in of[x] .. x - 1 : z \in Joins
      /\ \A b \in Blocks : \A f \in held[b] \cap Functions : <<f - 1, f>> \in Shrunk
  BY <1>1, <1>2, NodesAreRuns, SuperFields
<1>4. ASSUME NEW b \in KeptBlocks
      PROVE  /\ b \in Named /\ b \in Nat /\ of[b] \in Blocks /\ of[b] \in Nat /\ of[b] <= b
             /\ held[of[b]] = {y \in Named : of[y] = of[b]}
             /\ \A z \in of[b] .. b - 1 : z \in Joins
             /\ \A c \in held[of[b]] : /\ c \in Nat /\ of[b] <= c
                                       /\ \A z \in of[b] .. c - 1 : z \in Joins
  <2>1. /\ b \in Named /\ b \in Nat /\ of[b] \in Blocks /\ of[b] \in Nat /\ of[b] <= b
        /\ held[of[b]] = {y \in Named : of[y] = of[b]} /\ of[b] # NoSuper
        /\ \A z \in of[b] .. b - 1 : z \in Joins
    BY <1>3
  <2>2. ASSUME NEW c \in held[of[b]]
        PROVE  c \in Nat /\ of[b] <= c /\ \A z \in of[b] .. c - 1 : z \in Joins
    <3>1. c \in Named /\ of[c] = of[b]
      BY <2>1
    <3>2. c \in Nat /\ of[c] <= c /\ \A z \in of[c] .. c - 1 : z \in Joins
      BY <1>3, <2>1, <3>1
    <3> QED
      BY <3>1, <3>2
  <2> QED
    BY <2>1, <2>2
\* What no block is joined to is the first of its node.
<1>5. ASSUME NEW b \in KeptBlocks, b - 1 \notin Joins PROVE b = FirstOf(of[b])
  <2>1. of[b] = b
    <3> SUFFICES ASSUME of[b] # b PROVE FALSE
      OBVIOUS
    <3>1. b - 1 \in of[b] .. b - 1
      BY <1>4
    <3> QED
      BY <1>4, <1>5, <3>1
  <2>2. PICK H : H = held[b]
    OBVIOUS
  <2>3. b \in H /\ b \in Nat /\ \A c \in H : c \in Nat /\ b <= c
    BY <1>4, <2>1, <2>2
  <2>4. FirstOf(b) = CHOOSE x \in H : \A c \in H : x <= c
    BY <1>2, <2>2 DEF FirstOf
  <2>5. PICK m : m = FirstOf(b)
    OBVIOUS
  <2>6. m \in H /\ \A c \in H : m <= c
    BY <2>3, <2>4, <2>5
  <2>7. m = b
    BY <2>3, <2>6
  <2> QED
    BY <2>1, <2>5, <2>7
\* What is joined to no other is the last.
<1>6. ASSUME NEW b \in KeptBlocks, b \notin Joins PROVE b = LastOf(of[b])
  <2>1. PICK s : s = of[b]
    OBVIOUS
  <2>2. PICK H : H = held[s]
    OBVIOUS
  <2>3. b \in H /\ b \in Nat
    BY <1>4, <2>1, <2>2
  <2>4. ASSUME NEW c \in H PROVE c \in Nat /\ b >= c
    <3>1. c \in Nat /\ s <= c /\ s \in Nat /\ s <= b /\ \A z \in s .. c - 1 : z \in Joins
      BY <1>4, <2>1, <2>2
    <3>2. b \notin s .. c - 1
      BY <1>6, <3>1
    <3> QED
      BY <2>3, <3>1, <3>2
  <2>5. LastOf(s) = CHOOSE x \in H : \A c \in H : x >= c
    BY <1>2, <2>2 DEF LastOf
  <2>6. PICK m : m = LastOf(s)
    OBVIOUS
  <2>7. m \in H /\ \A c \in H : m >= c
    BY <2>3, <2>4, <2>5, <2>6
  <2>8. m = b
    BY <2>3, <2>4, <2>7
  <2> QED
    BY <2>1, <2>6, <2>8
<1>7. ASSUME NEW e \in Inner
      PROVE  e[1] = LastOf(super.of[e[1]]) /\ e[2] = FirstOf(super.of[e[2]])
  <2>1. e \in Inside /\ e \notin Shrunk /\ e[1] \in Blocks /\ e[2] \in Blocks
    BY DEF Inner
  <2>2. e[1] \in KeptBlocks /\ e[2] \in KeptBlocks /\ e[1] \in Nat /\ e[2] \in Nat /\ Blocks \cap Functions = {}
    BY <1>3, <2>1, FlowShape
  <2>3. e[1] \notin Joins
    <3> SUFFICES ASSUME e[1] \in Joins PROVE FALSE
      OBVIOUS
    <3>1. PICK b : b = e[1]
      OBVIOUS
    <3>2. e \in OutOf(b)
      BY <2>1, <3>1 DEF OutOf
    <3>3. <<b, b + 1>> \in Shrunk /\ \A d \in OutOf(b) : d = <<b, b + 1>> \/ d[2] \in Functions
      BY <1>3, <3>1, JoinShape
    <3> QED
      BY <2>1, <2>2, <3>2, <3>3
  <2>4. e[2] - 1 \notin Joins
    <3> SUFFICES ASSUME e[2] - 1 \in Joins PROVE FALSE
      OBVIOUS
    <3>1. PICK b : b = e[2] - 1
      OBVIOUS
    <3>2. b + 1 = e[2]
      BY <2>2, <3>1
    <3>3. e \in Into(b + 1)
      BY <2>1, <3>2 DEF Into
    <3>4. <<b, b + 1>> \in Shrunk /\ \A d \in Into(b + 1) : d = <<b, b + 1>> \/ d[1] \in Functions
      BY <1>3, <3>1, JoinShape
    <3> QED
      BY <2>1, <2>2, <3>3, <3>4
  <2> QED
    BY <1>1, <1>5, <1>6, <2>2, <2>3, <2>4
<1>8. EntryMerged \/ flow.entry = FirstOf(super.of[flow.entry])
  <2>1. flow.entry \in KeptBlocks /\ flow.entry \in Nat
    BY <1>3, FlowShape
  <2>2. ASSUME flow.entry - 1 \in Joins PROVE EntryMerged
    <3>1. PICK b : b = flow.entry - 1
      OBVIOUS
    <3>2. PICK e \in Shrunk : e = <<b, b + 1>>
      BY <1>3, <2>2, <3>1, JoinShape
    <3>3. e[2] = flow.entry
      BY <2>1, <3>1, <3>2
    <3> QED
      BY <3>3 DEF EntryMerged
  <2> QED
    BY <1>1, <1>5, <2>1, <2>2
<1>9. ASSUME NEW s \in super.nodes, NEW f \in super.held[s] \cap Functions
      PROVE  OutOf(f - 1) = {<<f - 1, f>>} /\ Into(f) = {<<f - 1, f>>}
  <2>1. PICK e \in Shrunk : e = <<f - 1, f>>
    BY <1>2, <1>3
  <2>2. e[1] = f - 1 /\ e[2] = f
    BY <2>1
  <2> QED
    BY <1>3, <2>1, <2>2, ShrunkShape
<1> QED
  BY <1>7, <1>8, <1>9 DEF Straight

\* When all is converted, what was drawn is the graph.
LEMMA DrawnIsExact == SuperInv /\ left = {} => Exact \/ LoopsBack
<1> SUFFICES ASSUME SuperInv, left = {} PROVE Exact \/ LoopsBack
  OBVIOUS
<1>1. flow \in Flows /\ DoneBlocks = KeptBlocks /\ SuperAt(KeptBlocks, late, super)
  BY DEF SuperInv, DoneBlocks
<1>2. PICK of : of = super.of
  OBVIOUS
<1>3. PICK held : held = super.held
  OBVIOUS
<1>4. Stage(of, held, super.nodes, super.links, KeptBlocks \cap Joins, Reached(KeptBlocks),
            InnerOf(KeptBlocks), late)
  BY <1>1, <1>2, <1>3 DEF SuperAt
<1>5. CASE GoesBack(of, late)
  BY <1>2, <1>5 DEF GoesBack, LoopsBack
<1>6. CASE Drawn(of, super.nodes, super.links, Reached(KeptBlocks), InnerOf(KeptBlocks))
  <2>1. InnerOf(KeptBlocks) = Inner
    BY <1>1, FlowShape DEF InnerOf, Inner
  <2>2. super.links = {<<of[e[1]], of[e[2]]>> : e \in Inner}
    BY <1>6, <2>1 DEF Drawn
  <2>3. super.nodes = {of[x] : x \in Reached(KeptBlocks)}
    BY <1>6 DEF Drawn
  <2>4. ASSUME NEW x \in Reached(KeptBlocks) PROVE \E b \in KeptBlocks : of[b] = of[x]
    <3>1. CASE x \in KeptBlocks
      BY <3>1
    <3>2. CASE x \notin KeptBlocks
      <4>1. PICK e \in Inside : e[1] \in KeptBlocks /\ Leads(e) /\ x = e[2]
        BY <3>2 DEF Reached
      <4>2. e[2] \in Functions
        BY <1>1, <3>2, <4>1, FlowShape DEF Named
      <4>3. e \in Shrunk
        BY <4>1, <4>2 DEF Leads
      <4>4. PICK b : b = e[1]
        OBVIOUS
      <4>5. e = <<b, b + 1>>
        BY <1>1, <4>3, <4>4, ShrunkShape
      <4>6. b \in KeptBlocks \cap Joins /\ x = b + 1
        BY <1>1, <4>1, <4>3, <4>4, <4>5, FlowShape DEF Joins
      <4>7. of[b + 1] = of[b]
        BY <1>4, <4>6 DEF Stage, InRuns
      <4> QED
        BY <4>6, <4>7
    <3> QED
      BY <3>1, <3>2
  <2>5. KeptBlocks \subseteq Reached(KeptBlocks)
    BY DEF Reached
  <2>6. super.nodes = {of[b] : b \in KeptBlocks}
    BY <2>3, <2>4, <2>5
  <2>7. \A b \in KeptBlocks : b \in Named /\ held[of[b]] = {y \in Named : of[y] = of[b]}
    BY <1>2, <1>3, NodesAreRuns
  <2>8. ASSUME NEW b \in KeptBlocks PROVE {s \in super.nodes : b \in held[s]} = {of[b]}
    BY <2>6, <2>7
  <2> QED
    BY <1>2, <1>3, <2>2, <2>6, <2>8 DEF Exact
<1> QED
  BY <1>4, <1>5, <1>6 DEF Stage

(* Whatever the transition graph that FlowsAssumption admits and the orders in
   which its blocks and their edges are taken: when all blocks are converted each
   is shown in one node, the links are the edges between them, a node is entered
   at its first block and left from its last, and only a function that does not
   return is in one.  The function begins at the first block of a node unless a
   block before it was joined to it.  Each block being in one node and the links
   have an exception: a block that came before the one it is joined to, when a
   link leads from its node back to it (to_supergraph). *)
THEOREM SupergraphAlwaysIsFlow == SuperSpec => []SupergraphIsFlow
<1>1. SuperInv => SupergraphIsFlow
  BY RunsAreStraight, DrawnIsExact DEF SupergraphIsFlow
<1> QED
  BY <1>1, SuperInitInv, SuperNextInv, PTL DEF SuperSpec
=============================================================================
