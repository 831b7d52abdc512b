----------------------------- MODULE GraphLayout -----------------------------
(***************************************************************************)
(* The layered layout of a graph of blocks (utils/graph_layouter.py): rows  *)
(* from the edges that go forward, columns in a pass up and a pass down,    *)
(* then a route through the grid for every edge.  A block stands on two     *)
(* columns; row r of a route is the gap above row r of the blocks.  The     *)
(* coordinates of the blocks follow from the grid; those of the bends of an *)
(* edge are left out.                                                       *)
(***************************************************************************)
EXTENDS Integers, FiniteSets, Sequences, FiniteSetsExt

CONSTANTS
  Nodes,      \* the nodes, numbered in the order of quasi_topological_sort_nodes
  Graphs,     \* the edges that a graph can have
  Keys,       \* what rows are sorted by: node -> key (an address)
  Sizes,      \* the sizes of the blocks: node -> <<width, height>>
  XMargin, YMargin, RowMargin, ColMargin

ASSUME LayoutAssumption ==
  /\ Nodes \subseteq Nat /\ IsFiniteSet(Nodes)
  /\ Graphs \subseteq SUBSET (Nodes \X Nodes)
  /\ Keys \subseteq [Nodes -> Nat]
  /\ Sizes \subseteq [Nodes -> Nat \X Nat]
  /\ {XMargin, YMargin, RowMargin, ColMargin} \subseteq Nat \ {0}

VARIABLES
  graph,   \* edges, key, size and whether rows are sorted backwards the second time
  phase,   \* the loop that runs: "rows", "up", "down", "route" or "done"
  todo,    \* the nodes it has not come to
  rows,    \* _rows: max_rows before they are stored
  cols,    \* _cols, None for a node that has no column yet
  maxCol,  \* global_max_col
  row,     \* row_idx of the last node, None before the first
  next,    \* next_min_col and next_max_col
  routes,  \* edge -> its points <<col, row, lane>>, for the edges routed
  lanes,   \* the cells <<col, row, lane>> of vertical_edges and horizontal_edges
  from     \* the source of the last edge routed

input == <<graph>>
grid == <<rows, cols, maxCol, row, next>>
paths == <<routes, lanes, from>>
vars == <<input, phase, todo, grid, paths>>

None == -1
Larger(a, b) == IF a > b THEN a ELSE b
Smaller(a, b) == IF a < b THEN a ELSE b
Largest(S) == IF S = {} THEN 0 ELSE Max(S)

(* _to_acyclic_graph: an edge is kept when its end comes later in the order *)
Acyclic == {e \in graph.edges : e[1] < e[2]}
Successors(n) == {m \in Nodes : <<n, m>> \in Acyclic}
Predecessors(n) == {m \in Nodes : <<m, n>> \in Acyclic}

(* A node is the first of the rest when none that comes before it is left.  The
   key is the address, or one that a caller gives, which need not tell nodes
   apart: sorting keeps their order. *)
RowsBefore(n) == {m \in Nodes : m < n}
KeyBefore(m, n) == graph.key[m] < graph.key[n] \/ (graph.key[m] = graph.key[n] /\ m < n)
KeyAfter(m, n) == graph.key[m] > graph.key[n] \/ (graph.key[m] = graph.key[n] /\ m < n)
UpBefore(n) ==
  {m \in Nodes : rows[m] > rows[n] \/ (rows[m] = rows[n] /\ KeyBefore(m, n))}
DownBefore(n) ==
  {m \in Nodes :
     \/ rows[m] < rows[n]
     \/ rows[m] = rows[n] /\ IF graph.backwards THEN KeyAfter(m, n) ELSE KeyBefore(m, n)}
First(n, before) == n \in todo /\ todo \cap before = {}
-----------------------------------------------------------------------------
LayoutInit ==
  /\ \E edges \in Graphs, key \in Keys, size \in Sizes, backwards \in BOOLEAN :
       graph = [edges |-> edges, key |-> key, size |-> size, backwards |-> backwards]
  /\ phase = "rows" /\ todo = Nodes
  /\ rows = [n \in Nodes |-> 0] /\ cols = [n \in Nodes |-> None] /\ maxCol = 0
  /\ row = None /\ next = [min |-> None, max |-> None]
  /\ routes = <<>> /\ lanes = [vertical |-> {}, horizontal |-> {}] /\ from = None

(* the loops of _layout, one after the other; the routes begin with the
   finished grid *)
NextLoop ==
  /\ todo = {} /\ phase \in {"rows", "up", "down"}
  /\ phase' = CASE phase = "rows" -> "up" [] phase = "up" -> "down" [] phase = "down" -> "route"
  /\ todo' = IF phase = "down" THEN {} ELSE Nodes
  /\ row' = None /\ next' = [min |-> None, max |-> None]
  /\ UNCHANGED <<input, rows, cols, maxCol, paths>>

(* _assign_rows: the node pushes its successors below it *)
AssignRow(n) ==
  /\ phase = "rows" /\ First(n, RowsBefore(n))
  /\ todo' = todo \ {n}
  /\ rows' = [m \in Nodes |-> IF m \in Successors(n) THEN Larger(rows[m], rows[n] + 1)
                              ELSE rows[m]]
  /\ UNCHANGED <<input, phase, cols, maxCol, row, next, paths>>

PutAt(n, col, bounds) ==
  /\ cols' = [cols EXCEPT ![n] = col]
  /\ maxCol' = Larger(maxCol, col)
  /\ next' = bounds

(* The end of the span of some columns, found by a loop that starts with max
   and goes past a larger column by one; they come in the order of the edges,
   and one that follows its neighbour is not larger any more. *)
Grown(columns, max) ==
  UNION {IF max >= hi THEN {max}
         ELSE {hi + 1} \cup {h \in {hi} : hi - 1 \in columns /\ max < hi - 1}
         : hi \in {h \in columns : \A c \in columns : c <= h}}
Leftmost(columns) == {lo \in columns : \A c \in columns : lo <= c}
Ends(columns, max) == Leftmost(columns) \X Grown(columns, max)

(* first iteration: a node is put over the middle of its successors, to the
   right of what its row already has *)
UpStart(n) == IF rows[n] = row THEN next ELSE [min |-> 1, max |-> 2]
UpSpans(n) ==
  LET below == {cols[s] : s \in Successors(n)}
      start == UpStart(n)
  IN  IF below = {} THEN {start}
      ELSE {[min |-> Larger(e[1], start.min),
             max |-> IF e[2] < start.min THEN start.min + 1 ELSE e[2]] : e \in Ends(below, None)}
AfterSpan(s) ==
  LET min == IF s.min = s.max THEN s.max + 2 ELSE s.max + 1 IN [min |-> min, max |-> min + 1]
PlaceUp(n) ==
  /\ phase = "up" /\ First(n, UpBefore(n))
  /\ todo' = todo \ {n} /\ row' = rows[n]
  /\ \E s \in UpSpans(n) : PutAt(n, (s.min + s.max) \div 2, AfterSpan(s))
  /\ UNCHANGED <<input, phase, rows, paths>>

(* _detect_overlap: the wanted column when the other blocks of the row leave
   it free, or else the first free one from min, next to one of them or min *)
Others(n) == {cols[m] : m \in {m \in Nodes \ {n} : rows[m] = rows[n]}}
(* not the code: a block is taken for one column wide *)
FreeOfColumn(col, columns) == \A c \in columns : col < c \/ c < col
FreeOf(col, columns) == \A c \in columns : col < c - 1 \/ c + 1 < col
Suggestions(min, columns) ==
  {s \in {min} \cup {c + 2 : c \in columns} : s >= min /\ FreeOf(s, columns)}
DetectOverlap(ideal, min, columns) ==
  IF FreeOf(ideal, columns) THEN {ideal} ELSE Leftmost(Suggestions(min, columns))

(* second iteration: a node with several predecessors is put below their
   middle; the others stay *)
DownStart(n) == IF rows[n] = row THEN next ELSE [min |-> None, max |-> None]
StayDown(n) ==
  /\ phase = "down" /\ First(n, DownBefore(n)) /\ Cardinality(Predecessors(n)) < 2
  /\ todo' = todo \ {n} /\ row' = rows[n]
  /\ next' = [min |-> Larger(Larger(DownStart(n).min, 0), cols[n] + 2),
              max |-> Larger(Larger(DownStart(n).max, 0), cols[n] + 3)]
  /\ UNCHANGED <<input, phase, rows, cols, maxCol, paths>>
DownSpans(n) ==
  LET above == {cols[p] : p \in Predecessors(n)}
      start == DownStart(n)
  IN  {[min |-> IF start.min = None THEN e[1] ELSE Smaller(e[1], start.min), max |-> e[2]]
       : e \in Ends(above, start.max)}
PlaceDown(n) ==
  /\ phase = "down" /\ First(n, DownBefore(n)) /\ Cardinality(Predecessors(n)) >= 2
  /\ todo' = todo \ {n} /\ row' = rows[n]
  /\ \E s \in DownSpans(n) : \E col \in DetectOverlap((s.min + s.max) \div 2, s.min, Others(n)) :
       PutAt(n, col, [min |-> s.max + 1, max |-> s.max + 2])
  /\ UNCHANGED <<input, phase, rows, paths>>

(* _prepare_edge_routing: the grid has a free column on either side; a lane of
   a cell is an index of its dictionary *)
LastCol == maxCol + 2
MaxRow == Largest({rows[n] : n \in Nodes})
Columns(n) == {cols[n], cols[n] + 1}
Clear(col, r) == \A n \in Nodes : rows[n] = r => col \notin Columns(n)

(* a negative index wraps around *)
EdgeAvailable(col, first, end) ==
  \A r \in first .. end - 1 : Clear(IF col < 0 THEN col + LastCol + 1 ELSE col, r)

(* the search of _route_edge: outwards from a column, to the right first *)
Nearer(c, d, col) ==
  LET away(x) == IF x < col THEN col - x ELSE x - col
  IN  away(c) < away(d) \/ (away(c) = away(d) /\ c >= d)
RouteColumn(col, first, end) ==
  LET available == {c \in -LastCol .. LastCol : EdgeAvailable(c, first, end)}
  IN  CHOOSE c \in available : \A d \in available : Nearer(c, d, col)

(* _first_unused_index: the first gap above the smallest index *)
FirstUnused(used) ==
  IF used = {} THEN 0
  ELSE Min({i + 1 : i \in used} \ used)

(* _find_vertical_available_edge_index and its horizontal twin *)
AvailableIndex(cells, taken) ==
  FirstUnused({t[3] : t \in {t \in taken : <<t[1], t[2]>> \in cells}})
Assign(cells, lane) == {<<c[1], c[2], lane>> : c \in cells}

Between(a, b) == Smaller(a, b) .. Larger(a, b)
Corridor(a, b, r) == Between(a, b) \X {r}

(* _route_edge: the cells it takes in turn, and the points they give *)
VerticalCells(col, start, end) ==
  {col} \X (Smaller(start + 1, end) ..
            Smaller(start + 1, end) + Larger(end - start, start - end) + 1)
RouteOf(e, l) ==
  LET startCol == cols[e[1]] + 1
      startRow == rows[e[1]] + 1
      endCol == cols[e[2]] + 1
      endRow == rows[e[2]]
      col == RouteColumn(startCol, Smaller(startRow, endRow), Larger(startRow, endRow))
      exit == {<<startCol, startRow>>}
      i1 == AvailableIndex(exit, l.vertical)
      v1 == l.vertical \cup Assign(exit, i1)
      out == IF col = startCol THEN Corridor(col, col + 1, startRow)
             ELSE Corridor(startCol, col, startRow)
      i2 == AvailableIndex(out, l.horizontal)
      h2 == l.horizontal \cup Assign(out, i2)
      down == IF startRow = endRow THEN {} ELSE VerticalCells(col, startRow, endRow)
      i3 == AvailableIndex(down, v1)
      v3 == v1 \cup Assign(down, i3)
      over == IF col = endCol THEN {} ELSE Corridor(col, endCol, endRow)
      i4 == AvailableIndex(over, h2)
      h4 == h2 \cup Assign(over, i4)
      entry == IF col = endCol THEN {} ELSE {<<endCol, endRow>>}
      i5 == AvailableIndex(entry, v3)
      when(b, points) == IF b THEN points ELSE <<>>
  IN  [points |-> <<<<startCol, startRow, i1>>>>
                  \o when(col # startCol, <<<<col, startRow, i2>>>>)
                  \o when(startRow # endRow, <<<<col, endRow, i3>>>>)
                  \o when(col # endCol, <<<<endCol, endRow, i4>>, <<endCol, endRow, i5>>>>),
       lanes |-> [vertical |-> v3 \cup Assign(entry, i5), horizontal |-> h4]]

(* graph.edges: the sources in any order, the edges of a source together *)
Unrouted == graph.edges \ DOMAIN routes
RouteEdge(e) ==
  /\ phase = "route" /\ e \in Unrouted
  /\ (\E d \in Unrouted : d[1] = from) => e[1] = from
  /\ \E r \in {RouteOf(e, lanes)} :
       /\ routes' = [d \in DOMAIN routes \cup {e} |-> IF d = e THEN r.points ELSE routes[d]]
       /\ lanes' = r.lanes
  /\ from' = e[1]
  /\ UNCHANGED <<input, phase, todo, grid>>
LayoutDone ==
  /\ phase = "route" /\ Unrouted = {}
  /\ phase' = "done" /\ UNCHANGED <<input, todo, grid, paths>>
Idle == phase = "done" /\ UNCHANGED vars

LayoutNext ==
  \/ NextLoop
  \/ \E n \in Nodes : AssignRow(n) \/ PlaceUp(n) \/ StayDown(n) \/ PlaceDown(n)
  \/ \E e \in graph.edges : RouteEdge(e)
  \/ LayoutDone
  \/ Idle

LayoutSpec == LayoutInit /\ [][LayoutNext]_vars
-----------------------------------------------------------------------------
(* _set_max_grid_edge_id and _make_grids *)
LaneSpace(taken, margin) == IF taken = {} THEN 0 ELSE (Max({t[3] : t \in taken}) + 2) * margin
ColWidth(col) ==
  LET least == IF col \in {0, LastCol} THEN 20 ELSE 0
      halves == {graph.size[n][1] \div 2 : n \in {n \in Nodes : col \in Columns(n)}}
      taken == {t \in lanes.vertical : t[1] = col /\ t[2] <= MaxRow + 1}
  IN  Max({least, Largest(halves), LaneSpace(taken, XMargin)})
RowHeight(r) ==
  LET heights == {graph.size[n][2] : n \in {n \in Nodes : rows[n] = r}}
  IN  Larger(Largest(heights), LaneSpace({t \in lanes.horizontal : t[2] = r}, YMargin))
GapAbove(r) == RowMargin * 2 + LaneSpace({t \in lanes.horizontal : t[2] = r}, YMargin)

(* not the code: without col_margin *)
GridXTight(col, w) ==
  MapThenSumSet(LAMBDA c : IF c = -1 THEN w[LastCol] ELSE w[c], -1 .. col - 1)
(* _calculate_coordinates, up to the blocks; w, h and g are the widths, the
   heights and the gaps, and index -1 is the last column or row *)
GridX(col, w) ==
  MapThenSumSet(LAMBDA c : (IF c = -1 THEN w[LastCol] ELSE w[c]) + ColMargin, -1 .. col - 1)
GridY(r, h, g) ==
  g[0] + MapThenSumSet(LAMBDA q : (IF q = -1 THEN h[MaxRow + 1] ELSE h[q]) + g[q + 1], -1 .. r - 1)
BlockX(n, w) == GridX(cols[n], w) + (w[cols[n]] + w[cols[n] + 1]) \div 2 - graph.size[n][1] \div 2
BlockY(n, h, g) == GridY(rows[n], h, g) + h[rows[n]] \div 2 - graph.size[n][2] \div 2
NodeCoordinates ==
  UNION {{[n \in Nodes |-> <<BlockX(n, w), BlockY(n, h, g)>>]
          : h \in {[r \in 0 .. MaxRow + 1 |-> RowHeight(r)]},
            g \in {[r \in 0 .. MaxRow + 1 |-> GapAbove(r)]}}
         : w \in {[c \in 0 .. LastCol |-> ColWidth(c)]}}
-----------------------------------------------------------------------------
(* An edge that goes forward in the order leads to a lower row, so that the
   pass up finds the columns of all successors; the blocks of a row never
   overlap, in neither pass and however their neighbours pull at them; and the
   outermost columns stay free, where the search for a way around the blocks
   must end (_assign_rows, _assign_columns, _detect_overlap). *)
EdgesGoDown == phase # "rows" => \A e \in Acyclic : rows[e[1]] < rows[e[2]]
BlocksApart ==
  \A m, n \in Nodes :
    (m # n /\ rows[m] = rows[n] /\ cols[m] # None /\ cols[n] # None)
      => cols[m] + 1 < cols[n] \/ cols[n] + 1 < cols[m]
MarginsFree == \A n \in Nodes : cols[n] # None => 1 <= cols[n] /\ cols[n] <= maxCol
Layered == EdgesGoDown /\ BlocksApart /\ MarginsFree

(* Two edges that run along the same gap, or down the same column, next to
   each other have lanes of their own, although the cells an edge takes are
   not the ones it runs through (_assign_edge_to). *)
Runs(p) ==
  {[vertical |-> p[i][1] = p[i - 1][1],
    along |-> IF p[i][1] = p[i - 1][1] THEN p[i][1] ELSE p[i][2],
    cells |-> IF p[i][1] = p[i - 1][1]
                THEN Smaller(p[i - 1][2], p[i][2]) .. Larger(p[i - 1][2], p[i][2]) - 1
                ELSE Between(p[i - 1][1], p[i][1]),
    lane |-> p[i][3]] : i \in 2 .. Len(p)}
LanesAreOwn ==
  \A d, e \in DOMAIN routes : d # e =>
    \A a \in Runs(routes[d]), b \in Runs(routes[e]) :
      (a.vertical = b.vertical /\ a.along = b.along /\ a.cells \cap b.cells # {})
        => a.lane # b.lane

(* The route of an edge leads from the gap below its source to the gap above
   its target; each bend changes the column or the row, as the drawing asserts
   ("the impossible branch" of _calculate_coordinates); the cells it runs down
   through hold no block ("edges should not overlap with existing nodes"),
   and no cell it takes is outside the tables (_prepare_edge_routing). *)
RoutesInGrid ==
  /\ \A e \in DOMAIN routes :
       LET p == routes[e] IN
       /\ <<p[1][1], p[1][2]>> = <<cols[e[1]] + 1, rows[e[1]] + 1>>
       /\ <<p[Len(p)][1], p[Len(p)][2]>> = <<cols[e[2]] + 1, rows[e[2]]>>
       /\ \A i \in 2 .. Len(p) - 1 : (p[i][1] = p[i - 1][1]) # (p[i][2] = p[i - 1][2])
       /\ \A i \in 2 .. Len(p) : p[i][1] = p[i - 1][1] =>
            \A r \in Smaller(p[i - 1][2], p[i][2]) .. Larger(p[i - 1][2], p[i][2]) - 1 :
              Clear(p[i][1], r)
  /\ \A t \in lanes.vertical : t[1] \in 0 .. LastCol /\ t[2] \in 0 .. MaxRow + 2
  /\ \A t \in lanes.horizontal : t[1] \in 0 .. LastCol /\ t[2] \in 0 .. MaxRow + 1

(* No two blocks of the finished drawing overlap, whatever their sizes, the
   edges between them and the rounding of halves (_make_grids,
   _calculate_coordinates). *)
BlocksDisjoint ==
  phase = "done" => \A at \in NodeCoordinates : \A m, n \in Nodes :
    m # n => \E i \in 1 .. 2 : \/ at[m][i] + graph.size[m][i] <= at[n][i]
                               \/ at[n][i] + graph.size[n][i] <= at[m][i]

(* In the grid, routes stay clear of the cells of blocks, and those that run next
   to each other have lanes of their own; on the screen no two blocks overlap.
   The lines that are drawn for a route are not part of this: the first stretch
   down is drawn at the middle of the source, not in the column of the route,
   and may cross a wide block of the next row (_calculate_coordinates). *)
RoutesAndBlocksApart == RoutesInGrid /\ LanesAreOwn /\ BlocksDisjoint
=============================================================================
