----------------------------- MODULE SuperGraph -----------------------------
(***************************************************************************)
(* The graph of a function that the disassembly view lays out               *)
(* (utils/graph.py): basic blocks that only a call or a break of the lifter  *)
(* separates become one node.  The blocks are taken in any order, since that *)
(* of the transition graph is not known here, so a node that is merged may   *)
(* have been made and linked before.  A node is named after the block it was *)
(* made of; out_branches are left out.                                       *)
(***************************************************************************)
EXTENDS Integers, FiniteSets, Sequences, SequencesExt

CONSTANTS
  Blocks,     \* basic blocks: b + 1 is what follows b in memory
  Functions,  \* the Function nodes, which calls lead to
  Flows       \* transition graphs: entry, blocks, and edges: <<src, dst>> -> type

(* What the CFG recovery makes: calls lead to a function and returns come from
   one, a call comes back to what follows it, and what only transitions to
   outside lead to is not where the function begins and leads nowhere. *)
ASSUME FlowsAssumption ==
  /\ Blocks \subseteq Nat \ {0} /\ Functions \subseteq Nat \ {0} /\ Blocks \cap Functions = {}
  /\ \A f \in Flows :
       LET inside == {e \in DOMAIN f.edges : f.edges[e] # "outside"}
       IN  /\ f.entry \in f.blocks /\ f.blocks \subseteq Blocks /\ IsFiniteSet(DOMAIN f.edges)
           /\ DOMAIN f.edges \subseteq (f.blocks \cup Functions) \X (f.blocks \cup Functions)
           /\ \A e \in inside :
                /\ f.edges[e] = "call" => e[2] \in Functions
                /\ f.edges[e] = "return" => e[1] \in Functions
                /\ f.edges[e] = "fake_return" => e[2] = e[1] + 1
           /\ \A e \in DOMAIN f.edges :
                \/ \E d \in inside : d[2] = e[2]
                \/ e[2] # f.entry /\ \A d \in DOMAIN f.edges : d[1] # e[2]

VARIABLES
  flow,   \* the transition graph
  left,   \* the blocks that the loop has not come to
  super,  \* of: supernodes_map, held: cfg_nodes, nodes and links: super_graph
  late    \* history: the blocks that came before the one they are joined to

superVars == <<flow, left, super, late>>

NoSuper == 0

(* a transition to outside goes, and what only such edges lead to *)
Inside == {e \in DOMAIN flow.edges : flow.edges[e] # "outside"}
OutOf(n) == {e \in Inside : e[1] = n}
Into(n) == {e \in Inside : e[2] = n}
KeptBlocks ==
  {b \in flow.blocks : Into(b) # {} \/ \A e \in DOMAIN flow.edges : e[2] # b}

(* edges_to_shrink *)
Shrunk ==
  LET type(e) == flow.edges[e]
      onlyFollows(e) == e[2] = e[1] + 1 /\ OutOf(e[1]) = {e} /\ Into(e[2]) = {e}
      returnsTo(e) == /\ type(e) = "fake_return" /\ e[2] \notin Functions
                      /\ \A d \in OutOf(e[1]) : type(d) \in {"fake_return", "call"}
                      /\ \A d \in Into(e[2]) : type(d) \in {"fake_return", "return"}
  IN  {e \in Inside : onlyFollows(e) \/ returnsTo(e)}
-----------------------------------------------------------------------------
SuperInit ==
  /\ flow \in Flows
  /\ left = KeptBlocks /\ late = {}
  /\ super = [of |-> [n \in Blocks \cup Functions |-> NoSuper], held |-> [b \in Blocks |-> {}],
              nodes |-> {}, links |-> {}]

(* the super graph without a node, and with more links and their ends *)
LinksOf(g, s) == {l \in g.links : s \in {l[1], l[2]}}
Without(g, s) == [g EXCEPT !.nodes = @ \ {s}, !.links = @ \ LinksOf(g, s)]
Linked(g, links) ==
  [g EXCEPT !.nodes = @ \cup UNION {{l[1], l[2]} : l \in links}, !.links = @ \cup links]

WithSuper(g, n) ==
  IF g.of[n] # NoSuper THEN g
  ELSE [g EXCEPT !.of[n] = n, !.held[n] = {n}, !.nodes = @ \cup {n}]

(* not the code: what the other node held stays mapped to it *)
AbsorbOne(g, s, dst) ==
  LET d == g.of[dst]
      held == IF d = NoSuper THEN {} ELSE g.held[d]
      moved == {[i \in 1 .. 2 |-> IF l[i] = d THEN s ELSE l[i]] : l \in LinksOf(g, d)}
  IN  Linked(Without([g EXCEPT !.held[s] = @ \cup {dst} \cup held, !.of[dst] = s], d), moved)
(* insert_cfgnode and merge: s takes a block, and what its own node holds and
   is linked to *)
Absorb(g, s, dst) ==
  LET d == g.of[dst]
      held == IF d = NoSuper THEN {} ELSE g.held[d]
      moved == {[i \in 1 .. 2 |-> IF l[i] = d THEN s ELSE l[i]] : l \in LinksOf(g, d)}
  IN  Linked(Without([g EXCEPT !.held[s] = @ \cup {dst} \cup held,
                               !.of = [n \in DOMAIN @ |-> IF n \in {dst} \cup held THEN s ELSE @[n]]],
                     d), moved)

(* one edge of node n; calls have no node of their own *)
Follow(g, n, dst) ==
  IF <<n, dst>> \in Shrunk THEN Absorb(g, g.of[n], dst)
  ELSE IF dst \in Functions THEN g
  ELSE Linked(WithSuper(g, dst), {<<g.of[n], WithSuper(g, dst).of[dst]>>})

(* one round of the loop over transition_graph.nodes(): the node is taken off
   the graph while its edges are followed, and put back with the links it had *)
Convert(n) ==
  /\ n \in left
  /\ left' = left \ {n}
  /\ late' = late \cup {b \in {n} : \E e \in Shrunk : e[2] = b /\ e[1] \in left'}
  /\ \E dsts \in SetToSeqs({e[2] : e \in OutOf(n)}) :
       LET g == WithSuper(super, n)
           s == g.of[n]
           off == FoldLeft(LAMBDA h, dst : Follow(h, n, dst), Without(g, s), dsts)
       IN  super' = Linked([off EXCEPT !.nodes = @ \cup {s}], LinksOf(g, s))
  /\ UNCHANGED flow
Converted == left = {} /\ UNCHANGED superVars

SuperNext == (\E n \in Blocks : Convert(n)) \/ Converted
SuperSpec == SuperInit /\ [][SuperNext]_superVars
-----------------------------------------------------------------------------
(* When all is converted each block is shown in the one node it is mapped to,
   and the links are the edges between the blocks of different nodes and back
   within one: nothing is lost although nodes that are merged have links, and
   links are put back later (to_supergraph).  What the code does not do: a block
   that came before the one it is joined to is merged when it is linked already,
   and a link back to the node it becomes part of returns with the node that is
   gone. *)
Inner == {e \in Inside \ Shrunk : e[1] \in Blocks /\ e[2] \in Blocks}
EntryMerged == \E e \in Shrunk : e[2] = flow.entry
Exact ==
  /\ super.nodes = {super.of[b] : b \in KeptBlocks}
  /\ \A b \in KeptBlocks : {s \in super.nodes : b \in super.held[s]} = {super.of[b]}
  /\ super.links = {<<super.of[e[1]], super.of[e[2]]>> : e \in Inner}
LoopsBack ==
  \E b \in late : \E e \in Inner : {super.of[e[1]], super.of[e[2]]} = {super.of[b]}

(* A node is entered at its first block only and left from its last; the
   function begins at the first block of a node, where the view looks for it
   (QDisassemblyGraph.reload), unless it was merged; and no function is in a
   node ("don't put functions into the supergraph") but one that follows its
   only caller and does not return. *)
FirstOf(s) == CHOOSE b \in super.held[s] : \A c \in super.held[s] : b <= c
LastOf(s) == CHOOSE b \in super.held[s] : \A c \in super.held[s] : b >= c
Straight ==
  /\ \A e \in Inner : e[1] = LastOf(super.of[e[1]]) /\ e[2] = FirstOf(super.of[e[2]])
  /\ EntryMerged \/ flow.entry = FirstOf(super.of[flow.entry])
  /\ \A s \in super.nodes : \A f \in super.held[s] \cap Functions :
       OutOf(f - 1) = {<<f - 1, f>>} /\ Into(f) = {<<f - 1, f>>}

SupergraphIsFlow ==
  left = {} => (Exact \/ LoopsBack) /\ Straight
=============================================================================
