---------------------------- MODULE GrFlowgraph ----------------------------
(***************************************************************************)
(* gr_flowgraph as operators on its edges.  An endpoint is <<block, port>> *)
(* and an edge <<source endpoint, destination endpoint>>.  d_edges is a    *)
(* set: check_dst_not_used keeps duplicates out of the vector, and nothing *)
(* depends on its order.  Vectors of blocks are sorted by address, so a    *)
(* block is a number, its address.  Ports are counted from 0.              *)
(***************************************************************************)
EXTENDS Integers, Sequences, FiniteSets, SequencesExt

CONSTANTS
  Blocks,                  \* leaf and hierarchical blocks
  MinIn, MaxIn, MinOut, MaxOut,   \* min_streams and max_streams of the signatures
  InSize, OutSize,         \* sizeof_stream_item of the ports of a block
  check_topology(_, _, _)  \* does a block accept this many inputs and outputs

ASSUME BlocksAssumption ==
  /\ IsFiniteSet(Blocks) /\ Blocks \subseteq Nat
  /\ MaxIn \in [Blocks -> Nat] /\ MaxOut \in [Blocks -> Nat]
ASSUME TopologyAssumption ==
  \A b \in Blocks : \A nin \in 0 .. MaxIn[b], nout \in 0 .. MaxOut[b] :
    check_topology(b, nin, nout) \in BOOLEAN

Endpoints == Blocks \X Nat

Src(e) == e[1]
Dst(e) == e[2]

\* unique_vector: in the order of the addresses.
unique_vector(S) ==
  [i \in 1 .. Cardinality(S) |-> CHOOSE x \in S : Cardinality({y \in S : y < x}) = i - 1]

calc_used_blocks(E) == {Src(e)[1] : e \in E} \union {Dst(e)[1] : e \in E}
calc_upstream_edges(E, b) == {e \in E : Dst(e)[1] = b}
calc_downstream_blocks(E, b) == {Dst(e)[1] : e \in {f \in E : Src(f)[1] = b}}
calc_used_ports(E, b, is_input) ==
  IF is_input THEN {Dst(e)[2] : e \in {f \in E : Dst(f)[1] = b}}
              ELSE {Src(e)[2] : e \in {f \in E : Src(f)[1] = b}}
calc_upstream_edge(E, dst) == CHOOSE e \in E : Dst(e) = dst

\* The checks of connect(): ports exist, the destination is free, items agree.
check_connect(E, e) ==
  /\ Src(e)[2] \in 0 .. MaxOut[Src(e)[1]] - 1 /\ Dst(e)[2] \in 0 .. MaxIn[Dst(e)[1]] - 1
  /\ \A f \in E : Dst(f) # Dst(e)
  /\ OutSize[Src(e)[1]] = InSize[Dst(e)[1]]

check_contiguity(ports, least, most) ==
  LET nports == Cardinality(ports)
  IN \/ nports = 0 /\ least = 0
     \/ /\ nports > 0 /\ least <= nports /\ nports <= most
        /\ unique_vector(ports)[nports] + 1 = nports

\* validate() does not throw.
validate(E) ==
  \A b \in calc_used_blocks(E) :
    LET ins  == calc_used_ports(E, b, TRUE)
        outs == calc_used_ports(E, b, FALSE)
    IN /\ check_contiguity(ins, MinIn[b], MaxIn[b])
       /\ check_contiguity(outs, MinOut[b], MaxOut[b])
       /\ check_topology(b, Cardinality(ins), Cardinality(outs))

-----------------------------------------------------------------------------
(* Depth-first searches.  [color, output, loop] is what a visit changes: the *)
(* colours of the blocks, the output vector, and whether it threw "flow      *)
(* graph has loops!".                                                        *)

source_p(E, b) == calc_upstream_edges(E, b) = {}

sort_sources_first(E, blocks) ==
  unique_vector({b \in blocks : source_p(E, b)}) \o unique_vector({b \in blocks : ~source_p(E, b)})

Visited == [color : [Blocks -> {"WHITE", "GREY", "BLACK"}], output : Seq(Blocks), loop : BOOLEAN]

\* The loop over blocks, of which visit enters the white ones.  (None is grey
\* in the loop of topological_sort itself.)
visit_each(visit, st, blocks) ==
  LET after[i \in 0 .. Len(blocks)] ==
        IF i = 0 THEN st
        ELSE LET s == after[i - 1]
                 p == blocks[i]
             IN IF s.loop THEN s
                ELSE IF s.color[p] = "GREY" THEN [s EXCEPT !.loop = TRUE]
                ELSE IF s.color[p] = "WHITE" THEN visit[<<p, s>>]
                ELSE s
  IN after[Len(blocks)]

\* Mutant of topological_dfs_visit: the block is put out before its successors.
visit_preorder(E) ==
  LET dfs[depth \in Nat] ==
        [x \in Blocks \X Visited |->
           IF depth = 0 THEN x[2]
           ELSE visit_each(dfs[depth - 1], [x[2] EXCEPT !.color[x[1]] = "BLACK", !.output = Append(@, x[1])],
                           unique_vector(calc_downstream_blocks(E, x[1])))]
  IN dfs[Cardinality(Blocks)]

\* The visit of a block, as a function of the block and what was there before.
\* A visit enters a white block, so no more of them nest than there are blocks.
topological_dfs_visit(E) ==
  LET dfs[depth \in Nat] ==
        [x \in Blocks \X Visited |->
           LET after == visit_each(dfs[depth - 1], [x[2] EXCEPT !.color[x[1]] = "GREY"],
                                   unique_vector(calc_downstream_blocks(E, x[1])))
           IN IF depth = 0 THEN x[2]
              ELSE IF after.loop THEN after
              ELSE [after EXCEPT !.color[x[1]] = "BLACK", !.output = Append(@, x[1])]]
  IN dfs[Cardinality(Blocks)]

\* All blocks are white.
Unvisited == [color |-> [b \in Blocks |-> "WHITE"], output |-> <<>>, loop |-> FALSE]

\* topological_sort: the sorted blocks, or <<>> when it throws.
topological_sort(E, blocks) ==
  LET st == visit_each(topological_dfs_visit(E), Unvisited, sort_sources_first(E, blocks))
  IN IF st.loop THEN <<>> ELSE Reverse(st.output)

calc_adjacent_blocks(E, b) ==
  calc_downstream_blocks(E, b) \union {Src(e)[1] : e \in calc_upstream_edges(E, b)}

\* Mutant of reachable_dfs_visit: edges are followed downstream only.
visit_downstream(E) ==
  LET dfs[depth \in Nat] ==
        [x \in Blocks \X Visited |->
           IF depth = 0 THEN x[2]
           ELSE visit_each(dfs[depth - 1], [x[2] EXCEPT !.color[x[1]] = "BLACK"],
                           unique_vector(calc_downstream_blocks(E, x[1])))]
  IN dfs[Cardinality(Blocks)]

\* Nothing is grey in this search, and nothing is put out.
reachable_dfs_visit(E) ==
  LET dfs[depth \in Nat] ==
        [x \in Blocks \X Visited |->
           IF depth = 0 THEN x[2]
           ELSE visit_each(dfs[depth - 1], [x[2] EXCEPT !.color[x[1]] = "BLACK"],
                           unique_vector(calc_adjacent_blocks(E, x[1])))]
  IN dfs[Cardinality(Blocks)]

\* The blocks of earlier parts keep their colours, but no edge leads to them.
calc_reachable_blocks(E, b, blocks) ==
  {c \in blocks : reachable_dfs_visit(E)[<<b, Unvisited>>].color[c] = "BLACK"}

\* partition(): the connected parts, each one sorted.  Every round takes a part
\* out of the blocks that are left.
partition(E) ==
  LET rounds[n \in Nat] ==
        IF n = 0 THEN [result |-> <<>>, blocks |-> calc_used_blocks(E)]
        ELSE LET s == rounds[n - 1]
                 graph == calc_reachable_blocks(E, unique_vector(s.blocks)[1], s.blocks)
             IN IF s.blocks = {} THEN s
                ELSE [result |-> Append(s.result, topological_sort(E, graph)), blocks |-> s.blocks \ graph]
  IN rounds[Cardinality(Blocks)].result
-----------------------------------------------------------------------------
(* Orders, loops and parts, for the properties. *)

\* order has each of the blocks once, upstream before downstream.
Ordered(E, blocks, order) ==
  /\ IsInjective(order) /\ Range(order) = blocks
  /\ \A e \in E : \A i, j \in DOMAIN order :
       order[i] = Src(e)[1] /\ order[j] = Dst(e)[1] => i < j

\* Every block of T has a block of T downstream: there is a loop among them.
Looped(E, T) == T # {} /\ \A b \in T : calc_downstream_blocks(E, b) \intersect T # {}

\* No edge leads into T or out of it.
Apart(E, T) == \A e \in E : Src(e)[1] \in T <=> Dst(e)[1] \in T

\* A connected part: nothing leads in or out, and it does not fall apart.
Part(E, P) ==
  /\ P # {} /\ Apart(E, P)
  /\ \A T \in SUBSET P : T = {} \/ T = P \/ ~Apart(E, T)

\* The blocks in use are in parts, one part each, or there is a loop.
SortedParts(E, parts) ==
  LET blocks == calc_used_blocks(E)
  IN IF \E T \in SUBSET blocks : Looped(E, T) THEN \E k \in DOMAIN parts : parts[k] = <<>>
     ELSE /\ UNION {Range(parts[k]) : k \in DOMAIN parts} = blocks
          /\ \A k, l \in DOMAIN parts : Range(parts[k]) \intersect Range(parts[l]) # {} => k = l
          /\ \A k \in DOMAIN parts : Part(E, Range(parts[k])) /\ Ordered(E, Range(parts[k]), parts[k])
=============================================================================
