---------------------------- MODULE GrHierBlock2 ----------------------------
(***************************************************************************)
(* gr_hier_block2_detail: what connect() and disconnect() leave behind in  *)
(* each hierarchical block, and how flatten() resolves it to edges between *)
(* leaf blocks.  A call that throws keeps the changes made before the      *)
(* throw, as the code does.                                                *)
(***************************************************************************)
EXTENDS GrFlowgraph

CONSTANTS
  Hiers,         \* hierarchical blocks, the top block among them
  Top,
  Candidates,    \* per hierarchical block: the connections its owner makes and breaks
  Wired,         \* per hierarchical block: the ones its constructor makes
  Singletons,    \* per hierarchical block: the blocks it connects by themselves
  Null

ASSUME HierAssumption ==
  /\ Hiers \subseteq Blocks /\ Top \in Hiers /\ Null \notin Blocks
  /\ Candidates \in [Hiers -> SUBSET (Endpoints \X Endpoints)]
  /\ Wired \in [Hiers -> SUBSET (Endpoints \X Endpoints)]
  /\ \A h \in Hiers : \A e \in Wired[h] : Src(e)[1] # Dst(e)[1]
  /\ Singletons \in [Hiers -> SUBSET Blocks]

VARIABLES
  d_edges,       \* edges of d_fg, per hierarchical block
  d_blocks,      \* singleton blocks
  d_inputs, d_outputs,  \* port -> endpoints inside; no port at all after disconnect_all
  d_parent_detail

hierVars == <<d_edges, d_blocks, d_inputs, d_outputs, d_parent_detail>>

LeafBlocks == Blocks \ Hiers

\* The connections of h by kind: from its own input, to its own output, inside.
FromInput(h, e) == Src(e)[1] = h
ToOutput(h, e)  == Dst(e)[1] = h

Internal(h, E) == {e \in E : ~FromInput(h, e) /\ ~ToOutput(h, e)}
InputEnds(h, E, p)  == {Dst(e) : e \in {f \in E : Src(f) = <<h, p>>}}
OutputEnds(h, E, p) == {Src(e) : e \in {f \in E : Dst(f) = <<h, p>>}}

Used(h, E) == (calc_used_blocks(E) \intersect Hiers) \ {h}

\* The constructors have run.
HierInit ==
  /\ d_edges = [h \in Hiers |-> Internal(h, Wired[h])]
  /\ d_blocks = [h \in Hiers |-> {}]
  /\ d_inputs = [h \in Hiers |-> [p \in 0 .. MaxIn[h] - 1 |-> InputEnds(h, Wired[h], p)]]
  /\ d_outputs = [h \in Hiers |-> [p \in 0 .. MaxOut[h] - 1 |-> OutputEnds(h, Wired[h], p)]]
  /\ d_parent_detail = [c \in Hiers |->
       LET P == {h \in Hiers : c \in Used(h, Wired[h])}
       IN IF P = {} THEN Null ELSE CHOOSE h \in P : TRUE]

-----------------------------------------------------------------------------
SetParent(h, blks, parent) ==
  d_parent_detail' = [c \in Hiers |-> IF c \in blks \ {h} THEN parent ELSE d_parent_detail[c]]

\* An input fans out to any number of endpoints, an output comes from one; a
\* call that throws leaves them as they are.
connect_input(h, e) ==
  /\ FromInput(h, e)
  /\ IF Src(e)[2] \in DOMAIN d_inputs[h]     \* else: out of range
     THEN d_inputs' = [d_inputs EXCEPT ![h][Src(e)[2]] = @ \union {Dst(e)}]
     ELSE UNCHANGED d_inputs
  /\ UNCHANGED <<d_edges, d_outputs>>

connect_output(h, e) ==
  /\ ToOutput(h, e)
  /\ IF Dst(e)[2] \in DOMAIN d_outputs[h] /\ d_outputs[h][Dst(e)[2]] = {}
     THEN d_outputs' = [d_outputs EXCEPT ![h][Dst(e)[2]] = {Src(e)}]
     ELSE UNCHANGED d_outputs                \* out of range, or already connected
  /\ UNCHANGED <<d_edges, d_inputs>>

\* connect(src, src_port, dst, dst_port): parents are set before anything but the
\* test for the same block throws.
connect(h, e) ==
  /\ Src(e)[1] # Dst(e)[1]
  /\ SetParent(h, {Src(e)[1], Dst(e)[1]}, h)
  /\ \/ connect_input(h, e)
     \/ connect_output(h, e)
     \/ /\ ~FromInput(h, e) /\ ~ToOutput(h, e)
        /\ IF check_connect(d_edges[h], e)
           THEN d_edges' = [d_edges EXCEPT ![h] = @ \union {e}]
           ELSE UNCHANGED d_edges                 \* throws
        /\ UNCHANGED <<d_inputs, d_outputs>>
  /\ UNCHANGED d_blocks

disconnect_input(h, e) ==
  /\ FromInput(h, e)
  /\ d_inputs' = [d_inputs EXCEPT ![h] =
       [p \in DOMAIN @ |-> IF p = Src(e)[2] THEN @[p] \ {Dst(e)} ELSE @[p]]]
  /\ UNCHANGED <<d_edges, d_outputs>>

\* Only the block is compared, not its port.
disconnect_output(h, e) ==
  /\ ToOutput(h, e)
  /\ d_outputs' = [d_outputs EXCEPT ![h] =
       [p \in DOMAIN @ |->
          IF p = Dst(e)[2] /\ \E s \in @[p] : s[1] = Src(e)[1] THEN {} ELSE @[p]]]
  /\ UNCHANGED <<d_edges, d_inputs>>

\* disconnect(src, src_port, dst, dst_port); what is not there is not found.
disconnect(h, e) ==
  /\ Src(e)[1] # Dst(e)[1]
  /\ SetParent(h, {Src(e)[1], Dst(e)[1]}, Null)
  /\ \/ disconnect_input(h, e)
     \/ disconnect_output(h, e)
     \/ /\ ~FromInput(h, e) /\ ~ToOutput(h, e)
        /\ d_edges' = [d_edges EXCEPT ![h] = @ \ {e}]
        /\ UNCHANGED <<d_inputs, d_outputs>>
  /\ UNCHANGED d_blocks

\* connect(block) of a block without ports.
connect_block(h, b) ==
  /\ b \notin d_blocks[h]
  /\ d_blocks' = [d_blocks EXCEPT ![h] = @ \union {b}]
  /\ SetParent(h, {b}, h)
  /\ UNCHANGED <<d_edges, d_inputs, d_outputs>>

\* disconnect(block): a singleton, or every internal edge of the block.  (Of a
\* leaf singleton the code then follows an empty pointer: not modelled.)
disconnect_block(h, b) ==
  /\ \/ /\ b \in d_blocks[h] /\ b \in Hiers
        /\ d_blocks' = [d_blocks EXCEPT ![h] = @ \ {b}]
        /\ SetParent(h, {b}, Null)
        /\ UNCHANGED d_edges
     \/ /\ b \notin d_blocks[h]
        /\ LET gone == {e \in d_edges[h] : b \in {Src(e)[1], Dst(e)[1]}}
           IN /\ gone # {}
              /\ d_edges' = [d_edges EXCEPT ![h] = @ \ gone]
              /\ SetParent(h, calc_used_blocks(gone), Null)
        /\ UNCHANGED d_blocks
  /\ UNCHANGED <<d_inputs, d_outputs>>

\* disconnect_all(): the vectors of ports are cleared with what they hold.
disconnect_all(h) ==
  /\ d_edges' = [d_edges EXCEPT ![h] = {}]
  /\ d_blocks' = [d_blocks EXCEPT ![h] = {}]
  /\ d_inputs' = [d_inputs EXCEPT ![h] = <<>>]
  /\ d_outputs' = [d_outputs EXCEPT ![h] = <<>>]
  /\ UNCHANGED d_parent_detail

Rewire ==
  \E h \in Hiers :
    \/ \E e \in Candidates[h] : connect(h, e) \/ disconnect(h, e)
    \/ \E b \in Singletons[h] : connect_block(h, b)
    \/ \E b \in Blocks : disconnect_block(h, b)
    \/ disconnect_all(h)

-----------------------------------------------------------------------------
(* flatten().  A resolved port is the set of leaf endpoints behind it, empty *)
(* when resolve_port or resolve_endpoint throws.                             *)

\* Mutant of resolve_endpoint: only one of the endpoints behind an input is found.
resolve_endpoint_one(endp, is_input) ==
  LET ports == IF is_input THEN d_inputs ELSE d_outputs
      resolve[x \in Endpoints] ==
        IF x[1] \in LeafBlocks THEN {x}
        ELSE IF x[2] \notin DOMAIN ports[x[1]] \/ ports[x[1]][x[2]] = {} THEN {}
        ELSE resolve[CHOOSE y \in ports[x[1]][x[2]] : TRUE]
  IN resolve[endp]

\* The endpoints inside that x stands for, if it is a port of a hierarchical block.
Behind(ports, x) ==
  IF x[1] \in Hiers /\ x[2] \in DOMAIN ports[x[1]] THEN ports[x[1]][x[2]] ELSE {}

\* resolve_endpoint and resolve_port, calling each other through depth
\* hierarchical blocks.
Resolver(ports) ==
  LET resolve[depth \in Nat] ==
        [x \in Endpoints |->
           IF x[1] \in LeafBlocks THEN {x}
           ELSE IF depth = 0 \/ \E y \in Behind(ports, x) : resolve[depth - 1][y] = {} THEN {}
           ELSE UNION {resolve[depth - 1][y] : y \in Behind(ports, x)}]
  IN resolve

\* There are no more blocks than Hiers to go through; in a block that contains
\* itself the code would not return.
resolve_endpoint(endp, is_input) ==
  Resolver(IF is_input THEN d_inputs ELSE d_outputs)[Cardinality(Hiers)][endp]

\* The blocks flatten_aux finds in h, of which it enters the hierarchical ones.
BlocksOf(h) ==
  LET ends == UNION (Range(d_inputs[h]) \union Range(d_outputs[h]))
  IN calc_used_blocks(d_edges[h]) \union d_blocks[h] \union {x[1] : x \in ends}

\* The blocks flatten_aux enters when it is called of h: the recursion reaches
\* what every set closed under entering has.
Flattened(h) ==
  {g \in Hiers : \A S \in SUBSET Hiers :
     h \in S /\ (\A c \in S : BlocksOf(c) \intersect Hiers \subseteq S) => g \in S}

\* Every connection of the flat flowgraph, with the edge it was resolved from
\* (made once, as ConnectsOnce demands).
Resolved ==
  UNION {{<<e, x>> : x \in resolve_endpoint(Src(e), FALSE) \X resolve_endpoint(Dst(e), TRUE)} :
         e \in UNION {d_edges[h] : h \in Flattened(Top)}}

FlatEdges == {r[2] : r \in Resolved}

\* Mutant of flatten_ok: connect() of the flat flowgraph makes no checks.
flatten_ok_unchecked ==
  \A h \in Flattened(Top) :
    /\ \A p \in DOMAIN d_inputs[h] : d_inputs[h][p] # {}
    /\ \A p \in DOMAIN d_outputs[h] : d_outputs[h][p] # {}

\* The endpoints resolve_endpoint collects from a fan-out are all different: no
\* leaf is reached through two of the endpoints behind an input.
resolved_once(endp) ==
  LET once[depth \in Nat] ==
        [x \in Endpoints |-> depth > 0 =>
           /\ \A y \in Behind(d_inputs, x) : once[depth - 1][y]
           /\ \A y, z \in Behind(d_inputs, x) :
                y # z => resolve_endpoint(y, TRUE) \intersect resolve_endpoint(z, TRUE) = {}]
  IN once[Cardinality(Hiers)][endp]

\* flatten_aux makes no connection twice: blocks share no edge, one that is found
\* in two others, and so flattened twice, leads to no edges, and no edge
\* resolves twice to the same leaf.
ConnectsOnce ==
  LET entered == Flattened(Top)
  IN /\ \A h, g \in entered : h # g => d_edges[h] \intersect d_edges[g] = {}
     /\ \A h \in entered :
          /\ \A e \in d_edges[h] : resolved_once(Dst(e))
          /\ Cardinality({g \in entered : h \in BlocksOf(g)}) > 1
               => \A c \in Flattened(h) : d_edges[c] = {}

\* Nothing throws: every port is connected inside and resolves, and every
\* connect() of the flat flowgraph passes its checks.
flatten_ok ==
  /\ \A h \in Flattened(Top) :
       /\ \A p \in DOMAIN d_inputs[h] : d_inputs[h][p] # {}
       /\ \A p \in DOMAIN d_outputs[h] : d_outputs[h][p] # {}
       /\ \A e \in d_edges[h] : /\ resolve_endpoint(Src(e), FALSE) # {}
                                /\ resolve_endpoint(Dst(e), TRUE) # {}
  /\ ConnectsOnce
  /\ \A r \in Resolved : check_connect({q[2] : q \in Resolved \ {r}}, r[2])

-----------------------------------------------------------------------------
\* lock() and unlock() climb to the block that has no parent.
Root(h) ==
  LET root[g \in Hiers] == IF d_parent_detail[g] = Null THEN g ELSE root[d_parent_detail[g]]
  IN root[h]
=============================================================================
