----------------------- MODULE GrFlatFlowgraphProofs -----------------------
(***************************************************************************)
(* Proofs about flattening a hierarchy and connecting what results, for    *)
(* every set of blocks, every wiring and every sequence of edits.          *)
(***************************************************************************)
EXTENDS GrFlatFlowgraph, GrFlowgraphProofs

-----------------------------------------------------------------------------
(* Flattening: what resolve_endpoint finds. *)

LeafEnds == LeafBlocks \X Nat

\* One more level of hierarchical blocks for a function from endpoints to the
\* leaf endpoints found so far.
Deeper(ports, g) ==
  [x \in Endpoints |->
     IF x[1] \in LeafBlocks THEN {x}
     ELSE IF \E y \in Behind(ports, x) : g[y] = {} THEN {}
     ELSE UNION {g[y] : y \in Behind(ports, x)}]

\* The recursion of resolve_endpoint is well defined, and finds leaf endpoints.
LEMMA ResolverFact ==
  ASSUME NEW ports, \A x \in Endpoints : Behind(ports, x) \subseteq Endpoints
  PROVE  /\ \A k \in Nat : Resolver(ports)[k] \in [Endpoints -> SUBSET LeafEnds]
         /\ \A x \in Endpoints : Resolver(ports)[0][x] = IF x[1] \in LeafBlocks THEN {x} ELSE {}
         /\ \A k \in Nat : Resolver(ports)[k + 1] = Deeper(ports, Resolver(ports)[k])
<1> DEFINE V == [Endpoints -> SUBSET LeafEnds]
           base == [x \in Endpoints |-> IF x[1] \in LeafBlocks THEN {x} ELSE {}]
           F == [g \in V |-> Deeper(ports, g)]
           Row(g, k) ==
             [x \in Endpoints |->
                IF x[1] \in LeafBlocks THEN {x}
                ELSE IF k = 0 \/ \E y \in Behind(ports, x) : g[k - 1][y] = {} THEN {}
                ELSE UNION {g[k - 1][y] : y \in Behind(ports, x)}]
<1>1. \A x \in Endpoints : x[1] \in LeafBlocks => x \in LeafEnds
  BY DEF Endpoints, LeafEnds
<1>2. base \in V
  BY <1>1
<1>3. ASSUME NEW g \in V PROVE Deeper(ports, g) \in V
  <2>1. ASSUME NEW x \in Endpoints
        PROVE  (IF x[1] \in LeafBlocks THEN {x}
                ELSE IF \E y \in Behind(ports, x) : g[y] = {} THEN {}
                ELSE UNION {g[y] : y \in Behind(ports, x)}) \in SUBSET LeafEnds
    <3>1. UNION {g[y] : y \in Behind(ports, x)} \subseteq LeafEnds
      OBVIOUS
    <3> QED
      BY <1>1, <3>1
  <2> QED
    BY <2>1 DEF Deeper
<1>4. F \in [V -> V]
  BY <1>3
<1>5. PICK g \in [Nat -> V] : Iterates(g, Nat, base, F)
  <2> HIDE DEF V, base, F
  <2> QED
    BY <1>2, <1>4, IteratesExists
<1>6. g[0] = base /\ \A k \in Nat : g[k + 1] = F[g[k]]
  <2> HIDE DEF V, base, F
  <2>1. \A k \in Nat : k + 1 \in Nat /\ k + 1 # 0 /\ (k + 1) - 1 = k
    OBVIOUS
  <2> QED
    BY <1>5, <2>1 DEF Iterates
<1>7. \A f, j : Row(f, 0) = base
  OBVIOUS
<1>8. ASSUME NEW f, NEW k \in Nat PROVE Row(f, k + 1) = Deeper(ports, f[k])
  <2>1. k + 1 # 0 /\ (k + 1) - 1 = k
    OBVIOUS
  <2> QED
    BY <2>1, Zenon DEF Deeper
<1> HIDE DEF Row, base
<1>9. ASSUME NEW k \in Nat PROVE g[k] = Row(g, k)
  <2>1. CASE k = 0
    BY <1>6, <1>7, <2>1
  <2>2. CASE k # 0
    <3> DEFINE j == k - 1
    <3>1. j \in Nat /\ k = j + 1
      BY <2>2
    <3> HIDE DEF j
    <3>2. g[j + 1] = Deeper(ports, g[j])
      BY <1>6, <3>1
    <3> QED
      BY <1>8, <3>1, <3>2
  <2> QED
    BY <2>1, <2>2
<1>10. g = [k \in Nat |-> Row(g, k)]
  <2> HIDE DEF V
  <2> QED
    BY <1>9
<1> DEFINE r == Resolver(ports)
<1>11. r = CHOOSE f : f = [k \in Nat |-> Row(f, k)]
  BY DEF Resolver, Row
<1>12. r = [k \in Nat |-> Row(r, k)]
  <2> HIDE DEF r, V
  <2> QED
    BY <1>10, <1>11
<1> HIDE DEF r
<1>13. r[0] = base
  BY <1>7, <1>12
<1>14. \A k \in Nat : r[k + 1] = Deeper(ports, r[k])
  BY <1>8, <1>12
<1>15. \A k \in Nat : r[k] \in V
  <2> DEFINE T == {k \in Nat : r[k] \in V}
  <2>1. 0 \in T
    BY <1>2, <1>13
  <2>2. ASSUME NEW k \in Nat, k \in T PROVE k + 1 \in T
    <3> HIDE DEF V
    <3> QED
      BY <1>3, <1>14, <2>2
  <2>3. \A k \in Nat : k \in T
    <3> HIDE DEF T
    <3> QED
      BY <2>1, <2>2, Induction
  <2> QED
    BY <2>3
<1> QED
  BY <1>13, <1>14, <1>15 DEF r, base

\* A vector of ports holds endpoints.
LEMMA PortsType ==
  ASSUME NEW ports, NEW n, PortsOK(ports, n), NEW p \in DOMAIN ports
  PROVE  ports[p] \subseteq Endpoints
<1>1. CASE ports = <<>>
  <2>1. DOMAIN <<>> = {}
    OBVIOUS
  <2> QED
    BY <1>1, <2>1
<1>2. CASE ports \in [0 .. n - 1 -> SUBSET Endpoints]
  <2> DEFINE D == 0 .. n - 1
  <2>1. ports \in [D -> SUBSET Endpoints]
    BY <1>2
  <2> HIDE DEF D
  <2> QED
    BY <2>1
<1> QED
  BY <1>1, <1>2 DEF PortsOK

\* The ports of a hierarchical block lead to endpoints.
LEMMA BehindType ==
  ASSUME HierTypeOK
  PROVE  \A x \in Endpoints : /\ Behind(d_inputs, x) \subseteq Endpoints
                              /\ Behind(d_outputs, x) \subseteq Endpoints
<1>1. \A h \in Hiers : PortsOK(d_inputs[h], MaxIn[h]) /\ PortsOK(d_outputs[h], MaxOut[h])
  BY DEF HierTypeOK
<1>2. \A h \in Hiers : /\ \A p \in DOMAIN d_inputs[h] : d_inputs[h][p] \subseteq Endpoints
                       /\ \A p \in DOMAIN d_outputs[h] : d_outputs[h][p] \subseteq Endpoints
  BY <1>1, PortsType
<1> QED
  BY <1>2 DEF Behind

\* Flattening enters hierarchical blocks, and finds edges between leaf blocks.
LEMMA FlatEdgesType == HierTypeOK => FlatEdges \subseteq LeafEnds \X LeafEnds
<1> SUFFICES ASSUME HierTypeOK PROVE FlatEdges \subseteq LeafEnds \X LeafEnds
  OBVIOUS
<1> DEFINE N == Cardinality(Hiers)
<1>1. N \in Nat
  BY BlocksAssumption, HierAssumption, FS_Subset, FS_CardinalityType
<1>2. /\ Resolver(d_inputs)[N] \in [Endpoints -> SUBSET LeafEnds]
      /\ Resolver(d_outputs)[N] \in [Endpoints -> SUBSET LeafEnds]
  <2> HIDE DEF N
  <2> QED
    BY <1>1, BehindType, ResolverFact
<1>3. \A x \in Endpoints : /\ resolve_endpoint(x, TRUE) \subseteq LeafEnds
                           /\ resolve_endpoint(x, FALSE) \subseteq LeafEnds
  BY <1>2 DEF resolve_endpoint
<1>4. \A e \in UNION {d_edges[h] : h \in Flattened(Top)} : Src(e) \in Endpoints /\ Dst(e) \in Endpoints
  <2>1. \A h \in Flattened(Top) : h \in Hiers
    BY DEF Flattened
  <2>2. \A h \in Hiers : d_edges[h] \subseteq Endpoints \X Endpoints
    BY DEF HierTypeOK
  <2> QED
    BY <2>1, <2>2 DEF Src, Dst
<1>5. ASSUME NEW r \in Resolved PROVE r[2] \in LeafEnds \X LeafEnds
  <2>1. PICK e \in UNION {d_edges[h] : h \in Flattened(Top)} :
          r \in {<<e, x>> : x \in resolve_endpoint(Src(e), FALSE) \X resolve_endpoint(Dst(e), TRUE)}
    BY Zenon DEF Resolved
  <2>2. PICK x \in resolve_endpoint(Src(e), FALSE) \X resolve_endpoint(Dst(e), TRUE) : r = <<e, x>>
    BY <2>1
  <2>3. x \in LeafEnds \X LeafEnds
    BY <1>3, <1>4
  <2> QED
    BY <2>2, <2>3
<1> QED
  BY <1>5 DEF FlatEdges

\* The checks of connect() on every flat edge: ports exist, no input has two edges.
Driven(E) ==
  /\ E \subseteq LeafEnds \X LeafEnds
  /\ \A e \in E : /\ Src(e)[2] \in 0 .. MaxOut[Src(e)[1]] - 1
                  /\ Dst(e)[2] \in 0 .. MaxIn[Dst(e)[1]] - 1
  /\ \A e, f \in E : Dst(e) = Dst(f) => e = f

\* A flattening that does not throw has passed them.
LEMMA FlattenDriven == HierTypeOK /\ flatten_ok => Driven(FlatEdges)
<1> SUFFICES ASSUME HierTypeOK, flatten_ok PROVE Driven(FlatEdges)
  OBVIOUS
<1>1. \A r \in Resolved : check_connect({q[2] : q \in Resolved \ {r}}, r[2])
  BY DEF flatten_ok
<1>2. \A r \in Resolved : /\ Src(r[2])[2] \in 0 .. MaxOut[Src(r[2])[1]] - 1
                          /\ Dst(r[2])[2] \in 0 .. MaxIn[Dst(r[2])[1]] - 1
  BY <1>1, Zenon DEF check_connect
<1>3. ASSUME NEW r \in Resolved, NEW q \in Resolved, Dst(r[2]) = Dst(q[2]) PROVE r[2] = q[2]
  <2>1. \A f \in {t[2] : t \in Resolved \ {r}} : Dst(f) # Dst(r[2])
    BY <1>1, Zenon DEF check_connect
  <2> QED
    BY <1>3, <2>1
<1> QED
  BY <1>2, <1>3, FlatEdgesType, Zenon DEF Driven, FlatEdges

-----------------------------------------------------------------------------
(* Allocation. *)

\* A function on the first numbers is a sequence.
LEMMA SeqFcn ==
  ASSUME NEW S, NEW n \in Nat, NEW f \in [1 .. n -> S]
  PROVE  f \in Seq(S) /\ Len(f) = n /\ DOMAIN f = 1 .. n
OBVIOUS

\* Ports that pass check_contiguity are the first ones.
LEMMA Contiguous ==
  ASSUME NEW S, S \subseteq Nat, IsFiniteSet(S), NEW least, NEW most,
         check_contiguity(S, least, most), NEW p \in S
  PROVE  Cardinality(S) \in Nat /\ p < Cardinality(S)
<1> DEFINE n == Cardinality(S)
           Below(x) == {y \in S : y < x}
<1>1. n \in Nat /\ n # 0
  BY FS_CardinalityType, FS_EmptySet
<1>2. unique_vector(S)[n] + 1 = n
  BY <1>1 DEF check_contiguity
<1>3. unique_vector(S)[n] = CHOOSE x \in S : Cardinality(Below(x)) = n - 1
  <2>1. n \in 1 .. Cardinality(S)
    BY <1>1
  <2> HIDE DEF n
  <2> QED
    BY <2>1 DEF unique_vector
<1>4. Below(Max(S)) = S \ {Max(S)} /\ Max(S) \in S
  <2>1. Max(S) \in S /\ \A y \in S : y <= Max(S)
    BY MaxFact
  <2>2. \A y \in S : y < Max(S) <=> y # Max(S)
    <3>1. Max(S) \in Nat /\ \A y \in S : y \in Nat
      BY <2>1
    <3> QED
      BY <2>1, <3>1
  <2> QED
    BY <2>1, <2>2
<1>5. ASSUME NEW x \in S PROVE Cardinality(S \ {x}) = n - 1 /\ IsFiniteSet(S \ {x})
  BY FS_RemoveElement
<1> DEFINE m == unique_vector(S)[n]
<1>6. m \in S /\ Cardinality(Below(m)) = n - 1
  <2>1. \E x \in S : Cardinality(Below(x)) = n - 1
    BY <1>4, <1>5
  <2> HIDE DEF Below, n
  <2> QED
    BY <1>3, <2>1
<1>7. Below(m) \subseteq S \ {m}
  <2> HIDE DEF m
  <2>1. m \in Nat
    BY <1>6
  <2> QED
    BY <2>1
<1>8. Below(m) = S \ {m}
  <2> HIDE DEF Below, n, m
  <2> QED
    BY <1>5, <1>6, <1>7, FS_Subset
<1>9. p <= m
  <2> HIDE DEF n, m
  <2> QED
    BY <1>6, <1>8
<1> HIDE DEF n, m
<1>10. p \in Nat /\ m \in Nat /\ m + 1 = n
  BY <1>2, <1>6 DEF m
<1> QED
  BY <1>1, <1>9, <1>10 DEF n

\* The ports in use of a validated flowgraph fit the details that are made for it.
LEMMA PortsInRange ==
  ASSUME NEW E, Driven(E), validate(E)
  PROVE  /\ \A b \in LeafBlocks : /\ Cardinality(calc_used_ports(E, b, TRUE)) \in Nat
                                  /\ Cardinality(calc_used_ports(E, b, FALSE)) \in Nat
         /\ \A e \in E : /\ Dst(e)[2] < Cardinality(calc_used_ports(E, Dst(e)[1], TRUE))
                         /\ Src(e)[2] < Cardinality(calc_used_ports(E, Src(e)[1], FALSE))
<1>1. ASSUME NEW b \in LeafBlocks
      PROVE  /\ calc_used_ports(E, b, TRUE) \subseteq 0 .. MaxIn[b] - 1
             /\ calc_used_ports(E, b, FALSE) \subseteq 0 .. MaxOut[b] - 1
  BY DEF Driven, calc_used_ports
<1>2. ASSUME NEW b \in LeafBlocks
      PROVE  /\ IsFiniteSet(calc_used_ports(E, b, TRUE)) /\ calc_used_ports(E, b, TRUE) \subseteq Nat
             /\ IsFiniteSet(calc_used_ports(E, b, FALSE)) /\ calc_used_ports(E, b, FALSE) \subseteq Nat
  <2>1. MaxIn[b] \in Nat /\ MaxOut[b] \in Nat
    BY BlocksAssumption DEF LeafBlocks
  <2>2. IsFiniteSet(0 .. MaxIn[b] - 1) /\ IsFiniteSet(0 .. MaxOut[b] - 1)
    <3>1. 0 \in Int /\ MaxIn[b] - 1 \in Int /\ MaxOut[b] - 1 \in Int
      BY <2>1
    <3> QED
      BY <3>1, FS_Interval
  <2>3. 0 .. MaxIn[b] - 1 \subseteq Nat /\ 0 .. MaxOut[b] - 1 \subseteq Nat
    BY <2>1
  <2> QED
    BY <1>1, <2>2, <2>3, FS_Subset
<1>3. ASSUME NEW e \in E
      PROVE  /\ Dst(e)[1] \in LeafBlocks /\ Src(e)[1] \in LeafBlocks
             /\ Dst(e)[2] \in calc_used_ports(E, Dst(e)[1], TRUE)
             /\ Src(e)[2] \in calc_used_ports(E, Src(e)[1], FALSE)
             /\ Dst(e)[1] \in calc_used_blocks(E) /\ Src(e)[1] \in calc_used_blocks(E)
  <2>1. Dst(e) \in LeafEnds /\ Src(e) \in LeafEnds
    BY DEF Driven, Src, Dst
  <2> QED
    BY <2>1 DEF LeafEnds, calc_used_ports, calc_used_blocks
<1>4. \A b \in calc_used_blocks(E) :
        /\ check_contiguity(calc_used_ports(E, b, TRUE), MinIn[b], MaxIn[b])
        /\ check_contiguity(calc_used_ports(E, b, FALSE), MinOut[b], MaxOut[b])
  BY DEF validate
<1>5. ASSUME NEW e \in E
      PROVE  /\ Dst(e)[2] < Cardinality(calc_used_ports(E, Dst(e)[1], TRUE))
             /\ Src(e)[2] < Cardinality(calc_used_ports(E, Src(e)[1], FALSE))
  BY <1>2, <1>3, <1>4, Contiguous
<1> QED
  BY <1>2, <1>5, FS_CardinalityType

\* A new buffer belongs to its port and can hold what each reader needs.
LEMMA AllocateBuffer ==
  ASSUME NEW E, Driven(E), NEW b \in LeafBlocks, NEW port \in Nat, configs \in Nat
  PROVE  /\ allocate_buffer(E, b, port) \in Buffers
         /\ allocate_buffer(E, b, port).blk = b /\ allocate_buffer(E, b, port).port = port
         /\ allocate_buffer(E, b, port).config = configs + 1
         /\ \A e \in E : Src(e) = <<b, port>> =>
              InNeed[Dst(e)[1]] <= allocate_buffer(E, b, port).nitems
<1> DEFINE Readers == {InNeed[Dst(e)[1]] : e \in {f \in E : Src(f) = <<b, port>>}}
           Needs == {BaseItems, OutNeed[b]} \union Readers
<1>1. \A e \in E : Dst(e)[1] \in Blocks
  <2>1. \A e \in E : Dst(e) \in LeafEnds
    BY DEF Driven, Dst
  <2> QED
    BY <2>1 DEF LeafEnds, LeafBlocks
<1>2. b \in Blocks /\ Readers \subseteq {InNeed[c] : c \in Blocks}
  BY <1>1 DEF LeafBlocks
<1>3. IsFiniteSet({InNeed[c] : c \in Blocks}) /\ {InNeed[c] : c \in Blocks} \subseteq Nat
  <2>1. IsFiniteSet({InNeed[c] : c \in Blocks})
    <3> DEFINE R == {InNeed[c] : c \in Blocks}
    <3>1. InNeed \in [Blocks -> R] /\ \A t \in R : \E c \in Blocks : InNeed[c] = t
      BY FlatAssumption
    <3>2. InNeed \in Surjection(Blocks, R)
      <4> HIDE DEF R
      <4> QED
        BY <3>1 DEF Surjection
    <3> HIDE DEF R
    <3>3. IsFiniteSet(R)
      BY <3>2, BlocksAssumption, FS_Surjection
    <3> QED
      BY <3>3 DEF R
  <2> QED
    BY <2>1, FlatAssumption
<1>4. Needs \subseteq Nat /\ Needs # {}
  BY <1>2, <1>3, FlatAssumption
<1>5. IsFiniteSet(Needs)
  <2>1. IsFiniteSet(Readers)
    <3> HIDE DEF Readers
    <3> QED
      BY <1>2, <1>3, FS_Subset
  <2>2. IsFiniteSet({BaseItems, OutNeed[b]})
    <3>1. {BaseItems, OutNeed[b]} = {BaseItems} \union {OutNeed[b]}
      OBVIOUS
    <3>2. IsFiniteSet({BaseItems}) /\ IsFiniteSet({OutNeed[b]})
      BY FS_Singleton
    <3>3. IsFiniteSet({BaseItems} \union {OutNeed[b]})
      BY <3>2, FS_Union
    <3> QED
      BY <3>1, <3>3
  <2> HIDE DEF Readers
  <2> QED
    BY <2>1, <2>2, FS_Union
<1>6. Max(Needs) \in Nat /\ \A k \in Needs : k <= Max(Needs)
  <2> HIDE DEF Needs
  <2> QED
    BY <1>4, <1>5, MaxFact
<1>7. allocate_buffer(E, b, port) = [blk |-> b, port |-> port, config |-> configs + 1, nitems |-> Max(Needs)]
  BY DEF allocate_buffer
<1>8. \A e \in E : Src(e) = <<b, port>> => InNeed[Dst(e)[1]] \in Needs
  OBVIOUS
<1> HIDE DEF Needs
<1> QED
  BY <1>6, <1>7, <1>8 DEF Buffers

\* A new detail has its buffers and no readers yet.
LEMMA AllocateDetail ==
  ASSUME NEW E, Driven(E), validate(E), NEW b \in LeafBlocks, configs \in Nat
  PROVE  LET d == allocate_block_detail(E, b)
         IN  /\ d \in Details
             /\ Len(d.input) = Cardinality(calc_used_ports(E, b, TRUE))
             /\ Len(d.output) = Cardinality(calc_used_ports(E, b, FALSE))
             /\ \A i \in DOMAIN d.input : d.input[i] = Null
             /\ \A o \in DOMAIN d.output : o - 1 \in Nat /\ d.output[o] = allocate_buffer(E, b, o - 1)
<1> DEFINE ni == Cardinality(calc_used_ports(E, b, TRUE))
           no == Cardinality(calc_used_ports(E, b, FALSE))
           in == [i \in 1 .. ni |-> Null]
           out == [o \in 1 .. no |-> allocate_buffer(E, b, o - 1)]
<1>1. ni \in Nat /\ no \in Nat
  BY PortsInRange
<1>2. allocate_block_detail(E, b) = [input |-> in, output |-> out]
  BY DEF allocate_block_detail
<1> HIDE DEF ni, no
<1>3. \A o \in 1 .. no : o - 1 \in Nat /\ allocate_buffer(E, b, o - 1) \in Buffers
  BY <1>1, AllocateBuffer
<1>4. in \in Seq(Buffers \union {Null}) /\ Len(in) = ni /\ DOMAIN in = 1 .. ni
  <2>1. in \in [1 .. ni -> Buffers \union {Null}]
    OBVIOUS
  <2> HIDE DEF in
  <2> QED
    BY <1>1, <2>1, SeqFcn
<1>5. out \in Seq(Buffers) /\ Len(out) = no /\ DOMAIN out = 1 .. no
  <2>1. out \in [1 .. no -> Buffers]
    BY <1>3
  <2> HIDE DEF out
  <2> QED
    BY <1>1, <2>1, SeqFcn
<1>6. (\A i \in 1 .. ni : in[i] = Null) /\ \A o \in 1 .. no : out[o] = allocate_buffer(E, b, o - 1)
  OBVIOUS
<1> HIDE DEF in, out
<1> DEFINE d == allocate_block_detail(E, b)
<1>7. d.input = in /\ d.output = out /\ d \in Details
  BY <1>2, <1>4, <1>5 DEF Details
<1> HIDE DEF d
<1> SUFFICES /\ d \in Details /\ Len(d.input) = ni /\ Len(d.output) = no
             /\ \A i \in DOMAIN d.input : d.input[i] = Null
             /\ \A o \in DOMAIN d.output : o - 1 \in Nat /\ d.output[o] = allocate_buffer(E, b, o - 1)
  BY DEF d, ni, no
<1> QED
  BY <1>3, <1>4, <1>5, <1>6, <1>7

-----------------------------------------------------------------------------
(* Connecting. *)

\* The details can serve the edges.
Served(E, D) ==
  \A e \in E : D[Src(e)[1]] # Null /\ D[Dst(e)[1]] # Null /\ Connectable(e, D)

\* The two ends of an edge.
LEMMA EdgeEnds ==
  ASSUME NEW E, Driven(E), NEW e \in E
  PROVE  /\ Src(e)[1] \in LeafBlocks /\ Src(e)[2] \in Nat /\ Src(e) = <<Src(e)[1], Src(e)[2]>>
         /\ Dst(e)[1] \in LeafBlocks /\ Dst(e)[2] \in Nat /\ Dst(e) = <<Dst(e)[1], Dst(e)[2]>>
         /\ e = <<Src(e), Dst(e)>>
         /\ Src(e)[1] \in calc_used_blocks(E) /\ Dst(e)[1] \in calc_used_blocks(E)
<1>1. e \in LeafEnds \X LeafEnds
  BY DEF Driven
<1>2. Src(e) \in LeafEnds /\ Dst(e) \in LeafEnds /\ e = <<Src(e), Dst(e)>>
  BY <1>1 DEF Src, Dst
<1>3. Src(e)[1] \in calc_used_blocks(E) /\ Dst(e)[1] \in calc_used_blocks(E)
  BY DEF calc_used_blocks
<1> QED
  BY <1>2, <1>3 DEF LeafEnds

\* The input of an edge has no other.
LEMMA UpstreamEdge ==
  ASSUME NEW E, Driven(E), NEW e \in E
  PROVE  calc_upstream_edge(E, Dst(e)) = e
<1>1. \A f \in E : Dst(f) = Dst(e) => f = e
  BY DEF Driven
<1> QED
  BY <1>1 DEF calc_upstream_edge

\* Connecting gives each edge its reader, and leaves the rest alone.
LEMMA Connecting ==
  ASSUME NEW E, Driven(E), NEW D \in [LeafBlocks -> Details \union {Null}], Served(E, D)
  PROVE  LET C == ConnectInputs(E, D)
         IN  /\ C \in [LeafBlocks -> Details \union {Null}]
             /\ \A b \in LeafBlocks :
                  /\ C[b] = Null <=> D[b] = Null
                  /\ D[b] # Null =>
                       /\ C[b].output = D[b].output
                       /\ DOMAIN C[b].input = DOMAIN D[b].input
                       /\ \A i \in DOMAIN D[b].input :
                            (\A e \in E : Dst(e) # <<b, i - 1>>) => C[b].input[i] = D[b].input[i]
             /\ \A e \in E :
                  C[Dst(e)[1]].input[Dst(e)[2] + 1] = D[Src(e)[1]].output[Src(e)[2] + 1]
<1> DEFINE C == ConnectInputs(E, D)
           Read(b, i) ==
             IF \E e \in E : Dst(e) = <<b, i - 1>>
             THEN LET src == Src(calc_upstream_edge(E, <<b, i - 1>>))
                  IN D[src[1]].output[src[2] + 1]
             ELSE D[b].input[i]
           New(b) == [i \in DOMAIN D[b].input |-> Read(b, i)]
<1>1. \A b \in LeafBlocks :
        C[b] = IF D[b] = Null THEN Null ELSE [D[b] EXCEPT !.input = New(b)]
  BY DEF ConnectInputs
<1>2. ASSUME NEW e \in E, NEW b, NEW i, Dst(e) = <<b, i - 1>>
      PROVE  Read(b, i) = D[Src(e)[1]].output[Src(e)[2] + 1]
  BY <1>2, UpstreamEdge
<1>3. ASSUME NEW b, NEW i, \A e \in E : Dst(e) # <<b, i - 1>>
      PROVE  Read(b, i) = D[b].input[i]
  BY <1>3
<1>4. ASSUME NEW e \in E
      PROVE  D[Src(e)[1]].output[Src(e)[2] + 1] \in Buffers
  <2>1. Src(e)[1] \in LeafBlocks /\ Src(e)[2] \in Nat
    BY EdgeEnds
  <2>2. D[Src(e)[1]] \in Details /\ Src(e)[2] < Len(D[Src(e)[1]].output)
    BY <2>1 DEF Served, Connectable
  <2> DEFINE out == D[Src(e)[1]].output
             k == Src(e)[2]
  <2>3. out \in Seq(Buffers)
    BY <2>2 DEF Details
  <2>4. k \in Nat /\ k < Len(out)
    BY <2>1, <2>2
  <2> HIDE DEF out, k
  <2>5. out[k + 1] \in Buffers
    BY <2>3, <2>4
  <2> QED
    BY <2>5 DEF out, k
<1> HIDE DEF Read
<1>5. ASSUME NEW b \in LeafBlocks, D[b] # Null
      PROVE  /\ D[b] \in Details /\ D[b].input \in Seq(Buffers \union {Null})
             /\ New(b) \in Seq(Buffers \union {Null}) /\ DOMAIN New(b) = DOMAIN D[b].input
  <2>1. D[b] \in Details
    BY <1>5
  <2>2. D[b].input \in Seq(Buffers \union {Null})
    BY <2>1 DEF Details
  <2> DEFINE n == Len(D[b].input)
  <2>3. n \in Nat /\ DOMAIN D[b].input = 1 .. n /\ \A i \in 1 .. n : D[b].input[i] \in Buffers \union {Null}
    BY <2>2
  <2> HIDE DEF n
  <2>4. \A i \in 1 .. n : Read(b, i) \in Buffers \union {Null}
    BY <1>2, <1>3, <1>4, <2>3
  <2>5. New(b) \in [1 .. n -> Buffers \union {Null}]
    BY <2>3, <2>4
  <2> HIDE DEF New
  <2> QED
    BY <2>1, <2>2, <2>3, <2>5, SeqFcn
<1>6. ASSUME NEW b \in LeafBlocks, D[b] # Null
      PROVE  /\ C[b] \in Details /\ C[b].input = New(b) /\ C[b].output = D[b].output
  <2> DEFINE nw == New(b)
  <2>1. D[b] \in Details /\ nw \in Seq(Buffers \union {Null})
    BY <1>5, <1>6
  <2>2. C[b] = [D[b] EXCEPT !.input = nw]
    BY <1>1, <1>6
  <2> HIDE DEF C, New, nw
  <2>3. C[b] \in Details /\ C[b].input = nw /\ C[b].output = D[b].output
    BY <2>1, <2>2 DEF Details
  <2> QED
    BY <2>3 DEF nw
<1>7. C \in [LeafBlocks -> Details \union {Null}]
  <2>1. \A b \in LeafBlocks : C[b] \in Details \union {Null}
    BY <1>1, <1>6
  <2>2. C = [b \in LeafBlocks |-> C[b]]
    BY DEF ConnectInputs
  <2> HIDE DEF C
  <2> QED
    BY <2>1, <2>2
<1>8. ASSUME NEW b \in LeafBlocks PROVE C[b] = Null <=> D[b] = Null
  <2> HIDE DEF C, New
  <2> QED
    BY <1>1, <1>6, FlatAssumption
<1>9. ASSUME NEW b \in LeafBlocks, D[b] # Null
      PROVE  /\ C[b].output = D[b].output /\ DOMAIN C[b].input = DOMAIN D[b].input
             /\ \A i \in DOMAIN D[b].input :
                  (\A e \in E : Dst(e) # <<b, i - 1>>) => C[b].input[i] = D[b].input[i]
  <2>1. \A i \in DOMAIN D[b].input : New(b)[i] = Read(b, i)
    OBVIOUS
  <2> HIDE DEF C, New
  <2> QED
    BY <1>3, <1>5, <1>6, <1>9, <2>1
<1>10. ASSUME NEW e \in E
       PROVE  C[Dst(e)[1]].input[Dst(e)[2] + 1] = D[Src(e)[1]].output[Src(e)[2] + 1]
  <2> DEFINE b == Dst(e)[1]
             i == Dst(e)[2] + 1
  <2>1. b \in LeafBlocks /\ i \in Nat /\ i >= 1 /\ Dst(e) = <<b, i - 1>>
    BY EdgeEnds
  <2>2. D[b] # Null /\ i <= Len(D[b].input)
    <3>1. D[b] # Null /\ Dst(e)[2] < Len(D[b].input)
      BY DEF Served, Connectable
    <3>2. D[b] \in Details
      BY <2>1, <3>1
    <3>3. Len(D[b].input) \in Nat
      BY <3>2 DEF Details
    <3>4. Dst(e)[2] \in Nat
      BY EdgeEnds
    <3> QED
      BY <3>1, <3>3, <3>4
  <2> HIDE DEF b, i
  <2>3. i \in DOMAIN D[b].input
    <3>1. D[b].input \in Seq(Buffers \union {Null})
      BY <1>5, <2>1, <2>2
    <3> QED
      BY <2>1, <2>2, <3>1
  <2>4. New(b)[i] = Read(b, i)
    BY <2>3
  <2>5. C[b].input[i] = D[Src(e)[1]].output[Src(e)[2] + 1]
    <3> HIDE DEF C, New
    <3> QED
      BY <1>2, <1>6, <2>1, <2>2, <2>4
  <2> QED
    BY <2>5 DEF b, i
<1> HIDE DEF C
<1> SUFFICES /\ C \in [LeafBlocks -> Details \union {Null}]
             /\ \A b \in LeafBlocks :
                  /\ C[b] = Null <=> D[b] = Null
                  /\ D[b] # Null =>
                       /\ C[b].output = D[b].output
                       /\ DOMAIN C[b].input = DOMAIN D[b].input
                       /\ \A i \in DOMAIN D[b].input :
                            (\A e \in E : Dst(e) # <<b, i - 1>>) => C[b].input[i] = D[b].input[i]
             /\ \A e \in E :
                  C[Dst(e)[1]].input[Dst(e)[2] + 1] = D[Src(e)[1]].output[Src(e)[2] + 1]
  BY DEF C
<1> QED
  BY <1>7, <1>8, <1>9, <1>10

-----------------------------------------------------------------------------
(* A configuration: details are prepared for the edges, then connected. *)

\* Details before readers are attached: every block in use has one, its buffers
\* are its own, and those of this configuration were made for these edges.
Prepared(E, D) ==
  /\ D \in [LeafBlocks -> Details \union {Null}]
  /\ \A b \in calc_used_blocks(E) : D[b] # Null
  /\ \A b \in LeafBlocks : D[b] # Null =>
       \A o \in DOMAIN D[b].output :
         /\ D[b].output[o].blk = b /\ D[b].output[o].port = o - 1
         /\ D[b].output[o].config <= configs + 1
         /\ D[b].output[o].config = configs + 1 => D[b].output[o] = allocate_buffer(E, b, o - 1)

\* Every input that none of the edges leads to is without a reader.
NoOthers(E, D) ==
  \A b \in LeafBlocks : D[b] # Null =>
    \A i \in DOMAIN D[b].input : D[b].input[i] = Null \/ \E e \in E : Dst(e) = <<b, i - 1>>

\* The position of a port in a detail that can serve it.
LEMMA OutputPosition ==
  ASSUME NEW E, Driven(E), NEW D \in [LeafBlocks -> Details \union {Null}], Served(E, D), NEW e \in E
  PROVE  Src(e)[2] + 1 \in DOMAIN D[Src(e)[1]].output
<1> DEFINE out == D[Src(e)[1]].output
           k == Src(e)[2]
<1>1. Src(e)[1] \in LeafBlocks /\ k \in Nat
  BY EdgeEnds
<1>2. D[Src(e)[1]] \in Details /\ k < Len(out)
  BY <1>1 DEF Served, Connectable
<1>3. out \in Seq(Buffers)
  BY <1>2 DEF Details
<1> HIDE DEF out, k
<1>4. k + 1 \in DOMAIN out
  BY <1>1, <1>2, <1>3
<1> QED
  BY <1>4 DEF out, k

\* Connecting a part of the edges keeps the buffers where they are.
LEMMA PartlyConnected ==
  ASSUME NEW E, Driven(E), NEW D, Prepared(E, D), NEW P \in SUBSET E, Served(P, D),
         configs' = configs + 1, detail' = ConnectInputs(P, D)
  PROVE  detail' \in [LeafBlocks -> Details \union {Null}] /\ BuffersOwned'
<1>1. Driven(P)
  BY DEF Driven
<1>2. D \in [LeafBlocks -> Details \union {Null}]
  BY DEF Prepared
<1>3. /\ detail' \in [LeafBlocks -> Details \union {Null}]
      /\ \A b \in LeafBlocks : /\ detail'[b] = Null <=> D[b] = Null
                               /\ D[b] # Null => detail'[b].output = D[b].output
  BY <1>1, <1>2, Connecting
<1>4. BuffersOwned'
  BY <1>3 DEF Prepared, BuffersOwned
<1> QED
  BY <1>3, <1>4

\* A configuration that succeeds.
LEMMA Configured ==
  ASSUME NEW E, Driven(E), NEW D, Prepared(E, D), Served(E, D), configs \in Nat,
         configs' = configs + 1, d_ffg' = E, detail' = ConnectInputs(E, D)
  PROVE  /\ detail' \in [LeafBlocks -> Details \union {Null}]
         /\ BuffersOwned' /\ EdgesServed' /\ ReadersMatchEdges' /\ BuffersFit'
         /\ NoOthers(E, D) => NoOthers(E, detail')
<1>1. D \in [LeafBlocks -> Details \union {Null}]
  BY DEF Prepared
<1>2. /\ detail' \in [LeafBlocks -> Details \union {Null}]
      /\ \A b \in LeafBlocks :
           /\ detail'[b] = Null <=> D[b] = Null
           /\ D[b] # Null =>
                /\ detail'[b].output = D[b].output
                /\ DOMAIN detail'[b].input = DOMAIN D[b].input
                /\ \A i \in DOMAIN D[b].input :
                     (\A e \in E : Dst(e) # <<b, i - 1>>) => detail'[b].input[i] = D[b].input[i]
      /\ \A e \in E :
           detail'[Dst(e)[1]].input[Dst(e)[2] + 1] = D[Src(e)[1]].output[Src(e)[2] + 1]
  BY <1>1, Connecting
<1>3. BuffersOwned'
  BY PartlyConnected
<1>4. \A e \in E : /\ Src(e)[1] \in LeafBlocks /\ Dst(e)[1] \in LeafBlocks
                   /\ D[Src(e)[1]] # Null /\ D[Dst(e)[1]] # Null
  BY EdgeEnds DEF Served
<1>5. ASSUME NEW e \in E PROVE Connectable(e, detail')
  <2> DEFINE s == Src(e)[1]
             t == Dst(e)[1]
  <2>1. s \in LeafBlocks /\ t \in LeafBlocks /\ D[s] \in Details /\ D[t] \in Details
    BY <1>1, <1>4
  <2>2. detail'[t] \in Details
    BY <1>2, <1>4, <2>1
  <2>3. D[t].input \in Seq(Buffers \union {Null}) /\ detail'[t].input \in Seq(Buffers \union {Null})
    BY <2>1, <2>2 DEF Details
  <2>4. DOMAIN detail'[t].input = DOMAIN D[t].input
    BY <1>2, <1>4, <2>1
  <2>5. Len(detail'[t].input) = Len(D[t].input)
    BY <2>3, <2>4
  <2>6. detail'[s].output = D[s].output
    BY <1>2, <1>4, <2>1
  <2> QED
    BY <2>5, <2>6 DEF Served, Connectable
<1>6. EdgesServed'
  <2>1. \A e, f \in E : Dst(f) = Dst(e) => f = e
    BY DEF Driven
  <2> QED
    BY <1>2, <1>4, <1>5, <2>1 DEF EdgesServed, Connectable, Src, Dst
<1>7. ReadersMatchEdges'
  BY <1>2, <1>4 DEF ReadersMatchEdges, Src, Dst
<1>8. ASSUME \A b \in calc_used_blocks(E) : \A o \in DOMAIN detail'[b].output :
               detail'[b].output[o].config = configs + 1,
             NEW e \in E
      PROVE  InNeed[Dst(e)[1]] <= detail'[Src(e)[1]].output[Src(e)[2] + 1].nitems
  <2> DEFINE s == Src(e)[1]
             k == Src(e)[2]
  <2>1. s \in LeafBlocks /\ k \in Nat /\ Src(e) = <<s, k>> /\ s \in calc_used_blocks(E)
    BY EdgeEnds
  <2>2. k + 1 \in DOMAIN D[s].output
    BY <1>1, OutputPosition
  <2>3. detail'[s].output = D[s].output /\ D[s] # Null
    BY <1>2, <1>4, <2>1
  <2> HIDE DEF s, k
  <2>4. D[s].output[k + 1].config = configs + 1
    BY <1>8, <2>1, <2>2, <2>3
  <2>5. D[s].output[k + 1] = allocate_buffer(E, s, (k + 1) - 1)
    BY <2>1, <2>2, <2>3, <2>4 DEF Prepared
  <2>6. (k + 1) - 1 = k
    BY <2>1
  <2>7. InNeed[Dst(e)[1]] <= allocate_buffer(E, s, k).nitems
    BY <2>1, AllocateBuffer
  <2>8. InNeed[Dst(e)[1]] <= detail'[s].output[k + 1].nitems
    BY <2>3, <2>5, <2>6, <2>7
  <2> QED
    BY <2>8 DEF s, k
<1>9. BuffersFit'
  BY <1>8 DEF BuffersFit, calc_used_blocks, Src, Dst
<1>10. NoOthers(E, D) => NoOthers(E, detail')
  BY <1>2 DEF NoOthers
<1> QED
  BY <1>2, <1>3, <1>6, <1>7, <1>9, <1>10

\* Details made for the edges can serve them.
LEMMA FreshServes ==
  ASSUME NEW E, Driven(E), validate(E), configs \in Nat, NEW e \in E
  PROVE  /\ Dst(e)[2] < Len(allocate_block_detail(E, Dst(e)[1]).input)
         /\ Src(e)[2] < Len(allocate_block_detail(E, Src(e)[1]).output)
<1>1. Src(e)[1] \in LeafBlocks /\ Dst(e)[1] \in LeafBlocks
  BY EdgeEnds
<1>2. /\ Dst(e)[2] < Cardinality(calc_used_ports(E, Dst(e)[1], TRUE))
      /\ Src(e)[2] < Cardinality(calc_used_ports(E, Src(e)[1], FALSE))
  BY PortsInRange
<1>3. Len(allocate_block_detail(E, Dst(e)[1]).input) = Cardinality(calc_used_ports(E, Dst(e)[1], TRUE))
  BY <1>1, AllocateDetail
<1>4. Len(allocate_block_detail(E, Src(e)[1]).output) = Cardinality(calc_used_ports(E, Src(e)[1], FALSE))
  BY <1>1, AllocateDetail
<1> QED
  BY <1>2, <1>3, <1>4

\* A new detail has buffers of this configuration and no readers.
LEMMA FreshDetail ==
  ASSUME NEW E, Driven(E), validate(E), configs \in Nat, NEW b \in LeafBlocks
  PROVE  LET d == allocate_block_detail(E, b)
         IN  /\ d \in Details /\ d # Null
             /\ \A i \in DOMAIN d.input : d.input[i] = Null
             /\ \A o \in DOMAIN d.output :
                  /\ d.output[o].blk = b /\ d.output[o].port = o - 1
                  /\ d.output[o].config <= configs + 1 /\ d.output[o] = allocate_buffer(E, b, o - 1)
<1> DEFINE d == allocate_block_detail(E, b)
<1>1. /\ d \in Details /\ \A i \in DOMAIN d.input : d.input[i] = Null
      /\ \A o \in DOMAIN d.output : o - 1 \in Nat /\ d.output[o] = allocate_buffer(E, b, o - 1)
  BY AllocateDetail
<1> HIDE DEF d
<1>2. d # Null
  BY <1>1, FlatAssumption
<1>3. \A o \in DOMAIN d.output : /\ d.output[o].blk = b /\ d.output[o].port = o - 1
                                 /\ d.output[o].config <= configs + 1
  BY <1>1, AllocateBuffer
<1> SUFFICES /\ d \in Details /\ d # Null
             /\ \A i \in DOMAIN d.input : d.input[i] = Null
             /\ \A o \in DOMAIN d.output :
                  /\ d.output[o].blk = b /\ d.output[o].port = o - 1
                  /\ d.output[o].config <= configs + 1 /\ d.output[o] = allocate_buffer(E, b, o - 1)
  BY DEF d
<1> QED
  BY <1>1, <1>2, <1>3

\* The blocks in use are leaf blocks.
LEMMA UsedLeaves ==
  ASSUME NEW E, E \subseteq LeafEnds \X LeafEnds
  PROVE  calc_used_blocks(E) \subseteq LeafBlocks
BY DEF calc_used_blocks, Src, Dst, LeafEnds

\* setup_connections() prepares new details for every block in use.
LEMMA SetupPrepared ==
  ASSUME TypeOK, BuffersOwned, NEW E, Driven(E), validate(E)
  PROVE  LET D == [b \in LeafBlocks |-> IF b \in calc_used_blocks(E)
                                        THEN allocate_block_detail(E, b) ELSE detail[b]]
         IN  /\ Prepared(E, D) /\ Served(E, D)
             /\ (\A b \in LeafBlocks : detail[b] = Null) => NoOthers(E, D)
<1> DEFINE D == [b \in LeafBlocks |-> IF b \in calc_used_blocks(E)
                                      THEN allocate_block_detail(E, b) ELSE detail[b]]
<1>1. configs \in Nat /\ detail \in [LeafBlocks -> Details \union {Null}]
  BY DEF TypeOK
<1>2. calc_used_blocks(E) \subseteq LeafBlocks
  BY UsedLeaves DEF Driven
<1>3. \A b \in LeafBlocks : D[b] = IF b \in calc_used_blocks(E)
                                   THEN allocate_block_detail(E, b) ELSE detail[b]
  OBVIOUS
<1>4. D \in [LeafBlocks -> Details \union {Null}]
  BY <1>1, FreshDetail
<1> HIDE DEF D
<1>5. \A b \in calc_used_blocks(E) : D[b] # Null
  BY <1>1, <1>2, <1>3, FreshDetail
<1>6. ASSUME NEW b \in LeafBlocks, D[b] # Null, NEW o \in DOMAIN D[b].output
      PROVE  /\ D[b].output[o].blk = b /\ D[b].output[o].port = o - 1
             /\ D[b].output[o].config <= configs + 1
             /\ D[b].output[o].config = configs + 1 => D[b].output[o] = allocate_buffer(E, b, o - 1)
  <2>1. CASE b \in calc_used_blocks(E)
    BY <1>1, <1>3, <2>1, FreshDetail
  <2>2. CASE b \notin calc_used_blocks(E)
    <3>1. D[b] = detail[b] /\ D[b] \in Details
      BY <1>3, <1>4, <1>6, <2>2
    <3>2. D[b].output[o] \in Buffers
      BY <3>1 DEF Details
    <3>3. D[b].output[o].config \in Nat
      BY <3>2 DEF Buffers
    <3>4. /\ D[b].output[o].blk = b /\ D[b].output[o].port = o - 1
          /\ D[b].output[o].config <= configs
      BY <1>6, <3>1 DEF BuffersOwned
    <3> QED
      BY <1>1, <3>3, <3>4
  <2> QED
    BY <2>1, <2>2
<1>7. Prepared(E, D)
  BY <1>4, <1>5, <1>6 DEF Prepared
<1>8. Served(E, D)
  <2> SUFFICES ASSUME NEW e \in E
               PROVE  D[Src(e)[1]] # Null /\ D[Dst(e)[1]] # Null /\ Connectable(e, D)
    BY DEF Served
  <2>1. /\ Src(e)[1] \in calc_used_blocks(E) /\ Dst(e)[1] \in calc_used_blocks(E)
        /\ Src(e)[1] \in LeafBlocks /\ Dst(e)[1] \in LeafBlocks
    BY EdgeEnds
  <2> QED
    BY <1>1, <1>3, <1>5, <2>1, FreshServes DEF Connectable
<1>9. (\A b \in LeafBlocks : detail[b] = Null) => NoOthers(E, D)
  BY <1>1, <1>3, FreshDetail DEF NoOthers
<1> SUFFICES /\ Prepared(E, D) /\ Served(E, D)
             /\ (\A b \in LeafBlocks : detail[b] = Null) => NoOthers(E, D)
  BY DEF D
<1> QED
  BY <1>7, <1>8, <1>9

\* D is A with the readers of edges that are not in E emptied.
Emptied(E, A, D) ==
  /\ D \in [LeafBlocks -> Details \union {Null}]
  /\ \A b \in LeafBlocks :
       /\ D[b] = Null <=> A[b] = Null
       /\ A[b] # Null =>
            /\ D[b].output = A[b].output /\ DOMAIN D[b].input = DOMAIN A[b].input
            /\ \A i \in DOMAIN A[b].input :
                 /\ D[b].input[i] = Null \/ D[b].input[i] = A[b].input[i]
                 /\ (\E e \in d_ffg \ E : Dst(e) = <<b, i - 1>>) => D[b].input[i] = Null

\* Clearing empties the readers of old edges and nothing else.
LEMMA Clearing ==
  ASSUME NEW E, d_ffg \subseteq LeafEnds \X LeafEnds,
         NEW A \in [LeafBlocks -> Details \union {Null}], \A b \in calc_used_blocks(d_ffg) : A[b] # Null
  PROVE  Emptied(E, A, ClearOld(E, A))
<1> DEFINE D == ClearOld(E, A)
           New(b) == [i \in DOMAIN A[b].input |->
                        IF \E e \in d_ffg \ E : Dst(e) = <<b, i - 1>> THEN Null ELSE A[b].input[i]]
<1>1. \A b \in LeafBlocks :
        D[b] = IF b \notin calc_used_blocks(d_ffg) THEN A[b] ELSE [A[b] EXCEPT !.input = New(b)]
  BY DEF ClearOld
<1>2. D = [b \in LeafBlocks |-> D[b]]
  BY DEF ClearOld
<1> HIDE DEF D
<1>3. ASSUME NEW b \in LeafBlocks, NEW i, \E e \in d_ffg \ E : Dst(e) = <<b, i - 1>>
      PROVE  b \in calc_used_blocks(d_ffg)
  <2>1. PICK e \in d_ffg : Dst(e) = <<b, i - 1>>
    BY <1>3
  <2>2. Dst(e)[1] = b
    BY <2>1
  <2> QED
    BY <2>2 DEF calc_used_blocks
<1>4. ASSUME NEW b \in LeafBlocks, A[b] # Null
      PROVE  /\ New(b) \in Seq(Buffers \union {Null}) /\ DOMAIN New(b) = DOMAIN A[b].input
             /\ \A i \in DOMAIN A[b].input :
                  New(b)[i] = IF \E e \in d_ffg \ E : Dst(e) = <<b, i - 1>> THEN Null ELSE A[b].input[i]
  <2>1. A[b] \in Details
    BY <1>4
  <2>2. A[b].input \in Seq(Buffers \union {Null})
    BY <2>1 DEF Details
  <2> DEFINE n == Len(A[b].input)
  <2>3. n \in Nat /\ DOMAIN A[b].input = 1 .. n /\ \A i \in 1 .. n : A[b].input[i] \in Buffers \union {Null}
    BY <2>2
  <2> HIDE DEF n
  <2>4. New(b) \in [1 .. n -> Buffers \union {Null}]
    BY <2>3
  <2>5. New(b) \in Seq(Buffers \union {Null})
    <3> HIDE DEF New
    <3> QED
      BY <2>3, <2>4, SeqFcn
  <2> QED
    BY <2>5
<1> HIDE DEF New
<1>5. ASSUME NEW b \in LeafBlocks, A[b] # Null
      PROVE  /\ D[b] \in Details /\ D[b].output = A[b].output /\ DOMAIN D[b].input = DOMAIN A[b].input
             /\ \A i \in DOMAIN A[b].input :
                  /\ D[b].input[i] = Null \/ D[b].input[i] = A[b].input[i]
                  /\ (\E e \in d_ffg \ E : Dst(e) = <<b, i - 1>>) => D[b].input[i] = Null
  <2>1. A[b] \in Details
    BY <1>5
  <2>2. CASE b \notin calc_used_blocks(d_ffg)
    <3>1. D[b] = A[b]
      BY <1>1, <2>2
    <3> QED
      BY <1>3, <2>1, <2>2, <3>1
  <2>3. CASE b \in calc_used_blocks(d_ffg)
    <3> DEFINE nw == New(b)
    <3>1. D[b] = [A[b] EXCEPT !.input = nw] /\ nw \in Seq(Buffers \union {Null})
      BY <1>1, <1>4, <1>5, <2>3
    <3> HIDE DEF nw
    <3>2. D[b] \in Details /\ D[b].output = A[b].output /\ D[b].input = nw
      BY <2>1, <3>1 DEF Details
    <3>3. D[b].input = New(b)
      BY <3>2 DEF nw
    <3> QED
      BY <1>4, <1>5, <3>2, <3>3
  <2> QED
    BY <2>2, <2>3
<1>6. ASSUME NEW b \in LeafBlocks, A[b] = Null PROVE D[b] = Null
  BY <1>1, <1>6
<1>7. \A b \in LeafBlocks : D[b] \in Details \union {Null}
  BY <1>5, <1>6
<1>8. D \in [LeafBlocks -> Details \union {Null}]
  BY <1>2, <1>7
<1>9. \A b \in LeafBlocks : D[b] = Null <=> A[b] = Null
  BY <1>5, <1>6, FlatAssumption
<1>10. Emptied(E, A, D)
  BY <1>5, <1>8, <1>9 DEF Emptied
<1> QED
  BY <1>10 DEF D

\* merge_connections() prepares details for the blocks that have none, and
\* empties the readers of edges that go away.
LEMMA MergePrepared ==
  ASSUME ConfigInv, d_state = "RUNNING", NEW E, Driven(E), validate(E)
  PROVE  Prepared(E, PrepareMerge(E)) /\ (starts <= 1 => NoOthers(E, PrepareMerge(E)))
<1> DEFINE A == [b \in LeafBlocks |-> IF b \in calc_used_blocks(E) /\ detail[b] = Null
                                      THEN allocate_block_detail(E, b) ELSE detail[b]]
           D == ClearOld(E, A)
<1>1. /\ configs \in Nat /\ detail \in [LeafBlocks -> Details \union {Null}]
      /\ d_ffg \subseteq LeafEnds \X LeafEnds
  BY DEF ConfigInv, TypeOK, LeafEnds
<1>2. calc_used_blocks(E) \subseteq LeafBlocks /\ calc_used_blocks(d_ffg) \subseteq LeafBlocks
  BY <1>1, UsedLeaves DEF Driven
<1>3. \A b \in LeafBlocks : A[b] = IF b \in calc_used_blocks(E) /\ detail[b] = Null
                                   THEN allocate_block_detail(E, b) ELSE detail[b]
  OBVIOUS
<1>4. A \in [LeafBlocks -> Details \union {Null}]
  BY <1>1, FreshDetail
<1> HIDE DEF A
<1>5. \A b \in LeafBlocks : detail[b] # Null => A[b] = detail[b]
  BY <1>3
<1>6. \A b \in calc_used_blocks(d_ffg) : detail[b] # Null
  BY DEF ConfigInv, EdgesServed, calc_used_blocks
<1>7. \A b \in calc_used_blocks(d_ffg) : A[b] # Null
  BY <1>2, <1>5, <1>6
<1>8. \A b \in calc_used_blocks(E) : A[b] # Null
  BY <1>1, <1>2, <1>3, FreshDetail
<1>9. Emptied(E, A, D)
  BY <1>1, <1>4, <1>7, Clearing
<1> HIDE DEF D
<1>10. ASSUME NEW b \in LeafBlocks, A[b] # Null, NEW o \in DOMAIN A[b].output
       PROVE  /\ A[b].output[o].blk = b /\ A[b].output[o].port = o - 1
              /\ A[b].output[o].config <= configs + 1
              /\ A[b].output[o].config = configs + 1 => A[b].output[o] = allocate_buffer(E, b, o - 1)
  <2>1. CASE detail[b] = Null
    <3>1. A[b] = allocate_block_detail(E, b)
      BY <1>3, <1>10, <2>1
    <3> QED
      BY <1>1, <1>10, <3>1, FreshDetail
  <2>2. CASE detail[b] # Null
    <3>1. A[b] = detail[b] /\ A[b] \in Details
      BY <1>4, <1>5, <1>10, <2>2
    <3>2. A[b].output[o] \in Buffers
      BY <3>1 DEF Details
    <3>3. A[b].output[o].config \in Nat
      BY <3>2 DEF Buffers
    <3>4. /\ A[b].output[o].blk = b /\ A[b].output[o].port = o - 1
          /\ A[b].output[o].config <= configs
      BY <1>10, <3>1 DEF ConfigInv, BuffersOwned
    <3> QED
      BY <1>1, <3>3, <3>4
  <2> QED
    BY <2>1, <2>2
<1>11. Prepared(E, D)
  BY <1>2, <1>8, <1>9, <1>10 DEF Prepared, Emptied
<1>12. ASSUME starts <= 1, NEW b \in LeafBlocks, D[b] # Null, NEW i \in DOMAIN D[b].input,
              D[b].input[i] # Null
       PROVE  \E e \in E : Dst(e) = <<b, i - 1>>
  <2>1. A[b] # Null /\ i \in DOMAIN A[b].input /\ A[b].input[i] # Null
    BY <1>9, <1>12 DEF Emptied
  <2>2. detail[b] # Null
    BY <1>1, <1>3, <2>1, FreshDetail
  <2>3. A[b] = detail[b]
    BY <1>5, <2>2
  <2>4. PICK e \in d_ffg : Dst(e) = <<b, i - 1>>
    BY <1>12, <2>1, <2>2, <2>3 DEF ConfigInv, ReadersOfEdges
  <2>5. e \in E
    BY <1>9, <1>12, <2>1, <2>4 DEF Emptied
  <2> QED
    BY <2>4, <2>5
<1>13. starts <= 1 => NoOthers(E, D)
  BY <1>12 DEF NoOthers
<1>14. PrepareMerge(E) = D
  BY DEF PrepareMerge, A, D
<1> QED
  BY <1>11, <1>13, <1>14

\* Edges that do not throw can be served, also when a later one throws.
LEMMA MergeServes ==
  ASSUME NEW E, Driven(E), NEW D, Prepared(E, D)
  PROVE  LET bad == {e \in E : ~Connectable(e, D)}
             first == Min({Dst(e)[1] : e \in bad})
             before == {e \in E : Dst(e)[1] < first}
         IN  /\ bad = {} => Served(E, D)
             /\ bad # {} => \A part \in SUBSET ({e \in E : Dst(e)[1] = first} \ bad) :
                              before \union part \in SUBSET E /\ Served(before \union part, D)
<1> DEFINE bad == {e \in E : ~Connectable(e, D)}
           heads == {Dst(e)[1] : e \in bad}
           first == Min(heads)
           before == {e \in E : Dst(e)[1] < first}
<1>1. ASSUME NEW P \in SUBSET E, \A e \in P : Connectable(e, D) PROVE Served(P, D)
  <2>1. \A e \in E : Src(e)[1] \in calc_used_blocks(E) /\ Dst(e)[1] \in calc_used_blocks(E)
    BY EdgeEnds
  <2> QED
    BY <1>1, <2>1 DEF Served, Prepared
<1>2. bad = {} => Served(E, D)
  BY <1>1
<1>3. ASSUME bad # {}, NEW e \in before PROVE Connectable(e, D)
  <2>1. \A f \in E : Dst(f)[1] \in Nat
    BY EdgeEnds, BlocksAssumption DEF LeafBlocks
  <2>2. heads \subseteq Nat /\ heads # {}
    BY <1>3, <2>1
  <2>3. first \in heads /\ \A m \in heads : first <= m
    <3> HIDE DEF heads
    <3> QED
      BY <2>2, Smallest DEF Min
  <2>4. first \in Nat /\ Dst(e)[1] \in Nat /\ Dst(e)[1] < first
    BY <2>1, <2>2, <2>3
  <2>5. Dst(e)[1] \notin heads
    <3> HIDE DEF heads, first
    <3> QED
      BY <2>3, <2>4
  <2> HIDE DEF first
  <2> QED
    BY <2>5
<1> HIDE DEF first, heads
<1>4. ASSUME bad # {}, NEW part \in SUBSET ({e \in E : Dst(e)[1] = first} \ bad)
      PROVE  before \union part \in SUBSET E /\ Served(before \union part, D)
  <2>1. \A e \in part : Connectable(e, D)
    BY <1>4
  <2> QED
    BY <1>1, <1>3, <1>4, <2>1
<1> SUFFICES /\ bad = {} => Served(E, D)
             /\ bad # {} => \A part \in SUBSET ({e \in E : Dst(e)[1] = first} \ bad) :
                              before \union part \in SUBSET E /\ Served(before \union part, D)
  BY DEF first, heads
<1> QED
  BY <1>2, <1>4

-----------------------------------------------------------------------------
(* Rewiring. *)

\* A vector of ports with one of them replaced, or each of them.
LEMMA PortsChanged ==
  ASSUME NEW ports, NEW n, PortsOK(ports, n)
  PROVE  /\ \A p \in DOMAIN ports, S \in SUBSET Endpoints : PortsOK([ports EXCEPT ![p] = S], n)
         /\ \A f : DOMAIN f = DOMAIN ports /\ f = [p \in DOMAIN ports |-> f[p]]
                     /\ (\A p \in DOMAIN ports : f[p] \subseteq Endpoints) => PortsOK(f, n)
         /\ PortsOK(<<>>, n)
<1> DEFINE I == 0 .. n - 1
<1> SUFFICES ASSUME ports \in [I -> SUBSET Endpoints] \union {<<>>}
             PROVE  /\ \A p \in DOMAIN ports, S \in SUBSET Endpoints :
                         [ports EXCEPT ![p] = S] \in [I -> SUBSET Endpoints] \union {<<>>}
                    /\ \A f : DOMAIN f = DOMAIN ports /\ f = [p \in DOMAIN ports |-> f[p]]
                                /\ (\A p \in DOMAIN ports : f[p] \subseteq Endpoints)
                                => f \in [I -> SUBSET Endpoints] \union {<<>>}
  BY DEF PortsOK
<1> HIDE DEF I
<1>1. CASE ports = <<>>
  <2>1. DOMAIN ports = {}
    BY <1>1
  <2>2. ASSUME NEW f, f = [p \in {} |-> f[p]] PROVE f = <<>>
    <3>1. f = [p \in 1 .. 0 |-> f[p]]
      BY <2>2
    <3> QED
      BY <3>1
  <2> QED
    BY <2>1, <2>2
<1>2. CASE ports \in [I -> SUBSET Endpoints]
  BY <1>2
<1> QED
  BY <1>1, <1>2

\* What SetParent leaves has the right type.
LEMMA ParentType ==
  ASSUME HierTypeOK, NEW h \in Hiers, NEW blks, NEW parent \in Hiers \union {Null},
         SetParent(h, blks, parent)
  PROVE  d_parent_detail' \in [Hiers -> Hiers \union {Null}]
BY DEF HierTypeOK, SetParent

\* connect() of a candidate.
LEMMA ConnectType ==
  ASSUME HierTypeOK, NEW h \in Hiers, NEW e \in Candidates[h], connect(h, e)
  PROVE  HierTypeOK'
<1>1. e \in Endpoints \X Endpoints /\ Src(e) \in Endpoints /\ Dst(e) \in Endpoints
  BY HierAssumption DEF Src, Dst
<1>2. d_parent_detail' \in [Hiers -> Hiers \union {Null}] /\ d_blocks' = d_blocks
  BY ParentType DEF connect
<1>3. /\ d_edges \in [Hiers -> SUBSET (Endpoints \X Endpoints)] /\ d_blocks \in [Hiers -> SUBSET Blocks]
      /\ DOMAIN d_inputs = Hiers /\ DOMAIN d_outputs = Hiers
      /\ \A g \in Hiers : PortsOK(d_inputs[g], MaxIn[g]) /\ PortsOK(d_outputs[g], MaxOut[g])
  BY DEF HierTypeOK
<1>4. CASE connect_input(h, e)
  <2> DEFINE p == Src(e)[2]
  <2>1. CASE p \in DOMAIN d_inputs[h]
    <3> DEFINE S == d_inputs[h][p] \union {Dst(e)}
    <3>1. d_inputs' = [d_inputs EXCEPT ![h] = [d_inputs[h] EXCEPT ![p] = S]]
      BY <1>4, <2>1 DEF connect_input
    <3>2. S \in SUBSET Endpoints
      BY <1>1, <1>3, <2>1, PortsType
    <3> HIDE DEF S, p
    <3>3. PortsOK([d_inputs[h] EXCEPT ![p] = S], MaxIn[h])
      BY <1>3, <2>1, <3>2, PortsChanged
    <3>4. DOMAIN d_inputs' = Hiers /\ \A g \in Hiers : PortsOK(d_inputs'[g], MaxIn[g])
      BY <1>3, <3>1, <3>3
    <3> QED
      BY <1>2, <1>3, <1>4, <3>4 DEF HierTypeOK, connect_input
  <2>2. CASE p \notin DOMAIN d_inputs[h]
    BY <1>2, <1>3, <1>4, <2>2 DEF HierTypeOK, connect_input
  <2> QED
    BY <2>1, <2>2
<1>5. CASE connect_output(h, e)
  <2> DEFINE p == Dst(e)[2]
  <2>1. CASE p \in DOMAIN d_outputs[h] /\ d_outputs[h][p] = {}
    <3> DEFINE S == {Src(e)}
    <3>1. d_outputs' = [d_outputs EXCEPT ![h] = [d_outputs[h] EXCEPT ![p] = S]]
      BY <1>5, <2>1 DEF connect_output
    <3>2. S \in SUBSET Endpoints
      BY <1>1
    <3> HIDE DEF S, p
    <3>3. PortsOK([d_outputs[h] EXCEPT ![p] = S], MaxOut[h])
      BY <1>3, <2>1, <3>2, PortsChanged
    <3>4. DOMAIN d_outputs' = Hiers /\ \A g \in Hiers : PortsOK(d_outputs'[g], MaxOut[g])
      BY <1>3, <3>1, <3>3
    <3> QED
      BY <1>2, <1>3, <1>5, <3>4 DEF HierTypeOK, connect_output
  <2>2. CASE ~(p \in DOMAIN d_outputs[h] /\ d_outputs[h][p] = {})
    BY <1>2, <1>3, <1>5, <2>2 DEF HierTypeOK, connect_output
  <2> QED
    BY <2>1, <2>2
<1>6. CASE /\ ~FromInput(h, e) /\ ~ToOutput(h, e)
           /\ IF check_connect(d_edges[h], e)
              THEN d_edges' = [d_edges EXCEPT ![h] = @ \union {e}]
              ELSE UNCHANGED d_edges
           /\ UNCHANGED <<d_inputs, d_outputs>>
  <2>1. d_edges' \in [Hiers -> SUBSET (Endpoints \X Endpoints)]
    BY <1>1, <1>3, <1>6
  <2> QED
    BY <1>2, <1>3, <1>6, <2>1 DEF HierTypeOK
<1> QED
  BY <1>4, <1>5, <1>6 DEF connect

\* disconnect() of a candidate.
LEMMA DisconnectType ==
  ASSUME HierTypeOK, NEW h \in Hiers, NEW e \in Candidates[h], disconnect(h, e)
  PROVE  HierTypeOK'
<1>1. d_parent_detail' \in [Hiers -> Hiers \union {Null}] /\ d_blocks' = d_blocks
  BY ParentType DEF disconnect
<1>2. /\ d_edges \in [Hiers -> SUBSET (Endpoints \X Endpoints)] /\ d_blocks \in [Hiers -> SUBSET Blocks]
      /\ DOMAIN d_inputs = Hiers /\ DOMAIN d_outputs = Hiers
      /\ \A g \in Hiers : PortsOK(d_inputs[g], MaxIn[g]) /\ PortsOK(d_outputs[g], MaxOut[g])
  BY DEF HierTypeOK
<1>3. CASE disconnect_input(h, e)
  <2> DEFINE f == [p \in DOMAIN d_inputs[h] |->
                     IF p = Src(e)[2] THEN d_inputs[h][p] \ {Dst(e)} ELSE d_inputs[h][p]]
  <2>1. d_inputs' = [d_inputs EXCEPT ![h] = f]
    BY <1>3 DEF disconnect_input
  <2>2. /\ DOMAIN f = DOMAIN d_inputs[h] /\ f = [p \in DOMAIN d_inputs[h] |-> f[p]]
        /\ \A p \in DOMAIN d_inputs[h] : f[p] \subseteq Endpoints
    BY <1>2, PortsType
  <2> HIDE DEF f
  <2>3. PortsOK(f, MaxIn[h])
    BY <1>2, <2>2, PortsChanged
  <2>4. DOMAIN d_inputs' = Hiers /\ \A g \in Hiers : PortsOK(d_inputs'[g], MaxIn[g])
    BY <1>2, <2>1, <2>3
  <2> QED
    BY <1>1, <1>2, <1>3, <2>4 DEF HierTypeOK, disconnect_input
<1>4. CASE disconnect_output(h, e)
  <2> DEFINE f == [p \in DOMAIN d_outputs[h] |->
                     IF p = Dst(e)[2] /\ \E s \in d_outputs[h][p] : s[1] = Src(e)[1]
                     THEN {} ELSE d_outputs[h][p]]
  <2>1. d_outputs' = [d_outputs EXCEPT ![h] = f]
    BY <1>4 DEF disconnect_output
  <2>2. /\ DOMAIN f = DOMAIN d_outputs[h] /\ f = [p \in DOMAIN d_outputs[h] |-> f[p]]
        /\ \A p \in DOMAIN d_outputs[h] : f[p] \subseteq Endpoints
    BY <1>2, PortsType
  <2> HIDE DEF f
  <2>3. PortsOK(f, MaxOut[h])
    BY <1>2, <2>2, PortsChanged
  <2>4. DOMAIN d_outputs' = Hiers /\ \A g \in Hiers : PortsOK(d_outputs'[g], MaxOut[g])
    BY <1>2, <2>1, <2>3
  <2> QED
    BY <1>1, <1>2, <1>4, <2>4 DEF HierTypeOK, disconnect_output
<1>5. CASE /\ d_edges' = [d_edges EXCEPT ![h] = @ \ {e}]
           /\ UNCHANGED <<d_inputs, d_outputs>>
  BY <1>1, <1>2, <1>5 DEF HierTypeOK
<1> QED
  BY <1>3, <1>4, <1>5 DEF disconnect

\* connect() and disconnect() of a block, and disconnect_all().
LEMMA BlockOpsType ==
  ASSUME HierTypeOK, NEW h \in Hiers,
         \/ \E b \in Singletons[h] : connect_block(h, b)
         \/ \E b \in Blocks : disconnect_block(h, b)
         \/ disconnect_all(h)
  PROVE  HierTypeOK'
<1>1. /\ d_edges \in [Hiers -> SUBSET (Endpoints \X Endpoints)] /\ d_blocks \in [Hiers -> SUBSET Blocks]
      /\ DOMAIN d_inputs = Hiers /\ DOMAIN d_outputs = Hiers
      /\ \A g \in Hiers : PortsOK(d_inputs[g], MaxIn[g]) /\ PortsOK(d_outputs[g], MaxOut[g])
      /\ d_parent_detail \in [Hiers -> Hiers \union {Null}]
  BY DEF HierTypeOK
<1>2. ASSUME NEW b \in Singletons[h], connect_block(h, b) PROVE HierTypeOK'
  <2>1. d_parent_detail' \in [Hiers -> Hiers \union {Null}]
    BY <1>2, ParentType DEF connect_block
  <2>2. b \in Blocks
    BY HierAssumption
  <2> QED
    BY <1>1, <1>2, <2>1, <2>2 DEF HierTypeOK, connect_block
<1>3. ASSUME NEW b \in Blocks, disconnect_block(h, b) PROVE HierTypeOK'
  <2>1. d_parent_detail' \in [Hiers -> Hiers \union {Null}]
    BY <1>3, ParentType DEF disconnect_block
  <2>2. UNCHANGED <<d_inputs, d_outputs>>
    BY <1>3 DEF disconnect_block
  <2>3. /\ d_edges' \in [Hiers -> SUBSET (Endpoints \X Endpoints)]
        /\ d_blocks' \in [Hiers -> SUBSET Blocks]
    BY <1>1, <1>3 DEF disconnect_block
  <2> QED
    BY <1>1, <2>1, <2>2, <2>3 DEF HierTypeOK
<1>4. ASSUME disconnect_all(h) PROVE HierTypeOK'
  <2>1. /\ d_edges' \in [Hiers -> SUBSET (Endpoints \X Endpoints)]
        /\ d_blocks' \in [Hiers -> SUBSET Blocks] /\ d_parent_detail' = d_parent_detail
    BY <1>1, <1>4 DEF disconnect_all
  <2>2. PortsOK(<<>>, MaxIn[h]) /\ PortsOK(<<>>, MaxOut[h])
    BY <1>1, PortsChanged
  <2>3. /\ DOMAIN d_inputs' = Hiers /\ DOMAIN d_outputs' = Hiers
        /\ \A g \in Hiers : PortsOK(d_inputs'[g], MaxIn[g]) /\ PortsOK(d_outputs'[g], MaxOut[g])
    <3> DEFINE none == <<>>
    <3>1. d_inputs' = [d_inputs EXCEPT ![h] = none] /\ d_outputs' = [d_outputs EXCEPT ![h] = none]
      BY <1>4 DEF disconnect_all
    <3>2. PortsOK(none, MaxIn[h]) /\ PortsOK(none, MaxOut[h])
      BY <2>2
    <3> HIDE DEF none
    <3> QED
      BY <1>1, <3>1, <3>2
  <2> QED
    BY <1>1, <2>1, <2>3 DEF HierTypeOK
<1> QED
  BY <1>2, <1>3, <1>4

\* Rewiring keeps the types.
LEMMA RewireType == HierTypeOK /\ Rewire => HierTypeOK'
BY ConnectType, DisconnectType, BlockOpsType DEF Rewire

\* The constructors leave them right.
LEMMA HierInitType == HierInit => HierTypeOK
<1> SUFFICES ASSUME HierInit PROVE HierTypeOK
  OBVIOUS
<1>1. \A h \in Hiers : Wired[h] \subseteq Endpoints \X Endpoints
  BY HierAssumption
<1>2. d_edges \in [Hiers -> SUBSET (Endpoints \X Endpoints)] /\ d_blocks \in [Hiers -> SUBSET Blocks]
  BY <1>1 DEF HierInit, Internal
<1>3. ASSUME NEW h \in Hiers, NEW p
      PROVE  InputEnds(h, Wired[h], p) \subseteq Endpoints /\ OutputEnds(h, Wired[h], p) \subseteq Endpoints
  BY <1>1 DEF InputEnds, OutputEnds, Src, Dst
<1>4. /\ DOMAIN d_inputs = Hiers /\ DOMAIN d_outputs = Hiers
      /\ \A h \in Hiers : /\ d_inputs[h] \in [0 .. MaxIn[h] - 1 -> SUBSET Endpoints]
                          /\ d_outputs[h] \in [0 .. MaxOut[h] - 1 -> SUBSET Endpoints]
  BY <1>3 DEF HierInit
<1>5. d_parent_detail \in [Hiers -> Hiers \union {Null}]
  <2> DEFINE P(c) == {h \in Hiers : c \in Used(h, Wired[h])}
  <2>1. d_parent_detail = [c \in Hiers |-> IF P(c) = {} THEN Null ELSE CHOOSE h \in P(c) : TRUE]
    BY DEF HierInit
  <2>2. \A c : P(c) \subseteq Hiers
    OBVIOUS
  <2> HIDE DEF P
  <2>3. \A c : P(c) # {} => (CHOOSE h \in P(c) : TRUE) \in P(c)
    OBVIOUS
  <2> QED
    BY <2>1, <2>2, <2>3
<1> QED
  BY <1>2, <1>4, <1>5 DEF HierTypeOK, PortsOK

-----------------------------------------------------------------------------
(* The invariant. *)

\* Nothing is configured at first.
LEMMA ConfigInit == Init => ConfigInv
<1> SUFFICES ASSUME Init PROVE ConfigInv
  OBVIOUS
<1>1. TypeOK
  BY HierInitType DEF Init, TypeOK
<1> QED
  BY <1>1 DEF Init, ConfigInv, BuffersOwned, EdgesServed, ReadersOfEdges, ReadersMatchEdges, BuffersFit

\* start() with a flowgraph that can be set up.
LEMMA StartSets ==
  ASSUME ConfigInv, start, flatten_ok, validate(FlatEdges),
         d_ffg' = FlatEdges, detail' = setup_connections(FlatEdges),
         d_state' = IF make_scheduler_ok(FlatEdges) THEN "RUNNING" ELSE "IDLE"
  PROVE  ConfigInv'
<1> DEFINE D == [b \in LeafBlocks |-> IF b \in calc_used_blocks(FlatEdges)
                                      THEN allocate_block_detail(FlatEdges, b) ELSE detail[b]]
<1>1. TypeOK /\ HierTypeOK /\ BuffersOwned /\ configs \in Nat /\ starts \in Nat /\ rewires \in Nat
  BY DEF ConfigInv, TypeOK
<1>2. /\ starts' = starts + 1 /\ configs' = configs + 1
      /\ UNCHANGED <<hierVars, locked, rewires>>
  BY DEF start
<1>3. HierTypeOK'
  BY <1>1, <1>2 DEF HierTypeOK, hierVars, PortsOK
<1>4. Driven(FlatEdges)
  BY <1>1, FlattenDriven
<1>5. /\ Prepared(FlatEdges, D) /\ Served(FlatEdges, D)
      /\ (\A b \in LeafBlocks : detail[b] = Null) => NoOthers(FlatEdges, D)
  BY <1>1, <1>4, SetupPrepared
<1>6. detail' = ConnectInputs(FlatEdges, D)
  BY DEF setup_connections
<1> HIDE DEF D
<1>7. /\ detail' \in [LeafBlocks -> Details \union {Null}]
      /\ BuffersOwned' /\ EdgesServed' /\ ReadersMatchEdges' /\ BuffersFit'
      /\ NoOthers(FlatEdges, D) => NoOthers(FlatEdges, detail')
  BY <1>1, <1>2, <1>4, <1>5, <1>6, Configured
<1>8. TypeOK'
  <2>1. d_ffg' \subseteq (LeafBlocks \X Nat) \X (LeafBlocks \X Nat)
    BY <1>4 DEF Driven, LeafEnds
  <2>2. locked' \in BOOLEAN
    BY <1>1, <1>2 DEF TypeOK
  <2>3. d_state' \in {"IDLE", "RUNNING"}
    OBVIOUS
  <2>4. starts' \in Nat /\ configs' \in Nat /\ rewires' \in Nat
    BY <1>1, <1>2
  <2> QED
    BY <1>3, <1>7, <2>1, <2>2, <2>3, <2>4 DEF TypeOK
<1>9. ReadersOfEdges'
  <2>1. starts' # 0
    BY <1>1, <1>2
  <2>2. ASSUME starts' <= 1 PROVE NoOthers(FlatEdges, detail')
    <3>1. starts = 0
      BY <1>1, <1>2, <2>2
    <3>2. \A b \in LeafBlocks : detail[b] = Null
      BY <3>1 DEF ConfigInv, ReadersOfEdges
    <3> QED
      BY <1>5, <1>7, <3>2
  <2> QED
    BY <2>1, <2>2 DEF ReadersOfEdges, NoOthers, Dst
<1> QED
  BY <1>7, <1>8, <1>9 DEF ConfigInv

\* A step after which the flowgraph is idle, that changes no detail.
LEMMA IdleStep ==
  ASSUME ConfigInv, TypeOK', d_state' = "IDLE", UNCHANGED detail, configs <= configs',
         starts' = 0 => starts = 0
  PROVE  ConfigInv'
<1>1. BuffersOwned'
  <2> SUFFICES ASSUME NEW b \in LeafBlocks, detail[b] # Null, NEW o \in DOMAIN detail[b].output
               PROVE  /\ detail[b].output[o].blk = b /\ detail[b].output[o].port = o - 1
                      /\ detail[b].output[o].config <= configs'
    BY DEF BuffersOwned
  <2>1. /\ detail[b].output[o].blk = b /\ detail[b].output[o].port = o - 1
        /\ detail[b].output[o].config <= configs
    BY DEF ConfigInv, BuffersOwned
  <2>2. detail[b] \in Details
    BY DEF ConfigInv, TypeOK
  <2>3. detail[b].output[o] \in Buffers
    BY <2>2 DEF Details
  <2>4. detail[b].output[o].config \in Nat
    BY <2>3 DEF Buffers
  <2>5. configs \in Nat /\ configs' \in Nat
    BY DEF ConfigInv, TypeOK
  <2> QED
    BY <2>1, <2>4, <2>5
<1>2. ReadersOfEdges'
  BY DEF ConfigInv, ReadersOfEdges
<1> QED
  BY <1>1, <1>2 DEF ConfigInv, EdgesServed, ReadersMatchEdges, BuffersFit

\* start() in all its outcomes.
LEMMA StartKeeps == ConfigInv /\ start => ConfigInv'
<1> SUFFICES ASSUME ConfigInv, start PROVE ConfigInv'
  OBVIOUS
<1>1. CASE /\ flatten_ok /\ validate(FlatEdges)
           /\ d_ffg' = FlatEdges /\ detail' = setup_connections(FlatEdges)
           /\ d_state' = IF make_scheduler_ok(FlatEdges) THEN "RUNNING" ELSE "IDLE"
  BY <1>1, StartSets
<1>2. ASSUME detail' = detail, d_state' = d_state,
             d_ffg' = d_ffg \/ (flatten_ok /\ d_ffg' = FlatEdges)
      PROVE  ConfigInv'
  <2>1. /\ starts' = starts + 1 /\ configs' = configs + 1 /\ d_state = "IDLE"
        /\ UNCHANGED <<hierVars, locked, rewires>>
    BY DEF start
  <2>2. TypeOK /\ HierTypeOK /\ configs \in Nat /\ starts \in Nat
    BY DEF ConfigInv, TypeOK
  <2>3. HierTypeOK'
    BY <2>1, <2>2 DEF HierTypeOK, hierVars, PortsOK
  <2>4. d_ffg' \subseteq (LeafBlocks \X Nat) \X (LeafBlocks \X Nat)
    BY <1>2, <2>2, FlattenDriven DEF TypeOK, Driven, LeafEnds
  <2>5. locked' \in BOOLEAN /\ rewires' \in Nat
    BY <2>1, <2>2 DEF TypeOK
  <2>6. starts' \in Nat /\ configs' \in Nat /\ configs <= configs' /\ starts' # 0
    BY <2>1, <2>2
  <2>7. TypeOK'
    BY <1>2, <2>2, <2>3, <2>4, <2>5, <2>6 DEF TypeOK
  <2> QED
    BY <1>2, <2>1, <2>6, <2>7, IdleStep
<1>3. CASE flatten_ok /\ d_ffg' = FlatEdges /\ UNCHANGED <<detail, d_state>>
  BY <1>2, <1>3
<1>4. CASE UNCHANGED <<d_ffg, detail, d_state>>
  <2>1. detail' = detail /\ d_state' = d_state /\ d_ffg' = d_ffg
    BY <1>4
  <2> QED
    BY <1>2, <2>1, Zenon
<1>5. \/ UNCHANGED <<d_ffg, detail, d_state>>
      \/ flatten_ok /\ d_ffg' = FlatEdges /\ UNCHANGED <<detail, d_state>>
      \/ /\ flatten_ok /\ validate(FlatEdges)
         /\ d_ffg' = FlatEdges /\ detail' = setup_connections(FlatEdges)
         /\ d_state' = IF make_scheduler_ok(FlatEdges) THEN "RUNNING" ELSE "IDLE"
  BY Zenon DEF start
<1> QED
  BY <1>1, <1>3, <1>4, <1>5, Zenon

\* The restart of a running flowgraph.
LEMMA MergeKeeps ==
  ASSUME ConfigInv, d_state = "RUNNING", flatten_ok, validate(FlatEdges), merge_connections(FlatEdges),
         configs' = configs + 1, locked' \in BOOLEAN, UNCHANGED <<hierVars, starts, rewires>>
  PROVE  ConfigInv'
<1> DEFINE E == FlatEdges
           D == PrepareMerge(E)
           bad == {e \in E : ~Connectable(e, D)}
           first == Min({Dst(e)[1] : e \in bad})
           before == {e \in E : Dst(e)[1] < first}
<1>1. TypeOK /\ HierTypeOK /\ configs \in Nat /\ starts \in Nat /\ rewires \in Nat
  BY DEF ConfigInv, TypeOK
<1>2. HierTypeOK'
  BY <1>1 DEF HierTypeOK, hierVars, PortsOK
<1>3. Driven(E)
  BY <1>1, FlattenDriven
<1>4. Prepared(E, D) /\ (starts <= 1 => NoOthers(E, D))
  BY <1>3, MergePrepared
<1>5. starts # 0 /\ configs' \in Nat
  BY <1>1 DEF ConfigInv, ReadersOfEdges
<1>6. \/ /\ bad = {} /\ detail' = ConnectInputs(E, D) /\ d_ffg' = E
         /\ d_state' = IF make_scheduler_ok(E) THEN "RUNNING" ELSE "IDLE"
      \/ /\ bad # {} /\ d_state' = "IDLE" /\ UNCHANGED d_ffg
         /\ \E part \in SUBSET ({e \in E : Dst(e)[1] = first} \ bad) :
              detail' = ConnectInputs(before \union part, D)
  BY DEF merge_connections
<1> HIDE DEF D, E
<1>7. /\ bad = {} => Served(E, D)
      /\ bad # {} => \A part \in SUBSET ({e \in E : Dst(e)[1] = first} \ bad) :
                       before \union part \in SUBSET E /\ Served(before \union part, D)
  BY <1>3, <1>4, MergeServes
<1> HIDE DEF first, before, bad
<1>8. CASE /\ bad = {} /\ detail' = ConnectInputs(E, D) /\ d_ffg' = E
           /\ d_state' = IF make_scheduler_ok(E) THEN "RUNNING" ELSE "IDLE"
  <2>1. /\ detail' \in [LeafBlocks -> Details \union {Null}]
        /\ BuffersOwned' /\ EdgesServed' /\ ReadersMatchEdges' /\ BuffersFit'
        /\ NoOthers(E, D) => NoOthers(E, detail')
    BY <1>1, <1>3, <1>4, <1>7, <1>8, Configured
  <2>2. d_ffg' \subseteq (LeafBlocks \X Nat) \X (LeafBlocks \X Nat)
    BY <1>3, <1>8 DEF Driven, LeafEnds
  <2>3. TypeOK'
    BY <1>1, <1>2, <1>5, <1>8, <2>1, <2>2 DEF TypeOK
  <2>4. ReadersOfEdges'
    BY <1>4, <1>5, <1>8, <2>1 DEF ReadersOfEdges, NoOthers, Dst
  <2> QED
    BY <2>1, <2>3, <2>4 DEF ConfigInv
<1>9. CASE /\ bad # {} /\ d_state' = "IDLE" /\ UNCHANGED d_ffg
           /\ \E part \in SUBSET ({e \in E : Dst(e)[1] = first} \ bad) :
                detail' = ConnectInputs(before \union part, D)
  <2>1. PICK part \in SUBSET ({e \in E : Dst(e)[1] = first} \ bad) :
               detail' = ConnectInputs(before \union part, D)
    BY <1>9
  <2> DEFINE P == before \union part
  <2>2. P \in SUBSET E /\ Served(P, D) /\ detail' = ConnectInputs(P, D)
    BY <1>7, <1>9, <2>1
  <2> HIDE DEF P
  <2>3. detail' \in [LeafBlocks -> Details \union {Null}] /\ BuffersOwned'
    BY <1>3, <1>4, <2>2, PartlyConnected
  <2>4. TypeOK'
    BY <1>1, <1>2, <1>5, <1>9, <2>3 DEF TypeOK
  <2> QED
    BY <1>5, <1>9, <2>3, <2>4
       DEF ConfigInv, ReadersOfEdges, EdgesServed, ReadersMatchEdges, BuffersFit
<1> QED
  BY <1>6, <1>8, <1>9

\* unlock() in all its outcomes.
LEMMA UnlockKeeps ==
  ASSUME ConfigInv, NEW h \in Hiers, unlock(h)
  PROVE  ConfigInv'
<1>1. /\ locked' = FALSE /\ UNCHANGED <<hierVars, starts, rewires>>
  BY DEF unlock
<1>2. TypeOK /\ HierTypeOK /\ configs \in Nat /\ starts \in Nat /\ rewires \in Nat
  BY DEF ConfigInv, TypeOK
<1>3. HierTypeOK'
  BY <1>1, <1>2 DEF HierTypeOK, hierVars, PortsOK
<1>4. CASE d_state' = "IDLE" /\ UNCHANGED <<d_ffg, detail>> /\ configs' \in {configs, configs + 1}
  <2>1. configs' \in Nat /\ configs <= configs'
    BY <1>2, <1>4
  <2>2. TypeOK'
    BY <1>1, <1>2, <1>3, <1>4, <2>1 DEF TypeOK
  <2> QED
    BY <1>1, <1>4, <2>1, <2>2, IdleStep
<1>5. CASE /\ d_state = "RUNNING" /\ configs' = configs + 1
           /\ flatten_ok /\ validate(FlatEdges) /\ merge_connections(FlatEdges)
  BY <1>1, <1>5, MergeKeeps
<1> QED
  BY <1>4, <1>5 DEF unlock

\* A step that leaves the flat flowgraph and its details alone.
LEMMA FlatUnchanged ==
  ASSUME ConfigInv, HierTypeOK', locked' \in BOOLEAN, rewires' \in Nat,
         UNCHANGED <<d_ffg, detail, d_state, starts, configs>>
  PROVE  ConfigInv'
<1>1. TypeOK'
  BY DEF ConfigInv, TypeOK
<1> QED
  BY <1>1 DEF ConfigInv, BuffersOwned, EdgesServed, ReadersOfEdges, ReadersMatchEdges, BuffersFit, Connectable

\* Every step keeps the invariant.
LEMMA ConfigStep == ConfigInv /\ [Next]_vars => ConfigInv'
<1> SUFFICES ASSUME ConfigInv, [Next]_vars PROVE ConfigInv'
  OBVIOUS
<1>1. TypeOK /\ HierTypeOK /\ rewires \in Nat /\ locked \in BOOLEAN /\ configs \in Nat
  BY DEF ConfigInv, TypeOK
<1>2. CASE Rewired
  <2>1. HierTypeOK'
    BY <1>1, <1>2, RewireType DEF Rewired
  <2>2. rewires' \in Nat
    BY <1>1, <1>2 DEF Rewired
  <2> QED
    BY <1>1, <1>2, <2>1, <2>2, FlatUnchanged DEF Rewired, flatVars
<1>3. CASE start
  BY <1>3, StartKeeps
<1>4. CASE wait
  <2>1. HierTypeOK'
    BY <1>1, <1>4 DEF wait, HierTypeOK, hierVars, PortsOK
  <2>2. TypeOK'
    BY <1>1, <1>4, <2>1 DEF wait, TypeOK
  <2> QED
    BY <1>1, <1>4, <2>2, IdleStep DEF wait
<1>5. ASSUME NEW h \in Hiers, lock(h) PROVE ConfigInv'
  <2>1. HierTypeOK'
    BY <1>1, <1>5 DEF lock, HierTypeOK, hierVars, PortsOK
  <2> QED
    BY <1>1, <1>5, <2>1, FlatUnchanged DEF lock
<1>6. ASSUME NEW h \in Hiers, unlock(h) PROVE ConfigInv'
  BY <1>6, UnlockKeeps
<1>7. CASE UNCHANGED vars
  <2>1. HierTypeOK'
    BY <1>1, <1>7 DEF vars, HierTypeOK, hierVars, PortsOK
  <2> QED
    BY <1>1, <1>7, <2>1, FlatUnchanged DEF vars, flatVars
<1> QED
  BY <1>2, <1>3, <1>4, <1>5, <1>6, <1>7 DEF Next

-----------------------------------------------------------------------------
(* The blocks inside a hierarchical block. *)

\* BlocksOf, taken apart.
LEMMA BlocksOfParts ==
  ASSUME NEW h, NEW M
  PROVE  BlocksOf(h) \subseteq M <=>
           /\ \A e \in d_edges[h] : Src(e)[1] \in M /\ Dst(e)[1] \in M
           /\ d_blocks[h] \subseteq M
           /\ \A p \in DOMAIN d_inputs[h] : \A x \in d_inputs[h][p] : x[1] \in M
           /\ \A p \in DOMAIN d_outputs[h] : \A x \in d_outputs[h][p] : x[1] \in M
<1> DEFINE ends == UNION (Range(d_inputs[h]) \union Range(d_outputs[h]))
<1>1. \A x : x \in ends <=> \/ \E p \in DOMAIN d_inputs[h] : x \in d_inputs[h][p]
                            \/ \E p \in DOMAIN d_outputs[h] : x \in d_outputs[h][p]
  BY DEF Range
<1>2. BlocksOf(h) = calc_used_blocks(d_edges[h]) \union d_blocks[h] \union {x[1] : x \in ends}
  BY DEF BlocksOf
<1> HIDE DEF ends
<1> QED
  BY <1>1, <1>2 DEF calc_used_blocks

\* The constructors put in what they are said to.
LEMMA InsideInit == HierInit => BlocksInside
<1> SUFFICES ASSUME HierInit, NEW h \in Hiers PROVE BlocksOf(h) \subseteq Members(h)
  BY DEF BlocksInside
<1>1. \A e \in Wired[h] : /\ Src(e)[1] # h => Src(e)[1] \in Members(h)
                          /\ Dst(e)[1] # h => Dst(e)[1] \in Members(h)
  BY DEF Members, calc_used_blocks
<1>2. \A e \in d_edges[h] : Src(e)[1] \in Members(h) /\ Dst(e)[1] \in Members(h)
  BY <1>1 DEF HierInit, Internal, FromInput, ToOutput
<1>3. ASSUME NEW e \in Wired[h], NEW p, Src(e) = <<h, p>> PROVE Dst(e)[1] \in Members(h)
  <2>1. Src(e)[1] = h
    BY <1>3
  <2> QED
    BY <1>1, <2>1, HierAssumption
<1>4. ASSUME NEW e \in Wired[h], NEW p, Dst(e) = <<h, p>> PROVE Src(e)[1] \in Members(h)
  <2>1. Dst(e)[1] = h
    BY <1>4
  <2> QED
    BY <1>1, <2>1, HierAssumption
<1>5. \A p \in DOMAIN d_inputs[h] : \A x \in d_inputs[h][p] : x[1] \in Members(h)
  BY <1>3 DEF HierInit, InputEnds
<1>6. \A p \in DOMAIN d_outputs[h] : \A x \in d_outputs[h][p] : x[1] \in Members(h)
  BY <1>4 DEF HierInit, OutputEnds
<1>7. d_blocks[h] \subseteq Members(h)
  BY DEF HierInit
<1> QED
  BY <1>2, <1>5, <1>6, <1>7, BlocksOfParts

\* An edit puts nothing into a block but its candidates and singletons.
LEMMA InsideRewire == HierTypeOK /\ BlocksInside /\ Rewire => BlocksInside'
<1> SUFFICES ASSUME HierTypeOK, BlocksInside, Rewire, NEW h \in Hiers
             PROVE  (BlocksOf(h) \subseteq Members(h))'
  BY DEF BlocksInside
<1> DEFINE M == Members(h)
           InEdges(E) == \A e \in E : Src(e)[1] \in M /\ Dst(e)[1] \in M
           InPorts(ports) == \A p \in DOMAIN ports : \A x \in ports[p] : x[1] \in M
<1>1. InEdges(d_edges[h]) /\ d_blocks[h] \subseteq M /\ InPorts(d_inputs[h]) /\ InPorts(d_outputs[h])
  BY BlocksOfParts DEF BlocksInside
<1>2. SUFFICES /\ InEdges(d_edges'[h]) /\ d_blocks'[h] \subseteq M
               /\ InPorts(d_inputs'[h]) /\ InPorts(d_outputs'[h])
  <2>1. (BlocksOf(h) \subseteq M)' <=>
           /\ \A e \in d_edges'[h] : Src(e)[1] \in M /\ Dst(e)[1] \in M
           /\ d_blocks'[h] \subseteq M
           /\ \A p \in DOMAIN d_inputs'[h] : \A x \in d_inputs'[h][p] : x[1] \in M
           /\ \A p \in DOMAIN d_outputs'[h] : \A x \in d_outputs'[h][p] : x[1] \in M
    <3> DEFINE ends == UNION (Range(d_inputs'[h]) \union Range(d_outputs'[h]))
    <3>1. \A x : x \in ends <=> \/ \E p \in DOMAIN d_inputs'[h] : x \in d_inputs'[h][p]
                                \/ \E p \in DOMAIN d_outputs'[h] : x \in d_outputs'[h][p]
      BY DEF Range
    <3>2. BlocksOf(h)' = calc_used_blocks(d_edges'[h]) \union d_blocks'[h] \union {x[1] : x \in ends}
      BY DEF BlocksOf, calc_used_blocks, Range, Src, Dst
    <3>3. M' = M
      BY DEF Members, calc_used_blocks, Src, Dst
    <3> HIDE DEF ends, M
    <3> QED
      BY <3>1, <3>2, <3>3 DEF calc_used_blocks
  <2> QED
    BY <1>2, <2>1 DEF InEdges, InPorts
<1>3. /\ d_edges \in [Hiers -> SUBSET (Endpoints \X Endpoints)] /\ d_blocks \in [Hiers -> SUBSET Blocks]
      /\ DOMAIN d_inputs = Hiers /\ DOMAIN d_outputs = Hiers
  BY DEF HierTypeOK
<1>4. \A e \in Candidates[h] : /\ Src(e)[1] # h => Src(e)[1] \in M
                               /\ Dst(e)[1] # h => Dst(e)[1] \in M
  BY DEF Members, calc_used_blocks
<1>5. Singletons[h] \subseteq M
  BY DEF Members
<1> HIDE DEF M
<1>6. PICK g \in Hiers :
        \/ \E e \in Candidates[g] : connect(g, e) \/ disconnect(g, e)
        \/ \E b \in Singletons[g] : connect_block(g, b)
        \/ \E b \in Blocks : disconnect_block(g, b)
        \/ disconnect_all(g)
  BY Zenon DEF Rewire
<1>7. CASE g # h
  <2>1. /\ d_edges'[h] = d_edges[h] /\ d_blocks'[h] = d_blocks[h]
        /\ d_inputs'[h] = d_inputs[h] /\ d_outputs'[h] = d_outputs[h]
    BY <1>3, <1>6, <1>7 DEF connect, connect_input, connect_output, disconnect, disconnect_input,
       disconnect_output, connect_block, disconnect_block, disconnect_all
  <2> HIDE DEF InEdges, InPorts
  <2> QED
    BY <1>1, <2>1
<1>8. ASSUME NEW e \in Candidates[h], connect(h, e)
      PROVE  /\ InEdges(d_edges'[h]) /\ d_blocks'[h] \subseteq M
             /\ InPorts(d_inputs'[h]) /\ InPorts(d_outputs'[h])
  <2>1. Src(e)[1] # Dst(e)[1] /\ d_blocks' = d_blocks
    BY <1>8 DEF connect
  <2>2. CASE connect_input(h, e)
    <3>1. Dst(e)[1] \in M
      BY <1>4, <2>1, <2>2 DEF connect_input, FromInput
    <3>2. CASE Src(e)[2] \in DOMAIN d_inputs[h]
      <4> DEFINE p == Src(e)[2]
      <4>1. d_inputs'[h] = [d_inputs[h] EXCEPT ![p] = @ \union {Dst(e)}]
        BY <1>3, <2>2, <3>2 DEF connect_input
      <4> HIDE DEF p
      <4>2. InPorts(d_inputs'[h])
        BY <1>1, <3>1, <4>1
      <4> HIDE DEF InEdges, InPorts
      <4> QED
        BY <1>1, <2>1, <2>2, <4>2 DEF connect_input
    <3>3. CASE Src(e)[2] \notin DOMAIN d_inputs[h]
      <4> HIDE DEF InEdges, InPorts
      <4> QED
        BY <1>1, <2>1, <2>2, <3>3 DEF connect_input
    <3> QED
      BY <3>2, <3>3
  <2>3. CASE connect_output(h, e)
    <3>1. Src(e)[1] \in M
      BY <1>4, <2>1, <2>3 DEF connect_output, ToOutput
    <3>2. CASE Dst(e)[2] \in DOMAIN d_outputs[h] /\ d_outputs[h][Dst(e)[2]] = {}
      <4> DEFINE p == Dst(e)[2]
      <4>1. d_outputs'[h] = [d_outputs[h] EXCEPT ![p] = {Src(e)}]
        BY <1>3, <2>3, <3>2 DEF connect_output
      <4> HIDE DEF p
      <4>2. InPorts(d_outputs'[h])
        BY <1>1, <3>1, <4>1
      <4> HIDE DEF InEdges, InPorts
      <4> QED
        BY <1>1, <2>1, <2>3, <4>2 DEF connect_output
    <3>3. CASE ~(Dst(e)[2] \in DOMAIN d_outputs[h] /\ d_outputs[h][Dst(e)[2]] = {})
      <4> HIDE DEF InEdges, InPorts
      <4> QED
        BY <1>1, <2>1, <2>3, <3>3 DEF connect_output
    <3> QED
      BY <3>2, <3>3
  <2>4. CASE /\ ~FromInput(h, e) /\ ~ToOutput(h, e)
             /\ IF check_connect(d_edges[h], e)
                THEN d_edges' = [d_edges EXCEPT ![h] = @ \union {e}]
                ELSE UNCHANGED d_edges
             /\ UNCHANGED <<d_inputs, d_outputs>>
    <3>1. Src(e)[1] \in M /\ Dst(e)[1] \in M
      BY <1>4, <2>4 DEF FromInput, ToOutput
    <3>2. d_edges'[h] \subseteq d_edges[h] \union {e}
      BY <1>3, <2>4
    <3> QED
      BY <1>1, <2>1, <2>4, <3>1, <3>2
  <2> QED
    BY <1>8, <2>2, <2>3, <2>4 DEF connect
<1>9. ASSUME NEW e \in Candidates[h], disconnect(h, e)
      PROVE  /\ InEdges(d_edges'[h]) /\ d_blocks'[h] \subseteq M
             /\ InPorts(d_inputs'[h]) /\ InPorts(d_outputs'[h])
  <2>1. d_edges'[h] \subseteq d_edges[h] /\ d_blocks' = d_blocks
    BY <1>3, <1>9 DEF disconnect, disconnect_input, disconnect_output
  <2>2. /\ DOMAIN d_inputs'[h] = DOMAIN d_inputs[h]
        /\ \A p \in DOMAIN d_inputs[h] : d_inputs'[h][p] \subseteq d_inputs[h][p]
    BY <1>3, <1>9 DEF disconnect, disconnect_input, disconnect_output
  <2>3. /\ DOMAIN d_outputs'[h] = DOMAIN d_outputs[h]
        /\ \A p \in DOMAIN d_outputs[h] : d_outputs'[h][p] \subseteq d_outputs[h][p]
    BY <1>3, <1>9 DEF disconnect, disconnect_input, disconnect_output
  <2> QED
    BY <1>1, <2>1, <2>2, <2>3
<1>10. ASSUME NEW b \in Singletons[h], connect_block(h, b)
       PROVE  /\ InEdges(d_edges'[h]) /\ d_blocks'[h] \subseteq M
              /\ InPorts(d_inputs'[h]) /\ InPorts(d_outputs'[h])
  BY <1>1, <1>3, <1>5, <1>10 DEF connect_block
<1>11. ASSUME NEW b \in Blocks, disconnect_block(h, b)
       PROVE  /\ InEdges(d_edges'[h]) /\ d_blocks'[h] \subseteq M
              /\ InPorts(d_inputs'[h]) /\ InPorts(d_outputs'[h])
  <2>1. d_edges'[h] \subseteq d_edges[h] /\ d_blocks'[h] \subseteq d_blocks[h]
    BY <1>3, <1>11 DEF disconnect_block
  <2>2. UNCHANGED <<d_inputs, d_outputs>>
    BY <1>11 DEF disconnect_block
  <2> QED
    BY <1>1, <2>1, <2>2
<1>12. ASSUME disconnect_all(h)
       PROVE  /\ InEdges(d_edges'[h]) /\ d_blocks'[h] \subseteq M
              /\ InPorts(d_inputs'[h]) /\ InPorts(d_outputs'[h])
  <2>1. d_edges'[h] = {} /\ d_blocks'[h] = {}
    BY <1>3, <1>12 DEF disconnect_all
  <2>2. d_inputs'[h] = <<>> /\ d_outputs'[h] = <<>>
    BY <1>3, <1>12 DEF disconnect_all
  <2>3. DOMAIN d_inputs'[h] = {} /\ DOMAIN d_outputs'[h] = {}
    BY <2>2
  <2> QED
    BY <2>1, <2>3
<1> HIDE DEF InEdges, InPorts
<1> QED
  BY <1>6, <1>7, <1>8, <1>9, <1>10, <1>11, <1>12

\* The blocks found in a hierarchical block, step by step.
LEMMA InsideStep == ConfigInv /\ BlocksInside /\ [Next]_vars => BlocksInside'
<1> SUFFICES ASSUME ConfigInv, BlocksInside, [Next]_vars PROVE BlocksInside'
  OBVIOUS
<1>1. CASE Rewired
  BY <1>1, InsideRewire DEF Rewired, ConfigInv, TypeOK
<1>2. CASE UNCHANGED hierVars
  BY <1>2 DEF hierVars, BlocksInside, BlocksOf, calc_used_blocks, Members, Range, Src, Dst
<1>3. Rewired \/ UNCHANGED hierVars
  BY DEF Next, start, wait, lock, unlock, vars
<1> QED
  BY <1>1, <1>2, <1>3

-----------------------------------------------------------------------------
(* Theorems. *)

\* Through every start(), edit, lock(), unlock() and failed call, block details
\* hold their own buffers and serve the edges of the running flowgraph.
THEOREM FlatInvariant == Spec => []FlatInv
<1>1. Init => FlatInv
  BY ConfigInit, InsideInit DEF Init, FlatInv
<1>2. FlatInv /\ [Next]_vars => FlatInv'
  BY ConfigStep, InsideStep DEF FlatInv
<1> QED
  BY <1>1, <1>2, PTL DEF Spec

\* After any number of reconfigurations, every input of a running flowgraph
\* reads the buffer that its edge comes from.
THEOREM ReadersMatchEdgesHolds == Spec => []ReadersMatchEdges
<1>1. FlatInv => ReadersMatchEdges
  BY DEF FlatInv, ConfigInv
<1> QED
  BY <1>1, FlatInvariant, PTL

\* A flowgraph that was set up by start() has buffers that can hold what each
\* of their readers needs.
THEOREM BuffersFitHolds == Spec => []BuffersFit
<1>1. FlatInv => BuffersFit
  BY DEF FlatInv, ConfigInv
<1> QED
  BY <1>1, FlatInvariant, PTL

\* A flowgraph runs if make_scheduler() was able to sort it.
Scheduled == d_state = "RUNNING" => make_scheduler_ok(d_ffg)

\* Only start() and the restart of unlock() make it run.
LEMMA ScheduledStep == Scheduled /\ [Next]_vars => Scheduled'
<1> SUFFICES ASSUME Scheduled, [Next]_vars, d_state' = "RUNNING" PROVE make_scheduler_ok(d_ffg')
  BY DEF Scheduled, make_scheduler_ok
<1>1. CASE UNCHANGED <<d_ffg, d_state>>
  BY <1>1 DEF Scheduled
<1>2. CASE start
  BY <1>1, <1>2 DEF start
<1>3. CASE wait
  BY <1>3 DEF wait
<1>4. ASSUME NEW h \in Hiers, unlock(h) PROVE make_scheduler_ok(d_ffg')
  BY <1>1, <1>4 DEF unlock, merge_connections
<1>5. ASSUME NEW h \in Hiers, lock(h) PROVE UNCHANGED <<d_ffg, d_state>>
  BY <1>5 DEF lock
<1>6. CASE Rewired
  BY <1>1, <1>6 DEF Rewired, flatVars
<1>7. CASE UNCHANGED vars
  BY <1>1, <1>7 DEF vars, flatVars
<1> QED
  BY <1>1, <1>2, <1>3, <1>4, <1>5, <1>6, <1>7 DEF Next

\* A running flowgraph is one that make_scheduler() could put in order: every
\* block in use has its thread, and only one, upstream before downstream.
THEOREM ScheduledInOrderHolds == Spec => []ScheduledInOrder
<1>1. Init => Scheduled
  BY DEF Init, Scheduled
<1>2. FlatInv /\ Scheduled => ScheduledInOrder
  <2> SUFFICES ASSUME FlatInv, Scheduled, d_state = "RUNNING"
               PROVE  Ordered(d_ffg, calc_used_blocks(d_ffg), topological_sort(d_ffg, calc_used_blocks(d_ffg)))
    BY DEF ScheduledInOrder
  <2>1. d_ffg \in EdgeSets
    <3>1. d_ffg \subseteq (LeafBlocks \X Nat) \X (LeafBlocks \X Nat)
      BY DEF FlatInv, ConfigInv, TypeOK
    <3> QED
      BY <3>1 DEF LeafBlocks, EdgeSets, Endpoints
  <2>2. CASE topological_sort(d_ffg, calc_used_blocks(d_ffg)) # <<>>
    BY <2>1, <2>2, SortedOrder
  <2>3. CASE d_ffg = {} /\ topological_sort(d_ffg, calc_used_blocks(d_ffg)) = <<>>
    <3>1. calc_used_blocks(d_ffg) = {}
      BY <2>1, <2>3, UsedClosed
    <3>2. Ordered({}, {}, <<>>)
      BY DEF Ordered, IsInjective, Range
    <3> QED
      BY <2>3, <3>1, <3>2
  <2> QED
    BY <2>2, <2>3 DEF Scheduled, make_scheduler_ok
<1> QED
  BY <1>1, <1>2, FlatInvariant, ScheduledStep, PTL DEF Spec

\* Whatever the hierarchy and its edits, partition() returns the connected parts
\* of the flat flowgraph, each in order, and throws exactly when it has a loop.
THEOREM PartsSortedHolds == Spec => []PartsSorted
<1>1. FlatInv => PartsSorted
  <2> SUFFICES ASSUME FlatInv PROVE SortedParts(FlatEdges, partition(FlatEdges))
    BY DEF PartsSorted
  <2>1. FlatEdges \subseteq LeafEnds \X LeafEnds
    BY FlatEdgesType DEF FlatInv, ConfigInv, TypeOK
  <2>2. FlatEdges \in EdgeSets
    BY <2>1 DEF LeafEnds, LeafBlocks, EdgeSets, Endpoints
  <2> QED
    BY <2>2, PartitionSorts
<1> QED
  BY <1>1, FlatInvariant, PTL

\* Until start() is called a second time, no buffer of a running flowgraph has
\* a reader that belongs to no edge.
THEOREM NoStrayReaderHolds == Spec => [](starts <= 1 => NoStrayReader)
<1>1. ASSUME ConfigInv, starts <= 1, d_state = "RUNNING", NEW e \in d_ffg,
             NEW b \in LeafBlocks, detail[b] # Null, NEW i \in DOMAIN detail[b].input,
             detail[b].input[i] = detail[Src(e)[1]].output[Src(e)[2] + 1]
      PROVE  <<Src(e), <<b, i - 1>>>> \in d_ffg
  <2>1. d_ffg \subseteq LeafEnds \X LeafEnds /\ detail \in [LeafBlocks -> Details \union {Null}]
    BY <1>1 DEF ConfigInv, TypeOK, LeafEnds
  <2>2. ASSUME NEW f \in d_ffg
        PROVE  LET buf == detail[Src(f)[1]].output[Src(f)[2] + 1]
               IN  buf \in Buffers /\ buf.blk = Src(f)[1] /\ buf.port = Src(f)[2]
    <3> DEFINE s == Src(f)[1]
               k == Src(f)[2]
               out == detail[s].output
    <3>1. s \in LeafBlocks /\ k \in Nat
      BY <2>1 DEF Src, LeafEnds
    <3>2. detail[s] # Null /\ k < Len(out)
      BY <1>1 DEF ConfigInv, EdgesServed, Connectable
    <3>3. detail[s] \in Details
      BY <2>1, <3>1, <3>2
    <3>4. out \in Seq(Buffers)
      BY <3>3 DEF Details
    <3>5. k + 1 \in DOMAIN out /\ out[k + 1] \in Buffers /\ (k + 1) - 1 = k
      <4> HIDE DEF out, k
      <4> QED
        BY <3>1, <3>2, <3>4
    <3>6. out[k + 1].blk = s /\ out[k + 1].port = (k + 1) - 1
      BY <1>1, <3>1, <3>2, <3>5 DEF ConfigInv, BuffersOwned
    <3> QED
      BY <3>5, <3>6
  <2>3. detail[b].input[i] # Null
    BY <1>1, <2>2, FlatAssumption
  <2>4. PICK f \in d_ffg : Dst(f) = <<b, i - 1>>
    BY <1>1, <2>3 DEF ConfigInv, ReadersOfEdges
  <2>5. i \in Nat
    <3>1. detail[b] \in Details
      BY <1>1, <2>1
    <3>2. detail[b].input \in Seq(Buffers \union {Null})
      BY <3>1 DEF Details
    <3> QED
      BY <3>2
  <2>6. Dst(f)[1] = b /\ Dst(f)[2] + 1 = i
    BY <2>4, <2>5
  <2>7. detail[b].input[i] = detail[Src(f)[1]].output[Src(f)[2] + 1]
    BY <1>1, <2>6 DEF ConfigInv, ReadersMatchEdges
  <2>8. Src(f)[1] = Src(e)[1] /\ Src(f)[2] = Src(e)[2]
    BY <1>1, <2>2, <2>7
  <2>9. Src(f) = Src(e) /\ f = <<Src(f), Dst(f)>>
    BY <2>1, <2>8 DEF Src, Dst, LeafEnds
  <2> QED
    BY <2>4, <2>9
<1>2. FlatInv => (starts <= 1 => NoStrayReader)
  BY <1>1 DEF FlatInv, NoStrayReader
<1> QED
  BY <1>2, FlatInvariant, PTL

-----------------------------------------------------------------------------
(* Resolving ports against following wires. *)

\* One level of resolution leads to blocks at a lower level.
Lower(ports, level) ==
  \A x \in Endpoints : \A y \in Behind(ports, x) : y[1] \in Hiers => level[y[1]] < level[x[1]]

\* With the levels of a nested hierarchy, resolve_endpoint has gone through
\* enough blocks: one more makes no difference.
LEMMA ResolverFixed ==
  ASSUME NEW ports, \A x \in Endpoints : Behind(ports, x) \subseteq Endpoints,
         NEW level \in [Hiers -> 0 .. Cardinality(Hiers) - 1], Lower(ports, level)
  PROVE  LET N == Cardinality(Hiers)
         IN  \A x \in Endpoints : Resolver(ports)[N][x] = Deeper(ports, Resolver(ports)[N])[x]
<1> DEFINE N == Cardinality(Hiers)
           r == Resolver(ports)
           Below(x, k) == x[1] \in LeafBlocks \/ level[x[1]] < k
           T == {k \in Nat : \A x \in Endpoints : Below(x, k) => r[k][x] = r[k + 1][x]}
<1>1. /\ \A k \in Nat : r[k] \in [Endpoints -> SUBSET LeafEnds]
      /\ \A x \in Endpoints : r[0][x] = IF x[1] \in LeafBlocks THEN {x} ELSE {}
      /\ \A k \in Nat : r[k + 1] = Deeper(ports, r[k])
  BY ResolverFact
<1>2. N \in Nat
  BY BlocksAssumption, HierAssumption, FS_Subset, FS_CardinalityType
<1> HIDE DEF r, N
<1>3. \A x \in Endpoints : x[1] \in LeafBlocks \/ x[1] \in Hiers
  BY DEF Endpoints, LeafBlocks
<1>4. \A x \in Endpoints : x[1] \notin LeafBlocks => level[x[1]] \in Nat /\ level[x[1]] < N
  <2>1. \A c \in Hiers : level[c] \in 0 .. N - 1
    BY DEF N
  <2>2. \A j \in 0 .. N - 1 : j \in Nat /\ j < N
    BY <1>2
  <2> QED
    BY <1>3, <2>1, <2>2
<1>5. ASSUME NEW k \in Nat, NEW x \in Endpoints
      PROVE  r[k + 1][x] = IF x[1] \in LeafBlocks THEN {x}
                           ELSE IF \E y \in Behind(ports, x) : r[k][y] = {} THEN {}
                           ELSE UNION {r[k][y] : y \in Behind(ports, x)}
  <2> DEFINE g == r[k]
             V(z) == IF z[1] \in LeafBlocks THEN {z}
                     ELSE IF \E y \in Behind(ports, z) : g[y] = {} THEN {}
                     ELSE UNION {g[y] : y \in Behind(ports, z)}
  <2>1. r[k + 1] = Deeper(ports, g)
    BY <1>1
  <2>2. Deeper(ports, g) = [z \in Endpoints |-> V(z)]
    BY DEF Deeper
  <2>3. Deeper(ports, g)[x] = V(x)
    <3> HIDE DEF V
    <3> QED
      BY <2>2
  <2> QED
    BY <2>1, <2>3
<1>6. 0 \in T
  <2> SUFFICES ASSUME NEW x \in Endpoints, Below(x, 0) PROVE r[0][x] = r[0 + 1][x]
    OBVIOUS
  <2>1. x[1] \in LeafBlocks
    BY <1>4
  <2>2. r[0 + 1][x] = {x}
    BY <1>5, <2>1
  <2> QED
    BY <1>1, <2>1, <2>2
<1>7. ASSUME NEW k \in Nat, k \in T PROVE k + 1 \in T
  <2> SUFFICES ASSUME NEW x \in Endpoints, Below(x, k + 1) PROVE r[k + 1][x] = r[(k + 1) + 1][x]
    OBVIOUS
  <2>1. \A y \in Behind(ports, x) : r[k][y] = r[k + 1][y] \/ x[1] \in LeafBlocks
    <3> SUFFICES ASSUME NEW y \in Behind(ports, x), x[1] \notin LeafBlocks PROVE r[k][y] = r[k + 1][y]
      OBVIOUS
    <3>1. y \in Endpoints
      OBVIOUS
    <3>2. CASE y[1] \in LeafBlocks
      BY <1>7, <3>1, <3>2
    <3>3. CASE y[1] \notin LeafBlocks
      <4>1. level[y[1]] \in Nat /\ level[x[1]] \in Nat /\ level[x[1]] < k + 1
        BY <1>4, <3>1, <3>3
      <4>2. level[y[1]] < level[x[1]]
        BY <1>3, <3>1, <3>3 DEF Lower
      <4>3. level[y[1]] < k
        BY <4>1, <4>2
      <4> QED
        BY <1>7, <3>1, <4>3
    <3> QED
      BY <3>2, <3>3
  <2>2. k + 1 \in Nat
    OBVIOUS
  <2>3. CASE x[1] \in LeafBlocks
    BY <1>5, <2>2, <2>3
  <2>4. CASE x[1] \notin LeafBlocks
    <3>1. \A y \in Behind(ports, x) : r[k][y] = r[k + 1][y]
      BY <2>1, <2>4
    <3>2. UNION {r[k][y] : y \in Behind(ports, x)} = UNION {r[k + 1][y] : y \in Behind(ports, x)}
      BY <3>1
    <3>3. (\E y \in Behind(ports, x) : r[k][y] = {}) <=> (\E y \in Behind(ports, x) : r[k + 1][y] = {})
      BY <3>1
    <3>4. r[k + 1][x] = IF \E y \in Behind(ports, x) : r[k][y] = {} THEN {}
                        ELSE UNION {r[k][y] : y \in Behind(ports, x)}
      BY <1>5, <2>4
    <3>5. r[(k + 1) + 1][x] = IF \E y \in Behind(ports, x) : r[k + 1][y] = {} THEN {}
                              ELSE UNION {r[k + 1][y] : y \in Behind(ports, x)}
      BY <1>5, <2>2, <2>4
    <3> QED
      BY <3>2, <3>3, <3>4, <3>5, Zenon
  <2> QED
    BY <2>3, <2>4
<1>8. \A k \in Nat : k \in T
  <2> HIDE DEF T
  <2> QED
    BY <1>6, <1>7, Induction
<1>9. \A x \in Endpoints : r[N][x] = r[N + 1][x]
  BY <1>2, <1>4, <1>8
<1>10. \A x \in Endpoints : r[N][x] = Deeper(ports, r[N])[x]
  BY <1>1, <1>2, <1>9
<1> QED
  BY <1>10 DEF r, N

\* The two equations of resolve_endpoint.
Resolves(ports, f) ==
  /\ f \in [Endpoints -> SUBSET LeafEnds]
  /\ \A x \in Endpoints :
       /\ x[1] \in LeafBlocks => f[x] = {x}
       /\ x[1] \in Hiers =>
            f[x] = IF \E y \in Behind(ports, x) : f[y] = {} THEN {}
                   ELSE UNION {f[y] : y \in Behind(ports, x)}

\* resolve_endpoint satisfies the equations of the recursion in the code.
LEMMA ResolveEquations ==
  ASSUME NEW ports, \A x \in Endpoints : Behind(ports, x) \subseteq Endpoints,
         NEW level \in [Hiers -> 0 .. Cardinality(Hiers) - 1], Lower(ports, level)
  PROVE  Resolves(ports, Resolver(ports)[Cardinality(Hiers)])
<1> DEFINE f == Resolver(ports)[Cardinality(Hiers)]
<1>1. Cardinality(Hiers) \in Nat
  BY BlocksAssumption, HierAssumption, FS_Subset, FS_CardinalityType
<1>2. f \in [Endpoints -> SUBSET LeafEnds]
  BY <1>1, ResolverFact
<1>3. \A x \in Endpoints : f[x] = Deeper(ports, f)[x]
  BY ResolverFixed
<1> HIDE DEF f
<1>4. ASSUME NEW x \in Endpoints
      PROVE  f[x] = IF x[1] \in LeafBlocks THEN {x}
                    ELSE IF \E y \in Behind(ports, x) : f[y] = {} THEN {}
                    ELSE UNION {f[y] : y \in Behind(ports, x)}
  BY <1>3, Zenon DEF Deeper
<1>5. \A x : x[1] \in Hiers => x[1] \notin LeafBlocks
  BY DEF LeafBlocks
<1>6. Resolves(ports, f)
  BY <1>2, <1>4, <1>5 DEF Resolves
<1> QED
  BY <1>6 DEF f

Pins == {"in", "out"} \X Endpoints

\* A relation with the pairs that two of its own make.
Twice(r) == r \union {<<w[1][1], w[2][2]>> : w \in {v \in r \X r : v[1][2] = v[2][1]}}

\* The wires of the blocks that are flattened.
AllWires == UNION {Wires(h) : h \in Flattened(Top)}

\* The three kinds of wires.
LEMMA WireKinds ==
  ASSUME NEW h, NEW w
  PROVE  w \in Wires(h) <=>
           \/ \E e \in d_edges[h] : w = <<OutPin(Src(e)), InPin(Dst(e))>>
           \/ \E p \in DOMAIN d_inputs[h] : \E x \in d_inputs[h][p] : w = <<InPin(<<h, p>>), InPin(x)>>
           \/ \E p \in DOMAIN d_outputs[h] : \E x \in d_outputs[h][p] : w = <<OutPin(x), OutPin(<<h, p>>)>>
<1> DEFINE A == {<<OutPin(Src(e)), InPin(Dst(e))>> : e \in d_edges[h]}
           B(p) == {<<InPin(<<h, p>>), InPin(x)>> : x \in d_inputs[h][p]}
           C(p) == {<<OutPin(x), OutPin(<<h, p>>)>> : x \in d_outputs[h][p]}
<1>1. w \in A <=> \E e \in d_edges[h] : w = <<OutPin(Src(e)), InPin(Dst(e))>>
  OBVIOUS
<1>2. ASSUME NEW p
      PROVE  w \in B(p) <=> \E x \in d_inputs[h][p] : w = <<InPin(<<h, p>>), InPin(x)>>
  BY Zenon
<1>3. ASSUME NEW p
      PROVE  w \in C(p) <=> \E x \in d_outputs[h][p] : w = <<OutPin(x), OutPin(<<h, p>>)>>
  BY Zenon
<1> DEFINE UB == UNION {B(p) : p \in DOMAIN d_inputs[h]}
           UC == UNION {C(p) : p \in DOMAIN d_outputs[h]}
<1>4. Wires(h) = A \union UB \union UC
  BY DEF Wires
<1>5. w \in UB <=> \E p \in DOMAIN d_inputs[h] : w \in B(p)
  <2> HIDE DEF B
  <2> QED
    BY Zenon
<1>6. w \in UC <=> \E p \in DOMAIN d_outputs[h] : w \in C(p)
  <2> HIDE DEF C
  <2> QED
    BY Zenon
<1> HIDE DEF A, B, C, UB, UC
<1>7. w \in Wires(h) <=> w \in A \/ w \in UB \/ w \in UC
  BY <1>4
<1> QED
  BY <1>1, <1>2, <1>3, <1>5, <1>6, <1>7, Zenon

\* A wire joins two pins.
LEMMA WiresType == HierTypeOK => AllWires \subseteq Pins \X Pins
<1> SUFFICES ASSUME HierTypeOK, NEW h \in Hiers PROVE Wires(h) \subseteq Pins \X Pins
  BY DEF AllWires, Flattened
<1>1. d_edges[h] \subseteq Endpoints \X Endpoints
  BY DEF HierTypeOK
<1>2. \A e \in d_edges[h] : <<OutPin(Src(e)), InPin(Dst(e))>> \in Pins \X Pins
  BY <1>1 DEF OutPin, InPin, Src, Dst, Pins
<1>3. PortsOK(d_inputs[h], MaxIn[h]) /\ PortsOK(d_outputs[h], MaxOut[h])
  BY DEF HierTypeOK
<1>4. /\ \A p \in DOMAIN d_inputs[h] : p \in Nat /\ d_inputs[h][p] \subseteq Endpoints
      /\ \A p \in DOMAIN d_outputs[h] : p \in Nat /\ d_outputs[h][p] \subseteq Endpoints
  <2>1. \A p \in DOMAIN d_inputs[h] : d_inputs[h][p] \subseteq Endpoints
    BY <1>3, PortsType
  <2>2. \A p \in DOMAIN d_outputs[h] : d_outputs[h][p] \subseteq Endpoints
    BY <1>3, PortsType
  <2>3. ASSUME NEW f, NEW n \in Nat, PortsOK(f, n), NEW p \in DOMAIN f PROVE p \in Nat
    <3>1. CASE f = <<>>
      BY <3>1
    <3>2. CASE f \in [0 .. n - 1 -> SUBSET Endpoints]
      <4>1. p \in 0 .. n - 1
        BY <3>2
      <4> QED
        BY <4>1
    <3> QED
      BY <2>3, <3>1, <3>2 DEF PortsOK
  <2>4. MaxIn[h] \in Nat /\ MaxOut[h] \in Nat
    BY BlocksAssumption, HierAssumption
  <2> QED
    BY <1>3, <2>1, <2>2, <2>3, <2>4
<1>5. \A p \in Nat : <<h, p>> \in Endpoints
  BY HierAssumption DEF Endpoints
<1>6. \A p \in DOMAIN d_inputs[h] : \A x \in d_inputs[h][p] :
        <<InPin(<<h, p>>), InPin(x)>> \in Pins \X Pins
  BY <1>4, <1>5 DEF InPin, Pins
<1>7. \A p \in DOMAIN d_outputs[h] : \A x \in d_outputs[h][p] :
        <<OutPin(x), OutPin(<<h, p>>)>> \in Pins \X Pins
  BY <1>4, <1>5 DEF OutPin, Pins
<1>8. ASSUME NEW w \in Wires(h) PROVE w \in Pins \X Pins
  <2>1. \/ \E e \in d_edges[h] : w = <<OutPin(Src(e)), InPin(Dst(e))>>
        \/ \E p \in DOMAIN d_inputs[h] : \E x \in d_inputs[h][p] : w = <<InPin(<<h, p>>), InPin(x)>>
        \/ \E p \in DOMAIN d_outputs[h] : \E x \in d_outputs[h][p] : w = <<OutPin(x), OutPin(<<h, p>>)>>
    BY WireKinds, Zenon
  <2> QED
    BY <1>2, <1>6, <1>7, <2>1, Zenon
<1> QED
  BY <1>8, Zenon

\* The recursion of Chain is well defined.
LEMMA ChainFact ==
  ASSUME HierTypeOK
  PROVE  Chain[0] = AllWires /\ \A k \in Nat : Chain[k] \subseteq Pins \X Pins /\ Chain[k + 1] = Twice(Chain[k])
<1> DEFINE V == SUBSET (Pins \X Pins)
           F == [r \in V |-> Twice(r)]
           Row(g, k) == IF k = 0 THEN AllWires ELSE Twice(g[k - 1])
<1>1. ASSUME NEW r \in V PROVE Twice(r) \in V
  <2> SUFFICES ASSUME NEW w \in r \X r PROVE <<w[1][1], w[2][2]>> \in Pins \X Pins
    BY DEF Twice
  <2>1. w[1] \in Pins \X Pins /\ w[2] \in Pins \X Pins
    OBVIOUS
  <2> HIDE DEF V
  <2> QED
    BY <2>1
<1>2. AllWires \in V
  BY WiresType
<1>3. F \in [V -> V]
  BY <1>1
<1>4. PICK g \in [Nat -> V] : Iterates(g, Nat, AllWires, F)
  <2> HIDE DEF V, F
  <2> QED
    BY <1>2, <1>3, IteratesExists
<1>5. \A k \in Nat : g[k] = Row(g, k)
  <2>1. \A k \in Nat : g[k] = IF k = 0 THEN AllWires ELSE F[g[k - 1]]
    <3> HIDE DEF V, F
    <3> QED
      BY <1>4 DEF Iterates
  <2>2. \A k \in Nat : k # 0 => k - 1 \in Nat
    OBVIOUS
  <2>3. \A k \in Nat : k # 0 => F[g[k - 1]] = Twice(g[k - 1])
    <3>1. \A k \in Nat : k # 0 => g[k - 1] \in V
      <4> HIDE DEF V, F
      <4> QED
        BY <1>4, <2>2
    <3> HIDE DEF V
    <3> QED
      BY <3>1
  <2> HIDE DEF F, V
  <2> QED
    BY <2>1, <2>3
<1> HIDE DEF Row
<1>6. g = [k \in Nat |-> Row(g, k)]
  <2> HIDE DEF V
  <2> QED
    BY <1>4, <1>5
<1>7. Chain = CHOOSE f : f = [k \in Nat |-> Row(f, k)]
  BY DEF Chain, Row, AllWires, Twice
<1>8. Chain = [k \in Nat |-> Row(Chain, k)]
  <2> HIDE DEF V
  <2> QED
    BY <1>6, <1>7
<1>9. Chain[0] = AllWires
  <2>1. Chain[0] = Row(Chain, 0)
    BY <1>8
  <2> QED
    BY <2>1 DEF Row
<1>10. ASSUME NEW k \in Nat PROVE Chain[k + 1] = Twice(Chain[k])
  <2>1. Chain[k + 1] = Row(Chain, k + 1)
    BY <1>8
  <2>2. k + 1 # 0 /\ (k + 1) - 1 = k
    OBVIOUS
  <2> QED
    BY <2>1, <2>2 DEF Row
<1>11. \A k \in Nat : Chain[k] \in V
  <2> DEFINE T == {k \in Nat : Chain[k] \in V}
  <2>1. 0 \in T
    BY <1>2, <1>9
  <2>2. ASSUME NEW k \in Nat, k \in T PROVE k + 1 \in T
    <3> HIDE DEF V
    <3> QED
      BY <1>1, <1>10, <2>2
  <2>3. \A k \in Nat : k \in T
    <3> HIDE DEF T
    <3> QED
      BY <2>1, <2>2, Induction
  <2> QED
    BY <2>3
<1> QED
  BY <1>9, <1>10, <1>11

\* Chains grow, and two that meet make one.
LEMMA ChainGrows ==
  ASSUME HierTypeOK, NEW k \in Nat
  PROVE  /\ AllWires \subseteq Chain[k] /\ Chain[k] \subseteq Chain[k + 1]
         /\ \A u, v, w : <<u, v>> \in Chain[k] /\ <<v, w>> \in Chain[k] => <<u, w>> \in Chain[k + 1]
<1>1. \A r : r \subseteq Twice(r)
  BY DEF Twice
<1>2. \A j \in Nat : Chain[j] \subseteq Chain[j + 1]
  BY <1>1, ChainFact
<1>3. \A j \in Nat : AllWires \subseteq Chain[j]
  <2> DEFINE T == {j \in Nat : AllWires \subseteq Chain[j]}
  <2>1. 0 \in T
    BY ChainFact
  <2>2. ASSUME NEW j \in Nat, j \in T PROVE j + 1 \in T
    BY <1>2, <2>2
  <2>3. \A j \in Nat : j \in T
    <3> HIDE DEF T
    <3> QED
      BY <2>1, <2>2, Induction
  <2> QED
    BY <2>3
<1>4. ASSUME NEW u, NEW v, NEW w, <<u, v>> \in Chain[k], <<v, w>> \in Chain[k]
      PROVE  <<u, w>> \in Chain[k + 1]
  <2> DEFINE r == Chain[k]
             t == <<<<u, v>>, <<v, w>>>>
  <2>1. t \in {x \in r \X r : x[1][2] = x[2][1]} /\ t[1][1] = u /\ t[2][2] = w
    BY <1>4
  <2> HIDE DEF t, r
  <2>2. <<u, w>> \in Twice(r)
    BY <2>1 DEF Twice
  <2> QED
    BY <2>2, ChainFact DEF r
<1> QED
  BY <1>2, <1>3, <1>4

\* The levels of the hierarchical blocks, in every state.
Levels(level) ==
  /\ level \in [Hiers -> 0 .. Cardinality(Hiers) - 1]
  /\ \A h \in Hiers : \A c \in BlocksOf(h) \intersect Hiers : level[c] < level[h]

\* Flattening enters every hierarchical block it finds.
LEMMA FlattenedClosed ==
  ASSUME NEW h \in Flattened(Top), NEW c \in BlocksOf(h), c \in Hiers
  PROVE  c \in Flattened(Top)
BY DEF Flattened

\* What is behind the port of a block is one of its blocks.
LEMMA BehindInside ==
  ASSUME NEW x, x[1] \in Hiers
  PROVE  /\ \A y \in Behind(d_inputs, x) :
              /\ y[1] \in BlocksOf(x[1])
              /\ x[2] \in DOMAIN d_inputs[x[1]] /\ y \in d_inputs[x[1]][x[2]]
         /\ \A y \in Behind(d_outputs, x) :
              /\ y[1] \in BlocksOf(x[1])
              /\ x[2] \in DOMAIN d_outputs[x[1]] /\ y \in d_outputs[x[1]][x[2]]
<1> DEFINE M == BlocksOf(x[1])
<1>1. /\ \A p \in DOMAIN d_inputs[x[1]] : \A y \in d_inputs[x[1]][p] : y[1] \in M
      /\ \A p \in DOMAIN d_outputs[x[1]] : \A y \in d_outputs[x[1]][p] : y[1] \in M
  <2>1. BlocksOf(x[1]) \subseteq M
    OBVIOUS
  <2> HIDE DEF M
  <2> QED
    BY <2>1, BlocksOfParts
<1> HIDE DEF M
<1>2. \A y \in Behind(d_inputs, x) : x[2] \in DOMAIN d_inputs[x[1]] /\ y \in d_inputs[x[1]][x[2]]
  BY DEF Behind
<1>3. \A y \in Behind(d_outputs, x) : x[2] \in DOMAIN d_outputs[x[1]] /\ y \in d_outputs[x[1]][x[2]]
  BY DEF Behind
<1> QED
  BY <1>1, <1>2, <1>3 DEF M

\* Going behind a port, levels fall.
LEMMA LevelsLower ==
  ASSUME NEW level, Levels(level)
  PROVE  Lower(d_inputs, level) /\ Lower(d_outputs, level)
<1>1. ASSUME NEW x \in Endpoints, x[1] \notin Hiers
      PROVE  Behind(d_inputs, x) = {} /\ Behind(d_outputs, x) = {}
  BY <1>1 DEF Behind
<1> QED
  BY <1>1, BehindInside DEF Lower, Levels

\* resolve_endpoint in every state of a nested hierarchy.
LEMMA ResolvesHere ==
  ASSUME HierTypeOK, NEW level, Levels(level)
  PROVE  /\ Resolves(d_inputs, Resolver(d_inputs)[Cardinality(Hiers)])
         /\ Resolves(d_outputs, Resolver(d_outputs)[Cardinality(Hiers)])
<1>1. level \in [Hiers -> 0 .. Cardinality(Hiers) - 1] /\ Lower(d_inputs, level) /\ Lower(d_outputs, level)
  BY LevelsLower DEF Levels
<1>2. \A x \in Endpoints : Behind(d_inputs, x) \subseteq Endpoints /\ Behind(d_outputs, x) \subseteq Endpoints
  BY BehindType
<1> QED
  BY <1>1, <1>2, ResolveEquations

\* From a leaf output that was found behind an output, wires lead to it.
LEMMA OutputsChained ==
  ASSUME HierTypeOK, NEW level, Levels(level), NEW f, Resolves(d_outputs, f)
  PROVE  \A k \in Nat : \A x \in Endpoints : x[1] \in Flattened(Top) /\ level[x[1]] <= k =>
           \A s \in f[x] : <<OutPin(s), OutPin(x)>> \in Chain[k]
<1> DEFINE T == {k \in Nat : \A x \in Endpoints : x[1] \in Flattened(Top) /\ level[x[1]] <= k =>
                   \A s \in f[x] : <<OutPin(s), OutPin(x)>> \in Chain[k]}
<1>1. ASSUME NEW x \in Endpoints, x[1] \in Flattened(Top), NEW s \in f[x]
      PROVE  \E y \in Endpoints :
               /\ s \in f[y] /\ <<OutPin(y), OutPin(x)>> \in AllWires
               /\ y = s \/ (y[1] \in Flattened(Top) /\ level[y[1]] < level[x[1]])
  <2>1. x[1] \in Hiers
    BY <1>1 DEF Flattened
  <2>2. PICK y \in Behind(d_outputs, x) : s \in f[y]
    BY <2>1 DEF Resolves
  <2>3. y \in Endpoints
    BY BehindType
  <2>4. y[1] \in BlocksOf(x[1]) /\ x[2] \in DOMAIN d_outputs[x[1]] /\ y \in d_outputs[x[1]][x[2]]
    BY <2>1, BehindInside
  <2>5. <<OutPin(y), OutPin(x)>> \in Wires(x[1])
    <3>1. x = <<x[1], x[2]>>
      BY DEF Endpoints
    <3>2. <<OutPin(y), OutPin(x)>> = <<OutPin(y), OutPin(<<x[1], x[2]>>)>>
      BY <3>1
    <3> QED
      BY <2>4, <3>2, WireKinds
  <2>6. <<OutPin(y), OutPin(x)>> \in AllWires
    BY <1>1, <2>5 DEF AllWires
  <2>7. CASE y[1] \in LeafBlocks
    <3>1. f[y] = {y}
      BY <2>3, <2>7 DEF Resolves
    <3> QED
      BY <2>2, <2>3, <2>6, <3>1
  <2>8. CASE y[1] \in Hiers
    <3>1. y[1] \in Flattened(Top) /\ level[y[1]] < level[x[1]]
      BY <1>1, <2>1, <2>4, <2>8, FlattenedClosed DEF Levels
    <3> QED
      BY <2>2, <2>3, <2>6, <3>1
  <2> QED
    BY <2>3, <2>7, <2>8 DEF Endpoints, LeafBlocks
<1>2. \A h \in Flattened(Top) : level[h] \in Nat
  <2>1. \A h \in Hiers : level[h] \in 0 .. Cardinality(Hiers) - 1
    BY DEF Levels
  <2> QED
    BY <2>1 DEF Flattened
<1>3. 0 \in T
  <2> SUFFICES ASSUME NEW x \in Endpoints, x[1] \in Flattened(Top), level[x[1]] <= 0, NEW s \in f[x]
               PROVE  <<OutPin(s), OutPin(x)>> \in Chain[0]
    OBVIOUS
  <2>1. PICK y \in Endpoints :
               /\ s \in f[y] /\ <<OutPin(y), OutPin(x)>> \in AllWires
               /\ y = s \/ (y[1] \in Flattened(Top) /\ level[y[1]] < level[x[1]])
    BY <1>1
  <2>2. y = s
    BY <1>2, <2>1
  <2> QED
    BY <2>1, <2>2, ChainFact
<1>4. ASSUME NEW k \in Nat, k \in T PROVE k + 1 \in T
  <2> SUFFICES ASSUME NEW x \in Endpoints, x[1] \in Flattened(Top), level[x[1]] <= k + 1, NEW s \in f[x]
               PROVE  <<OutPin(s), OutPin(x)>> \in Chain[k + 1]
    OBVIOUS
  <2>1. PICK y \in Endpoints :
               /\ s \in f[y] /\ <<OutPin(y), OutPin(x)>> \in AllWires
               /\ y = s \/ (y[1] \in Flattened(Top) /\ level[y[1]] < level[x[1]])
    BY <1>1
  <2>2. <<OutPin(y), OutPin(x)>> \in Chain[k] /\ <<OutPin(y), OutPin(x)>> \in Chain[k + 1]
    BY <2>1, ChainGrows
  <2>3. CASE y = s
    BY <2>2, <2>3
  <2>4. CASE y[1] \in Flattened(Top) /\ level[y[1]] < level[x[1]]
    <3>1. level[y[1]] \in Nat /\ level[x[1]] \in Nat
      BY <1>2, <2>4
    <3>2. level[y[1]] <= k
      BY <2>4, <3>1
    <3>3. <<OutPin(s), OutPin(y)>> \in Chain[k]
      BY <1>4, <2>1, <2>4, <3>2
    <3> QED
      BY <2>2, <3>3, ChainGrows
  <2> QED
    BY <2>1, <2>3, <2>4
<1>5. \A k \in Nat : k \in T
  <2> HIDE DEF T
  <2> QED
    BY <1>3, <1>4, Induction
<1> QED
  BY <1>5

\* Wires lead from an input to the leaf inputs that were found behind it.
LEMMA InputsChained ==
  ASSUME HierTypeOK, NEW level, Levels(level), NEW f, Resolves(d_inputs, f)
  PROVE  \A k \in Nat : \A x \in Endpoints : x[1] \in Flattened(Top) /\ level[x[1]] <= k =>
           \A s \in f[x] : <<InPin(x), InPin(s)>> \in Chain[k]
<1> DEFINE T == {k \in Nat : \A x \in Endpoints : x[1] \in Flattened(Top) /\ level[x[1]] <= k =>
                   \A s \in f[x] : <<InPin(x), InPin(s)>> \in Chain[k]}
<1>1. ASSUME NEW x \in Endpoints, x[1] \in Flattened(Top), NEW s \in f[x]
      PROVE  \E y \in Endpoints :
               /\ s \in f[y] /\ <<InPin(x), InPin(y)>> \in AllWires
               /\ y = s \/ (y[1] \in Flattened(Top) /\ level[y[1]] < level[x[1]])
  <2>1. x[1] \in Hiers
    BY <1>1 DEF Flattened
  <2>2. PICK y \in Behind(d_inputs, x) : s \in f[y]
    BY <2>1 DEF Resolves
  <2>3. y \in Endpoints
    BY BehindType
  <2>4. y[1] \in BlocksOf(x[1]) /\ x[2] \in DOMAIN d_inputs[x[1]] /\ y \in d_inputs[x[1]][x[2]]
    BY <2>1, BehindInside
  <2>5. <<InPin(x), InPin(y)>> \in Wires(x[1])
    <3>1. x = <<x[1], x[2]>>
      BY DEF Endpoints
    <3>2. <<InPin(x), InPin(y)>> = <<InPin(<<x[1], x[2]>>), InPin(y)>>
      BY <3>1
    <3> QED
      BY <2>4, <3>2, WireKinds
  <2>6. <<InPin(x), InPin(y)>> \in AllWires
    BY <1>1, <2>5 DEF AllWires
  <2>7. CASE y[1] \in LeafBlocks
    <3>1. f[y] = {y}
      BY <2>3, <2>7 DEF Resolves
    <3> QED
      BY <2>2, <2>3, <2>6, <3>1
  <2>8. CASE y[1] \in Hiers
    <3>1. y[1] \in Flattened(Top) /\ level[y[1]] < level[x[1]]
      BY <1>1, <2>1, <2>4, <2>8, FlattenedClosed DEF Levels
    <3> QED
      BY <2>2, <2>3, <2>6, <3>1
  <2> QED
    BY <2>3, <2>7, <2>8 DEF Endpoints, LeafBlocks
<1>2. \A h \in Flattened(Top) : level[h] \in Nat
  <2>1. \A h \in Hiers : level[h] \in 0 .. Cardinality(Hiers) - 1
    BY DEF Levels
  <2> QED
    BY <2>1 DEF Flattened
<1>3. 0 \in T
  <2> SUFFICES ASSUME NEW x \in Endpoints, x[1] \in Flattened(Top), level[x[1]] <= 0, NEW s \in f[x]
               PROVE  <<InPin(x), InPin(s)>> \in Chain[0]
    OBVIOUS
  <2>1. PICK y \in Endpoints :
               /\ s \in f[y] /\ <<InPin(x), InPin(y)>> \in AllWires
               /\ y = s \/ (y[1] \in Flattened(Top) /\ level[y[1]] < level[x[1]])
    BY <1>1
  <2>2. y = s
    BY <1>2, <2>1
  <2> QED
    BY <2>1, <2>2, ChainFact
<1>4. ASSUME NEW k \in Nat, k \in T PROVE k + 1 \in T
  <2> SUFFICES ASSUME NEW x \in Endpoints, x[1] \in Flattened(Top), level[x[1]] <= k + 1, NEW s \in f[x]
               PROVE  <<InPin(x), InPin(s)>> \in Chain[k + 1]
    OBVIOUS
  <2>1. PICK y \in Endpoints :
               /\ s \in f[y] /\ <<InPin(x), InPin(y)>> \in AllWires
               /\ y = s \/ (y[1] \in Flattened(Top) /\ level[y[1]] < level[x[1]])
    BY <1>1
  <2>2. <<InPin(x), InPin(y)>> \in Chain[k] /\ <<InPin(x), InPin(y)>> \in Chain[k + 1]
    BY <2>1, ChainGrows
  <2>3. CASE y = s
    BY <2>2, <2>3
  <2>4. CASE y[1] \in Flattened(Top) /\ level[y[1]] < level[x[1]]
    <3>1. level[y[1]] \in Nat /\ level[x[1]] \in Nat
      BY <1>2, <2>4
    <3>2. level[y[1]] <= k
      BY <2>4, <3>1
    <3>3. <<InPin(y), InPin(s)>> \in Chain[k]
      BY <1>4, <2>1, <2>4, <3>2
    <3> QED
      BY <2>2, <3>3, ChainGrows
  <2> QED
    BY <2>1, <2>3, <2>4
<1>5. \A k \in Nat : k \in T
  <2> HIDE DEF T
  <2> QED
    BY <1>3, <1>4, Induction
<1> QED
  BY <1>5

\* Where y resolves, x does, to no more than y.
Narrower(f, x, y) == f[y] # {} => f[x] # {} /\ f[x] \subseteq f[y]

\* What two pins have to do with each other when a chain of wires joins them:
\* ri and ro are what the inputs and outputs resolve to.
Joined(v, ri, ro, edges) ==
  \/ v[1][1] = "in" /\ v[2][1] = "in" /\ Narrower(ri, v[2][2], v[1][2])
  \/ v[1][1] = "out" /\ v[2][1] = "out" /\ Narrower(ro, v[1][2], v[2][2])
  \/ /\ v[1][1] = "out" /\ v[2][1] = "in"
     /\ \E e \in edges : /\ ro[v[1][2]] # {} /\ ro[v[1][2]] \subseteq ro[Src(e)]
                         /\ ri[v[2][2]] # {} /\ ri[v[2][2]] \subseteq ri[Dst(e)]

\* Two chains that meet.
LEMMA JoinedTwice ==
  ASSUME NEW ri, NEW ro, NEW edges, NEW u, NEW w, u[2] = w[1],
         Joined(u, ri, ro, edges), Joined(w, ri, ro, edges)
  PROVE  Joined(<<u[1], w[2]>>, ri, ro, edges)
<1> DEFINE v == <<u[1], w[2]>>
<1>1. v[1] = u[1] /\ v[2] = w[2]
  OBVIOUS
<1> HIDE DEF v
<1>2. "in" # "out"
  OBVIOUS
<1>3. CASE u[1][1] = "in" /\ u[2][1] = "in" /\ Narrower(ri, u[2][2], u[1][2])
  <2>1. w[2][1] = "in" /\ Narrower(ri, w[2][2], w[1][2])
    BY <1>2, <1>3 DEF Joined
  <2>2. Narrower(ri, w[2][2], u[1][2])
    BY <1>3, <2>1 DEF Narrower
  <2>3. Joined(v, ri, ro, edges)
    BY <1>1, <1>3, <2>1, <2>2 DEF Joined
  <2> QED
    BY <2>3 DEF v
<1>4. CASE u[1][1] = "out" /\ u[2][1] = "out" /\ Narrower(ro, u[1][2], u[2][2])
  <2>1. CASE w[2][1] = "out" /\ Narrower(ro, w[1][2], w[2][2])
    <3>1. Narrower(ro, u[1][2], w[2][2])
      BY <1>4, <2>1 DEF Narrower
    <3>2. Joined(v, ri, ro, edges)
      BY <1>1, <1>4, <2>1, <3>1 DEF Joined
    <3> QED
      BY <3>2 DEF v
  <2>2. CASE /\ w[2][1] = "in"
             /\ \E e \in edges : /\ ro[w[1][2]] # {} /\ ro[w[1][2]] \subseteq ro[Src(e)]
                                 /\ ri[w[2][2]] # {} /\ ri[w[2][2]] \subseteq ri[Dst(e)]
    <3>1. PICK e \in edges : /\ ro[w[1][2]] # {} /\ ro[w[1][2]] \subseteq ro[Src(e)]
                             /\ ri[w[2][2]] # {} /\ ri[w[2][2]] \subseteq ri[Dst(e)]
      BY <2>2
    <3>2. ro[u[1][2]] # {} /\ ro[u[1][2]] \subseteq ro[Src(e)]
      BY <1>4, <3>1 DEF Narrower
    <3>3. Joined(v, ri, ro, edges)
      BY <1>1, <1>4, <2>2, <3>1, <3>2 DEF Joined
    <3> QED
      BY <3>3 DEF v
  <2> QED
    BY <1>2, <1>4, <2>1, <2>2 DEF Joined
<1>5. CASE /\ u[1][1] = "out" /\ u[2][1] = "in"
           /\ \E e \in edges : /\ ro[u[1][2]] # {} /\ ro[u[1][2]] \subseteq ro[Src(e)]
                               /\ ri[u[2][2]] # {} /\ ri[u[2][2]] \subseteq ri[Dst(e)]
  <2>1. PICK e \in edges : /\ ro[u[1][2]] # {} /\ ro[u[1][2]] \subseteq ro[Src(e)]
                           /\ ri[u[2][2]] # {} /\ ri[u[2][2]] \subseteq ri[Dst(e)]
    BY <1>5
  <2>2. w[2][1] = "in" /\ Narrower(ri, w[2][2], w[1][2])
    BY <1>2, <1>5 DEF Joined
  <2>3. ri[w[2][2]] # {} /\ ri[w[2][2]] \subseteq ri[Dst(e)]
    BY <2>1, <2>2 DEF Narrower
  <2>4. Joined(v, ri, ro, edges)
    BY <1>1, <1>5, <2>1, <2>2, <2>3 DEF Joined
  <2> QED
    BY <2>4 DEF v
<1> QED
  BY <1>3, <1>4, <1>5 DEF Joined

\* Every chain joins pins in one of these ways, when flattening does not throw.
LEMMA ChainsJoin ==
  ASSUME HierTypeOK, NEW edges, edges = UNION {d_edges[h] : h \in Flattened(Top)},
         NEW ri, Resolves(d_inputs, ri), NEW ro, Resolves(d_outputs, ro),
         \A e \in edges : ro[Src(e)] # {} /\ ri[Dst(e)] # {}
  PROVE  \A k \in Nat : \A v \in Chain[k] : Joined(v, ri, ro, edges)
<1> DEFINE T == {k \in Nat : \A v \in Chain[k] : Joined(v, ri, ro, edges)}
<1>1. ASSUME NEW v \in AllWires PROVE Joined(v, ri, ro, edges)
  <2>1. PICK h \in Flattened(Top) : v \in Wires(h)
    BY DEF AllWires
  <2>2. h \in Hiers /\ d_edges[h] \subseteq edges
    BY DEF Flattened
  <2>3. \/ \E e \in d_edges[h] : v = <<OutPin(Src(e)), InPin(Dst(e))>>
        \/ \E p \in DOMAIN d_inputs[h] : \E x \in d_inputs[h][p] : v = <<InPin(<<h, p>>), InPin(x)>>
        \/ \E p \in DOMAIN d_outputs[h] : \E x \in d_outputs[h][p] : v = <<OutPin(x), OutPin(<<h, p>>)>>
    BY <2>1, WireKinds, Zenon
  <2>4. ASSUME NEW e \in d_edges[h], v = <<OutPin(Src(e)), InPin(Dst(e))>>
        PROVE  Joined(v, ri, ro, edges)
    <3>1. v[1][1] = "out" /\ v[1][2] = Src(e) /\ v[2][1] = "in" /\ v[2][2] = Dst(e)
      BY <2>4 DEF OutPin, InPin
    <3>2. e \in edges /\ ro[Src(e)] # {} /\ ri[Dst(e)] # {}
      BY <2>2
    <3> QED
      BY <3>1, <3>2 DEF Joined
  <2>5. ASSUME NEW p \in DOMAIN d_inputs[h], NEW x \in d_inputs[h][p], v = <<InPin(<<h, p>>), InPin(x)>>
        PROVE  Joined(v, ri, ro, edges)
    <3> DEFINE y == <<h, p>>
    <3>1. v[1][1] = "in" /\ v[1][2] = y /\ v[2][1] = "in" /\ v[2][2] = x
      BY <2>5 DEF InPin
    <3>2. y[1] = h /\ x \in Behind(d_inputs, y)
      BY <2>2 DEF Behind
    <3>3. y \in Endpoints
      <4>1. v \in Pins \X Pins
        BY WiresType
      <4>2. v[1] \in Pins
        BY <4>1
      <4> HIDE DEF y
      <4> QED
        BY <3>1, <4>2 DEF Pins
    <3> HIDE DEF y
    <3>4. ri[y] = IF \E z \in Behind(d_inputs, y) : ri[z] = {} THEN {}
                  ELSE UNION {ri[z] : z \in Behind(d_inputs, y)}
      BY <2>2, <3>2, <3>3 DEF Resolves
    <3>5. Narrower(ri, x, y)
      BY <3>2, <3>4 DEF Narrower
    <3> QED
      BY <3>1, <3>5 DEF Joined
  <2>6. ASSUME NEW p \in DOMAIN d_outputs[h], NEW x \in d_outputs[h][p], v = <<OutPin(x), OutPin(<<h, p>>)>>
        PROVE  Joined(v, ri, ro, edges)
    <3> DEFINE y == <<h, p>>
    <3>1. v[1][1] = "out" /\ v[1][2] = x /\ v[2][1] = "out" /\ v[2][2] = y
      BY <2>6 DEF OutPin
    <3>2. y[1] = h /\ x \in Behind(d_outputs, y)
      BY <2>2 DEF Behind
    <3>3. y \in Endpoints
      <4>1. v \in Pins \X Pins
        BY WiresType
      <4>2. v[2] \in Pins
        BY <4>1
      <4> HIDE DEF y
      <4> QED
        BY <3>1, <4>2 DEF Pins
    <3> HIDE DEF y
    <3>4. ro[y] = IF \E z \in Behind(d_outputs, y) : ro[z] = {} THEN {}
                  ELSE UNION {ro[z] : z \in Behind(d_outputs, y)}
      BY <2>2, <3>2, <3>3 DEF Resolves
    <3>5. Narrower(ro, x, y)
      BY <3>2, <3>4 DEF Narrower
    <3> QED
      BY <3>1, <3>5 DEF Joined
  <2> QED
    BY <2>3, <2>4, <2>5, <2>6, Zenon
<1>2. 0 \in T
  BY <1>1, ChainFact
<1>3. ASSUME NEW k \in Nat, k \in T PROVE k + 1 \in T
  <2> DEFINE r == Chain[k]
  <2>1. Chain[k + 1] = Twice(r) /\ \A v \in r : Joined(v, ri, ro, edges)
    BY <1>3, ChainFact
  <2> HIDE DEF r
  <2>2. ASSUME NEW v \in Twice(r), v \notin r PROVE Joined(v, ri, ro, edges)
    <3>1. PICK w \in {t \in r \X r : t[1][2] = t[2][1]} : v = <<w[1][1], w[2][2]>>
      BY <2>2 DEF Twice
    <3>2. w[1] \in r /\ w[2] \in r /\ w[1][2] = w[2][1]
      BY <3>1
    <3> QED
      BY <2>1, <3>1, <3>2, JoinedTwice
  <2> QED
    BY <2>1, <2>2
<1>4. \A k \in Nat : k \in T
  <2> HIDE DEF T
  <2> QED
    BY <1>2, <1>3, Induction
<1> QED
  BY <1>4

\* Where flattening does not throw, its edges are the chains from leaf to leaf.
LEMMA FlatIsWiringHere ==
  ASSUME HierTypeOK, NEW level, Levels(level)
  PROVE  FlatIsWiring
<1> DEFINE N == Cardinality(Hiers)
           ri == Resolver(d_inputs)[N]
           ro == Resolver(d_outputs)[N]
           edges == UNION {d_edges[h] : h \in Flattened(Top)}
           Ends(v) == /\ v[1][1] = "out" /\ v[1][2][1] \in LeafBlocks
                      /\ v[2][1] = "in" /\ v[2][2][1] \in LeafBlocks
<1> SUFFICES ASSUME flatten_ok
             PROVE  FlatEdges = {<<w[1][2], w[2][2]>> : w \in {v \in Chain[N + 1] : Ends(v)}}
  BY DEF FlatIsWiring
<1>1. Resolves(d_inputs, ri) /\ Resolves(d_outputs, ro)
  BY ResolvesHere
<1>2. N \in Nat /\ N # 0
  BY BlocksAssumption, HierAssumption, FS_Subset, FS_CardinalityType, FS_EmptySet
<1>3. \A x : resolve_endpoint(x, FALSE) = ro[x] /\ resolve_endpoint(x, TRUE) = ri[x]
  BY DEF resolve_endpoint
<1>4. \A e \in edges : ro[Src(e)] # {} /\ ri[Dst(e)] # {}
  <2> HIDE DEF ri, ro
  <2>1. \A h \in Flattened(Top) : \A e \in d_edges[h] :
          resolve_endpoint(Src(e), FALSE) # {} /\ resolve_endpoint(Dst(e), TRUE) # {}
    BY DEF flatten_ok
  <2>2. ASSUME NEW e \in edges PROVE ro[Src(e)] # {} /\ ri[Dst(e)] # {}
    <3>1. PICK h \in Flattened(Top) : e \in d_edges[h]
      BY Zenon
    <3> HIDE DEF edges
    <3>2. resolve_endpoint(Src(e), FALSE) # {} /\ resolve_endpoint(Dst(e), TRUE) # {}
      BY <2>1, <3>1
    <3> QED
      BY <1>3, <3>2
  <2> QED
    BY <2>2
<1>5. \A x : x \in FlatEdges <=> \E e \in edges : x \in ro[Src(e)] \X ri[Dst(e)]
  <2> DEFINE R(e) == {<<e, x>> : x \in resolve_endpoint(Src(e), FALSE) \X resolve_endpoint(Dst(e), TRUE)}
  <2>1. \A q : q \in Resolved <=> \E e \in edges : q \in R(e)
    <3>1. Resolved = UNION {R(e) : e \in edges}
      BY DEF Resolved
    <3> HIDE DEF R, edges
    <3> QED
      BY <3>1, Zenon
  <2> HIDE DEF ri, ro, edges
  <2>2. \A q : q \in Resolved <=> \E e \in edges : \E x \in ro[Src(e)] \X ri[Dst(e)] : q = <<e, x>>
    <3>1. ASSUME NEW q, NEW e PROVE q \in R(e) <=> \E x \in ro[Src(e)] \X ri[Dst(e)] : q = <<e, x>>
      <4> DEFINE S == resolve_endpoint(Src(e), FALSE)
                 D == resolve_endpoint(Dst(e), TRUE)
      <4>1. S = ro[Src(e)] /\ D = ri[Dst(e)]
        BY <1>3
      <4>2. q \in R(e) <=> \E x \in S \X D : q = <<e, x>>
        BY Zenon
      <4> HIDE DEF S, D, R
      <4> QED
        BY <4>1, <4>2
    <3> HIDE DEF R
    <3> QED
      BY <2>1, <3>1
  <2>3. \A x : x \in FlatEdges <=> \E q \in Resolved : x = q[2]
    BY DEF FlatEdges
  <2>4. ASSUME NEW x, NEW e \in edges, x \in ro[Src(e)] \X ri[Dst(e)] PROVE x \in FlatEdges
    <3>1. <<e, x>> \in Resolved /\ <<e, x>>[2] = x
      BY <2>2, <2>4
    <3> QED
      BY <2>3, <3>1
  <2>5. ASSUME NEW x \in FlatEdges PROVE \E e \in edges : x \in ro[Src(e)] \X ri[Dst(e)]
    <3>1. PICK q \in Resolved : x = q[2]
      BY <2>3
    <3>2. PICK e \in edges : \E y \in ro[Src(e)] \X ri[Dst(e)] : q = <<e, y>>
      BY <2>2
    <3> QED
      BY <3>1, <3>2
  <2> QED
    BY <2>4, <2>5
<1>6. ASSUME NEW h \in Flattened(Top), NEW e \in d_edges[h]
      PROVE  /\ Src(e) \in Endpoints /\ Dst(e) \in Endpoints
             /\ <<OutPin(Src(e)), InPin(Dst(e))>> \in AllWires
             /\ Src(e)[1] \in LeafBlocks \/ Src(e)[1] \in Flattened(Top)
             /\ Dst(e)[1] \in LeafBlocks \/ Dst(e)[1] \in Flattened(Top)
  <2>1. h \in Hiers
    BY DEF Flattened
  <2>2. Src(e) \in Endpoints /\ Dst(e) \in Endpoints
    BY <2>1 DEF HierTypeOK, Src, Dst
  <2>3. <<OutPin(Src(e)), InPin(Dst(e))>> \in Wires(h)
    BY WireKinds
  <2>4. <<OutPin(Src(e)), InPin(Dst(e))>> \in AllWires
    BY <2>3 DEF AllWires
  <2>5. Src(e)[1] \in BlocksOf(h) /\ Dst(e)[1] \in BlocksOf(h)
    BY DEF BlocksOf, calc_used_blocks
  <2>6. ASSUME NEW x \in Endpoints, x[1] \in BlocksOf(h)
        PROVE  x[1] \in LeafBlocks \/ x[1] \in Flattened(Top)
    <3>1. x[1] \in LeafBlocks \/ x[1] \in Hiers
      BY DEF Endpoints, LeafBlocks
    <3> QED
      BY <2>6, <3>1, FlattenedClosed
  <2> QED
    BY <2>2, <2>4, <2>5, <2>6
<1> HIDE DEF ri, ro
<1>7. ASSUME NEW e \in edges, NEW s \in ro[Src(e)], NEW t \in ri[Dst(e)]
      PROVE  /\ <<OutPin(s), InPin(t)>> \in Chain[N + 1]
             /\ s[1] \in LeafBlocks /\ t[1] \in LeafBlocks
  <2>1. PICK h \in Flattened(Top) : e \in d_edges[h]
    OBVIOUS
  <2> HIDE DEF edges
  <2>2. Src(e) \in Endpoints /\ Dst(e) \in Endpoints /\ <<OutPin(Src(e)), InPin(Dst(e))>> \in AllWires
    BY <1>6, <2>1
  <2>3. s \in LeafEnds /\ t \in LeafEnds
    BY <1>1, <2>2 DEF Resolves
  <2> DEFINE M == N - 1
  <2>4. M \in Nat /\ M + 1 = N /\ \A h1 \in Flattened(Top) : level[h1] <= M
    <3>1. \A h1 \in Hiers : level[h1] \in 0 .. N - 1
      BY DEF Levels
    <3>2. \A j \in 0 .. N - 1 : j <= N - 1
      BY <1>2
    <3>3. \A h1 \in Flattened(Top) : h1 \in Hiers
      BY DEF Flattened
    <3>4. N - 1 \in Nat /\ (N - 1) + 1 = N
      BY <1>2
    <3> HIDE DEF N
    <3> QED
      BY <3>1, <3>2, <3>3, <3>4
  <2> HIDE DEF M, N
  <2>5. s = Src(e) \/ <<OutPin(s), OutPin(Src(e))>> \in Chain[M]
    <3>1. CASE Src(e)[1] \in LeafBlocks
      BY <1>1, <2>2, <3>1 DEF Resolves
    <3>2. CASE Src(e)[1] \in Flattened(Top)
      BY <1>1, <2>2, <2>4, <3>2, OutputsChained
    <3> QED
      BY <1>6, <2>1, <3>1, <3>2
  <2>6. t = Dst(e) \/ <<InPin(Dst(e)), InPin(t)>> \in Chain[M]
    <3>1. CASE Dst(e)[1] \in LeafBlocks
      BY <1>1, <2>2, <3>1 DEF Resolves
    <3>2. CASE Dst(e)[1] \in Flattened(Top)
      BY <1>1, <2>2, <2>4, <3>2, InputsChained
    <3> QED
      BY <1>6, <2>1, <3>1, <3>2
  <2>7. <<OutPin(s), InPin(Dst(e))>> \in Chain[N]
    <3>1. <<OutPin(Src(e)), InPin(Dst(e))>> \in Chain[M] /\ Chain[M] \subseteq Chain[M + 1]
      BY <2>2, <2>4, ChainGrows
    <3> QED
      BY <2>4, <2>5, <3>1, ChainGrows
  <2>8. <<OutPin(s), InPin(t)>> \in Chain[N + 1]
    <3>1. Chain[M] \subseteq Chain[N] /\ Chain[N] \subseteq Chain[N + 1]
      BY <1>2, <2>4, ChainGrows
    <3> QED
      BY <1>2, <2>6, <2>7, <3>1, ChainGrows
  <2> QED
    BY <2>3, <2>8 DEF LeafEnds
<1>8. ASSUME NEW v \in Chain[N + 1], Ends(v) PROVE <<v[1][2], v[2][2]>> \in FlatEdges
  <2>1. N + 1 \in Nat
    BY <1>2
  <2>2. Joined(v, ri, ro, edges)
    <3> HIDE DEF N
    <3> QED
      BY <1>1, <1>4, <2>1, ChainsJoin
  <2>3. v[1] \in Pins /\ v[2] \in Pins
    <3>1. v \in Pins \X Pins
      <4> HIDE DEF N
      <4> QED
        BY <2>1, ChainFact
    <3> QED
      BY <3>1
  <2> DEFINE a == v[1][2]
             b == v[2][2]
  <2>4. a \in Endpoints /\ b \in Endpoints
    BY <2>3 DEF Pins
  <2>5. ro[a] = {a} /\ ri[b] = {b}
    <3>1. a[1] \in LeafBlocks /\ b[1] \in LeafBlocks
      BY <1>8
    <3> HIDE DEF a, b
    <3> QED
      BY <1>1, <2>4, <3>1 DEF Resolves
  <2>6. PICK e \in edges : ro[a] \subseteq ro[Src(e)] /\ ri[b] \subseteq ri[Dst(e)]
    BY <1>8, <2>2 DEF Joined
  <2> HIDE DEF a, b, edges
  <2>7. <<a, b>> \in ro[Src(e)] \X ri[Dst(e)]
    BY <2>5, <2>6
  <2>8. <<a, b>> \in FlatEdges
    BY <1>5, <2>7
  <2> QED
    BY <2>8 DEF a, b
<1>9. ASSUME NEW x \in FlatEdges PROVE \E w \in {v \in Chain[N + 1] : Ends(v)} : x = <<w[1][2], w[2][2]>>
  <2>1. PICK e \in edges : x \in ro[Src(e)] \X ri[Dst(e)]
    BY <1>5
  <2> HIDE DEF edges, N
  <2>2. PICK s \in ro[Src(e)], t \in ri[Dst(e)] : x = <<s, t>>
    BY <2>1
  <2> DEFINE w == <<OutPin(s), InPin(t)>>
  <2>3. w \in Chain[N + 1] /\ s[1] \in LeafBlocks /\ t[1] \in LeafBlocks
    BY <1>7
  <2>4. w[1][1] = "out" /\ w[1][2] = s /\ w[2][1] = "in" /\ w[2][2] = t
    BY DEF OutPin, InPin
  <2> HIDE DEF w
  <2>5. Ends(w) /\ x = <<w[1][2], w[2][2]>>
    BY <2>2, <2>3, <2>4
  <2> QED
    BY <2>3, <2>5
<1> HIDE DEF N, edges, Ends
<1> QED
  BY <1>8, <1>9

\* In a nested hierarchy, whatever its edits, a flat edge joins two leaf ports
\* exactly when a chain of connections does.
THEOREM FlatIsWiringHolds ==
  ASSUME Nested
  PROVE  Spec => []FlatIsWiring
<1>1. PICK level \in [Hiers -> 0 .. Cardinality(Hiers) - 1] :
        \A h \in Hiers : \A c \in Members(h) \intersect Hiers : level[c] < level[h]
  BY DEF Nested
<1>2. FlatInv => FlatIsWiring
  <2> SUFFICES ASSUME FlatInv PROVE FlatIsWiring
    OBVIOUS
  <2>1. HierTypeOK /\ BlocksInside
    BY DEF FlatInv, ConfigInv, TypeOK
  <2>2. Levels(level)
    BY <1>1, <2>1 DEF Levels, BlocksInside
  <2> QED
    BY <2>1, <2>2, FlatIsWiringHere
<1> QED
  BY <1>2, FlatInvariant, PTL
=============================================================================
