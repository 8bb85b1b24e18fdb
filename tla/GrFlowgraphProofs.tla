-------------------------- MODULE GrFlowgraphProofs --------------------------
(***************************************************************************)
(* Proofs about the operators of gr_flowgraph, for every set of blocks and *)
(* every set of edges: topological_sort puts each block out once, upstream *)
(* before downstream, and refuses no graph that can be put in order;       *)
(* partition finds the connected parts and sorts each of them.             *)
(***************************************************************************)
EXTENDS GrFlowgraph, FiniteSetTheorems, WellFoundedInduction, TLAPS

-----------------------------------------------------------------------------
(* Numbers and finite sets. *)

\* A set of natural numbers that is not empty has a smallest one.
LEMMA Smallest ==
  ASSUME NEW T, T \subseteq Nat, T # {}
  PROVE  \E n \in T : \A m \in T : n <= m
<1> DEFINE R == {ss \in Nat \X Nat : ss[1] < ss[2]}
<1>1. IsWellFoundedOn(R, Nat)
  BY NatLessThanWellFounded DEF OpToRel
<1>2. PICK n \in T : \A m \in T : ~(<<m, n>> \in R)
  <2> HIDE DEF R
  <2> QED
    BY <1>1, WFMin
<1>3. \A m \in T : ~(m < n)
  BY <1>2
<1> QED
  BY <1>3

\* Induction, for a set of natural numbers.
LEMMA Induction ==
  ASSUME NEW T, 0 \in T, \A k \in Nat : k \in T => k + 1 \in T
  PROVE  \A k \in Nat : k \in T
<1> DEFINE Bad == {k \in Nat : k \notin T}
<1> SUFFICES ASSUME Bad # {} PROVE FALSE
  OBVIOUS
<1>1. PICK n \in Bad : \A m \in Bad : n <= m
  <2>1. Bad \subseteq Nat
    OBVIOUS
  <2> HIDE DEF Bad
  <2> QED
    BY <2>1, Smallest
<1>2. n \in Nat /\ n \notin T /\ n # 0
  OBVIOUS
<1>3. n - 1 \in Nat /\ ~(n <= n - 1)
  BY <1>2
<1>4. n - 1 \notin Bad
  <2> HIDE DEF Bad
  <2> QED
    BY <1>1, <1>3
<1>5. n - 1 \in T
  BY <1>3, <1>4
<1>6. (n - 1) + 1 \in T
  BY <1>3, <1>5
<1> QED
  BY <1>2, <1>6

\* Max finds the largest number of a finite set.
LEMMA MaxFact ==
  ASSUME NEW T, T \subseteq Nat, T # {}, IsFiniteSet(T)
  PROVE  Max(T) \in T /\ \A m \in T : m <= Max(T)
<1> DEFINE Above(n) == {m \in T : m > n}
           Counts == {Cardinality(Above(n)) : n \in T}
<1>1. \A n \in T : IsFiniteSet(Above(n)) /\ Cardinality(Above(n)) \in Nat
  BY FS_Subset, FS_CardinalityType
<1>2. Counts \subseteq Nat /\ Counts # {}
  BY <1>1
<1>3. PICK c \in Counts : \A d \in Counts : c <= d
  <2> HIDE DEF Counts
  <2> QED
    BY <1>2, Smallest
<1>4. PICK n \in T : c = Cardinality(Above(n))
  OBVIOUS
<1>5. ASSUME NEW m \in T, m > n PROVE FALSE
  <2>1. Above(m) \subseteq Above(n) /\ m \in Above(n) /\ m \notin Above(m)
    <3>1. m \in Nat /\ n \in Nat /\ \A j \in T : j \in Nat
      OBVIOUS
    <3>2. \A j \in T : j > m => j > n
      BY <1>5, <3>1
    <3>3. ~(m > m)
      BY <3>1
    <3> HIDE DEF Counts
    <3> QED
      BY <1>5, <3>2, <3>3
  <2>2. Cardinality(Above(m)) < Cardinality(Above(n))
    <3> HIDE DEF Above
    <3> QED
      BY <1>1, <2>1, FS_Subset, FS_CardinalityType
  <2>3. Cardinality(Above(m)) \in Counts
    OBVIOUS
  <2> HIDE DEF Above, Counts
  <2> QED
    BY <1>1, <1>3, <1>4, <2>2, <2>3
<1>6. \A m \in T : n >= m
  BY <1>5
<1> QED
  BY <1>6 DEF Max

-----------------------------------------------------------------------------
(* Recursive functions on the numbers. *)

\* A function that starts with base and goes on with F.
Iterates(g, D, base, F) ==
  \A k \in D : g[k] = IF k = 0 THEN base ELSE F[g[k - 1]]

\* Two of them agree wherever both are defined.
LEMMA IteratesUnique ==
  ASSUME NEW base, NEW F, NEW p \in Nat, NEW q \in Nat, p <= q, NEW g, NEW f,
         Iterates(g, 0 .. p, base, F), Iterates(f, 0 .. q, base, F)
  PROVE  \A k \in 0 .. p : g[k] = f[k]
<1> DEFINE Same == {k \in Nat : k \in 0 .. p => g[k] = f[k]}
<1>1. 0 \in Same
  BY DEF Iterates
<1>2. ASSUME NEW k \in Nat, k \in Same PROVE k + 1 \in Same
  <2> SUFFICES ASSUME k + 1 \in 0 .. p PROVE g[k + 1] = f[k + 1]
    OBVIOUS
  <2>1. g[k] = f[k] /\ k + 1 \in 0 .. q /\ (k + 1) - 1 = k /\ k + 1 # 0
    BY <1>2
  <2> QED
    BY <2>1 DEF Iterates
<1>3. \A k \in Nat : k \in Same
  <2> HIDE DEF Same
  <2> QED
    BY <1>1, <1>2, Induction
<1> QED
  BY <1>3

\* There is one on every initial segment.
LEMMA IteratesSegment ==
  ASSUME NEW V, NEW base \in V, NEW F \in [V -> V]
  PROVE  \A p \in Nat : \E g \in [0 .. p -> V] : Iterates(g, 0 .. p, base, F)
<1> DEFINE Has == {p \in Nat : \E g \in [0 .. p -> V] : Iterates(g, 0 .. p, base, F)}
<1>1. 0 \in Has
  <2> DEFINE g == [k \in 0 .. 0 |-> base]
  <2>1. g \in [0 .. 0 -> V] /\ Iterates(g, 0 .. 0, base, F)
    BY DEF Iterates
  <2> QED
    BY <2>1
<1>2. ASSUME NEW p \in Nat, p \in Has PROVE p + 1 \in Has
  <2>1. PICK f \in [0 .. p -> V] : Iterates(f, 0 .. p, base, F)
    BY <1>2
  <2> DEFINE g == [k \in 0 .. p + 1 |-> IF k = p + 1 THEN F[f[p]] ELSE f[k]]
  <2>2. g \in [0 .. p + 1 -> V]
    OBVIOUS
  <2>3. ASSUME NEW k \in 0 .. p + 1 PROVE g[k] = IF k = 0 THEN base ELSE F[g[k - 1]]
    <3>1. CASE k = p + 1
      <4>1. k # 0 /\ k - 1 = p /\ p \in 0 .. p + 1 /\ p # p + 1
        BY <3>1
      <4> QED
        BY <3>1, <4>1
    <3>2. CASE k # p + 1
      <4>1. k \in 0 .. p /\ g[k] = f[k]
        BY <3>2
      <4>2. k # 0 => k - 1 \in 0 .. p + 1 /\ k - 1 # p + 1
        BY <4>1
      <4>3. k # 0 => g[k - 1] = f[k - 1]
        BY <4>2
      <4> HIDE DEF g
      <4> QED
        BY <2>1, <4>1, <4>3 DEF Iterates
    <3> QED
      BY <3>1, <3>2
  <2> HIDE DEF g
  <2>4. Iterates(g, 0 .. p + 1, base, F)
    BY <2>3 DEF Iterates
  <2> QED
    BY <2>2, <2>4
<1>3. \A p \in Nat : p \in Has
  <2> HIDE DEF Has
  <2> QED
    BY <1>1, <1>2, Induction
<1> QED
  BY <1>3

\* There is one on all numbers.
LEMMA IteratesExists ==
  ASSUME NEW V, NEW base \in V, NEW F \in [V -> V]
  PROVE  \E g \in [Nat -> V] : Iterates(g, Nat, base, F)
<1> DEFINE seg(p) == CHOOSE g \in [0 .. p -> V] : Iterates(g, 0 .. p, base, F)
           g == [p \in Nat |-> seg(p)[p]]
<1>1. \A p \in Nat : seg(p) \in [0 .. p -> V] /\ Iterates(seg(p), 0 .. p, base, F)
  BY IteratesSegment
<1> HIDE DEF seg
<1>2. g \in [Nat -> V]
  BY <1>1
<1>3. ASSUME NEW k \in Nat PROVE g[k] = IF k = 0 THEN base ELSE F[g[k - 1]]
  <2>1. k \in 0 .. k
    OBVIOUS
  <2>2. seg(k)[k] = IF k = 0 THEN base ELSE F[seg(k)[k - 1]]
    BY <1>1, <2>1 DEF Iterates
  <2>3. ASSUME k # 0 PROVE g[k - 1] = seg(k)[k - 1]
    <3>1. k - 1 \in Nat /\ k - 1 <= k /\ k - 1 \in 0 .. k - 1
      BY <2>3
    <3>2. \A j \in 0 .. k - 1 : seg(k - 1)[j] = seg(k)[j]
      BY <1>1, <3>1, IteratesUnique
    <3> QED
      BY <3>1, <3>2
  <2> QED
    BY <2>2, <2>3
<1>4. Iterates(g, Nat, base, F)
  <2> HIDE DEF g
  <2> QED
    BY <1>3 DEF Iterates
<1> QED
  BY <1>2, <1>4

-----------------------------------------------------------------------------
(* Vectors of blocks. *)

\* v has the members of S, and nothing else.
Lists(v, S) == v \in Seq(S) /\ \A x \in S : \E i \in DOMAIN v : v[i] = x

\* unique_vector lists the set it is given.
LEMMA UniqueVector ==
  ASSUME NEW S, S \subseteq Nat, IsFiniteSet(S)
  PROVE  Lists(unique_vector(S), S)
<1> DEFINE n == Cardinality(S)
           Below(x) == {y \in S : y < x}
           rank == [x \in S |-> Cardinality(Below(x)) + 1]
<1>1. n \in Nat
  BY FS_CardinalityType
<1>2. ASSUME NEW x \in S PROVE IsFiniteSet(Below(x)) /\ Cardinality(Below(x)) \in 0 .. n - 1
  <2>1. x \in Nat /\ Below(x) \subseteq S \ {x}
    <3>1. x \in Nat /\ ~(x < x)
      OBVIOUS
    <3> QED
      BY <3>1
  <2>2. IsFiniteSet(S \ {x}) /\ Cardinality(S \ {x}) = n - 1
    BY FS_RemoveElement
  <2> HIDE DEF Below, n
  <2>3. IsFiniteSet(Below(x)) /\ Cardinality(Below(x)) <= n - 1
    BY <2>1, <2>2, FS_Subset
  <2>4. Cardinality(Below(x)) \in Nat
    BY <2>3, FS_CardinalityType
  <2> QED
    BY <1>1, <2>3, <2>4
<1>3. ASSUME NEW x \in S, NEW y \in S, x < y PROVE Cardinality(Below(x)) < Cardinality(Below(y))
  <2>1. Below(x) \subseteq Below(y) /\ x \in Below(y) /\ x \notin Below(x)
    <3>1. x \in Nat /\ y \in Nat /\ \A j \in S : j \in Nat
      OBVIOUS
    <3>2. \A j \in S : j < x => j < y
      BY <1>3, <3>1
    <3>3. ~(x < x)
      BY <3>1
    <3> QED
      BY <1>3, <3>2, <3>3
  <2>2. Cardinality(Below(x)) <= Cardinality(Below(y)) /\ Cardinality(Below(x)) # Cardinality(Below(y))
    <3> HIDE DEF Below
    <3> QED
      BY <1>2, <2>1, FS_Subset
  <2> HIDE DEF Below
  <2> QED
    BY <1>1, <1>2, <2>2
<1>4. rank \in [S -> 1 .. n]
  <2> HIDE DEF Below, n
  <2>1. \A x \in S : Cardinality(Below(x)) + 1 \in 1 .. n
    BY <1>1, <1>2
  <2> QED
    BY <2>1
<1>5. ASSUME NEW x \in S, NEW y \in S, x # y PROVE rank[x] # rank[y]
  <2>1. x \in Nat /\ y \in Nat
    OBVIOUS
  <2>2. Cardinality(Below(x)) # Cardinality(Below(y))
    <3> HIDE DEF Below, n
    <3>1. x < y \/ y < x
      BY <1>5, <2>1
    <3> QED
      BY <1>1, <1>2, <1>3, <3>1
  <2> HIDE DEF Below, n
  <2> QED
    BY <1>1, <1>2, <2>2
<1> HIDE DEF rank
<1>6. rank \in Injection(S, 1 .. n)
  BY <1>4, <1>5 DEF Injection, IsInjective
<1>7. IsFiniteSet(1 .. n) /\ Cardinality(1 .. n) = n
  <2> HIDE DEF n
  <2> QED
    BY <1>1, FS_Interval
<1>8. rank \in Surjection(S, 1 .. n)
  BY <1>6, <1>7, FS_Injection
<1>9. \A i \in 1 .. n : \E x \in S : rank[x] = i
  BY <1>8 DEF Surjection
<1> DEFINE u == unique_vector(S)
<1>10. u = [i \in 1 .. n |-> CHOOSE x \in S : Cardinality(Below(x)) = i - 1]
  BY DEF unique_vector
<1> HIDE DEF u, n
<1>11. ASSUME NEW i \in 1 .. n PROVE u[i] \in S /\ rank[u[i]] = i
  <2> HIDE DEF Below
  <2>1. PICK x \in S : rank[x] = i
    BY <1>9
  <2>2. Cardinality(Below(x)) = i - 1
    BY <1>1, <1>2, <2>1 DEF rank
  <2>3. u[i] \in S /\ Cardinality(Below(u[i])) = i - 1
    BY <1>10, <2>2
  <2> QED
    BY <2>3 DEF rank
<1>12. u \in [1 .. n -> S]
  BY <1>10, <1>11
<1>13. u \in Seq(S) /\ DOMAIN u = 1 .. n
  BY <1>1, <1>12
<1>14. ASSUME NEW x \in S PROVE \E i \in DOMAIN u : u[i] = x
  BY <1>4, <1>5, <1>11, <1>13
<1> QED
  BY <1>13, <1>14 DEF u, Lists

\* sort_sources_first lists the blocks it is given.
LEMMA SourcesFirst ==
  ASSUME NEW E, NEW S, S \subseteq Nat, IsFiniteSet(S)
  PROVE  Lists(sort_sources_first(E, S), S)
<1> DEFINE A == {b \in S : source_p(E, b)}
           B == {b \in S : ~source_p(E, b)}
           u == unique_vector(A)
           v == unique_vector(B)
<1>1. A \subseteq Nat /\ B \subseteq Nat /\ A \subseteq S /\ B \subseteq S /\ A \union B = S
  OBVIOUS
<1>2. sort_sources_first(E, S) = u \o v
  BY DEF sort_sources_first
<1> HIDE DEF A, B
<1>3. IsFiniteSet(A) /\ IsFiniteSet(B)
  BY <1>1, FS_Subset
<1>4. Lists(u, A) /\ Lists(v, B)
  BY <1>1, <1>3, UniqueVector
<1> HIDE DEF u, v
<1>5. \A x \in A : \E i \in DOMAIN u : u[i] = x
  BY <1>4 DEF Lists
<1>6. \A x \in B : \E i \in DOMAIN v : v[i] = x
  BY <1>4 DEF Lists
<1>7. u \in Seq(S) /\ v \in Seq(S)
  BY <1>1, <1>4 DEF Lists
<1>8. /\ u \o v \in Seq(S) /\ DOMAIN (u \o v) = 1 .. Len(u) + Len(v)
      /\ \A i \in 1 .. Len(u) + Len(v) : (u \o v)[i] = IF i <= Len(u) THEN u[i] ELSE v[i - Len(u)]
      /\ DOMAIN u = 1 .. Len(u) /\ DOMAIN v = 1 .. Len(v) /\ Len(u) \in Nat /\ Len(v) \in Nat
  BY <1>7
<1>9. ASSUME NEW x \in S PROVE \E i \in DOMAIN (u \o v) : (u \o v)[i] = x
  <2>1. CASE x \in A
    <3>1. PICK i \in DOMAIN u : u[i] = x
      BY <1>5, <2>1
    <3>2. i \in 1 .. Len(u) + Len(v) /\ i <= Len(u)
      BY <1>8
    <3> QED
      BY <1>8, <3>1, <3>2
  <2>2. CASE x \in B
    <3>1. PICK i \in DOMAIN v : v[i] = x
      BY <1>6, <2>2
    <3>2. /\ i + Len(u) \in 1 .. Len(u) + Len(v) /\ ~(i + Len(u) <= Len(u))
          /\ (i + Len(u)) - Len(u) = i
      BY <1>8
    <3>3. (u \o v)[i + Len(u)] = x
      BY <1>8, <3>1, <3>2
    <3> QED
      BY <1>8, <3>2, <3>3
  <2> QED
    BY <1>1, <2>1, <2>2
<1> QED
  BY <1>2, <1>8, <1>9 DEF Lists

-----------------------------------------------------------------------------
(* visit_each: the loop over a vector of blocks. *)

\* A function on the numbers that starts with base and goes on with F, which
\* depends on the number too.
IteratesBy(g, D, base, F) ==
  \A k \in D : g[k] = IF k = 0 THEN base ELSE F[<<k, g[k - 1]>>]

\* There is one on every initial segment.
LEMMA IteratesByExists ==
  ASSUME NEW V, NEW base \in V, NEW F \in [Nat \X V -> V]
  PROVE  \A p \in Nat : \E g \in [0 .. p -> V] : IteratesBy(g, 0 .. p, base, F)
<1> DEFINE Has == {p \in Nat : \E g \in [0 .. p -> V] : IteratesBy(g, 0 .. p, base, F)}
<1>1. 0 \in Has
  <2> DEFINE g == [k \in 0 .. 0 |-> base]
  <2>1. g \in [0 .. 0 -> V] /\ IteratesBy(g, 0 .. 0, base, F)
    BY DEF IteratesBy
  <2> QED
    BY <2>1
<1>2. ASSUME NEW p \in Nat, p \in Has PROVE p + 1 \in Has
  <2>1. PICK f \in [0 .. p -> V] : IteratesBy(f, 0 .. p, base, F)
    BY <1>2
  <2> DEFINE last == F[<<p + 1, f[p]>>]
             g == [k \in 0 .. p + 1 |-> IF k = p + 1 THEN last ELSE f[k]]
  <2>2. last \in V
    OBVIOUS
  <2>3. g \in [0 .. p + 1 -> V]
    <3> HIDE DEF last
    <3> QED
      BY <2>2
  <2>4. ASSUME NEW k \in 0 .. p + 1 PROVE g[k] = IF k = 0 THEN base ELSE F[<<k, g[k - 1]>>]
    <3>1. CASE k = p + 1
      <4>1. k # 0 /\ k - 1 = p /\ p \in 0 .. p + 1 /\ p # p + 1
        BY <3>1
      <4>2. g[k] = last /\ g[k - 1] = f[p]
        <5> HIDE DEF last
        <5> QED
          BY <3>1, <4>1
      <4> QED
        BY <3>1, <4>1, <4>2
    <3>2. CASE k # p + 1
      <4> HIDE DEF last
      <4>1. k \in 0 .. p /\ g[k] = f[k]
        BY <3>2
      <4>2. k # 0 => k - 1 \in 0 .. p + 1 /\ k - 1 # p + 1
        BY <4>1
      <4>3. k # 0 => g[k - 1] = f[k - 1]
        BY <4>2
      <4> HIDE DEF g
      <4> QED
        BY <2>1, <4>1, <4>3 DEF IteratesBy
    <3> QED
      BY <3>1, <3>2
  <2> HIDE DEF g, last
  <2>5. IteratesBy(g, 0 .. p + 1, base, F)
    BY <2>4 DEF IteratesBy
  <2> QED
    BY <2>3, <2>5
<1>3. \A p \in Nat : p \in Has
  <2> HIDE DEF Has
  <2> QED
    BY <1>1, <1>2, Induction
<1> QED
  BY <1>3

\* What the loop does with block p.
VisitStep(visit, s, p) ==
  IF s.loop THEN s
  ELSE IF s.color[p] = "GREY" THEN [s EXCEPT !.loop = TRUE]
  ELSE IF s.color[p] = "WHITE" THEN visit[<<p, s>>]
  ELSE s

\* a is what was there before the first and after each of the blocks.
Loops(visit, st, blocks, a) ==
  /\ a \in [0 .. Len(blocks) -> Visited]
  /\ a[0] = st
  /\ \A i \in 1 .. Len(blocks) : a[i] = VisitStep(visit, a[i - 1], blocks[i])

Visits == [Blocks \X Visited -> Visited]

\* A step of the loop leaves what it found of the right type.
LEMMA VisitStepType ==
  ASSUME NEW visit \in Visits, NEW s \in Visited, NEW p \in Blocks
  PROVE  VisitStep(visit, s, p) \in Visited
<1>1. [s EXCEPT !.loop = TRUE] \in Visited
  BY DEF Visited
<1>2. visit[<<p, s>>] \in Visited
  BY DEF Visits
<1> QED
  BY <1>1, <1>2 DEF VisitStep

\* The loop of visit_each.
LEMMA VisitEachLoops ==
  ASSUME NEW visit \in Visits, NEW st \in Visited, NEW blocks \in Seq(Blocks)
  PROVE  \E a : Loops(visit, st, blocks, a) /\ visit_each(visit, st, blocks) = a[Len(blocks)]
<1> DEFINE n == Len(blocks)
           Is(a) == a = [i \in 0 .. n |-> IF i = 0 THEN st ELSE VisitStep(visit, a[i - 1], blocks[i])]
           chosen == CHOOSE a : Is(a)
           F == [x \in Nat \X Visited |->
                   IF x[1] \in 1 .. n THEN VisitStep(visit, x[2], blocks[x[1]]) ELSE x[2]]
<1>1. n \in Nat /\ \A i \in 1 .. n : blocks[i] \in Blocks
  OBVIOUS
<1> HIDE DEF n
<1>2. F \in [Nat \X Visited -> Visited]
  <2>1. ASSUME NEW x \in Nat \X Visited
        PROVE (IF x[1] \in 1 .. n THEN VisitStep(visit, x[2], blocks[x[1]]) ELSE x[2]) \in Visited
    <3>1. x[2] \in Visited
      OBVIOUS
    <3> QED
      BY <1>1, <3>1, VisitStepType
  <2> QED
    BY <2>1
<1>3. PICK g \in [0 .. n -> Visited] : IteratesBy(g, 0 .. n, st, F)
  <2> HIDE DEF F
  <2> QED
    BY <1>1, <1>2, IteratesByExists
<1>4. ASSUME NEW i \in 0 .. n
      PROVE g[i] = IF i = 0 THEN st ELSE VisitStep(visit, g[i - 1], blocks[i])
  <2>1. CASE i = 0
    BY <1>1, <1>3, <2>1 DEF IteratesBy
  <2>2. CASE i # 0
    <3>1. i \in 1 .. n /\ i - 1 \in 0 .. n /\ i \in Nat
      BY <1>1, <2>2
    <3>2. g[i - 1] \in Visited
      BY <3>1
    <3>3. <<i, g[i - 1]>> \in Nat \X Visited
      BY <3>1, <3>2
    <3>4. g[i] = F[<<i, g[i - 1]>>]
      <4> HIDE DEF F
      <4> QED
        BY <1>3, <2>2 DEF IteratesBy
    <3>5. F[<<i, g[i - 1]>>] = VisitStep(visit, g[i - 1], blocks[i])
      BY <3>1, <3>3
    <3> QED
      BY <2>2, <3>4, <3>5
  <2> QED
    BY <2>1, <2>2
<1>5. Is(g)
  BY <1>4
<1>6. Is(chosen)
  BY <1>5, Zenon
<1>7. visit_each(visit, st, blocks) = chosen[n]
  BY DEF visit_each, VisitStep, n
<1> HIDE DEF chosen
<1>8. DOMAIN chosen = 0 .. n /\ \A i \in 0 .. n : chosen[i] = IF i = 0 THEN st ELSE VisitStep(visit, chosen[i - 1], blocks[i])
  BY <1>6
<1>9. \A i \in 0 .. n : chosen[i] \in Visited
  <2> DEFINE T == {i \in Nat : i \in 0 .. n => chosen[i] \in Visited}
  <2>1. 0 \in T
    BY <1>1, <1>8
  <2>2. ASSUME NEW i \in Nat, i \in T PROVE i + 1 \in T
    <3> SUFFICES ASSUME i + 1 \in 0 .. n PROVE chosen[i + 1] \in Visited
      OBVIOUS
    <3>1. i \in 0 .. n /\ i + 1 \in 1 .. n /\ i + 1 # 0 /\ (i + 1) - 1 = i
      BY <1>1
    <3>2. chosen[i] \in Visited
      BY <2>2, <3>1
    <3>3. chosen[i + 1] = VisitStep(visit, chosen[i], blocks[i + 1])
      BY <1>8, <3>1
    <3> QED
      BY <1>1, <3>1, <3>2, <3>3, VisitStepType
  <2>3. \A i \in Nat : i \in T
    <3> HIDE DEF T
    <3> QED
      BY <2>1, <2>2, Induction
  <2> QED
    BY <2>3
<1>10. chosen = [i \in 0 .. n |-> chosen[i]]
  <2> DEFINE h == [i \in 0 .. n |-> IF i = 0 THEN st ELSE VisitStep(visit, chosen[i - 1], blocks[i])]
  <2>1. chosen = h
    BY <1>6
  <2>2. h = [i \in DOMAIN h |-> h[i]] /\ DOMAIN h = 0 .. n
    OBVIOUS
  <2> HIDE DEF h
  <2> QED
    BY <2>1, <2>2
<1>11. chosen \in [0 .. n -> Visited]
  BY <1>9, <1>10
<1>12. \A i \in 1 .. n : chosen[i] = VisitStep(visit, chosen[i - 1], blocks[i])
  BY <1>1, <1>8
<1>13. chosen[0] = st
  BY <1>1, <1>8
<1>14. Loops(visit, st, blocks, chosen)
  BY <1>11, <1>12, <1>13 DEF Loops, n
<1> QED
  BY <1>7, <1>14 DEF n

\* What a loop leaves is what was there after its last block.
LEMMA VisitEachType ==
  ASSUME NEW visit \in Visits, NEW st \in Visited, NEW blocks \in Seq(Blocks)
  PROVE  visit_each(visit, st, blocks) \in Visited
<1>1. PICK a : Loops(visit, st, blocks, a) /\ visit_each(visit, st, blocks) = a[Len(blocks)]
  BY VisitEachLoops
<1>2. Len(blocks) \in 0 .. Len(blocks)
  OBVIOUS
<1> QED
  BY <1>1, <1>2 DEF Loops

-----------------------------------------------------------------------------
(* topological_dfs_visit: the visit of a block. *)

EdgeSets == SUBSET (Endpoints \X Endpoints)

Entered(st, b) == [st EXCEPT !.color[b] = "GREY"]
Left(after, b) == [after EXCEPT !.color[b] = "BLACK", !.output = Append(@, b)]

\* A visit of b, with visit for the blocks downstream of it.
Within(E, visit, b, st) == visit_each(visit, Entered(st, b), unique_vector(calc_downstream_blocks(E, b)))
VisitOf(E, visit, b, st) ==
  IF Within(E, visit, b, st).loop THEN Within(E, visit, b, st) ELSE Left(Within(E, visit, b, st), b)

\* The blocks downstream are blocks, and unique_vector lists them.
LEMMA Downstream ==
  ASSUME NEW E \in EdgeSets, NEW b
  PROVE  /\ calc_downstream_blocks(E, b) \subseteq Blocks
         /\ Lists(unique_vector(calc_downstream_blocks(E, b)), calc_downstream_blocks(E, b))
         /\ unique_vector(calc_downstream_blocks(E, b)) \in Seq(Blocks)
<1> DEFINE S == calc_downstream_blocks(E, b)
<1>1. S \subseteq Blocks
  BY DEF EdgeSets, Endpoints, calc_downstream_blocks, Src, Dst
<1> HIDE DEF S
<1>2. S \subseteq Nat /\ IsFiniteSet(S)
  BY <1>1, BlocksAssumption, FS_Subset
<1>3. Lists(unique_vector(S), S)
  BY <1>2, UniqueVector
<1>4. unique_vector(S) \in Seq(Blocks)
  BY <1>1, <1>3 DEF Lists
<1> QED
  BY <1>1, <1>3, <1>4 DEF S

\* Entering and leaving a block keep the types.
LEMMA EnteredLeftType ==
  ASSUME NEW st \in Visited, NEW b \in Blocks
  PROVE  Entered(st, b) \in Visited /\ Left(st, b) \in Visited
<1>1. /\ st.color \in [Blocks -> {"WHITE", "GREY", "BLACK"}] /\ st.output \in Seq(Blocks)
      /\ st.loop \in BOOLEAN
      /\ st = [color |-> st.color, output |-> st.output, loop |-> st.loop]
  BY DEF Visited
<1>2. Entered(st, b) \in Visited
  BY <1>1 DEF Entered, Visited
<1>3. /\ Append(st.output, b) \in Seq(Blocks)
      /\ [st.color EXCEPT ![b] = "BLACK"] \in [Blocks -> {"WHITE", "GREY", "BLACK"}]
  BY <1>1
<1>4. ASSUME NEW c \in [Blocks -> {"WHITE", "GREY", "BLACK"}], NEW o \in Seq(Blocks)
      PROVE  [st EXCEPT !.color = c, !.output = o] \in Visited
  BY DEF Visited
<1>5. Left(st, b) \in Visited
  BY <1>3, <1>4 DEF Left
<1> QED
  BY <1>2, <1>5

\* A visit keeps the types if the visits inside it do.
LEMMA VisitOfType ==
  ASSUME NEW E \in EdgeSets, NEW visit \in Visits, NEW b \in Blocks, NEW st \in Visited
  PROVE  Within(E, visit, b, st) \in Visited /\ VisitOf(E, visit, b, st) \in Visited
<1>1. Within(E, visit, b, st) \in Visited
  BY EnteredLeftType, VisitEachType, Downstream DEF Within
<1> QED
  BY <1>1, EnteredLeftType DEF VisitOf

\* The visits, by how deep they may nest.
Nests(E, d) ==
  /\ d \in [Nat -> Visits]
  /\ \A k \in Nat : \A b \in Blocks, st \in Visited :
        d[k + 1][<<b, st>>] = VisitOf(E, d[k], b, st)

\* The recursion of topological_dfs_visit is well defined, to every depth.
LEMMA VisitNests ==
  ASSUME NEW E \in EdgeSets
  PROVE  \E d : Nests(E, d) /\ topological_dfs_visit(E) = d[Cardinality(Blocks)]
<1> DEFINE P == Blocks \X Visited
           Is(d) == d = [k \in Nat |-> [x \in P |-> IF k = 0 THEN x[2] ELSE VisitOf(E, d[k - 1], x[1], x[2])]]
           chosen == CHOOSE d : Is(d)
           base == [x \in P |-> x[2]]
           Next1(f) == [x \in P |-> VisitOf(E, f, x[1], x[2])]
           F == [f \in Visits |-> Next1(f)]
<1>1. base \in Visits
  BY DEF Visits
<1>2. \A f \in Visits : Next1(f) \in Visits
  <2>1. ASSUME NEW f \in Visits, NEW x \in P PROVE VisitOf(E, f, x[1], x[2]) \in Visited
    BY VisitOfType
  <2> QED
    BY <2>1 DEF Visits
<1>3. F \in [Visits -> Visits]
  <2> HIDE DEF Next1
  <2> QED
    BY <1>2
<1>4. PICK g \in [Nat -> Visits] : Iterates(g, Nat, base, F)
  <2> HIDE DEF base, F
  <2> QED
    BY <1>1, <1>3, IteratesExists
<1> DEFINE Row(d, k) == [x \in P |-> IF k = 0 THEN x[2] ELSE VisitOf(E, d[k - 1], x[1], x[2])]
<1>5. ASSUME NEW k \in Nat PROVE g[k] = Row(g, k)
  <2>1. CASE k = 0
    <3>1. g[k] = base
      <4> HIDE DEF base, F
      <4> QED
        BY <1>4, <2>1 DEF Iterates
    <3> QED
      BY <2>1, <3>1
  <2>2. CASE k # 0
    <3>1. k - 1 \in Nat
      BY <2>2
    <3>2. g[k] = F[g[k - 1]]
      <4> HIDE DEF base, F
      <4> QED
        BY <1>4, <2>2 DEF Iterates
    <3>3. g[k] = Next1(g[k - 1])
      <4> HIDE DEF Next1
      <4> QED
        BY <3>1, <3>2
    <3> QED
      BY <2>2, <3>3
  <2> QED
    BY <2>1, <2>2
<1>6. Is(g)
  <2>1. g = [k \in Nat |-> g[k]]
    OBVIOUS
  <2>2. g = [k \in Nat |-> Row(g, k)]
    <3> HIDE DEF Row
    <3> QED
      BY <1>5, <2>1
  <2> QED
    BY <2>2
<1>7. Is(chosen)
  BY <1>6, Zenon
<1>8. topological_dfs_visit(E) = chosen[Cardinality(Blocks)]
  BY DEF topological_dfs_visit, VisitOf, Within, Entered, Left
<1> HIDE DEF chosen
<1>9. chosen = [k \in Nat |-> Row(chosen, k)]
  BY <1>7
<1>10. \A k \in Nat : chosen[k] = Row(chosen, k)
  <2> HIDE DEF Row
  <2> QED
    BY <1>9
<1>11. \A k \in Nat : chosen[k] \in Visits
  <2> DEFINE T == {k \in Nat : chosen[k] \in Visits}
  <2>1. 0 \in T
    <3>1. chosen[0] = base
      <4>1. Row(chosen, 0) = base
        OBVIOUS
      <4> HIDE DEF Row, base
      <4> QED
        BY <1>10, <4>1
    <3> QED
      BY <1>1, <3>1
  <2>2. ASSUME NEW k \in Nat, k \in T PROVE k + 1 \in T
    <3>1. k + 1 \in Nat /\ k + 1 # 0 /\ (k + 1) - 1 = k
      OBVIOUS
    <3>2. chosen[k + 1] = Next1(chosen[k])
      <4>1. chosen[k + 1] = Row(chosen, k + 1)
        <5> HIDE DEF Row
        <5> QED
          BY <1>10, <3>1
      <4> QED
        BY <3>1, <4>1
    <3> HIDE DEF Next1
    <3> QED
      BY <1>2, <2>2, <3>1, <3>2
  <2>3. \A k \in Nat : k \in T
    <3> HIDE DEF T
    <3> QED
      BY <2>1, <2>2, Induction
  <2> QED
    BY <2>3
<1>12. chosen \in [Nat -> Visits]
  <2> HIDE DEF Row
  <2>1. chosen = [k \in Nat |-> chosen[k]]
    BY <1>9, <1>10
  <2> QED
    BY <1>11, <2>1
<1>13. ASSUME NEW k \in Nat, NEW b \in Blocks, NEW st \in Visited
       PROVE  chosen[k + 1][<<b, st>>] = VisitOf(E, chosen[k], b, st)
  <2>1. k + 1 \in Nat /\ k + 1 # 0 /\ (k + 1) - 1 = k
    OBVIOUS
  <2>2. chosen[k + 1] = Row(chosen, k + 1)
    <3> HIDE DEF Row
    <3> QED
      BY <1>10, <2>1
  <2>3. <<b, st>> \in P
    OBVIOUS
  <2> QED
    BY <2>1, <2>2, <2>3
<1>14. Nests(E, chosen)
  BY <1>12, <1>13 DEF Nests
<1> QED
  BY <1>8, <1>14

\* What entering and leaving change.
LEMMA EnteredLeftFields ==
  ASSUME NEW st \in Visited, NEW b \in Blocks
  PROVE  /\ Entered(st, b).output = st.output /\ Entered(st, b).loop = st.loop
         /\ Entered(st, b).color = [st.color EXCEPT ![b] = "GREY"]
         /\ Left(st, b).output = Append(st.output, b) /\ Left(st, b).loop = st.loop
         /\ Left(st, b).color = [st.color EXCEPT ![b] = "BLACK"]
BY DEF Visited, Entered, Left

-----------------------------------------------------------------------------
(* What a visit achieves.  S is a set of blocks that holds everything      *)
(* downstream of its members.                                              *)

\* The black blocks are the ones that were put out, once each, and after all
\* that is downstream of them.
Sorted(E, S, st) ==
  /\ st \in Visited /\ st.loop = FALSE
  /\ \A i \in DOMAIN st.output : st.output[i] \in S /\ st.color[st.output[i]] = "BLACK"
  /\ \A b \in Blocks : st.color[b] = "BLACK" => \E i \in DOMAIN st.output : st.output[i] = b
  /\ \A i, j \in DOMAIN st.output : st.output[i] = st.output[j] => i = j
  /\ \A i \in DOMAIN st.output : \A c \in calc_downstream_blocks(E, st.output[i]) :
       \E j \in DOMAIN st.output : j < i /\ st.output[j] = c

\* Black blocks stay black, and the grey ones are the same.
Keeps(st, s) ==
  \A c \in Blocks : /\ st.color[c] = "BLACK" => s.color[c] = "BLACK"
                    /\ st.color[c] = "GREY" <=> s.color[c] = "GREY"

Whites(st) == {c \in Blocks : st.color[c] = "WHITE"}

\* ord numbers the blocks in the direction of the edges.
Rises(E, ord) == ord \in [Blocks -> Nat] /\ \A e \in E : ord[Src(e)[1]] < ord[Dst(e)[1]]
GreysBelow(st, ord, b) == \A c \in Blocks : st.color[c] = "GREY" => ord[c] < ord[b]

\* s is what a visit of b makes of st.
Finishes(E, S, b, st, s) ==
  /\ s.loop = FALSE => Sorted(E, S, s) /\ Keeps(st, s) /\ s.color[b] = "BLACK"
  /\ \A ord : Rises(E, ord) /\ GreysBelow(st, ord, b) => s.loop = FALSE

Serves(E, S, k, visit) ==
  \A b \in S, st \in Visited :
    Sorted(E, S, st) /\ st.color[b] = "WHITE" /\ Cardinality(Whites(st)) <= k
      => Finishes(E, S, b, st, visit[<<b, st>>])

\* The same, for the loop over a vector.
FinishesEach(E, S, blocks, st, s) ==
  /\ s.loop = FALSE => /\ Sorted(E, S, s) /\ Keeps(st, s)
                       /\ \A i \in 1 .. Len(blocks) : s.color[blocks[i]] = "BLACK"
  /\ \A ord : Rises(E, ord) /\ (\A i \in 1 .. Len(blocks) : GreysBelow(st, ord, blocks[i]))
       => s.loop = FALSE

\* A visit makes no block white again.
LEMMA FewerWhites ==
  ASSUME NEW st \in Visited, NEW s \in Visited, Keeps(st, s), NEW k \in Nat, Cardinality(Whites(st)) <= k
  PROVE  Cardinality(Whites(s)) <= k
<1>1. Whites(s) \subseteq Whites(st)
  BY DEF Whites, Keeps, Visited
<1>2. IsFiniteSet(Whites(st))
  BY BlocksAssumption, FS_Subset DEF Whites
<1>3. Cardinality(Whites(s)) <= Cardinality(Whites(st)) /\ IsFiniteSet(Whites(s))
  BY <1>1, <1>2, FS_Subset
<1> QED
  BY <1>2, <1>3, FS_CardinalityType

\* A loop over blocks of S finishes them all.
LEMMA LoopFinishes ==
  ASSUME NEW E \in EdgeSets, NEW S \in SUBSET Blocks, NEW k \in Nat, NEW visit \in Visits, Serves(E, S, k, visit),
         NEW st \in Visited, Sorted(E, S, st), Cardinality(Whites(st)) <= k,
         NEW blocks \in Seq(S)
  PROVE  FinishesEach(E, S, blocks, st, visit_each(visit, st, blocks))
<1> DEFINE n == Len(blocks)
<1>1. n \in Nat /\ blocks \in Seq(Blocks) /\ \A i \in 1 .. n : blocks[i] \in S /\ blocks[i] \in Blocks
  OBVIOUS
<1>2. PICK a : Loops(visit, st, blocks, a) /\ visit_each(visit, st, blocks) = a[n]
  BY <1>1, VisitEachLoops
<1>3. /\ \A i \in 0 .. n : a[i] \in Visited
      /\ a[0] = st
      /\ \A i \in 1 .. n : a[i] = VisitStep(visit, a[i - 1], blocks[i])
  BY <1>2 DEF Loops
<1> HIDE DEF n
<1> DEFINE First(i) == /\ a[i].loop = FALSE => /\ Sorted(E, S, a[i]) /\ Keeps(st, a[i])
                                               /\ \A j \in 1 .. i : a[i].color[blocks[j]] = "BLACK"
                       /\ \A ord : Rises(E, ord) /\ (\A j \in 1 .. n : GreysBelow(st, ord, blocks[j]))
                            => a[i].loop = FALSE
           T == {i \in Nat : i \in 0 .. n => First(i)}
<1>4. First(0)
  <2>1. Keeps(st, st)
    BY DEF Keeps
  <2>2. st.loop = FALSE
    BY DEF Sorted
  <2>3. 1 .. 0 = {}
    OBVIOUS
  <2> QED
    BY <1>3, <2>1, <2>2, <2>3
<1>5. ASSUME NEW i \in Nat, i + 1 \in 0 .. n, First(i) PROVE First(i + 1)
  <2> DEFINE s == a[i]
             p == blocks[i + 1]
             t == a[i + 1]
  <2>1. /\ i \in 0 .. n /\ i + 1 \in 1 .. n /\ (i + 1) - 1 = i
        /\ \A j \in 1 .. i + 1 : j \in 1 .. i \/ j = i + 1
    BY <1>1, <1>5
  <2>2. s \in Visited /\ t \in Visited /\ p \in S /\ p \in Blocks /\ t = VisitStep(visit, s, p)
    BY <1>1, <1>3, <2>1
  <2>3. s.color[p] \in {"WHITE", "GREY", "BLACK"} /\ s.loop \in BOOLEAN
    BY <2>2 DEF Visited
  <2>4. s.loop = FALSE => Sorted(E, S, s) /\ Keeps(st, s) /\ \A j \in 1 .. i : s.color[blocks[j]] = "BLACK"
    BY <1>5
  <2>5. ASSUME NEW ord, Rises(E, ord), \A j \in 1 .. n : GreysBelow(st, ord, blocks[j])
        PROVE  s.loop = FALSE /\ GreysBelow(s, ord, p) /\ ord \in [Blocks -> Nat]
    <3>1. s.loop = FALSE
      BY <1>5, <2>5
    <3>2. Keeps(st, s)
      BY <2>4, <3>1
    <3>3. GreysBelow(st, ord, p)
      BY <2>1, <2>5
    <3> HIDE DEF s, p
    <3> QED
      BY <2>5, <3>1, <3>2, <3>3 DEF Keeps, GreysBelow, Rises
  <2> SUFFICES /\ t.loop = FALSE => /\ Sorted(E, S, t) /\ Keeps(st, t)
                                    /\ \A j \in 1 .. i + 1 : t.color[blocks[j]] = "BLACK"
               /\ \A ord : Rises(E, ord) /\ (\A j \in 1 .. n : GreysBelow(st, ord, blocks[j]))
                    => t.loop = FALSE
    OBVIOUS
  <2>6. CASE s.loop = TRUE
    <3>1. t = s
      BY <2>2, <2>6 DEF VisitStep
    <3> HIDE DEF s, t, p
    <3> QED
      BY <2>5, <2>6, <3>1
  <2>7. CASE s.loop = FALSE /\ s.color[p] = "GREY"
    <3>1. t.loop = TRUE
      <4> HIDE DEF s, t, p
      <4> QED
        BY <2>2, <2>7 DEF VisitStep, Visited
    <3>2. ASSUME NEW ord, Rises(E, ord), \A j \in 1 .. n : GreysBelow(st, ord, blocks[j]) PROVE FALSE
      <4>1. GreysBelow(s, ord, p) /\ ord \in [Blocks -> Nat]
        BY <2>5, <3>2
      <4>2. ord[p] < ord[p] /\ ord[p] \in Nat
        <5> HIDE DEF s, t, p
        <5> QED
          BY <2>2, <2>7, <4>1 DEF GreysBelow
      <4> HIDE DEF p
      <4> QED
        BY <4>2
    <3> HIDE DEF s, t, p
    <3> QED
      BY <3>1, <3>2
  <2>8. CASE s.loop = FALSE /\ s.color[p] = "WHITE"
    <3>1. t = visit[<<p, s>>]
      <4> HIDE DEF s, t, p
      <4> QED
        BY <2>2, <2>8 DEF VisitStep
    <3>2. Sorted(E, S, s) /\ Keeps(st, s) /\ \A j \in 1 .. i : s.color[blocks[j]] = "BLACK"
      BY <2>4, <2>8
    <3> HIDE DEF s, t, p
    <3>3. Cardinality(Whites(s)) <= k
      BY <2>2, <3>2, FewerWhites
    <3>4. Finishes(E, S, p, s, t)
      BY <2>2, <2>8, <3>1, <3>2, <3>3 DEF Serves
    <3>5. t.loop = FALSE => Sorted(E, S, t) /\ Keeps(s, t) /\ t.color[p] = "BLACK"
      BY <3>4 DEF Finishes
    <3>6. Keeps(s, t) => Keeps(st, t)
      BY <3>2 DEF Keeps
    <3>7. ASSUME t.loop = FALSE, NEW j \in 1 .. i + 1 PROVE t.color[blocks[j]] = "BLACK"
      <4>1. CASE j \in 1 .. i
        <5>1. blocks[j] \in Blocks
          BY <1>1, <2>1, <4>1
        <5>2. s.color[blocks[j]] = "BLACK" /\ Keeps(s, t)
          BY <3>2, <3>5, <3>7, <4>1
        <5> QED
          BY <5>1, <5>2 DEF Keeps
      <4>2. CASE j = i + 1
        BY <3>5, <3>7, <4>2 DEF p
      <4> QED
        BY <2>1, <4>1, <4>2
    <3>8. ASSUME NEW ord, Rises(E, ord), \A j \in 1 .. n : GreysBelow(st, ord, blocks[j]) PROVE t.loop = FALSE
      <4>1. GreysBelow(s, ord, p)
        BY <2>5, <3>8
      <4> QED
        BY <3>4, <3>8, <4>1 DEF Finishes
    <3> QED
      BY <3>5, <3>6, <3>7, <3>8
  <2>9. CASE s.loop = FALSE /\ s.color[p] = "BLACK"
    <3>1. t = s
      <4> HIDE DEF s, t, p
      <4> QED
        BY <2>2, <2>9 DEF VisitStep
    <3>2. Sorted(E, S, s) /\ Keeps(st, s) /\ \A j \in 1 .. i : s.color[blocks[j]] = "BLACK"
      BY <2>4, <2>9
    <3>3. ASSUME NEW j \in 1 .. i + 1 PROVE t.color[blocks[j]] = "BLACK"
      BY <2>1, <2>9, <3>1, <3>2
    <3> HIDE DEF s, t, p
    <3> QED
      BY <2>9, <3>1, <3>2, <3>3
  <2> HIDE DEF s, t, p
  <2> QED
    BY <2>3, <2>6, <2>7, <2>8, <2>9
<1>6. 0 \in T /\ \A i \in Nat : i \in T => i + 1 \in T
  <2>1. ASSUME NEW i \in Nat, i + 1 \in 0 .. n PROVE i \in 0 .. n
    BY <1>1, <2>1
  <2> HIDE DEF First
  <2> QED
    BY <1>4, <1>5, <2>1
<1>7. \A i \in Nat : i \in T
  <2> HIDE DEF T
  <2> QED
    BY <1>6, Induction
<1>8. First(n)
  <2>1. n \in 0 .. n
    BY <1>1
  <2> HIDE DEF First
  <2> QED
    BY <1>1, <1>7, <2>1
<1> QED
  BY <1>2, <1>8 DEF FinishesEach, n

\* A visit with room for one block more.
LEMMA VisitServes ==
  ASSUME NEW E \in EdgeSets, NEW S \in SUBSET Blocks, \A b \in S : calc_downstream_blocks(E, b) \subseteq S,
         NEW k \in Nat, NEW visit \in Visits, Serves(E, S, k, visit),
         NEW b \in S, NEW st \in Visited, Sorted(E, S, st), st.color[b] = "WHITE",
         Cardinality(Whites(st)) <= k + 1
  PROVE  Finishes(E, S, b, st, VisitOf(E, visit, b, st))
<1> DEFINE blocks == unique_vector(calc_downstream_blocks(E, b))
           in == Entered(st, b)
           after == Within(E, visit, b, st)
           s == VisitOf(E, visit, b, st)
<1>1. b \in Blocks
  OBVIOUS
<1>2. /\ in.output = st.output /\ in.loop = st.loop /\ in.color = [st.color EXCEPT ![b] = "GREY"]
      /\ in \in Visited
  BY <1>1, EnteredLeftFields, EnteredLeftType
<1>3. st.color \in [Blocks -> {"WHITE", "GREY", "BLACK"}] /\ st.output \in Seq(Blocks)
  BY DEF Visited
<1> HIDE DEF in
<1>4. in.color[b] = "GREY" /\ \A c \in Blocks : c # b => in.color[c] = st.color[c]
  BY <1>1, <1>2, <1>3
<1>5. Sorted(E, S, in)
  <2>1. \A i \in DOMAIN st.output : st.output[i] \in Blocks /\ st.output[i] # b
    BY DEF Sorted
  <2>2. in.loop = FALSE
    BY <1>2 DEF Sorted
  <2>3. \A i \in DOMAIN in.output : in.output[i] \in S /\ in.color[in.output[i]] = "BLACK"
    BY <1>2, <1>4, <2>1 DEF Sorted
  <2>4. \A c \in Blocks : in.color[c] = "BLACK" => \E i \in DOMAIN in.output : in.output[i] = c
    BY <1>2, <1>4 DEF Sorted
  <2> QED
    BY <1>2, <2>2, <2>3, <2>4 DEF Sorted
<1>6. Cardinality(Whites(in)) <= k
  <2>1. Whites(in) = Whites(st) \ {b} /\ b \in Whites(st)
    BY <1>1, <1>4 DEF Whites
  <2>2. IsFiniteSet(Whites(st))
    BY BlocksAssumption, FS_Subset DEF Whites
  <2>3. Cardinality(Whites(in)) = Cardinality(Whites(st)) - 1
    <3>1. ASSUME NEW W, IsFiniteSet(W), b \in W PROVE Cardinality(W \ {b}) = Cardinality(W) - 1
      BY <3>1, FS_RemoveElement
    <3> QED
      BY <2>1, <2>2, <3>1
  <2>4. Cardinality(Whites(st)) \in Nat
    BY <2>2, FS_CardinalityType
  <2> QED
    BY <2>3, <2>4
<1>7. /\ blocks \in Seq(S) /\ \A i \in 1 .. Len(blocks) : blocks[i] \in calc_downstream_blocks(E, b)
      /\ \A x \in calc_downstream_blocks(E, b) : \E i \in 1 .. Len(blocks) : blocks[i] = x
  <2>1. calc_downstream_blocks(E, b) \subseteq S
    OBVIOUS
  <2>2. Lists(blocks, calc_downstream_blocks(E, b))
    BY Downstream
  <2> HIDE DEF blocks
  <2>3. DOMAIN blocks = 1 .. Len(blocks)
    BY <2>2 DEF Lists
  <2> QED
    BY <2>1, <2>2, <2>3 DEF Lists
<1>8. after = visit_each(visit, in, blocks)
  BY DEF Within, in
<1>9. FinishesEach(E, S, blocks, in, after)
  <2> HIDE DEF blocks, after
  <2> QED
    BY <1>2, <1>5, <1>6, <1>7, <1>8, LoopFinishes
<1>10. after \in Visited
  BY <1>1, VisitOfType
<1>11. s = IF after.loop THEN after ELSE Left(after, b)
  BY DEF VisitOf
<1> HIDE DEF after, s, blocks
<1>12. after.loop \in BOOLEAN /\ after.output \in Seq(Blocks) /\ after.color \in [Blocks -> {"WHITE", "GREY", "BLACK"}]
  BY <1>10 DEF Visited
<1>13. ASSUME after.loop = FALSE
       PROVE  s.loop = FALSE /\ Sorted(E, S, s) /\ Keeps(st, s) /\ s.color[b] = "BLACK"
  <2>1. Sorted(E, S, after) /\ Keeps(in, after) /\ \A i \in 1 .. Len(blocks) : after.color[blocks[i]] = "BLACK"
    BY <1>9, <1>13 DEF FinishesEach
  <2>2. s = Left(after, b)
    BY <1>11, <1>13
  <2>3. /\ s.output = Append(after.output, b) /\ s.loop = FALSE
        /\ s.color = [after.color EXCEPT ![b] = "BLACK"] /\ s \in Visited
    BY <1>1, <1>10, <1>13, <2>2, EnteredLeftFields, EnteredLeftType
  <2>4. s.color[b] = "BLACK" /\ \A c \in Blocks : c # b => s.color[c] = after.color[c]
    BY <1>1, <1>12, <2>3
  <2>5. Keeps(st, s)
    BY <1>4, <2>1, <2>4 DEF Keeps
  <2> DEFINE m == Len(after.output)
  <2>6. /\ m \in Nat /\ DOMAIN after.output = 1 .. m /\ DOMAIN s.output = 1 .. m + 1
        /\ s.output[m + 1] = b /\ \A i \in 1 .. m : s.output[i] = after.output[i]
    BY <1>1, <1>12, <2>3
  <2> HIDE DEF m
  <2>7. \A i \in 1 .. m + 1 : i \in 1 .. m \/ i = m + 1
    BY <2>6
  <2>8. \A i \in 1 .. m : i \in 1 .. m + 1 /\ i < m + 1
    BY <2>6
  <2>9. after.color[b] = "GREY"
    BY <1>1, <1>4, <2>1 DEF Keeps
  <2>10. \A i \in 1 .. m : after.output[i] \in S /\ after.output[i] # b /\ after.color[after.output[i]] = "BLACK"
    BY <2>1, <2>6, <2>9 DEF Sorted
  <2>11. \A i \in DOMAIN s.output : s.output[i] \in S /\ s.color[s.output[i]] = "BLACK"
    <3>1. ASSUME NEW i \in 1 .. m PROVE s.output[i] \in S /\ s.color[s.output[i]] = "BLACK"
      BY <2>4, <2>6, <2>10
    <3>2. s.output[m + 1] \in S /\ s.color[s.output[m + 1]] = "BLACK"
      BY <2>4, <2>6
    <3> QED
      BY <2>6, <2>7, <3>1, <3>2
  <2>12. ASSUME NEW c \in Blocks, s.color[c] = "BLACK" PROVE \E i \in DOMAIN s.output : s.output[i] = c
    <3>1. CASE c = b
      <4>1. m + 1 \in DOMAIN s.output
        BY <2>6
      <4> QED
        BY <2>6, <3>1, <4>1
    <3>2. CASE c # b
      <4>1. after.color[c] = "BLACK"
        BY <2>4, <2>12, <3>2
      <4>2. PICK i \in 1 .. m : after.output[i] = c
        BY <2>1, <2>6, <4>1 DEF Sorted
      <4> QED
        BY <2>6, <2>8, <4>2
    <3> QED
      BY <3>1, <3>2
  <2>13. ASSUME NEW i \in DOMAIN s.output, NEW j \in DOMAIN s.output, s.output[i] = s.output[j] PROVE i = j
    <3>1. CASE i \in 1 .. m /\ j \in 1 .. m
      BY <2>1, <2>6, <2>13, <3>1 DEF Sorted
    <3>2. CASE i = m + 1 /\ j \in 1 .. m
      BY <2>6, <2>10, <2>13, <3>2
    <3>3. CASE i \in 1 .. m /\ j = m + 1
      BY <2>6, <2>10, <2>13, <3>3
    <3> QED
      BY <2>6, <2>7, <3>1, <3>2, <3>3
  <2>14. ASSUME NEW i \in DOMAIN s.output, NEW c \in calc_downstream_blocks(E, s.output[i])
         PROVE  \E j \in DOMAIN s.output : j < i /\ s.output[j] = c
    <3>1. CASE i \in 1 .. m
      <4>1. i \in DOMAIN after.output /\ c \in calc_downstream_blocks(E, after.output[i])
        BY <2>6, <2>14, <3>1
      <4>2. \A x \in DOMAIN after.output : \A y \in calc_downstream_blocks(E, after.output[x]) :
              \E j \in DOMAIN after.output : j < x /\ after.output[j] = y
        BY <2>1, Zenon DEF Sorted
      <4>3. PICK j \in DOMAIN after.output : j < i /\ after.output[j] = c
        BY <4>1, <4>2
      <4> QED
        BY <2>6, <2>8, <4>3
    <3>2. CASE i = m + 1
      <4>1. c \in calc_downstream_blocks(E, b)
        BY <2>6, <3>2
      <4>2. after.color[c] = "BLACK" /\ c \in Blocks
        BY <1>7, <2>1, <4>1
      <4>3. PICK j \in 1 .. m : after.output[j] = c
        BY <2>1, <2>6, <4>2 DEF Sorted
      <4> QED
        BY <2>6, <2>8, <3>2, <4>3
    <3> QED
      BY <2>6, <2>7, <3>1, <3>2
  <2>15. Sorted(E, S, s)
    BY <2>3, <2>11, <2>12, <2>13, <2>14 DEF Sorted
  <2> QED
    BY <2>3, <2>4, <2>5, <2>15
<1>14. after.loop # FALSE => s.loop # FALSE
  BY <1>11, <1>12
<1>15. ASSUME NEW ord, Rises(E, ord), GreysBelow(st, ord, b) PROVE s.loop = FALSE
  <2>1. ASSUME NEW i \in 1 .. Len(blocks) PROVE GreysBelow(in, ord, blocks[i])
    <3>1. blocks[i] \in calc_downstream_blocks(E, b) /\ blocks[i] \in Blocks
      BY <1>7
    <3>2. ord[b] < ord[blocks[i]]
      BY <1>15, <3>1 DEF Rises, calc_downstream_blocks
    <3>3. ASSUME NEW c \in Blocks, in.color[c] = "GREY" PROVE ord[c] <= ord[b]
      <4>1. ord[c] \in Nat /\ ord[b] \in Nat
        BY <1>1, <1>15 DEF Rises
      <4>2. c # b => ord[c] < ord[b]
        BY <1>4, <1>15, <3>3 DEF GreysBelow
      <4> QED
        BY <4>1, <4>2
    <3>4. ord[b] \in Nat /\ ord[blocks[i]] \in Nat /\ \A c \in Blocks : ord[c] \in Nat
      BY <1>1, <1>15, <3>1 DEF Rises
    <3> QED
      BY <3>2, <3>3, <3>4 DEF GreysBelow
  <2>2. after.loop = FALSE
    BY <1>9, <1>15, <2>1 DEF FinishesEach
  <2> QED
    BY <1>13, <2>2
<1>16. Finishes(E, S, b, st, s)
  BY <1>12, <1>13, <1>14, <1>15 DEF Finishes
<1> QED
  BY <1>16 DEF s

\* Visits may nest as deep as there are blocks to enter.
LEMMA NestsServe ==
  ASSUME NEW E \in EdgeSets, NEW S \in SUBSET Blocks, \A b \in S : calc_downstream_blocks(E, b) \subseteq S,
         NEW d, Nests(E, d)
  PROVE  \A k \in Nat : Serves(E, S, k, d[k])
<1> DEFINE T == {k \in Nat : Serves(E, S, k, d[k])}
<1>1. 0 \in T
  <2>1. ASSUME NEW b \in S, NEW st \in Visited, st.color[b] = "WHITE", Cardinality(Whites(st)) <= 0 PROVE FALSE
    <3>1. IsFiniteSet(Whites(st)) /\ b \in Whites(st)
      BY <2>1, BlocksAssumption, FS_Subset DEF Whites
    <3>2. Cardinality(Whites(st)) \in Nat /\ Cardinality(Whites(st)) # 0
      BY <3>1, FS_CardinalityType, FS_EmptySet
    <3> QED
      BY <2>1, <3>2
  <2> QED
    BY <2>1 DEF Serves
<1>2. ASSUME NEW k \in Nat, k \in T PROVE k + 1 \in T
  <2>1. Serves(E, S, k, d[k]) /\ d[k] \in Visits
    BY <1>2 DEF Nests
  <2>2. ASSUME NEW b \in S, NEW st \in Visited, Sorted(E, S, st), st.color[b] = "WHITE",
               Cardinality(Whites(st)) <= k + 1
        PROVE  Finishes(E, S, b, st, d[k + 1][<<b, st>>])
    <3>1. d[k + 1][<<b, st>>] = VisitOf(E, d[k], b, st)
      BY DEF Nests
    <3>2. Finishes(E, S, b, st, VisitOf(E, d[k], b, st))
      BY <2>1, <2>2, VisitServes
    <3> QED
      BY <3>1, <3>2
  <2> QED
    BY <2>2 DEF Serves
<1> HIDE DEF T
<1>3. \A k \in Nat : k \in T
  BY <1>1, <1>2, Induction
<1> QED
  BY <1>3 DEF T

-----------------------------------------------------------------------------
(* topological_sort. *)

\* What the sort of blocks that nothing leads out of returns.
LEMMA SortOutcome ==
  ASSUME NEW E \in EdgeSets, NEW S \in SUBSET Blocks, \A b \in S : calc_downstream_blocks(E, b) \subseteq S
  PROVE  /\ topological_sort(E, S) # <<>> => Ordered(E, S, topological_sort(E, S))
         /\ S # {} /\ (\E ord : Rises(E, ord)) => topological_sort(E, S) # <<>>
<1> DEFINE none == Unvisited
           blocks == sort_sources_first(E, S)
           visit == topological_dfs_visit(E)
           st == visit_each(visit, none, blocks)
           N == Cardinality(Blocks)
<1>1. N \in Nat
  BY BlocksAssumption, FS_CardinalityType
<1>2. visit \in Visits /\ Serves(E, S, N, visit)
  <2>1. PICK d : Nests(E, d) /\ visit = d[N]
    BY VisitNests
  <2> HIDE DEF N, visit
  <2>2. visit \in Visits
    BY <1>1, <2>1 DEF Nests
  <2>3. Serves(E, S, N, d[N])
    BY <1>1, <2>1, NestsServe
  <2> QED
    BY <2>1, <2>2, <2>3
<1>3. none \in Visited /\ \A b \in Blocks : none.color[b] = "WHITE"
  BY DEF Visited, Unvisited
<1>4. Sorted(E, S, none)
  <2>1. DOMAIN none.output = {} /\ none.loop = FALSE
    BY DEF Unvisited
  <2> HIDE DEF none
  <2> QED
    BY <1>3, <2>1 DEF Sorted
<1>5. Cardinality(Whites(none)) <= N
  <2> HIDE DEF none
  <2>1. Whites(none) = Blocks
    BY <1>3 DEF Whites
  <2> QED
    BY <1>1, <2>1
<1>6. S \subseteq Nat /\ IsFiniteSet(S)
  BY BlocksAssumption, FS_Subset
<1>7. blocks \in Seq(S) /\ \A x \in S : \E i \in DOMAIN blocks : blocks[i] = x
  <2>1. Lists(blocks, S)
    BY <1>6, SourcesFirst
  <2> HIDE DEF blocks
  <2> QED
    BY <2>1 DEF Lists
<1> HIDE DEF none, blocks, visit, N
<1>8. FinishesEach(E, S, blocks, none, st)
  BY <1>1, <1>2, <1>3, <1>4, <1>5, <1>7, LoopFinishes
<1>9. topological_sort(E, S) = IF st.loop THEN <<>> ELSE Reverse(st.output)
  BY DEF topological_sort, none, blocks, visit
<1>10. blocks \in Seq(Blocks)
  BY <1>7
<1>11. st \in Visited
  BY <1>2, <1>3, <1>10, VisitEachType
<1> HIDE DEF st
<1>12. st.loop \in BOOLEAN /\ st.output \in Seq(Blocks)
  BY <1>11 DEF Visited
<1> DEFINE order == topological_sort(E, S)
           o == st.output
           m == Len(o)
<1>13. ASSUME st.loop = FALSE PROVE Ordered(E, S, order) /\ (S # {} => order # <<>>)
  <2>1. Sorted(E, S, st) /\ \A i \in 1 .. Len(blocks) : st.color[blocks[i]] = "BLACK"
    BY <1>8, <1>13 DEF FinishesEach
  <2>2. m \in Nat /\ DOMAIN o = 1 .. m
    BY <1>12
  <2>3. /\ \A i \in DOMAIN o : o[i] \in S
        /\ \A b \in Blocks : st.color[b] = "BLACK" => \E i \in DOMAIN o : o[i] = b
        /\ \A i, j \in DOMAIN o : o[i] = o[j] => i = j
        /\ \A i \in DOMAIN o : \A c \in calc_downstream_blocks(E, o[i]) : \E j \in DOMAIN o : j < i /\ o[j] = c
    BY <2>1, Zenon DEF Sorted
  <2>4. order = [i \in 1 .. m |-> o[(m - i) + 1]]
    BY <1>9, <1>13 DEF Reverse
  <2> HIDE DEF order, m, o
  <2>5. DOMAIN order = 1 .. m /\ \A i \in 1 .. m : (m - i) + 1 \in 1 .. m /\ order[i] = o[(m - i) + 1]
    BY <2>2, <2>4
  <2>6. \A x \in S : \E k \in 1 .. m : o[k] = x
    <3>1. ASSUME NEW x \in S PROVE st.color[x] = "BLACK"
      <4>1. PICK i \in DOMAIN blocks : blocks[i] = x
        BY <1>7
      <4>2. i \in 1 .. Len(blocks)
        BY <1>7
      <4> QED
        BY <2>1, <4>1, <4>2
    <3> QED
      BY <2>2, <2>3, <3>1
  <2>7. ASSUME NEW k \in 1 .. m PROVE (m - k) + 1 \in 1 .. m /\ order[(m - k) + 1] = o[k]
    <3>1. (m - k) + 1 \in 1 .. m /\ (m - ((m - k) + 1)) + 1 = k
      BY <2>2
    <3> QED
      BY <2>5, <3>1
  <2>8. Range(order) = S
    <3>1. ASSUME NEW i \in 1 .. m PROVE order[i] \in S
      BY <2>2, <2>5, <2>3
    <3>2. ASSUME NEW x \in S PROVE \E i \in 1 .. m : order[i] = x
      BY <2>6, <2>7
    <3> QED
      BY <2>5, <3>1, <3>2 DEF Range
  <2>9. ASSUME NEW i \in 1 .. m, NEW j \in 1 .. m, order[i] = order[j] PROVE i = j
    <3>1. (m - i) + 1 = (m - j) + 1
      BY <2>2, <2>5, <2>9, <2>3
    <3> QED
      BY <2>2, <3>1
  <2>10. ASSUME NEW e \in E, NEW i \in 1 .. m, NEW j \in 1 .. m, order[i] = Src(e)[1], order[j] = Dst(e)[1]
        PROVE  i < j
    <3>1. Dst(e)[1] \in calc_downstream_blocks(E, order[i])
      BY <2>10 DEF calc_downstream_blocks
    <3>2. \A x \in 1 .. m : \A y \in calc_downstream_blocks(E, o[x]) :
            \E k \in 1 .. m : k < x /\ o[k] = y
      BY <2>2, <2>3
    <3>3. PICK k \in 1 .. m : k < (m - i) + 1 /\ o[k] = Dst(e)[1]
      <4> DEFINE x == (m - i) + 1
      <4>1. x \in 1 .. m /\ order[i] = o[x]
        BY <2>2, <2>5
      <4> HIDE DEF x
      <4>2. \E k \in 1 .. m : k < x /\ o[k] = Dst(e)[1]
        BY <3>1, <3>2, <4>1
      <4> QED
        BY <4>2 DEF x
    <3>4. (m - k) + 1 \in 1 .. m /\ order[(m - k) + 1] = order[j]
      BY <2>7, <2>10, <3>3
    <3>5. (m - k) + 1 = j
      BY <2>9, <3>4
    <3> QED
      BY <2>2, <3>3, <3>5
  <2>11. Ordered(E, S, order)
    BY <2>5, <2>8, <2>9, <2>10 DEF Ordered, IsInjective
  <2>12. ASSUME S # {} PROVE order # <<>>
    <3>1. m # 0
      BY <2>2, <2>6, <2>12
    <3>2. 1 \in DOMAIN order
      BY <2>2, <2>5, <3>1
    <3> QED
      BY <3>2
  <2> QED
    BY <2>11, <2>12
<1>14. ASSUME st.loop = TRUE PROVE order = <<>>
  BY <1>9, <1>14
<1>15. ASSUME NEW ord, Rises(E, ord) PROVE st.loop = FALSE
  <2>1. \A i \in 1 .. Len(blocks) : GreysBelow(none, ord, blocks[i])
    BY <1>3 DEF GreysBelow
  <2> QED
    BY <1>8, <1>15, <2>1 DEF FinishesEach
<1> HIDE DEF order
<1>16. /\ order # <<>> => Ordered(E, S, order)
       /\ S # {} /\ (\E ord : Rises(E, ord)) => order # <<>>
  BY <1>12, <1>13, <1>14, <1>15
<1> QED
  BY <1>16 DEF order

\* The blocks in use: nothing leads out of them.
LEMMA UsedClosed ==
  ASSUME NEW E \in EdgeSets
  PROVE  /\ calc_used_blocks(E) \in SUBSET Blocks
         /\ \A b \in calc_used_blocks(E) : calc_downstream_blocks(E, b) \subseteq calc_used_blocks(E)
         /\ calc_used_blocks(E) = {} <=> E = {}
         /\ \A e \in E : Src(e)[1] \in calc_used_blocks(E) /\ Dst(e)[1] \in calc_used_blocks(E)
<1>1. \A e \in E : Src(e)[1] \in calc_used_blocks(E) /\ Dst(e)[1] \in calc_used_blocks(E)
  BY DEF calc_used_blocks
<1>2. \A b \in calc_used_blocks(E) : \E e \in E : b = Src(e)[1] \/ b = Dst(e)[1]
  BY DEF calc_used_blocks
<1>3. \A e \in E : Src(e)[1] \in Blocks /\ Dst(e)[1] \in Blocks
  BY DEF EdgeSets, Endpoints, Src, Dst
<1>4. \A b : \A c \in calc_downstream_blocks(E, b) : \E e \in E : c = Dst(e)[1]
  BY DEF calc_downstream_blocks
<1> QED
  BY <1>1, <1>2, <1>3, <1>4

-----------------------------------------------------------------------------
(* reachable_dfs_visit: the search for the blocks of a part. *)

Marked(st, b) == [st EXCEPT !.color[b] = "BLACK"]

ReachOf(E, visit, b, st) == visit_each(visit, Marked(st, b), unique_vector(calc_adjacent_blocks(E, b)))

\* The adjacent blocks are blocks, and unique_vector lists them.
LEMMA Adjacent ==
  ASSUME NEW E \in EdgeSets, NEW b
  PROVE  /\ calc_adjacent_blocks(E, b) \subseteq Blocks
         /\ Lists(unique_vector(calc_adjacent_blocks(E, b)), calc_adjacent_blocks(E, b))
         /\ unique_vector(calc_adjacent_blocks(E, b)) \in Seq(Blocks)
<1> DEFINE S == calc_adjacent_blocks(E, b)
<1>1. S \subseteq Blocks
  BY DEF EdgeSets, Endpoints, calc_adjacent_blocks, calc_downstream_blocks, calc_upstream_edges, Src, Dst
<1> HIDE DEF S
<1>2. S \subseteq Nat /\ IsFiniteSet(S)
  BY <1>1, BlocksAssumption, FS_Subset
<1>3. Lists(unique_vector(S), S)
  BY <1>2, UniqueVector
<1>4. unique_vector(S) \in Seq(Blocks)
  BY <1>1, <1>3 DEF Lists
<1> QED
  BY <1>1, <1>3, <1>4 DEF S

\* What marking changes.
LEMMA MarkedFields ==
  ASSUME NEW st \in Visited, NEW b \in Blocks
  PROVE  /\ Marked(st, b) \in Visited /\ Marked(st, b).loop = st.loop
         /\ Marked(st, b).color = [st.color EXCEPT ![b] = "BLACK"]
BY DEF Marked, Visited

\* A search keeps the types if the searches inside it do.
LEMMA ReachOfType ==
  ASSUME NEW E \in EdgeSets, NEW visit \in Visits, NEW b \in Blocks, NEW st \in Visited
  PROVE  ReachOf(E, visit, b, st) \in Visited
BY MarkedFields, VisitEachType, Adjacent DEF ReachOf

\* The searches, by how deep they may nest.
Searches(E, d) ==
  /\ d \in [Nat -> Visits]
  /\ \A k \in Nat : \A b \in Blocks, st \in Visited :
        d[k + 1][<<b, st>>] = ReachOf(E, d[k], b, st)

\* The recursion of reachable_dfs_visit is well defined, to every depth.
LEMMA ReachNests ==
  ASSUME NEW E \in EdgeSets
  PROVE  \E d : Searches(E, d) /\ reachable_dfs_visit(E) = d[Cardinality(Blocks)]
<1> DEFINE P == Blocks \X Visited
           Is(d) == d = [k \in Nat |-> [x \in P |-> IF k = 0 THEN x[2] ELSE ReachOf(E, d[k - 1], x[1], x[2])]]
           chosen == CHOOSE d : Is(d)
           base == [x \in P |-> x[2]]
           Next1(f) == [x \in P |-> ReachOf(E, f, x[1], x[2])]
           F == [f \in Visits |-> Next1(f)]
<1>1. base \in Visits
  BY DEF Visits
<1>2. \A f \in Visits : Next1(f) \in Visits
  <2>1. ASSUME NEW f \in Visits, NEW x \in P PROVE ReachOf(E, f, x[1], x[2]) \in Visited
    BY ReachOfType
  <2> QED
    BY <2>1 DEF Visits
<1>3. F \in [Visits -> Visits]
  <2> HIDE DEF Next1
  <2> QED
    BY <1>2
<1>4. PICK g \in [Nat -> Visits] : Iterates(g, Nat, base, F)
  <2> HIDE DEF base, F
  <2> QED
    BY <1>1, <1>3, IteratesExists
<1> DEFINE Row(d, k) == [x \in P |-> IF k = 0 THEN x[2] ELSE ReachOf(E, d[k - 1], x[1], x[2])]
<1>5. ASSUME NEW k \in Nat PROVE g[k] = Row(g, k)
  <2>1. CASE k = 0
    <3>1. g[k] = base
      <4> HIDE DEF base, F
      <4> QED
        BY <1>4, <2>1 DEF Iterates
    <3> QED
      BY <2>1, <3>1
  <2>2. CASE k # 0
    <3>1. k - 1 \in Nat
      BY <2>2
    <3>2. g[k] = F[g[k - 1]]
      <4> HIDE DEF base, F
      <4> QED
        BY <1>4, <2>2 DEF Iterates
    <3>3. g[k] = Next1(g[k - 1])
      <4> HIDE DEF Next1
      <4> QED
        BY <3>1, <3>2
    <3> QED
      BY <2>2, <3>3
  <2> QED
    BY <2>1, <2>2
<1>6. Is(g)
  <2>1. g = [k \in Nat |-> g[k]]
    OBVIOUS
  <2>2. g = [k \in Nat |-> Row(g, k)]
    <3> HIDE DEF Row
    <3> QED
      BY <1>5, <2>1
  <2> QED
    BY <2>2
<1>7. Is(chosen)
  BY <1>6, Zenon
<1>8. reachable_dfs_visit(E) = chosen[Cardinality(Blocks)]
  BY DEF reachable_dfs_visit, ReachOf, Marked
<1> HIDE DEF chosen
<1>9. chosen = [k \in Nat |-> Row(chosen, k)]
  BY <1>7
<1>10. \A k \in Nat : chosen[k] = Row(chosen, k)
  <2> HIDE DEF Row
  <2> QED
    BY <1>9
<1>11. \A k \in Nat : chosen[k] \in Visits
  <2> DEFINE T == {k \in Nat : chosen[k] \in Visits}
  <2>1. 0 \in T
    <3>1. chosen[0] = base
      <4>1. Row(chosen, 0) = base
        OBVIOUS
      <4> HIDE DEF Row, base
      <4> QED
        BY <1>10, <4>1
    <3> QED
      BY <1>1, <3>1
  <2>2. ASSUME NEW k \in Nat, k \in T PROVE k + 1 \in T
    <3>1. k + 1 \in Nat /\ k + 1 # 0 /\ (k + 1) - 1 = k
      OBVIOUS
    <3>2. chosen[k + 1] = Next1(chosen[k])
      <4>1. chosen[k + 1] = Row(chosen, k + 1)
        <5> HIDE DEF Row
        <5> QED
          BY <1>10, <3>1
      <4> QED
        BY <3>1, <4>1
    <3> HIDE DEF Next1
    <3> QED
      BY <1>2, <2>2, <3>1, <3>2
  <2>3. \A k \in Nat : k \in T
    <3> HIDE DEF T
    <3> QED
      BY <2>1, <2>2, Induction
  <2> QED
    BY <2>3
<1>12. chosen \in [Nat -> Visits]
  <2> HIDE DEF Row
  <2>1. chosen = [k \in Nat |-> chosen[k]]
    BY <1>9, <1>10
  <2> QED
    BY <1>11, <2>1
<1>13. ASSUME NEW k \in Nat, NEW b \in Blocks, NEW st \in Visited
       PROVE  chosen[k + 1][<<b, st>>] = ReachOf(E, chosen[k], b, st)
  <2>1. k + 1 \in Nat /\ k + 1 # 0 /\ (k + 1) - 1 = k
    OBVIOUS
  <2>2. chosen[k + 1] = Row(chosen, k + 1)
    <3> HIDE DEF Row
    <3> QED
      BY <1>10, <2>1
  <2>3. <<b, st>> \in P
    OBVIOUS
  <2> QED
    BY <2>1, <2>2, <2>3
<1>14. Searches(E, chosen)
  BY <1>12, <1>13 DEF Searches
<1> QED
  BY <1>8, <1>14

Blacks(st) == {c \in Blocks : st.color[c] = "BLACK"}

\* Nothing was refused, and nothing is grey.
Plain(st) == st \in Visited /\ st.loop = FALSE /\ \A c \in Blocks : st.color[c] # "GREY"

\* Everything next to a member of T is in T.
Closed(E, T) == \A c \in T : calc_adjacent_blocks(E, c) \subseteq T

\* s is what a search from the blocks H makes of st: it finds them and all that
\* is next to what it finds, but nothing outside.
Explores(E, H, st, s) ==
  /\ Plain(s)
  /\ Blacks(st) \union H \subseteq Blacks(s)
  /\ \A c \in Blacks(s) \ Blacks(st) : calc_adjacent_blocks(E, c) \subseteq Blacks(s)
  /\ \A T : H \subseteq T /\ Closed(E, T) => Blacks(s) \subseteq Blacks(st) \union T

Reaches(E, k, visit) ==
  \A b \in Blocks, st \in Visited :
    Plain(st) /\ st.color[b] = "WHITE" /\ Cardinality(Whites(st)) <= k
      => Explores(E, {b}, st, visit[<<b, st>>])

\* A search that only marks blocks makes none white again.
LEMMA FewerLeft ==
  ASSUME NEW st \in Visited, NEW s \in Visited, Blacks(st) \subseteq Blacks(s), Plain(st),
         NEW k \in Nat, Cardinality(Whites(st)) <= k
  PROVE  Cardinality(Whites(s)) <= k
<1>1. Whites(s) \subseteq Whites(st)
  BY DEF Whites, Blacks, Visited, Plain
<1>2. IsFiniteSet(Whites(st))
  BY BlocksAssumption, FS_Subset DEF Whites
<1>3. Cardinality(Whites(s)) <= Cardinality(Whites(st)) /\ IsFiniteSet(Whites(s))
  BY <1>1, <1>2, FS_Subset
<1> QED
  BY <1>2, <1>3, FS_CardinalityType

\* A loop over blocks searches from all of them.
LEMMA LoopExplores ==
  ASSUME NEW E \in EdgeSets, NEW k \in Nat, NEW visit \in Visits, Reaches(E, k, visit),
         NEW st \in Visited, Plain(st), Cardinality(Whites(st)) <= k,
         NEW H \in SUBSET Blocks, NEW blocks, Lists(blocks, H)
  PROVE  Explores(E, H, st, visit_each(visit, st, blocks))
<1> DEFINE n == Len(blocks)
<1>1. /\ n \in Nat /\ blocks \in Seq(Blocks) /\ \A i \in 1 .. n : blocks[i] \in H /\ blocks[i] \in Blocks
      /\ \A x \in H : \E i \in 1 .. n : blocks[i] = x
  BY DEF Lists
<1>2. PICK a : Loops(visit, st, blocks, a) /\ visit_each(visit, st, blocks) = a[n]
  BY <1>1, VisitEachLoops
<1>3. /\ \A i \in 0 .. n : a[i] \in Visited
      /\ a[0] = st
      /\ \A i \in 1 .. n : a[i] = VisitStep(visit, a[i - 1], blocks[i])
  BY <1>2 DEF Loops
<1> HIDE DEF n
<1> DEFINE Seen(i) == {blocks[j] : j \in 1 .. i}
           First(i) == Explores(E, Seen(i), st, a[i])
           T == {i \in Nat : i \in 0 .. n => First(i)}
<1>4. First(0)
  <2>1. Seen(0) = {}
    OBVIOUS
  <2> HIDE DEF Seen
  <2> QED
    BY <1>3, <2>1 DEF Explores
<1>5. ASSUME NEW i \in Nat, i + 1 \in 0 .. n, First(i) PROVE First(i + 1)
  <2> DEFINE s == a[i]
             p == blocks[i + 1]
             t == a[i + 1]
             A == Seen(i)
             B == Seen(i + 1)
  <2>1. /\ i \in 0 .. n /\ i + 1 \in 1 .. n /\ (i + 1) - 1 = i
        /\ \A j \in 1 .. i + 1 : j \in 1 .. i \/ j = i + 1
        /\ \A j \in 1 .. i : j \in 1 .. i + 1
        /\ i + 1 \in 1 .. i + 1
    BY <1>1, <1>5
  <2>2. s \in Visited /\ t \in Visited /\ p \in Blocks /\ t = VisitStep(visit, s, p)
    BY <1>1, <1>3, <2>1
  <2>3. B = A \union {p}
    BY <2>1
  <2>4. Explores(E, A, st, s)
    BY <1>5
  <2> SUFFICES Explores(E, B, st, t)
    OBVIOUS
  <2> HIDE DEF s, t, p, A, B, Seen, First
  <2>5. s.color[p] \in {"WHITE", "BLACK"} /\ s.loop = FALSE /\ Plain(s)
    BY <2>2, <2>4 DEF Explores, Plain, Visited
  <2>6. CASE s.color[p] = "WHITE"
    <3>1. t = visit[<<p, s>>]
      BY <2>2, <2>5, <2>6 DEF VisitStep
    <3>2. Cardinality(Whites(s)) <= k
      BY <2>2, <2>4, FewerLeft DEF Explores
    <3>3. Explores(E, {p}, s, t)
      BY <2>2, <2>5, <2>6, <3>1, <3>2 DEF Reaches
    <3>4. Blacks(st) \union A \subseteq Blacks(s) /\ Blacks(s) \union {p} \subseteq Blacks(t) /\ Plain(t)
      BY <2>4, <3>3 DEF Explores
    <3>5. Blacks(st) \union B \subseteq Blacks(t)
      BY <2>3, <3>4
    <3>6. ASSUME NEW c \in Blacks(t) \ Blacks(st) PROVE calc_adjacent_blocks(E, c) \subseteq Blacks(t)
      <4>1. CASE c \in Blacks(s)
        <5>1. calc_adjacent_blocks(E, c) \subseteq Blacks(s)
          BY <2>4, <3>6, <4>1 DEF Explores
        <5> QED
          BY <3>4, <5>1
      <4>2. CASE c \notin Blacks(s)
        BY <3>3, <3>6, <4>2 DEF Explores
      <4> QED
        BY <4>1, <4>2
    <3>7. ASSUME NEW R, B \subseteq R, Closed(E, R) PROVE Blacks(t) \subseteq Blacks(st) \union R
      <4>1. A \subseteq R /\ {p} \subseteq R
        BY <2>3, <3>7
      <4>2. Blacks(s) \subseteq Blacks(st) \union R /\ Blacks(t) \subseteq Blacks(s) \union R
        BY <2>4, <3>3, <3>7, <4>1 DEF Explores
      <4> QED
        BY <4>2
    <3> QED
      BY <3>4, <3>5, <3>6, <3>7 DEF Explores
  <2>7. CASE s.color[p] = "BLACK"
    <3>1. t = s
      BY <2>2, <2>5, <2>7 DEF VisitStep
    <3>2. p \in Blacks(s)
      BY <2>2, <2>7 DEF Blacks
    <3>3. Blacks(st) \union B \subseteq Blacks(s)
      BY <2>3, <2>4, <3>2 DEF Explores
    <3>4. ASSUME NEW R, B \subseteq R, Closed(E, R) PROVE Blacks(s) \subseteq Blacks(st) \union R
      <4>1. A \subseteq R
        BY <2>3, <3>4
      <4> QED
        BY <2>4, <3>4, <4>1 DEF Explores
    <3> QED
      BY <2>4, <3>1, <3>3, <3>4 DEF Explores
  <2> QED
    BY <2>5, <2>6, <2>7
<1>6. 0 \in T /\ \A i \in Nat : i \in T => i + 1 \in T
  <2>1. ASSUME NEW i \in Nat, i + 1 \in 0 .. n PROVE i \in 0 .. n
    BY <1>1, <2>1
  <2> HIDE DEF First
  <2> QED
    BY <1>4, <1>5, <2>1
<1>7. \A i \in Nat : i \in T
  <2> HIDE DEF T
  <2> QED
    BY <1>6, Induction
<1>8. First(n)
  <2>1. n \in 0 .. n
    BY <1>1
  <2> HIDE DEF First
  <2> QED
    BY <1>1, <1>7, <2>1
<1>9. Seen(n) = H
  BY <1>1
<1> HIDE DEF Seen
<1> QED
  BY <1>2, <1>8, <1>9 DEF n

\* A search with room for one block more.
LEMMA ReachExplores ==
  ASSUME NEW E \in EdgeSets, NEW k \in Nat, NEW visit \in Visits, Reaches(E, k, visit),
         NEW b \in Blocks, NEW st \in Visited, Plain(st), st.color[b] = "WHITE",
         Cardinality(Whites(st)) <= k + 1
  PROVE  Explores(E, {b}, st, ReachOf(E, visit, b, st))
<1> DEFINE H == calc_adjacent_blocks(E, b)
           in == Marked(st, b)
           s == ReachOf(E, visit, b, st)
<1>1. in \in Visited /\ in.loop = st.loop /\ in.color = [st.color EXCEPT ![b] = "BLACK"]
  BY MarkedFields
<1>2. st.color \in [Blocks -> {"WHITE", "GREY", "BLACK"}]
  BY DEF Visited
<1> HIDE DEF in
<1>3. in.color[b] = "BLACK" /\ \A c \in Blocks : c # b => in.color[c] = st.color[c]
  BY <1>1, <1>2
<1>4. Plain(in)
  BY <1>1, <1>3 DEF Plain
<1>5. Cardinality(Whites(in)) <= k
  <2>1. Whites(in) = Whites(st) \ {b} /\ b \in Whites(st)
    BY <1>3 DEF Whites
  <2>2. IsFiniteSet(Whites(st))
    BY BlocksAssumption, FS_Subset DEF Whites
  <2>3. Cardinality(Whites(in)) = Cardinality(Whites(st)) - 1
    <3>1. ASSUME NEW W, IsFiniteSet(W), b \in W PROVE Cardinality(W \ {b}) = Cardinality(W) - 1
      BY <3>1, FS_RemoveElement
    <3> QED
      BY <2>1, <2>2, <3>1
  <2>4. Cardinality(Whites(st)) \in Nat
    BY <2>2, FS_CardinalityType
  <2> QED
    BY <2>3, <2>4
<1>6. Explores(E, H, in, s)
  <2>1. s = visit_each(visit, in, unique_vector(H))
    BY DEF ReachOf, in
  <2>2. H \in SUBSET Blocks /\ Lists(unique_vector(H), H)
    BY Adjacent
  <2> HIDE DEF s, H
  <2> QED
    BY <1>1, <1>4, <1>5, <2>1, <2>2, LoopExplores
<1>7. Blacks(in) = Blacks(st) \union {b}
  BY <1>3 DEF Blacks
<1> HIDE DEF s
<1>8. Blacks(st) \union {b} \subseteq Blacks(s) /\ H \subseteq Blacks(s) /\ Plain(s)
  BY <1>6, <1>7 DEF Explores
<1>9. ASSUME NEW c \in Blacks(s) \ Blacks(st) PROVE calc_adjacent_blocks(E, c) \subseteq Blacks(s)
  <2>1. CASE c = b
    BY <1>8, <2>1
  <2>2. CASE c # b
    <3> HIDE DEF H
    <3> QED
      BY <1>6, <1>7, <1>9, <2>2 DEF Explores
  <2> QED
    BY <2>1, <2>2
<1>10. ASSUME NEW R, {b} \subseteq R, Closed(E, R) PROVE Blacks(s) \subseteq Blacks(st) \union R
  <2>1. H \subseteq R
    BY <1>10 DEF Closed
  <2> HIDE DEF H
  <2> QED
    BY <1>6, <1>7, <1>10, <2>1 DEF Explores
<1>11. Explores(E, {b}, st, s)
  BY <1>8, <1>9, <1>10 DEF Explores
<1> QED
  BY <1>11 DEF s

\* As deep as there are blocks left, the search reaches what it should.
LEMMA SearchesReach ==
  ASSUME NEW E \in EdgeSets, NEW d, Searches(E, d)
  PROVE  \A k \in Nat : Reaches(E, k, d[k])
<1> DEFINE T == {k \in Nat : Reaches(E, k, d[k])}
<1>1. 0 \in T
  <2>1. ASSUME NEW b \in Blocks, NEW st \in Visited, st.color[b] = "WHITE", Cardinality(Whites(st)) <= 0 PROVE FALSE
    <3>1. IsFiniteSet(Whites(st)) /\ b \in Whites(st)
      BY <2>1, BlocksAssumption, FS_Subset DEF Whites
    <3>2. Cardinality(Whites(st)) \in Nat /\ Cardinality(Whites(st)) # 0
      BY <3>1, FS_CardinalityType, FS_EmptySet
    <3> QED
      BY <2>1, <3>2
  <2> QED
    BY <2>1 DEF Reaches
<1>2. ASSUME NEW k \in Nat, k \in T PROVE k + 1 \in T
  <2>1. Reaches(E, k, d[k]) /\ d[k] \in Visits
    BY <1>2 DEF Searches
  <2>2. ASSUME NEW b \in Blocks, NEW st \in Visited, Plain(st), st.color[b] = "WHITE",
               Cardinality(Whites(st)) <= k + 1
        PROVE  Explores(E, {b}, st, d[k + 1][<<b, st>>])
    <3>1. d[k + 1][<<b, st>>] = ReachOf(E, d[k], b, st)
      BY DEF Searches
    <3>2. Explores(E, {b}, st, ReachOf(E, d[k], b, st))
      BY <2>1, <2>2, ReachExplores
    <3> QED
      BY <3>1, <3>2
  <2> QED
    BY <2>2 DEF Reaches
<1> HIDE DEF T
<1>3. \A k \in Nat : k \in T
  BY <1>1, <1>2, Induction
<1> QED
  BY <1>3 DEF T

-----------------------------------------------------------------------------
(* partition. *)

\* The blocks next to a member of T are in T, if no edge leads in or out.
LEMMA ApartClosed ==
  ASSUME NEW E \in EdgeSets, NEW T
  PROVE  Apart(E, T) <=> Closed(E, T)
<1>1. ASSUME Apart(E, T), NEW c \in T PROVE calc_adjacent_blocks(E, c) \subseteq T
  BY <1>1 DEF Apart, calc_adjacent_blocks, calc_downstream_blocks, calc_upstream_edges
<1>2. ASSUME Closed(E, T), NEW e \in E PROVE Src(e)[1] \in T <=> Dst(e)[1] \in T
  <2>1. Dst(e)[1] \in calc_adjacent_blocks(E, Src(e)[1])
    BY DEF calc_adjacent_blocks, calc_downstream_blocks
  <2>2. Src(e)[1] \in calc_adjacent_blocks(E, Dst(e)[1])
    BY DEF calc_adjacent_blocks, calc_upstream_edges
  <2> QED
    BY <1>2, <2>1, <2>2 DEF Closed
<1> QED
  BY <1>1, <1>2 DEF Apart, Closed

\* calc_reachable_blocks finds the part of its block.
LEMMA ReachablePart ==
  ASSUME NEW E \in EdgeSets, NEW rest \in SUBSET Blocks, Apart(E, rest), NEW b \in rest
  PROVE  /\ Part(E, calc_reachable_blocks(E, b, rest))
         /\ calc_reachable_blocks(E, b, rest) \subseteq rest
<1> DEFINE N == Cardinality(Blocks)
           none == Unvisited
           s == reachable_dfs_visit(E)[<<b, none>>]
           P == calc_reachable_blocks(E, b, rest)
<1>1. N \in Nat
  BY BlocksAssumption, FS_CardinalityType
<1>2. none \in Visited /\ Plain(none) /\ \A c \in Blocks : none.color[c] = "WHITE"
  BY DEF Visited, Unvisited, Plain
<1>3. Whites(none) = Blocks /\ Blacks(none) = {}
  BY <1>2 DEF Whites, Blacks
<1>4. P = {c \in rest : s.color[c] = "BLACK"}
  BY DEF calc_reachable_blocks
<1> HIDE DEF none
<1>5. Explores(E, {b}, none, s)
  <2>1. PICK d : Searches(E, d) /\ reachable_dfs_visit(E) = d[N]
    BY ReachNests
  <2>2. Reaches(E, N, d[N])
    <3> HIDE DEF N
    <3> QED
      BY <1>1, <2>1, SearchesReach
  <2>3. Cardinality(Whites(none)) <= N
    BY <1>1, <1>3
  <2>4. b \in Blocks /\ none.color[b] = "WHITE"
    BY <1>2
  <2> HIDE DEF N
  <2> QED
    BY <1>2, <2>1, <2>2, <2>3, <2>4 DEF Reaches
<1> HIDE DEF s, N
<1>6. b \in Blacks(s) /\ Closed(E, Blacks(s)) /\ \A T : b \in T /\ Closed(E, T) => Blacks(s) \subseteq T
  BY <1>3, <1>5 DEF Explores, Closed
<1>7. Closed(E, rest)
  BY ApartClosed
<1>8. Blacks(s) \subseteq rest
  BY <1>6, <1>7
<1>9. P = Blacks(s)
  BY <1>4, <1>8 DEF Blacks
<1> HIDE DEF P
<1>10. Apart(E, P)
  BY <1>6, <1>9, ApartClosed
<1>11. ASSUME NEW T \in SUBSET P, T # {}, Apart(E, T) PROVE T = P
  <2>1. CASE b \in T
    <3>1. Closed(E, T)
      BY <1>11, ApartClosed
    <3> QED
      BY <1>6, <1>9, <2>1, <3>1
  <2>2. CASE b \notin T
    <3>1. Apart(E, P \ T)
      BY <1>10, <1>11 DEF Apart
    <3>2. Closed(E, P \ T) /\ b \in P \ T
      BY <1>6, <1>9, <2>2, <3>1, ApartClosed
    <3>3. P \subseteq P \ T
      BY <1>6, <1>9, <3>2
    <3> QED
      BY <1>11, <3>3
  <2> QED
    BY <2>1, <2>2
<1>12. P # {} /\ P \subseteq rest
  BY <1>6, <1>8, <1>9
<1>13. Part(E, P)
  BY <1>10, <1>11, <1>12 DEF Part
<1> QED
  BY <1>12, <1>13 DEF P

\* What partition has done when the blocks in rest are left: the parts are
\* graphs, and result has them sorted.
Parted(E, graphs, result, rest) ==
  /\ graphs \in Seq(SUBSET Blocks) /\ DOMAIN result = 1 .. Len(graphs) /\ result \in Seq(Seq(Blocks))
  /\ rest \in SUBSET Blocks /\ Apart(E, rest)
  /\ \A k \in 1 .. Len(graphs) : /\ Part(E, graphs[k]) /\ graphs[k] \intersect rest = {}
                                 /\ result[k] = topological_sort(E, graphs[k])
  /\ \A k, l \in 1 .. Len(graphs) : graphs[k] \intersect graphs[l] # {} => k = l
  /\ \A b \in Blocks : b \in calc_used_blocks(E) <=> (b \in rest \/ \E k \in 1 .. Len(graphs) : b \in graphs[k])

\* topological_sort returns a vector of blocks.
LEMMA SortType ==
  ASSUME NEW E \in EdgeSets, NEW S \in SUBSET Blocks
  PROVE  topological_sort(E, S) \in Seq(Blocks)
<1> DEFINE blocks == sort_sources_first(E, S)
           visit == topological_dfs_visit(E)
           st == visit_each(visit, Unvisited, blocks)
<1>1. visit \in Visits
  <2>1. PICK d : Nests(E, d) /\ visit = d[Cardinality(Blocks)]
    BY VisitNests
  <2>2. Cardinality(Blocks) \in Nat
    BY BlocksAssumption, FS_CardinalityType
  <2> HIDE DEF visit
  <2> QED
    BY <2>1, <2>2 DEF Nests
<1>2. S \subseteq Nat /\ IsFiniteSet(S)
  BY BlocksAssumption, FS_Subset
<1>3. Lists(blocks, S)
  BY <1>2, SourcesFirst
<1>4. Unvisited \in Visited
  BY DEF Visited, Unvisited
<1> HIDE DEF visit, blocks
<1>5. blocks \in Seq(Blocks)
  BY <1>3 DEF Lists
<1>6. st \in Visited
  BY <1>1, <1>4, <1>5, VisitEachType
<1>7. topological_sort(E, S) = IF st.loop THEN <<>> ELSE Reverse(st.output)
  BY DEF topological_sort, visit, blocks
<1> HIDE DEF st
<1>8. st.output \in Seq(Blocks)
  BY <1>6 DEF Visited
<1> DEFINE o == st.output
           m == Len(o)
<1>9. m \in Nat /\ \A i \in 1 .. m : o[i] \in Blocks
  BY <1>8
<1>10. Reverse(st.output) = [i \in 1 .. m |-> o[(m - i) + 1]]
  BY DEF Reverse
<1> HIDE DEF o, m
<1>11. \A i \in 1 .. m : (m - i) + 1 \in 1 .. m
  BY <1>9
<1>12. [i \in 1 .. m |-> o[(m - i) + 1]] \in [1 .. m -> Blocks]
  BY <1>9, <1>11
<1>13. [i \in 1 .. m |-> o[(m - i) + 1]] \in Seq(Blocks)
  BY <1>9, <1>12
<1>14. <<>> \in Seq(Blocks)
  OBVIOUS
<1> QED
  BY <1>7, <1>10, <1>13, <1>14

\* One round of the loop.
RoundStates == [result : Seq(Seq(Blocks)), blocks : SUBSET Blocks]
Graph(E, blocks) == calc_reachable_blocks(E, unique_vector(blocks)[1], blocks)
Round(E, s) ==
  IF s.blocks = {} THEN s
  ELSE [result |-> Append(s.result, topological_sort(E, Graph(E, s.blocks))), blocks |-> s.blocks \ Graph(E, s.blocks)]

\* A round of partition keeps the types.
LEMMA RoundType ==
  ASSUME NEW E \in EdgeSets, NEW s \in RoundStates
  PROVE  Round(E, s) \in RoundStates
<1>1. s.result \in Seq(Seq(Blocks)) /\ s.blocks \in SUBSET Blocks
  BY DEF RoundStates
<1>2. Graph(E, s.blocks) \in SUBSET Blocks
  BY <1>1 DEF Graph, calc_reachable_blocks
<1>3. topological_sort(E, Graph(E, s.blocks)) \in Seq(Blocks)
  BY <1>2, SortType
<1>4. Append(s.result, topological_sort(E, Graph(E, s.blocks))) \in Seq(Seq(Blocks))
  BY <1>1, <1>3
<1>5. s.blocks \ Graph(E, s.blocks) \in SUBSET Blocks
  BY <1>1
<1> QED
  BY <1>4, <1>5 DEF Round, RoundStates

\* The rounds of partition follow one another.
LEMMA PartitionRounds ==
  ASSUME NEW E \in EdgeSets
  PROVE  \E r \in [Nat -> RoundStates] :
            /\ r[0] = [result |-> <<>>, blocks |-> calc_used_blocks(E)]
            /\ \A k \in Nat : r[k + 1] = Round(E, r[k])
            /\ partition(E) = r[Cardinality(Blocks)].result
<1> DEFINE base == [result |-> <<>>, blocks |-> calc_used_blocks(E)]
           F == [s \in RoundStates |-> Round(E, s)]
           Is(r) == r = [n \in Nat |-> IF n = 0 THEN base ELSE Round(E, r[n - 1])]
           chosen == CHOOSE r : Is(r)
<1>1. base \in RoundStates
  <2>1. calc_used_blocks(E) \in SUBSET Blocks /\ <<>> \in Seq(Seq(Blocks))
    BY UsedClosed
  <2> QED
    BY <2>1 DEF RoundStates
<1>2. F \in [RoundStates -> RoundStates]
  BY RoundType
<1> HIDE DEF base
<1>3. PICK g \in [Nat -> RoundStates] : Iterates(g, Nat, base, F)
  <2> HIDE DEF F
  <2> QED
    BY <1>1, <1>2, IteratesExists
<1>4. ASSUME NEW n \in Nat PROVE g[n] = IF n = 0 THEN base ELSE Round(E, g[n - 1])
  <2>1. g[n] = IF n = 0 THEN base ELSE F[g[n - 1]]
    <3> HIDE DEF F
    <3> QED
      BY <1>3 DEF Iterates
  <2>2. n # 0 => g[n - 1] \in RoundStates
    <3>1. n # 0 => n - 1 \in Nat
      OBVIOUS
    <3> QED
      BY <3>1
  <2> QED
    BY <2>1, <2>2
<1>5. Is(g)
  BY <1>4
<1>6. Is(chosen)
  BY <1>5, Zenon
<1>7. partition(E) = chosen[Cardinality(Blocks)].result
  BY DEF partition, Round, Graph, base
<1> HIDE DEF chosen
<1>8. chosen = [n \in Nat |-> IF n = 0 THEN base ELSE Round(E, chosen[n - 1])]
  BY <1>6
<1>9. chosen[0] = base
  BY <1>8
<1>10. ASSUME NEW k \in Nat PROVE chosen[k + 1] = Round(E, chosen[k])
  <2>1. k + 1 \in Nat /\ k + 1 # 0 /\ (k + 1) - 1 = k
    OBVIOUS
  <2> QED
    BY <1>8, <2>1
<1>11. \A k \in Nat : chosen[k] \in RoundStates
  <2> DEFINE T == {k \in Nat : chosen[k] \in RoundStates}
  <2>1. 0 \in T
    BY <1>1, <1>9
  <2>2. \A k \in Nat : k \in T => k + 1 \in T
    BY <1>10, RoundType
  <2>3. \A k \in Nat : k \in T
    <3> HIDE DEF T
    <3> QED
      BY <2>1, <2>2, Induction
  <2> QED
    BY <2>3
<1>12. chosen = [n \in Nat |-> chosen[n]]
  <2> DEFINE R == [n \in Nat |-> IF n = 0 THEN base ELSE Round(E, chosen[n - 1])]
  <2>1. R = [n \in Nat |-> R[n]]
    OBVIOUS
  <2>2. chosen = R
    BY <1>8
  <2> HIDE DEF R
  <2> QED
    BY <2>1, <2>2
<1>13. chosen \in [Nat -> RoundStates]
  BY <1>11, <1>12
<1> QED
  BY <1>7, <1>9, <1>10, <1>13 DEF base

\* A round puts one more part out.
LEMMA RoundParts ==
  ASSUME NEW E \in EdgeSets, NEW s \in RoundStates, s.blocks # {},
         NEW graphs, Parted(E, graphs, s.result, s.blocks)
  PROVE  /\ \E more : Parted(E, more, Round(E, s).result, Round(E, s).blocks)
         /\ Cardinality(Round(E, s).blocks) + 1 <= Cardinality(s.blocks)
<1> DEFINE rest == s.blocks
           first == unique_vector(rest)[1]
           P == Graph(E, rest)
           sorted == topological_sort(E, P)
           more == Append(graphs, P)
           m == Len(graphs)
           left == rest \ P
           out == Append(s.result, sorted)
<1>1. rest \in SUBSET Blocks /\ Apart(E, rest) /\ graphs \in Seq(SUBSET Blocks) /\ s.result \in Seq(Seq(Blocks))
  BY DEF Parted
<1>2. rest \subseteq Nat /\ IsFiniteSet(rest)
  BY <1>1, BlocksAssumption, FS_Subset
<1>3. first \in rest
  <2>1. Lists(unique_vector(rest), rest)
    BY <1>2, UniqueVector
  <2> DEFINE u == unique_vector(rest)
  <2> HIDE DEF u
  <2>2. u \in Seq(rest) /\ \E i \in DOMAIN u : TRUE
    BY <2>1 DEF Lists, u
  <2>3. 1 \in 1 .. Len(u)
    BY <2>2
  <2> QED
    BY <2>2, <2>3 DEF u
<1>4. Part(E, P) /\ P \subseteq rest
  <2> HIDE DEF first, rest
  <2>1. P = calc_reachable_blocks(E, first, rest)
    BY DEF Graph, first
  <2> QED
    BY <1>1, <1>3, <2>1, ReachablePart
<1>5. sorted \in Seq(Blocks)
  <2> HIDE DEF P
  <2>1. P \in SUBSET Blocks
    BY <1>1, <1>4
  <2> QED
    BY <2>1, SortType
<1>6. Round(E, s).result = out /\ Round(E, s).blocks = left
  BY DEF Round
<1> HIDE DEF P, sorted, rest, first
<1>7. P # {} /\ P \in SUBSET Blocks /\ Apart(E, P)
  BY <1>1, <1>4 DEF Part
<1>8. /\ m \in Nat /\ more \in Seq(SUBSET Blocks) /\ Len(more) = m + 1 /\ more[m + 1] = P
      /\ \A k \in 1 .. m : more[k] = graphs[k]
      /\ \A k \in 1 .. m + 1 : k \in 1 .. m \/ k = m + 1
      /\ \A k \in 1 .. m : k \in 1 .. m + 1
      /\ m + 1 \in 1 .. m + 1
  BY <1>1, <1>7
<1>9. DOMAIN s.result = 1 .. m
  BY DEF Parted
<1>10. /\ out \in Seq(Seq(Blocks)) /\ DOMAIN out = 1 .. m + 1 /\ out[m + 1] = sorted
       /\ \A k \in 1 .. m : out[k] = s.result[k]
  <2>1. Len(s.result) = m
    BY <1>1, <1>8, <1>9
  <2> QED
    BY <1>1, <1>5, <2>1
<1> HIDE DEF more, m, out
<1>11. /\ \A k \in 1 .. m : /\ Part(E, graphs[k]) /\ graphs[k] \intersect rest = {}
                            /\ s.result[k] = topological_sort(E, graphs[k])
       /\ \A k, l \in 1 .. m : graphs[k] \intersect graphs[l] # {} => k = l
       /\ \A b \in Blocks : b \in calc_used_blocks(E) <=> (b \in rest \/ \E k \in 1 .. m : b \in graphs[k])
  BY DEF Parted, m, rest
<1>12. Apart(E, left)
  BY <1>1, <1>7 DEF Apart
<1>13. ASSUME NEW k \in 1 .. m + 1
       PROVE  /\ Part(E, more[k]) /\ more[k] \intersect left = {}
              /\ out[k] = topological_sort(E, more[k])
  <2>1. CASE k \in 1 .. m
    BY <1>8, <1>10, <1>11, <2>1
  <2>2. CASE k = m + 1
    BY <1>4, <1>8, <1>10, <2>2 DEF sorted
  <2> QED
    BY <1>8, <2>1, <2>2
<1>14. ASSUME NEW k \in 1 .. m + 1, NEW l \in 1 .. m + 1, more[k] \intersect more[l] # {} PROVE k = l
  <2>1. ASSUME NEW i \in 1 .. m PROVE more[i] \intersect P = {}
    BY <1>4, <1>8, <1>11
  <2>2. CASE k \in 1 .. m /\ l \in 1 .. m
    BY <1>8, <1>11, <1>14, <2>2
  <2>3. CASE k \in 1 .. m /\ l = m + 1
    BY <1>8, <1>14, <2>1, <2>3
  <2>4. CASE k = m + 1 /\ l \in 1 .. m
    BY <1>8, <1>14, <2>1, <2>4
  <2> QED
    BY <1>8, <2>2, <2>3, <2>4
<1>15. ASSUME NEW b \in Blocks
       PROVE  b \in calc_used_blocks(E) <=> (b \in left \/ \E k \in 1 .. m + 1 : b \in more[k])
  <2>1. (\E k \in 1 .. m + 1 : b \in more[k]) <=> b \in P \/ \E k \in 1 .. m : b \in graphs[k]
    <3>1. ASSUME NEW k \in 1 .. m + 1, b \in more[k] PROVE b \in P \/ \E j \in 1 .. m : b \in graphs[j]
      BY <1>8, <3>1
    <3>2. ASSUME b \in P PROVE \E k \in 1 .. m + 1 : b \in more[k]
      BY <1>8, <3>2
    <3>3. ASSUME NEW j \in 1 .. m, b \in graphs[j] PROVE \E k \in 1 .. m + 1 : b \in more[k]
      BY <1>8, <3>3
    <3> QED
      BY <3>1, <3>2, <3>3
  <2>2. b \in rest <=> b \in left \/ b \in P
    BY <1>4
  <2> HIDE DEF left
  <2> QED
    BY <1>11, <2>1, <2>2
<1>16. left \in SUBSET Blocks
  BY <1>1
<1>17. Parted(E, more, out, left)
  BY <1>8, <1>10, <1>12, <1>13, <1>14, <1>15, <1>16 DEF Parted
<1>18. Cardinality(left) + 1 <= Cardinality(rest)
  <2>1. PICK x \in P : TRUE
    BY <1>7
  <2>2. left \in SUBSET (rest \ {x}) /\ x \in rest
    BY <1>4, <2>1
  <2>3. IsFiniteSet(rest \ {x}) /\ Cardinality(rest \ {x}) = Cardinality(rest) - 1
    <3>1. ASSUME NEW W, IsFiniteSet(W), x \in W
          PROVE  IsFiniteSet(W \ {x}) /\ Cardinality(W \ {x}) = Cardinality(W) - 1
      BY <3>1, FS_RemoveElement
    <3> QED
      BY <1>2, <2>2, <3>1
  <2>4. Cardinality(left) <= Cardinality(rest \ {x}) /\ IsFiniteSet(left)
    <3> HIDE DEF left
    <3> QED
      BY <2>2, <2>3, FS_Subset
  <2>5. Cardinality(left) \in Nat /\ Cardinality(rest) \in Nat
    BY <1>2, <2>4, FS_CardinalityType
  <2> HIDE DEF left
  <2> QED
    BY <2>3, <2>4, <2>5
<1> QED
  BY <1>6, <1>17, <1>18 DEF rest

\* When partition returns, all blocks in use are in its parts.
LEMMA PartitionParts ==
  ASSUME NEW E \in EdgeSets
  PROVE  \E graphs : Parted(E, graphs, partition(E), {})
<1> DEFINE N == Cardinality(Blocks)
<1>1. N \in Nat
  BY BlocksAssumption, FS_CardinalityType
<1>2. PICK r \in [Nat -> RoundStates] :
        /\ r[0] = [result |-> <<>>, blocks |-> calc_used_blocks(E)]
        /\ \A k \in Nat : r[k + 1] = Round(E, r[k])
        /\ partition(E) = r[N].result
  BY PartitionRounds
<1> HIDE DEF N
<1> DEFINE Done(k) == /\ \E graphs : Parted(E, graphs, r[k].result, r[k].blocks)
                      /\ Cardinality(r[k].blocks) + k <= N
           T == {k \in Nat : k \in 0 .. N => Done(k)}
<1>3. \A k \in Nat : r[k] \in RoundStates /\ r[k].blocks \in SUBSET Blocks
  BY DEF RoundStates
<1>4. \A k \in Nat : IsFiniteSet(r[k].blocks) /\ Cardinality(r[k].blocks) \in Nat /\ Cardinality(r[k].blocks) <= N
  <2>1. ASSUME NEW W \in SUBSET Blocks PROVE IsFiniteSet(W) /\ Cardinality(W) \in Nat /\ Cardinality(W) <= N
    BY BlocksAssumption, FS_Subset, FS_CardinalityType DEF N
  <2> QED
    BY <1>3, <2>1
<1>5. Done(0)
  <2>1. r[0].result = <<>> /\ r[0].blocks = calc_used_blocks(E)
    BY <1>2
  <2>2. Apart(E, calc_used_blocks(E)) /\ calc_used_blocks(E) \in SUBSET Blocks
    BY UsedClosed DEF Apart
  <2>3. Parted(E, <<>>, <<>>, calc_used_blocks(E))
    <3>1. /\ <<>> \in Seq(SUBSET Blocks) /\ <<>> \in Seq(Seq(Blocks)) /\ Len(<<>>) = 0 /\ 1 .. 0 = {}
          /\ DOMAIN <<>> = 1 .. 0
      OBVIOUS
    <3> QED
      BY <2>2, <3>1 DEF Parted
  <2>4. Cardinality(r[0].blocks) + 0 <= N
    BY <1>1, <1>4
  <2> QED
    BY <2>1, <2>3, <2>4
<1>6. ASSUME NEW k \in Nat, k + 1 \in 0 .. N, Done(k) PROVE Done(k + 1)
  <2>1. r[k + 1] = Round(E, r[k])
    BY <1>2
  <2>2. CASE r[k].blocks = {}
    <3>1. r[k + 1] = r[k]
      BY <2>1, <2>2 DEF Round
    <3>2. Cardinality(r[k + 1].blocks) = 0
      BY <2>2, <3>1, FS_EmptySet
    <3>3. Cardinality(r[k + 1].blocks) + (k + 1) <= N
      BY <1>1, <1>6, <3>2
    <3> QED
      BY <1>6, <3>1, <3>3
  <2>3. CASE r[k].blocks # {}
    <3>1. PICK graphs : Parted(E, graphs, r[k].result, r[k].blocks)
      BY <1>6
    <3>2. r[k] \in RoundStates
      BY <1>3
    <3>3. /\ \E more : Parted(E, more, r[k + 1].result, r[k + 1].blocks)
          /\ Cardinality(r[k + 1].blocks) + 1 <= Cardinality(r[k].blocks)
      BY <2>1, <2>3, <3>1, <3>2, RoundParts
    <3>4. Cardinality(r[k + 1].blocks) \in Nat /\ Cardinality(r[k].blocks) \in Nat
      <4>1. k + 1 \in Nat
        OBVIOUS
      <4> QED
        BY <1>4, <4>1
    <3>5. Cardinality(r[k + 1].blocks) + (k + 1) <= N
      BY <1>1, <1>6, <3>3, <3>4
    <3> QED
      BY <3>3, <3>5
  <2> QED
    BY <2>2, <2>3
<1>7. 0 \in T /\ \A k \in Nat : k \in T => k + 1 \in T
  <2>1. ASSUME NEW k \in Nat, k + 1 \in 0 .. N PROVE k \in 0 .. N
    BY <1>1, <2>1
  <2> HIDE DEF Done
  <2> QED
    BY <1>5, <1>6, <2>1
<1>8. \A k \in Nat : k \in T
  <2> HIDE DEF T
  <2> QED
    BY <1>7, Induction
<1>9. Done(N)
  <2>1. N \in 0 .. N
    BY <1>1
  <2> HIDE DEF Done
  <2> QED
    BY <1>1, <1>8, <2>1
<1>10. r[N].blocks = {}
  <2>1. Cardinality(r[N].blocks) = 0
    BY <1>1, <1>4, <1>9
  <2> QED
    BY <1>1, <1>4, <2>1, FS_EmptySet
<1> QED
  BY <1>2, <1>9, <1>10

-----------------------------------------------------------------------------
(* Loops. *)

\* Blocks without a loop can be numbered in the direction of the edges.
LEMMA Numbered ==
  ASSUME NEW E \in EdgeSets, \A T \in SUBSET calc_used_blocks(E) : ~Looped(E, T)
  PROVE  \E ord : Rises(E, ord)
<1> DEFINE Goes(N, n, ord) == /\ \A b \in N : ord[b] < n
                              /\ \A e \in E : Src(e)[1] \in N /\ Dst(e)[1] \in N => ord[Src(e)[1]] < ord[Dst(e)[1]]
           Holds(N, n) == (\A T \in SUBSET N : ~Looped(E, T)) => \E ord \in [Blocks -> Nat] : Goes(N, n, ord)
           C == {n \in Nat : \A N \in SUBSET Blocks : Cardinality(N) = n => Holds(N, n)}
<1>1. 0 \in C
  <2>1. ASSUME NEW N \in SUBSET Blocks, Cardinality(N) = 0 PROVE Holds(N, 0)
    <3>1. N = {}
      BY <2>1, BlocksAssumption, FS_Subset, FS_EmptySet
    <3> DEFINE ord == [b \in Blocks |-> 0]
    <3>2. ord \in [Blocks -> Nat]
      OBVIOUS
    <3>3. Goes(N, 0, ord)
      BY <3>1
    <3> HIDE DEF ord, Goes
    <3> QED
      BY <3>2, <3>3
  <2> HIDE DEF Holds
  <2> QED
    BY <2>1
<1>2. ASSUME NEW n \in Nat, n \in C PROVE n + 1 \in C
  <2>1. ASSUME NEW N \in SUBSET Blocks, Cardinality(N) = n + 1, \A T \in SUBSET N : ~Looped(E, T)
        PROVE  \E ord \in [Blocks -> Nat] : Goes(N, n + 1, ord)
    <3>1. IsFiniteSet(N) /\ N # {}
      <4>1. IsFiniteSet(N)
        BY BlocksAssumption, FS_Subset
      <4>2. n + 1 # 0
        OBVIOUS
      <4> QED
        BY <2>1, <4>1, <4>2, FS_EmptySet
    <3>2. PICK x \in N : calc_downstream_blocks(E, x) \intersect N = {}
      <4>1. ~Looped(E, N)
        BY <2>1
      <4> QED
        BY <3>1, <4>1 DEF Looped
    <3>3. N \ {x} \in SUBSET Blocks /\ Cardinality(N \ {x}) = n
      <4>1. Cardinality(N \ {x}) = Cardinality(N) - 1
        BY <3>1, FS_RemoveElement
      <4> QED
        BY <2>1, <4>1
    <3>4. \A T \in SUBSET (N \ {x}) : ~Looped(E, T)
      BY <2>1
    <3>5. Holds(N \ {x}, n)
      <4> HIDE DEF Holds
      <4> QED
        BY <1>2, <3>3
    <3>6. PICK low \in [Blocks -> Nat] : Goes(N \ {x}, n, low)
      <4> HIDE DEF Goes
      <4> QED
        BY <3>4, <3>5
    <3> DEFINE ord == [b \in Blocks |-> IF b = x THEN n ELSE low[b]]
    <3>7. ord \in [Blocks -> Nat]
      OBVIOUS
    <3>8. x \in Blocks /\ ord[x] = n /\ \A b \in N : b \in Blocks /\ (b # x => ord[b] = low[b])
      BY <2>1
    <3>9. \A b \in N : b # x => low[b] < n /\ low[b] \in Nat
      BY <2>1, <3>6
    <3> HIDE DEF ord
    <3>10. \A b \in N : ord[b] < n + 1
      <4>1. ASSUME NEW b \in N PROVE ord[b] < n + 1
        <5>1. CASE b = x
          BY <3>8, <5>1
        <5>2. CASE b # x
          BY <3>8, <3>9, <5>2
        <5> QED
          BY <5>1, <5>2
      <4> QED
        BY <4>1
    <3>11. ASSUME NEW e \in E, Src(e)[1] \in N, Dst(e)[1] \in N PROVE ord[Src(e)[1]] < ord[Dst(e)[1]]
      <4> DEFINE p == Src(e)[1]
                 q == Dst(e)[1]
      <4>1. q \in calc_downstream_blocks(E, p)
        BY DEF calc_downstream_blocks
      <4>2. p # x
        <5> HIDE DEF p, q
        <5> QED
          BY <3>2, <3>11, <4>1 DEF q
      <4>3. CASE q = x
        <5> HIDE DEF p, q
        <5>1. p \in N /\ ord[p] = low[p] /\ low[p] < n
          BY <3>8, <3>9, <3>11, <4>2 DEF p
        <5> QED
          BY <3>8, <4>3, <5>1 DEF p, q
      <4>4. CASE q # x
        <5>1. p \in N \ {x} /\ q \in N \ {x}
          BY <3>11, <4>2, <4>4
        <5>2. low[p] < low[q]
          BY <3>6, <5>1
        <5> HIDE DEF p, q
        <5>3. ord[p] = low[p] /\ ord[q] = low[q]
          BY <3>8, <5>1
        <5> QED
          BY <5>2, <5>3 DEF p, q
      <4> QED
        BY <4>3, <4>4
    <3>12. Goes(N, n + 1, ord)
      BY <3>10, <3>11
    <3> HIDE DEF Goes
    <3> QED
      BY <3>7, <3>12
  <2>2. ASSUME NEW N \in SUBSET Blocks, Cardinality(N) = n + 1 PROVE Holds(N, n + 1)
    <3> HIDE DEF Goes
    <3> QED
      BY <2>1, <2>2
  <2> HIDE DEF Holds
  <2> QED
    BY <2>2
<1>3. \A n \in Nat : n \in C
  <2> HIDE DEF C
  <2> QED
    BY <1>1, <1>2, Induction
<1> DEFINE U == calc_used_blocks(E)
<1>4. U \in SUBSET Blocks /\ \A e \in E : Src(e)[1] \in U /\ Dst(e)[1] \in U
  BY UsedClosed
<1> HIDE DEF U
<1>5. Cardinality(U) \in Nat
  BY <1>4, BlocksAssumption, FS_Subset, FS_CardinalityType
<1>6. Holds(U, Cardinality(U))
  <2> HIDE DEF Holds
  <2> QED
    BY <1>3, <1>4, <1>5
<1>7. PICK ord \in [Blocks -> Nat] : Goes(U, Cardinality(U), ord)
  <2> HIDE DEF Goes
  <2> QED
    BY <1>6 DEF U
<1> QED
  BY <1>4, <1>7 DEF Rises

\* Blocks that are in order have no loop among them.
LEMMA OrderedNotLooped ==
  ASSUME NEW E, NEW P, \A b \in P : calc_downstream_blocks(E, b) \subseteq P,
         NEW order \in Seq(Blocks), Ordered(E, P, order),
         NEW T, Looped(E, T), T \intersect P # {}
  PROVE  FALSE
<1> DEFINE n == Len(order)
           I == {i \in 1 .. n : order[i] \in T}
<1>1. n \in Nat /\ DOMAIN order = 1 .. n
  OBVIOUS
<1> HIDE DEF n
<1>2. /\ \A i \in 1 .. n : order[i] \in P
      /\ \A b \in P : \E i \in 1 .. n : order[i] = b
  BY <1>1 DEF Ordered, Range
<1>3. I # {} /\ I \subseteq Nat /\ I \subseteq 1 .. n
  BY <1>1, <1>2
<1>4. IsFiniteSet(I)
  <2>1. IsFiniteSet(1 .. n)
    BY <1>1, FS_Interval
  <2> HIDE DEF I
  <2> QED
    BY <1>3, <2>1, FS_Subset
<1>5. PICK i \in I : \A j \in I : j <= i
  <2> HIDE DEF I
  <2> QED
    BY <1>3, <1>4, MaxFact
<1>6. i \in 1 .. n /\ order[i] \in T /\ order[i] \in P
  BY <1>2, <1>3
<1>7. PICK c \in T : c \in calc_downstream_blocks(E, order[i])
  BY <1>6 DEF Looped
<1>8. c \in P
  BY <1>6, <1>7
<1>9. PICK j \in 1 .. n : order[j] = c
  BY <1>2, <1>8
<1>10. j \in I
  BY <1>9
<1>11. i < j
  <2>1. PICK e \in E : Src(e)[1] = order[i] /\ Dst(e)[1] = c
    BY <1>7 DEF calc_downstream_blocks
  <2> QED
    BY <1>1, <1>6, <1>9, <2>1 DEF Ordered
<1>12. i \in Nat /\ j \in Nat /\ j <= i
  BY <1>3, <1>5, <1>10
<1> QED
  BY <1>11, <1>12

-----------------------------------------------------------------------------
(* Theorems. *)

\* What topological_sort returns has every block in use once, and each block
\* before everything downstream of it.
THEOREM SortedOrder ==
  ASSUME NEW E \in EdgeSets, topological_sort(E, calc_used_blocks(E)) # <<>>
  PROVE  Ordered(E, calc_used_blocks(E), topological_sort(E, calc_used_blocks(E)))
BY UsedClosed, SortOutcome

\* topological_sort throws "flow graph has loops!" exactly when there is one.
THEOREM SortRefusesLoopsOnly ==
  ASSUME NEW E \in EdgeSets, E # {}
  PROVE  topological_sort(E, calc_used_blocks(E)) = <<>> <=> \E T \in SUBSET calc_used_blocks(E) : Looped(E, T)
<1> DEFINE S == calc_used_blocks(E)
           order == topological_sort(E, S)
<1>1. S \in SUBSET Blocks /\ S # {} /\ \A b \in S : calc_downstream_blocks(E, b) \subseteq S
  BY UsedClosed
<1>2. ASSUME \A T \in SUBSET S : ~Looped(E, T) PROVE order # <<>>
  <2>1. \E ord : Rises(E, ord)
    BY <1>2, Numbered
  <2> HIDE DEF S
  <2> QED
    BY <1>1, <2>1, SortOutcome
<1>3. ASSUME order # <<>>, NEW T \in SUBSET S, Looped(E, T) PROVE FALSE
  <2>1. Ordered(E, S, order)
    BY <1>3, SortedOrder
  <2> HIDE DEF S
  <2>2. order \in Seq(Blocks)
    BY <1>1, SortType
  <2>3. T \intersect S # {}
    BY <1>3 DEF Looped
  <2> HIDE DEF order
  <2> QED
    BY <1>1, <1>3, <2>1, <2>2, <2>3, OrderedNotLooped
<1> QED
  BY <1>2, <1>3

\* partition returns the connected parts of any graph, each block in use in one
\* of them and each part in order, or reports that there is a loop.
THEOREM PartitionSorts ==
  ASSUME NEW E \in EdgeSets
  PROVE  SortedParts(E, partition(E))
<1> DEFINE parts == partition(E)
           U == calc_used_blocks(E)
<1>1. PICK graphs : Parted(E, graphs, parts, {})
  BY PartitionParts
<1> DEFINE n == Len(graphs)
<1>2. /\ DOMAIN parts = 1 .. n
      /\ \A k \in 1 .. n : /\ graphs[k] \in SUBSET Blocks /\ Part(E, graphs[k])
                           /\ parts[k] = topological_sort(E, graphs[k])
      /\ \A k, l \in 1 .. n : graphs[k] \intersect graphs[l] # {} => k = l
      /\ \A b \in Blocks : b \in U <=> \E k \in 1 .. n : b \in graphs[k]
  BY <1>1 DEF Parted
<1>3. U \in SUBSET Blocks
  BY UsedClosed
<1> HIDE DEF parts, U, n
<1>4. ASSUME NEW k \in 1 .. n
      PROVE  /\ graphs[k] # {} /\ \A b \in graphs[k] : calc_downstream_blocks(E, b) \subseteq graphs[k]
             /\ parts[k] \in Seq(Blocks)
             /\ parts[k] # <<>> => Ordered(E, graphs[k], parts[k])
             /\ (\E ord : Rises(E, ord)) => parts[k] # <<>>
  <2>1. graphs[k] # {} /\ Apart(E, graphs[k])
    BY <1>2 DEF Part
  <2>2. \A b \in graphs[k] : calc_downstream_blocks(E, b) \subseteq graphs[k]
    BY <2>1 DEF Apart, calc_downstream_blocks
  <2>3. parts[k] \in Seq(Blocks)
    BY <1>2, SortType
  <2>4. graphs[k] \in SUBSET Blocks /\ parts[k] = topological_sort(E, graphs[k])
    BY <1>2
  <2>5. /\ parts[k] # <<>> => Ordered(E, graphs[k], parts[k])
        /\ (\E ord : Rises(E, ord)) => parts[k] # <<>>
    BY <2>1, <2>2, <2>4, SortOutcome
  <2> QED
    BY <2>1, <2>2, <2>3, <2>5
<1>5. ASSUME NEW T \in SUBSET U, Looped(E, T) PROVE \E k \in DOMAIN parts : parts[k] = <<>>
  <2>1. PICK x \in T : x \in U
    BY <1>5 DEF Looped
  <2>2. PICK k \in 1 .. n : x \in graphs[k]
    BY <1>2, <1>3, <2>1
  <2>3. T \intersect graphs[k] # {}
    BY <2>1, <2>2
  <2>4. ~Ordered(E, graphs[k], parts[k])
    BY <1>4, <1>5, <2>3, OrderedNotLooped
  <2> QED
    BY <1>2, <1>4, <2>4
<1>6. ASSUME \A T \in SUBSET U : ~Looped(E, T)
      PROVE  /\ UNION {Range(parts[k]) : k \in DOMAIN parts} = U
             /\ \A k, l \in DOMAIN parts : Range(parts[k]) \intersect Range(parts[l]) # {} => k = l
             /\ \A k \in DOMAIN parts : Part(E, Range(parts[k])) /\ Ordered(E, Range(parts[k]), parts[k])
  <2>1. \E ord : Rises(E, ord)
    BY <1>6, Numbered DEF U
  <2>2. ASSUME NEW k \in 1 .. n PROVE Ordered(E, graphs[k], parts[k]) /\ Range(parts[k]) = graphs[k]
    <3>1. parts[k] # <<>>
      BY <1>4, <2>1
    <3>2. Ordered(E, graphs[k], parts[k])
      BY <1>4, <3>1
    <3> QED
      BY <3>2 DEF Ordered
  <2>3. UNION {Range(parts[k]) : k \in DOMAIN parts} = U
    <3>1. ASSUME NEW b \in U PROVE b \in UNION {Range(parts[k]) : k \in DOMAIN parts}
      <4>1. PICK k \in 1 .. n : b \in graphs[k]
        BY <1>2, <1>3
      <4>2. b \in Range(parts[k]) /\ k \in DOMAIN parts
        BY <1>2, <2>2, <4>1
      <4> QED
        BY <4>2, Zenon
    <3>2. ASSUME NEW b \in UNION {Range(parts[k]) : k \in DOMAIN parts} PROVE b \in U
      <4>1. PICK k \in DOMAIN parts : b \in Range(parts[k])
        BY <3>2, Zenon
      <4>2. k \in 1 .. n /\ b \in graphs[k] /\ b \in Blocks
        BY <1>2, <2>2, <4>1
      <4> QED
        BY <1>2, <4>2
    <3> QED
      BY <3>1, <3>2
  <2>4. ASSUME NEW k \in DOMAIN parts, NEW l \in DOMAIN parts, Range(parts[k]) \intersect Range(parts[l]) # {}
        PROVE  k = l
    BY <1>2, <2>2, <2>4
  <2>5. ASSUME NEW k \in DOMAIN parts PROVE Part(E, Range(parts[k])) /\ Ordered(E, Range(parts[k]), parts[k])
    BY <1>2, <2>2
  <2> QED
    BY <2>3, <2>4, <2>5
<1> QED
  BY <1>5, <1>6 DEF SortedParts, parts, U
=============================================================================
