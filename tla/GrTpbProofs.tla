---------------------------- MODULE GrTpbProofs ----------------------------
(***************************************************************************)
(* Proofs about the thread-per-block scheduler, for every flowgraph that   *)
(* GraphAssumption allows.                                                *)
(***************************************************************************)
EXTENDS GrTpb, SequenceTheorems, WellFoundedInduction, TLAPS

-----------------------------------------------------------------------------
(* Numbers. *)

\* A set of natural numbers that is not empty has a smallest one.
LEMMA Smallest ==
  ASSUME NEW T, T \subseteq Nat, T # {}
  PROVE  \E x \in T : \A y \in T : x <= y
<1> DEFINE R == {ss \in Nat \X Nat : ss[1] < ss[2]}
<1>1. IsWellFoundedOn(R, Nat)
  BY NatLessThanWellFounded DEF OpToRel
<1>2. PICK x \in T : \A y \in T : ~(<<y, x>> \in R)
  <2> HIDE DEF R
  <2> QED
    BY <1>1, WFMin
<1>3. \A y \in T : ~(y < x)
  BY <1>2
<1> QED
  BY <1>3

\* One that is bounded has a largest.
LEMMA Largest ==
  ASSUME NEW T, NEW m \in Nat, T \subseteq 0 .. m, T # {}
  PROVE  \E x \in T : \A y \in T : x >= y
<1> DEFINE U == {k \in 0 .. m : m - k \in T}
<1>1. U \subseteq Nat /\ U # {}
  <2>1. PICK y \in T : y \in 0 .. m
    OBVIOUS
  <2>2. m - y \in 0 .. m /\ m - (m - y) = y
    BY <2>1
  <2>3. m - y \in U
    BY <2>1, <2>2
  <2>4. U \subseteq Nat
    OBVIOUS
  <2> QED
    BY <2>3, <2>4
<1>2. PICK u \in U : \A v \in U : u <= v
  <2> HIDE DEF U
  <2> QED
    BY <1>1, Smallest
<1>3. \A y \in T : m - y \in U
  OBVIOUS
<1>4. m - u \in T /\ u \in 0 .. m
  OBVIOUS
<1>5. \A y \in T : u <= m - y
  BY <1>2, <1>3
<1>6. \A y \in T : m - u >= y
  BY <1>4, <1>5
<1> QED
  BY <1>4, <1>6

\* What MinOf and MaxOf choose.
LEMMA MinOfFact ==
  ASSUME NEW T, T \subseteq Nat, T # {}
  PROVE  MinOf(T) \in T /\ \A y \in T : MinOf(T) <= y
BY Smallest DEF MinOf

\* The same of the largest.
LEMMA MaxOfFact ==
  ASSUME NEW T, NEW m \in Nat, T \subseteq 0 .. m, T # {}
  PROVE  MaxOf(T) \in T /\ \A y \in T : MaxOf(T) >= y
BY Largest DEF MaxOf

\* Division with remainder.
LEMMA DivFact ==
  ASSUME NEW k \in Nat, NEW m \in Nat \ {0}
  PROVE  /\ k \div m \in Nat /\ k % m \in 0 .. m - 1 /\ k = m * (k \div m) + (k % m)
         /\ m * (k \div m) \in Nat /\ k \div m <= k
         /\ \A l \in Nat : k \div m < l => k < l * m
<1>1. k = m * (k \div m) + (k % m) /\ k % m \in 0 .. m - 1 /\ k \div m \in Nat
  OBVIOUS
<1> DEFINE h == k \div m
<1> HIDE DEF h
<1>2. h \in Nat /\ k = m * h + (k % m)
  BY <1>1 DEF h
<1>3. m * h \in Nat /\ h <= m * h
  BY <1>2
<1>4. ASSUME NEW l \in Nat, h < l PROVE k < l * m
  <2>1. h + 1 <= l
    BY <1>2, <1>4
  <2>2. (h + 1) * m <= l * m
    BY <1>2, <2>1
  <2>3. (h + 1) * m = m * h + m /\ l * m \in Nat
    BY <1>2
  <2> QED
    BY <1>1, <1>2, <1>3, <2>2, <2>3
<1> QED
  BY <1>1, <1>2, <1>3, <1>4 DEF h

\* Rounding moves a number by less than the multiple.
LEMMA RoundFact ==
  ASSUME NEW k \in Nat, NEW m \in Nat \ {0}
  PROVE  /\ round_down(k, m) \in 0 .. k
         /\ round_up(k, m) \in Nat /\ k <= round_up(k, m) /\ round_up(k, m) <= k + m - 1
<1>1. k = m * (k \div m) + (k % m) /\ k % m \in 0 .. m - 1 /\ k \div m \in Nat
  OBVIOUS
<1> DEFINE l == k + m - 1
<1>2. l \in Nat
  OBVIOUS
<1> HIDE DEF l
<1>3. l = m * (l \div m) + (l % m) /\ l % m \in 0 .. m - 1 /\ l \div m \in Nat
  BY <1>2
<1>4. round_up(k, m) = (l \div m) * m
  BY DEF round_up, l
<1>5. (l \div m) * m = m * (l \div m) /\ (k \div m) * m = m * (k \div m)
  BY <1>1, <1>3
<1>6. m * (k \div m) \in Nat /\ m * (l \div m) \in Nat
  BY <1>1, <1>3
<1>7. round_down(k, m) \in 0 .. k
  BY <1>1, <1>5, <1>6 DEF round_down
<1>8. round_up(k, m) \in Nat /\ k <= round_up(k, m) /\ round_up(k, m) <= k + m - 1
  BY <1>2, <1>3, <1>4, <1>5, <1>6 DEF l
<1> QED
  BY <1>7, <1>8

\* What rounds down to nothing is less than the multiple.
LEMMA RoundZero ==
  ASSUME NEW k \in Nat, NEW m \in Nat \ {0}, round_down(k, m) = 0
  PROVE  k < m
<1>1. k = m * (k \div m) + (k % m) /\ k % m \in 0 .. m - 1 /\ k \div m \in Nat
  OBVIOUS
<1>2. (k \div m) * m = 0
  BY DEF round_down
<1>3. m * (k \div m) = (k \div m) * m
  BY <1>1
<1> QED
  BY <1>1, <1>2, <1>3

-----------------------------------------------------------------------------
(* Recursive functions on the numbers. *)

\* A function that either has its value at k or takes it from an earlier argument.
Descends(g, D, base, val, nxt) ==
  \A k \in D : g[k] = IF k \in base THEN val[k] ELSE g[nxt[k]]

\* Two of them agree wherever both are defined.
LEMMA DescendsUnique ==
  ASSUME NEW base, NEW val, NEW nxt,
         \A k \in Nat : k \in base \/ nxt[k] \in 0 .. k - 1,
         NEW p \in Nat, NEW q \in Nat, p <= q, NEW g, NEW h,
         Descends(g, 0 .. p, base, val, nxt), Descends(h, 0 .. q, base, val, nxt)
  PROVE  \A k \in 0 .. p : g[k] = h[k]
<1> DEFINE Bad == {k \in 0 .. p : g[k] # h[k]}
<1> SUFFICES ASSUME Bad # {} PROVE FALSE
  OBVIOUS
<1>1. Bad \subseteq Nat
  OBVIOUS
<1>2. PICK x \in Bad : \A y \in Bad : x <= y
  <2> HIDE DEF Bad
  <2> QED
    BY <1>1, Smallest
<1>3. x \in 0 .. p /\ x \in 0 .. q /\ x \in Nat
  OBVIOUS
<1>4. g[x] = (IF x \in base THEN val[x] ELSE g[nxt[x]])
      /\ h[x] = (IF x \in base THEN val[x] ELSE h[nxt[x]])
  BY <1>3 DEF Descends
<1>5. CASE x \in base
  BY <1>4, <1>5
<1>6. CASE x \notin base
  <2>1. nxt[x] \in 0 .. x - 1
    BY <1>3, <1>6
  <2>2. nxt[x] \in 0 .. p /\ nxt[x] \in Nat /\ nxt[x] < x
    BY <1>3, <2>1
  <2>3. nxt[x] \notin Bad
    <3> HIDE DEF Bad
    <3> QED
      BY <1>2, <1>3, <2>2
  <2>4. g[nxt[x]] = h[nxt[x]]
    BY <2>2, <2>3
  <2> QED
    BY <1>4, <1>6, <2>4
<1> QED
  BY <1>5, <1>6

\* There is one on every initial segment.
LEMMA DescendsSegment ==
  ASSUME NEW base, NEW V, NEW val \in [Nat -> V], NEW nxt,
         \A k \in Nat : k \in base \/ nxt[k] \in 0 .. k - 1
  PROVE  \A p \in Nat : \E g \in [0 .. p -> V] : Descends(g, 0 .. p, base, val, nxt)
<1> DEFINE Has(p) == \E g \in [0 .. p -> V] : Descends(g, 0 .. p, base, val, nxt)
<1> DEFINE Bad == {p \in Nat : ~Has(p)}
<1> SUFFICES ASSUME Bad # {} PROVE FALSE
  OBVIOUS
<1>2. PICK x \in Bad : \A y \in Bad : x <= y
  <2>1. Bad \subseteq Nat
    OBVIOUS
  <2> HIDE DEF Bad
  <2> QED
    BY <2>1, Smallest
<1>3. x \in Nat /\ ~Has(x)
  OBVIOUS
<1>4. CASE x = 0
  <2> DEFINE g == [k \in 0 .. 0 |-> val[0]]
  <2>1. 0 \in base
    OBVIOUS
  <2>2. g \in [0 .. 0 -> V] /\ Descends(g, 0 .. 0, base, val, nxt)
    BY <2>1 DEF Descends
  <2> QED
    BY <1>3, <1>4, <2>2
<1>5. CASE x > 0
  <2>1. x - 1 \in Nat
    BY <1>3, <1>5
  <2>2. x - 1 \notin Bad
    <3> HIDE DEF Bad
    <3> QED
      BY <1>2, <1>3, <2>1
  <2>3. PICK h \in [0 .. x - 1 -> V] : Descends(h, 0 .. x - 1, base, val, nxt)
    BY <2>1, <2>2
  <2> DEFINE g == [k \in 0 .. x |-> IF k = x THEN (IF x \in base THEN val[x] ELSE h[nxt[x]])
                                   ELSE h[k]]
  <2>4. x \in base \/ nxt[x] \in 0 .. x - 1
    BY <1>3
  <2>5. g \in [0 .. x -> V]
    BY <1>3, <2>3, <2>4
  <2>6. \A k \in 0 .. x - 1 : g[k] = h[k] /\ k \in 0 .. x
    BY <1>3
  <2>7. g[x] = IF x \in base THEN val[x] ELSE g[nxt[x]]
    BY <1>3, <2>4, <2>6
  <2>8. ASSUME NEW k \in 0 .. x - 1
        PROVE  g[k] = IF k \in base THEN val[k] ELSE g[nxt[k]]
    <3>1. k \in Nat /\ (k \in base \/ nxt[k] \in 0 .. k - 1)
      BY <1>3
    <3>2. k \in base \/ nxt[k] \in 0 .. x - 1
      BY <1>3, <3>1
    <3>3. h[k] = IF k \in base THEN val[k] ELSE h[nxt[k]]
      BY <2>3 DEF Descends
    <3> HIDE DEF g
    <3> QED
      BY <2>6, <3>2, <3>3
  <2>9. \A k \in 0 .. x : k = x \/ k \in 0 .. x - 1
    BY <1>3
  <2>10. Descends(g, 0 .. x, base, val, nxt)
    <3> HIDE DEF g
    <3> QED
      BY <2>7, <2>8, <2>9 DEF Descends
  <2> HIDE DEF g
  <2> QED
    BY <1>3, <2>5, <2>10
<1> QED
  BY <1>3, <1>4, <1>5

\* There is one on all the numbers.
LEMMA DescendsExists ==
  ASSUME NEW base, NEW V, NEW val \in [Nat -> V], NEW nxt,
         \A k \in Nat : k \in base \/ nxt[k] \in 0 .. k - 1
  PROVE  \E g \in [Nat -> V] : Descends(g, Nat, base, val, nxt)
<1> DEFINE seg(p) == CHOOSE g \in [0 .. p -> V] : Descends(g, 0 .. p, base, val, nxt)
<1>1. \A p \in Nat : seg(p) \in [0 .. p -> V] /\ Descends(seg(p), 0 .. p, base, val, nxt)
  BY DescendsSegment
<1> DEFINE g == [p \in Nat |-> seg(p)[p]]
<1> HIDE DEF seg
<1>2. \A p \in Nat : seg(p)[p] \in V
  BY <1>1
<1>3. g \in [Nat -> V]
  BY <1>2
<1>4. ASSUME NEW k \in Nat
      PROVE  g[k] = IF k \in base THEN val[k] ELSE g[nxt[k]]
  <2>1. k \in 0 .. k
    OBVIOUS
  <2>2. seg(k)[k] = IF k \in base THEN val[k] ELSE seg(k)[nxt[k]]
    BY <1>1, <2>1 DEF Descends
  <2>3. CASE k \in base
    BY <2>2, <2>3
  <2>4. CASE k \notin base
    <3>1. nxt[k] \in 0 .. k - 1
      BY <2>4
    <3>2. nxt[k] \in Nat /\ nxt[k] <= k /\ nxt[k] \in 0 .. nxt[k]
      BY <3>1
    <3> DEFINE p == nxt[k]
    <3>3. p \in Nat /\ p <= k /\ p \in 0 .. p
      BY <3>2
    <3> HIDE DEF p
    <3>4. \A j \in 0 .. p : seg(p)[j] = seg(k)[j]
      BY <1>1, <3>3, DescendsUnique
    <3>5. seg(p)[p] = seg(k)[p]
      BY <3>3, <3>4
    <3>6. g[p] = seg(p)[p] /\ g[k] = seg(k)[k]
      BY <3>3
    <3> QED
      BY <2>2, <2>4, <3>5, <3>6 DEF p
  <2> QED
    BY <2>3, <2>4
<1>5. Descends(g, Nat, base, val, nxt)
  <2> HIDE DEF g
  <2> QED
    BY <1>4 DEF Descends
<1> QED
  BY <1>3, <1>5
-----------------------------------------------------------------------------
(* The try_again loop. *)

\* The items found at the inputs.
LEMMA SnapshotRange ==
  ASSUME NEW ninput \in Seq(0 .. BufSize - 1), ninput # <<>>
  PROVE  /\ Range(ninput) \subseteq 0 .. BufSize - 1 /\ Range(ninput) # {}
         /\ BufSize - 1 \in Nat
         /\ \A i \in DOMAIN ninput : ninput[i] \in Range(ninput) /\ ninput[i] \in 0 .. BufSize - 1
<1> DEFINE S == 0 .. BufSize - 1
<1>1. S = 0 .. BufSize - 1
  OBVIOUS
<1> HIDE DEF S
<1>2. ninput \in Seq(S)
  BY <1>1
<1>3. /\ Len(ninput) \in Nat /\ Len(ninput) # 0 /\ DOMAIN ninput = 1 .. Len(ninput)
      /\ \A i \in DOMAIN ninput : ninput[i] \in S
  BY <1>2
<1>4. 1 \in DOMAIN ninput
  BY <1>3
<1>5. \A i \in DOMAIN ninput : ninput[i] \in Range(ninput)
  BY DEF Range
<1>6. Range(ninput) \subseteq S
  BY <1>3, Zenon DEF Range
<1>7. Range(ninput) # {}
  BY <1>4, <1>5, Zenon
<1>8. BufSize - 1 \in Nat
  BY SizeAssumption
<1> QED
  BY <1>1, <1>3, <1>5, <1>6, <1>7, <1>8, Zenon

\* What a block needs for k items grows with k.
LEMMA NeedFact ==
  ASSUME NEW b \in Blocks, NEW k \in Nat
  PROVE  /\ fixed_rate_noutput_to_ninput(b, k) \in Nat
         /\ k * Decimation[b] \in Nat /\ k <= k * Decimation[b]
         /\ \A l \in Nat : k <= l =>
              fixed_rate_noutput_to_ninput(b, k) <= fixed_rate_noutput_to_ninput(b, l)
<1>1. Decimation[b] \in Nat \ {0} /\ History[b] \in Nat \ {0}
  BY SizeAssumption
<1>2. k * Decimation[b] \in Nat /\ k <= k * Decimation[b]
  BY <1>1
<1>3. ASSUME NEW l \in Nat, k <= l PROVE k * Decimation[b] <= l * Decimation[b]
  BY <1>1, <1>3
<1>4. \A l \in Nat : l * Decimation[b] \in Nat
  BY <1>1
<1> QED
  BY <1>1, <1>2, <1>3, <1>4 DEF fixed_rate_noutput_to_ninput

\* What the try_again loop decides: a number of items, no more than it started
\* with, that every input suffices for; or else an input that is too short
\* for it, and then it is no more than output_multiple().
LEMMA TryFact ==
  ASSUME NEW b \in Blocks, NEW ninput \in Seq(0 .. BufSize - 1), ninput # <<>>,
         NEW nout \in Nat
  PROVE  LET t == try_again(b, ninput, nout)
         IN /\ t[1] \in 0 .. nout
            /\ t[2] = 0 => \A i \in DOMAIN ninput :
                            fixed_rate_noutput_to_ninput(b, t[1]) <= ninput[i]
            /\ t[2] # 0 => /\ t[2] \in DOMAIN ninput
                           /\ fixed_rate_noutput_to_ninput(b, t[1]) > ninput[t[2]]
                           /\ t[1] <= OutputMultiple[b]
<1> DEFINE multiple == OutputMultiple[b]
           reqd == round_up(fixed_rate_ninput_to_noutput(b, MaxOf(Range(ninput))), multiple)
           m(k) == IF reqd > 0 /\ reqd <= k THEN reqd ELSE k
           short(k) == {i \in DOMAIN ninput : fixed_rate_noutput_to_ninput(b, m(k)) > ninput[i]}
           nxt == [k \in Nat |-> round_up(m(k) \div 2, multiple)]
           base == {k \in Nat : short(k) = {} \/ ~(m(k) > multiple)}
           val == [k \in Nat |-> IF short(k) = {} THEN <<m(k), 0>> ELSE <<m(k), MinOf(short(k))>>]
           try == CHOOSE g : g = [k \in Nat |->
                    IF short(k) = {} THEN <<m(k), 0>>
                    ELSE IF m(k) > multiple THEN g[round_up(m(k) \div 2, multiple)]
                    ELSE <<m(k), MinOf(short(k))>>]
<1>1. try_again(b, ninput, nout) = try[nout]
  BY DEF try_again
<1>2. multiple \in Nat \ {0} /\ BufSize \in Nat /\ DOMAIN ninput = 1 .. Len(ninput)
      /\ Len(ninput) \in Nat \ {0} /\ \A i \in DOMAIN ninput : ninput[i] \in 0 .. BufSize - 1
  BY SizeAssumption
<1>3. reqd \in Nat
  <2>1. Range(ninput) \subseteq 0 .. BufSize - 1 /\ Range(ninput) # {} /\ BufSize - 1 \in Nat
    BY SnapshotRange
  <2>2. MaxOf(Range(ninput)) \in Nat
    BY <2>1, MaxOfFact
  <2>3. Decimation[b] \in Nat \ {0} /\ History[b] \in Nat \ {0}
    BY SizeAssumption
  <2> DEFINE x == MaxOf(Range(ninput)) - History[b] + 1
             T == {0, x}
             top == IF x > 0 THEN x ELSE 0
  <2>4. x \in Int
    BY <2>2, <2>3
  <2> HIDE DEF x
  <2>5. \E y \in T : \A z \in T : y >= z
    BY <2>4
  <2>6. MaxOf(T) \in T /\ \A z \in T : MaxOf(T) >= z
    BY <2>5 DEF MaxOf
  <2>7. MaxOf(T) \in Nat
    BY <2>4, <2>6
  <2>8. fixed_rate_ninput_to_noutput(b, MaxOf(Range(ninput))) = MaxOf(T) \div Decimation[b]
    BY DEF fixed_rate_ninput_to_noutput, x
  <2> HIDE DEF T
  <2>9. MaxOf(T) \div Decimation[b] \in Nat
    BY <2>3, <2>7
  <2> QED
    BY <1>2, <2>8, <2>9, RoundFact
<1> HIDE DEF reqd
<1>4. \A k \in Nat : m(k) \in 0 .. k
  BY <1>3
<1> HIDE DEF multiple
<1>5. ASSUME NEW k \in Nat PROVE k \in base \/ nxt[k] \in 0 .. k - 1
  <2> SUFFICES ASSUME m(k) > multiple PROVE nxt[k] \in 0 .. k - 1
    BY Zenon
  <2> DEFINE l == m(k)  h == l \div 2
  <2>1. l \in Nat /\ l <= k /\ l > multiple
    BY <1>4
  <2>2. nxt[k] = round_up(h, multiple)
    OBVIOUS
  <2> HIDE DEF l
  <2>3. h \in Nat /\ 2 * h <= l
    BY <2>1
  <2> HIDE DEF h
  <2>4. round_up(h, multiple) \in Nat /\ round_up(h, multiple) <= h + multiple - 1
    BY <1>2, <2>3, RoundFact
  <2>5. h <= multiple => round_up(h, multiple) <= multiple
    <3> SUFFICES ASSUME h <= multiple PROVE round_up(h, multiple) <= multiple
      OBVIOUS
    <3> DEFINE q == (h + multiple - 1) \div multiple
    <3>1. h + multiple - 1 \in Nat /\ h + multiple - 1 < multiple + multiple
      BY <1>2, <2>3
    <3>2. q \in Nat /\ multiple * q <= h + multiple - 1
      <4> DEFINE a == h + multiple - 1
      <4> HIDE DEF a
      <4>1. a \in Nat => (a \div multiple) \in Nat /\ multiple * (a \div multiple) <= a
        BY <1>2
      <4> QED
        BY <3>1, <4>1 DEF a
    <3> HIDE DEF q
    <3>3. q < 2
      <4> SUFFICES ASSUME q >= 2 PROVE FALSE
        BY <3>2
      <4>1. multiple * q >= multiple * 2
        BY <1>2, <3>2
      <4>2. multiple * q \in Nat /\ multiple * 2 = multiple + multiple
        BY <1>2, <3>2
      <4> QED
        BY <1>2, <2>3, <3>1, <3>2, <4>1, <4>2
    <3>4. q = 0 \/ q = 1
      BY <3>2, <3>3
    <3>5. q * multiple <= multiple
      BY <1>2, <3>4
    <3> QED
      BY <3>5 DEF round_up, q
  <2>6. round_up(h, multiple) < l
    BY <1>2, <2>1, <2>3, <2>4, <2>5
  <2> QED
    BY <2>1, <2>2, <2>4, <2>6
<1>6. ASSUME NEW k \in Nat, short(k) # {}
      PROVE  MinOf(short(k)) \in short(k)
  <2>1. short(k) \subseteq Nat
    BY <1>2
  <2> QED
    BY <1>6, <2>1, MinOfFact
<1> DEFINE V == {val[k] : k \in Nat}
<1>7. val \in [Nat -> V]
  OBVIOUS
<1>8. PICK g \in [Nat -> V] : g = [k \in Nat |-> IF k \in base THEN val[k] ELSE g[nxt[k]]]
  <2>1. \A k \in Nat : k \in base \/ nxt[k] \in 0 .. k - 1
    BY <1>5
  <2> HIDE DEF base, val, nxt, V, try, short, m
  <2> QED
    <3>1. PICK g \in [Nat -> V] : Descends(g, Nat, base, val, nxt)
      BY <1>7, <2>1, DescendsExists
    <3>2. g = [k \in Nat |-> IF k \in base THEN val[k] ELSE g[nxt[k]]]
      BY <3>1 DEF Descends
    <3> QED
      BY <3>2
<1>9. ASSUME NEW h PROVE [k \in Nat |-> IF k \in base THEN val[k] ELSE h[nxt[k]]] =
                  [k \in Nat |->
                    IF short(k) = {} THEN <<m(k), 0>>
                    ELSE IF m(k) > multiple THEN h[round_up(m(k) \div 2, multiple)]
                    ELSE <<m(k), MinOf(short(k))>>]
  <2> HIDE DEF short, m
  <2> QED
    OBVIOUS
<1>10. try = [k \in Nat |-> IF k \in base THEN val[k] ELSE try[nxt[k]]]
  <2> DEFINE Body(h) == [k \in Nat |->
                    IF short(k) = {} THEN <<m(k), 0>>
                    ELSE IF m(k) > multiple THEN h[round_up(m(k) \div 2, multiple)]
                    ELSE <<m(k), MinOf(short(k))>>]
  <2>1. g = Body(g)
    BY <1>8, <1>9
  <2>2. try = CHOOSE h : h = Body(h)
    OBVIOUS
  <2>3. try = Body(try)
    <3> HIDE DEF Body, try
    <3> QED
      BY <2>1, <2>2
  <2> HIDE DEF try
  <2> QED
    BY <1>9, <2>3
<1> HIDE DEF try
<1> DEFINE Good(k) ==
      /\ try[k][1] \in 0 .. k
      /\ try[k][2] = 0 => \A i \in DOMAIN ninput :
                            fixed_rate_noutput_to_ninput(b, try[k][1]) <= ninput[i]
      /\ try[k][2] # 0 => /\ try[k][2] \in DOMAIN ninput
                          /\ fixed_rate_noutput_to_ninput(b, try[k][1]) > ninput[try[k][2]]
                          /\ try[k][1] <= multiple
<1>11. ASSUME NEW k \in Nat, k \in base PROVE Good(k)
  <2>1. try[k] = val[k]
    <3> HIDE DEF base, val, nxt
    <3> QED
      BY <1>10, <1>11
  <2>2. CASE short(k) = {}
    <3>1. try[k] = <<m(k), 0>>
      BY <2>1, <2>2
    <3>2. \A i \in DOMAIN ninput : ~(fixed_rate_noutput_to_ninput(b, m(k)) > ninput[i])
      BY <2>2
    <3>3. m(k) \in 0 .. k /\ m(k) \in Nat
      BY <1>4
    <3> HIDE DEF m
    <3>4. fixed_rate_noutput_to_ninput(b, m(k)) \in Nat
      BY <3>3, NeedFact
    <3> QED
      BY <1>2, <3>1, <3>2, <3>3, <3>4
  <2>3. CASE short(k) # {}
    <3>1. try[k] = <<m(k), MinOf(short(k))>>
      BY <2>1, <2>3
    <3>2. MinOf(short(k)) \in short(k)
      BY <1>6, <2>3
    <3>3. m(k) \in 0 .. k /\ m(k) <= multiple
      BY <1>2, <1>4, <1>11, <2>3
    <3> DEFINE i == MinOf(short(k))
    <3>4. i \in DOMAIN ninput /\ fixed_rate_noutput_to_ninput(b, m(k)) > ninput[i]
      BY <3>2
    <3>5. try[k][1] = m(k) /\ try[k][2] = i /\ i # 0
      BY <1>2, <3>1, <3>4
    <3> HIDE DEF m, i
    <3> QED
      BY <3>3, <3>4, <3>5
  <2> QED
    BY <2>2, <2>3
<1>12. \A k \in Nat : Good(k)
  <2> DEFINE Bad == {k \in Nat : ~Good(k)}
  <2> SUFFICES ASSUME Bad # {} PROVE FALSE
    OBVIOUS
  <2>1. PICK x \in Bad : \A y \in Bad : x <= y
    <3>1. Bad \subseteq Nat
      OBVIOUS
    <3> HIDE DEF Bad
    <3> QED
      BY <3>1, Smallest
  <2>2. x \in Nat /\ ~Good(x)
    OBVIOUS
  <2>3. x \notin base
    <3> HIDE DEF Good
    <3> QED
      BY <1>11, <2>2
  <2>4. nxt[x] \in 0 .. x - 1
    <3> HIDE DEF base, nxt
    <3> QED
      BY <1>5, <2>2, <2>3
  <2> DEFINE y == nxt[x]
  <2>5. try[x] = try[y]
    <3> HIDE DEF base, val, nxt
    <3> QED
      BY <1>10, <2>2, <2>3
  <2>6. y \in Nat /\ y < x
    <3> HIDE DEF nxt
    <3> QED
      BY <2>2, <2>4
  <2> HIDE DEF y
  <2>7. y \notin Bad
    <3> HIDE DEF Bad
    <3> QED
      BY <2>1, <2>2, <2>6
  <2>8. Good(y)
    BY <2>6, <2>7
  <2>9. Good(x)
    BY <2>2, <2>5, <2>6, <2>8
  <2> QED
    BY <2>2, <2>9
<1> QED
  BY <1>1, <1>12 DEF multiple
-----------------------------------------------------------------------------
(* Whom a block notifies. *)

\* What a concatenation contains.
LEMMA ContainsConcat ==
  ASSUME NEW T, NEW s \in Seq(T), NEW t \in Seq(T), NEW e
  PROVE  Contains(s \o t, e) <=> Contains(s, e) \/ Contains(t, e)
<1>1. Len(s \o t) = Len(s) + Len(t) /\ Len(s) \in Nat /\ Len(t) \in Nat
  OBVIOUS
<1>2. ASSUME Contains(s, e) PROVE Contains(s \o t, e)
  <2>1. PICK i \in 1 .. Len(s) : s[i] = e
    BY <1>2 DEF Contains
  <2>2. i \in 1 .. Len(s \o t) /\ (s \o t)[i] = s[i]
    BY <1>1
  <2> QED
    BY <2>1, <2>2 DEF Contains
<1>3. ASSUME Contains(t, e) PROVE Contains(s \o t, e)
  <2>1. PICK i \in 1 .. Len(t) : t[i] = e
    BY <1>3 DEF Contains
  <2>2. i + Len(s) \in 1 .. Len(s \o t) /\ (s \o t)[i + Len(s)] = t[i]
    BY <1>1
  <2> QED
    BY <2>1, <2>2 DEF Contains
<1>4. ASSUME Contains(s \o t, e) PROVE Contains(s, e) \/ Contains(t, e)
  <2>1. PICK i \in 1 .. Len(s \o t) : (s \o t)[i] = e
    BY <1>4 DEF Contains
  <2>2. CASE i <= Len(s)
    BY <1>1, <2>1, <2>2 DEF Contains
  <2>3. CASE i > Len(s)
    <3>1. i - Len(s) \in 1 .. Len(t) /\ t[i - Len(s)] = (s \o t)[i]
      BY <1>1, <2>3
    <3> QED
      BY <2>1, <3>1 DEF Contains
  <2> QED
    BY <1>1, <2>2, <2>3
<1> QED
  BY <1>2, <1>3, <1>4

\* What FlattenSeq returns.
LEMMA FlattenFact ==
  ASSUME NEW T, NEW seqs \in Seq(Seq(T))
  PROVE  /\ FlattenSeq(seqs) \in Seq(T)
         /\ \A e : Contains(FlattenSeq(seqs), e) <=> \E i \in DOMAIN seqs : Contains(seqs[i], e)
<1> DEFINE N == Len(seqs)
           flatten == CHOOSE g : g = [i \in 1 .. N |-> IF i = 1 THEN seqs[i] ELSE g[i - 1] \o seqs[i]]
<1>1. N \in Nat /\ DOMAIN seqs = 1 .. N /\ \A i \in 1 .. N : seqs[i] \in Seq(T)
  OBVIOUS
<1>2. CASE N = 0
  <2>1. seqs = <<>>
    BY <1>2
  <2>2. FlattenSeq(seqs) = <<>>
    BY <1>2, <2>1 DEF FlattenSeq
  <2>3. DOMAIN seqs = {} /\ Len(<<>>) = 0 /\ <<>> \in Seq(T)
    BY <1>1, <1>2
  <2> QED
    BY <2>2, <2>3 DEF Contains
<1>3. CASE N > 0
  <2>1. FlattenSeq(seqs) = flatten[N]
    BY <1>1, <1>3 DEF FlattenSeq
  <2> DEFINE Fits(g, p) == \A i \in 1 .. p : g[i] = IF i = 1 THEN seqs[i] ELSE g[i - 1] \o seqs[i]
             Has(p) == \E g \in [1 .. p -> Seq(T)] : Fits(g, p)
             Bad == {p \in 1 .. N : ~Has(p)}
  <2>2. Has(N)
    <3> SUFFICES ASSUME ~Has(N) PROVE FALSE
      OBVIOUS
    <3>1. N \in Bad /\ Bad \subseteq Nat
      <4> HIDE DEF Has, N
      <4> QED
        BY <1>1, <1>3
    <3>2. PICK x \in Bad : \A y \in Bad : x <= y
      <4> HIDE DEF Bad, N
      <4> QED
        BY <3>1, Smallest
    <3>3. x \in 1 .. N /\ ~Has(x)
      OBVIOUS
    <3> HIDE DEF N
    <3>4. CASE x = 1
      <4> DEFINE g == [i \in 1 .. 1 |-> seqs[1]]
      <4>1. g \in [1 .. 1 -> Seq(T)] /\ Fits(g, 1)
        BY <1>1, <3>3, <3>4
      <4> QED
        BY <3>3, <3>4, <4>1
    <3>5. CASE x > 1
      <4>1. x - 1 \in 1 .. N
        BY <1>1, <3>3, <3>5
      <4>2. x - 1 \notin Bad
        <5> HIDE DEF Bad
        <5> QED
          BY <1>1, <3>2, <3>3, <4>1
      <4>3. PICK h \in [1 .. x - 1 -> Seq(T)] : Fits(h, x - 1)
        BY <4>1, <4>2
      <4> DEFINE g == [i \in 1 .. x |-> IF i = x THEN h[x - 1] \o seqs[x] ELSE h[i]]
      <4>4. h[x - 1] \o seqs[x] \in Seq(T)
        <5>1. h[x - 1] \in Seq(T) /\ seqs[x] \in Seq(T)
          BY <1>1, <3>3, <3>5, <4>1, <4>3
        <5> QED
          BY <5>1
      <4>5. g \in [1 .. x -> Seq(T)]
        BY <3>3, <4>3, <4>4
      <4>6. \A i \in 1 .. x - 1 : g[i] = h[i]
        BY <1>1, <3>3
      <4>7. g[x] = g[x - 1] \o seqs[x]
        <5>1. g[x] = h[x - 1] \o seqs[x]
          BY <1>1, <3>3
        <5>2. x - 1 \in 1 .. x - 1
          BY <1>1, <3>3, <3>5
        <5> HIDE DEF g
        <5> QED
          BY <4>6, <5>1, <5>2
      <4>8. ASSUME NEW i \in 1 .. x, i # x
            PROVE  g[i] = IF i = 1 THEN seqs[i] ELSE g[i - 1] \o seqs[i]
        <5>1. i \in 1 .. x - 1 /\ (i = 1 \/ i - 1 \in 1 .. x - 1)
          BY <1>1, <3>3, <4>8
        <5>2. h[i] = IF i = 1 THEN seqs[i] ELSE h[i - 1] \o seqs[i]
          BY <4>3, <5>1
        <5> HIDE DEF g
        <5> QED
          BY <4>6, <5>1, <5>2
      <4>9. Fits(g, x)
        <5> HIDE DEF g
        <5>1. x # 1
          BY <1>1, <3>3, <3>5
        <5>2. g[x] = IF x = 1 THEN seqs[x] ELSE g[x - 1] \o seqs[x]
          BY <4>7, <5>1, Zenon
        <5> QED
          BY <4>8, <5>2, Zenon
      <4> HIDE DEF g, Fits
      <4> QED
        BY <3>3, <4>5, <4>9
    <3> QED
      BY <1>1, <3>3, <3>4, <3>5
  <2>3. PICK g \in [1 .. N -> Seq(T)] : Fits(g, N)
    BY <2>2
  <2> DEFINE Body(h) == [i \in 1 .. N |-> IF i = 1 THEN seqs[i] ELSE h[i - 1] \o seqs[i]]
  <2>4. g = Body(g)
    <3>1. g = [i \in 1 .. N |-> g[i]]
      BY <2>3
    <3>2. \A i \in 1 .. N : g[i] = Body(g)[i]
      BY <2>3
    <3> QED
      BY <3>1, <3>2
  <2>5. flatten = CHOOSE h : h = Body(h)
    OBVIOUS
  <2>6. flatten = Body(flatten)
    <3> HIDE DEF Body, flatten
    <3> QED
      BY <2>4, <2>5
  <2> HIDE DEF flatten
  <2>7. \A i \in 1 .. N : flatten[i] = IF i = 1 THEN seqs[i] ELSE flatten[i - 1] \o seqs[i]
    <3> HIDE DEF N
    <3> QED
      BY <2>6
  <2> DEFINE Good(i) == /\ flatten[i] \in Seq(T)
                        /\ \A e : Contains(flatten[i], e) <=> \E j \in 1 .. i : Contains(seqs[j], e)
             Wrong == {i \in 1 .. N : ~Good(i)}
  <2>8. Good(N)
    <3> HIDE DEF N
    <3> SUFFICES ASSUME ~Good(N) PROVE FALSE
      OBVIOUS
    <3>1. N \in Wrong /\ Wrong \subseteq Nat
      BY <1>1, <1>3
    <3>2. PICK x \in Wrong : \A y \in Wrong : x <= y
      <4> HIDE DEF Wrong
      <4> QED
        BY <3>1, Smallest
    <3>3. x \in 1 .. N /\ ~Good(x)
      OBVIOUS
    <3>4. CASE x = 1
      <4>1. flatten[1] = seqs[1] /\ seqs[1] \in Seq(T)
        BY <1>1, <2>7, <3>3, <3>4
      <4>2. \A j \in 1 .. 1 : j = 1
        OBVIOUS
      <4>3. Good(1)
        BY <4>1, <4>2
      <4> QED
        BY <3>3, <3>4, <4>3
    <3>5. CASE x > 1
      <4>1. x - 1 \in 1 .. N
        BY <1>1, <3>3, <3>5
      <4>2. x - 1 \notin Wrong
        <5> HIDE DEF Wrong
        <5> QED
          BY <1>1, <3>2, <3>3, <4>1
      <4>3. Good(x - 1)
        <5> HIDE DEF Good
        <5> QED
          BY <4>1, <4>2
      <4>4. flatten[x] = flatten[x - 1] \o seqs[x] /\ seqs[x] \in Seq(T)
        <5>1. x # 1 /\ x \in 1 .. N
          BY <1>1, <3>3, <3>5
        <5>2. flatten[x] = IF x = 1 THEN seqs[x] ELSE flatten[x - 1] \o seqs[x]
          BY <2>7, <5>1, Zenon
        <5> QED
          BY <1>1, <5>1, <5>2, Zenon
      <4>5. flatten[x] \in Seq(T)
        BY <4>3, <4>4
      <4>6. \A e : Contains(flatten[x], e) <=> Contains(flatten[x - 1], e) \/ Contains(seqs[x], e)
        BY <4>3, <4>4, ContainsConcat
      <4>7. \A j : j \in 1 .. x <=> j \in 1 .. x - 1 \/ j = x
        BY <1>1, <3>3
      <4>8. ASSUME NEW e
            PROVE  Contains(flatten[x], e) <=> \E j \in 1 .. x : Contains(seqs[j], e)
        <5>1. Contains(flatten[x - 1], e) <=> \E j \in 1 .. x - 1 : Contains(seqs[j], e)
          BY <4>3
        <5> QED
          BY <4>6, <4>7, <5>1
      <4>9. Good(x)
        BY <4>5, <4>8
      <4> HIDE DEF Good
      <4> QED
        BY <3>3, <4>9
    <3> QED
      BY <1>1, <3>3, <3>4, <3>5
  <2>9. \A e : Contains(flatten[N], e) <=> \E i \in DOMAIN seqs : Contains(seqs[i], e)
    BY <1>1, <2>8
  <2> QED
    BY <2>1, <2>8, <2>9
<1> QED
  BY <1>1, <1>2, <1>3
-----------------------------------------------------------------------------
(* The flowgraph. *)

Notices == {"input", "output"} \X Blocks

\* The ports of a block.
LEMMA PortFact ==
  ASSUME NEW b \in Blocks
  PROVE  /\ DOMAIN Ins[b] = 1 .. Len(Ins[b]) /\ Len(Ins[b]) \in Nat
         /\ \A i \in DOMAIN Ins[b] : Ins[b][i] \in Bufs /\ Ins[b][i] \in Range(Ins[b])
         /\ \A i, j \in DOMAIN Ins[b] : Ins[b][i] = Ins[b][j] => i = j
         /\ DOMAIN Outs[b] = 1 .. Len(Outs[b]) /\ Len(Outs[b]) \in Nat
         /\ \A o \in DOMAIN Outs[b] : Outs[b][o] \in Bufs /\ Writer[Outs[b][o]] = b
         /\ \A o, p \in DOMAIN Outs[b] : Outs[b][o] = Outs[b][p] => o = p
         /\ Len(Ins[b]) + Len(Outs[b]) > 0
         /\ source_p(b) <=> Len(Ins[b]) = 0
         /\ sink_p(b) <=> Len(Outs[b]) = 0
<1>1. /\ Ins[b] \in Seq(Bufs) /\ Outs[b] \in Seq(Bufs)
      /\ IsInjective(Ins[b]) /\ IsInjective(Outs[b])
      /\ \A o \in DOMAIN Outs[b] : Writer[Outs[b][o]] = b
      /\ Ins[b] # <<>> \/ Outs[b] # <<>>
  BY GraphAssumption
<1>2. /\ DOMAIN Ins[b] = 1 .. Len(Ins[b]) /\ Len(Ins[b]) \in Nat
      /\ \A i \in DOMAIN Ins[b] : Ins[b][i] \in Bufs /\ Ins[b][i] \in Range(Ins[b])
      /\ DOMAIN Outs[b] = 1 .. Len(Outs[b]) /\ Len(Outs[b]) \in Nat
      /\ \A o \in DOMAIN Outs[b] : Outs[b][o] \in Bufs
  BY <1>1 DEF Range
<1>3. Ins[b] = <<>> <=> Len(Ins[b]) = 0
  BY <1>1
<1>4. Outs[b] = <<>> <=> Len(Outs[b]) = 0
  BY <1>1
<1>5. /\ \A i, j \in DOMAIN Ins[b] : Ins[b][i] = Ins[b][j] => i = j
      /\ \A o, p \in DOMAIN Outs[b] : Outs[b][o] = Outs[b][p] => o = p
  BY <1>1, Zenon DEF IsInjective
<1>6. Len(Ins[b]) + Len(Outs[b]) > 0
  <2>1. Len(Ins[b]) # 0 \/ Len(Outs[b]) # 0
    BY <1>1, <1>3, <1>4, Zenon
  <2>2. Len(Ins[b]) \in Nat /\ Len(Outs[b]) \in Nat
    BY <1>2
  <2>3. \A x, y \in Nat : x # 0 \/ y # 0 => x + y > 0
    OBVIOUS
  <2> QED
    BY <2>1, <2>2, <2>3, Zenon
<1>7. (source_p(b) <=> Len(Ins[b]) = 0) /\ (sink_p(b) <=> Len(Outs[b]) = 0)
  BY <1>3, <1>4, Zenon DEF source_p, sink_p
<1> QED
  BY <1>1, <1>2, <1>5, <1>6, <1>7, Zenon

\* The loop indices stay below the number of ports.
LEMMA PortBound ==
  ASSUME NEW b \in Blocks
  PROVE  /\ 1 <= Len(Outs[b]) + Len(Ins[b])
         /\ \A k \in Nat : /\ k \in 1 .. Len(Ins[b]) /\ k # Len(Ins[b]) => k < Len(Ins[b])
                           /\ k < Len(Ins[b]) => k + 1 <= Len(Outs[b]) + Len(Ins[b])
                           /\ k < Len(Outs[b]) => k + 1 <= Len(Outs[b]) + Len(Ins[b])
                           /\ k < Len(Outs[b]) + Len(Ins[b]) => k + 1 <= Len(Outs[b]) + Len(Ins[b])
<1> DEFINE x == Len(Outs[b])  y == Len(Ins[b])
<1>1. x \in Nat /\ y \in Nat /\ y + x > 0
  BY PortFact
<1> HIDE DEF x, y
<1>2. /\ 1 <= x + y
      /\ \A k \in Nat : /\ k \in 1 .. y /\ k # y => k < y
                        /\ k < y => k + 1 <= x + y
                        /\ k < x => k + 1 <= x + y
                        /\ k < x + y => k + 1 <= x + y
  BY <1>1
<1> QED
  BY <1>2 DEF x, y

\* The readers of a buffer.
LEMMA ReaderFact ==
  ASSUME NEW f \in Bufs
  PROVE  /\ DOMAIN Rdrs[f] = 1 .. Len(Rdrs[f]) /\ Len(Rdrs[f]) \in Nat \ {0}
         /\ Writer[f] \in Blocks
         /\ \E o \in DOMAIN Outs[Writer[f]] : Outs[Writer[f]][o] = f
         /\ \A j \in DOMAIN Rdrs[f] : /\ Rdrs[f][j] \in Blocks
                                      /\ f \in Range(Ins[Rdrs[f][j]])
                                      /\ \E i \in DOMAIN Ins[Rdrs[f][j]] : Ins[Rdrs[f][j]][i] = f
<1>1. /\ Rdrs[f] \in Seq(Blocks) /\ Rdrs[f] # <<>> /\ Writer[f] \in Blocks
      /\ \A j \in DOMAIN Rdrs[f] : Contains(Ins[Rdrs[f][j]], f)
      /\ \E o \in DOMAIN Outs[Writer[f]] : Outs[Writer[f]][o] = f
  BY GraphAssumption
<1>2. /\ DOMAIN Rdrs[f] = 1 .. Len(Rdrs[f]) /\ Len(Rdrs[f]) \in Nat \ {0}
      /\ \A j \in DOMAIN Rdrs[f] : Rdrs[f][j] \in Blocks
  BY <1>1
<1>3. ASSUME NEW j \in DOMAIN Rdrs[f]
      PROVE  \E i \in DOMAIN Ins[Rdrs[f][j]] : Ins[Rdrs[f][j]][i] = f
  <2>1. Rdrs[f][j] \in Blocks
    BY <1>2
  <2>2. DOMAIN Ins[Rdrs[f][j]] = 1 .. Len(Ins[Rdrs[f][j]])
    BY <2>1, PortFact
  <2> QED
    BY <1>1, <2>2 DEF Contains
<1>4. \A j \in DOMAIN Rdrs[f] : f \in Range(Ins[Rdrs[f][j]])
  BY <1>3 DEF Range
<1> QED
  BY <1>1, <1>2, <1>3, <1>4, Zenon

\* A block is a reader of its inputs.
LEMMA ReadsFact ==
  ASSUME NEW b \in Blocks, NEW i \in DOMAIN Ins[b]
  PROVE  \E j \in DOMAIN Rdrs[Ins[b][i]] : Rdrs[Ins[b][i]][j] = b
<1>1. Ins[b][i] \in Bufs
  BY PortFact
<1>2. Contains(Rdrs[Ins[b][i]], b)
  BY GraphAssumption
<1> QED
  BY <1>1, <1>2, ReaderFact DEF Contains

\* notify_downstream tells every reader of every output.
LEMMA DownstreamFact ==
  ASSUME NEW b \in Blocks
  PROVE  /\ Downstream(b) \in Seq(Notices)
         /\ \A o \in DOMAIN Outs[b] : \A j \in DOMAIN Rdrs[Outs[b][o]] :
              Contains(Downstream(b), <<"input", Rdrs[Outs[b][o]][j]>>)
<1> DEFINE told(o) == [j \in DOMAIN Rdrs[Outs[b][o]] |-> <<"input", Rdrs[Outs[b][o]][j]>>]
           seqs == [o \in DOMAIN Outs[b] |-> told(o)]
<1>1. ASSUME NEW o \in DOMAIN Outs[b]
      PROVE  /\ told(o) \in Seq(Notices)
             /\ \A j \in DOMAIN Rdrs[Outs[b][o]] : Contains(told(o), <<"input", Rdrs[Outs[b][o]][j]>>)
  <2> DEFINE f == Outs[b][o]  t == [j \in 1 .. Len(Rdrs[f]) |-> <<"input", Rdrs[f][j]>>]
  <2>1. f \in Bufs
    BY PortFact
  <2> HIDE DEF f
  <2>2. DOMAIN Rdrs[f] = 1 .. Len(Rdrs[f]) /\ Len(Rdrs[f]) \in Nat
        /\ \A j \in DOMAIN Rdrs[f] : Rdrs[f][j] \in Blocks
    BY <2>1, ReaderFact
  <2>3. \A j \in 1 .. Len(Rdrs[f]) : <<"input", Rdrs[f][j]>> \in Notices
    BY <2>2 DEF Notices
  <2>4. t \in Seq(Notices) /\ Len(t) = Len(Rdrs[f])
    BY <2>2, <2>3
  <2>5. told(o) = t
    BY <2>2 DEF f
  <2>6. \A j \in 1 .. Len(Rdrs[f]) : Contains(t, <<"input", Rdrs[f][j]>>)
    BY <2>4 DEF Contains
  <2> HIDE DEF told, t
  <2> QED
    BY <2>2, <2>4, <2>5, <2>6 DEF f
<1>2. DOMAIN Outs[b] = 1 .. Len(Outs[b]) /\ Len(Outs[b]) \in Nat
  BY PortFact
<1>3. Downstream(b) = FlattenSeq(seqs)
  BY DEF Downstream
<1> HIDE DEF told
<1>4. seqs \in Seq(Seq(Notices)) /\ DOMAIN seqs = DOMAIN Outs[b]
  <2>1. \A o \in 1 .. Len(Outs[b]) : told(o) \in Seq(Notices)
    BY <1>1, <1>2
  <2> DEFINE S == Seq(Notices)
  <2>2. \A o \in 1 .. Len(Outs[b]) : told(o) \in S
    BY <2>1
  <2> HIDE DEF S
  <2>3. [o \in 1 .. Len(Outs[b]) |-> told(o)] \in Seq(S)
    BY <1>2, <2>2
  <2> QED
    BY <1>2, <2>3 DEF S
<1>5. \A o \in DOMAIN seqs : seqs[o] = told(o)
  OBVIOUS
<1> HIDE DEF seqs
<1>6. /\ FlattenSeq(seqs) \in Seq(Notices)
      /\ \A e : Contains(FlattenSeq(seqs), e) <=> \E i \in DOMAIN seqs : Contains(seqs[i], e)
  BY <1>4, FlattenFact
<1>7. ASSUME NEW o \in DOMAIN Outs[b], NEW j \in DOMAIN Rdrs[Outs[b][o]]
      PROVE  Contains(FlattenSeq(seqs), <<"input", Rdrs[Outs[b][o]][j]>>)
  BY <1>1, <1>4, <1>5, <1>6
<1> QED
  BY <1>3, <1>6, <1>7

\* notify_upstream tells the writer of every input.
LEMMA UpstreamFact ==
  ASSUME NEW b \in Blocks
  PROVE  /\ Upstream(b) \in Seq(Notices)
         /\ \A i \in DOMAIN Ins[b] : Contains(Upstream(b), <<"output", Writer[Ins[b][i]]>>)
<1>1. DOMAIN Ins[b] = 1 .. Len(Ins[b]) /\ Len(Ins[b]) \in Nat
  BY PortFact
<1>2. \A i \in DOMAIN Ins[b] : Writer[Ins[b][i]] \in Blocks
  BY PortFact, ReaderFact
<1>3. \A i \in 1 .. Len(Ins[b]) : <<"output", Writer[Ins[b][i]]>> \in Notices
  BY <1>1, <1>2 DEF Notices
<1>4. Upstream(b) = [i \in 1 .. Len(Ins[b]) |-> <<"output", Writer[Ins[b][i]]>>]
  BY <1>1 DEF Upstream
<1>5. Upstream(b) \in Seq(Notices) /\ Len(Upstream(b)) = Len(Ins[b])
  BY <1>1, <1>3, <1>4
<1>6. \A i \in 1 .. Len(Ins[b]) : Contains(Upstream(b), <<"output", Writer[Ins[b][i]]>>)
  BY <1>4, <1>5 DEF Contains
<1> QED
  BY <1>1, <1>5, <1>6
-----------------------------------------------------------------------------
(* The buffers. *)

\* What a reader finds in a buffer is a number.
LEMMA AvailableType ==
  ASSUME TypeOK, NEW b \in Blocks, NEW i \in DOMAIN Ins[b]
  PROVE  items_available(b, Ins[b][i]) \in Int
<1>1. Ins[b][i] \in Bufs /\ Ins[b][i] \in Range(Ins[b])
  BY PortFact
<1>2. written[Ins[b][i]] \in Nat /\ items_read[b][Ins[b][i]] \in Nat
  BY <1>1 DEF TypeOK
<1> QED
  BY <1>2, SizeAssumption DEF items_available

\* A reader's view of its input is within the buffer.
LEMMA InputFill ==
  ASSUME FillInv, NEW b \in Blocks, NEW i \in DOMAIN Ins[b]
  PROVE  items_available(b, Ins[b][i]) \in 0 .. BufSize - 1
<1>1. Ins[b][i] \in Bufs
  BY PortFact
<1>2. PICK j \in DOMAIN Rdrs[Ins[b][i]] : Rdrs[Ins[b][i]][j] = b
  BY ReadsFact
<1> QED
  BY <1>1, <1>2 DEF FillInv

\* The smaller of two numbers.
LEMMA MinOfTwo ==
  ASSUME NEW x \in Nat, NEW y \in Nat
  PROVE  /\ MinOf({x, y}) \in Nat /\ MinOf({x, y}) <= x /\ MinOf({x, y}) <= y
         /\ MinOf({x, y}) = x \/ MinOf({x, y}) = y
<1>1. {x, y} \subseteq Nat /\ {x, y} # {}
  OBVIOUS
<1>2. MinOf({x, y}) \in {x, y} /\ \A z \in {x, y} : MinOf({x, y}) <= z
  BY <1>1, MinOfFact
<1> QED
  BY <1>2

\* space_available is the room behind the slowest reader.
LEMMA SpaceFact ==
  ASSUME FillInv, NEW f \in Bufs
  PROVE  /\ space_available(f) \in 0 .. BufSize - 1
         /\ \A k \in Int : k <= space_available(f) <=> Room(f, k)
<1> DEFINE S == {items_available(Rdrs[f][j], f) : j \in DOMAIN Rdrs[f]}
           most == MaxOf(S)
<1>1. \A j \in DOMAIN Rdrs[f] : items_available(Rdrs[f][j], f) \in 0 .. BufSize - 1
  BY DEF FillInv
<1>2. BufSize - 1 \in Nat
  BY SizeAssumption
<1>3. S \subseteq 0 .. BufSize - 1 /\ S # {}
  <2>1. 1 \in DOMAIN Rdrs[f]
    BY ReaderFact
  <2> QED
    BY <1>1, <2>1
<1>4. most \in S /\ \A y \in S : most >= y
  <2> HIDE DEF S
  <2> QED
    BY <1>2, <1>3, MaxOfFact
<1>5. PICK j0 \in DOMAIN Rdrs[f] : most = items_available(Rdrs[f][j0], f)
  BY <1>4
<1>6. \A j \in DOMAIN Rdrs[f] : most >= items_available(Rdrs[f][j], f)
  BY <1>4
<1>7. space_available(f) = BufSize - 1 - most
  BY DEF space_available
<1> HIDE DEF most, S
<1>8. most \in 0 .. BufSize - 1
  BY <1>1, <1>5
<1>9. BufSize \in Nat
  BY SizeAssumption
<1>10. space_available(f) \in 0 .. BufSize - 1
  BY <1>2, <1>7, <1>8, <1>9
<1>11. ASSUME NEW k \in Int, k <= space_available(f) PROVE Room(f, k)
  <2>1. ASSUME NEW j \in DOMAIN Rdrs[f] PROVE items_available(Rdrs[f][j], f) + k <= BufSize - 1
    BY <1>1, <1>6, <1>7, <1>8, <1>9, <1>11
  <2> QED
    BY <2>1 DEF Room
<1>12. ASSUME NEW k \in Int, Room(f, k) PROVE k <= space_available(f)
  <2>1. most + k <= BufSize - 1
    BY <1>5, <1>12 DEF Room
  <2> QED
    BY <1>7, <1>8, <1>9, <2>1
<1> QED
  BY <1>10, <1>11, <1>12

\* What fits, fits with less.
LEMMA RoomLess ==
  ASSUME FillInv, NEW f \in Bufs, NEW k \in Int, NEW l \in Int, l <= k, Room(f, k)
  PROVE  Room(f, l)
<1>1. ASSUME NEW j \in DOMAIN Rdrs[f] PROVE items_available(Rdrs[f][j], f) + l <= BufSize - 1
  BY SizeAssumption DEF FillInv, Room
<1> QED
  BY <1>1 DEF Room

\* How far min_available_space may go.
LEMMA OutputFact ==
  ASSUME FillInv, NEW b \in Blocks, NEW o \in DOMAIN Outs[b], NEW k,
         k = round_down(MinOf({space_available(Outs[b][o]), BufSize \div 2}), OutputMultiple[b])
  PROVE  /\ k \in 0 .. BufSize - 1 /\ Room(Outs[b][o], k)
         /\ k = 0 => o \in OutputFull(b)
<1> DEFINE f == Outs[b][o]
           x == MinOf({space_available(f), BufSize \div 2})
<1>1. f \in Bufs
  BY PortFact
<1> HIDE DEF f
<1>2. space_available(f) \in 0 .. BufSize - 1 /\ BufSize \in Nat /\ BufSize \div 2 \in Nat
  BY <1>1, SpaceFact, SizeAssumption
<1>3. x \in Nat /\ x <= space_available(f)
  BY <1>2, MinOfTwo
<1>4. k = round_down(x, OutputMultiple[b])
  BY DEF f
<1>5. OutputFull(b) = {p \in DOMAIN Outs[b] :
        MinOf({space_available(Outs[b][p]), BufSize \div 2}) < OutputMultiple[b]}
  BY DEF OutputFull
<1>6. x < OutputMultiple[b] => o \in OutputFull(b)
  BY <1>5 DEF f
<1> HIDE DEF x
<1>7. OutputMultiple[b] \in Nat \ {0}
  BY SizeAssumption
<1>8. k \in 0 .. x
  BY <1>3, <1>4, <1>7, RoundFact
<1>9. k \in 0 .. BufSize - 1 /\ k <= space_available(f)
  BY <1>2, <1>3, <1>8
<1>10. Room(f, k)
  BY <1>1, <1>9, SpaceFact
<1>11. k = 0 => x < OutputMultiple[b]
  BY <1>3, <1>4, <1>7, RoundZero
<1> QED
  BY <1>6, <1>9, <1>10, <1>11 DEF f

\* The items a sink would take, were its inputs all as long as the longest.
LEMMA SwagFact ==
  ASSUME NEW b \in Blocks, NEW ninput \in Seq(0 .. BufSize - 1), ninput # <<>>, NEW k,
         k = round_down(MaxOf(Range(ninput)) \div Decimation[b], OutputMultiple[b])
  PROVE  /\ k \in 0 .. BufSize - 1
         /\ k = 0 => \A i \in DOMAIN ninput : ninput[i] < OutputMultiple[b] * Decimation[b]
<1> DEFINE x == MaxOf(Range(ninput))
           h == x \div Decimation[b]
<1>1. Range(ninput) \subseteq 0 .. BufSize - 1 /\ Range(ninput) # {} /\ BufSize - 1 \in Nat
  BY SnapshotRange
<1>2. x \in Range(ninput) /\ \A y \in Range(ninput) : x >= y
  BY <1>1, MaxOfFact
<1>3. \A i \in DOMAIN ninput : ninput[i] \in Range(ninput)
  BY DEF Range
<1>4. k = round_down(h, OutputMultiple[b])
  OBVIOUS
<1> HIDE DEF x
<1>5. x \in 0 .. BufSize - 1
  BY <1>1, <1>2
<1>6. Decimation[b] \in Nat \ {0} /\ OutputMultiple[b] \in Nat \ {0} /\ BufSize \in Nat
  BY SizeAssumption
<1>7. h \in Nat /\ h <= x /\ \A m \in Nat : h < m => x < m * Decimation[b]
  <2>1. x \in Nat
    BY <1>5
  <2> QED
    BY <1>6, <2>1, DivFact
<1> HIDE DEF h
<1>9. k \in 0 .. h
  BY <1>4, <1>6, <1>7, RoundFact
<1>10. k \in 0 .. BufSize - 1
  BY <1>5, <1>6, <1>7, <1>9
<1>11. k = 0 => h < OutputMultiple[b]
  BY <1>4, <1>6, <1>7, RoundZero
<1>12. k = 0 => x < OutputMultiple[b] * Decimation[b]
  BY <1>6, <1>7, <1>11
<1>13. OutputMultiple[b] * Decimation[b] \in Nat
  BY <1>6
<1>14. ASSUME k = 0, NEW i \in DOMAIN ninput PROVE ninput[i] < OutputMultiple[b] * Decimation[b]
  <2>1. ninput[i] \in 0 .. BufSize - 1 /\ x >= ninput[i]
    BY <1>1, <1>2, <1>3
  <2> QED
    BY <1>5, <1>6, <1>12, <1>13, <1>14, <2>1
<1> QED
  BY <1>10, <1>14
-----------------------------------------------------------------------------
(* What run_one_iteration does before it calls work(). *)

\* The three ways out of the try_again loop.
LEMMA DecideFact ==
  ASSUME NEW b \in Blocks, NEW ninput \in Seq(0 .. BufSize - 1), ninput # <<>>, NEW done,
         NEW nout \in Nat, Decide(b, ninput, done, nout)
  PROVE  \/ /\ \E m \in 0 .. nout :
                 /\ noutput_items' = [noutput_items EXCEPT ![b] = m]
                 /\ \A i \in DOMAIN ninput : fixed_rate_noutput_to_ninput(b, m) <= ninput[i]
            /\ Goto(b, "work") /\ UNCHANGED <<d_done, idx>>
         \/ /\ \E i \in DOMAIN ninput :
                 /\ ninput[i] < fixed_rate_noutput_to_ninput(b, OutputMultiple[b])
                 /\ done[i] \/ fixed_rate_noutput_to_ninput(b, OutputMultiple[b]) > BufSize - 1
            /\ WereDone(b) /\ UNCHANGED noutput_items
         \/ /\ \E i \in DOMAIN ninput :
                 /\ ninput[i] < fixed_rate_noutput_to_ninput(b, OutputMultiple[b])
                 /\ ~done[i]
            /\ Goto(b, "blkd_in") /\ UNCHANGED <<d_done, idx, noutput_items>>
<1> DEFINE t == try_again(b, ninput, nout)
           m == t[1]
           i == t[2]
<1>1. /\ m \in 0 .. nout
      /\ i = 0 => \A j \in DOMAIN ninput : fixed_rate_noutput_to_ninput(b, m) <= ninput[j]
      /\ i # 0 => /\ i \in DOMAIN ninput
                  /\ fixed_rate_noutput_to_ninput(b, m) > ninput[i]
                  /\ m <= OutputMultiple[b]
  BY TryFact
<1>2. \/ /\ i = 0
         /\ noutput_items' = [noutput_items EXCEPT ![b] = m]
         /\ Goto(b, "work")
         /\ UNCHANGED <<d_done, idx>>
      \/ /\ i # 0
         /\ done[i] \/ fixed_rate_noutput_to_ninput(b, m) > BufSize - 1
         /\ WereDone(b)
         /\ UNCHANGED noutput_items
      \/ /\ i # 0
         /\ ~done[i]
         /\ Goto(b, "blkd_in")
         /\ UNCHANGED <<d_done, idx, noutput_items>>
  BY Zenon DEF Decide
<1> HIDE DEF m, i
<1>3. CASE i = 0
  BY <1>1, <1>2, <1>3, Zenon
<1>4. CASE i # 0
  <2>1. i \in DOMAIN ninput /\ ninput[i] \in 0 .. BufSize - 1 /\ m \in Nat
    BY <1>1, <1>4, SnapshotRange
  <2>2. OutputMultiple[b] \in Nat /\ BufSize \in Nat
    BY SizeAssumption
  <2>3. /\ fixed_rate_noutput_to_ninput(b, m) \in Nat
        /\ fixed_rate_noutput_to_ninput(b, OutputMultiple[b]) \in Nat
        /\ fixed_rate_noutput_to_ninput(b, m) <= fixed_rate_noutput_to_ninput(b, OutputMultiple[b])
    BY <1>1, <1>4, <2>1, <2>2, NeedFact
  <2>4. ninput[i] < fixed_rate_noutput_to_ninput(b, OutputMultiple[b])
    BY <1>1, <1>4, <2>1, <2>2, <2>3
  <2>5. fixed_rate_noutput_to_ninput(b, m) > BufSize - 1
          => fixed_rate_noutput_to_ninput(b, OutputMultiple[b]) > BufSize - 1
    BY <2>2, <2>3
  <2> QED
    BY <1>2, <1>4, <2>1, <2>4, <2>5, Zenon
<1> QED
  BY <1>3, <1>4

\* The snapshots with one more input.
Seen(b) == Append(d_ninput_items[b], items_available(b, Ins[b][idx[b]]))
SeenDone(b) == Append(d_input_done[b], buf_done[Ins[b][idx[b]]])

\* What the snapshots hold then.
LEMMA SeenFact ==
  ASSUME TpbInv, NEW b \in Blocks, pc[b] = "inputs"
  PROVE  /\ idx[b] \in DOMAIN Ins[b] /\ idx[b] \in 1 .. Len(Ins[b])
         /\ Seen(b) \in Seq(0 .. BufSize - 1) /\ Seen(b) # <<>> /\ Len(Seen(b)) = idx[b]
         /\ SeenDone(b) \in Seq(BOOLEAN) /\ Len(SeenDone(b)) = idx[b]
         /\ DOMAIN d_ninput_items[b] = 1 .. idx[b] - 1
         /\ \A i \in DOMAIN Seen(b) :
              \/ /\ i = idx[b]
                 /\ Seen(b)[i] = items_available(b, Ins[b][i])
                 /\ SeenDone(b)[i] = buf_done[Ins[b][i]]
              \/ /\ i \in DOMAIN d_ninput_items[b]
                 /\ Seen(b)[i] = d_ninput_items[b][i]
                 /\ SeenDone(b)[i] = d_input_done[b][i]
         /\ \A i \in DOMAIN Seen(b) : /\ i \in DOMAIN Ins[b]
                                      /\ Seen(b)[i] <= items_available(b, Ins[b][i])
         /\ Last(Seen(b)) = items_available(b, Ins[b][idx[b]])
         /\ Last(SeenDone(b)) = buf_done[Ins[b][idx[b]]]
<1> DEFINE k == idx[b]
           f == Ins[b][k]
           s == d_ninput_items[b]
           t == d_input_done[b]
           S == 0 .. BufSize - 1
<1>1. k \in DOMAIN Ins[b] /\ k \in 1 .. Len(Ins[b]) /\ k \in Nat /\ DOMAIN Ins[b] = 1 .. Len(Ins[b])
      /\ Len(Ins[b]) \in Nat
  <2>1. k \in DOMAIN Ins[b] /\ k \in Nat
    BY DEF TpbInv, TypeOK, LoopInv
  <2> QED
    BY <2>1, PortFact
<1>2. items_available(b, f) \in S
  BY <1>1, InputFill DEF TpbInv
<1>3. f \in Bufs
  BY <1>1, PortFact
<1>4. buf_done[f] \in BOOLEAN
  BY <1>3 DEF TpbInv, TypeOK
<1>5. s \in Seq(S) /\ t \in Seq(BOOLEAN) /\ Len(s) = k - 1 /\ Len(t) = k - 1
  BY DEF TpbInv, TypeOK, LoopInv
<1>6. \A i \in DOMAIN s : s[i] <= items_available(b, Ins[b][i])
  BY DEF TpbInv, PromiseInv
<1>7. Seen(b) = Append(s, items_available(b, f)) /\ SeenDone(b) = Append(t, buf_done[f])
  BY DEF Seen, SeenDone
<1> DEFINE x == items_available(b, f)  y == buf_done[f]
<1> HIDE DEF s, t, S, k, x, y
<1>8. DOMAIN s = 1 .. k - 1 /\ DOMAIN t = 1 .. k - 1
  BY <1>5
<1>9. /\ Seen(b) \in Seq(S) /\ Len(Seen(b)) = k /\ DOMAIN Seen(b) = 1 .. k
      /\ \A i \in 1 .. k - 1 : Seen(b)[i] = s[i]
      /\ Seen(b)[k] = x
  BY <1>1, <1>2, <1>5, <1>7 DEF x
<1>10. /\ SeenDone(b) \in Seq(BOOLEAN) /\ Len(SeenDone(b)) = k
       /\ \A i \in 1 .. k - 1 : SeenDone(b)[i] = t[i]
       /\ SeenDone(b)[k] = y
  <2> DEFINE BB == BOOLEAN
  <2>1. y \in BB /\ t \in Seq(BB) /\ SeenDone(b) = Append(t, y)
    BY <1>4, <1>5, <1>7 DEF y
  <2> HIDE DEF BB
  <2>2. /\ SeenDone(b) \in Seq(BB) /\ Len(SeenDone(b)) = k
        /\ \A i \in 1 .. k - 1 : SeenDone(b)[i] = t[i]
        /\ SeenDone(b)[k] = y
    BY <1>1, <1>5, <2>1, AppendProperties
  <2> QED
    BY <2>2 DEF BB
<1>11. Seen(b) # <<>>
  BY <1>1, <1>9
<1>12. \A i \in 1 .. k : i = k \/ i \in 1 .. k - 1
  BY <1>1
<1>13. Last(Seen(b)) = x /\ Last(SeenDone(b)) = y
  BY <1>9, <1>10, Zenon DEF Last
<1>14. \A i \in 1 .. k : i \in DOMAIN Ins[b]
  BY <1>1
<1>15. x = items_available(b, Ins[b][k]) /\ y = buf_done[Ins[b][k]] /\ x <= x
  BY <1>2, SizeAssumption DEF x, y, S
<1>16. \A i \in DOMAIN Seen(b) : /\ i \in DOMAIN Ins[b]
                                 /\ Seen(b)[i] <= items_available(b, Ins[b][i])
  BY <1>6, <1>8, <1>9, <1>12, <1>14, <1>15, Zenon
<1>17. \A i \in DOMAIN Seen(b) :
              \/ /\ i = k
                 /\ Seen(b)[i] = items_available(b, Ins[b][i])
                 /\ SeenDone(b)[i] = buf_done[Ins[b][i]]
              \/ /\ i \in DOMAIN s
                 /\ Seen(b)[i] = s[i]
                 /\ SeenDone(b)[i] = t[i]
  BY <1>8, <1>9, <1>10, <1>12, <1>15, Zenon
<1> QED
  BY <1>1, <1>8, <1>9, <1>10, <1>11, <1>13, <1>15, <1>16, <1>17 DEF s, t, k, S

\* One turn of the loop over the inputs.
LEMMA ReadFact ==
  ASSUME TpbInv, NEW b \in Blocks, ReadInput(b)
  PROVE  /\ pc[b] = "inputs"
         /\ UNCHANGED <<bufVars, tpbVars, todo, nproduced, n, posted, stopVars>>
         /\ \/ /\ sink_p(b) /\ items_available(b, Ins[b][idx[b]]) < OutputMultiple[b]
               /\ buf_done[Ins[b][idx[b]]]
               /\ WereDone(b) /\ ForgetSnapshots(b) /\ UNCHANGED noutput_items
            \/ /\ sink_p(b) => ~(/\ items_available(b, Ins[b][idx[b]]) < OutputMultiple[b]
                                 /\ buf_done[Ins[b][idx[b]]])
               /\ \/ /\ idx[b] # Len(Ins[b])
                     /\ idx' = [idx EXCEPT ![b] = @ + 1]
                     /\ d_ninput_items' = [d_ninput_items EXCEPT ![b] = Seen(b)]
                     /\ d_input_done' = [d_input_done EXCEPT ![b] = SeenDone(b)]
                     /\ UNCHANGED <<pc, d_done, noutput_items>>
                  \/ /\ idx[b] = Len(Ins[b]) /\ ~sink_p(b)
                     /\ idx' = [idx EXCEPT ![b] = 1]
                     /\ d_ninput_items' = [d_ninput_items EXCEPT ![b] = Seen(b)]
                     /\ d_input_done' = [d_input_done EXCEPT ![b] = SeenDone(b)]
                     /\ Goto(b, "outputs")
                     /\ UNCHANGED <<d_done, noutput_items>>
                  \/ /\ idx[b] = Len(Ins[b]) /\ sink_p(b)
                     /\ \A i \in DOMAIN Seen(b) :
                          Seen(b)[i] < OutputMultiple[b] * Decimation[b]
                     /\ Goto(b, "blkd_in")
                     /\ ForgetSnapshots(b) /\ UNCHANGED <<d_done, idx, noutput_items>>
                  \/ /\ idx[b] = Len(Ins[b]) /\ sink_p(b)
                     /\ \E k \in 0 .. BufSize - 1 : Decide(b, Seen(b), SeenDone(b), k)
                     /\ ForgetSnapshots(b)
<1> DEFINE swag == round_down(MaxOf(Range(Seen(b))) \div Decimation[b], OutputMultiple[b])
           last == idx[b] = Len(Ins[b])
<1>1. /\ pc[b] = "inputs"
      /\ UNCHANGED <<bufVars, tpbVars, todo, nproduced, n, posted, stopVars>>
      /\ \/ /\ sink_p(b) /\ Last(Seen(b)) < OutputMultiple[b] /\ Last(SeenDone(b))
            /\ WereDone(b)
            /\ ForgetSnapshots(b) /\ UNCHANGED noutput_items
         \/ /\ ~(sink_p(b) /\ Last(Seen(b)) < OutputMultiple[b] /\ Last(SeenDone(b)))
            /\ \/ /\ ~last
                  /\ idx' = [idx EXCEPT ![b] = @ + 1]
                  /\ d_ninput_items' = [d_ninput_items EXCEPT ![b] = Seen(b)]
                  /\ d_input_done' = [d_input_done EXCEPT ![b] = SeenDone(b)]
                  /\ UNCHANGED <<pc, d_done, noutput_items>>
               \/ /\ last /\ ~sink_p(b)
                  /\ idx' = [idx EXCEPT ![b] = 1]
                  /\ d_ninput_items' = [d_ninput_items EXCEPT ![b] = Seen(b)]
                  /\ d_input_done' = [d_input_done EXCEPT ![b] = SeenDone(b)]
                  /\ Goto(b, "outputs")
                  /\ UNCHANGED <<d_done, noutput_items>>
               \/ /\ last /\ sink_p(b) /\ swag = 0
                  /\ Goto(b, "blkd_in")
                  /\ ForgetSnapshots(b) /\ UNCHANGED <<d_done, idx, noutput_items>>
               \/ /\ last /\ sink_p(b) /\ swag > 0
                  /\ Decide(b, Seen(b), SeenDone(b), swag)
                  /\ ForgetSnapshots(b)
  BY Zenon DEF ReadInput, Seen, SeenDone
<1>2. /\ Seen(b) \in Seq(0 .. BufSize - 1) /\ Seen(b) # <<>>
      /\ Last(Seen(b)) = items_available(b, Ins[b][idx[b]])
      /\ Last(SeenDone(b)) = buf_done[Ins[b][idx[b]]]
  BY <1>1, SeenFact
<1>3. /\ swag \in 0 .. BufSize - 1
      /\ swag = 0 => \A i \in DOMAIN Seen(b) : Seen(b)[i] < OutputMultiple[b] * Decimation[b]
  BY <1>2, SwagFact
<1> HIDE DEF swag, last
<1> QED
  BY <1>1, <1>2, <1>3, Zenon DEF last

\* One turn of the loop over the outputs.
LEMMA MinSpaceFact ==
  ASSUME TpbInv, NEW b \in Blocks, MinAvailableSpace(b)
  PROVE  /\ pc[b] = "outputs" /\ idx[b] \in DOMAIN Outs[b]
         /\ UNCHANGED <<bufVars, tpbVars, todo, nproduced, n, posted, stopVars>>
         /\ \/ /\ buf_done[Outs[b][idx[b]]]
               /\ WereDone(b)
               /\ ForgetSnapshots(b) /\ UNCHANGED noutput_items
            \/ /\ ~buf_done[Outs[b][idx[b]]] /\ idx[b] \in OutputFull(b)
               /\ Goto(b, "blkd_out")
               /\ ForgetSnapshots(b) /\ UNCHANGED <<d_done, idx, noutput_items>>
            \/ \E nout \in 0 .. BufSize - 1 :
               /\ \A o \in 1 .. idx[b] : Room(Outs[b][o], nout)
               /\ \/ /\ idx[b] < Len(Outs[b])
                     /\ idx' = [idx EXCEPT ![b] = @ + 1]
                     /\ noutput_items' = [noutput_items EXCEPT ![b] = nout]
                     /\ UNCHANGED <<pc, d_done, d_ninput_items, d_input_done>>
                  \/ /\ idx[b] = Len(Outs[b]) /\ source_p(b)
                     /\ noutput_items' = [noutput_items EXCEPT ![b] = nout]
                     /\ Goto(b, "work")
                     /\ UNCHANGED <<d_done, idx, d_ninput_items, d_input_done>>
                  \/ /\ idx[b] = Len(Outs[b]) /\ ~source_p(b)
                     /\ Decide(b, d_ninput_items[b], d_input_done[b], nout)
                     /\ ForgetSnapshots(b)
<1> DEFINE f    == Outs[b][idx[b]]
           k    == round_down(MinOf({space_available(f), BufSize \div 2}), OutputMultiple[b])
           nout == MinOf({noutput_items[b], k})
<1>1. /\ pc[b] = "outputs"
      /\ UNCHANGED <<bufVars, tpbVars, todo, nproduced, n, posted, stopVars>>
      /\ \/ /\ k = 0 /\ buf_done[f]
            /\ WereDone(b)
            /\ ForgetSnapshots(b) /\ UNCHANGED noutput_items
         \/ /\ k = 0 /\ ~buf_done[f]
            /\ Goto(b, "blkd_out")
            /\ ForgetSnapshots(b) /\ UNCHANGED <<d_done, idx, noutput_items>>
         \/ /\ \/ /\ idx[b] < Len(Outs[b])
                  /\ idx' = [idx EXCEPT ![b] = @ + 1]
                  /\ noutput_items' = [noutput_items EXCEPT ![b] = nout]
                  /\ UNCHANGED <<pc, d_done, d_ninput_items, d_input_done>>
               \/ /\ idx[b] = Len(Outs[b]) /\ source_p(b)
                  /\ noutput_items' = [noutput_items EXCEPT ![b] = nout]
                  /\ Goto(b, "work")
                  /\ UNCHANGED <<d_done, idx, d_ninput_items, d_input_done>>
               \/ /\ idx[b] = Len(Outs[b]) /\ ~source_p(b)
                  /\ Decide(b, d_ninput_items[b], d_input_done[b], nout)
                  /\ ForgetSnapshots(b)
  BY Zenon DEF MinAvailableSpace
<1>2. idx[b] \in DOMAIN Outs[b] /\ FillInv /\ noutput_items[b] \in 0 .. BufSize
      /\ \A o \in 1 .. idx[b] - 1 : Room(Outs[b][o], noutput_items[b])
  BY <1>1 DEF TpbInv, TypeOK, LoopInv, PromiseInv
<1>3. /\ k \in 0 .. BufSize - 1 /\ Room(f, k)
      /\ k = 0 => idx[b] \in OutputFull(b)
  BY <1>2, OutputFact
<1> HIDE DEF k
<1>4. BufSize \in Nat /\ noutput_items[b] \in Nat /\ k \in Nat
  BY <1>2, <1>3, SizeAssumption
<1>5. nout \in Nat /\ nout <= noutput_items[b] /\ nout <= k
  BY <1>4, MinOfTwo
<1> HIDE DEF nout
<1>6. nout \in 0 .. BufSize - 1
  BY <1>3, <1>4, <1>5
<1>7. ASSUME NEW o \in 1 .. idx[b] PROVE Room(Outs[b][o], nout)
  <2>1. DOMAIN Outs[b] = 1 .. Len(Outs[b]) /\ Len(Outs[b]) \in Nat
        /\ \A p \in DOMAIN Outs[b] : Outs[b][p] \in Bufs
    BY PortFact
  <2>2. idx[b] \in 1 .. Len(Outs[b])
    BY <1>2, <2>1
  <2>3. o \in DOMAIN Outs[b] /\ (o = idx[b] \/ o \in 1 .. idx[b] - 1)
    BY <2>1, <2>2
  <2>4. Outs[b][o] \in Bufs
    BY <2>1, <2>3
  <2>5. CASE o = idx[b]
    BY <1>2, <1>3, <1>4, <1>5, <2>4, <2>5, RoomLess
  <2>6. CASE o \in 1 .. idx[b] - 1
    BY <1>2, <1>4, <1>5, <2>4, <2>6, RoomLess
  <2> QED
    BY <2>3, <2>5, <2>6
<1> QED
  BY <1>1, <1>2, <1>3, <1>6, <1>7, Zenon
\* What a call of work() does.
LEMMA WorkFact ==
  ASSUME TpbInv, NEW b \in Blocks, Work(b)
  PROVE  /\ pc[b] = "work"
         /\ UNCHANGED <<bufVars, tpbVars, snapVars, posted, stopVars>>
         /\ \/ /\ nproduced[b] >= Limit[b]
               /\ WereDone(b)
               /\ UNCHANGED <<nproduced, n, todo>>
            \/ /\ nproduced[b] < Limit[b]
               /\ \E k \in 0 .. noutput_items[b] :
                    /\ nproduced' = [nproduced EXCEPT ![b] = @ + k]
                    /\ n' = [n EXCEPT ![b] = k]
                    /\ \/ /\ k > 0
                          /\ idx' = [idx EXCEPT ![b] = 1]
                          /\ Goto(b, IF source_p(b) THEN "produce" ELSE "consume")
                          /\ UNCHANGED <<d_done, todo>>
                       \/ /\ k = 0 /\ source_p(b)
                          /\ WereDone(b) /\ UNCHANGED todo
                       \/ /\ k = 0 /\ ~source_p(b)
                          /\ AfterWork(b, 0) /\ UNCHANGED <<d_done, idx>>
<1> DEFINE most == MinOf({noutput_items[b], Limit[b] - nproduced[b]})
           K == IF b \in Shirkers THEN 0 .. most ELSE {most}
           Step(k) == /\ nproduced' = [nproduced EXCEPT ![b] = @ + k]
                      /\ n' = [n EXCEPT ![b] = k]
                      /\ \/ /\ k > 0
                            /\ idx' = [idx EXCEPT ![b] = 1]
                            /\ Goto(b, IF source_p(b) THEN "produce" ELSE "consume")
                            /\ UNCHANGED <<d_done, todo>>
                         \/ /\ k = 0 /\ source_p(b)
                            /\ WereDone(b) /\ UNCHANGED todo
                         \/ /\ k = 0 /\ ~source_p(b)
                            /\ AfterWork(b, 0) /\ UNCHANGED <<d_done, idx>>
<1>1. /\ pc[b] = "work"
      /\ UNCHANGED <<bufVars, tpbVars, snapVars, posted, stopVars>>
      /\ \/ /\ nproduced[b] >= Limit[b]
            /\ WereDone(b)
            /\ UNCHANGED <<nproduced, n, todo>>
         \/ /\ nproduced[b] < Limit[b]
            /\ \E k \in K : Step(k)
  BY Zenon DEF Work
<1>2. noutput_items[b] \in 0 .. BufSize /\ nproduced[b] \in Nat /\ Limit[b] \in Nat /\ BufSize \in Nat
  BY SizeAssumption DEF TpbInv, TypeOK
<1>3. ASSUME nproduced[b] < Limit[b], NEW k \in K PROVE k \in 0 .. noutput_items[b]
  <2>1. noutput_items[b] \in Nat /\ Limit[b] - nproduced[b] \in Nat
    BY <1>2, <1>3
  <2>2. most \in Nat /\ most <= noutput_items[b]
    BY <2>1, MinOfTwo
  <2> HIDE DEF most
  <2> QED
    BY <2>1, <2>2
<1> HIDE DEF K
<1> QED
  BY <1>1, <1>3, Zenon

-----------------------------------------------------------------------------
(* Types. *)

\* The notices a thread leaves with.
LEMMA TodoType ==
  ASSUME NEW b \in Blocks
  PROVE  /\ Downstream(b) \o Upstream(b) \in Seq(Notices) /\ Upstream(b) \in Seq(Notices)
         /\ \A i \in DOMAIN Ins[b] :
              /\ Contains(Upstream(b), <<"output", Writer[Ins[b][i]]>>)
              /\ Contains(Downstream(b) \o Upstream(b), <<"output", Writer[Ins[b][i]]>>)
         /\ \A o \in DOMAIN Outs[b] : \A j \in DOMAIN Rdrs[Outs[b][o]] :
              Contains(Downstream(b) \o Upstream(b), <<"input", Rdrs[Outs[b][o]][j]>>)
<1>1. Downstream(b) \in Seq(Notices) /\ Upstream(b) \in Seq(Notices)
  BY DownstreamFact, UpstreamFact
<1>2. \A e : Contains(Downstream(b) \o Upstream(b), e)
              <=> Contains(Downstream(b), e) \/ Contains(Upstream(b), e)
  BY <1>1, ContainsConcat
<1>3. Downstream(b) \o Upstream(b) \in Seq(Notices)
  BY <1>1
<1> QED
  BY <1>1, <1>2, <1>3, DownstreamFact, UpstreamFact, Zenon

\* WereDone, AfterWork and ForgetSnapshots keep the types of what they change.
LEMMA HelperTypes ==
  ASSUME TypeOK, NEW b \in Blocks
  PROVE  /\ WereDone(b) => /\ d_done' \in [Blocks -> BOOLEAN] /\ pc' \in [Blocks -> Labels]
                           /\ idx' \in [Blocks -> Nat]
                           /\ \A q \in Blocks : idx'[q] <= Len(Outs[q]) + Len(Ins[q])
         /\ \A k \in Nat : AfterWork(b, k) =>
              /\ todo' \in [Blocks -> Seq(Notices)] /\ pc' \in [Blocks -> Labels]
         /\ ForgetSnapshots(b) =>
              /\ d_ninput_items' \in [Blocks -> Seq(0 .. BufSize - 1)]
              /\ d_input_done' \in [Blocks -> Seq(BOOLEAN)]
              /\ \A q \in Blocks : /\ Len(d_ninput_items'[q]) <= Len(Ins[q])
                                   /\ Len(d_input_done'[q]) = Len(d_ninput_items'[q])
<1>1. ASSUME WereDone(b)
      PROVE  /\ d_done' \in [Blocks -> BOOLEAN] /\ pc' \in [Blocks -> Labels]
             /\ idx' \in [Blocks -> Nat]
             /\ \A q \in Blocks : idx'[q] <= Len(Outs[q]) + Len(Ins[q])
  <2>1. 1 <= Len(Outs[b]) + Len(Ins[b])
    BY PortBound
  <2> QED
    BY <1>1, <2>1 DEF WereDone, Goto, TypeOK, Labels
<1>2. ASSUME NEW k \in Nat, AfterWork(b, k)
      PROVE  todo' \in [Blocks -> Seq(Notices)] /\ pc' \in [Blocks -> Labels]
  <2>1. todo \in [Blocks -> Seq(Notices)]
    BY DEF TypeOK, Notices
  <2>2. (IF k > 0 THEN Downstream(b) \o Upstream(b) ELSE Upstream(b)) \in Seq(Notices)
    BY TodoType
  <2>3. todo' = [todo EXCEPT ![b] = IF k > 0 THEN Downstream(b) \o Upstream(b) ELSE Upstream(b)]
    BY <1>2 DEF AfterWork
  <2>4. todo' \in [Blocks -> Seq(Notices)]
    BY <2>1, <2>2, <2>3
  <2> QED
    BY <1>2, <2>4 DEF AfterWork, Goto, TypeOK, Labels
<1>3. ASSUME ForgetSnapshots(b)
      PROVE  /\ d_ninput_items' \in [Blocks -> Seq(0 .. BufSize - 1)]
             /\ d_input_done' \in [Blocks -> Seq(BOOLEAN)]
             /\ \A q \in Blocks : /\ Len(d_ninput_items'[q]) <= Len(Ins[q])
                                  /\ Len(d_input_done'[q]) = Len(d_ninput_items'[q])
  <2> DEFINE S == Seq(0 .. BufSize - 1)  T == Seq(BOOLEAN)
  <2>1. <<>> \in S /\ <<>> \in T /\ Len(<<>>) = 0 /\ 0 <= Len(Ins[b])
    BY PortFact
  <2>2. d_ninput_items \in [Blocks -> S] /\ d_input_done \in [Blocks -> T]
        /\ \A q \in Blocks : /\ Len(d_ninput_items[q]) <= Len(Ins[q])
                              /\ Len(d_input_done[q]) = Len(d_ninput_items[q])
    BY DEF TypeOK
  <2>3. d_ninput_items' = [d_ninput_items EXCEPT ![b] = <<>>]
        /\ d_input_done' = [d_input_done EXCEPT ![b] = <<>>]
    BY <1>3 DEF ForgetSnapshots
  <2> HIDE DEF S, T
  <2>4. d_ninput_items' \in [Blocks -> S] /\ d_input_done' \in [Blocks -> T]
    BY <2>1, <2>2, <2>3
  <2>5. \A q \in Blocks : /\ Len(d_ninput_items'[q]) <= Len(Ins[q])
                          /\ Len(d_input_done'[q]) = Len(d_ninput_items'[q])
    BY <2>1, <2>2, <2>3
  <2> QED
    BY <2>4, <2>5 DEF S, T
<1> QED
  BY <1>1, <1>2, <1>3, Zenon

\* So does the way out of the try_again loop.
LEMMA DecideTypes ==
  ASSUME TypeOK, NEW b \in Blocks, NEW ninput \in Seq(0 .. BufSize - 1), ninput # <<>>, NEW done,
         NEW nout \in 0 .. BufSize - 1, Decide(b, ninput, done, nout)
  PROVE  /\ d_done' \in [Blocks -> BOOLEAN] /\ pc' \in [Blocks -> Labels]
         /\ idx' \in [Blocks -> Nat]
         /\ \A q \in Blocks : idx'[q] <= Len(Outs[q]) + Len(Ins[q])
         /\ noutput_items' \in [Blocks -> 0 .. BufSize]
<1>1. BufSize \in Nat /\ nout \in Nat
  BY SizeAssumption
<1>2. \/ /\ \E m \in 0 .. nout : noutput_items' = [noutput_items EXCEPT ![b] = m]
         /\ Goto(b, "work") /\ UNCHANGED <<d_done, idx>>
      \/ WereDone(b) /\ UNCHANGED noutput_items
      \/ Goto(b, "blkd_in") /\ UNCHANGED <<d_done, idx, noutput_items>>
  BY <1>1, DecideFact, Zenon
<1>3. CASE /\ \E m \in 0 .. nout : noutput_items' = [noutput_items EXCEPT ![b] = m]
           /\ Goto(b, "work") /\ UNCHANGED <<d_done, idx>>
  <2>1. PICK m \in 0 .. nout : noutput_items' = [noutput_items EXCEPT ![b] = m]
    BY <1>3
  <2>2. m \in 0 .. BufSize
    BY <1>1
  <2>3. noutput_items' \in [Blocks -> 0 .. BufSize]
    BY <2>1, <2>2 DEF TypeOK
  <2> QED
    BY <1>3, <2>3 DEF Goto, TypeOK, Labels
<1>4. CASE WereDone(b) /\ UNCHANGED noutput_items
  <2>1. noutput_items' \in [Blocks -> 0 .. BufSize]
    BY <1>4 DEF TypeOK
  <2> QED
    BY <1>4, <2>1, HelperTypes, Zenon
<1>5. CASE Goto(b, "blkd_in") /\ UNCHANGED <<d_done, idx, noutput_items>>
  BY <1>5 DEF Goto, TypeOK, Labels
<1> QED
  BY <1>2, <1>3, <1>4, <1>5
\* The types, variable by variable.
BufTypes  == /\ written \in [Bufs -> Nat] /\ buf_done \in [Bufs -> BOOLEAN]
             /\ DOMAIN items_read = Blocks
             /\ \A b \in Blocks : items_read[b] \in [Range(Ins[b]) -> Nat]
FlagTypes == /\ input_changed \in [Blocks -> BOOLEAN] /\ output_changed \in [Blocks -> BOOLEAN]
QueueTypes == msg_queue \in [Blocks -> Nat] /\ posted \in 0 .. MaxMsgs
PlaceTypes == /\ pc \in [Blocks -> Labels]
DoneTypes == d_done \in [Blocks -> BOOLEAN]
IdxTypes  == /\ idx \in [Blocks -> Nat]
             /\ \A b \in Blocks : idx[b] <= Len(Outs[b]) + Len(Ins[b])
TodoTypes == todo \in [Blocks -> Seq(Notices)]
SnapTypes == /\ d_ninput_items \in [Blocks -> Seq(0 .. BufSize - 1)]
             /\ d_input_done \in [Blocks -> Seq(BOOLEAN)]
             /\ \A b \in Blocks : /\ Len(d_ninput_items[b]) <= Len(Ins[b])
                                  /\ Len(d_input_done[b]) = Len(d_ninput_items[b])
AskTypes  == noutput_items \in [Blocks -> 0 .. BufSize]
WorkTypes == n \in [Blocks -> 0 .. BufSize] /\ nproduced \in [Blocks -> Nat]
StopTypes == interrupted \in [Blocks -> BOOLEAN] /\ to_interrupt \subseteq Blocks
Types == /\ BufTypes /\ FlagTypes /\ QueueTypes /\ PlaceTypes /\ DoneTypes /\ IdxTypes
         /\ TodoTypes /\ SnapTypes /\ AskTypes /\ WorkTypes /\ StopTypes

\* They are those of TypeOK.
LEMMA TypesFact == TypeOK <=> Types
BY Zenon DEF TypeOK, Types, BufTypes, FlagTypes, QueueTypes, PlaceTypes, DoneTypes, IdxTypes,
             TodoTypes, SnapTypes, AskTypes, WorkTypes, StopTypes, Notices

\* A step keeps the types of the variables it leaves alone.
LEMMA TypesKept ==
  ASSUME Types
  PROVE  /\ UNCHANGED bufVars => BufTypes'
         /\ UNCHANGED <<input_changed, output_changed>> => FlagTypes'
         /\ UNCHANGED <<msg_queue, posted>> => QueueTypes'
         /\ UNCHANGED pc => PlaceTypes'
         /\ UNCHANGED d_done => DoneTypes'
         /\ UNCHANGED idx => IdxTypes'
         /\ UNCHANGED todo => TodoTypes'
         /\ UNCHANGED <<d_ninput_items, d_input_done>> => SnapTypes'
         /\ UNCHANGED noutput_items => AskTypes'
         /\ UNCHANGED <<n, nproduced>> => WorkTypes'
         /\ UNCHANGED stopVars => StopTypes'
<1>1. UNCHANGED bufVars => BufTypes'
  BY DEF Types, BufTypes, bufVars
<1>2. UNCHANGED <<input_changed, output_changed>> => FlagTypes'
  BY DEF Types, FlagTypes
<1>3. UNCHANGED <<msg_queue, posted>> => QueueTypes'
  BY DEF Types, QueueTypes
<1>4. (UNCHANGED pc => PlaceTypes') /\ (UNCHANGED d_done => DoneTypes')
  BY DEF Types, PlaceTypes, DoneTypes
<1>5. (UNCHANGED idx => IdxTypes') /\ (UNCHANGED todo => TodoTypes')
  BY DEF Types, IdxTypes, TodoTypes
<1>6. UNCHANGED <<d_ninput_items, d_input_done>> => SnapTypes'
  BY DEF Types, SnapTypes
<1>7. (UNCHANGED noutput_items => AskTypes') /\ (UNCHANGED <<n, nproduced>> => WorkTypes')
  BY DEF Types, AskTypes, WorkTypes
<1>8. UNCHANGED stopVars => StopTypes'
  BY DEF Types, StopTypes, stopVars
<1> QED
  BY <1>1, <1>2, <1>3, <1>4, <1>5, <1>6, <1>7, <1>8

\* Going to a label is well typed.
LEMMA GotoType ==
  ASSUME Types, NEW b \in Blocks, NEW l \in Labels, Goto(b, l)
  PROVE  PlaceTypes'
BY DEF Types, PlaceTypes, Goto

\* The helpers, in these terms.
LEMMA HelperSteps ==
  ASSUME TpbInv, NEW b \in Blocks
  PROVE  /\ Types
         /\ WereDone(b) => DoneTypes' /\ PlaceTypes' /\ IdxTypes'
         /\ \A k \in Nat : AfterWork(b, k) => TodoTypes' /\ PlaceTypes'
         /\ ForgetSnapshots(b) => SnapTypes'
<1>1. TypeOK
  BY DEF TpbInv
<1> QED
  BY <1>1, TypesFact, HelperTypes, Zenon
     DEF DoneTypes, PlaceTypes, IdxTypes, TodoTypes, SnapTypes

\* Every step of a thread keeps the types.
LEMMA ThreadTypes ==
  ASSUME TpbInv, NEW b \in Blocks, Thread(b)
  PROVE  Types'
<1>1. Types /\ TypeOK
  BY HelperSteps DEF TpbInv
<1> USE DEF tpbVars, snapVars
<1>2. CASE Top(b)
  <2>1. PlaceTypes'
    BY <1>1, <1>2, GotoType DEF Top, Labels
  <2> QED
    BY <1>1, <1>2, <2>1, TypesKept DEF Top, Types
<1>3. CASE Drain(b)
  <2>1. PlaceTypes' /\ QueueTypes'
    BY <1>1, <1>3 DEF Drain, Goto, Types, PlaceTypes, QueueTypes, Labels
  <2> QED
    BY <1>1, <1>3, <2>1, TypesKept DEF Drain, Types
<1>4. CASE clear_changed(b)
  <2>1. PlaceTypes' /\ FlagTypes'
    BY <1>1, <1>4 DEF clear_changed, Goto, Types, PlaceTypes, FlagTypes, Labels
  <2>2. AskTypes'
    BY <1>1, <1>4, SizeAssumption DEF clear_changed, Types, AskTypes
  <2>3. IdxTypes'
    <3>1. 1 <= Len(Outs[b]) + Len(Ins[b])
      BY PortBound
    <3> QED
      BY <1>1, <1>4, <3>1 DEF clear_changed, Types, IdxTypes
  <2> QED
    BY <1>1, <1>4, <2>1, <2>2, <2>3, TypesKept DEF clear_changed, Types
<1>5. CASE ReadInput(b)
  <2>1. /\ pc[b] = "inputs"
        /\ UNCHANGED <<bufVars, tpbVars, todo, nproduced, n, posted, stopVars>>
    BY <1>5, ReadFact
  <2>2. BufTypes' /\ FlagTypes' /\ QueueTypes' /\ TodoTypes' /\ WorkTypes' /\ StopTypes'
    BY <1>1, <2>1, TypesKept
  <2>3. /\ idx[b] \in 1 .. Len(Ins[b])
        /\ Seen(b) \in Seq(0 .. BufSize - 1) /\ Seen(b) # <<>> /\ Len(Seen(b)) = idx[b]
        /\ SeenDone(b) \in Seq(BOOLEAN) /\ Len(SeenDone(b)) = idx[b]
        /\ Len(Ins[b]) \in Nat /\ Len(Outs[b]) \in Nat
    BY <2>1, SeenFact, PortFact
  <2> DEFINE Stores == /\ d_ninput_items' = [d_ninput_items EXCEPT ![b] = Seen(b)]
                       /\ d_input_done' = [d_input_done EXCEPT ![b] = SeenDone(b)]
  <2>4. ASSUME Stores PROVE SnapTypes'
    <3> DEFINE S == Seq(0 .. BufSize - 1)  T == Seq(BOOLEAN)
    <3>1. d_ninput_items \in [Blocks -> S] /\ d_input_done \in [Blocks -> T]
        /\ \A q \in Blocks : /\ Len(d_ninput_items[q]) <= Len(Ins[q])
                              /\ Len(d_input_done[q]) = Len(d_ninput_items[q])
      BY <1>1 DEF Types, SnapTypes
    <3>2. Seen(b) \in S /\ SeenDone(b) \in T /\ Len(Seen(b)) <= Len(Ins[b])
          /\ Len(SeenDone(b)) = Len(Seen(b))
      BY <2>3
    <3> HIDE DEF S, T
    <3>3. d_ninput_items' \in [Blocks -> S] /\ d_input_done' \in [Blocks -> T]
      BY <2>4, <3>1, <3>2
    <3>4. \A q \in Blocks : /\ Len(d_ninput_items'[q]) <= Len(Ins[q])
                            /\ Len(d_input_done'[q]) = Len(d_ninput_items'[q])
      BY <2>4, <3>1, <3>2
    <3> QED
      BY <3>3, <3>4 DEF S, T, SnapTypes
  <2>5. CASE WereDone(b) /\ ForgetSnapshots(b) /\ UNCHANGED noutput_items
    BY <1>1, <2>2, <2>5, HelperSteps, TypesKept DEF Types
  <2>6. CASE /\ idx[b] # Len(Ins[b])
             /\ idx' = [idx EXCEPT ![b] = @ + 1]
             /\ Stores
             /\ UNCHANGED <<pc, d_done, noutput_items>>
    <3>1. idx[b] + 1 \in Nat /\ idx[b] + 1 <= Len(Outs[b]) + Len(Ins[b])
      <4>1. idx[b] \in Nat
        BY <2>3
      <4>2. idx[b] + 1 \in Nat
        BY <4>1
      <4> QED
        BY <2>3, <4>1, <4>2, <2>6, PortBound, Zenon
    <3>2. IdxTypes'
      BY <1>1, <2>6, <3>1 DEF Types, IdxTypes
    <3> QED
      BY <1>1, <2>2, <2>4, <2>6, <3>2, TypesKept DEF Types
  <2>7. CASE /\ idx' = [idx EXCEPT ![b] = 1]
             /\ Stores
             /\ Goto(b, "outputs")
             /\ UNCHANGED <<d_done, noutput_items>>
    <3>1. IdxTypes'
      <4>1. 1 <= Len(Outs[b]) + Len(Ins[b])
        BY PortBound
      <4> QED
        BY <1>1, <2>7, <4>1 DEF Types, IdxTypes
    <3>2. PlaceTypes'
      BY <1>1, <2>7, GotoType DEF Labels
    <3> QED
      BY <1>1, <2>2, <2>4, <2>7, <3>1, <3>2, TypesKept DEF Types
  <2>8. CASE Goto(b, "blkd_in") /\ ForgetSnapshots(b) /\ UNCHANGED <<d_done, idx, noutput_items>>
    <3>1. PlaceTypes'
      BY <1>1, <2>8, GotoType DEF Labels
    <3> QED
      BY <1>1, <2>2, <2>8, <3>1, HelperSteps, TypesKept DEF Types
  <2>9. CASE ForgetSnapshots(b) /\ \E k \in 0 .. BufSize - 1 : Decide(b, Seen(b), SeenDone(b), k)
    <3>1. DoneTypes' /\ PlaceTypes' /\ IdxTypes' /\ AskTypes'
      BY <1>1, <2>3, <2>9, DecideTypes DEF DoneTypes, PlaceTypes, IdxTypes, AskTypes
    <3> QED
      BY <1>1, <2>2, <2>9, <3>1, HelperSteps DEF Types
  <2> HIDE DEF Stores
  <2>10. \/ WereDone(b) /\ ForgetSnapshots(b) /\ UNCHANGED noutput_items
         \/ /\ idx[b] # Len(Ins[b])
            /\ idx' = [idx EXCEPT ![b] = @ + 1]
            /\ Stores
            /\ UNCHANGED <<pc, d_done, noutput_items>>
         \/ /\ idx' = [idx EXCEPT ![b] = 1]
            /\ Stores
            /\ Goto(b, "outputs")
            /\ UNCHANGED <<d_done, noutput_items>>
         \/ Goto(b, "blkd_in") /\ ForgetSnapshots(b) /\ UNCHANGED <<d_done, idx, noutput_items>>
         \/ ForgetSnapshots(b) /\ \E k \in 0 .. BufSize - 1 : Decide(b, Seen(b), SeenDone(b), k)
    BY <1>5, ReadFact, Zenon DEF Stores
  <2> QED
    BY <2>5, <2>6, <2>7, <2>8, <2>9, <2>10, Zenon
<1>6. CASE MinAvailableSpace(b)
  <2>1. /\ pc[b] = "outputs" /\ idx[b] \in DOMAIN Outs[b]
        /\ UNCHANGED <<bufVars, tpbVars, todo, nproduced, n, posted, stopVars>>
    BY <1>6, MinSpaceFact
  <2>2. BufTypes' /\ FlagTypes' /\ QueueTypes' /\ TodoTypes' /\ WorkTypes' /\ StopTypes'
    BY <1>1, <2>1, TypesKept
  <2>3. /\ Len(Ins[b]) \in Nat /\ Len(Outs[b]) \in Nat /\ idx[b] \in 1 .. Len(Outs[b])
    BY <2>1, PortFact
  <2>4. CASE WereDone(b) /\ ForgetSnapshots(b) /\ UNCHANGED noutput_items
    BY <1>1, <2>2, <2>4, HelperSteps, TypesKept DEF Types
  <2>5. CASE Goto(b, "blkd_out") /\ ForgetSnapshots(b) /\ UNCHANGED <<d_done, idx, noutput_items>>
    <3>1. PlaceTypes'
      BY <1>1, <2>5, GotoType DEF Labels
    <3> QED
      BY <1>1, <2>2, <2>5, <3>1, HelperSteps, TypesKept DEF Types
  <2>6. ASSUME NEW nout \in 0 .. BufSize - 1, noutput_items' = [noutput_items EXCEPT ![b] = nout]
        PROVE  AskTypes'
    BY <1>1, <2>6, SizeAssumption DEF Types, AskTypes
  <2>7. ASSUME NEW nout \in 0 .. BufSize - 1,
             /\ idx[b] < Len(Outs[b])
             /\ idx' = [idx EXCEPT ![b] = @ + 1]
             /\ noutput_items' = [noutput_items EXCEPT ![b] = nout]
             /\ UNCHANGED <<pc, d_done, d_ninput_items, d_input_done>>
        PROVE  Types'
    <3>1. idx[b] + 1 \in Nat /\ idx[b] + 1 <= Len(Outs[b]) + Len(Ins[b])
      <4>1. idx[b] \in Nat
        BY <2>3
      <4>2. idx[b] + 1 \in Nat
        BY <4>1
      <4> QED
        BY <2>3, <4>1, <4>2, <2>7, PortBound, Zenon
    <3>2. IdxTypes'
      BY <1>1, <2>7, <3>1 DEF Types, IdxTypes
    <3> QED
      BY <1>1, <2>2, <2>6, <2>7, <3>2, TypesKept DEF Types
  <2>8. ASSUME NEW nout \in 0 .. BufSize - 1,
             /\ noutput_items' = [noutput_items EXCEPT ![b] = nout]
             /\ Goto(b, "work")
             /\ UNCHANGED <<d_done, idx, d_ninput_items, d_input_done>>
        PROVE  Types'
    <3>1. PlaceTypes'
      BY <1>1, <2>8, GotoType DEF Labels
    <3> QED
      BY <1>1, <2>2, <2>6, <2>8, <3>1, TypesKept DEF Types
  <2>9. ASSUME NEW nout \in 0 .. BufSize - 1, ~source_p(b),
             Decide(b, d_ninput_items[b], d_input_done[b], nout),
             ForgetSnapshots(b)
        PROVE  Types'
    <3>1. d_ninput_items[b] \in Seq(0 .. BufSize - 1) /\ d_ninput_items[b] # <<>>
      <4>1. Len(d_ninput_items[b]) = Len(Ins[b]) /\ Len(Ins[b]) # 0
        BY <2>1, <2>9, PortFact DEF TpbInv, LoopInv
      <4>2. d_ninput_items[b] \in Seq(0 .. BufSize - 1)
        BY <1>1 DEF Types, SnapTypes
      <4> QED
        BY <4>1, <4>2
    <3>2. DoneTypes' /\ PlaceTypes' /\ IdxTypes' /\ AskTypes'
      BY <1>1, <2>9, <3>1, DecideTypes DEF DoneTypes, PlaceTypes, IdxTypes, AskTypes
    <3> QED
      BY <1>1, <2>2, <2>9, <3>2, HelperSteps DEF Types
  <2> QED
    BY <1>6, <2>4, <2>5, <2>7, <2>8, <2>9, MinSpaceFact, Zenon
<1>7. CASE Work(b)
  <2>1. UNCHANGED <<bufVars, tpbVars, snapVars, posted, stopVars>>
    BY <1>7, WorkFact
  <2>2. BufTypes' /\ FlagTypes' /\ QueueTypes' /\ SnapTypes' /\ AskTypes' /\ StopTypes'
    BY <1>1, <2>1, TypesKept
  <2>3. CASE WereDone(b) /\ UNCHANGED <<nproduced, n, todo>>
    BY <1>1, <2>2, <2>3, HelperSteps, TypesKept DEF Types
  <2>4. ASSUME NEW k \in 0 .. noutput_items[b],
               nproduced' = [nproduced EXCEPT ![b] = @ + k], n' = [n EXCEPT ![b] = k]
        PROVE  WorkTypes'
    <3>1. noutput_items[b] \in 0 .. BufSize /\ BufSize \in Nat
      BY <1>1, SizeAssumption DEF Types, AskTypes
    <3>2. k \in 0 .. BufSize /\ k \in Nat
      BY <3>1
    <3> QED
      BY <1>1, <2>4, <3>2 DEF Types, WorkTypes
  <2>5. CASE /\ idx' = [idx EXCEPT ![b] = 1]
             /\ Goto(b, IF source_p(b) THEN "produce" ELSE "consume")
             /\ UNCHANGED <<d_done, todo>>
    <3>1. IdxTypes'
      <4>1. 1 <= Len(Outs[b]) + Len(Ins[b])
        BY PortBound
      <4> QED
        BY <1>1, <2>5, <4>1 DEF Types, IdxTypes
    <3>2. PlaceTypes'
      BY <1>1, <2>5, GotoType DEF Labels
    <3> QED
      BY <1>1, <1>7, <2>2, <2>3, <2>4, <2>5, <3>1, <3>2, WorkFact, TypesKept DEF Types
  <2>6. CASE WereDone(b) /\ UNCHANGED todo
    BY <1>1, <1>7, <2>2, <2>3, <2>4, <2>6, WorkFact, HelperSteps, TypesKept DEF Types
  <2>7. CASE AfterWork(b, 0) /\ UNCHANGED <<d_done, idx>>
    BY <1>1, <1>7, <2>2, <2>3, <2>4, <2>7, WorkFact, HelperSteps, TypesKept DEF Types
  <2> QED
    BY <1>7, <2>3, <2>5, <2>6, <2>7, WorkFact, Zenon
<1>8. CASE consume_each(b)
  <2>1. /\ pc[b] = "consume"
        /\ items_read' = [items_read EXCEPT ![b][Ins[b][idx[b]]] = @ + n[b] * Decimation[b]]
        /\ UNCHANGED <<written, buf_done, d_done, tpbVars, snapVars, nproduced, n, posted, stopVars>>
    BY <1>8 DEF consume_each
  <2>2. FlagTypes' /\ QueueTypes' /\ SnapTypes' /\ AskTypes' /\ StopTypes' /\ DoneTypes' /\ WorkTypes'
    BY <1>1, <2>1, TypesKept
  <2>3. /\ Len(Ins[b]) \in Nat /\ Len(Outs[b]) \in Nat /\ idx[b] \in 1 .. Len(Ins[b])
        /\ Ins[b][idx[b]] \in Range(Ins[b])
    <3>1. idx[b] \in DOMAIN Ins[b]
      BY <2>1 DEF TpbInv, LoopInv
    <3> QED
      BY <3>1, PortFact
  <2>4. n[b] \in Nat /\ n[b] * Decimation[b] \in Nat
    <3>1. n[b] \in Nat
      BY <1>1, SizeAssumption DEF Types, WorkTypes
    <3> QED
      BY <3>1, NeedFact
  <2>5. BufTypes'
    <3> DEFINE f == Ins[b][idx[b]]  d == n[b] * Decimation[b]
    <3>1. items_read' = [items_read EXCEPT ![b] = [items_read[b] EXCEPT ![f] = items_read[b][f] + d]]
      BY <2>1
    <3>2. DOMAIN items_read = Blocks /\ \A q \in Blocks : items_read[q] \in [Range(Ins[q]) -> Nat]
      BY <1>1 DEF Types, BufTypes
    <3>3. f \in Range(Ins[b]) /\ d \in Nat
      BY <2>3, <2>4
    <3> HIDE DEF f, d
    <3>4. [items_read[b] EXCEPT ![f] = items_read[b][f] + d] \in [Range(Ins[b]) -> Nat]
      BY <3>2, <3>3
    <3>5. DOMAIN items_read' = Blocks /\ \A q \in Blocks : items_read'[q] \in [Range(Ins[q]) -> Nat]
      BY <3>1, <3>2, <3>4
    <3> QED
      BY <1>1, <2>1, <3>5 DEF Types, BufTypes
  <2>6. CASE idx[b] < Len(Ins[b]) /\ idx' = [idx EXCEPT ![b] = @ + 1] /\ UNCHANGED <<pc, todo>>
    <3>1. idx[b] + 1 \in Nat /\ idx[b] + 1 <= Len(Outs[b]) + Len(Ins[b])
      <4>1. idx[b] \in Nat
        BY <2>3
      <4>2. idx[b] + 1 \in Nat
        BY <4>1
      <4> QED
        BY <2>3, <4>1, <4>2, <2>6, PortBound, Zenon
    <3>2. IdxTypes'
      BY <1>1, <2>6, <3>1 DEF Types, IdxTypes
    <3> QED
      BY <1>1, <2>2, <2>5, <2>6, <3>2, TypesKept DEF Types
  <2>7. CASE AfterWork(b, n[b]) /\ UNCHANGED idx
    BY <1>1, <2>2, <2>4, <2>5, <2>7, HelperSteps, TypesKept DEF Types
  <2>8. CASE idx' = [idx EXCEPT ![b] = 1] /\ Goto(b, "produce") /\ UNCHANGED todo
    <3>1. IdxTypes'
      <4>1. 1 <= Len(Outs[b]) + Len(Ins[b])
        BY PortBound
      <4> QED
        BY <1>1, <2>8, <4>1 DEF Types, IdxTypes
    <3>2. PlaceTypes'
      BY <1>1, <2>8, GotoType DEF Labels
    <3> QED
      BY <1>1, <2>2, <2>5, <2>8, <3>1, <3>2, TypesKept DEF Types
  <2> QED
    BY <1>8, <2>6, <2>7, <2>8, Zenon DEF consume_each
<1>9. CASE produce_each(b)
  <2>1. /\ pc[b] = "produce"
        /\ written' = [written EXCEPT ![Outs[b][idx[b]]] = @ + n[b]]
        /\ UNCHANGED <<items_read, buf_done, d_done, tpbVars, snapVars, nproduced, n, posted, stopVars>>
    BY <1>9 DEF produce_each
  <2>2. FlagTypes' /\ QueueTypes' /\ SnapTypes' /\ AskTypes' /\ StopTypes' /\ DoneTypes' /\ WorkTypes'
    BY <1>1, <2>1, TypesKept
  <2>3. /\ Len(Ins[b]) \in Nat /\ Len(Outs[b]) \in Nat /\ idx[b] \in 1 .. Len(Outs[b])
        /\ Outs[b][idx[b]] \in Bufs
    <3>1. idx[b] \in DOMAIN Outs[b]
      BY <2>1 DEF TpbInv, LoopInv
    <3> QED
      BY <3>1, PortFact
  <2>4. n[b] \in Nat
    BY <1>1, SizeAssumption DEF Types, WorkTypes
  <2>5. BufTypes'
    BY <1>1, <2>1, <2>3, <2>4 DEF Types, BufTypes
  <2>6. CASE idx[b] < Len(Outs[b]) /\ idx' = [idx EXCEPT ![b] = @ + 1] /\ UNCHANGED <<pc, todo>>
    <3>1. idx[b] + 1 \in Nat /\ idx[b] + 1 <= Len(Outs[b]) + Len(Ins[b])
      <4>1. idx[b] \in Nat
        BY <2>3
      <4>2. idx[b] + 1 \in Nat
        BY <4>1
      <4> QED
        BY <2>3, <4>1, <4>2, <2>6, PortBound, Zenon
    <3>2. IdxTypes'
      BY <1>1, <2>6, <3>1 DEF Types, IdxTypes
    <3> QED
      BY <1>1, <2>2, <2>5, <2>6, <3>2, TypesKept DEF Types
  <2>7. CASE AfterWork(b, n[b]) /\ UNCHANGED idx
    BY <1>1, <2>2, <2>4, <2>5, <2>7, HelperSteps, TypesKept DEF Types
  <2> QED
    BY <1>9, <2>6, <2>7, Zenon DEF produce_each
<1>10. CASE set_done(b)
  <2> DEFINE fs == Outs[b] \o Ins[b]
  <2>1. /\ pc[b] = "set_done"
        /\ buf_done' = [buf_done EXCEPT ![fs[idx[b]]] = TRUE]
        /\ UNCHANGED <<written, items_read, d_done, tpbVars, snapVars, nproduced, n, posted, stopVars>>
    BY <1>10 DEF set_done
  <2>2. FlagTypes' /\ QueueTypes' /\ SnapTypes' /\ AskTypes' /\ StopTypes' /\ DoneTypes' /\ WorkTypes'
    BY <1>1, <2>1, TypesKept
  <2>3. /\ Len(Ins[b]) \in Nat /\ Len(Outs[b]) \in Nat
        /\ idx[b] \in 1 .. Len(Outs[b]) + Len(Ins[b])
        /\ Len(fs) = Len(Outs[b]) + Len(Ins[b])
    <3>1. idx[b] \in 1 .. Len(Outs[b]) + Len(Ins[b])
      BY <2>1 DEF TpbInv, LoopInv
    <3>2. Ins[b] \in Seq(Bufs) /\ Outs[b] \in Seq(Bufs)
      BY GraphAssumption
    <3>3. Len(fs) = Len(Outs[b]) + Len(Ins[b])
      BY <3>2, ConcatProperties
    <3> QED
      BY <3>1, <3>3, PortFact, Zenon
  <2>5. BufTypes'
    BY <1>1, <2>1 DEF Types, BufTypes
  <2>6. CASE idx[b] < Len(fs) /\ idx' = [idx EXCEPT ![b] = @ + 1] /\ UNCHANGED <<pc, todo>>
    <3>1. idx[b] + 1 \in Nat /\ idx[b] + 1 <= Len(Outs[b]) + Len(Ins[b])
      <4>1. idx[b] \in Nat
        BY <2>3
      <4>2. idx[b] + 1 \in Nat
        BY <4>1
      <4> QED
        BY <2>3, <4>1, <4>2, <2>6, PortBound, Zenon
    <3>2. IdxTypes'
      BY <1>1, <2>6, <3>1 DEF Types, IdxTypes
    <3> QED
      BY <1>1, <2>2, <2>5, <2>6, <3>2, TypesKept DEF Types
  <2>7. CASE AfterWork(b, 1) /\ UNCHANGED idx
    BY <1>1, <2>2, <2>5, <2>7, HelperSteps, TypesKept DEF Types
  <2> QED
    BY <1>10, <2>6, <2>7, Zenon DEF set_done
<1>11. CASE Notify(b)
  <2> DEFINE kind == Head(todo[b])[1]  q == Head(todo[b])[2]
  <2>1. /\ todo[b] # <<>>
        /\ IF kind = "input"
           THEN input_changed' = [input_changed EXCEPT ![q] = TRUE] /\ UNCHANGED output_changed
           ELSE output_changed' = [output_changed EXCEPT ![q] = TRUE] /\ UNCHANGED input_changed
        /\ pc' = [pc EXCEPT ![q] = Wake(q, kind)]
        /\ todo' = [todo EXCEPT ![b] = Tail(@)]
        /\ UNCHANGED <<bufVars, d_done, msg_queue, idx, snapVars, nproduced, n, posted, stopVars>>
    BY <1>11 DEF Notify
  <2>2. /\ BufTypes' /\ DoneTypes' /\ QueueTypes' /\ IdxTypes' /\ SnapTypes' /\ AskTypes'
        /\ StopTypes' /\ WorkTypes'
    BY <1>1, <2>1, TypesKept
  <2>3. todo \in [Blocks -> Seq(Notices)] /\ todo[b] \in Seq(Notices)
    BY <1>1 DEF Types, TodoTypes
  <2>4. Head(todo[b]) \in Notices /\ Tail(todo[b]) \in Seq(Notices)
    BY <2>1, <2>3
  <2>5. TodoTypes'
    BY <2>1, <2>3, <2>4 DEF TodoTypes
  <2>6. q \in Blocks /\ kind \in {"input", "output"}
    BY <2>4 DEF Notices
  <2> HIDE DEF q, kind
  <2>7. FlagTypes'
    BY <1>1, <2>1 DEF Types, FlagTypes
  <2>8. Wake(q, kind) \in Labels
    BY <1>1, <2>6 DEF Wake, Labels, Types, PlaceTypes
  <2>9. PlaceTypes'
    BY <1>1, <2>1, <2>8 DEF Types, PlaceTypes
  <2> QED
    BY <2>2, <2>5, <2>7, <2>9 DEF Types
<1>12. CASE NotifyEnd(b)
  <2>1. PlaceTypes'
    BY <1>1, <1>12, GotoType DEF NotifyEnd, Labels
  <2> QED
    BY <1>1, <1>12, <2>1, TypesKept DEF NotifyEnd, Types
<1>13. ASSUME NEW outer, NEW woken \in Labels, NEW wait \in Labels, NEW changed,
              Blocked(b, outer, woken, wait, changed)
       PROVE  Types'
  <2>1. PlaceTypes' /\ QueueTypes'
    BY <1>1, <1>13 DEF Blocked, Goto, Types, PlaceTypes, QueueTypes, Labels
  <2> QED
    BY <1>1, <1>13, <2>1, TypesKept DEF Blocked, Types
<1>14. CASE BlkdIn(b)
  BY <1>13, <1>14 DEF BlkdIn, Labels
<1>15. CASE BlkdOut(b)
  BY <1>13, <1>15 DEF BlkdOut, Labels
<1>16. CASE WaitInterrupted(b)
  <2>1. PlaceTypes'
    BY <1>1, <1>16, GotoType DEF WaitInterrupted, Labels
  <2> QED
    BY <1>1, <1>16, <2>1, TypesKept DEF WaitInterrupted, Types
<1> QED
  BY <1>2, <1>3, <1>4, <1>5, <1>6, <1>7, <1>8, <1>9, <1>10, <1>11, <1>12, <1>14, <1>15, <1>16
     DEF Thread
\* So does every other step.
LEMMA NextTypes ==
  ASSUME TpbInv, [Next]_vars
  PROVE  TypeOK'
<1> SUFFICES Types'
  BY Zenon DEF TypeOK, Types, BufTypes, FlagTypes, QueueTypes, PlaceTypes, DoneTypes, IdxTypes,
             TodoTypes, SnapTypes, AskTypes, WorkTypes, StopTypes, Notices
<1>1. Types /\ TypeOK
  BY TypesFact DEF TpbInv
<1> USE DEF tpbVars, snapVars
<1>2. ASSUME NEW b \in Blocks, Thread(b) PROVE Types'
  BY <1>2, ThreadTypes
<1>3. ASSUME NEW b \in Blocks, WorkThrows(b) \/ SpuriousWakeup(b) PROVE Types'
  <2>1. PlaceTypes'
    BY <1>1, <1>3, GotoType DEF WorkThrows, SpuriousWakeup, Labels
  <2> QED
    BY <1>1, <1>3, <2>1, TypesKept DEF WorkThrows, SpuriousWakeup, Types
<1>4. ASSUME NEW b \in Blocks, post(b) PROVE Types'
  <2>1. PlaceTypes' /\ QueueTypes'
    BY <1>1, <1>4, SizeAssumption DEF post, Goto, Types, PlaceTypes, QueueTypes, Labels
  <2> QED
    BY <1>1, <1>4, <2>1, TypesKept DEF post, Types
<1>5. ASSUME NEW b \in Blocks, Interrupt(b) PROVE Types'
  <2>1. StopTypes'
    BY <1>1, <1>5 DEF Interrupt, Types, StopTypes
  <2> QED
    BY <1>1, <1>5, <2>1, TypesKept DEF Interrupt, Types
<1>6. CASE stop
  <2>1. StopTypes'
    BY <1>1, <1>6 DEF stop, Types, StopTypes
  <2> QED
    BY <1>1, <1>6, <2>1, TypesKept DEF stop, Types
<1>7. CASE UNCHANGED vars
  BY <1>1, <1>7, TypesKept DEF vars, Types
<1> QED
  BY <1>2, <1>3, <1>4, <1>5, <1>6, <1>7, Zenon DEF Next

-----------------------------------------------------------------------------
(* The pointers. *)

\* What consume_each changes.
LEMMA ConsumeFact ==
  ASSUME TpbInv, NEW b \in Blocks, consume_each(b)
  PROVE  /\ pc[b] = "consume" /\ idx[b] \in DOMAIN Ins[b] /\ n[b] \in Nat \ {0}
         /\ n[b] * Decimation[b] \in Nat
         /\ \A q \in Blocks : \A i \in DOMAIN Ins[q] :
              items_available(q, Ins[q][i])' =
                IF q = b /\ i = idx[b]
                THEN items_available(q, Ins[q][i]) - n[b] * Decimation[b]
                ELSE items_available(q, Ins[q][i])
<1>1. /\ pc[b] = "consume"
      /\ items_read' = [items_read EXCEPT ![b][Ins[b][idx[b]]] = @ + n[b] * Decimation[b]]
      /\ UNCHANGED written
  BY DEF consume_each
<1>2. idx[b] \in DOMAIN Ins[b] /\ n[b] \in Nat \ {0}
  <2>1. n[b] \in 0 .. BufSize /\ BufSize \in Nat
    BY SizeAssumption DEF TpbInv, TypeOK
  <2>2. idx[b] \in DOMAIN Ins[b] /\ n[b] > 0
    BY <1>1 DEF TpbInv, LoopInv
  <2> QED
    BY <2>1, <2>2
<1> DEFINE g == Ins[b][idx[b]]  d == n[b] * Decimation[b]
<1>3. d \in Nat
  BY <1>2, NeedFact
<1>4. items_read' = [items_read EXCEPT ![b] = [items_read[b] EXCEPT ![g] = items_read[b][g] + d]]
  BY <1>1
<1>5. g \in Range(Ins[b])
  BY <1>2, PortFact
<1> HIDE DEF d
<1>6. ASSUME NEW q \in Blocks, NEW i \in DOMAIN Ins[q]
      PROVE  items_available(q, Ins[q][i])' =
                IF q = b /\ i = idx[b]
                THEN items_available(q, Ins[q][i]) - d
                ELSE items_available(q, Ins[q][i])
  <2> DEFINE f == Ins[q][i]
  <2>1. f \in Range(Ins[q]) /\ f \in Bufs
    BY PortFact
  <2>2. DOMAIN items_read = Blocks /\ items_read[q] \in [Range(Ins[q]) -> Nat] /\ written[f] \in Nat
    BY <2>1 DEF TpbInv, TypeOK
  <2>3. q = b => (f = g <=> i = idx[b])
    <3>1. \A k, l \in DOMAIN Ins[b] : Ins[b][k] = Ins[b][l] => k = l
      BY PortFact
    <3> QED
      BY <1>2, <3>1
  <2> HIDE DEF f, g
  <2>4. items_read'[q][f] = IF q = b /\ f = g THEN items_read[q][f] + d ELSE items_read[q][f]
    BY <1>4, <1>5, <2>1, <2>2
  <2>5. items_read[q][f] \in Nat /\ History[q] \in Nat
    BY <2>1, <2>2, SizeAssumption
  <2>6. items_available(q, f)' = written[f] + History[q] - 1 - items_read'[q][f]
        /\ items_available(q, f) = written[f] + History[q] - 1 - items_read[q][f]
    BY <1>1 DEF items_available
  <2>7. CASE q = b /\ i = idx[b]
    BY <1>3, <2>2, <2>3, <2>4, <2>5, <2>6, <2>7 DEF f
  <2>8. CASE ~(q = b /\ i = idx[b])
    BY <1>3, <2>2, <2>3, <2>4, <2>5, <2>6, <2>8 DEF f
  <2> QED
    BY <2>7, <2>8
<1> QED
  BY <1>1, <1>2, <1>3, <1>6 DEF d

\* What produce_each changes.
LEMMA ProduceFact ==
  ASSUME TpbInv, NEW b \in Blocks, produce_each(b)
  PROVE  /\ pc[b] = "produce" /\ idx[b] \in DOMAIN Outs[b] /\ n[b] \in Nat \ {0}
         /\ \A q \in Blocks : \A i \in DOMAIN Ins[q] :
              items_available(q, Ins[q][i])' =
                IF Ins[q][i] = Outs[b][idx[b]]
                THEN items_available(q, Ins[q][i]) + n[b]
                ELSE items_available(q, Ins[q][i])
<1>1. /\ pc[b] = "produce"
      /\ written' = [written EXCEPT ![Outs[b][idx[b]]] = @ + n[b]]
      /\ UNCHANGED items_read
  BY DEF produce_each
<1>2. idx[b] \in DOMAIN Outs[b] /\ n[b] \in Nat \ {0}
  <2>1. n[b] \in 0 .. BufSize /\ BufSize \in Nat
    BY SizeAssumption DEF TpbInv, TypeOK
  <2>2. idx[b] \in DOMAIN Outs[b] /\ n[b] > 0
    BY <1>1 DEF TpbInv, LoopInv
  <2> QED
    BY <2>1, <2>2
<1> DEFINE g == Outs[b][idx[b]]
<1>3. written' = [written EXCEPT ![g] = written[g] + n[b]]
  BY <1>1
<1>4. g \in Bufs
  BY <1>2, PortFact
<1> HIDE DEF g
<1>5. ASSUME NEW q \in Blocks, NEW i \in DOMAIN Ins[q]
      PROVE  items_available(q, Ins[q][i])' =
                IF Ins[q][i] = g
                THEN items_available(q, Ins[q][i]) + n[b]
                ELSE items_available(q, Ins[q][i])
  <2> DEFINE f == Ins[q][i]
  <2>1. f \in Range(Ins[q]) /\ f \in Bufs
    BY PortFact
  <2>2. items_read[q][f] \in Nat /\ written \in [Bufs -> Nat] /\ History[q] \in Nat
    <3>1. items_read[q] \in [Range(Ins[q]) -> Nat] /\ written \in [Bufs -> Nat]
      BY DEF TpbInv, TypeOK
    <3> QED
      BY <2>1, <3>1, SizeAssumption
  <2> HIDE DEF f
  <2>3. written'[f] = IF f = g THEN written[f] + n[b] ELSE written[f]
    BY <1>3, <2>1, <2>2
  <2>4. items_available(q, f)' = written'[f] + History[q] - 1 - items_read[q][f]
        /\ items_available(q, f) = written[f] + History[q] - 1 - items_read[q][f]
    BY <1>1 DEF items_available
  <2>5. written[f] \in Nat
    BY <2>1, <2>2
  <2>6. CASE f = g
    BY <1>2, <2>2, <2>3, <2>4, <2>5, <2>6 DEF f
  <2>7. CASE f # g
    BY <1>2, <2>2, <2>3, <2>4, <2>5, <2>7 DEF f
  <2> QED
    BY <2>6, <2>7 DEF f
<1> QED
  BY <1>1, <1>2, <1>5 DEF g

\* No other step moves a pointer.
LEMMA StillFact ==
  ASSUME UNCHANGED <<written, items_read>>
  PROVE  /\ \A q \in Blocks : \A f : items_available(q, f)' = items_available(q, f)
         /\ \A f : \A k : Room(f, k)' <=> Room(f, k)
         /\ FillInv => FillInv'
<1>1. \A q : \A f : items_available(q, f)' = items_available(q, f)
  BY DEF items_available
<1>2. \A f : \A k : Room(f, k)' <=> Room(f, k)
  BY <1>1 DEF Room
<1>3. FillInv => FillInv'
  BY <1>1 DEF FillInv
<1> QED
  BY <1>1, <1>2, <1>3

\* Reader by reader, room in a buffer.
LEMMA RoomFact ==
  ASSUME NEW f \in Bufs, NEW k \in Int
  PROVE  /\ Room(f, k) <=> \A q \in Blocks : \A i \in DOMAIN Ins[q] :
              Ins[q][i] = f => items_available(q, f) + k <= BufSize - 1
         /\ (Room(f, k) <=> \A q \in Blocks : \A i \in DOMAIN Ins[q] :
              Ins[q][i] = f => items_available(q, f) + k <= BufSize - 1)'
<1>1. \A j \in DOMAIN Rdrs[f] : \E q \in Blocks : \E i \in DOMAIN Ins[q] :
        Rdrs[f][j] = q /\ Ins[q][i] = f
  BY ReaderFact
<1>2. \A q \in Blocks : \A i \in DOMAIN Ins[q] : Ins[q][i] = f =>
        \E j \in DOMAIN Rdrs[f] : Rdrs[f][j] = q
  BY ReadsFact
<1>3. Room(f, k) <=> \A q \in Blocks : \A i \in DOMAIN Ins[q] :
              Ins[q][i] = f => items_available(q, f) + k <= BufSize - 1
  BY <1>1, <1>2, Zenon DEF Room
<1>4. (Room(f, k) <=> \A q \in Blocks : \A i \in DOMAIN Ins[q] :
              Ins[q][i] = f => items_available(q, f) + k <= BufSize - 1)'
  BY <1>1, <1>2, Zenon DEF Room
<1> QED
  BY <1>3, <1>4

\* Block by block, how full the buffers are.
LEMMA FillFact ==
  /\ FillInv <=> \A q \in Blocks : \A i \in DOMAIN Ins[q] :
       items_available(q, Ins[q][i]) \in 0 .. BufSize - 1
  /\ FillInv' <=> \A q \in Blocks : \A i \in DOMAIN Ins[q] :
       items_available(q, Ins[q][i])' \in 0 .. BufSize - 1
<1>1. \A f \in Bufs : \A j \in DOMAIN Rdrs[f] : \E q \in Blocks : \E i \in DOMAIN Ins[q] :
        Rdrs[f][j] = q /\ Ins[q][i] = f
  BY ReaderFact
<1>2. ASSUME NEW q \in Blocks, NEW i \in DOMAIN Ins[q]
      PROVE  Ins[q][i] \in Bufs /\ \E j \in DOMAIN Rdrs[Ins[q][i]] : Rdrs[Ins[q][i]][j] = q
  <2>1. Ins[q][i] \in Bufs
    BY PortFact
  <2> QED
    BY <2>1, ReadsFact
<1>3. ASSUME FillInv, NEW q \in Blocks, NEW i \in DOMAIN Ins[q]
      PROVE  items_available(q, Ins[q][i]) \in 0 .. BufSize - 1
  BY <1>2, <1>3 DEF FillInv
<1>4. ASSUME FillInv', NEW q \in Blocks, NEW i \in DOMAIN Ins[q]
      PROVE  items_available(q, Ins[q][i])' \in 0 .. BufSize - 1
  BY <1>2, <1>4 DEF FillInv
<1>5. ASSUME \A q \in Blocks : \A i \in DOMAIN Ins[q] :
               items_available(q, Ins[q][i]) \in 0 .. BufSize - 1
      PROVE  FillInv
  BY <1>1, <1>5 DEF FillInv
<1>6. ASSUME \A q \in Blocks : \A i \in DOMAIN Ins[q] :
               items_available(q, Ins[q][i])' \in 0 .. BufSize - 1
      PROVE  FillInv'
  BY <1>1, <1>6 DEF FillInv
<1> QED
  BY <1>3, <1>4, <1>5, <1>6, Zenon
\* The steps that move no pointer.
Quiet(b) ==
  \/ Top(b) \/ Drain(b) \/ clear_changed(b) \/ ReadInput(b) \/ MinAvailableSpace(b) \/ Work(b)
  \/ set_done(b) \/ Notify(b) \/ NotifyEnd(b) \/ BlkdIn(b) \/ BlkdOut(b) \/ WaitInterrupted(b)
  \/ WorkThrows(b) \/ SpuriousWakeup(b) \/ post(b) \/ Interrupt(b)

\* They really do not.
LEMMA QuietFact ==
  ASSUME NEW b \in Blocks, Quiet(b)
  PROVE  UNCHANGED <<written, items_read>>
<1> USE DEF bufVars
<1>1. CASE ReadInput(b)
  BY <1>1, Zenon DEF ReadInput
<1>2. CASE MinAvailableSpace(b)
  BY <1>2, Zenon DEF MinAvailableSpace
<1>3. CASE Work(b)
  BY <1>3, Zenon DEF Work
<1>4. CASE set_done(b)
  BY <1>4, Zenon DEF set_done
<1>5. CASE Notify(b)
  BY <1>5, Zenon DEF Notify
<1>6. CASE Top(b) \/ Drain(b) \/ clear_changed(b) \/ NotifyEnd(b)
  BY <1>6 DEF Top, Drain, clear_changed, NotifyEnd
<1>7. CASE BlkdIn(b) \/ BlkdOut(b)
  BY <1>7 DEF BlkdIn, BlkdOut, Blocked
<1>8. CASE WaitInterrupted(b) \/ WorkThrows(b) \/ SpuriousWakeup(b) \/ post(b) \/ Interrupt(b)
  BY <1>8 DEF WaitInterrupted, WorkThrows, SpuriousWakeup, post, Interrupt
<1> QED
  BY <1>1, <1>2, <1>3, <1>4, <1>5, <1>6, <1>7, <1>8 DEF Quiet

\* What consume_each takes was there, and what produce_each adds fits.
LEMMA NextFill ==
  ASSUME TpbInv, [Next]_vars
  PROVE  FillInv'
<1>1. FillInv /\ BufSize \in Nat
  BY SizeAssumption DEF TpbInv
<1>2. ASSUME NEW b \in Blocks, Quiet(b) PROVE FillInv'
  BY <1>1, <1>2, QuietFact, StillFact
<1>3. CASE stop \/ UNCHANGED vars
  <2>1. UNCHANGED <<written, items_read>>
    BY <1>3 DEF stop, vars, bufVars
  <2> QED
    BY <1>1, <2>1, StillFact
<1>4. ASSUME NEW b \in Blocks, consume_each(b) PROVE FillInv'
  <2>1. ASSUME NEW q \in Blocks, NEW i \in DOMAIN Ins[q]
        PROVE  items_available(q, Ins[q][i])' \in 0 .. BufSize - 1
    <3>1. items_available(q, Ins[q][i]) \in 0 .. BufSize - 1
      BY <1>1, InputFill
    <3>2. CASE q = b /\ i = idx[b]
      <4>1. items_available(q, Ins[q][i])' = items_available(q, Ins[q][i]) - n[b] * Decimation[b]
            /\ n[b] * Decimation[b] \in Nat /\ idx[b] \in DOMAIN Ins[b] /\ pc[b] = "consume"
        BY <1>4, <3>2, ConsumeFact
      <4>2. idx[b] \in idx[b] .. Len(Ins[b])
        <5>1. DOMAIN Ins[b] = 1 .. Len(Ins[b])
          BY PortFact
        <5> QED
          BY <4>1, <5>1
      <4>3. fixed_rate_noutput_to_ninput(b, n[b]) <= items_available(b, Ins[b][idx[b]])
        BY <4>1, <4>2 DEF TpbInv, PromiseInv
      <4>4. fixed_rate_noutput_to_ninput(b, n[b]) = n[b] * Decimation[b] + History[b] - 1
            /\ History[b] \in Nat \ {0}
        BY SizeAssumption DEF fixed_rate_noutput_to_ninput
      <4>5. n[b] * Decimation[b] <= items_available(q, Ins[q][i])
        BY <3>1, <3>2, <4>1, <4>3, <4>4
      <4> QED
        BY <1>1, <3>1, <4>1, <4>5
    <3>3. CASE ~(q = b /\ i = idx[b])
      BY <1>4, <3>1, <3>3, ConsumeFact
    <3> QED
      BY <3>2, <3>3
  <2> QED
    BY <2>1, FillFact
<1>5. ASSUME NEW b \in Blocks, produce_each(b) PROVE FillInv'
  <2>1. ASSUME NEW q \in Blocks, NEW i \in DOMAIN Ins[q]
        PROVE  items_available(q, Ins[q][i])' \in 0 .. BufSize - 1
    <3>1. items_available(q, Ins[q][i]) \in 0 .. BufSize - 1
      BY <1>1, InputFill
    <3>2. CASE Ins[q][i] = Outs[b][idx[b]]
      <4>1. items_available(q, Ins[q][i])' = items_available(q, Ins[q][i]) + n[b]
            /\ n[b] \in Nat /\ idx[b] \in DOMAIN Outs[b] /\ pc[b] = "produce"
        BY <1>5, <3>2, ProduceFact
      <4>2. idx[b] \in idx[b] .. Len(Outs[b])
        <5>1. DOMAIN Outs[b] = 1 .. Len(Outs[b])
          BY PortFact
        <5> QED
          BY <4>1, <5>1
      <4>3. Room(Outs[b][idx[b]], n[b])
        BY <4>1, <4>2 DEF TpbInv, PromiseInv
      <4>4. PICK j \in DOMAIN Rdrs[Ins[q][i]] : Rdrs[Ins[q][i]][j] = q
        BY ReadsFact
      <4>5. items_available(q, Ins[q][i]) + n[b] <= BufSize - 1
        BY <3>2, <4>3, <4>4 DEF Room
      <4> QED
        BY <1>1, <3>1, <4>1, <4>5
    <3>3. CASE Ins[q][i] # Outs[b][idx[b]]
      BY <1>5, <3>1, <3>3, ProduceFact
    <3> QED
      BY <3>2, <3>3
  <2> QED
    BY <2>1, FillFact
<1> QED
  BY <1>2, <1>3, <1>4, <1>5, Zenon DEF Next, Thread, Quiet

-----------------------------------------------------------------------------
(* The promises. *)

Active == {"inputs", "outputs", "work", "consume", "produce", "set_done"}

\* The pointers move in favour of q.
Favours(q) ==
  /\ \A i \in DOMAIN Ins[q] : items_available(q, Ins[q][i])' >= items_available(q, Ins[q][i])
  /\ \A o \in DOMAIN Outs[q] : \A k \in Int : Room(Outs[q][o], k) => Room(Outs[q][o], k)'

\* Nothing else of q changes, unless it is on its way to or from a wait.
Keeps(q) ==
  /\ pc'[q] = pc[q] \/ (pc[q] \notin Active /\ pc'[q] \notin Active)
  /\ idx'[q] = idx[q] /\ d_ninput_items'[q] = d_ninput_items[q]
  /\ noutput_items'[q] = noutput_items[q] /\ n'[q] = n[q]

\* Then the promises made to q still hold.
LEMMA Frame ==
  ASSUME TpbInv, TypeOK', NEW q \in Blocks, Favours(q), Keeps(q)
  PROVE  LoopInv(q)' /\ PromiseInv(q)'
<1>1. LoopInv(q) /\ PromiseInv(q) /\ TypeOK
  BY DEF TpbInv
<1>2. LoopInv(q)'
  BY <1>1 DEF LoopInv, Keeps, Active
<1>3. /\ DOMAIN Ins[q] = 1 .. Len(Ins[q]) /\ DOMAIN Outs[q] = 1 .. Len(Outs[q])
      /\ Len(Ins[q]) \in Nat /\ Len(Outs[q]) \in Nat
  BY PortFact
<1>4. /\ d_ninput_items[q] \in Seq(0 .. BufSize - 1) /\ Len(d_ninput_items[q]) <= Len(Ins[q])
      /\ noutput_items[q] \in 0 .. BufSize /\ n[q] \in 0 .. BufSize /\ idx[q] \in Nat
      /\ BufSize \in Nat
  BY <1>1, SizeAssumption DEF TypeOK
<1>5. \A i \in DOMAIN d_ninput_items[q] : i \in DOMAIN Ins[q] /\ d_ninput_items[q][i] \in Int
  BY <1>3, <1>4
<1>6. \A i \in DOMAIN Ins[q] : /\ items_available(q, Ins[q][i]) \in Int
                               /\ items_available(q, Ins[q][i])' \in Int
  <2>1. \A i \in DOMAIN Ins[q] : items_available(q, Ins[q][i]) \in Int
    BY <1>1, AvailableType
  <2>2. ASSUME NEW i \in DOMAIN Ins[q] PROVE items_available(q, Ins[q][i])' \in Int
    <3>1. Ins[q][i] \in Bufs /\ Ins[q][i] \in Range(Ins[q])
      BY PortFact
    <3>2. written'[Ins[q][i]] \in Nat /\ items_read'[q][Ins[q][i]] \in Nat
      BY <3>1 DEF TypeOK
    <3> QED
      BY <3>2, SizeAssumption DEF items_available
  <2> QED
    BY <2>1, <2>2
<1>7. /\ fixed_rate_noutput_to_ninput(q, noutput_items[q]) \in Int
      /\ fixed_rate_noutput_to_ninput(q, n[q]) \in Int
  <2>1. noutput_items[q] \in Nat /\ n[q] \in Nat
    BY <1>4
  <2> QED
    BY <2>1, NeedFact
<1> DEFINE av(i) == items_available(q, Ins[q][i])
<1>8. \A x \in Int : \A i \in DOMAIN Ins[q] : x <= av(i) => x <= av(i)'
  BY <1>6 DEF Favours
<1>9. \A i \in DOMAIN d_ninput_items'[q] : d_ninput_items'[q][i] <= av(i)'
  <2>1. d_ninput_items'[q] = d_ninput_items[q]
    BY DEF Keeps
  <2> QED
    BY <1>1, <1>5, <1>8, <2>1 DEF PromiseInv
<1>10. pc'[q] = "outputs" => \A o \in 1 .. idx'[q] - 1 : Room(Outs[q][o], noutput_items[q])'
  <2> SUFFICES ASSUME pc'[q] = "outputs", NEW o \in 1 .. idx'[q] - 1
               PROVE  Room(Outs[q][o], noutput_items[q])'
    OBVIOUS
  <2>1. pc[q] = "outputs" /\ o \in 1 .. idx[q] - 1 /\ noutput_items'[q] = noutput_items[q]
    BY DEF Keeps, Active
  <2>2. idx[q] \in DOMAIN Outs[q]
    BY <1>1, <2>1 DEF LoopInv
  <2>3. o \in DOMAIN Outs[q]
    BY <1>3, <2>1, <2>2
  <2>4. Room(Outs[q][o], noutput_items[q])
    BY <1>1, <2>1 DEF PromiseInv
  <2>5. noutput_items[q] \in Int
    BY <1>4
  <2>6. \A k \in Int : Room(Outs[q][o], k) => Room(Outs[q][o], k)'
    BY <2>3 DEF Favours
  <2> QED
    BY <2>1, <2>4, <2>5, <2>6 DEF Room
<1>11. pc'[q] = "work" =>
        /\ \A i \in DOMAIN Ins[q] : fixed_rate_noutput_to_ninput(q, noutput_items'[q]) <= av(i)'
        /\ \A o \in DOMAIN Outs[q] : Room(Outs[q][o], noutput_items[q])'
  <2> SUFFICES ASSUME pc'[q] = "work"
               PROVE  /\ \A i \in DOMAIN Ins[q] :
                           fixed_rate_noutput_to_ninput(q, noutput_items'[q]) <= av(i)'
                      /\ \A o \in DOMAIN Outs[q] : Room(Outs[q][o], noutput_items[q])'
    OBVIOUS
  <2>1. pc[q] = "work" /\ noutput_items'[q] = noutput_items[q]
    BY DEF Keeps, Active
  <2>2. /\ \A i \in DOMAIN Ins[q] : fixed_rate_noutput_to_ninput(q, noutput_items[q]) <= av(i)
        /\ \A o \in DOMAIN Outs[q] : Room(Outs[q][o], noutput_items[q])
    BY <1>1, <2>1 DEF PromiseInv
  <2>3. \A i \in DOMAIN Ins[q] : fixed_rate_noutput_to_ninput(q, noutput_items'[q]) <= av(i)'
    BY <1>7, <1>8, <2>1, <2>2
  <2>4. noutput_items[q] \in Int
    BY <1>4
  <2>5. \A o \in DOMAIN Outs[q] : Room(Outs[q][o], noutput_items[q])'
    BY <2>1, <2>2, <2>4 DEF Favours, Room
  <2> QED
    BY <2>3, <2>5
<1>12. pc'[q] = "consume" =>
        /\ \A i \in idx'[q] .. Len(Ins[q]) : fixed_rate_noutput_to_ninput(q, n'[q]) <= av(i)'
        /\ \A o \in DOMAIN Outs[q] : Room(Outs[q][o], n[q])'
  <2> SUFFICES ASSUME pc'[q] = "consume"
               PROVE  /\ \A i \in idx'[q] .. Len(Ins[q]) :
                           fixed_rate_noutput_to_ninput(q, n'[q]) <= av(i)'
                      /\ \A o \in DOMAIN Outs[q] : Room(Outs[q][o], n[q])'
    OBVIOUS
  <2>1. pc[q] = "consume" /\ n'[q] = n[q] /\ idx'[q] = idx[q]
    BY DEF Keeps, Active
  <2>2. /\ \A i \in idx[q] .. Len(Ins[q]) : fixed_rate_noutput_to_ninput(q, n[q]) <= av(i)
        /\ \A o \in DOMAIN Outs[q] : Room(Outs[q][o], n[q])
    BY <1>1, <2>1 DEF PromiseInv
  <2>3. idx[q] \in DOMAIN Ins[q]
    BY <1>1, <2>1 DEF LoopInv
  <2>4. \A i \in idx[q] .. Len(Ins[q]) : i \in DOMAIN Ins[q]
    BY <1>3, <2>3
  <2>5. \A i \in idx'[q] .. Len(Ins[q]) : fixed_rate_noutput_to_ninput(q, n'[q]) <= av(i)'
    BY <1>7, <1>8, <2>1, <2>2, <2>4
  <2>6. n[q] \in Int
    BY <1>4
  <2>7. \A o \in DOMAIN Outs[q] : Room(Outs[q][o], n[q])'
    BY <2>1, <2>2, <2>6 DEF Favours, Room
  <2> QED
    BY <2>5, <2>7
<1>13. pc'[q] = "produce" => \A o \in idx'[q] .. Len(Outs[q]) : Room(Outs[q][o], n[q])'
  <2> SUFFICES ASSUME pc'[q] = "produce", NEW o \in idx'[q] .. Len(Outs[q])
               PROVE  Room(Outs[q][o], n[q])'
    OBVIOUS
  <2>1. pc[q] = "produce" /\ o \in idx[q] .. Len(Outs[q]) /\ n'[q] = n[q]
    BY DEF Keeps, Active
  <2>2. idx[q] \in DOMAIN Outs[q]
    BY <1>1, <2>1 DEF LoopInv
  <2>3. o \in DOMAIN Outs[q]
    BY <1>3, <2>1, <2>2
  <2>4. Room(Outs[q][o], n[q]) /\ n[q] \in Int
    BY <1>1, <1>4, <2>1 DEF PromiseInv
  <2>6. \A k \in Int : Room(Outs[q][o], k) => Room(Outs[q][o], k)'
    BY <2>3 DEF Favours
  <2> QED
    BY <2>1, <2>4, <2>6 DEF Room
<1>14. PromiseInv(q)'
  BY <1>9, <1>10, <1>11, <1>12, <1>13, Zenon DEF PromiseInv, fixed_rate_noutput_to_ninput
<1> QED
  BY <1>2, <1>14

\* A step that moves no pointer favours everyone.
LEMMA StillFavours ==
  ASSUME TpbInv, UNCHANGED <<written, items_read>>, NEW q \in Blocks
  PROVE  Favours(q)
<1>1. \A i \in DOMAIN Ins[q] : items_available(q, Ins[q][i]) \in Int
  BY AvailableType DEF TpbInv
<1>2. \A i \in DOMAIN Ins[q] : items_available(q, Ins[q][i])' = items_available(q, Ins[q][i])
  BY StillFact
<1>3. \A i \in DOMAIN Ins[q] : items_available(q, Ins[q][i])' >= items_available(q, Ins[q][i])
  BY <1>1, <1>2
<1>4. \A o \in DOMAIN Outs[q] : \A k \in Int : Room(Outs[q][o], k) => Room(Outs[q][o], k)'
  BY StillFact
<1> QED
  BY <1>3, <1>4 DEF Favours

\* What b consumes was in front of b alone, and makes room for everyone else.
LEMMA ConsumeFavours ==
  ASSUME TpbInv, NEW b \in Blocks, consume_each(b), NEW q \in Blocks
  PROVE  /\ q # b => Favours(q)
         /\ \A o \in DOMAIN Outs[q] : \A k \in Int : Room(Outs[q][o], k) => Room(Outs[q][o], k)'
<1>1. \A p \in Blocks : \A i \in DOMAIN Ins[p] :
        /\ items_available(p, Ins[p][i]) \in Int
        /\ items_available(p, Ins[p][i])' \in Int
        /\ items_available(p, Ins[p][i])' <= items_available(p, Ins[p][i])
        /\ p # b => items_available(p, Ins[p][i])' = items_available(p, Ins[p][i])
  <2> SUFFICES ASSUME NEW p \in Blocks, NEW i \in DOMAIN Ins[p]
               PROVE  /\ items_available(p, Ins[p][i]) \in Int
                      /\ items_available(p, Ins[p][i])' \in Int
                      /\ items_available(p, Ins[p][i])' <= items_available(p, Ins[p][i])
                      /\ p # b => items_available(p, Ins[p][i])' = items_available(p, Ins[p][i])
    OBVIOUS
  <2>1. items_available(p, Ins[p][i]) \in Int
    BY AvailableType DEF TpbInv
  <2>2. n[b] * Decimation[b] \in Nat
        /\ items_available(p, Ins[p][i])' =
             IF p = b /\ i = idx[b]
             THEN items_available(p, Ins[p][i]) - n[b] * Decimation[b]
             ELSE items_available(p, Ins[p][i])
    BY ConsumeFact
  <2> QED
    BY <2>1, <2>2
<1>2. ASSUME NEW o \in DOMAIN Outs[q], NEW k \in Int, Room(Outs[q][o], k)
      PROVE  Room(Outs[q][o], k)'
  <2>1. Outs[q][o] \in Bufs
    BY PortFact
  <2>2. \A p \in Blocks : \A i \in DOMAIN Ins[p] :
          Ins[p][i] = Outs[q][o] => items_available(p, Ins[p][i]) + k <= BufSize - 1
    BY <1>2, <2>1, RoomFact
  <2>3. \A p \in Blocks : \A i \in DOMAIN Ins[p] :
          Ins[p][i] = Outs[q][o] => items_available(p, Ins[p][i])' + k <= BufSize - 1
    BY <1>1, <2>2, SizeAssumption
  <2>4. \A p \in Blocks : \A i \in DOMAIN Ins[p] :
          Ins[p][i] = Outs[q][o] => (items_available(p, Outs[q][o]) + k <= BufSize - 1)'
    BY <2>3 DEF items_available
  <2> QED
    BY <2>1, <2>4, RoomFact
<1>3. q # b => \A i \in DOMAIN Ins[q] :
        items_available(q, Ins[q][i])' >= items_available(q, Ins[q][i])
  BY <1>1
<1> QED
  BY <1>2, <1>3 DEF Favours

\* What b produces goes into buffers that b alone writes to.
LEMMA ProduceFavours ==
  ASSUME TpbInv, NEW b \in Blocks, produce_each(b), NEW q \in Blocks
  PROVE  /\ q # b => Favours(q)
         /\ \A o \in DOMAIN Outs[q] : \A k \in Int :
              Outs[q][o] # Outs[b][idx[b]] => (Room(Outs[q][o], k) => Room(Outs[q][o], k)')
<1>1. \A p \in Blocks : \A i \in DOMAIN Ins[p] :
        /\ items_available(p, Ins[p][i]) \in Int
        /\ items_available(p, Ins[p][i])' \in Int
        /\ items_available(p, Ins[p][i])' >= items_available(p, Ins[p][i])
        /\ Ins[p][i] # Outs[b][idx[b]] =>
             items_available(p, Ins[p][i])' = items_available(p, Ins[p][i])
  <2> SUFFICES ASSUME NEW p \in Blocks, NEW i \in DOMAIN Ins[p]
               PROVE  /\ items_available(p, Ins[p][i]) \in Int
                      /\ items_available(p, Ins[p][i])' \in Int
                      /\ items_available(p, Ins[p][i])' >= items_available(p, Ins[p][i])
                      /\ Ins[p][i] # Outs[b][idx[b]] =>
                           items_available(p, Ins[p][i])' = items_available(p, Ins[p][i])
    OBVIOUS
  <2>1. items_available(p, Ins[p][i]) \in Int
    BY AvailableType DEF TpbInv
  <2>2. n[b] \in Nat
        /\ items_available(p, Ins[p][i])' =
             IF Ins[p][i] = Outs[b][idx[b]]
             THEN items_available(p, Ins[p][i]) + n[b]
             ELSE items_available(p, Ins[p][i])
    BY ProduceFact
  <2> QED
    BY <2>1, <2>2
<1>2. ASSUME NEW o \in DOMAIN Outs[q], NEW k \in Int, Room(Outs[q][o], k),
             Outs[q][o] # Outs[b][idx[b]]
      PROVE  Room(Outs[q][o], k)'
  <2>1. Outs[q][o] \in Bufs
    BY PortFact
  <2>2. \A p \in Blocks : \A i \in DOMAIN Ins[p] :
          Ins[p][i] = Outs[q][o] => items_available(p, Ins[p][i]) + k <= BufSize - 1
    BY <1>2, <2>1, RoomFact
  <2>3. \A p \in Blocks : \A i \in DOMAIN Ins[p] :
          Ins[p][i] = Outs[q][o] => items_available(p, Ins[p][i])' + k <= BufSize - 1
    BY <1>1, <1>2, <2>2
  <2>4. \A p \in Blocks : \A i \in DOMAIN Ins[p] :
          Ins[p][i] = Outs[q][o] => (items_available(p, Outs[q][o]) + k <= BufSize - 1)'
    BY <2>3 DEF items_available
  <2> QED
    BY <2>1, <2>4, RoomFact
<1>3. q # b => \A o \in DOMAIN Outs[q] : Outs[q][o] # Outs[b][idx[b]]
  <2>1. Writer[Outs[b][idx[b]]] = b
    BY ProduceFact, PortFact
  <2>2. \A o \in DOMAIN Outs[q] : Writer[Outs[q][o]] = q
    BY PortFact
  <2> QED
    BY <2>1, <2>2
<1> QED
  BY <1>1, <1>2, <1>3 DEF Favours

\* A thread changes nothing of another one, except that it wakes it.
LEMMA Local ==
  ASSUME TpbInv, NEW b \in Blocks, NEW q \in Blocks, q # b,
         \/ Thread(b) \/ WorkThrows(b) \/ SpuriousWakeup(b) \/ post(b) \/ Interrupt(b)
  PROVE  Keeps(q)
<1>1. /\ DOMAIN pc = Blocks /\ DOMAIN idx = Blocks /\ DOMAIN d_ninput_items = Blocks
      /\ DOMAIN noutput_items = Blocks /\ DOMAIN n = Blocks /\ pc[q] \in Labels
      /\ DOMAIN todo = Blocks /\ todo[b] \in Seq(Notices)
  BY DEF TpbInv, TypeOK, Notices
<1>2. \A l : Goto(b, l) => pc'[q] = pc[q]
  BY <1>1 DEF Goto
<1>3. WereDone(b) => pc'[q] = pc[q] /\ idx'[q] = idx[q]
  BY <1>1, <1>2 DEF WereDone
<1>4. \A k : AfterWork(b, k) => pc'[q] = pc[q]
  BY <1>2 DEF AfterWork
<1>5. ForgetSnapshots(b) => d_ninput_items'[q] = d_ninput_items[q]
  BY <1>1 DEF ForgetSnapshots
<1>6. \A x, y, z : Decide(b, x, y, z) =>
        pc'[q] = pc[q] /\ idx'[q] = idx[q] /\ noutput_items'[q] = noutput_items[q]
  BY <1>1, <1>2, <1>3 DEF Decide
<1>7. CASE ReadInput(b)
  <2>1. n'[q] = n[q]
    BY <1>7, ReadFact
  <2>2. pc'[q] = pc[q] /\ idx'[q] = idx[q] /\ d_ninput_items'[q] = d_ninput_items[q]
        /\ noutput_items'[q] = noutput_items[q]
    BY <1>1, <1>2, <1>3, <1>5, <1>6, <1>7, ReadFact
  <2> QED
    BY <2>1, <2>2 DEF Keeps
<1>8. CASE MinAvailableSpace(b)
  <2>1. n'[q] = n[q]
    BY <1>8, MinSpaceFact
  <2>2. pc'[q] = pc[q] /\ idx'[q] = idx[q] /\ d_ninput_items'[q] = d_ninput_items[q]
        /\ noutput_items'[q] = noutput_items[q]
    BY <1>1, <1>2, <1>3, <1>5, <1>6, <1>8, MinSpaceFact
  <2> QED
    BY <2>1, <2>2 DEF Keeps
<1>9. CASE Work(b)
  <2>1. UNCHANGED snapVars
    BY <1>9, WorkFact
  <2>2. pc'[q] = pc[q] /\ idx'[q] = idx[q] /\ n'[q] = n[q]
    BY <1>1, <1>2, <1>3, <1>4, <1>9, WorkFact
  <2> QED
    BY <2>1, <2>2 DEF Keeps, snapVars
<1>10. CASE Notify(b)
  <2>1. UNCHANGED <<idx, snapVars, n>> /\ todo[b] # <<>>
    BY <1>10, Zenon DEF Notify
  <2>2. PICK kind, p : pc' = [pc EXCEPT ![p] = Wake(p, kind)]
    BY <1>10, Zenon DEF Notify
  <2>3. pc'[q] = pc[q] \/ pc'[q] = Wake(q, kind)
    BY <1>1, <2>2
  <2>4. pc'[q] = pc[q] \/ (pc[q] \notin Active /\ pc'[q] \notin Active)
    BY <2>3 DEF Wake, Active
  <2> QED
    BY <2>1, <2>4 DEF Keeps, snapVars
<1>11. CASE consume_each(b)
  BY <1>1, <1>2, <1>4, <1>11 DEF consume_each, Keeps, snapVars
<1>12. CASE produce_each(b)
  BY <1>1, <1>2, <1>4, <1>12 DEF produce_each, Keeps, snapVars
<1>13. CASE set_done(b)
  <2>1. UNCHANGED <<snapVars, n>>
        /\ \/ idx' = [idx EXCEPT ![b] = @ + 1] /\ UNCHANGED pc
           \/ AfterWork(b, 1) /\ UNCHANGED idx
    BY <1>13, Zenon DEF set_done
  <2> QED
    BY <1>1, <1>4, <2>1 DEF Keeps, snapVars
<1>14. CASE Top(b) \/ Drain(b) \/ clear_changed(b) \/ NotifyEnd(b)
  BY <1>1, <1>2, <1>14 DEF Top, Drain, clear_changed, NotifyEnd, Keeps, snapVars
<1>15. CASE BlkdIn(b) \/ BlkdOut(b)
  BY <1>1, <1>2, <1>15 DEF BlkdIn, BlkdOut, Blocked, Keeps, snapVars
<1>16. CASE WaitInterrupted(b) \/ WorkThrows(b) \/ SpuriousWakeup(b) \/ post(b) \/ Interrupt(b)
  BY <1>1, <1>2, <1>16 DEF WaitInterrupted, WorkThrows, SpuriousWakeup, post, Interrupt,
                           Keeps, snapVars
<1> QED
  BY <1>7, <1>8, <1>9, <1>10, <1>11, <1>12, <1>13, <1>14, <1>15, <1>16 DEF Thread

\* What the two invariants ask of a thread that has reached a label.
LEMMA Arrives ==
  ASSUME NEW b \in Blocks
  PROVE  /\ /\ pc'[b] \notin {"inputs", "outputs", "work", "consume", "produce"}
            /\ d_ninput_items'[b] = <<>>
            /\ pc'[b] = "set_done" => idx'[b] \in 1 .. Len(Outs[b]) + Len(Ins[b])
            => LoopInv(b)' /\ PromiseInv(b)'
         /\ /\ pc'[b] = "inputs" /\ idx'[b] \in DOMAIN Ins[b]
            /\ Len(d_ninput_items'[b]) = idx'[b] - 1
            /\ \A i \in DOMAIN d_ninput_items'[b] :
                 d_ninput_items'[b][i] <= items_available(b, Ins[b][i])'
            => LoopInv(b)' /\ PromiseInv(b)'
         /\ /\ pc'[b] = "outputs" /\ idx'[b] \in DOMAIN Outs[b]
            /\ Len(d_ninput_items'[b]) = Len(Ins[b])
            /\ \A i \in DOMAIN d_ninput_items'[b] :
                 d_ninput_items'[b][i] <= items_available(b, Ins[b][i])'
            /\ \A o \in 1 .. idx'[b] - 1 : Room(Outs[b][o], noutput_items[b])'
            => LoopInv(b)' /\ PromiseInv(b)'
         /\ /\ pc'[b] = "work" /\ d_ninput_items'[b] = <<>>
            /\ \A i \in DOMAIN Ins[b] :
                 fixed_rate_noutput_to_ninput(b, noutput_items'[b]) <= items_available(b, Ins[b][i])'
            /\ \A o \in DOMAIN Outs[b] : Room(Outs[b][o], noutput_items[b])'
            => LoopInv(b)' /\ PromiseInv(b)'
         /\ /\ pc'[b] = "consume" /\ d_ninput_items'[b] = <<>> /\ n'[b] > 0
            /\ idx'[b] \in DOMAIN Ins[b]
            /\ \A i \in idx'[b] .. Len(Ins[b]) :
                 fixed_rate_noutput_to_ninput(b, n'[b]) <= items_available(b, Ins[b][i])'
            /\ \A o \in DOMAIN Outs[b] : Room(Outs[b][o], n[b])'
            => LoopInv(b)' /\ PromiseInv(b)'
         /\ /\ pc'[b] = "produce" /\ d_ninput_items'[b] = <<>> /\ n'[b] > 0
            /\ idx'[b] \in DOMAIN Outs[b]
            /\ \A o \in idx'[b] .. Len(Outs[b]) : Room(Outs[b][o], n[b])'
            => LoopInv(b)' /\ PromiseInv(b)'
<1>1. Len(<<>>) = 0 /\ DOMAIN <<>> = {}
  OBVIOUS
<1> QED
  BY <1>1 DEF LoopInv, PromiseInv, fixed_rate_noutput_to_ninput

\* Where WereDone, AfterWork and Goto of a resting label leave the thread.
LEMMA Rests ==
  ASSUME TpbInv, NEW b \in Blocks
  PROVE  /\ ForgetSnapshots(b) => d_ninput_items'[b] = <<>>
         /\ WereDone(b) /\ d_ninput_items'[b] = <<>> => LoopInv(b)' /\ PromiseInv(b)'
         /\ \A k : AfterWork(b, k) /\ d_ninput_items'[b] = <<>> => LoopInv(b)' /\ PromiseInv(b)'
         /\ \A l \in {"blkd_in", "blkd_out", "exited"} :
              Goto(b, l) /\ d_ninput_items'[b] = <<>> => LoopInv(b)' /\ PromiseInv(b)'
         /\ pc[b] \notin {"inputs", "outputs"} => d_ninput_items[b] = <<>>
<1>1. /\ DOMAIN pc = Blocks /\ DOMAIN idx = Blocks /\ DOMAIN d_ninput_items = Blocks
      /\ d_ninput_items[b] \in Seq(0 .. BufSize - 1)
  BY DEF TpbInv, TypeOK
<1>2. \A l : Goto(b, l) => pc'[b] = l
  BY <1>1 DEF Goto
<1>3. ForgetSnapshots(b) => d_ninput_items'[b] = <<>>
  BY <1>1 DEF ForgetSnapshots
<1>4. WereDone(b) /\ d_ninput_items'[b] = <<>> => LoopInv(b)' /\ PromiseInv(b)'
  <2>1. WereDone(b) => pc'[b] = "set_done" /\ idx'[b] = 1
    BY <1>1, <1>2 DEF WereDone
  <2>2. 1 \in 1 .. Len(Outs[b]) + Len(Ins[b])
    <3>1. \A x, y \in Nat : 1 <= x + y => 1 \in 1 .. x + y
      OBVIOUS
    <3>2. Len(Outs[b]) \in Nat /\ Len(Ins[b]) \in Nat
      BY PortFact
    <3> QED
      BY <3>1, <3>2, PortBound, Zenon
  <2> QED
    BY <2>1, <2>2, Arrives
<1>5. \A k : AfterWork(b, k) /\ d_ninput_items'[b] = <<>> => LoopInv(b)' /\ PromiseInv(b)'
  <2>1. \A k : AfterWork(b, k) => pc'[b] = "notify"
    BY <1>2 DEF AfterWork
  <2> QED
    BY <2>1, Arrives
<1>6. \A l \in {"blkd_in", "blkd_out", "exited"} :
        Goto(b, l) /\ d_ninput_items'[b] = <<>> => LoopInv(b)' /\ PromiseInv(b)'
  BY <1>2, Arrives
<1>7. pc[b] \notin {"inputs", "outputs"} => d_ninput_items[b] = <<>>
  <2>1. pc[b] \notin {"inputs", "outputs"} => Len(d_ninput_items[b]) = 0
    BY DEF TpbInv, LoopInv
  <2> QED
    BY <1>1, <2>1, EmptySeq
<1> QED
  BY <1>3, <1>4, <1>5, <1>6, <1>7

\* The steps of b that leave its promises alone.
LEMMA Passive ==
  ASSUME TpbInv, NEW b \in Blocks,
         \/ Top(b) \/ Drain(b) \/ NotifyEnd(b) \/ Notify(b) \/ BlkdIn(b) \/ BlkdOut(b)
         \/ WaitInterrupted(b) \/ SpuriousWakeup(b) \/ post(b) \/ Interrupt(b)
  PROVE  Keeps(b)
<1>1. /\ DOMAIN pc = Blocks /\ pc[b] \in Labels
  BY DEF TpbInv, TypeOK
<1>2. \A l : Goto(b, l) => pc'[b] = l
  BY <1>1 DEF Goto
<1>3. CASE Notify(b)
  <2>1. UNCHANGED <<idx, snapVars, n>> /\ pc[b] = "notify"
    BY <1>3, Zenon DEF Notify
  <2>2. PICK kind, p : pc' = [pc EXCEPT ![p] = Wake(p, kind)]
    BY <1>3, Zenon DEF Notify
  <2>3. pc'[b] = pc[b] \/ pc'[b] = Wake(b, kind)
    BY <1>1, <2>2
  <2>4. pc'[b] = pc[b]
    BY <2>1, <2>3 DEF Wake
  <2> QED
    BY <2>1, <2>4 DEF Keeps, snapVars
<1>4. CASE Top(b) \/ Drain(b) \/ NotifyEnd(b)
  BY <1>1, <1>2, <1>4 DEF Top, Drain, NotifyEnd, Keeps, snapVars, Active
<1>5. CASE BlkdIn(b) \/ BlkdOut(b)
  BY <1>1, <1>2, <1>5 DEF BlkdIn, BlkdOut, Blocked, Keeps, snapVars, Active
<1>6. CASE WaitInterrupted(b) \/ SpuriousWakeup(b) \/ post(b) \/ Interrupt(b)
  BY <1>1, <1>2, <1>6 DEF WaitInterrupted, SpuriousWakeup, post, Interrupt, Keeps, snapVars, Active
<1> QED
  BY <1>3, <1>4, <1>5, <1>6

\* clear_changed starts the inspection with the first port.
LEMMA ClearOwn ==
  ASSUME TpbInv, NEW b \in Blocks, clear_changed(b)
  PROVE  LoopInv(b)' /\ PromiseInv(b)'
<1>1. /\ DOMAIN pc = Blocks /\ DOMAIN idx = Blocks
  BY DEF TpbInv, TypeOK
<1>2. /\ pc[b] = "clear" /\ idx'[b] = 1 /\ d_ninput_items'[b] = d_ninput_items[b]
      /\ pc'[b] = IF source_p(b) THEN "outputs" ELSE "inputs"
  BY <1>1 DEF clear_changed, Goto
<1>3. d_ninput_items'[b] = <<>>
  BY <1>2, Rests
<1>4. Len(<<>>) = 0 /\ DOMAIN <<>> = {} /\ 1 .. 1 - 1 = {} /\ Len(<<>>) = 1 - 1
  OBVIOUS
<1>5. /\ ~source_p(b) => 1 \in DOMAIN Ins[b]
      /\ source_p(b) => 1 \in DOMAIN Outs[b] /\ Len(Ins[b]) = 0
  <2>1. \A x, y \in Nat : /\ x # 0 => 1 \in 1 .. x
                          /\ x = 0 /\ x + y > 0 => 1 \in 1 .. y
    OBVIOUS
  <2>2. /\ Len(Ins[b]) \in Nat /\ DOMAIN Ins[b] = 1 .. Len(Ins[b])
        /\ Len(Outs[b]) \in Nat /\ DOMAIN Outs[b] = 1 .. Len(Outs[b])
        /\ Len(Ins[b]) + Len(Outs[b]) > 0 /\ (source_p(b) <=> Len(Ins[b]) = 0)
    BY PortFact
  <2> QED
    BY <2>1, <2>2, Zenon
<1>6. CASE source_p(b)
  <2>1. \A o \in 1 .. idx'[b] - 1 : Room(Outs[b][o], noutput_items[b])'
    BY <1>2, <1>4
  <2>2. \A i \in DOMAIN d_ninput_items'[b] :
          d_ninput_items'[b][i] <= items_available(b, Ins[b][i])'
    BY <1>3, <1>4
  <2> QED
    BY <1>2, <1>3, <1>4, <1>5, <1>6, <2>1, <2>2, Arrives
<1>7. CASE ~source_p(b)
  <2>1. \A i \in DOMAIN d_ninput_items'[b] :
          d_ninput_items'[b][i] <= items_available(b, Ins[b][i])'
    BY <1>3, <1>4
  <2> QED
    BY <1>2, <1>3, <1>4, <1>5, <1>7, <2>1, Arrives
<1> QED
  BY <1>6, <1>7

\* What an input has just been seen to hold, it holds.
LEMMA ReadOwn ==
  ASSUME TpbInv, NEW b \in Blocks, ReadInput(b)
  PROVE  LoopInv(b)' /\ PromiseInv(b)'
<1>1. /\ DOMAIN pc = Blocks /\ DOMAIN idx = Blocks /\ DOMAIN d_ninput_items = Blocks
      /\ DOMAIN noutput_items = Blocks
  BY DEF TpbInv, TypeOK
<1>2. pc[b] = "inputs" /\ UNCHANGED <<written, items_read>>
  BY ReadFact DEF bufVars
<1>3. \A i \in DOMAIN Ins[b] : items_available(b, Ins[b][i])' = items_available(b, Ins[b][i])
  BY <1>2, StillFact
<1>4. /\ idx[b] \in 1 .. Len(Ins[b]) /\ Len(Seen(b)) = idx[b] /\ Seen(b) # <<>>
      /\ Seen(b) \in Seq(0 .. BufSize - 1)
      /\ \A i \in DOMAIN Seen(b) : /\ i \in DOMAIN Ins[b]
                                   /\ Seen(b)[i] <= items_available(b, Ins[b][i])
  BY <1>2, SeenFact
<1>5. \A i \in DOMAIN Seen(b) : Seen(b)[i] <= items_available(b, Ins[b][i])'
  BY <1>3, <1>4
<1>6. ASSUME WereDone(b), ForgetSnapshots(b) PROVE LoopInv(b)' /\ PromiseInv(b)'
  BY <1>6, Rests
<1>7. ASSUME idx[b] # Len(Ins[b]), idx' = [idx EXCEPT ![b] = @ + 1],
             d_ninput_items' = [d_ninput_items EXCEPT ![b] = Seen(b)], UNCHANGED pc
      PROVE  LoopInv(b)' /\ PromiseInv(b)'
  <2>1. pc'[b] = "inputs" /\ idx'[b] = idx[b] + 1 /\ d_ninput_items'[b] = Seen(b)
    BY <1>1, <1>2, <1>7
  <2>2. idx[b] + 1 \in DOMAIN Ins[b] /\ idx[b] = idx[b] + 1 - 1
    <3>1. \A x, y \in Nat : x \in 1 .. y /\ x # y => x + 1 \in 1 .. y /\ x = x + 1 - 1
      OBVIOUS
    <3>2. idx[b] \in Nat
      BY DEF TpbInv, TypeOK
    <3>3. Len(Ins[b]) \in Nat /\ DOMAIN Ins[b] = 1 .. Len(Ins[b])
      BY PortFact
    <3> QED
      BY <1>4, <1>7, <3>1, <3>2, <3>3, Zenon
  <2>3. idx'[b] \in DOMAIN Ins[b] /\ Len(d_ninput_items'[b]) = idx'[b] - 1
    <3>1. idx[b] \in Nat /\ idx'[b] = idx[b] + 1
      BY <2>1 DEF TpbInv, TypeOK
    <3>2. idx'[b] - 1 = idx[b]
      BY <3>1
    <3> QED
      BY <1>4, <2>1, <2>2, <3>2, Zenon
  <2>4. \A i \in DOMAIN d_ninput_items'[b] :
          d_ninput_items'[b][i] <= items_available(b, Ins[b][i])'
    BY <1>5, <2>1
  <2> QED
    BY <2>1, <2>3, <2>4, Arrives
<1>8. ASSUME idx[b] = Len(Ins[b]), ~sink_p(b), idx' = [idx EXCEPT ![b] = 1],
             d_ninput_items' = [d_ninput_items EXCEPT ![b] = Seen(b)], Goto(b, "outputs")
      PROVE  LoopInv(b)' /\ PromiseInv(b)'
  <2>1. pc'[b] = "outputs" /\ idx'[b] = 1 /\ d_ninput_items'[b] = Seen(b)
    BY <1>1, <1>8 DEF Goto
  <2>2. 1 \in DOMAIN Outs[b]
    <3>1. \A x \in Nat : x # 0 => 1 \in 1 .. x
      OBVIOUS
    <3> QED
      BY <1>8, <3>1, PortFact
  <2>3. \A o \in 1 .. idx'[b] - 1 : Room(Outs[b][o], noutput_items[b])'
    BY <2>1
  <2> QED
    BY <1>4, <1>5, <1>8, <2>1, <2>2, <2>3, Arrives
<1>9. ASSUME Goto(b, "blkd_in"), ForgetSnapshots(b) PROVE LoopInv(b)' /\ PromiseInv(b)'
  BY <1>9, Rests
<1>10. ASSUME idx[b] = Len(Ins[b]), sink_p(b), NEW k \in 0 .. BufSize - 1,
              Decide(b, Seen(b), SeenDone(b), k), ForgetSnapshots(b)
       PROVE  LoopInv(b)' /\ PromiseInv(b)'
  <2>1. d_ninput_items'[b] = <<>>
    BY <1>10, Rests
  <2>2. k \in Nat
    BY SizeAssumption
  <2>3. CASE WereDone(b)
    BY <2>1, <2>3, Rests
  <2>4. CASE Goto(b, "blkd_in")
    BY <2>1, <2>4, Rests
  <2>5. ASSUME NEW m \in 0 .. k, noutput_items' = [noutput_items EXCEPT ![b] = m],
               \A i \in DOMAIN Seen(b) : fixed_rate_noutput_to_ninput(b, m) <= Seen(b)[i],
               Goto(b, "work")
        PROVE  LoopInv(b)' /\ PromiseInv(b)'
    <3>1. pc'[b] = "work" /\ noutput_items'[b] = m
      BY <1>1, <2>5 DEF Goto
    <3>2. DOMAIN Seen(b) = DOMAIN Ins[b]
      BY <1>4, <1>10, PortFact
    <3>3. ASSUME NEW i \in DOMAIN Ins[b]
          PROVE  fixed_rate_noutput_to_ninput(b, m) <= items_available(b, Ins[b][i])'
      <4>1. m \in Nat
        BY <2>2
      <4>2. fixed_rate_noutput_to_ninput(b, m) \in Int
        BY <4>1, NeedFact
      <4>3. items_available(b, Ins[b][i]) \in Int
        BY AvailableType DEF TpbInv
      <4>4. Seen(b)[i] \in Int
        BY <1>4, <3>2, SnapshotRange
      <4>5. fixed_rate_noutput_to_ninput(b, m) <= Seen(b)[i]
            /\ Seen(b)[i] <= items_available(b, Ins[b][i])
        BY <1>4, <2>5, <3>2
      <4> QED
        BY <1>3, <4>2, <4>3, <4>4, <4>5
    <3>4. DOMAIN Outs[b] = {}
      BY <1>10 DEF sink_p
    <3> QED
      BY <2>1, <3>1, <3>3, <3>4, Arrives
  <2> QED
    BY <1>4, <1>10, <2>2, <2>3, <2>4, <2>5, DecideFact
<1> QED
  BY <1>6, <1>7, <1>8, <1>9, <1>10, ReadFact

\* The room found in the outputs is there for all that work() may be asked for.
LEMMA SpaceOwn ==
  ASSUME TpbInv, NEW b \in Blocks, MinAvailableSpace(b)
  PROVE  LoopInv(b)' /\ PromiseInv(b)'
<1>1. /\ DOMAIN pc = Blocks /\ DOMAIN idx = Blocks /\ DOMAIN noutput_items = Blocks
      /\ idx[b] \in Nat /\ d_ninput_items[b] \in Seq(0 .. BufSize - 1) /\ FillInv
  BY DEF TpbInv, TypeOK
<1>2. /\ pc[b] = "outputs" /\ idx[b] \in DOMAIN Outs[b] /\ UNCHANGED <<written, items_read>>
  BY MinSpaceFact DEF bufVars
<1>3. /\ Len(d_ninput_items[b]) = Len(Ins[b])
      /\ \A i \in DOMAIN d_ninput_items[b] :
           d_ninput_items[b][i] <= items_available(b, Ins[b][i])
  BY <1>2 DEF TpbInv, LoopInv, PromiseInv
<1>4. DOMAIN d_ninput_items[b] = DOMAIN Ins[b]
  BY <1>1, <1>3, PortFact
<1>5. /\ \A i \in DOMAIN Ins[b] : items_available(b, Ins[b][i])' = items_available(b, Ins[b][i])
      /\ \A f, k : Room(f, k)' <=> Room(f, k)
  BY <1>2, StillFact
<1>6. /\ DOMAIN Outs[b] = 1 .. Len(Outs[b]) /\ Len(Outs[b]) \in Nat
      /\ \A o \in DOMAIN Outs[b] : Outs[b][o] \in Bufs
  BY PortFact
<1>7. ASSUME WereDone(b) \/ Goto(b, "blkd_out"), ForgetSnapshots(b)
      PROVE  LoopInv(b)' /\ PromiseInv(b)'
  BY <1>7, Rests
<1>8. ASSUME NEW nout \in 0 .. BufSize - 1, \A o \in 1 .. idx[b] : Room(Outs[b][o], nout),
             idx[b] < Len(Outs[b]), idx' = [idx EXCEPT ![b] = @ + 1],
             noutput_items' = [noutput_items EXCEPT ![b] = nout], UNCHANGED <<pc, d_ninput_items>>
      PROVE  LoopInv(b)' /\ PromiseInv(b)'
  <2>1. pc'[b] = "outputs" /\ idx'[b] = idx[b] + 1 /\ noutput_items'[b] = nout
        /\ d_ninput_items'[b] = d_ninput_items[b]
    BY <1>1, <1>2, <1>8
  <2>2. idx[b] + 1 \in DOMAIN Outs[b] /\ idx[b] + 1 - 1 = idx[b]
    BY <1>1, <1>2, <1>6, <1>8
  <2>3. \A o \in 1 .. idx'[b] - 1 : Room(Outs[b][o], noutput_items[b])'
    <3>1. \A o \in 1 .. idx[b] : Room(Outs[b][o], nout)'
      BY <1>5, <1>8
    <3>2. idx'[b] - 1 = idx[b]
      BY <1>1, <2>1
    <3> QED
      BY <2>1, <3>1, <3>2 DEF Room
  <2>4. \A i \in DOMAIN d_ninput_items'[b] :
          d_ninput_items'[b][i] <= items_available(b, Ins[b][i])'
    BY <1>3, <1>4, <1>5, <2>1
  <2> QED
    BY <1>3, <2>1, <2>2, <2>3, <2>4, Arrives
<1>9. ASSUME NEW nout \in 0 .. BufSize - 1, \A o \in 1 .. idx[b] : Room(Outs[b][o], nout),
             idx[b] = Len(Outs[b]), source_p(b),
             noutput_items' = [noutput_items EXCEPT ![b] = nout], Goto(b, "work"),
             UNCHANGED d_ninput_items
      PROVE  LoopInv(b)' /\ PromiseInv(b)'
  <2>1. pc'[b] = "work" /\ noutput_items'[b] = nout /\ d_ninput_items'[b] = d_ninput_items[b]
    BY <1>1, <1>9 DEF Goto
  <2>2. DOMAIN Ins[b] = {} /\ Len(Ins[b]) = 0
    BY <1>9 DEF source_p
  <2>3. d_ninput_items'[b] = <<>>
    BY <1>1, <1>3, <2>1, <2>2, EmptySeq
  <2>4. \A o \in DOMAIN Outs[b] : Room(Outs[b][o], noutput_items[b])'
    <3>1. \A o \in DOMAIN Outs[b] : Room(Outs[b][o], nout)'
      BY <1>5, <1>6, <1>9
    <3> QED
      BY <2>1, <3>1 DEF Room
  <2> QED
    BY <2>1, <2>2, <2>3, <2>4, Arrives
<1>10. ASSUME NEW nout \in 0 .. BufSize - 1, \A o \in 1 .. idx[b] : Room(Outs[b][o], nout),
              idx[b] = Len(Outs[b]), ~source_p(b),
              Decide(b, d_ninput_items[b], d_input_done[b], nout), ForgetSnapshots(b)
       PROVE  LoopInv(b)' /\ PromiseInv(b)'
  <2>1. d_ninput_items'[b] = <<>>
    BY <1>10, Rests
  <2>2. nout \in Nat
    BY SizeAssumption
  <2>3. CASE WereDone(b)
    BY <2>1, <2>3, Rests
  <2>4. CASE Goto(b, "blkd_in")
    BY <2>1, <2>4, Rests
  <2>5. ASSUME NEW m \in 0 .. nout, noutput_items' = [noutput_items EXCEPT ![b] = m],
               \A i \in DOMAIN d_ninput_items[b] :
                 fixed_rate_noutput_to_ninput(b, m) <= d_ninput_items[b][i],
               Goto(b, "work")
        PROVE  LoopInv(b)' /\ PromiseInv(b)'
    <3>1. pc'[b] = "work" /\ noutput_items'[b] = m
      BY <1>1, <2>5 DEF Goto
    <3>2. m \in Nat /\ m <= nout
      BY <2>2
    <3>3. ASSUME NEW i \in DOMAIN Ins[b]
          PROVE  fixed_rate_noutput_to_ninput(b, m) <= items_available(b, Ins[b][i])'
      <4>2. fixed_rate_noutput_to_ninput(b, m) \in Int
        BY <3>2, NeedFact
      <4>3. items_available(b, Ins[b][i]) \in Int
        BY AvailableType DEF TpbInv
      <4>4. d_ninput_items[b][i] \in Int
        BY <1>1, <1>3, <1>4, <1>10, PortFact, SnapshotRange
      <4>5. fixed_rate_noutput_to_ninput(b, m) <= d_ninput_items[b][i]
            /\ d_ninput_items[b][i] <= items_available(b, Ins[b][i])
        BY <1>3, <1>4, <2>5
      <4> QED
        BY <1>5, <4>2, <4>3, <4>4, <4>5
    <3>4. \A o \in DOMAIN Outs[b] : Room(Outs[b][o], noutput_items[b])'
      <4>1. \A o \in DOMAIN Outs[b] : Room(Outs[b][o], nout)
        BY <1>6, <1>10
      <4>2. \A o \in DOMAIN Outs[b] : Room(Outs[b][o], m)
        BY <1>1, <1>6, <2>2, <3>2, <4>1, RoomLess
      <4>3. \A o \in DOMAIN Outs[b] : Room(Outs[b][o], m)'
        BY <1>5, <4>2
      <4> QED
        BY <3>1, <4>3 DEF Room
    <3> QED
      BY <2>1, <3>1, <3>3, <3>4, Arrives
  <2>6. d_ninput_items[b] # <<>>
    BY <1>3, <1>10, PortFact
  <2> QED
    BY <1>1, <1>10, <2>2, <2>3, <2>4, <2>5, <2>6, DecideFact
<1> QED
  BY <1>7, <1>8, <1>9, <1>10, MinSpaceFact

\* What work() has returned is at most what it was asked for.
LEMMA WorkOwn ==
  ASSUME TpbInv, NEW b \in Blocks, Work(b) \/ WorkThrows(b)
  PROVE  LoopInv(b)' /\ PromiseInv(b)'
<1>1. /\ DOMAIN pc = Blocks /\ DOMAIN idx = Blocks /\ DOMAIN n = Blocks
      /\ noutput_items[b] \in Nat /\ FillInv
  BY SizeAssumption DEF TpbInv, TypeOK
<1>2. pc[b] = "work" /\ UNCHANGED <<written, items_read, d_ninput_items>>
  BY WorkFact DEF WorkThrows, bufVars, snapVars
<1>3. d_ninput_items'[b] = <<>>
  BY <1>2, Rests
<1>4. CASE WorkThrows(b)
  BY <1>3, <1>4, Rests DEF WorkThrows
<1>5. ASSUME WereDone(b) PROVE LoopInv(b)' /\ PromiseInv(b)'
  BY <1>3, <1>5, Rests
<1>6. ASSUME AfterWork(b, 0) PROVE LoopInv(b)' /\ PromiseInv(b)'
  BY <1>3, <1>6, Rests
<1>7. ASSUME NEW k \in 0 .. noutput_items[b], k > 0, n' = [n EXCEPT ![b] = k],
             idx' = [idx EXCEPT ![b] = 1],
             Goto(b, IF source_p(b) THEN "produce" ELSE "consume")
      PROVE  LoopInv(b)' /\ PromiseInv(b)'
  <2>1. /\ n'[b] = k /\ idx'[b] = 1 /\ k \in Nat /\ k <= noutput_items[b]
        /\ pc'[b] = IF source_p(b) THEN "produce" ELSE "consume"
    BY <1>1, <1>7 DEF Goto
  <2>2. /\ \A i \in DOMAIN Ins[b] :
             fixed_rate_noutput_to_ninput(b, noutput_items[b]) <= items_available(b, Ins[b][i])
        /\ \A o \in DOMAIN Outs[b] : Room(Outs[b][o], noutput_items[b])
    BY <1>2 DEF TpbInv, PromiseInv
  <2>3. /\ \A i \in DOMAIN Ins[b] : items_available(b, Ins[b][i])' = items_available(b, Ins[b][i])
        /\ \A f, l : Room(f, l)' <=> Room(f, l)
    BY <1>2, StillFact
  <2>4. ASSUME NEW i \in DOMAIN Ins[b]
        PROVE  fixed_rate_noutput_to_ninput(b, k) <= items_available(b, Ins[b][i])'
    <3>1. /\ fixed_rate_noutput_to_ninput(b, k) \in Int
          /\ fixed_rate_noutput_to_ninput(b, noutput_items[b]) \in Int
          /\ fixed_rate_noutput_to_ninput(b, k) <= fixed_rate_noutput_to_ninput(b, noutput_items[b])
      BY <1>1, <2>1, NeedFact
    <3>2. items_available(b, Ins[b][i]) \in Int
      BY AvailableType DEF TpbInv
    <3> QED
      BY <2>2, <2>3, <3>1, <3>2
  <2>5. \A o \in DOMAIN Outs[b] : Room(Outs[b][o], n[b])'
    <3>1. \A o \in DOMAIN Outs[b] : Outs[b][o] \in Bufs
      BY PortFact
    <3>2. \A o \in DOMAIN Outs[b] : Room(Outs[b][o], k)
      BY <1>1, <2>1, <2>2, <3>1, RoomLess
    <3>3. \A o \in DOMAIN Outs[b] : Room(Outs[b][o], k)'
      BY <2>3, <3>2
    <3> QED
      BY <2>1, <3>3 DEF Room
  <2>6. CASE source_p(b)
    <3>1. 1 \in DOMAIN Outs[b] /\ 1 .. Len(Outs[b]) = DOMAIN Outs[b]
      <4>1. \A x, y \in Nat : x = 0 /\ x + y > 0 => 1 \in 1 .. y
        OBVIOUS
      <4>2. /\ Len(Ins[b]) \in Nat /\ Len(Outs[b]) \in Nat /\ DOMAIN Outs[b] = 1 .. Len(Outs[b])
            /\ Len(Ins[b]) + Len(Outs[b]) > 0 /\ (source_p(b) <=> Len(Ins[b]) = 0)
        BY PortFact
      <4> QED
        BY <2>6, <4>1, <4>2, Zenon
    <3>2. pc'[b] = "produce" /\ n'[b] > 0 /\ idx'[b] \in DOMAIN Outs[b]
          /\ \A o \in idx'[b] .. Len(Outs[b]) : Room(Outs[b][o], n[b])'
      BY <1>7, <2>1, <2>5, <2>6, <3>1
    <3> QED
      BY <1>3, <3>2, Arrives
  <2>7. CASE ~source_p(b)
    <3>1. 1 \in DOMAIN Ins[b] /\ 1 .. Len(Ins[b]) = DOMAIN Ins[b]
      <4>1. \A x \in Nat : x # 0 => 1 \in 1 .. x
        OBVIOUS
      <4>2. /\ Len(Ins[b]) \in Nat /\ DOMAIN Ins[b] = 1 .. Len(Ins[b])
            /\ (source_p(b) <=> Len(Ins[b]) = 0)
        BY PortFact
      <4> QED
        BY <2>7, <4>1, <4>2, Zenon
    <3>2. pc'[b] = "consume" /\ n'[b] > 0 /\ idx'[b] \in DOMAIN Ins[b]
      BY <1>7, <2>1, <2>7, <3>1
    <3>3. \A i \in idx'[b] .. Len(Ins[b]) :
            fixed_rate_noutput_to_ninput(b, n'[b]) <= items_available(b, Ins[b][i])'
      BY <2>1, <2>4, <3>1
    <3> QED
      BY <1>3, <2>5, <3>2, <3>3, Arrives
  <2> QED
    BY <2>6, <2>7
<1>8. CASE Work(b)
  BY <1>5, <1>6, <1>7, <1>8, WorkFact
<1> QED
  BY <1>4, <1>8

\* consume_each leaves the inputs still to be consumed and the outputs as promised.
LEMMA ConsumeOwn ==
  ASSUME TpbInv, NEW b \in Blocks, consume_each(b)
  PROVE  LoopInv(b)' /\ PromiseInv(b)'
<1>1. /\ DOMAIN pc = Blocks /\ DOMAIN idx = Blocks /\ idx[b] \in Nat
      /\ n' = n /\ d_ninput_items' = d_ninput_items
  BY DEF TpbInv, TypeOK, consume_each, snapVars
<1>2. pc[b] = "consume" /\ idx[b] \in DOMAIN Ins[b] /\ n[b] \in Nat \ {0}
  BY ConsumeFact
<1>3. d_ninput_items'[b] = <<>>
  BY <1>1, <1>2, Rests
<1>4. /\ \A i \in idx[b] .. Len(Ins[b]) :
           fixed_rate_noutput_to_ninput(b, n[b]) <= items_available(b, Ins[b][i])
      /\ \A o \in DOMAIN Outs[b] : Room(Outs[b][o], n[b])
  BY <1>2 DEF TpbInv, PromiseInv
<1>5. \A o \in DOMAIN Outs[b] : Room(Outs[b][o], n[b])'
  <2>1. \A o \in DOMAIN Outs[b] : \A k \in Int : Room(Outs[b][o], k) => Room(Outs[b][o], k)'
    BY ConsumeFavours
  <2>2. n[b] \in Int
    BY <1>2
  <2> QED
    BY <1>1, <1>4, <2>1, <2>2 DEF Room
<1>6. /\ DOMAIN Ins[b] = 1 .. Len(Ins[b]) /\ Len(Ins[b]) \in Nat
      /\ DOMAIN Outs[b] = 1 .. Len(Outs[b]) /\ Len(Outs[b]) \in Nat
  BY PortFact
<1>7. ASSUME idx[b] < Len(Ins[b]), idx' = [idx EXCEPT ![b] = @ + 1], UNCHANGED pc
      PROVE  LoopInv(b)' /\ PromiseInv(b)'
  <2>1. pc'[b] = "consume" /\ idx'[b] = idx[b] + 1 /\ n'[b] = n[b] /\ n'[b] > 0
    BY <1>1, <1>2, <1>7
  <2>2. idx'[b] \in DOMAIN Ins[b]
    BY <1>1, <1>6, <1>7, <2>1
  <2>3. ASSUME NEW i \in idx'[b] .. Len(Ins[b])
        PROVE  fixed_rate_noutput_to_ninput(b, n'[b]) <= items_available(b, Ins[b][i])'
    <3>1. i \in idx[b] .. Len(Ins[b]) /\ i # idx[b] /\ i \in DOMAIN Ins[b]
      BY <1>1, <1>6, <2>1, <2>2
    <3>2. items_available(b, Ins[b][i])' = items_available(b, Ins[b][i])
      BY <3>1, ConsumeFact
    <3> QED
      BY <1>4, <2>1, <3>1, <3>2
  <2> QED
    BY <1>3, <1>5, <2>1, <2>2, <2>3, Arrives
<1>8. ASSUME ~sink_p(b), idx' = [idx EXCEPT ![b] = 1], Goto(b, "produce")
      PROVE  LoopInv(b)' /\ PromiseInv(b)'
  <2>1. pc'[b] = "produce" /\ idx'[b] = 1 /\ n'[b] > 0
    BY <1>1, <1>2, <1>8 DEF Goto
  <2>2. Len(Outs[b]) # 0
    BY <1>8, PortFact
  <2>3. 1 \in DOMAIN Outs[b]
    BY <1>6, <2>2
  <2>4. \A o \in idx'[b] .. Len(Outs[b]) : Room(Outs[b][o], n[b])'
    BY <1>5, <1>6, <2>1
  <2> QED
    BY <1>3, <2>1, <2>3, <2>4, Arrives
<1>9. ASSUME AfterWork(b, n[b]) PROVE LoopInv(b)' /\ PromiseInv(b)'
  BY <1>3, <1>9, Rests
<1> QED
  BY <1>7, <1>8, <1>9 DEF consume_each

\* produce_each leaves the room in the outputs that are still to be written.
LEMMA ProduceOwn ==
  ASSUME TpbInv, NEW b \in Blocks, produce_each(b)
  PROVE  LoopInv(b)' /\ PromiseInv(b)'
<1>1. /\ DOMAIN pc = Blocks /\ DOMAIN idx = Blocks /\ idx[b] \in Nat
      /\ n' = n /\ d_ninput_items' = d_ninput_items
  BY DEF TpbInv, TypeOK, produce_each, snapVars
<1>2. pc[b] = "produce" /\ idx[b] \in DOMAIN Outs[b] /\ n[b] \in Nat \ {0}
  BY ProduceFact
<1>3. d_ninput_items'[b] = <<>>
  BY <1>1, <1>2, Rests
<1>4. \A o \in idx[b] .. Len(Outs[b]) : Room(Outs[b][o], n[b])
  BY <1>2 DEF TpbInv, PromiseInv
<1>5. /\ DOMAIN Outs[b] = 1 .. Len(Outs[b]) /\ Len(Outs[b]) \in Nat
      /\ \A o, p \in DOMAIN Outs[b] : Outs[b][o] = Outs[b][p] => o = p
  BY PortFact
<1>6. ASSUME idx[b] < Len(Outs[b]), idx' = [idx EXCEPT ![b] = @ + 1], UNCHANGED pc
      PROVE  LoopInv(b)' /\ PromiseInv(b)'
  <2>1. pc'[b] = "produce" /\ idx'[b] = idx[b] + 1 /\ n'[b] = n[b] /\ n'[b] > 0
    BY <1>1, <1>2, <1>6
  <2>2. idx'[b] \in DOMAIN Outs[b]
    BY <1>1, <1>5, <1>6, <2>1
  <2>3. ASSUME NEW o \in idx'[b] .. Len(Outs[b])
        PROVE  Room(Outs[b][o], n[b])'
    <3>1. o \in idx[b] .. Len(Outs[b]) /\ o # idx[b] /\ o \in DOMAIN Outs[b]
      BY <1>1, <1>5, <2>1, <2>2
    <3>2. Outs[b][o] # Outs[b][idx[b]]
      BY <1>2, <1>5, <3>1
    <3>3. n[b] \in Int /\ Room(Outs[b][o], n[b])
      BY <1>2, <1>4, <3>1
    <3>4. \A k \in Int : Room(Outs[b][o], k) => Room(Outs[b][o], k)'
      BY <3>1, <3>2, ProduceFavours
    <3> QED
      BY <2>1, <3>3, <3>4 DEF Room
  <2> QED
    BY <1>3, <2>1, <2>2, <2>3, Arrives
<1>7. ASSUME AfterWork(b, n[b]) PROVE LoopInv(b)' /\ PromiseInv(b)'
  BY <1>3, <1>7, Rests
<1> QED
  BY <1>6, <1>7 DEF produce_each

\* set_done goes through all buffers of the block.
LEMMA SetDoneOwn ==
  ASSUME TpbInv, NEW b \in Blocks, set_done(b)
  PROVE  LoopInv(b)' /\ PromiseInv(b)'
<1>1. /\ DOMAIN pc = Blocks /\ DOMAIN idx = Blocks /\ idx[b] \in Nat
  BY DEF TpbInv, TypeOK
<1>2. /\ pc[b] = "set_done" /\ d_ninput_items' = d_ninput_items
      /\ \/ /\ idx[b] < Len(Outs[b] \o Ins[b])
            /\ idx' = [idx EXCEPT ![b] = @ + 1] /\ UNCHANGED pc
         \/ AfterWork(b, 1)
  BY Zenon DEF set_done, snapVars
<1>3. d_ninput_items'[b] = <<>>
  BY <1>2, Rests
<1>4. Len(Outs[b] \o Ins[b]) = Len(Outs[b]) + Len(Ins[b])
      /\ Len(Outs[b]) \in Nat /\ Len(Ins[b]) \in Nat
  <2>1. Outs[b] \in Seq(Bufs) /\ Ins[b] \in Seq(Bufs)
    BY GraphAssumption
  <2> QED
    BY <2>1
<1>5. ASSUME idx[b] < Len(Outs[b] \o Ins[b]), idx' = [idx EXCEPT ![b] = @ + 1], UNCHANGED pc
      PROVE  LoopInv(b)' /\ PromiseInv(b)'
  <2>1. pc'[b] = "set_done" /\ idx'[b] = idx[b] + 1
    BY <1>1, <1>2, <1>5
  <2>2. \A x, y, z \in Nat : z < x + y => z + 1 \in 1 .. x + y
    OBVIOUS
  <2>3. idx'[b] \in 1 .. Len(Outs[b]) + Len(Ins[b])
    BY <1>1, <1>4, <1>5, <2>1, <2>2, Zenon
  <2> QED
    BY <1>3, <2>1, <2>3, Arrives
<1>6. ASSUME AfterWork(b, 1) PROVE LoopInv(b)' /\ PromiseInv(b)'
  BY <1>3, <1>6, Rests
<1> QED
  BY <1>2, <1>5, <1>6

\* Every step keeps the promises made to every thread.
LEMMA NextPromise ==
  ASSUME TpbInv, [Next]_vars, NEW q \in Blocks
  PROVE  LoopInv(q)' /\ PromiseInv(q)'
<1>1. TypeOK'
  BY NextTypes
<1>2. CASE stop \/ UNCHANGED vars
  <2>1. UNCHANGED <<written, items_read, pc, idx, snapVars, n>>
    BY <1>2 DEF stop, vars, bufVars
  <2>2. Keeps(q)
    BY <2>1 DEF Keeps, snapVars
  <2> QED
    BY <1>1, <2>1, <2>2, StillFavours, Frame
<1>3. ASSUME NEW b \in Blocks,
             Thread(b) \/ WorkThrows(b) \/ SpuriousWakeup(b) \/ post(b) \/ Interrupt(b)
      PROVE  LoopInv(q)' /\ PromiseInv(q)'
  <2>1. Quiet(b) \/ consume_each(b) \/ produce_each(b)
    BY <1>3, Zenon DEF Thread, Quiet
  <2>2. CASE q # b
    <3>1. Favours(q)
      <4>1. CASE Quiet(b)
        <5>1. UNCHANGED <<written, items_read>>
          BY <4>1, QuietFact
        <5> QED
          BY <5>1, StillFavours
      <4> QED
        BY <2>1, <2>2, <4>1, ConsumeFavours, ProduceFavours
    <3>2. Keeps(q)
      BY <1>3, <2>2, Local
    <3> QED
      BY <1>1, <3>1, <3>2, Frame
  <2>3. CASE q = b
    <3>1. CASE \/ Top(b) \/ Drain(b) \/ NotifyEnd(b) \/ Notify(b) \/ BlkdIn(b) \/ BlkdOut(b)
               \/ WaitInterrupted(b) \/ SpuriousWakeup(b) \/ post(b) \/ Interrupt(b)
      <4>1. Quiet(b) /\ Keeps(b)
        BY <3>1, Passive DEF Quiet
      <4>2. UNCHANGED <<written, items_read>>
        BY <4>1, QuietFact
      <4> QED
        BY <1>1, <2>3, <4>1, <4>2, StillFavours, Frame
    <3>2. CASE clear_changed(b) \/ ReadInput(b) \/ MinAvailableSpace(b)
      BY <2>3, <3>2, ClearOwn, ReadOwn, SpaceOwn
    <3>3. CASE \/ Work(b) \/ WorkThrows(b) \/ consume_each(b) \/ produce_each(b) \/ set_done(b)
      BY <2>3, <3>3, WorkOwn, ConsumeOwn, ProduceOwn, SetDoneOwn
    <3> QED
      BY <1>3, <3>1, <3>2, <3>3, Zenon DEF Thread
  <2> QED
    BY <2>2, <2>3
<1> QED
  BY <1>2, <1>3, Zenon DEF Next

-----------------------------------------------------------------------------
(* Messages, and the invariant. *)

\* Only BLKD_IN and BLKD_OUT put a thread to sleep.
LEMMA FallsAsleep ==
  ASSUME TpbInv, NEW b \in Blocks, NEW q \in Blocks,
         Thread(b) \/ WorkThrows(b) \/ SpuriousWakeup(b) \/ post(b) \/ Interrupt(b),
         ~BlkdIn(b), ~BlkdOut(b), pc'[q] \in {"wait_in", "wait_out"}
  PROVE  pc[q] = pc'[q] /\ msg_queue'[q] = msg_queue[q]
<1>1. /\ DOMAIN pc = Blocks /\ DOMAIN msg_queue = Blocks
  BY DEF TpbInv, TypeOK
<1>2. \A l : Goto(b, l) => pc'[q] = IF q = b THEN l ELSE pc[q]
  BY <1>1 DEF Goto
<1>3. WereDone(b) => pc[q] = pc'[q]
  BY <1>2 DEF WereDone
<1>4. \A k : AfterWork(b, k) => pc[q] = pc'[q]
  BY <1>2 DEF AfterWork
<1>5. \A x, y, z : Decide(b, x, y, z) => pc[q] = pc'[q]
  BY <1>2, <1>3 DEF Decide
<1>6. CASE ReadInput(b)
  <2>1. UNCHANGED msg_queue
    BY <1>6, ReadFact DEF tpbVars
  <2> QED
    BY <1>2, <1>3, <1>5, <1>6, <2>1, ReadFact
<1>7. CASE MinAvailableSpace(b)
  <2>1. UNCHANGED msg_queue
    BY <1>7, MinSpaceFact DEF tpbVars
  <2> QED
    BY <1>2, <1>3, <1>5, <1>7, <2>1, MinSpaceFact
<1>8. CASE Work(b)
  <2>1. UNCHANGED msg_queue
    BY <1>8, WorkFact DEF tpbVars
  <2> QED
    BY <1>2, <1>3, <1>4, <1>8, <2>1, WorkFact
<1>9. CASE Notify(b)
  <2>1. UNCHANGED msg_queue
    BY <1>9, Zenon DEF Notify
  <2>2. PICK kind, p : pc' = [pc EXCEPT ![p] = Wake(p, kind)]
    BY <1>9, Zenon DEF Notify
  <2>3. pc'[q] = pc[q] \/ pc'[q] = Wake(q, kind)
    BY <1>1, <2>2
  <2> QED
    BY <2>1, <2>3 DEF Wake
<1>10. CASE consume_each(b) \/ produce_each(b)
  BY <1>2, <1>4, <1>10 DEF consume_each, produce_each, tpbVars
<1>11. CASE set_done(b)
  <2>1. UNCHANGED msg_queue /\ (UNCHANGED pc \/ AfterWork(b, 1))
    BY <1>11, Zenon DEF set_done, tpbVars
  <2> QED
    BY <1>4, <2>1
<1>12. CASE Top(b) \/ Drain(b) \/ clear_changed(b) \/ NotifyEnd(b)
  <2>1. CASE Drain(b)
    BY <1>1, <1>2, <2>1 DEF Drain
  <2> QED
    BY <1>2, <1>12, <2>1 DEF Top, clear_changed, NotifyEnd, tpbVars
<1>13. CASE WaitInterrupted(b) \/ WorkThrows(b) \/ SpuriousWakeup(b) \/ Interrupt(b)
  BY <1>2, <1>13 DEF WaitInterrupted, WorkThrows, SpuriousWakeup, Interrupt, tpbVars
<1>14. CASE post(b)
  BY <1>1, <1>2, <1>14 DEF post
<1> QED
  BY <1>6, <1>7, <1>8, <1>9, <1>10, <1>11, <1>12, <1>13, <1>14 DEF Thread

\* No step leaves a message behind a sleeping thread.
LEMMA NextNoSleep ==
  ASSUME TpbInv, [Next]_vars
  PROVE  NoSleepOnMessage'
<1> SUFFICES ASSUME NEW q \in Blocks, pc'[q] \in {"wait_in", "wait_out"}
             PROVE  msg_queue'[q] = 0
  BY DEF NoSleepOnMessage
<1>1. pc[q] = pc'[q] => msg_queue[q] = 0
  BY DEF TpbInv, NoSleepOnMessage
<1>2. CASE stop \/ UNCHANGED vars
  BY <1>1, <1>2 DEF stop, vars, tpbVars
<1>3. ASSUME NEW b \in Blocks, BlkdIn(b) \/ BlkdOut(b)
      PROVE  msg_queue'[q] = 0
  <2>1. DOMAIN pc = Blocks /\ DOMAIN msg_queue = Blocks
    BY DEF TpbInv, TypeOK
  <2> QED
    BY <1>1, <1>3, <2>1 DEF BlkdIn, BlkdOut, Blocked, Goto
<1>4. ASSUME NEW b \in Blocks, ~BlkdIn(b), ~BlkdOut(b),
             Thread(b) \/ WorkThrows(b) \/ SpuriousWakeup(b) \/ post(b) \/ Interrupt(b)
      PROVE  msg_queue'[q] = 0
  BY <1>1, <1>4, FallsAsleep
<1> QED
  BY <1>2, <1>3, <1>4, Zenon DEF Next

\* The flowgraph starts with empty buffers and every thread at the top of its loop.
LEMMA InitInvariant == Init => TpbInv
<1> SUFFICES ASSUME Init PROVE TpbInv
  OBVIOUS
<1>1. \A b \in Blocks : Len(Ins[b]) \in Nat /\ Len(Outs[b]) \in Nat
  BY PortFact
<1>2. TypeOK
  <2>1. \A x, y \in Nat : 0 <= x + y /\ 0 <= x
    OBVIOUS
  <2>2. \A b \in Blocks : 0 <= Len(Outs[b]) + Len(Ins[b]) /\ 0 <= Len(Ins[b])
    BY <1>1, <2>1, Zenon
  <2>3. \A T : <<>> \in Seq(T) /\ Len(<<>>) = 0
    OBVIOUS
  <2>4. BufTypes
    BY DEF Init, BufTypes
  <2>5. FlagTypes /\ QueueTypes /\ DoneTypes /\ WorkTypes /\ AskTypes /\ StopTypes
    BY SizeAssumption DEF Init, FlagTypes, QueueTypes, DoneTypes, WorkTypes, AskTypes, StopTypes
  <2>6. PlaceTypes /\ TodoTypes
    BY <2>3 DEF Init, PlaceTypes, TodoTypes, Labels
  <2>7. IdxTypes
    BY <2>2 DEF Init, IdxTypes
  <2>8. SnapTypes
    BY <2>2, <2>3 DEF Init, SnapTypes
  <2> QED
    BY <2>4, <2>5, <2>6, <2>7, <2>8, TypesFact DEF Types
<1>3. FillInv
  <2>1. ASSUME NEW q \in Blocks, NEW i \in DOMAIN Ins[q]
        PROVE  items_available(q, Ins[q][i]) \in 0 .. BufSize - 1
    <3>1. Ins[q][i] \in Bufs /\ Ins[q][i] \in Range(Ins[q])
      BY PortFact
    <3>2. written[Ins[q][i]] = 0 /\ items_read[q][Ins[q][i]] = 0
      BY <3>1 DEF Init
    <3>3. History[q] \in 1 .. BufSize /\ BufSize \in Nat
      BY SizeAssumption
    <3> QED
      BY <3>2, <3>3 DEF items_available
  <2> QED
    BY <2>1, FillFact
<1>4. NoSleepOnMessage
  BY DEF Init, NoSleepOnMessage
<1>5. ASSUME NEW b \in Blocks PROVE LoopInv(b) /\ PromiseInv(b)
  <2>1. pc[b] = "top" /\ d_ninput_items[b] = <<>>
    BY DEF Init
  <2> QED
    BY <2>1 DEF LoopInv, PromiseInv
<1> QED
  BY <1>2, <1>3, <1>4, <1>5 DEF TpbInv

\* TpbInv is an inductive invariant of the scheduler, for every flowgraph that
\* GraphAssumption allows:
\* wherever the threads of gr_tpb_thread_body are, what run_one_iteration has
\* found out about its buffers still holds when work() and the pointer updates
\* after it rely on it.
THEOREM SchedulerInvariant == Spec => []TpbInv
<1>1. Init => TpbInv
  BY InitInvariant
<1>2. TpbInv /\ [Next]_vars => TpbInv'
  <2> SUFFICES ASSUME TpbInv, [Next]_vars PROVE TpbInv'
    OBVIOUS
  <2>1. TypeOK' /\ FillInv' /\ NoSleepOnMessage'
    BY NextTypes, NextFill, NextNoSleep
  <2>2. \A q \in Blocks : LoopInv(q)' /\ PromiseInv(q)'
    BY NextPromise
  <2> QED
    BY <2>1, <2>2 DEF TpbInv
<1> QED
  BY <1>1, <1>2, PTL DEF Spec

\* Every variable of the scheduler keeps its type; in particular no loop of
\* run_one_iteration, consume_each, produce_each or set_done leaves its range,
\* and no snapshot holds more than a buffer can.
THEOREM TypeCorrect == Spec => []TypeOK
<1>1. TpbInv => TypeOK
  BY DEF TpbInv
<1> QED
  BY <1>1, SchedulerInvariant, PTL

\* For every such flowgraph, rate, history and common buffer size: when general_work is
\* called, its inputs hold what forecast() asked for and its outputs have the
\* room, whatever the neighbours did since the buffers were inspected; no
\* update_read_pointer passes the writer and no update_write_pointer laps a reader.
THEOREM PromisesKeptHolds == Spec => []PromisesKept
<1>1. TpbInv => PromisesKept
  <2> SUFFICES ASSUME TpbInv PROVE PromisesKept
    OBVIOUS
  <2>1. FillInv
    BY DEF TpbInv
  <2>2. ASSUME NEW b \in Blocks, pc[b] = "work"
        PROVE  /\ \A i \in DOMAIN Ins[b] : fixed_rate_noutput_to_ninput(b, noutput_items[b])
                                             <= items_available(b, Ins[b][i])
               /\ \A o \in DOMAIN Outs[b] : noutput_items[b] <= space_available(Outs[b][o])
    <3>1. /\ \A i \in DOMAIN Ins[b] : fixed_rate_noutput_to_ninput(b, noutput_items[b])
                                        <= items_available(b, Ins[b][i])
          /\ \A o \in DOMAIN Outs[b] : Room(Outs[b][o], noutput_items[b])
      BY <2>2 DEF TpbInv, PromiseInv
    <3>2. \A o \in DOMAIN Outs[b] : Outs[b][o] \in Bufs
      BY PortFact
    <3>3. noutput_items[b] \in Int
      BY SizeAssumption DEF TpbInv, TypeOK
    <3> QED
      BY <2>1, <3>1, <3>2, <3>3, SpaceFact
  <2> QED
    BY <2>1, <2>2 DEF PromisesKept, FillInv
<1> QED
  BY <1>1, SchedulerInvariant, PTL

\* No message is left behind a sleeping thread: insert_tail appends it and wakes
\* the thread under the mutex under which the thread decides to wait.
THEOREM NoSleepOnMessageHolds == Spec => []NoSleepOnMessage
<1>1. TpbInv => NoSleepOnMessage
  BY DEF TpbInv
<1> QED
  BY <1>1, SchedulerInvariant, PTL
=============================================================================
