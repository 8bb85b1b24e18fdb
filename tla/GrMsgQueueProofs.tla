-------------------------- MODULE GrMsgQueueProofs --------------------------
(***************************************************************************)
(* Proofs about gr_msg_queue (GrMsgQueue), for any number of producers,    *)
(* consumers and messages and any d_limit, as long as no caller inserts a  *)
(* message that is still in the queue: the linked list is the queue of     *)
(* messages inserted and not yet removed, it never exceeds d_limit, and    *)
(* notify_one loses no wakeup.                                             *)
(***************************************************************************)
EXTENDS GrMsgQueue, FiniteSetTheorems, TLAPS

\* The queue starts empty, with nobody in a call.
LEMMA InitQueueInv == Init => QueueInv
BY LimitAssumption DEF Init, QueueInv, TypeOK, CallInv, ListInv, DistinctInv, Threads

\* notify_one moves the caller to its label and at most one waiter to its loop.
LEMMA NotifyOneEffect ==
  ASSUME TypeOK, NEW t \in Threads, NEW label, NEW waiting, NEW again,
         NotifyOne(t, label, waiting, again)
  PROVE  \/ /\ \A x \in Threads \ {t} : pc[x] # waiting
            /\ pc' = [pc EXCEPT ![t] = label]
         \/ \E w \in Threads \ {t} : /\ pc[w] = waiting
                                     /\ pc' = [pc EXCEPT ![t] = label, ![w] = again]
BY DEF NotifyOne

\* A producer's step out of insert_tail keeps everybody in its own calls.
LEMMA InsertPc ==
  ASSUME TypeOK, CallInv, NEW p \in Producers,
         NotifyOne(p, "idle", "wait_not_empty", "delete")
  PROVE  /\ pc' \in [Threads -> {"idle", "insert", "wait_not_full", "delete", "flush",
                                 "wait_not_empty"}]
         /\ pc'[p] = "idle"
         /\ \A q \in Producers : q # p => pc'[q] = pc[q]
         /\ \A c \in Consumers : pc'[c] = pc[c] \/ (pc[c] = "wait_not_empty" /\ pc'[c] = "delete")
<1>1. p \in Threads
  BY DEF Threads
<1>2. CASE pc' = [pc EXCEPT ![p] = "idle"]
  BY <1>2, <1>1, ThreadsAssumption DEF Threads, TypeOK
<1>3. ASSUME NEW w \in Threads \ {p}, pc[w] = "wait_not_empty",
             pc' = [pc EXCEPT ![p] = "idle", ![w] = "delete"]
      PROVE  /\ pc' \in [Threads -> {"idle", "insert", "wait_not_full", "delete", "flush",
                                     "wait_not_empty"}]
             /\ pc'[p] = "idle"
             /\ \A q \in Producers : q # p => pc'[q] = pc[q]
             /\ \A c \in Consumers : pc'[c] = pc[c] \/ (pc[c] = "wait_not_empty" /\ pc'[c] = "delete")
  BY <1>3, <1>1, ThreadsAssumption DEF Threads, TypeOK, CallInv
<1> QED
  BY <1>1, <1>2, <1>3, NotifyOneEffect

\* So does a consumer's step that takes a message.
LEMMA TakePc ==
  ASSUME TypeOK, CallInv, NEW c \in Consumers, NEW label \in {"idle", "flush"},
         NotifyOne(c, label, "wait_not_full", "insert")
  PROVE  /\ pc' \in [Threads -> {"idle", "insert", "wait_not_full", "delete", "flush",
                                 "wait_not_empty"}]
         /\ pc'[c] = label
         /\ \A d \in Consumers : d # c => pc'[d] = pc[d]
         /\ \A p \in Producers : pc'[p] = pc[p] \/ (pc[p] = "wait_not_full" /\ pc'[p] = "insert")
<1>1. c \in Threads
  BY DEF Threads
<1>2. CASE pc' = [pc EXCEPT ![c] = label]
  BY <1>2, <1>1, ThreadsAssumption DEF Threads, TypeOK
<1>3. ASSUME NEW w \in Threads \ {c}, pc[w] = "wait_not_full",
             pc' = [pc EXCEPT ![c] = label, ![w] = "insert"]
      PROVE  /\ pc' \in [Threads -> {"idle", "insert", "wait_not_full", "delete", "flush",
                                     "wait_not_empty"}]
             /\ pc'[c] = label
             /\ \A d \in Consumers : d # c => pc'[d] = pc[d]
             /\ \A p \in Producers : pc'[p] = pc[p] \/ (pc[p] = "wait_not_full" /\ pc'[p] = "insert")
  BY <1>3, <1>1, ThreadsAssumption DEF Threads, TypeOK, CallInv
<1> QED
  BY <1>1, <1>2, <1>3, NotifyOneEffect

\* insert_tail links a message that is nowhere in the queue behind its tail.
LEMMA InsertTailInv ==
  ASSUME QueueInv, NEW p \in Producers, insert_tail(p)
  PROVE  QueueInv'
<1> DEFINE m == arg[p]
           r == Len(removed)
           n == Len(inserted)
<1> USE LimitAssumption
<1>1. m \in Msgs /\ p \in Threads
  BY DEF QueueInv, TypeOK, CallInv, insert_tail, Threads
<1>2. /\ inserted' = Append(inserted, m) /\ removed' = removed
      /\ inserted' \in Seq(Msgs) /\ Len(inserted') = n + 1 /\ Len(removed') = r
      /\ r \in Nat /\ n \in Nat /\ r <= n
      /\ \A i \in 1 .. n : inserted'[i] = inserted[i]
      /\ inserted'[n + 1] = m
      /\ \A i \in 1 .. n : inserted[i] \in Msgs
  BY <1>1 DEF insert_tail, QueueInv, TypeOK, ListInv
<1>3. /\ pc' \in [Threads -> {"idle", "insert", "wait_not_full", "delete", "flush",
                              "wait_not_empty"}]
      /\ pc'[p] = "idle"
      /\ \A q \in Producers : q # p => pc'[q] = pc[q]
      /\ \A c \in Consumers : pc'[c] = pc[c] \/ (pc[c] = "wait_not_empty" /\ pc'[c] = "delete")
  BY InsertPc DEF insert_tail, QueueInv
<1>4. arg' \in [Producers -> Msgs \union {Null}] /\ arg' = [arg EXCEPT ![p] = Null]
  BY DEF insert_tail, QueueInv, TypeOK
<1>5. /\ d_next' \in [Msgs -> Msgs \union {Null}]
      /\ d_head' \in Msgs \union {Null} /\ d_tail' = m /\ d_count' = d_count + 1
      /\ d_next'[m] = Null
      /\ \A i \in r + 1 .. n : d_next'[inserted[i]] = IF i = n THEN m ELSE d_next[inserted[i]]
      /\ d_head' = IF r = n THEN m ELSE d_head
  <2>1. \A i \in r + 1 .. n : inserted[i] # m
    BY DEF QueueInv, DistinctInv
  <2>2. CASE r = n
    BY <2>2, <1>1, <1>2 DEF insert_tail, QueueInv, TypeOK, ListInv
  <2>3. CASE r # n
    <3>1. n \in r + 1 .. n /\ d_tail = inserted[n] /\ d_tail \in Msgs /\ d_tail # Null
      BY <2>3, <1>2 DEF QueueInv, ListInv
    <3>2. /\ d_next' = [d_next EXCEPT ![d_tail] = m, ![m] = Null]
          /\ d_head' = d_head /\ d_tail' = m /\ d_count' = d_count + 1
      BY <3>1 DEF insert_tail
    <3>3. \A i \in r + 1 .. n : inserted[i] = inserted[n] => i = n
      BY <3>1 DEF QueueInv, DistinctInv
    <3>4. /\ d_next' \in [Msgs -> Msgs \union {Null}] /\ d_next'[m] = Null
          /\ d_head' \in Msgs \union {Null}
      BY <3>1, <3>2, <1>1 DEF QueueInv, TypeOK
    <3>5. \A i \in r + 1 .. n : d_next'[inserted[i]] = IF i = n THEN m ELSE d_next[inserted[i]]
      <4>1. \A i \in r + 1 .. n : inserted[i] \in Msgs
        BY <1>2
      <4> QED BY <2>1, <3>1, <3>2, <3>3, <4>1, <1>1 DEF QueueInv, TypeOK
    <3> QED BY <2>3, <3>2, <3>4, <3>5
  <2> QED BY <2>2, <2>3
<1>6. TypeOK' /\ CallInv'
  <2>1. TypeOK'
    BY <1>1, <1>2, <1>3, <1>4, <1>5 DEF QueueInv, TypeOK
  <2>2. CallInv'
    BY <1>3, <1>4 DEF QueueInv, CallInv, TypeOK
  <2> QED BY <2>1, <2>2
<1>7. ListInv'
  <2>1. /\ d_count = n - r
        /\ \A i \in 1 .. r : removed[i] = inserted[i]
        /\ r # n => d_head = inserted[r + 1]
        /\ \A i \in r + 1 .. n : i # n => d_next[inserted[i]] = inserted[i + 1]
    BY DEF QueueInv, ListInv
  <2>2. \A i \in 1 .. r : removed'[i] = inserted'[i]
    BY <2>1, <1>2
  <2>3. d_head' = inserted'[r + 1] /\ d_tail' = inserted'[n + 1]
    BY <2>1, <1>2, <1>5
  <2>4. \A i \in r + 1 .. n + 1 :
          d_next'[inserted'[i]] = IF i = n + 1 THEN Null ELSE inserted'[i + 1]
    <3> SUFFICES ASSUME NEW i \in r + 1 .. n + 1
                 PROVE  d_next'[inserted'[i]] = IF i = n + 1 THEN Null ELSE inserted'[i + 1]
      OBVIOUS
    <3>1. CASE i = n + 1
      BY <3>1, <1>2, <1>5
    <3>2. CASE i = n
      BY <3>2, <1>2, <1>5
    <3>3. CASE i \in r + 1 .. n - 1
      <4>1. i \in r + 1 .. n /\ i \in 1 .. n /\ i + 1 \in 1 .. n /\ i # n
        BY <3>3, <1>2
      <4>2. inserted'[i] = inserted[i] /\ inserted'[i + 1] = inserted[i + 1]
        BY <4>1, <1>2
      <4>3. d_next'[inserted[i]] = inserted[i + 1]
        BY <4>1, <2>1, <1>5
      <4> QED BY <4>1, <4>2, <4>3, <1>2
    <3> QED BY <3>1, <3>2, <3>3, <1>2
  <2>5. d_count' = n + 1 - r /\ r <= n + 1 /\ r # n + 1
    BY <2>1, <1>2, <1>5
  <2>6. Len(removed') = r /\ Len(inserted') = n + 1
    BY <1>2
  <2> QED BY <2>2, <2>3, <2>4, <2>5, <2>6 DEF ListInv
<1>8. DistinctInv'
  <2>1. /\ \A i \in r + 1 .. n : inserted[i] # m
        /\ \A i, j \in r + 1 .. n : inserted[i] = inserted[j] => i = j
        /\ \A i \in r + 1 .. n, q \in Producers : arg[q] # inserted[i]
        /\ \A q \in Producers : q # p => arg[q] # m
    BY <1>1 DEF QueueInv, DistinctInv
  <2>2. \A i, j \in r + 1 .. n + 1 : inserted'[i] = inserted'[j] => i = j
    BY <2>1, <1>2
  <2>3. \A i \in r + 1 .. n + 1, q \in Producers : arg'[q] # inserted'[i]
    <3>1. /\ m # Null /\ m = inserted'[n + 1] /\ \A i \in 1 .. n : inserted'[i] = inserted[i]
          /\ \A i \in 1 .. n : inserted[i] \in Msgs
      BY <1>1, <1>2
    <3>2. /\ arg'[p] = Null /\ Null \notin Msgs
          /\ \A q \in Producers : q # p => arg'[q] = arg[q]
      BY <1>4, LimitAssumption DEF QueueInv, TypeOK
    <3>3. \A q \in Producers : arg'[q] # m
      BY <2>1, <3>1, <3>2
    <3>4. ASSUME NEW i \in r + 1 .. n, NEW q \in Producers PROVE arg'[q] # inserted[i]
      <4>1. inserted[i] \in Msgs
        BY <3>1, <1>2
      <4> QED BY <2>1, <3>2, <4>1
    <3>5. \A i \in r + 1 .. n + 1 : i = n + 1 \/ (i \in r + 1 .. n /\ i \in 1 .. n)
      BY <1>2
    <3> QED BY <3>1, <3>3, <3>4, <3>5
  <2>4. \A a, b \in Producers : a # b /\ arg'[a] = arg'[b] => arg'[a] = Null
    BY <1>4 DEF QueueInv, TypeOK, DistinctInv
  <2> QED BY <2>2, <2>3, <2>4, <1>2 DEF DistinctInv
<1> QED BY <1>6, <1>7, <1>8 DEF QueueInv

\* The body delete_head and delete_head_nowait share unlinks the oldest message.
LEMMA TakeHeadInv ==
  ASSUME QueueInv, NEW c \in Consumers, NEW label \in {"idle", "flush"}, TakeHead(c, label)
  PROVE  QueueInv'
<1> DEFINE r == Len(removed)
           n == Len(inserted)
<1> USE LimitAssumption
<1>1. r \in Nat /\ n \in Nat /\ r < n /\ d_head = inserted[r + 1] /\ d_head \in Msgs
  BY DEF QueueInv, TypeOK, ListInv, TakeHead
<1>2. /\ inserted' = inserted /\ arg' = arg
      /\ removed' \in Seq(Msgs) /\ Len(removed') = r + 1
      /\ \A i \in 1 .. r : removed'[i] = removed[i]
      /\ removed'[r + 1] = inserted[r + 1]
      /\ \A i \in 1 .. n : inserted[i] \in Msgs
  BY <1>1 DEF TakeHead, QueueInv, TypeOK
<1>3. /\ pc' \in [Threads -> {"idle", "insert", "wait_not_full", "delete", "flush",
                              "wait_not_empty"}]
      /\ pc'[c] = label
      /\ \A d \in Consumers : d # c => pc'[d] = pc[d]
      /\ \A p \in Producers : pc'[p] = pc[p] \/ (pc[p] = "wait_not_full" /\ pc'[p] = "insert")
  BY TakePc DEF TakeHead, QueueInv
<1>4. /\ d_next[d_head] = IF r + 1 = n THEN Null ELSE inserted[r + 2]
      /\ d_count' = d_count - 1 /\ d_count = n - r
      /\ d_next' = [d_next EXCEPT ![d_head] = Null]
      /\ d_head' = d_next[d_head]
      /\ d_tail' = IF d_next[d_head] = Null THEN Null ELSE d_tail
      /\ d_tail = inserted[n]
  BY <1>1 DEF TakeHead, QueueInv, ListInv
<1>5. /\ \A i, j \in r + 1 .. n : inserted[i] = inserted[j] => i = j
      /\ \A i \in r + 1 .. n, q \in Producers : arg[q] # inserted[i]
      /\ \A a, b \in Producers : a # b /\ arg[a] = arg[b] => arg[a] = Null
  BY DEF QueueInv, DistinctInv
<1>6. TypeOK' /\ CallInv'
  <2>1. TypeOK'
    BY <1>1, <1>2, <1>3, <1>4 DEF QueueInv, TypeOK
  <2>2. CallInv'
    BY <1>2, <1>3 DEF QueueInv, CallInv
  <2> QED BY <2>1, <2>2
<1>7. ListInv'
  <2>1. \A i \in r + 2 .. n : d_next'[inserted[i]] = IF i = n THEN Null ELSE inserted[i + 1]
    BY <1>1, <1>2, <1>4, <1>5 DEF QueueInv, ListInv, TypeOK
  <2>2. IF r + 1 = n THEN d_head' = Null /\ d_tail' = Null
        ELSE d_head' = inserted[r + 2] /\ d_tail' = inserted[n]
    BY <1>1, <1>2, <1>4
  <2>3. \A i \in 1 .. r + 1 : removed'[i] = inserted[i]
    BY <1>1, <1>2 DEF QueueInv, ListInv
  <2> QED BY <1>1, <1>2, <1>4, <2>1, <2>2, <2>3 DEF ListInv
<1>8. DistinctInv'
  BY <1>1, <1>2, <1>5 DEF DistinctInv
<1> QED BY <1>6, <1>7, <1>8 DEF QueueInv

\* insert_tail's check of the link before it takes the mutex: the message is
\* nowhere in the queue.
LEMMA InsertCallInv ==
  ASSUME ~Reinsert, QueueInv, NEW p \in Producers, NEW m \in Msgs, InsertCall(p, m)
  PROVE  QueueInv'
<1> USE LimitAssumption, ThreadsAssumption DEF Threads, queueVars
<1>1. CASE UNCHANGED <<pc, arg>>
  BY <1>1 DEF InsertCall, QueueInv, TypeOK, CallInv, ListInv, DistinctInv
<1>2. CASE /\ d_next[m] = Null
           /\ pc' = [pc EXCEPT ![p] = "insert"]
           /\ arg' = [arg EXCEPT ![p] = m]
  <2>1. m # d_tail /\ \A q \in Producers : arg[q] # m
    BY DEF InsertCall, Allowed
  <2>2. \A i \in Len(removed) + 1 .. Len(inserted) : inserted[i] # m
    BY <1>2, <2>1 DEF QueueInv, TypeOK, ListInv
  <2>3. /\ d_head' = d_head /\ d_tail' = d_tail /\ d_count' = d_count /\ d_next' = d_next
        /\ inserted' = inserted /\ removed' = removed
    BY DEF InsertCall
  <2>4. TypeOK' /\ CallInv'
    BY <1>2, <2>3 DEF QueueInv, TypeOK, CallInv
  <2>5. ListInv'
    BY <2>3 DEF QueueInv, ListInv
  <2>6. DistinctInv'
    BY <1>2, <2>1, <2>2, <2>3 DEF QueueInv, DistinctInv, TypeOK
  <2> QED BY <2>4, <2>5, <2>6 DEF QueueInv
<1> QED BY <1>1, <1>2 DEF InsertCall

\* A step that only moves one thread within its own calls.
LEMMA MoveInv ==
  ASSUME QueueInv, UNCHANGED <<queueVars, arg, inserted, removed>>,
         NEW t \in Threads, NEW label, pc' = [pc EXCEPT ![t] = label],
         t \in Producers => /\ pc[t] \in {"insert", "wait_not_full"}
                            /\ label \in {"insert", "wait_not_full"},
         t \in Consumers => label \in {"idle", "delete", "flush", "wait_not_empty"}
  PROVE  QueueInv'
<1> USE ThreadsAssumption DEF Threads, queueVars
<1>1. TypeOK' /\ CallInv'
  BY DEF QueueInv, TypeOK, CallInv
<1>2. ListInv' /\ DistinctInv'
  BY DEF QueueInv, ListInv, DistinctInv
<1> QED BY <1>1, <1>2 DEF QueueInv

\* Every step keeps the invariant.
LEMMA NextQueueInv == ~Reinsert /\ QueueInv /\ [Next]_vars => QueueInv'
<1> SUFFICES ASSUME ~Reinsert, QueueInv, [Next]_vars
             PROVE  QueueInv'
  OBVIOUS
<1>1. ASSUME NEW p \in Producers, InsertFull(p) PROVE QueueInv'
  BY <1>1, ThreadsAssumption, MoveInv DEF InsertFull, Threads
<1>2. ASSUME NEW p \in Producers, insert_tail(p) PROVE QueueInv'
  BY <1>2, InsertTailInv
<1>3. ASSUME NEW p \in Producers, NEW m \in Msgs, InsertCall(p, m) PROVE QueueInv'
  BY <1>3, InsertCallInv
<1>4. ASSUME NEW c \in Consumers, Delete(c) PROVE QueueInv'
  <2>1. CASE DeleteEmpty(c)
    BY <2>1, ThreadsAssumption, MoveInv DEF DeleteEmpty, Threads
  <2>2. CASE delete_head(c)
    BY <2>2, TakeHeadInv DEF delete_head
  <2>3. CASE flush(c)
    <3>1. CASE TakeHead(c, "flush")
      BY <3>1, TakeHeadInv
    <3>2. CASE pc' = [pc EXCEPT ![c] = "idle"] /\ UNCHANGED <<queueVars, arg, inserted, removed>>
      BY <3>2, ThreadsAssumption, MoveInv DEF Threads
    <3> QED BY <2>3, <3>1, <3>2 DEF flush
  <2> QED BY <1>4, <2>1, <2>2, <2>3 DEF Delete
<1>5. ASSUME NEW c \in Consumers, DeleteCall(c) PROVE QueueInv'
  BY <1>5, ThreadsAssumption, MoveInv DEF DeleteCall, Threads
<1>6. ASSUME NEW c \in Consumers, delete_head_nowait(c) PROVE QueueInv'
  BY <1>6, TakeHeadInv DEF delete_head_nowait
<1>7. ASSUME NEW t \in Threads, SpuriousWakeup(t) PROVE QueueInv'
  <2>1. CASE pc[t] = "wait_not_full" /\ pc' = [pc EXCEPT ![t] = "insert"]
    <3>1. t \in Producers /\ t \notin Consumers
      BY <2>1, ThreadsAssumption DEF QueueInv, CallInv, Threads
    <3> QED BY <1>7, <2>1, <3>1, MoveInv DEF SpuriousWakeup
  <2>2. CASE pc[t] = "wait_not_empty" /\ pc' = [pc EXCEPT ![t] = "delete"]
    <3>1. t \in Consumers /\ t \notin Producers
      BY <2>2, ThreadsAssumption DEF QueueInv, CallInv, Threads
    <3> QED BY <1>7, <2>2, <3>1, MoveInv DEF SpuriousWakeup
  <2> QED BY <1>7, <2>1, <2>2 DEF SpuriousWakeup
<1>8. CASE UNCHANGED vars
  BY <1>8 DEF vars, queueVars, QueueInv, TypeOK, CallInv, ListInv, DistinctInv
<1> QED
  BY <1>1, <1>2, <1>3, <1>4, <1>5, <1>6, <1>7, <1>8 DEF Next, Insert

\* As long as no message is inserted while it is queued, every reachable state
\* satisfies the invariant.
THEOREM QueueInvariant == ASSUME ~Reinsert PROVE Spec => []QueueInv
<1>1. QueueInv /\ [Next]_vars => QueueInv'
  BY NextQueueInv
<1> QED
  BY <1>1, InitQueueInv, PTL DEF Spec

\* gr_msg_queue keeps its types; in particular d_count, which delete_head
\* decrements without looking at it, never drops below zero.
THEOREM TypeCorrect == ASSUME ~Reinsert PROVE Spec => []TypeOK
BY QueueInvariant, PTL DEF QueueInv

\* Pending[i] is the i-th message after those removed.
LEMMA PendingIs ==
  ASSUME TypeOK, ListInv
  PROVE  /\ Len(Pending) = Len(inserted) - Len(removed)
         /\ Pending \in Seq(Msgs)
         /\ \A i \in 1 .. Len(Pending) : Pending[i] = inserted[Len(removed) + i]
BY DEF TypeOK, ListInv, Pending

\* The list threaded through the messages' own d_next fields is exactly the
\* sequence of messages inserted and not yet removed, and d_count its length:
\* delete_head returns messages in the order insert_tail queued them.
THEOREM QueueIsListHolds == ASSUME ~Reinsert PROVE Spec => []QueueIsList
<1>1. QueueInv => QueueIsList
  <2> SUFFICES ASSUME QueueInv PROVE QueueIsList
    OBVIOUS
  <2> DEFINE r == Len(removed)
             n == Len(inserted)
  <2>1. TypeOK /\ ListInv
    BY DEF QueueInv
  <2>2. /\ r \in Nat /\ n \in Nat /\ r <= n /\ d_count = n - r
        /\ \A i \in 1 .. r : removed[i] = inserted[i]
        /\ IF r = n THEN d_head = Null /\ d_tail = Null
           ELSE d_head = inserted[r + 1] /\ d_tail = inserted[n]
        /\ \A i \in r + 1 .. n : d_next[inserted[i]] = IF i = n THEN Null ELSE inserted[i + 1]
    BY <2>1 DEF TypeOK, ListInv
  <2>3. SubSeq(inserted, 1, r) = removed
    BY <2>1, <2>2 DEF TypeOK
  <2>4. /\ Len(Pending) = n - r /\ Pending \in Seq(Msgs)
        /\ \A i \in 1 .. n - r : Pending[i] = inserted[r + i]
    BY <2>1, PendingIs
  <2>5. CASE r = n
    <3>1. Pending = <<>>
      BY <2>2, <2>4, <2>5
    <3> QED BY <2>2, <2>3, <2>4, <2>5, <3>1 DEF QueueIsList
  <2>6. CASE r # n
    <3>1. Pending # <<>> /\ d_head = Pending[1] /\ d_tail = Pending[Len(Pending)]
      BY <2>2, <2>4, <2>6
    <3>2. \A i \in 1 .. Len(Pending) :
            d_next[Pending[i]] = IF i = Len(Pending) THEN Null ELSE Pending[i + 1]
      <4> SUFFICES ASSUME NEW i \in 1 .. n - r
                   PROVE  d_next[Pending[i]] = IF i = n - r THEN Null ELSE Pending[i + 1]
        BY <2>4
      <4>1. r + i \in r + 1 .. n /\ Pending[i] = inserted[r + i]
        BY <2>2, <2>4
      <4>2. d_next[inserted[r + i]] = IF r + i = n THEN Null ELSE inserted[r + i + 1]
        BY <2>2, <4>1
      <4>3. i # n - r => Pending[i + 1] = inserted[r + i + 1]
        BY <2>2, <2>4
      <4> QED BY <2>2, <4>1, <4>2, <4>3
    <3> QED BY <2>2, <2>3, <2>4, <3>1, <3>2 DEF QueueIsList
  <2> QED BY <2>5, <2>6
<1> QED
  BY <1>1, QueueInvariant, PTL

-----------------------------------------------------------------------------
(* The bound and the notifications. *)

\* insert_tail tests full_p under the mutex, and every other step leaves
\* d_count alone or decrements it.
THEOREM BoundedHolds == ASSUME ~Reinsert PROVE Spec => []Bounded
<1> USE LimitAssumption DEF Bounded
<1>1. Init => Bounded
  BY DEF Init
<1>2. QueueInv /\ Bounded /\ [Next]_vars => Bounded'
  <2> SUFFICES ASSUME QueueInv, Bounded, [Next]_vars PROVE Bounded'
    OBVIOUS
  <2>1. ASSUME NEW p \in Producers, insert_tail(p) PROVE Bounded'
    BY <2>1 DEF insert_tail, full_p, QueueInv, TypeOK
  <2>2. ASSUME NEW c \in Consumers, NEW label, TakeHead(c, label) PROVE Bounded'
    BY <2>2 DEF TakeHead, QueueInv, TypeOK
  <2>3. ASSUME UNCHANGED d_count PROVE Bounded'
    BY <2>3
  <2> QED
    BY <2>1, <2>2, <2>3 DEF Next, Insert, Delete, InsertFull, InsertCall, DeleteEmpty,
       delete_head, flush, DeleteCall, delete_head_nowait, SpuriousWakeup, vars, queueVars
<1> QED
  BY <1>1, <1>2, QueueInvariant, PTL DEF Spec

\* The number of threads of S at a label, and how it changes as threads move.
Count(S, f, l) == Cardinality({x \in S : f[x] = l})

\* A count of threads depends only on where each of them is.
LEMMA CountSame ==
  ASSUME NEW S, NEW f, NEW g, NEW l, NEW y, y \in S => f[y] # l /\ g[y] # l,
         \A x \in S : x # y => g[x] = f[x]
  PROVE  Count(S, g, l) = Count(S, f, l)
<1>1. {x \in S : g[x] = l} = {x \in S : f[x] = l}
  OBVIOUS
<1> QED BY <1>1 DEF Count

\* A count of threads is a natural number.
LEMMA CountNat ==
  ASSUME NEW S, IsFiniteSet(S), NEW f, NEW l
  PROVE  IsFiniteSet({x \in S : f[x] = l}) /\ Count(S, f, l) \in Nat
<1>1. {x \in S : f[x] = l} \in SUBSET S
  OBVIOUS
<1> QED BY <1>1, FS_Subset, FS_CardinalityType DEF Count

\* A thread that enters the counted labels adds one.
LEMMA CountGain ==
  ASSUME NEW S, IsFiniteSet(S), NEW f, NEW g, NEW l, NEW y \in S,
         f[y] # l, g[y] = l, \A x \in S : x # y => g[x] = f[x]
  PROVE  Count(S, g, l) = Count(S, f, l) + 1
<1>1. {x \in S : g[x] = l} = {x \in S : f[x] = l} \union {y}
  OBVIOUS
<1>2. IsFiniteSet({x \in S : f[x] = l})
  <2>1. {x \in S : f[x] = l} \in SUBSET S
    OBVIOUS
  <2> QED BY <2>1, FS_Subset
<1>3. y \notin {x \in S : f[x] = l}
  OBVIOUS
<1> QED BY <1>1, <1>2, <1>3, FS_AddElement DEF Count

\* A thread that leaves them takes one away.
LEMMA CountLoss ==
  ASSUME NEW S, IsFiniteSet(S), NEW f, NEW g, NEW l, NEW y \in S,
         f[y] = l, g[y] # l, \A x \in S : x # y => g[x] = f[x]
  PROVE  Count(S, g, l) = Count(S, f, l) - 1
<1>1. {x \in S : g[x] = l} = {x \in S : f[x] = l} \ {y}
  OBVIOUS
<1>2. IsFiniteSet({x \in S : f[x] = l})
  <2>1. {x \in S : f[x] = l} \in SUBSET S
    OBVIOUS
  <2> QED BY <2>1, FS_Subset
<1>3. y \in {x \in S : f[x] = l}
  OBVIOUS
<1> QED BY <1>1, <1>2, <1>3, FS_RemoveElement DEF Count

Deleting(f) == Count(Consumers, f, "delete")
Inserting(f) == Count(Producers, f, "insert")

\* insert_tail adds a message and takes a producer away; if a consumer sleeps,
\* notify_one wakes one.
LEMMA InsertTailNotify ==
  ASSUME QueueInv, NoLostNotify, NEW p \in Producers, insert_tail(p)
  PROVE  NoLostNotify'
<1>1. /\ pc'[p] = "idle" /\ pc[p] = "insert"
      /\ \A q \in Producers : q # p => pc'[q] = pc[q]
      /\ d_count' = d_count + 1
  BY InsertPc DEF insert_tail, QueueInv
<1>2. Inserting(pc') = Inserting(pc) - 1 /\ Inserting(pc) \in Nat
  <2>1. pc'[p] # "insert"
    BY <1>1
  <2>2. Inserting(pc) \in Nat
    BY CountNat, ThreadsAssumption DEF Inserting
  <2>3. Inserting(pc') = Inserting(pc) - 1
    BY <1>1, <2>1, CountLoss, ThreadsAssumption DEF Inserting
  <2> QED BY <2>2, <2>3
<1>3. (\E q \in Producers : pc'[q] = "wait_not_full") => d_limit - d_count' <= Inserting(pc')
  BY <1>1, <1>2, LimitAssumption DEF NoLostNotify, Inserting, QueueInv, TypeOK, Count
<1>4. (\E c \in Consumers : pc'[c] = "wait_not_empty") => d_count' <= Deleting(pc')
  <2>0. Deleting(pc) \in Nat /\ p \in Threads /\ p \notin Consumers
    BY CountNat, ThreadsAssumption DEF Deleting, Threads
  <2>1. CASE /\ \A x \in Threads \ {p} : pc[x] # "wait_not_empty"
             /\ pc' = [pc EXCEPT ![p] = "idle"]
    BY <2>0, <2>1, ThreadsAssumption DEF Threads, QueueInv, TypeOK
  <2>2. ASSUME NEW w \in Threads \ {p}, pc[w] = "wait_not_empty",
               pc' = [pc EXCEPT ![p] = "idle", ![w] = "delete"]
        PROVE  (\E c \in Consumers : pc'[c] = "wait_not_empty") => d_count' <= Deleting(pc')
    <3>1. w \in Consumers
      BY <2>2 DEF Threads, QueueInv, CallInv
    <3>2. pc'[w] = "delete" /\ \A x \in Consumers : x # w => pc'[x] = pc[x]
      BY <2>0, <2>2, <3>1 DEF Threads, QueueInv, TypeOK
    <3>3. Deleting(pc') = Deleting(pc) + 1
      <4>1. pc[w] # "delete"
        BY <2>2
      <4> QED BY <4>1, <3>1, <3>2, CountGain, ThreadsAssumption DEF Deleting
    <3>4. d_count <= Deleting(pc)
      BY <2>2, <3>1 DEF NoLostNotify, Deleting, Count
    <3> QED BY <1>1, <2>0, <3>3, <3>4 DEF QueueInv, TypeOK
  <2> QED BY <2>0, <2>1, <2>2, NotifyOneEffect DEF insert_tail, QueueInv
<1> QED BY <1>3, <1>4 DEF NoLostNotify, Inserting, Deleting, Count

\* Taking a message makes room for one producer, and notify_one wakes one.
LEMMA TakeHeadNotify ==
  ASSUME QueueInv, NoLostNotify, NEW c \in Consumers, NEW label \in {"idle", "flush"},
         TakeHead(c, label)
  PROVE  NoLostNotify'
<1>1. /\ \A d \in Consumers : d # c => pc'[d] = pc[d]
      /\ d_count' = d_count - 1 /\ pc'[c] = label
  BY TakePc DEF TakeHead, QueueInv
<1>0. Deleting(pc) \in Nat /\ Inserting(pc) \in Nat /\ c \in Threads /\ c \notin Producers
  BY CountNat, ThreadsAssumption DEF Deleting, Inserting, Threads
<1>2. Deleting(pc') = IF pc[c] = "delete" THEN Deleting(pc) - 1 ELSE Deleting(pc)
  <2>1. CASE pc[c] = "delete"
    BY <2>1, <1>1, CountLoss, ThreadsAssumption DEF Deleting
  <2>2. CASE pc[c] # "delete"
    <3>1. pc'[c] # "delete"
      BY <1>1
    <3>2. Deleting(pc') = Deleting(pc)
      BY <2>2, <1>1, <3>1, CountSame DEF Deleting
    <3> QED BY <2>2, <3>2
  <2> QED BY <2>1, <2>2
<1>3. (\E d \in Consumers : pc'[d] = "wait_not_empty") => d_count' <= Deleting(pc')
  BY <1>0, <1>1, <1>2 DEF NoLostNotify, Deleting, QueueInv, TypeOK, Count
<1>4. (\E p \in Producers : pc'[p] = "wait_not_full") => d_limit - d_count' <= Inserting(pc')
  <2>1. CASE /\ \A x \in Threads \ {c} : pc[x] # "wait_not_full"
             /\ pc' = [pc EXCEPT ![c] = label]
    BY <1>0, <2>1 DEF Threads, QueueInv, TypeOK
  <2>2. ASSUME NEW w \in Threads \ {c}, pc[w] = "wait_not_full",
               pc' = [pc EXCEPT ![c] = label, ![w] = "insert"]
        PROVE  (\E p \in Producers : pc'[p] = "wait_not_full") => d_limit - d_count' <= Inserting(pc')
    <3>1. w \in Producers
      BY <2>2 DEF Threads, QueueInv, CallInv
    <3>2. pc'[w] = "insert" /\ \A x \in Producers : x # w => pc'[x] = pc[x]
      BY <1>0, <2>2, <3>1 DEF Threads, QueueInv, TypeOK
    <3>3. Inserting(pc') = Inserting(pc) + 1
      <4>1. pc[w] # "insert"
        BY <2>2
      <4> QED BY <4>1, <3>1, <3>2, CountGain, ThreadsAssumption DEF Inserting
    <3>4. d_limit - d_count <= Inserting(pc)
      BY <2>2, <3>1 DEF NoLostNotify, Inserting, Count
    <3> QED BY <1>0, <1>1, <3>3, <3>4, LimitAssumption DEF QueueInv, TypeOK
  <2> QED BY <1>0, <2>1, <2>2, NotifyOneEffect DEF TakeHead, QueueInv
<1> QED BY <1>3, <1>4 DEF NoLostNotify, Inserting, Deleting, Count

\* A thread that moves on its own leaves neither loop, or leaves it to sleep
\* when there is nothing to take and no room to fill.
LEMMA MoveNotifyAt ==
  ASSUME QueueInv, NoLostNotify, UNCHANGED d_count,
         NEW t \in Threads, NEW label,
         pc'[t] = label, \A x \in Threads : x # t => pc'[x] = pc[x],
         pc[t] = "delete" => label = "wait_not_empty",
         pc[t] = "insert" => label = "wait_not_full",
         label = "wait_not_empty" => d_count = 0,
         label = "wait_not_full" => d_limit <= d_count
  PROVE  NoLostNotify'
<1>0. Deleting(pc) \in Nat /\ Inserting(pc) \in Nat /\ Deleting(pc') \in Nat /\ Inserting(pc') \in Nat
  BY CountNat, ThreadsAssumption DEF Deleting, Inserting
<1>1. (\E c \in Consumers : pc'[c] = "wait_not_empty") => d_count <= Deleting(pc')
  <2>1. CASE label = "wait_not_empty"
    BY <2>1, <1>0
  <2>2. CASE label # "wait_not_empty"
    <3>1. ASSUME \E c \in Consumers : pc'[c] = "wait_not_empty" PROVE d_count <= Deleting(pc)
      BY <3>1, <2>2 DEF NoLostNotify, Threads, Deleting, Count
    <3>2. Deleting(pc) <= Deleting(pc')
      <4>1. \A x \in Consumers : x # t => pc'[x] = pc[x]
        BY DEF Threads
      <4>2. ASSUME t \in Consumers, label = "delete" PROVE Deleting(pc') = Deleting(pc) + 1
        <5>1. pc[t] # "delete" /\ pc'[t] = "delete"
          BY <2>2, <4>2
        <5> QED BY <4>1, <4>2, <5>1, CountGain, ThreadsAssumption DEF Deleting
      <4>3. ASSUME ~(t \in Consumers /\ label = "delete") PROVE Deleting(pc') = Deleting(pc)
        <5>1. t \in Consumers => pc[t] # "delete" /\ pc'[t] # "delete"
          BY <2>2, <4>3
        <5> QED BY <4>1, <5>1, CountSame DEF Deleting
      <4> QED BY <4>2, <4>3, <1>0
    <3> QED BY <3>1, <3>2, <1>0 DEF QueueInv, TypeOK
  <2> QED BY <2>1, <2>2
<1>2. (\E p \in Producers : pc'[p] = "wait_not_full") => d_limit - d_count <= Inserting(pc')
  <2>1. CASE label = "wait_not_full"
    BY <2>1, <1>0, LimitAssumption DEF QueueInv, TypeOK
  <2>2. CASE label # "wait_not_full"
    <3>1. ASSUME \E p \in Producers : pc'[p] = "wait_not_full" PROVE d_limit - d_count <= Inserting(pc)
      BY <3>1, <2>2 DEF NoLostNotify, Threads, Inserting, Count
    <3>2. Inserting(pc) <= Inserting(pc')
      <4>1. \A x \in Producers : x # t => pc'[x] = pc[x]
        BY DEF Threads
      <4>2. ASSUME t \in Producers, label = "insert" PROVE Inserting(pc') = Inserting(pc) + 1
        <5>1. pc[t] # "insert" /\ pc'[t] = "insert"
          BY <2>2, <4>2
        <5> QED BY <4>1, <4>2, <5>1, CountGain, ThreadsAssumption DEF Inserting
      <4>3. ASSUME ~(t \in Producers /\ label = "insert") PROVE Inserting(pc') = Inserting(pc)
        <5>1. t \in Producers => pc[t] # "insert" /\ pc'[t] # "insert"
          BY <2>2, <4>3
        <5> QED BY <4>1, <5>1, CountSame DEF Inserting
      <4> QED BY <4>2, <4>3, <1>0
    <3> QED BY <3>1, <3>2, <1>0, LimitAssumption DEF QueueInv, TypeOK
  <2> QED BY <2>1, <2>2
<1> QED BY <1>1, <1>2 DEF NoLostNotify, Inserting, Deleting, Count

\* A thread that moves by itself, and sleeps only for what is not there, loses no
\* notification.
LEMMA MoveNotify ==
  ASSUME QueueInv, NoLostNotify, UNCHANGED d_count,
         NEW t \in Threads, NEW label, pc' = [pc EXCEPT ![t] = label],
         pc[t] = "delete" => label = "wait_not_empty",
         pc[t] = "insert" => label = "wait_not_full",
         label = "wait_not_empty" => d_count = 0,
         label = "wait_not_full" => d_limit <= d_count
  PROVE  NoLostNotify'
<1>1. pc'[t] = label /\ \A x \in Threads : x # t => pc'[x] = pc[x]
  BY DEF QueueInv, TypeOK
<1> QED BY <1>1, MoveNotifyAt

\* notify_one wakes one thread per message and per slot, and that is enough.
LEMMA NextNotify == QueueInv /\ NoLostNotify /\ [Next]_vars => NoLostNotify'
<1> SUFFICES ASSUME QueueInv, NoLostNotify, [Next]_vars
             PROVE  NoLostNotify'
  OBVIOUS
<1> USE DEF Threads, queueVars
<1>0. d_head = Null => d_count = 0
  BY LimitAssumption DEF QueueInv, ListInv, TypeOK
<1>1. ASSUME NEW p \in Producers, InsertFull(p) PROVE NoLostNotify'
  BY <1>1, MoveNotify, LimitAssumption DEF InsertFull, full_p, QueueInv, TypeOK
<1>2. ASSUME NEW p \in Producers, insert_tail(p) PROVE NoLostNotify'
  BY <1>2, InsertTailNotify
<1>3. ASSUME NEW p \in Producers, NEW m \in Msgs, InsertCall(p, m) PROVE NoLostNotify'
  <2>1. CASE UNCHANGED <<pc, arg>>
    BY <1>3, <2>1 DEF InsertCall, NoLostNotify
  <2>2. CASE pc' = [pc EXCEPT ![p] = "insert"]
    BY <1>3, <2>2, MoveNotify DEF InsertCall
  <2> QED BY <1>3, <2>1, <2>2 DEF InsertCall
<1>4. ASSUME NEW c \in Consumers, Delete(c) PROVE NoLostNotify'
  <2>1. CASE DeleteEmpty(c)
    BY <1>0, <2>1, MoveNotify DEF DeleteEmpty
  <2>2. CASE delete_head(c)
    BY <2>2, TakeHeadNotify DEF delete_head
  <2>3. CASE flush(c)
    BY <2>3, TakeHeadNotify, MoveNotify DEF flush
  <2> QED BY <1>4, <2>1, <2>2, <2>3 DEF Delete
<1>5. ASSUME NEW c \in Consumers, DeleteCall(c) PROVE NoLostNotify'
  BY <1>5, MoveNotify DEF DeleteCall
<1>6. ASSUME NEW c \in Consumers, delete_head_nowait(c) PROVE NoLostNotify'
  BY <1>6, TakeHeadNotify DEF delete_head_nowait
<1>7. ASSUME NEW t \in Threads, SpuriousWakeup(t) PROVE NoLostNotify'
  BY <1>7, MoveNotify DEF SpuriousWakeup
<1>8. CASE UNCHANGED vars
  BY <1>8 DEF vars, NoLostNotify
<1> QED
  BY <1>1, <1>2, <1>3, <1>4, <1>5, <1>6, <1>7, <1>8 DEF Next, Insert

\* No wakeup is lost although notify_one wakes a single thread and others may
\* take the message, or the room, before it gets the mutex.
THEOREM NoLostNotifyHolds == ASSUME ~Reinsert PROVE Spec => []NoLostNotify
<1>1. Init => NoLostNotify
  BY DEF Init, NoLostNotify, Threads
<1> QED
  BY <1>1, NextNotify, QueueInvariant, PTL DEF Spec
=============================================================================
