----------------------------- MODULE GrMsgQueue -----------------------------
(***************************************************************************)
(* gr_msg_queue: a bounded queue of gr_messages, linked through the d_next *)
(* field of the messages themselves, shared by threads that insert and     *)
(* threads that delete.  Each action is what a thread does between taking  *)
(* d_mutex and releasing it, by returning or by waiting on a condition     *)
(* variable.                                                               *)
(***************************************************************************)
EXTENDS Integers, Sequences, FiniteSets

CONSTANTS
  Producers, Consumers,
  Msgs,          \* the messages
  Null,          \* the empty gr_message_sptr
  d_limit,       \* max # of messages in queue, 0 -> unbounded
  MaxInserts,    \* bound: calls of insert_tail that queue a message
  Reinsert       \* callers may insert a message that is in the queue or in another call

ASSUME LimitAssumption == d_limit \in Nat /\ MaxInserts \in Nat /\ Null \notin Msgs
ASSUME ThreadsAssumption ==
  /\ Producers \cap Consumers = {} /\ IsFiniteSet(Producers) /\ IsFiniteSet(Consumers)
  /\ Reinsert \in BOOLEAN

Threads == Producers \union Consumers

VARIABLES
  d_head, d_tail, d_count,
  d_next,             \* the link in each message
  pc,                 \* what each thread is about to do
  arg,                \* the message a producer inserts
  inserted, removed   \* history: messages in the order they went in and came out

queueVars == <<d_head, d_tail, d_count, d_next>>
vars == <<queueVars, pc, arg, inserted, removed>>

empty_p == d_count = 0
\* Mutant of full_p: one message too many.
full_p_late == d_limit # 0 /\ d_count > d_limit

full_p  == d_limit # 0 /\ d_count >= d_limit

Init ==
  /\ d_head = Null /\ d_tail = Null /\ d_count = 0
  /\ d_next = [m \in Msgs |-> Null]
  /\ pc = [t \in Threads |-> "idle"]
  /\ arg = [p \in Producers |-> Null]
  /\ inserted = <<>> /\ removed = <<>>

\* Mutant of NotifyOne: nobody is notified.
NotifyOne_nobody(t, label, waiting, again) == pc' = [pc EXCEPT ![t] = label]

\* notify_one: thread t goes on, and one of the threads waiting at label, if
\* there is one, goes back to its loop with the mutex to be taken again.
NotifyOne(t, label, waiting, again) ==
  LET waiters == {w \in Threads \ {t} : pc[w] = waiting}
  IN \/ /\ waiters = {}
        /\ pc' = [pc EXCEPT ![t] = label]
     \/ \E w \in waiters : pc' = [pc EXCEPT ![t] = label, ![w] = again]

-----------------------------------------------------------------------------
\* Messages a caller may pass: with Reinsert any, otherwise neither the tail of
\* the queue, whose link is empty, nor one that another producer is inserting,
\* whose link is empty until that producer has the mutex.  The test of d_next
\* recognises neither; what it does recognise stays allowed, and throws.
Allowed == {m \in Msgs : Reinsert \/ (m # d_tail /\ \A p \in Producers : arg[p] # m)}

\* insert_tail looks at the message before it takes the mutex.
InsertCall(p, m) ==
  /\ pc[p] = "idle"
  /\ Len(inserted) + Cardinality({q \in Producers : pc[q] # "idle"}) < MaxInserts
  /\ m \in Allowed
  /\ \/ d_next[m] # Null /\ UNCHANGED <<pc, arg>>      \* throws invalid_argument
     \/ /\ d_next[m] = Null
        /\ pc' = [pc EXCEPT ![p] = "insert"]
        /\ arg' = [arg EXCEPT ![p] = m]
  /\ UNCHANGED <<queueVars, inserted, removed>>

InsertFull(p) ==
  /\ pc[p] = "insert"
  /\ full_p
  /\ pc' = [pc EXCEPT ![p] = "wait_not_full"]
  /\ UNCHANGED <<queueVars, arg, inserted, removed>>

insert_tail(p) ==
  /\ pc[p] = "insert"
  /\ ~full_p
  /\ LET m == arg[p]
     IN /\ IF d_tail = Null
           THEN d_head' = m /\ d_next' = [d_next EXCEPT ![m] = Null]
           ELSE d_next' = [d_next EXCEPT ![d_tail] = m, ![m] = Null] /\ UNCHANGED d_head
        /\ d_tail' = m
        /\ inserted' = Append(inserted, m)
  /\ d_count' = d_count + 1
  /\ arg' = [arg EXCEPT ![p] = Null]
  /\ NotifyOne(p, "idle", "wait_not_empty", "delete")
  /\ UNCHANGED removed

-----------------------------------------------------------------------------
\* Mutants of TakeHead: d_tail keeps pointing at the message removed last;
\* d_not_full is not notified.
TakeHead_stale_tail(c, label) ==
  /\ d_head # Null
  /\ d_head' = d_next[d_head]
  /\ d_next' = [d_next EXCEPT ![d_head] = Null]
  /\ d_count' = d_count - 1
  /\ removed' = Append(removed, d_head)
  /\ NotifyOne(c, label, "wait_not_full", "insert")
  /\ UNCHANGED <<d_tail, arg, inserted>>

TakeHead_silent(c, label) ==
  /\ d_head # Null
  /\ d_head' = d_next[d_head]
  /\ d_tail' = IF d_next[d_head] = Null THEN Null ELSE d_tail
  /\ d_next' = [d_next EXCEPT ![d_head] = Null]
  /\ d_count' = d_count - 1
  /\ removed' = Append(removed, d_head)
  /\ pc' = [pc EXCEPT ![c] = label]
  /\ UNCHANGED <<arg, inserted>>

\* The body delete_head and delete_head_nowait share once there is a head.
TakeHead(c, label) ==
  /\ d_head # Null
  /\ d_head' = d_next[d_head]
  /\ d_tail' = IF d_next[d_head] = Null THEN Null ELSE d_tail
  /\ d_next' = [d_next EXCEPT ![d_head] = Null]
  /\ d_count' = d_count - 1
  /\ removed' = Append(removed, d_head)
  /\ NotifyOne(c, label, "wait_not_full", "insert")
  /\ UNCHANGED <<arg, inserted>>

DeleteCall(c) ==
  /\ pc[c] = "idle"
  /\ \E call \in {"delete", "flush"} : pc' = [pc EXCEPT ![c] = call]
  /\ UNCHANGED <<queueVars, arg, inserted, removed>>

DeleteEmpty(c) ==
  /\ pc[c] = "delete"
  /\ d_head = Null
  /\ pc' = [pc EXCEPT ![c] = "wait_not_empty"]
  /\ UNCHANGED <<queueVars, arg, inserted, removed>>

delete_head(c) == pc[c] = "delete" /\ TakeHead(c, "idle")

\* One call of delete_head_nowait, and flush(), which repeats it until the
\* queue is empty.
delete_head_nowait(c) == pc[c] = "idle" /\ TakeHead(c, "idle")

flush(c) ==
  /\ pc[c] = "flush"
  /\ \/ TakeHead(c, "flush")
     \/ /\ d_head = Null
        /\ pc' = [pc EXCEPT ![c] = "idle"]
        /\ UNCHANGED <<queueVars, arg, inserted, removed>>

SpuriousWakeup(t) ==
  /\ \/ pc[t] = "wait_not_full" /\ pc' = [pc EXCEPT ![t] = "insert"]
     \/ pc[t] = "wait_not_empty" /\ pc' = [pc EXCEPT ![t] = "delete"]
  /\ UNCHANGED <<queueVars, arg, inserted, removed>>

-----------------------------------------------------------------------------
Insert(p) == InsertFull(p) \/ insert_tail(p)
Delete(c) == DeleteEmpty(c) \/ delete_head(c) \/ flush(c)

Next ==
  \/ \E p \in Producers : Insert(p) \/ \E m \in Msgs : InsertCall(p, m)
  \/ \E c \in Consumers : Delete(c) \/ DeleteCall(c) \/ delete_head_nowait(c)
  \/ \E t \in Threads : SpuriousWakeup(t)

\* A thread inside a call keeps running, and consumers keep calling.
Fairness ==
  /\ \A p \in Producers : WF_vars(Insert(p))
  /\ \A c \in Consumers : WF_vars(Delete(c)) /\ WF_vars(DeleteCall(c))

Spec == Init /\ [][Next]_vars /\ Fairness

-----------------------------------------------------------------------------
(* Properties. *)

\* Every variable keeps its type.
TypeOK ==
  /\ d_head \in Msgs \union {Null} /\ d_tail \in Msgs \union {Null}
  /\ d_count \in Nat
  /\ d_next \in [Msgs -> Msgs \union {Null}]
  /\ pc \in [Threads -> {"idle", "insert", "wait_not_full", "delete", "flush",
                         "wait_not_empty"}]
  /\ arg \in [Producers -> Msgs \union {Null}]
  /\ inserted \in Seq(Msgs) /\ removed \in Seq(Msgs)

\* What should be in the queue: inserted and not yet removed, in order.
Pending == SubSeq(inserted, Len(removed) + 1, Len(inserted))

\* The list threaded through d_next from d_head to d_tail is exactly the
\* messages inserted and not yet removed, in order, and d_count is their number.
QueueIsList ==
  /\ SubSeq(inserted, 1, Len(removed)) = removed
  /\ d_count = Len(Pending)
  /\ IF Pending = <<>> THEN d_head = Null /\ d_tail = Null
     ELSE /\ d_head = Pending[1] /\ d_tail = Pending[Len(Pending)]
          /\ \A i \in 1 .. Len(Pending) :
               d_next[Pending[i]] = IF i = Len(Pending) THEN Null ELSE Pending[i + 1]

\* The queue never holds more than d_limit messages.
Bounded == d_limit # 0 => d_count <= d_limit

\* One notify_one per message is enough: while a consumer sleeps there are no
\* more messages than consumers awake to take them, and while a producer
\* sleeps there is no more room than producers awake to fill it, although
\* other threads may take a message between the notification and the wakeup.
NoLostNotify ==
  /\ (\E c \in Consumers : pc[c] = "wait_not_empty") =>
       d_count <= Cardinality({c \in Consumers : pc[c] = "delete"})
  /\ (\E p \in Producers : pc[p] = "wait_not_full") =>
       d_limit - d_count <= Cardinality({p \in Producers : pc[p] = "insert"})

\* While a producer is inside insert_tail, blocked on a full queue or not, and
\* consumers keep calling, some insertion completes: the producers never all
\* sleep on d_not_full beside room in the queue.  Nothing better holds of one
\* producer: between its notification and its turn at the mutex another one may
\* take the room, again and again if there is no end of them.
InsertsProgress ==
  \A k \in 0 .. MaxInserts :
    (Len(inserted) = k /\ \E p \in Producers : pc[p] # "idle") ~> Len(inserted) > k

-----------------------------------------------------------------------------
(* The inductive invariant behind the properties, in named parts. *)

\* Producers and consumers stay in their own calls, and a producer has a
\* message exactly while it is inserting one.
CallInv ==
  /\ \A p \in Producers : pc[p] \in {"idle", "insert", "wait_not_full"}
  /\ \A c \in Consumers : pc[c] \in {"idle", "delete", "flush", "wait_not_empty"}
  /\ \A p \in Producers : arg[p] # Null <=> pc[p] \in {"insert", "wait_not_full"}

\* QueueIsList, by position in the history.
ListInv ==
  LET r == Len(removed)
      n == Len(inserted)
  IN /\ r <= n /\ d_count = n - r
     /\ \A i \in 1 .. r : removed[i] = inserted[i]
     /\ IF r = n THEN d_head = Null /\ d_tail = Null
        ELSE d_head = inserted[r + 1] /\ d_tail = inserted[n]
     /\ \A i \in r + 1 .. n : d_next[inserted[i]] = IF i = n THEN Null ELSE inserted[i + 1]

\* No message is at two places: twice in the queue, in the queue and in the
\* hands of a producer, or in the hands of two producers.
DistinctInv ==
  LET Queued == Len(removed) + 1 .. Len(inserted)
  IN /\ \A i, j \in Queued : inserted[i] = inserted[j] => i = j
     /\ \A i \in Queued, p \in Producers : arg[p] # inserted[i]
     /\ \A p, q \in Producers : p # q /\ arg[p] = arg[q] => arg[p] = Null

\* As long as no message is reinserted, this invariant is inductive.
QueueInv == TypeOK /\ CallInv /\ ListInv /\ DistinctInv
=============================================================================
