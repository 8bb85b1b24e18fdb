------------------------------- MODULE GrFifo -------------------------------
(***************************************************************************)
(* What a gr_buffer promises to the blocks around it: one bounded FIFO     *)
(* queue per attached reader.  Producing appends the same new items to all *)
(* of them at once, and never beyond their capacity; consuming removes     *)
(* items from the head of one.  A reader that joins starts with its        *)
(* history: the last items of the stream, zeros where there were none.     *)
(***************************************************************************)
EXTENDS Integers, Sequences

CONSTANTS Readers, InitReaders, Capacity, Preload

VARIABLES written, readers, queue

fifoVars == <<written, readers, queue>>

\* Positions n - k .. n - 1 of the stream: items are numbered from 1, and what
\* precedes the first of them is zeros.
LastItems(n, k) ==
  [i \in 1 .. k |-> IF n - k + i <= 0 THEN 0 ELSE n - k + i]

FifoInit ==
  /\ written = 0
  /\ readers = InitReaders
  /\ queue = [r \in Readers |-> IF r \in InitReaders THEN LastItems(0, Preload[r]) ELSE <<>>]

Produce(k) ==
  /\ \A r \in readers : Len(queue[r]) + k <= Capacity
  /\ written' = written + k
  /\ queue' = [r \in Readers |->
       IF r \in readers THEN queue[r] \o LastItems(written + k, k) ELSE queue[r]]
  /\ UNCHANGED readers

Consume(r, k) ==
  /\ r \in readers /\ k <= Len(queue[r])
  /\ queue' = [queue EXCEPT ![r] = SubSeq(@, k + 1, Len(@))]
  /\ UNCHANGED <<written, readers>>

Join(r) ==
  /\ r \notin readers
  /\ readers' = readers \union {r}
  /\ queue' = [queue EXCEPT ![r] = LastItems(written, Preload[r])]
  /\ UNCHANGED written

Leave(r) ==
  /\ r \in readers
  /\ readers' = readers \ {r}
  /\ queue' = [queue EXCEPT ![r] = <<>>]
  /\ UNCHANGED written

FifoNext ==
  \/ \E k \in 1 .. Capacity : Produce(k)
  \/ \E r \in Readers :
       \/ \E k \in 1 .. Capacity : Consume(r, k)
       \/ Join(r)
       \/ Leave(r)

FifoSpec == FifoInit /\ [][FifoNext]_fifoVars
=============================================================================
