------------------------------ MODULE GrBuffer ------------------------------
(***************************************************************************)
(* gr_buffer / gr_buffer_reader: the circular buffer that joins one        *)
(* writing block to the blocks that read its output port, used by threads  *)
(* the way gr_block_executor::run_one_iteration uses it.  The buffer mutex *)
(* is held only while indices and tags are inspected or changed: the       *)
(* writer fills the space it was told about, and a reader reads the items  *)
(* it was told about, after the mutex has been released.                   *)
(*                                                                         *)
(* Items are numbered from 1 in the order they are produced; 0 is the      *)
(* content of the freshly mapped memory.  A tag is identified by its item  *)
(* offset, the only part of it the buffer looks at.                        *)
(***************************************************************************)
EXTENDS Integers, FiniteSets, Sequences

CONSTANTS
  Readers,         \* buffer readers that may be attached to the buffer
  InitReaders,     \* the ones attached before the first item is written
  BufSize,         \* d_bufsize, in items
  Preload,         \* nzero_preload of each reader: history() - 1 of its block
  OutputMultiple,  \* output_multiple() of the writing block
  MaxItems,        \* bound: items the writer produces
  TagOffsets,      \* bound: item offsets at which a tag may be attached
  KeepsHistory,    \* readers leave their history in the buffer (gr_sync_block)
  CallsProduce,    \* the writer calls produce() inside general_work
  Reconfigure      \* readers may come and go (lock() ... unlock())

Half == BufSize \div 2

ASSUME BufSizeAssumption == BufSize \in Nat /\ BufSize >= 2
ASSUME ReadersAssumption == InitReaders \subseteq Readers /\ IsFiniteSet(Readers)
ASSUME PreloadAssumption ==
  Preload \in [Readers -> Nat] /\ \A r \in Readers : Preload[r] <= Half
ASSUME MultipleAssumption == OutputMultiple \in Nat /\ OutputMultiple >= 1
ASSUME BoundsAssumption == MaxItems \in Nat /\ TagOffsets \subseteq Nat
ASSUME SwitchAssumption ==
  KeepsHistory \in BOOLEAN /\ CallsProduce \in BOOLEAN /\ Reconfigure \in BOOLEAN

VARIABLES
  store,                  \* the memory d_base points to, one cell per item
  d_write_index, d_abs_write_offset,
  d_readers,              \* readers attached
  d_read_index, d_abs_read_offset,
  base,                   \* stream position at which a reader was attached
  d_item_tags, d_last_min_items_read,
  wpc, noutput_items, nfilled,      \* the writing thread, in run_one_iteration
  rpc, ninput_items, start_nitems_read, \* the reading threads, likewise
  added, received         \* history: tags added, tags handed to each reader

writerVars == <<wpc, noutput_items, nfilled>>
readerVars == <<rpc, ninput_items, start_nitems_read>>
tagVars    == <<d_item_tags, d_last_min_items_read, added, received>>
indexVars  == <<d_write_index, d_abs_write_offset, d_readers, d_read_index,
                d_abs_read_offset, base>>
vars == <<store, indexVars, tagVars, writerVars, readerVars>>

-----------------------------------------------------------------------------
(* Index arithmetic. *)

index_add(a, b) == LET s == a + b IN IF s >= BufSize THEN s - BufSize ELSE s

index_sub(a, b) == LET s == a - b IN IF s < 0 THEN s + BufSize ELSE s

round_down(n, multiple) == IF n < multiple THEN 0 ELSE n - (n % multiple)

MinOf(a, b) == IF a <= b THEN a ELSE b

\* What the memory should hold at position a of the stream.
Item(a) == IF a < 0 THEN 0 ELSE a + 1

items_available(r) == index_sub(d_write_index, d_read_index[r])

\* Mutants of space_available: no cell is kept free to tell full from empty;
\* the fastest reader is asked in place of the slowest.
space_available_all(n) ==
  IF d_readers = {} THEN n = BufSize
  ELSE /\ \E r \in d_readers : n = BufSize - items_available(r)
       /\ \A r \in d_readers : n <= BufSize - items_available(r)

space_available_fastest(n) ==
  IF d_readers = {} THEN n = BufSize - 1
  ELSE /\ \E r \in d_readers : n = BufSize - items_available(r) - 1
       /\ \A r \in d_readers : n >= BufSize - items_available(r) - 1

\* Number of free items, as the least any attached reader leaves free.
space_available(n) ==
  IF d_readers = {} THEN n = BufSize - 1
  ELSE /\ \E r \in d_readers : n = BufSize - items_available(r) - 1
       /\ \A r \in d_readers : n <= BufSize - items_available(r) - 1

IsMinItemsRead(m) ==
  /\ \E r \in d_readers : m = d_abs_read_offset[r]
  /\ \A r \in d_readers : m <= d_abs_read_offset[r]

\* Mutant of prune_tags: the tag at the limit itself goes too.
prune_tags_inclusive(max_time) == {t \in d_item_tags : t > max_time}

prune_tags(max_time) == {t \in d_item_tags : t >= max_time}

-----------------------------------------------------------------------------
Init ==
  /\ store = [i \in 0 .. BufSize - 1 |-> 0]
  /\ d_write_index = 0 /\ d_abs_write_offset = 0
  /\ d_readers = InitReaders
  /\ d_read_index = [r \in Readers |-> index_sub(0, Preload[r])]
  /\ d_abs_read_offset = [r \in Readers |-> 0]
  /\ base = [r \in Readers |-> 0 - Preload[r]]
  /\ d_item_tags = {} /\ d_last_min_items_read = 0
  /\ wpc = "idle" /\ noutput_items = 0 /\ nfilled = 0
  /\ rpc = [r \in Readers |-> "idle"]
  /\ ninput_items = [r \in Readers |-> 0]
  /\ start_nitems_read = [r \in Readers |-> 0]
  /\ added = {}
  /\ received = [r \in Readers |-> [t \in TagOffsets |-> 0]]

-----------------------------------------------------------------------------
(* The writing block's thread. *)

\* min_available_space: under the mutex, the space is computed and tags that
\* every reader had passed at the previous change of the minimum are pruned.
SpaceAvailable ==
  /\ wpc = "idle"
  /\ \E n \in 0 .. BufSize - 1 :
       LET nout == round_down(MinOf(n, Half), OutputMultiple)
       IN /\ space_available(n)
          /\ noutput_items' = nout
          /\ wpc' = IF nout = 0 THEN "idle" ELSE "work"
  /\ nfilled' = 0
  /\ \/ /\ d_readers = {}
        /\ UNCHANGED <<d_item_tags, d_last_min_items_read>>
     \/ \E r \in d_readers :
          LET m == d_abs_read_offset[r]
          IN /\ IsMinItemsRead(m)
             /\ d_item_tags' = IF m # d_last_min_items_read
                               THEN prune_tags(d_last_min_items_read)
                               ELSE d_item_tags
             /\ d_last_min_items_read' = m
  /\ UNCHANGED <<store, indexVars, added, received, readerVars>>

\* general_work stores one more item through its output pointer.
WriteItem ==
  /\ wpc = "work"
  /\ nfilled < noutput_items
  /\ d_abs_write_offset + nfilled < MaxItems
  /\ store' = [store EXCEPT ![index_add(d_write_index, nfilled)]
                              = Item(d_abs_write_offset + nfilled)]
  /\ nfilled' = nfilled + 1
  /\ UNCHANGED <<indexVars, tagVars, wpc, noutput_items, readerVars>>

\* The offsets a tag may carry: the items of this call of general_work, which
\* are still to be published, or have been if the block called produce().
TagWindow ==
  IF wpc = "work"
  THEN IF CallsProduce THEN {} ELSE d_abs_write_offset .. d_abs_write_offset + noutput_items - 1
  ELSE d_abs_write_offset - noutput_items .. d_abs_write_offset - 1

\* general_work or propagate_tags attaches a tag.
add_item_tag(t) ==
  /\ wpc \in {"work", "produced"}
  /\ t \in TagWindow
  /\ t \notin added
  /\ d_item_tags' = d_item_tags \union {t}
  /\ added' = added \union {t}
  /\ UNCHANGED <<store, indexVars, d_last_min_items_read, received,
                 writerVars, readerVars>>

\* Mutant of update_write_pointer: what was asked for is published, stored or not.
update_write_pointer_unfilled(nitems) ==
  /\ wpc = "work"
  /\ nitems <= noutput_items
  /\ d_write_index' = index_add(d_write_index, nitems)
  /\ d_abs_write_offset' = d_abs_write_offset + nitems
  /\ noutput_items' = IF CallsProduce THEN nitems ELSE 0
  /\ nfilled' = 0
  /\ wpc' = IF CallsProduce THEN "produced" ELSE "idle"
  /\ UNCHANGED <<store, d_readers, d_read_index, d_abs_read_offset, base,
                 tagVars, readerVars>>

\* produce(), or produce_each() with what general_work returned.
update_write_pointer(nitems) ==
  /\ wpc = "work"
  /\ nitems <= nfilled
  /\ ~CallsProduce => \A t \in added : t < d_abs_write_offset + nitems
  /\ d_write_index' = index_add(d_write_index, nitems)
  /\ d_abs_write_offset' = d_abs_write_offset + nitems
  /\ noutput_items' = IF CallsProduce THEN nitems ELSE 0
  /\ nfilled' = 0
  /\ wpc' = IF CallsProduce THEN "produced" ELSE "idle"
  /\ UNCHANGED <<store, d_readers, d_read_index, d_abs_read_offset, base,
                 tagVars, readerVars>>

\* propagate_tags has returned after a general_work that called produce().
PropagateDone ==
  /\ wpc = "produced"
  /\ wpc' = "idle"
  /\ noutput_items' = 0
  /\ UNCHANGED <<store, indexVars, tagVars, nfilled, readerVars>>

-----------------------------------------------------------------------------
(* The thread of the block that reads through r. *)

ItemsAvailable(r) ==
  /\ r \in d_readers /\ rpc[r] = "idle"
  /\ ninput_items' = [ninput_items EXCEPT ![r] = items_available(r)]
  /\ start_nitems_read' = [start_nitems_read EXCEPT ![r] = d_abs_read_offset[r]]
  /\ rpc' = [rpc EXCEPT ![r] = "work"]
  /\ UNCHANGED <<store, indexVars, tagVars, writerVars>>

\* general_work has used its input; consume() moves the read pointer.
update_read_pointer(r, nitems) ==
  /\ rpc[r] = "work"
  /\ nitems <= ninput_items[r]
  /\ KeepsHistory => nitems = 0 \/ nitems <= ninput_items[r] - Preload[r]
  /\ d_read_index' = [d_read_index EXCEPT ![r] = index_add(@, nitems)]
  /\ d_abs_read_offset' = [d_abs_read_offset EXCEPT ![r] = @ + nitems]
  /\ rpc' = [rpc EXCEPT ![r] = "consumed"]
  /\ ninput_items' = [ninput_items EXCEPT ![r] = 0]
  /\ UNCHANGED <<store, d_write_index, d_abs_write_offset, d_readers, base,
                 tagVars, writerVars, start_nitems_read>>

\* propagate_tags fetches the tags of the items just consumed.
get_tags_in_range(r) ==
  /\ rpc[r] = "consumed"
  /\ LET found == {t \in d_item_tags : t >= start_nitems_read[r]
                                        /\ t < d_abs_read_offset[r]}
     IN received' = [received EXCEPT ![r] =
          [t \in TagOffsets |-> IF t \in found THEN @[t] + 1 ELSE @[t]]]
  /\ rpc' = [rpc EXCEPT ![r] = "idle"]
  /\ start_nitems_read' = [start_nitems_read EXCEPT ![r] = 0]
  /\ UNCHANGED <<store, indexVars, d_item_tags, d_last_min_items_read, added,
                 writerVars, ninput_items>>

-----------------------------------------------------------------------------
(* Reconfiguration, which merge_connections does while no thread runs. *)

Quiescent == wpc = "idle" /\ \A r \in d_readers : rpc[r] = "idle"

\* Mutant of gr_buffer_add_reader: the new reader starts at the beginning of
\* the memory in place of behind the write index.
gr_buffer_add_reader_at_zero(r) ==
  /\ Reconfigure /\ Quiescent
  /\ r \notin d_readers
  /\ d_readers' = d_readers \union {r}
  /\ d_read_index' = [d_read_index EXCEPT ![r] = index_sub(0, Preload[r])]
  /\ d_abs_read_offset' = [d_abs_read_offset EXCEPT ![r] = 0]
  /\ base' = [base EXCEPT ![r] = d_abs_write_offset - Preload[r]]
  /\ UNCHANGED <<store, d_write_index, d_abs_write_offset, tagVars, writerVars,
                 readerVars>>

gr_buffer_add_reader(r) ==
  /\ Reconfigure /\ Quiescent
  /\ r \notin d_readers
  /\ d_readers' = d_readers \union {r}
  /\ d_read_index' = [d_read_index EXCEPT ![r] = index_sub(d_write_index, Preload[r])]
  /\ d_abs_read_offset' = [d_abs_read_offset EXCEPT ![r] = 0]
  /\ base' = [base EXCEPT ![r] = d_abs_write_offset - Preload[r]]
  /\ UNCHANGED <<store, d_write_index, d_abs_write_offset, tagVars, writerVars,
                 readerVars>>

drop_reader(r) ==
  /\ Reconfigure /\ Quiescent
  /\ r \in d_readers
  /\ d_readers' = d_readers \ {r}
  /\ d_read_index' = [d_read_index EXCEPT ![r] = 0]
  /\ d_abs_read_offset' = [d_abs_read_offset EXCEPT ![r] = 0]
  /\ base' = [base EXCEPT ![r] = 0]
  /\ UNCHANGED <<store, d_write_index, d_abs_write_offset, tagVars, writerVars,
                 readerVars>>

-----------------------------------------------------------------------------
Next ==
  \/ SpaceAvailable
  \/ WriteItem
  \/ \E t \in TagOffsets : add_item_tag(t)
  \/ \E nitems \in 0 .. Half : update_write_pointer(nitems)
  \/ PropagateDone
  \/ \E r \in Readers :
       \/ ItemsAvailable(r)
       \/ \E nitems \in 0 .. BufSize - 1 : update_read_pointer(r, nitems)
       \/ get_tags_in_range(r)
       \/ gr_buffer_add_reader(r)
       \/ drop_reader(r)

Spec == Init /\ [][Next]_vars

-----------------------------------------------------------------------------
(* Properties. *)

\* Every index is inside the buffer and every counter is a natural number.
TypeOK ==
  /\ store \in [0 .. BufSize - 1 -> Nat]
  /\ d_write_index \in 0 .. BufSize - 1
  /\ d_abs_write_offset \in Nat
  /\ d_readers \subseteq Readers
  /\ d_read_index \in [Readers -> 0 .. BufSize - 1]
  /\ d_abs_read_offset \in [Readers -> Nat]
  /\ base \in [Readers -> Int]
  /\ d_item_tags \subseteq TagOffsets
  /\ d_last_min_items_read \in Nat
  /\ wpc \in {"idle", "work", "produced"}
  /\ noutput_items \in 0 .. Half
  /\ nfilled \in 0 .. Half
  /\ rpc \in [Readers -> {"idle", "work", "consumed"}]
  /\ ninput_items \in [Readers -> 0 .. BufSize - 1]
  /\ start_nitems_read \in [Readers -> Nat]
  /\ added \subseteq TagOffsets
  /\ received \in [Readers -> [TagOffsets -> Nat]]

\* The cells general_work of the writer may store into, and those general_work
\* of a reader may load from, once the mutex has been released.
WriteWindow ==
  IF wpc = "work" THEN {index_add(d_write_index, i) : i \in 0 .. noutput_items - 1} ELSE {}
ReadWindow(r) ==
  IF rpc[r] = "work" THEN {index_add(d_read_index[r], i) : i \in 0 .. ninput_items[r] - 1}
  ELSE {}

\* A writer and a reader that work at the same time, each with a window it
\* learnt before releasing the mutex, never touch the same cell, however the
\* pointers moved in between (space_available, items_available).
NoDataRace ==
  \A r \in d_readers : WriteWindow \cap ReadWindow(r) = {}

\* general_work of a reader sees the items of the stream, in order, with no
\* item skipped, repeated or overwritten, starting where it was attached.
ReadsInOrder ==
  \A r \in d_readers : rpc[r] = "work" =>
    \A i \in 0 .. ninput_items[r] - 1 :
      store[index_add(d_read_index[r], i)] = Item(base[r] + d_abs_read_offset[r] + i)

\* The queue of each reader: what lies between its index and the write index.
Queues ==
  [r \in Readers |->
     IF r \in d_readers
     THEN [i \in 1 .. items_available(r) |-> store[index_add(d_read_index[r], i - 1)]]
     ELSE <<>>]

\* The buffer implements one FIFO queue per attached reader.
Fifo == INSTANCE GrFifo WITH
  Capacity <- BufSize - 1, written <- d_abs_write_offset, readers <- d_readers,
  queue <- Queues

\* Seen through that mapping, filling the space the writer was told about
\* changes no queue, publishing it appends to all of them at once, and no call
\* does anything else.
ImplementsFifo == Fifo!FifoSpec

\* Offset up to which the block of r has asked for tags.
TagsFetched(r) ==
  IF rpc[r] = "consumed" THEN start_nitems_read[r] ELSE d_abs_read_offset[r]

\* propagate_tags hands each tag to each reader exactly once, in the call of
\* general_work that consumes the item at its offset: prune_tags, run by the
\* writer in between, never removes a tag some reader has yet to ask for.
TagsDelivered ==
  \A r \in d_readers : \A t \in TagOffsets :
    received[r][t] = IF t \in added /\ t < TagsFetched(r) THEN 1 ELSE 0

-----------------------------------------------------------------------------
(* The inductive invariant behind NoDataRace and ReadsInOrder. *)

\* The cell at distance d from the write index, before it or after it.
Cell(d) == LET s == d_write_index + d
           IN IF s >= BufSize THEN s - BufSize ELSE IF s < 0 THEN s + BufSize ELSE s

\* The indices and the absolute offsets tell the same story.
OffsetsAgree ==
  \A r \in d_readers :
    items_available(r) = d_abs_write_offset - (base[r] + d_abs_read_offset[r])

\* What a thread learnt under the mutex is still conservative after it.
SnapshotsConservative ==
  /\ wpc = "work" => /\ nfilled <= noutput_items
                     /\ \A r \in d_readers :
                          noutput_items <= BufSize - items_available(r) - 1
  /\ wpc # "work" => nfilled = 0
  /\ \A r \in d_readers : rpc[r] = "work" => ninput_items[r] <= items_available(r)
  /\ \A r \in Readers \ d_readers : rpc[r] = "idle"

\* The cells behind the write index that some reader, or the history of a
\* reader yet to be attached, still needs.
Needed(d) == d >= 0 - Half \/ \E r \in d_readers : d >= 0 - items_available(r)

\* The needed cells, and those general_work has filled, hold the stream.
StreamIntact ==
  \A d \in 1 - BufSize .. nfilled - 1 :
    d >= 0 \/ Needed(d) => store[Cell(d)] = Item(d_abs_write_offset + d)

BufferInv == TypeOK /\ OffsetsAgree /\ SnapshotsConservative /\ StreamIntact

-----------------------------------------------------------------------------
(* The inductive invariant behind TagsDelivered, which holds of one reader *)
(* that is attached for good and leaves its history in the buffer, fed by  *)
(* a block that does not call produce() itself.                            *)

SingleReader ==
  /\ \E r \in Readers : Readers = {r}
  /\ InitReaders = Readers /\ KeepsHistory /\ ~CallsProduce /\ ~Reconfigure

\* Tags are attached to items not published before the call of general_work
\* that attaches them, and the reader does not read ahead of the writer.
TagsAhead ==
  /\ d_item_tags \subseteq added
  /\ \A t \in added : t < d_abs_write_offset + noutput_items
  /\ wpc # "work" => noutput_items = 0
  /\ \A r \in d_readers : d_abs_read_offset[r] <= d_abs_write_offset

\* Where a reader started its call, and where the last prune stopped: a prune
\* that could reach the tags of the call comes one change of the minimum late.
PruneBehind ==
  \A r \in d_readers :
    /\ rpc[r] = "work" => start_nitems_read[r] = d_abs_read_offset[r]
    /\ rpc[r] = "consumed" => start_nitems_read[r] <= d_abs_read_offset[r]
    /\ d_last_min_items_read <= TagsFetched(r) \/ d_last_min_items_read = d_abs_read_offset[r]

\* No tag is gone before its reader has asked for it.
TagsKept ==
  \A r \in d_readers : \A t \in added : t >= TagsFetched(r) => t \in d_item_tags

TagInv ==
  /\ d_readers = Readers /\ base = [r \in Readers |-> 0 - Preload[r]]
  /\ TagsAhead /\ PruneBehind /\ TagsKept /\ TagsDelivered
=============================================================================
