# A TLA+ verification of the GNU Radio runtime

GNU Radio runs a *flowgraph*: blocks that process streams of samples, joined by
circular buffers, each block in a thread of its own.  This directory models the
part of the repository that makes that work, `gnuradio-core/src/lib/runtime`,
with the threads of `gruel` underneath, and the host side of a USRP2, which
brings samples into a flowgraph: TLA+ modules translated from the code, TLC
configurations that check them on small instances, and proofs, checked by
TLAPS, of every safety property the runs check, for every instance: the buffer,
the scheduler, the message queue, the top block, the flattening, sorting and
reconfiguration of flowgraphs, and the USRP2 host.

`PROJECT.json` gives, for every definition, the source lines it stands for
(`map`), the runs, the mutants each property was tried on, the findings, the
hazards of the code and the theorems.

## 1. The system and its parts

| Part | State | Operations | Talks to |
|---|---|---|---|
| `gr_buffer`, `gr_buffer_reader` | write index, read index per reader, absolute offsets, tags, done flag, a mutex | `space_available`, `update_write_pointer`, `items_available`, `update_read_pointer`, `add_item_tag`, `prune_tags`, `get_tags_in_range`, add and drop reader | called by block executors, one writer and several readers, each in its thread |
| `gr_block_executor`, `gr_block_detail` | copies of `items_available` and `done`, the block's done flag | `run_one_iteration`: inspect buffers, decide, `general_work`, `consume_each`, `produce_each`, `set_done`, `propagate_tags` | buffers; the block's `work()` |
| `gr_tpb_thread_body`, `gr_tpb_detail` | `input_changed`, `output_changed`, two condition variables, a message queue, a mutex | thread loop, `clear_changed`, `notify_upstream`, `notify_downstream`, `insert_tail`, waiting | neighbours' details; posters of messages |
| `gr_scheduler_tpb`, `gruel::thread_group` | the threads | create, `stop` (interrupt), `wait` (join) | top block |
| `gr_top_block_impl` | `d_state`, `d_lock_count`, the scheduler, a mutex | `start`, `stop`, `wait`, `lock`, `unlock`, `restart` | application threads |
| `gr_msg_queue` | intrusive list, count, limit, two condition variables | `insert_tail`, `delete_head`, `delete_head_nowait`, `flush` | blocks and application threads |
| `gr_hier_block2_detail` | edges, singleton blocks, endpoints behind each port, the parent, per hierarchical block | connect, disconnect, `disconnect_all`, flatten, `lock`, `unlock` | top block, application |
| `gr_flowgraph` | edges | checks of `connect`, `validate`, `topological_sort`, `partition` | flattening, schedulers |
| `gr_flat_flowgraph` | details, buffers and readers of the blocks in use | `setup_connections`, `merge_connections` | top block |
| single-threaded scheduler | round-robin position, progress flags | `main_loop` | buffers |
| gruel message queue, pmt pool | bounded monitors | insert, delete, malloc, free | any thread |
| `usrp2::impl`, `eth_buffer`, `ring`, `pending_reply` | frames shared with the kernel, ring of a channel, count of queued frames, table of pending replies | `bg_loop` with its packet handlers, commands with time limits, start and stop of streaming, `rx_samples`, destructor | kernel, device, application thread |
| USRP2 firmware | double buffers | buffer state machine | hardware |
| gcell | job descriptors, queues | submit, wait, free | SPE threads |

What is hard here, and what the properties are for: the buffer mutex is held
only while indices are read or moved, and samples are accessed outside it; a
thread decides to sleep on what it saw earlier; the done flag of a buffer is
shared by everybody who uses it; tags are removed by one thread and fetched by
others; `wait()` and `stop()` do not take the mutex that protects
reconfiguration; `stop()` interrupts threads wherever they are; a restart keeps
the details and readers of the flowgraph before it; calls that throw keep what
they had changed; a reply races the time limit of the call that waits for it,
and frames lent to the application race the kernel that fills them.  The list with
line numbers is under `hazards` in `PROJECT.json`.

## 2. Modules

| Module | Models | Extends or uses |
|---|---|---|
| `GrFifo` | what a buffer promises: one bounded FIFO per reader | - |
| `GrBuffer` | the circular buffer at the level of indices and cells | instantiates `GrFifo` |
| `GrBufferProofs` | theorems: types, no data race, stream in order, tags reach a single reader, the buffer implements `GrFifo` | extends `GrBuffer` |
| `GrTpb` | thread loop, executor, notifications, messages, interruption | - |
| `GrTpbProofs` | theorems: types, promises of `run_one_iteration`, messages | extends `GrTpb` |
| `GrTpbWakeProofs` | theorems: no lost wakeup, why a block ends | extends `GrTpbProofs` |
| `GrTopBlock` | life cycle and reconfiguration, called by several threads | assumes of a scheduler what `GrTpb` shows |
| `GrTopBlockProofs` | theorems about the life cycle with one owner | extends `GrTopBlock` |
| `GrMsgQueue` | the bounded message queue | - |
| `GrMsgQueueProofs` | theorems: list, bound, no lost notification | extends `GrMsgQueue` |
| `GrFlowgraph` | the algorithms on edges | - |
| `GrHierBlock2` | hierarchical wiring and its flattening | extends `GrFlowgraph` |
| `GrFlatFlowgraph` | start and restart of a wired hierarchy | extends `GrHierBlock2` |
| `GrFlowgraphProofs` | theorems: what `topological_sort` and `partition` return for any edges | extends `GrFlowgraph` |
| `GrFlatFlowgraphProofs` | theorems: flattening, order, details, buffers and readers over restarts | extends `GrFlatFlowgraph` and `GrFlowgraphProofs` |
| `Usrp2` | the host side of a USRP2 | - |
| `Usrp2Proofs` | theorems: frames, count, order, replies | extends `Usrp2` |
| `MCGrBuffer`, `MCGrTpb`, `MCGrTopBlock`, `MCGrMsgQueue`, `MCGrFlatFlowgraph`, `MCUsrp2` | instances for TLC | the module they are named after |

Definitions keep the names of the source.  Names with a suffix after an
operation (`space_available_fastest`, `post_wakes_input_only`, ...) are mutants:
the operation with a plausible mistake in it, used only to see that the property
listed with it in `PROJECT.json` would notice.

### GrBuffer

One writing thread and any number of reading threads.  `wpc` and `rpc` say where
each is in `run_one_iteration`: `idle`, then `work` with the amount it was told
under the mutex (`noutput_items`, `ninput_items`), then `consumed` or `produced`
until tags have been propagated.  `WriteItem` stores one item at a time outside
the mutex, so that stores interleave with every other step.  `SpaceAvailable`
is the whole of `min_available_space` for one output: the pruning of tags that
`space_available` does is part of it.  Items are numbered in the order they are
produced, so that the contents of `store` show what was overwritten, and `base`
remembers where in the stream a reader was attached.  Tags are reduced to their
offset.  `gr_buffer_add_reader` and `drop_reader` happen while no thread runs
(`Quiescent`), as `restart()` arranges.

Assumed of the constants: a buffer of at least two items, and a history of at
most half the buffer.  `allocate_buffer` sizes a buffer for the blocks it is
created for; a block attached later by `merge_connections` may break the second
assumption, which is on the list of hazards.

### GrTpb

One thread per block of a graph given by `Ins`, `Outs`, `Writer` and `Rdrs`.
Buffers are reduced to counts, and all have one size, `BufSize`.  A block that
reads one output on two of its inputs, which the code allows, is left out
(`GraphAssumption`).  Each action is what a thread does under one
mutex with the local computation after it: `ReadInput` takes the copies of one
input, `MinAvailableSpace` looks at one output, `Decide` is the end of the
decision (`try_again`, blocked, done), `consume_each` and `produce_each` move one
pointer, `set_done` marks one buffer, `Notify` tells one neighbour.  `Blocked` is
one turn of the wait loop of `BLKD_IN` or `BLKD_OUT`, message dispatch included.
Blocks are sync blocks or decimators that return `WORK_DONE` after `Limit`
items, as `gr_head` does; for the blocks in `Shirkers`, `work()` may return less
than it was asked for, or nothing; for those in `Throwers` it may throw, which
ends the thread without a word to its neighbours.  Condition variables may wake spuriously, and
`wait()` and the top of the loop are interruption points.

### GrTopBlock

Callers are application threads; each action is a stretch of a call between two
points where another thread can observe or change something.  `start` and
`unlock` hold `d_mutex` from their first step to their last; `wait` and `stop` do
not take it.  A scheduler is a generation number; its threads end when
interrupted, or by themselves if `Finite`.

### GrMsgQueue

Each action is what a thread does between taking the mutex and giving it up.
`InsertCall` is the test of `d_next` before the mutex is taken.  `Allowed` is the
discipline of callers: with `Reinsert = FALSE` nobody passes a message that is
the tail of the queue or that another producer is inserting at the time.  The test
of `d_next` is there to catch such calls and misses both.

### GrFlowgraph, GrHierBlock2, GrFlatFlowgraph

An edge is a pair of endpoints, an endpoint a block and a port; a block is a
number, its address, because the code sorts vectors of blocks by address.  The
depth-first searches are recursive functions with the colours and the output
vector as their state, and a flag for the exception about loops; `visit_each` is
the loop over a vector of blocks that both have in common.  They recurse on how
deep visits may still nest, and start with the number of blocks: every visit
enters a white block and makes it grey or black, so the code nests no deeper (the
proofs show that the bound is never met).  `partition` is its `while` loop, round
by round.  `resolve_endpoint` and `resolve_port`, which call each other, recurse on
the number of hierarchical blocks gone through, and `Flattened`, the blocks that
the recursion of `flatten_aux` enters, is the least set that has the top block
and all hierarchical blocks of its members.

`check_topology`, which a block may override to refuse numbers of ports that its
signatures allow, is a constant operator.  Items have one size per signature,
not one per port.

`GrHierBlock2` has one action per call that changes the wiring.  A call that
throws keeps what it did before: the parent of a hierarchical block is changed
even when the connection is refused.  `Resolved` is what `flatten_aux` connects,
`flatten_ok` that nothing on the way throws.  Part of that is `ConnectsOnce`: the
flat flowgraph refuses an input that is in use, also when it is the same edge that
comes a second time, from an endpoint resolved twice, from two hierarchical blocks,
or from one that is put into two others and so flattened twice.

`GrFlatFlowgraph` adds the details of the leaf blocks.  A buffer is told apart by
block, port and the configuration that made it; a reader lives in the slot of a
detail that holds it and is represented by the buffer it reads.  `start` and
`unlock` are whole calls, with one disjunct per place where they can throw;
`merge_connections` may stop at the first block whose old detail is too small,
with the blocks before it already changed and, since the order of its own inputs
is not modelled, any part of that block's inputs.  Threads are in `GrTopBlock`.

### Usrp2

One background thread and one application thread, the kernel and the device.
Steps of the handler are separate where the other thread can see the
difference: lookup of the pending reply, copy, completion, clearing of the
entry; enqueueing a frame and counting it.  `rings_mutex` is explicit because it
is held while waiting for a reply; the mutex around the counter is held from the
test of the wait loop to the wait (`bg = "wait"`), which is why `dec_enqueued`
cannot run there and `NotifyBg`, which does not take it, can.  A `pending_reply`
lives on the stack of its call, so a handler that is overtaken by a time limit
writes to memory that may by then be the one of a later call: `BgMemcpy` and
`BgComplete` then choose between hitting that call and hitting nothing.  The
device may lose any command or answer, and refuse a start.  The kernel fills frames in order
and drops what it has no free frame for.  `start_rx_streaming` stands for
`start_rx_streaming` and `start_rx_streaming_at`, which wait for one reply;
`Return` clears the table entry, leaves the call and puts its ring in or out of
place in one step, though only the latter is under `rings_mutex`.  `kept`, `last`, `overrun` and
`overtaken` are history for the properties.

## 3. Runs

| Run | Instance | Result |
|---|---|---|
| `buffer_fifo` | buffer of 4, up to 2 readers that come and go, one with history, 5 items, `produce()` | `NoDataRace`, `ReadsInOrder`, `BufferInv` and refinement of `GrFifo` hold |
| `buffer_tags` | buffer of 5, one reader with history, 8 items, 4 tags | `TagsDelivered`, `TagInv` hold |
| `buffer_tags_fanout` | two readers | `TagsDelivered` is violated |
| `tpb_join` | two sources of two items, one in pairs, a decimator by 2 with history 2 that may produce less than asked, a sink; buffers of 5 | `PromisesKept`, `NoLostWakeup`, `DoneOnlyWhenFinished`, `TpbInv`, `EndInv` hold |
| `tpb_stop` | source of three items and sink, a buffer of 3, two messages, `stop()` at any time, either `work()` may throw | `Completes`, `NoSleepOnMessage`, `FinishedIsFinal`, `WakeInv` hold |
| `tpb_fanout` | one output with two readers, one of which ends first | `DoneOnlyWhenFinished` is violated |
| `msg_queue` | 3 producers, 2 consumers, limit 2, 4 insertions | `QueueIsList`, `Bounded`, `NoLostNotify`, `QueueInv`, `InsertsProgress` hold |
| `top_block_owner` | one thread makes all calls, another may `stop()` and `lock()` | `NoThreadsWhileRewiring`, `IdleMeansStopped`, `WaitMeansComplete`, `TopBlockInv`, `CallsReturn` hold |
| `top_block_rewire` | one thread starts and waits, another reconfigures | `NoThreadsWhileRewiring` is violated |
| `flowgraph_reconfigure` | seven leaves, one with a `check_topology` of its own, two hierarchical blocks and the top block; one start, two restarts, five edits out of twelve connections, a block put into another, `disconnect(block)` and `disconnect_all` | `FlatIsWiring`, `PartsSorted`, `ScheduledInOrder`, `ReadersMatchEdges`, `NoStrayReader`, `BuffersFit`, `FlatInv` hold |
| `flowgraph_arity` | an adder whose second input is taken away and given back | `InputsAllRead` is violated |
| `usrp2_receive` | 3 frames, 2 reply ids, 3 commands, 2 packets of samples | `SleepsOnlyOnFrames`, `CountsKeptFrames`, `LappedOnlyWhenFull`, `SamplesInOrder`, `RepliesMatch`, `Usrp2Inv`, `CallsReturn`, `DestructorReturns` hold |

`BufferInv`, `TagInv`, `TpbInv`, `WakeInv`, `EndInv`, `QueueInv`, `TopBlockInv`,
`FlatInv` and `Usrp2Inv` are the invariants the proofs of section 5 rest on; the
`TypeOK` of each module is the first part of its invariant.

Why the bounds are enough.  In `buffer_fifo` five items through four cells make
both indices wrap, the buffer fills and drains with a slow and a fast reader,
and readers join before and after the wrap; what the bound leaves open is proved
(section 5).  In `buffer_tags` the minimum of the read offsets changes several
times while tags lie before, at and after it.  The runs of
`GrTpb` share the cases: in `tpb_join` one source blocks on an output without room
for its `output_multiple()`, the other ends without blocking, the decimator is short
of either input while it has the other, and learns of the end of one long before
that of the other; it never blocks on its own output there, which its one item
cannot fill.
In `tpb_stop` a buffer for two items fills and drains, with both ends asleep,
interrupted, told of a message or gone.  Larger graphs and buffers rest on the
theorems.  In
`msg_queue` two producers can wait while consumers wait to be scheduled, and
every message is used twice.  Three schedulers are enough for a restart, a
restart of the restart, and a start after it.  The bound on insertions of
`msg_queue` carries no property: with six of them nothing changes.

In `flowgraph_reconfigure` five edits are enough to break a chain through a
block and rebuild it through a hierarchical one, to make a fan-out, a loop, a
type mismatch, two drivers of one input and a port that leads nowhere, and to
have each of them at the start, at a restart and undone at the next.  Two limits
of this run: ports of hierarchical blocks are chained one level deep, and since
`start()` is called once, little can run on what a start or restart that threw
has left behind.  The theorems have neither limit.  In
`usrp2_receive` three frames are a ring of two entries, so that the ring fills
and the head laps; three commands over two reply ids let an id be used again
with a late reply on the way; a start, a stop and one more command fit, with the
time limit striking at every moment.  Reachability of these cases was confirmed
with TLC: a lapped frame, a late reply in a later call, a reply one turn of ids
old, a frame dropped with its ring, the counter below zero.

Deadlock is checked in every run but those of the flowgraph and of the USRP2;
threads that have all been joined stutter.  A flowgraph that has used up its
bounded number of configurations may stay as it is.  A USRP2 host may really stop: the application has destroyed it,
or waits in `rx_samples` for a device that says nothing.

### Fairness

`GrTpb`: weak fairness of every thread and of the loop that interrupts threads:
the operating system schedules them, and every mutex is held for a bounded time.
Nothing is assumed of posters, of callers of `stop()`, or of spurious wakeups.
`GrMsgQueue`: a thread inside a call goes on (threads that hold no lock keep
running), and consumers keep calling: without them a full queue stays full.  The
liveness property is `InsertsProgress`, that the producers together go on:
`boost::condition_variable` and `boost::mutex` promise no order, so between the
notification of a waiting producer and its turn at the mutex another may take the
place, and with competitors that never stop one producer can wait for ever.  That a
certain insertion completes would be true of the run only because its insertions
are finitely many, and is not claimed.
`GrTopBlock`: a caller inside a call goes on, and the threads of a scheduler end
when they can, which is `Completes` of `GrTpb`.
`Usrp2`: the background thread runs, and a call that has begun goes on; its time
limit and that of `poll()` elapse.  Nothing is assumed of the device, the kernel,
or of an application between calls; `rx_samples` may wait for ever.  The kernel
has `MaxData` packets of samples and stops; the code has no such limit, and
while frames go on arriving as fast as they are handled, `rx_frames` need not
return, nor then the destructor, which waits for it: `DestructorReturns` leans on that bound.

## 4. Findings

- **Tags lost with two readers** (`buffer_tags_fanout`).  `space_available()`
  prunes tags below the *previous* minimum of the read offsets, one change late,
  which protects a single reader that has consumed and not yet fetched its tags.
  With two readers the one ahead may have consumed past a tag without having
  fetched it, while the slower one moves the minimum twice: past the tag, and
  once more, at which the tag is removed before the reader ahead asks for it.
- **A reader ended by its sibling** (`tpb_fanout`).  `set_done()` marks the input
  buffers too, to stop the writer; the other reader takes the flag for the end
  of its input and finishes while the source goes on.
- **An input without a reader** (`flowgraph_arity`).  `merge_connections` empties
  the reader of an input that goes away, but the block keeps its detail with the
  old number of inputs, and the executor uses each of them.
- **`wait()` against `unlock()`** (`top_block_rewire`).  `wait()` sees the threads
  end because another thread restarts the flowgraph; its late `d_state = IDLE` lets a `start()`
  rewire a running flowgraph.
- **Kept frames are not presented again** (`usrp2_receive`, `LappedOnlyWhenFull`).
  `eth_buffer.h:130-141` says of a frame that the handler keeps: "On the next call
  all kept frames, followed by any new frames received, will be presented in
  order".  `rx_frames()` moves on past every frame, kept or not, and begins its
  next call there; a kept frame is met again only after a whole turn of the
  ring, as if it had just arrived, possibly within the same call.  `usrp2::impl`
  does not rely on the promise: it calls `rx_frames()` again when no frame is
  kept.  The property states what the code does in place of it, so that this
  disagreement is shown by a property that holds.

Limits the properties spell out, each of which TLC confirms when the
restriction is lifted:

- a message that is still the tail of a queue may be inserted again, because its
  `d_next` is empty, and one that two producers insert at once passes both their
  tests (`Reinsert = TRUE`, `QueueIsList`);
- one of several producers can be overtaken for ever at a full queue
  (`InsertsProgress` speaks of all of them; this one is argued, not run, as it
  takes insertions without end);
- with several owners `wait()` also returns when a restart ends the threads
  (the instance of `top_block_rewire`, `WaitMeansComplete`);
- a block taken out of a stopped flowgraph keeps its old reader through a second
  `start()`, and a later restart takes it back with that reader
  (`MaxStarts = 2`, `NoStrayReader`);
- a buffer made before a restart may be too small for a reader attached by it
  (`BuffersFit` speaks of started flowgraphs only);
- once a time limit has overtaken the handler of a reply, a later call may get
  that reply; so may a call one whole turn of reply ids later (`RepliesMatch`);
- a frame enqueued between the flush and the end of `stop_rx_streaming` is never
  released, and the background thread waits for it for good; the calls still
  return, by their time limits (`CallsReturn`); `CountsKeptFrames` counts it as kept,
  as the code does;
- with frames queued, the notification of `stop_bg()` can fall between the test
  and the wait of the loop, and the destructor hangs (`DestructorReturns`).

## 5. Proofs

What TLC shows on a small instance, TLAPS proves for every value of the
constants: any number of blocks, threads, messages, frames and packets, any
hierarchy and any edits of it, any buffer size; in `GrTpb` one size common to the
buffers of a flowgraph in which no block reads one output twice.  Every safety invariant that
a passing run checks is a theorem, and so are the refinement of `GrFifo` and the
action property of `GrTpb`.  Hardly any of the properties is inductive; each
module ends with a section on the invariant that is, in named parts, and TLC
checks that invariant on a run (`BufferInv`, `TagInv`, `TpbInv`, `WakeInv`,
`EndInv`, `QueueInv`, `TopBlockInv`, `FlatInv`, `Usrp2Inv`).  The assumptions on constants (`...Assumption` in each module) are
evaluated by TLC on the runs.

| Module | Theorems | Hypothesis |
|---|---|---|
| `GrBufferProofs` | `TypeCorrect`, `NoDataRaceHolds`, `ReadsInOrderHolds`, `BufferInvariant`, `ImplementsFifoHolds` | - |
| | `TagInvariant`, `TagsDeliveredHolds` | `SingleReader` |
| `GrTpbProofs` | `SchedulerInvariant`, `TypeCorrect`, `PromisesKeptHolds`, `NoSleepOnMessageHolds` | - |
| `GrTpbWakeProofs` | `WakeInvariant`, `NoLostWakeupHolds` | `SyncSinks` |
| | `DoneFlagsFollow`, `FinishedIsFinalHolds` | - |
| | `EndInvariant` | `OneReader` |
| | `DoneOnlyWhenFinishedHolds` | `OneReader`, `InputFits` |
| `GrMsgQueueProofs` | `QueueInvariant`, `TypeCorrect`, `QueueIsListHolds`, `BoundedHolds`, `NoLostNotifyHolds` | `~Reinsert` |
| `GrTopBlockProofs` | `TypeCorrect` | - |
| | `OwnerInvariant`, `NoThreadsWhileRewiringHolds`, `IdleMeansStoppedHolds`, `WaitMeansCompleteHolds` | `SingleOwner` |
| `GrFlowgraphProofs` | `SortedOrder`, `SortRefusesLoopsOnly`, `PartitionSorts` | - |
| `GrFlatFlowgraphProofs` | `FlatInvariant`, `ReadersMatchEdgesHolds`, `BuffersFitHolds`, `ScheduledInOrderHolds`, `PartsSortedHolds` | - |
| | `NoStrayReaderHolds` | `starts <= 1` |
| | `FlatIsWiringHolds` | `Nested` |
| `Usrp2Proofs` | `HostInvariant`, `TypeCorrect`, `SleepsOnlyOnFramesHolds`, `CountsKeptFramesHolds`, `LappedOnlyWhenFullHolds`, `SamplesInOrderHolds`, `RepliesMatchHolds` | - |

The hypotheses are conditions on the constants, but for `starts <= 1`, which
says that `start()` has been called at most once so far.  Those behind which the
code misbehaves are needed, and TLC shows what happens without them:
`SingleReader` in `buffer_tags_fanout`, `OneReader` in `tpb_fanout`, `SingleOwner`
in `top_block_rewire`, `~Reinsert` and `starts <= 1` as section 4 says.  `Nested`
says that no hierarchical block is ever put into itself, directly or through
others; in one that is, `flatten()` would not return.  `InputFits` is what
`allocate_buffer` sees to for the blocks a buffer is made for (`BuffersFit`).
`SyncSinks` says that blocks without outputs are `gr_sync_block`s, as sinks are: a
decimating sink would block, its inputs done, on between `output_multiple()` and
`output_multiple() * decimation()` items, because `run_one_iteration` compares the
first of these with `items_available` and divides by the decimation later.  The
instances of the passing runs satisfy all of them.

### The buffer

That a writer and a reader do not collide depends on their snapshots being
conservative whatever happened since they were taken; that readers see the
stream depends on the contents of cells no thread is looking at yet.  `BufferInv`
is the strengthening: `TypeOK`; `OffsetsAgree` (the indices, which wrap, and the
absolute offsets, which do not, tell the same story); `SnapshotsConservative`
(the space a writer was told about is still free and the items a reader was told
about are still there); `StreamIntact` (every cell that some reader, or the
history of a reader yet to come, still needs, and every cell already filled,
holds the item the stream has there).  The lemmas `AdvanceWrite`, `AdvanceRead`
and `StepBack` say how moving an index changes the distance between two;
`ReaderCell`, `WriterCell` and `CellDistinct` translate indices to distances from
the write index, in which the proof is linear arithmetic.  The step lemma
`NextBufferInv` has one case per action.

The refinement maps the buffer to `Queues`, per reader the items between its
index and the write index.  `BufferInv` says what those are, so that storing an
item changes no queue, publishing appends to all of them at once, consuming takes
from the head of one, and attaching and dropping readers are the steps of `GrFifo`
of that name.

`TagInv` says why pruning with the previous minimum is safe for one reader
(`PruneBehind`): the minimum is either not past what the reader has asked for, or
is where the reader stands now, and then the call that would prune there has not
been made.

### The scheduler

`TpbInv` rests on one fact, `Frame`: under the steps of the other threads the
inputs of a block only grow and its outputs only drain, so what its thread has
read stays a promise (`PromiseInv`) from the inspection of the buffers, one
mutex at a time, to the last pointer update.  What `try_again` finds is proved
from its recursion (`TryFact`): the function halves, rounds up and never goes
below `output_multiple()`, which the lemmas `Descends...` turn into a fact about
every argument by way of a smallest counterexample.  `LoopInv` keeps the loop
indices on existing ports.

`WakeInv` adds three parts.  `DoneInv`: the done flags of the buffers follow the
one of the block, and nobody else sets them.  `SeenInv`: what a thread has seen of
its inputs is still so, or it has been told, or somebody owes it a notice.
`SleepInv`: from `BLKD_IN` or `BLKD_OUT` to the wait it has a reason to sleep, or
has been or will be told.  `ToldKept` says that what is told or owed is lost only in
`clear_changed`, which precedes the inspection; `StillShort` and `StillFull` that a
reason disappears only by a step whose thread then owes a notice.

`EndInv`: where an output has one reader, a done flag seen on an input is the
writer's, a writer that is done never produces again, and so what was seen with
the flag is all there will be.  `DoneOnlyWhenFinished` follows for the steps that
end a block, and stays true because a finished block calls `work()` no more
(`SpentKept`), done flags are never taken back (`DoneKept`) and an exhausted input
stays short (`InputOverKept`).  The action property `FinishedIsFinal` needs only
`TpbInv` and `DoneInv`: a thread whose block is done is past its pointer updates.

### The sort and the parts

What a search returns is a fact about a recursion, and the prover's library
offers induction only over operators it cannot instantiate.  `Smallest` and
`Induction` of `GrFlowgraphProofs` state it for sets instead: a set of numbers
that is not empty has a least member, so a set that has 0 and the successor of
each of its members has all.  With them, `Iterates...` shows that a function
defined by recursion on the numbers exists and satisfies its equation;
`VisitEachLoops`, `VisitNests` and `ReachNests` apply that to the loop over a
vector and to the two searches.

The invariant of the sort is `Sorted`: the output has each black block once and
no other, and everything downstream of a black block is black and was put out
before it.  `Serves` says of a visit of a given depth that, as long as no more
blocks are white than that, it keeps `Sorted`, leaves grey what was grey, and
ends with the block black or with the exception; `VisitServes` goes from one
depth to the next, through `LoopFinishes` for the loop over the successors.  As
there are no more white blocks than blocks, the bound on the depth never cuts a
search off.  `SortOutcome` then gives the order for any set of blocks that is
closed downstream.

That the exception means a loop is shown the other way round: without loops the
blocks can be numbered so that every edge rises (`Numbered`, by induction on their
number, taking out a block with nothing downstream), and in a numbered graph the
grey blocks, which are the ancestors of a visit, lie below the block it is at, so
no edge leads back to them (`GreysBelow`).  `OrderedNotLooped` is the converse: the
last block of a loop in an order would have a successor after it.

`ReachExplores` says of the undirected search that what it marks is closed under
adjacency and inside every closed set that has the block it began with:
`ReachablePart` makes that a connected part, in whatever is left of the blocks.
`RoundParts` is the invariant of the rounds of `partition`: the parts so far are
connected, disjoint, sorted or reported as looped, and with the blocks left they
are all; `PartitionParts` ends it, because every round takes a block out.

### The flat flowgraph

`FlatInv` says of the details: a buffer in a detail belongs to that block and
port and is no newer than the configuration (`BuffersOwned`); the edges of a
running flowgraph have a port at both ends and no input has two (`EdgesServed`);
before a second `start()`, an input without an edge has no reader
(`ReadersOfEdges`); with these, `ReadersMatchEdges` and `BuffersFit` are kept.
`SetupPrepared` and `MergePrepared` say what the details look like before readers
are attached, whichever of them is old or new; `Configured` what attaching does
then, and `PartlyConnected` what is left when it throws half way.  `Contiguous`
shows that port numbers that pass `check_contiguity` are `0 .. n - 1`, which is
why the details that `allocate_block_detail` counts out have every port.
`NoStrayReader` follows: two inputs that read one buffer are at edges from the
port that owns it.  `ScheduledInOrder` and `PartsSorted` rest on the theorems
about sorting, with `FlatEdgesType`: flattening yields edges between leaf blocks.

For `FlatIsWiring`, `BlocksInside` says that edits leave in a block only what its
owner puts there, so that the levels of `Nested` hold in every state.
`ResolverFixed` shows by induction on levels that one more step of
`resolve_endpoint` changes nothing, so that what it computes satisfies the
equations of the recursion in the code (`ResolveEquations`).  `OutputsChained` and
`InputsChained` turn a resolved endpoint into a chain of wires, level by level, and
count its length; `ChainsJoin` is the other direction, an invariant of the
joining of chains: whatever a chain of wires joins, the one end resolves to leaves
among those of the other, and where the chain crosses from outputs to inputs
there is one edge it crosses by.

### The message queue, the top block, the USRP2

`QueueInv` gives the linked list by positions in the history of insertions and
removals, and says that no message is at two places; with the second, writing
`d_next` of one message cannot cut the list.  `NoLostNotify` is inductive
relative to it, with a cardinality argument for each thread that falls asleep,
is woken or returns.

`TopBlockInv`: whoever is inside `start` or `unlock` holds `d_mutex`; only the
current scheduler, or the one just made, has threads; a scheduler is stopped for
a restart only while that restart waits for it.

`Usrp2Inv`: the frames with packets not yet handled form one arc of the circle,
from the handler to the kernel (`ArcInv`); frames in the ring and in hand are kept
and distinct (`KeptInv`); the count is the number of kept frames modulo the width
of the counter, corrected for the two places between a queue operation and its
count (`CountsKeptFrames`); by age around the circle, what the application has
had, holds, has queued and has not yet been handled come in this order
(`OrderInv`); the table of pending replies holds the waiting call and no other
(`ReplyInv`).

### Only model-checked

- All liveness (`Completes`, `InsertsProgress`, `CallsReturn`,
  `DestructorReturns`): fairness and `ENABLED` are outside the prover.
- That the instances the hypotheses exclude behave as the findings say: these
  are the violation runs.

## 6. Not modelled

- `gr_vmcircbuf`: the double mapping is what makes a window of the circle
  contiguous; it is calls of the operating system.
- Blocks of variable rate, interpolators, and `propagate_tags` across several
  ports; in `GrTpb` buffers of different sizes in one flowgraph and blocks that read
  one output on two inputs.
- Signatures with an item size per port or without an upper limit
  (`IO_INFINITE`): `check_valid_port` and `check_type_match` compare one size and
  two limits per block.
- `sync_and_start_rx_streaming_at`, whose command takes two reply ids; it
  waits for the reply to the first.
- The order in which the kernel and the device see the samples a host transmits,
  the contents of USRP2 commands, the statistics of lost packets.
- Recursion without end in `lock()` of a hierarchical block whose parent was
  cleared, and the empty pointer `disconnect()` follows for a leaf connected by
  itself: such a call is no step of the model.
- The single-threaded scheduler, the queue and pool of `gruel`, the state machine
  of the firmware and the job manager of `gcell`: see the plan.
- Signal processing kernels, vocoders, error correction, wrappers, user
  interfaces, GRC, examples, drivers of hardware.

The map covers a small share of the repository by its nature: most of the lines
are numerical kernels, drivers, generated code and user interfaces.  What is
modelled is the part whose correctness depends on the order of steps.

## 7. Plan

1. Done: `GrBuffer`, `GrTpb`, `GrTopBlock`, `GrMsgQueue`.
2. Done: `GrFlowgraph`, `GrHierBlock2`, `GrFlatFlowgraph`, `Usrp2`; exceptions of
   `work()` in `GrTpb`.
3. Done: proofs of the safety invariants of every module, of the refinement of
   `GrFifo`, and of what `topological_sort`, `partition` and flattening compute.
4. Proofs left: that the counts of `GrTpb` are what `GrBuffer` computes from its
   indices, so that the two sets of theorems compose; action properties of the
   top block and the USRP2.
5. Further modules: the double-buffering state machine of the firmware, the job
   queue of `gcell`, the single-threaded scheduler compared with `GrTpb`.
