-------------------------------- MODULE GrTpb --------------------------------
(***************************************************************************)
(* The thread-per-block scheduler: one thread per block of a flat          *)
(* flowgraph, running gr_tpb_thread_body around                            *)
(* gr_block_executor::run_one_iteration, woken by its neighbours through   *)
(* gr_tpb_detail, with messages posted to blocks and stop() interrupting   *)
(* the threads.                                                            *)
(*                                                                         *)
(* Buffers are reduced to their item counts (GrBuffer models the indices   *)
(* and the contents).  Each action is what one thread does under one       *)
(* mutex, with the thread-local computation that follows it.  Blocks are   *)
(* gr_sync_blocks or gr_sync_decimators whose work() stops after Limit     *)
(* items, as gr_head and the finite sources do.                            *)
(***************************************************************************)
EXTENDS Integers, Sequences, FiniteSets, SequencesExt

CONSTANTS
  Blocks, Bufs,
  Ins, Outs,       \* sequences of buffers: d_input and d_output of each block
  Writer,          \* link() of each buffer
  Rdrs,            \* sequence of blocks: link() of each reader of a buffer
  BufSize,         \* d_bufsize
  OutputMultiple, History, Decimation, \* per block
  Limit,           \* per block: items after which work() returns WORK_DONE
  Shirkers,        \* blocks whose work() may produce less than it was asked for
  Throwers,        \* blocks whose work() may throw
  MaxMsgs,         \* bound: messages posted
  StopAllowed      \* the application may call stop()

(* The shape setup_connections() gives block details and buffers.  One case it
   also allows is left out: a block that reads one output on two inputs has two
   readers on that buffer, where items_read has one per block. *)
ASSUME GraphAssumption ==
  /\ Ins \in [Blocks -> Seq(Bufs)] /\ Outs \in [Blocks -> Seq(Bufs)]
  /\ Writer \in [Bufs -> Blocks] /\ Rdrs \in [Bufs -> Seq(Blocks)]
  /\ \A f \in Bufs : \E o \in DOMAIN Outs[Writer[f]] : Outs[Writer[f]][o] = f
  /\ \A b \in Blocks : \A o \in DOMAIN Outs[b] : Writer[Outs[b][o]] = b
  /\ \A b \in Blocks : \A i \in DOMAIN Ins[b] : Contains(Rdrs[Ins[b][i]], b)
  /\ \A f \in Bufs : \A j \in DOMAIN Rdrs[f] : Contains(Ins[Rdrs[f][j]], f)
  /\ \A f \in Bufs : Rdrs[f] # <<>>       \* a buffer is allocated for an edge
  /\ \A b \in Blocks : IsInjective(Ins[b]) /\ IsInjective(Outs[b]) \* no output read twice by a block
  /\ \A b \in Blocks : Ins[b] # <<>> \/ Outs[b] # <<>>
ASSUME SizeAssumption ==
  /\ BufSize \in Nat /\ BufSize >= 2
  /\ History \in [Blocks -> 1 .. BufSize]
  /\ Decimation \in [Blocks -> Nat \ {0}] /\ OutputMultiple \in [Blocks -> Nat \ {0}]
  /\ Limit \in [Blocks -> Nat] /\ MaxMsgs \in Nat

VARIABLES
  written, items_read,          \* d_abs_write_offset; d_abs_read_offset per reader
  buf_done,                     \* gr_buffer::d_done
  d_done,                       \* gr_block_detail::d_done
  input_changed, output_changed, msg_queue,  \* gr_tpb_detail
  pc, idx, todo,                \* each thread: where it is, loop index, notifications left
  d_ninput_items, d_input_done, noutput_items, \* gr_block_executor members
  nproduced,                    \* items work() has returned so far
  n,                            \* what general_work returned
  posted,                       \* messages posted so far
  interrupted, to_interrupt     \* interruption requested; stop() still to visit

bufVars  == <<written, items_read, buf_done>>
tpbVars  == <<input_changed, output_changed, msg_queue>>
snapVars == <<d_ninput_items, d_input_done, noutput_items>>
stopVars == <<interrupted, to_interrupt>>
vars == <<bufVars, d_done, tpbVars, pc, idx, todo, snapVars, nproduced, n,
          posted, stopVars>>

-----------------------------------------------------------------------------
round_up(k, multiple)   == ((k + multiple - 1) \div multiple) * multiple
round_down(k, multiple) == (k \div multiple) * multiple
MaxOf(S) == CHOOSE x \in S : \A y \in S : x >= y
MinOf(S) == CHOOSE x \in S : \A y \in S : x <= y

source_p(b) == Ins[b] = <<>>
sink_p(b)   == Outs[b] = <<>>

items_available(b, f) == written[f] + History[b] - 1 - items_read[b][f]

space_available(f) ==
  BufSize - 1 - MaxOf({items_available(Rdrs[f][j], f) : j \in DOMAIN Rdrs[f]})

fixed_rate_noutput_to_ninput(b, k) == k * Decimation[b] + History[b] - 1
fixed_rate_ninput_to_noutput(b, k) == MaxOf({0, k - History[b] + 1}) \div Decimation[b]

\* Mutant of try_again: only the first input is looked at.
try_again_first(b, ninput, nout) ==
  LET most == fixed_rate_ninput_to_noutput(b, ninput[1])
  IN IF most = 0 THEN <<1, 1>> ELSE <<MinOf({most, nout}), 0>>

\* The try_again loop: how many items to ask work() for, and the first input
\* that is too short for even output_multiple() of them (0 if none is).
try_again(b, ninput, nout) ==
  LET multiple == OutputMultiple[b]
      reqd == round_up(fixed_rate_ninput_to_noutput(b, MaxOf(Range(ninput))), multiple)
      try[k \in Nat] ==
        LET m == IF reqd > 0 /\ reqd <= k THEN reqd ELSE k
            short == {i \in DOMAIN ninput : fixed_rate_noutput_to_ninput(b, m) > ninput[i]}
        IN IF short = {} THEN <<m, 0>>
           ELSE IF m > multiple THEN try[round_up(m \div 2, multiple)]
           ELSE <<m, MinOf(short)>>
  IN try[nout]

\* Whom notify_downstream and notify_upstream tell, and of what.
Downstream(b) ==
  FlattenSeq([o \in DOMAIN Outs[b] |->
    [j \in DOMAIN Rdrs[Outs[b][o]] |-> <<"input", Rdrs[Outs[b][o]][j]>>]])
Upstream(b) == [i \in DOMAIN Ins[b] |-> <<"output", Writer[Ins[b][i]]>>]

-----------------------------------------------------------------------------
Init ==
  /\ written = [f \in Bufs |-> 0]
  /\ items_read = [b \in Blocks |-> [f \in Range(Ins[b]) |-> 0]]
  /\ buf_done = [f \in Bufs |-> FALSE]
  /\ d_done = [b \in Blocks |-> FALSE]
  /\ input_changed = [b \in Blocks |-> FALSE]
  /\ output_changed = [b \in Blocks |-> FALSE]
  /\ msg_queue = [b \in Blocks |-> 0]
  /\ pc = [b \in Blocks |-> "top"]
  /\ idx = [b \in Blocks |-> 0]
  /\ todo = [b \in Blocks |-> <<>>]
  /\ d_ninput_items = [b \in Blocks |-> <<>>]
  /\ d_input_done = [b \in Blocks |-> <<>>]
  /\ noutput_items = [b \in Blocks |-> 0]
  /\ nproduced = [b \in Blocks |-> 0]
  /\ n = [b \in Blocks |-> 0]
  /\ posted = 0
  /\ interrupted = [b \in Blocks |-> FALSE]
  /\ to_interrupt = {}

Goto(b, label) == pc' = [pc EXCEPT ![b] = label]

\* The snapshots are dead once work() has been called or the thread blocks.
ForgetSnapshots(b) ==
  /\ d_ninput_items' = [d_ninput_items EXCEPT ![b] = <<>>]
  /\ d_input_done' = [d_input_done EXCEPT ![b] = <<>>]

\* Mutant of WereDone: the buffers are marked done, and the block is not.
WereDone_buffers_only(b) ==
  /\ UNCHANGED d_done
  /\ idx' = [idx EXCEPT ![b] = 1]
  /\ Goto(b, "set_done")

\* were_done: set_done(true) starts with the block itself.
WereDone(b) ==
  /\ d_done' = [d_done EXCEPT ![b] = TRUE]
  /\ idx' = [idx EXCEPT ![b] = 1]
  /\ Goto(b, "set_done")

-----------------------------------------------------------------------------
(* gr_tpb_thread_body *)

\* interruption_point
Top(b) ==
  /\ pc[b] = "top"
  /\ Goto(b, IF interrupted[b] THEN "exited" ELSE "drain")
  /\ UNCHANGED <<bufVars, d_done, tpbVars, idx, todo, snapVars, nproduced, n,
                 posted, stopVars>>

\* Mutant of Drain: the queue is popped without asking whether it is empty.
Drain_unchecked(b) ==
  /\ pc[b] = "drain"
  /\ Goto(b, "clear")
  /\ msg_queue' = [msg_queue EXCEPT ![b] = @ - 1]
  /\ UNCHANGED <<bufVars, d_done, input_changed, output_changed, idx, todo,
                 snapVars, nproduced, n, posted, stopVars>>

\* delete_head_nowait and dispatch_msg, until the queue is empty.
Drain(b) ==
  /\ pc[b] = "drain"
  /\ IF msg_queue[b] = 0
     THEN Goto(b, "clear") /\ UNCHANGED msg_queue
     ELSE msg_queue' = [msg_queue EXCEPT ![b] = @ - 1] /\ UNCHANGED pc
  /\ UNCHANGED <<bufVars, d_done, input_changed, output_changed, idx, todo,
                 snapVars, nproduced, n, posted, stopVars>>

\* clear_changed, and the way into run_one_iteration.
clear_changed(b) ==
  /\ pc[b] = "clear"
  /\ input_changed' = [input_changed EXCEPT ![b] = FALSE]
  /\ output_changed' = [output_changed EXCEPT ![b] = FALSE]
  /\ idx' = [idx EXCEPT ![b] = 1]
  /\ noutput_items' = [noutput_items EXCEPT ![b] = BufSize]
  /\ Goto(b, IF source_p(b) THEN "outputs" ELSE "inputs")
  /\ UNCHANGED <<bufVars, d_done, msg_queue, todo, d_ninput_items, d_input_done,
                 nproduced, n, posted, stopVars>>

-----------------------------------------------------------------------------
(* run_one_iteration *)

\* Mutant of Decide: any input that is done ends the block, in place of the
\* one that is too short.
Decide_any_done(b, ninput, done, nout) ==
  LET try == try_again(b, ninput, nout)
  IN \/ /\ try[2] = 0
        /\ noutput_items' = [noutput_items EXCEPT ![b] = try[1]]
        /\ Goto(b, "work")
        /\ UNCHANGED <<d_done, idx>>
     \/ /\ try[2] # 0 /\ \E i \in DOMAIN done : done[i]
        /\ WereDone(b)
        /\ UNCHANGED noutput_items
     \/ /\ try[2] # 0 /\ ~\E i \in DOMAIN done : done[i]
        /\ Goto(b, "blkd_in")
        /\ UNCHANGED <<d_done, idx, noutput_items>>

\* Leave the inspection of buffers for the call of work(), or without it.
Decide(b, ninput, done, nout) ==
  LET try == try_again(b, ninput, nout)
      i   == try[2]
  IN \/ /\ i = 0
        /\ noutput_items' = [noutput_items EXCEPT ![b] = try[1]]
        /\ Goto(b, "work")
        /\ UNCHANGED <<d_done, idx>>
     \/ /\ i # 0
        /\ done[i] \/ fixed_rate_noutput_to_ninput(b, try[1]) > BufSize - 1
        /\ WereDone(b)
        /\ UNCHANGED noutput_items
     \/ /\ i # 0
        /\ ~done[i] /\ fixed_rate_noutput_to_ninput(b, try[1]) <= BufSize - 1
        /\ Goto(b, "blkd_in")
        /\ UNCHANGED <<d_done, idx, noutput_items>>

\* Local copies of items_available and done of one input, under its mutex.
ReadInput(b) ==
  /\ pc[b] = "inputs"
  /\ LET f      == Ins[b][idx[b]]
         ninput == Append(d_ninput_items[b], items_available(b, f))
         done   == Append(d_input_done[b], buf_done[f])
         last   == idx[b] = Len(Ins[b])
         swag   == round_down(MaxOf(Range(ninput)) \div Decimation[b], OutputMultiple[b])
     IN \/ /\ sink_p(b) /\ Last(ninput) < OutputMultiple[b] /\ Last(done)
           /\ WereDone(b)
           /\ ForgetSnapshots(b) /\ UNCHANGED noutput_items
        \/ /\ ~(sink_p(b) /\ Last(ninput) < OutputMultiple[b] /\ Last(done))
           /\ \/ /\ ~last
                 /\ idx' = [idx EXCEPT ![b] = @ + 1]
                 /\ d_ninput_items' = [d_ninput_items EXCEPT ![b] = ninput]
                 /\ d_input_done' = [d_input_done EXCEPT ![b] = done]
                 /\ UNCHANGED <<pc, d_done, noutput_items>>
              \/ /\ last /\ ~sink_p(b)
                 /\ idx' = [idx EXCEPT ![b] = 1]
                 /\ d_ninput_items' = [d_ninput_items EXCEPT ![b] = ninput]
                 /\ d_input_done' = [d_input_done EXCEPT ![b] = done]
                 /\ Goto(b, "outputs")
                 /\ UNCHANGED <<d_done, noutput_items>>
              \/ /\ last /\ sink_p(b) /\ swag = 0
                 /\ Goto(b, "blkd_in")
                 /\ ForgetSnapshots(b) /\ UNCHANGED <<d_done, idx, noutput_items>>
              \/ /\ last /\ sink_p(b) /\ swag > 0
                 /\ Decide(b, ninput, done, swag)
                 /\ ForgetSnapshots(b)
  /\ UNCHANGED <<bufVars, tpbVars, todo, nproduced, n, posted, stopVars>>

\* min_available_space, one output under its mutex at a time.
MinAvailableSpace(b) ==
  /\ pc[b] = "outputs"
  /\ LET f    == Outs[b][idx[b]]
         k    == round_down(MinOf({space_available(f), BufSize \div 2}), OutputMultiple[b])
         nout == MinOf({noutput_items[b], k})
     IN \/ /\ k = 0 /\ buf_done[f]
           /\ WereDone(b)
           /\ ForgetSnapshots(b) /\ UNCHANGED noutput_items
        \/ /\ k = 0 /\ ~buf_done[f]
           /\ Goto(b, "blkd_out")
           /\ ForgetSnapshots(b) /\ UNCHANGED <<d_done, idx, noutput_items>>
        \/ /\ k > 0 /\ idx[b] < Len(Outs[b])
           /\ idx' = [idx EXCEPT ![b] = @ + 1]
           /\ noutput_items' = [noutput_items EXCEPT ![b] = nout]
           /\ UNCHANGED <<pc, d_done, d_ninput_items, d_input_done>>
        \/ /\ k > 0 /\ idx[b] = Len(Outs[b]) /\ source_p(b)
           /\ noutput_items' = [noutput_items EXCEPT ![b] = nout]
           /\ Goto(b, "work")
           /\ UNCHANGED <<d_done, idx, d_ninput_items, d_input_done>>
        \/ /\ k > 0 /\ idx[b] = Len(Outs[b]) /\ ~source_p(b)
           /\ Decide(b, d_ninput_items[b], d_input_done[b], nout)
           /\ ForgetSnapshots(b)
  /\ UNCHANGED <<bufVars, tpbVars, todo, nproduced, n, posted, stopVars>>

\* After general_work has returned k and every pointer has been moved.
AfterWork(b, k) ==
  /\ todo' = [todo EXCEPT ![b] = IF k > 0 THEN Downstream(b) \o Upstream(b) ELSE Upstream(b)]
  /\ Goto(b, "notify")

\* Mutant of Work: a block is done with its last items, not after them.
Work_done_at_limit(b) ==
  /\ pc[b] = "work"
  /\ LET k == MinOf({noutput_items[b], Limit[b] - nproduced[b]})
     IN /\ nproduced' = [nproduced EXCEPT ![b] = @ + k]
        /\ n' = [n EXCEPT ![b] = k]
        /\ d_done' = [d_done EXCEPT ![b] = nproduced[b] + k >= Limit[b]]
  /\ idx' = [idx EXCEPT ![b] = 1]
  /\ Goto(b, IF source_p(b) THEN "produce" ELSE "consume")
  /\ UNCHANGED <<bufVars, tpbVars, snapVars, todo, posted, stopVars>>

\* work(): WORK_DONE at the limit; otherwise it returns the number of items it
\* produced, and general_work goes on to consume their inputs.
Work(b) ==
  /\ pc[b] = "work"
  /\ \/ /\ nproduced[b] >= Limit[b]
        /\ WereDone(b)
        /\ UNCHANGED <<nproduced, n, todo>>
     \/ /\ nproduced[b] < Limit[b]
        /\ LET most == MinOf({noutput_items[b], Limit[b] - nproduced[b]})
           IN \E k \in (IF b \in Shirkers THEN 0 .. most ELSE {most}) :
                /\ nproduced' = [nproduced EXCEPT ![b] = @ + k]
                /\ n' = [n EXCEPT ![b] = k]
                /\ \/ /\ k > 0
                      /\ idx' = [idx EXCEPT ![b] = 1]
                      /\ Goto(b, IF source_p(b) THEN "produce" ELSE "consume")
                      /\ UNCHANGED <<d_done, todo>>
                   \/ /\ k = 0 /\ source_p(b)
                      /\ WereDone(b) /\ UNCHANGED todo
                   \/ /\ k = 0 /\ ~source_p(b)
                      /\ AfterWork(b, 0) /\ UNCHANGED <<d_done, idx>>
  /\ UNCHANGED <<bufVars, tpbVars, snapVars, posted, stopVars>>

\* work() throws: the wrapper of the thread body catches it and the thread ends
\* without set_done() and without telling anybody.
WorkThrows(b) ==
  /\ pc[b] = "work" /\ b \in Throwers
  /\ Goto(b, "exited")
  /\ UNCHANGED <<bufVars, d_done, tpbVars, idx, todo, snapVars, nproduced, n,
                 posted, stopVars>>

\* consume_each: update_read_pointer on one input after the other.
consume_each(b) ==
  /\ pc[b] = "consume"
  /\ items_read' = [items_read EXCEPT ![b][Ins[b][idx[b]]] = @ + n[b] * Decimation[b]]
  /\ IF idx[b] < Len(Ins[b])
     THEN idx' = [idx EXCEPT ![b] = @ + 1] /\ UNCHANGED <<pc, todo>>
     ELSE IF sink_p(b) THEN AfterWork(b, n[b]) /\ UNCHANGED idx
     ELSE idx' = [idx EXCEPT ![b] = 1] /\ Goto(b, "produce") /\ UNCHANGED todo
  /\ UNCHANGED <<written, buf_done, d_done, tpbVars, snapVars, nproduced, n,
                 posted, stopVars>>

\* produce_each: update_write_pointer on one output after the other.
produce_each(b) ==
  /\ pc[b] = "produce"
  /\ written' = [written EXCEPT ![Outs[b][idx[b]]] = @ + n[b]]
  /\ IF idx[b] < Len(Outs[b])
     THEN idx' = [idx EXCEPT ![b] = @ + 1] /\ UNCHANGED <<pc, todo>>
     ELSE AfterWork(b, n[b]) /\ UNCHANGED idx
  /\ UNCHANGED <<items_read, buf_done, d_done, tpbVars, snapVars, nproduced, n,
                 posted, stopVars>>

\* gr_block_detail::set_done: the output buffers, then the input buffers.
set_done(b) ==
  /\ pc[b] = "set_done"
  /\ LET fs == Outs[b] \o Ins[b]
     IN /\ buf_done' = [buf_done EXCEPT ![fs[idx[b]]] = TRUE]
        /\ IF idx[b] < Len(fs)
           THEN idx' = [idx EXCEPT ![b] = @ + 1] /\ UNCHANGED <<pc, todo>>
           ELSE AfterWork(b, 1) /\ UNCHANGED idx
  /\ UNCHANGED <<written, items_read, d_done, tpbVars, snapVars, nproduced, n,
                 posted, stopVars>>

-----------------------------------------------------------------------------
(* gr_tpb_detail: set_input_changed / set_output_changed of a neighbour.    *)
(* The only thread that waits on a block's condition variables is its own. *)

Wake(q, kind) ==
  IF kind = "input" /\ pc[q] = "wait_in" THEN "msgs_in"
  ELSE IF kind = "output" /\ pc[q] = "wait_out" THEN "msgs_out"
  ELSE pc[q]

Notify(b) ==
  /\ pc[b] = "notify"
  /\ todo[b] # <<>>
  /\ LET kind == Head(todo[b])[1]
         q    == Head(todo[b])[2]
     IN /\ IF kind = "input"
           THEN input_changed' = [input_changed EXCEPT ![q] = TRUE] /\ UNCHANGED output_changed
           ELSE output_changed' = [output_changed EXCEPT ![q] = TRUE] /\ UNCHANGED input_changed
        /\ pc' = [pc EXCEPT ![q] = Wake(q, kind)]
  /\ todo' = [todo EXCEPT ![b] = Tail(@)]
  /\ UNCHANGED <<bufVars, d_done, msg_queue, idx, snapVars, nproduced, n, posted, stopVars>>

\* Everyone has been told: return from the thread if done, otherwise loop.
NotifyEnd(b) ==
  /\ pc[b] = "notify"
  /\ todo[b] = <<>>
  /\ Goto(b, IF d_done[b] THEN "exited" ELSE "top")
  /\ UNCHANGED <<bufVars, d_done, tpbVars, idx, todo, snapVars, nproduced, n,
                 posted, stopVars>>

-----------------------------------------------------------------------------
(* BLKD_IN and BLKD_OUT: wait for the neighbours or for a message. *)

\* One turn of the wait loop under the mutex.  A thread that finds its flag
\* set leaves at once; one that was woken (msgs_*) empties its queue first.
\* Calling condition_variable::wait is an interruption point.
Blocked(b, outer, woken, wait, changed) ==
  /\ \/ /\ pc[b] = outer /\ changed
        /\ Goto(b, "top") /\ UNCHANGED msg_queue
     \/ /\ pc[b] = woken /\ changed /\ msg_queue[b] = 0
        /\ Goto(b, "top") /\ UNCHANGED msg_queue
     \/ /\ pc[b] \in {outer, woken} /\ ~changed /\ msg_queue[b] = 0
        /\ Goto(b, IF interrupted[b] THEN "exited" ELSE wait) /\ UNCHANGED msg_queue
     \/ /\ pc[b] = woken \/ (pc[b] = outer /\ ~changed)
        /\ msg_queue[b] > 0
        /\ msg_queue' = [msg_queue EXCEPT ![b] = @ - 1]
        /\ Goto(b, woken)
  /\ UNCHANGED <<bufVars, d_done, input_changed, output_changed, idx, todo,
                 snapVars, nproduced, n, posted, stopVars>>

\* Mutant of BlkdIn: the thread waits without looking at input_changed.
BlkdIn_unchecked(b) == Blocked(b, "blkd_in", "msgs_in", "wait_in", FALSE)

BlkdIn(b)  == Blocked(b, "blkd_in", "msgs_in", "wait_in", input_changed[b])

\* Mutant of BlkdOut: the same for output_changed.
BlkdOut_unchecked(b) == Blocked(b, "blkd_out", "msgs_out", "wait_out", FALSE)

BlkdOut(b) == Blocked(b, "blkd_out", "msgs_out", "wait_out", output_changed[b])

\* Mutant of WaitInterrupted: only the wait for input can be interrupted.
WaitInterrupted_input_only(b) ==
  /\ pc[b] = "wait_in"
  /\ interrupted[b]
  /\ Goto(b, "exited")
  /\ UNCHANGED <<bufVars, d_done, tpbVars, idx, todo, snapVars, nproduced, n,
                 posted, stopVars>>

\* interrupt() wakes a thread that waits.
WaitInterrupted(b) ==
  /\ pc[b] \in {"wait_in", "wait_out"}
  /\ interrupted[b]
  /\ Goto(b, "exited")
  /\ UNCHANGED <<bufVars, d_done, tpbVars, idx, todo, snapVars, nproduced, n,
                 posted, stopVars>>

SpuriousWakeup(b) ==
  /\ pc[b] \in {"wait_in", "wait_out"}
  /\ Goto(b, IF pc[b] = "wait_in" THEN "msgs_in" ELSE "msgs_out")
  /\ UNCHANGED <<bufVars, d_done, tpbVars, idx, todo, snapVars, nproduced, n,
                 posted, stopVars>>

-----------------------------------------------------------------------------
(* Other threads. *)

\* Mutant of post: a thread that waits for output space is not woken.
post_wakes_input_only(b) ==
  /\ posted < MaxMsgs
  /\ posted' = posted + 1
  /\ msg_queue' = [msg_queue EXCEPT ![b] = @ + 1]
  /\ Goto(b, IF pc[b] = "wait_in" THEN "msgs_in" ELSE pc[b])
  /\ UNCHANGED <<bufVars, d_done, input_changed, output_changed, idx, todo,
                 snapVars, nproduced, n, stopVars>>

\* gr_msg_accepter::post, down to insert_tail.
post(b) ==
  /\ posted < MaxMsgs
  /\ posted' = posted + 1
  /\ msg_queue' = [msg_queue EXCEPT ![b] = @ + 1]
  /\ Goto(b, IF pc[b] = "wait_in" THEN "msgs_in"
             ELSE IF pc[b] = "wait_out" THEN "msgs_out" ELSE pc[b])
  /\ UNCHANGED <<bufVars, d_done, input_changed, output_changed, idx, todo,
                 snapVars, nproduced, n, stopVars>>

\* gr_scheduler_tpb::stop begins interrupt_all ...
stop ==
  /\ StopAllowed
  /\ \A b \in Blocks : ~interrupted[b]
  /\ to_interrupt = {}
  /\ to_interrupt' = Blocks
  /\ UNCHANGED <<bufVars, d_done, tpbVars, pc, idx, todo, snapVars, nproduced, n,
                 posted, interrupted>>

\* ... and interrupts one thread at a time.
Interrupt(b) ==
  /\ b \in to_interrupt
  /\ to_interrupt' = to_interrupt \ {b}
  /\ interrupted' = [interrupted EXCEPT ![b] = TRUE]
  /\ UNCHANGED <<bufVars, d_done, tpbVars, pc, idx, todo, snapVars, nproduced, n, posted>>

\* wait() returns: every thread has been joined.
Joined == \A b \in Blocks : pc[b] = "exited"

Thread(b) ==
  \/ Top(b) \/ Drain(b) \/ clear_changed(b)
  \/ ReadInput(b) \/ MinAvailableSpace(b)
  \/ Work(b) \/ consume_each(b) \/ produce_each(b) \/ set_done(b)
  \/ Notify(b) \/ NotifyEnd(b)
  \/ BlkdIn(b) \/ BlkdOut(b) \/ WaitInterrupted(b)

Next ==
  \/ \E b \in Blocks : Thread(b) \/ WorkThrows(b) \/ SpuriousWakeup(b) \/ post(b) \/ Interrupt(b)
  \/ stop
  \/ Joined /\ UNCHANGED vars

\* Threads and the loop of interrupt_all keep running; nobody has to post a
\* message, call stop(), throw or wake up spuriously.
Fairness == \A b \in Blocks : WF_vars(Thread(b)) /\ WF_vars(Interrupt(b))

Spec == Init /\ [][Next]_vars /\ Fairness

-----------------------------------------------------------------------------
(* Properties. *)

Labels == {"top", "drain", "clear", "inputs", "outputs", "work", "consume", "produce",
           "set_done", "notify", "blkd_in", "blkd_out", "msgs_in", "msgs_out",
           "wait_in", "wait_out", "exited"}

\* Every variable keeps its type.
TypeOK ==
  /\ written \in [Bufs -> Nat]
  /\ DOMAIN items_read = Blocks
  /\ \A b \in Blocks : items_read[b] \in [Range(Ins[b]) -> Nat]
  /\ buf_done \in [Bufs -> BOOLEAN]
  /\ d_done \in [Blocks -> BOOLEAN]
  /\ input_changed \in [Blocks -> BOOLEAN] /\ output_changed \in [Blocks -> BOOLEAN]
  /\ msg_queue \in [Blocks -> Nat] /\ posted \in 0 .. MaxMsgs
  /\ pc \in [Blocks -> Labels]
  /\ idx \in [Blocks -> Nat]
  /\ \A b \in Blocks : idx[b] <= Len(Outs[b]) + Len(Ins[b])
  /\ todo \in [Blocks -> Seq({"input", "output"} \X Blocks)]
  /\ d_ninput_items \in [Blocks -> Seq(0 .. BufSize - 1)]
  /\ d_input_done \in [Blocks -> Seq(BOOLEAN)]
  /\ \A b \in Blocks : /\ Len(d_ninput_items[b]) <= Len(Ins[b])
                        /\ Len(d_input_done[b]) = Len(d_ninput_items[b])
  /\ noutput_items \in [Blocks -> 0 .. BufSize] /\ n \in [Blocks -> 0 .. BufSize]
  /\ nproduced \in [Blocks -> Nat]
  /\ interrupted \in [Blocks -> BOOLEAN] /\ to_interrupt \subseteq Blocks

\* Whatever the neighbours did since run_one_iteration looked at the buffers,
\* when general_work is called its inputs hold all it was promised and its
\* outputs have the room it was promised; and no buffer is ever over-filled
\* or over-consumed by the pointer updates that follow.
PromisesKept ==
  /\ \A f \in Bufs : \A j \in DOMAIN Rdrs[f] :
       items_available(Rdrs[f][j], f) \in 0 .. BufSize - 1
  /\ \A b \in Blocks : pc[b] = "work" =>
       /\ \A i \in DOMAIN Ins[b] :
            fixed_rate_noutput_to_ninput(b, noutput_items[b]) <= items_available(b, Ins[b][i])
       /\ \A o \in DOMAIN Outs[b] : noutput_items[b] <= space_available(Outs[b][o])

\* A thread that has moved a pointer or set a done flag next to b, and has yet
\* to tell b about it.
OwesNotice(b, kind) ==
  \E q \in Blocks :
    \/ pc[q] = "notify" /\ Contains(todo[q], <<kind, b>>)
    \/ /\ pc[q] \in {"consume", "produce", "set_done"}
       /\ Contains(Downstream(q) \o Upstream(q), <<kind, b>>)

InputShort(b) ==
  {i \in DOMAIN Ins[b] :
     items_available(b, Ins[b][i]) < fixed_rate_noutput_to_ninput(b, OutputMultiple[b])}
OutputFull(b) ==
  {o \in DOMAIN Outs[b] :
     MinOf({space_available(Outs[b][o]), BufSize \div 2}) < OutputMultiple[b]}

\* No wakeup is lost between clear_changed, the inspection of the buffers and
\* the wait: a thread that sleeps, and that nobody is about to notify, really
\* has nothing to do - too little input from blocks that are still going, or
\* no room in a buffer whose readers are still going.
NoLostWakeup ==
  \A b \in Blocks :
    /\ pc[b] = "wait_in" /\ ~OwesNotice(b, "input") =>
         \E i \in InputShort(b) : ~d_done[Writer[Ins[b][i]]]
    /\ pc[b] = "wait_out" /\ ~OwesNotice(b, "output") =>
         \E o \in OutputFull(b) : \A j \in DOMAIN Rdrs[Outs[b][o]] :
           ~d_done[Rdrs[Outs[b][o]][j]]

\* A block finishes only because its work() said so (a source that produces
\* nothing says so too), because a block downstream of it has finished, or because
\* a block upstream has finished and too little of what that one produced is
\* left to go on with.
DoneOnlyWhenFinished ==
  \A b \in Blocks : d_done[b] =>
    \/ nproduced[b] >= Limit[b] \/ (source_p(b) /\ n[b] = 0)
    \/ \E o \in DOMAIN Outs[b] : \E j \in DOMAIN Rdrs[Outs[b][o]] : d_done[Rdrs[Outs[b][o]][j]]
    \/ \E i \in InputShort(b) : d_done[Writer[Ins[b][i]]]

\* set_done() is final, for the block and for its buffers: a block that is done,
\* and goes on telling its neighbours, moves no pointer any more, however its
\* last items, its done flag and the messages and interrupts it gets interleave.
FinishedIsFinal ==
  [][/\ \A b \in Blocks : d_done[b] =>
          /\ d_done'[b] /\ items_read'[b] = items_read[b]
          /\ \A o \in DOMAIN Outs[b] : written'[Outs[b][o]] = written[Outs[b][o]]
     /\ \A f \in Bufs : buf_done[f] => buf_done'[f]]_vars

\* The thread of b ended by an exception.
Threw(b) == pc[b] = "exited" /\ ~d_done[b] /\ ~interrupted[b]

\* A finite flowgraph runs to completion, so that wait() returns.  An exception
\* may leave the neighbours of its thread waiting, but stop() still ends every
\* thread, wherever they are when they are interrupted.
Completes ==
  [](\A b \in Blocks : ~Threw(b)) \/ <>(\A b \in Blocks : interrupted[b]) => <>Joined

\* insert_tail, whatever the thread is doing when it is called, never leaves a
\* message behind a sleeping thread: not one about to wait, not one waiting on
\* either condition variable, not one that dispatches an earlier message.
NoSleepOnMessage ==
  \A b \in Blocks : pc[b] \in {"wait_in", "wait_out"} => msg_queue[b] = 0

-----------------------------------------------------------------------------
(* What the properties rest on. *)

\* k more items fit into f behind each of its readers.
Room(f, k) == \A j \in DOMAIN Rdrs[f] : items_available(Rdrs[f][j], f) + k <= BufSize - 1

\* The loops of run_one_iteration, consume_each, produce_each and set_done are
\* inside their ranges, and the snapshots exist only while they are used.
LoopInv(b) ==
  /\ pc[b] = "inputs" => idx[b] \in DOMAIN Ins[b] /\ Len(d_ninput_items[b]) = idx[b] - 1
  /\ pc[b] = "outputs" => idx[b] \in DOMAIN Outs[b] /\ Len(d_ninput_items[b]) = Len(Ins[b])
  /\ pc[b] \notin {"inputs", "outputs"} => Len(d_ninput_items[b]) = 0
  /\ pc[b] = "consume" => idx[b] \in DOMAIN Ins[b]
  /\ pc[b] = "produce" => idx[b] \in DOMAIN Outs[b]
  /\ pc[b] \in {"consume", "produce"} => n[b] > 0
  /\ pc[b] = "set_done" => idx[b] \in 1 .. Len(Outs[b]) + Len(Ins[b])

\* What a thread has found out about its buffers stays true while it goes on:
\* its inputs only grow and its outputs only drain under the other threads.
PromiseInv(b) ==
  /\ \A i \in DOMAIN d_ninput_items[b] :
       d_ninput_items[b][i] <= items_available(b, Ins[b][i])
  /\ pc[b] = "outputs" => \A o \in 1 .. idx[b] - 1 : Room(Outs[b][o], noutput_items[b])
  /\ pc[b] = "work" =>
       /\ \A i \in DOMAIN Ins[b] :
            fixed_rate_noutput_to_ninput(b, noutput_items[b]) <= items_available(b, Ins[b][i])
       /\ \A o \in DOMAIN Outs[b] : Room(Outs[b][o], noutput_items[b])
  /\ pc[b] = "consume" =>
       /\ \A i \in idx[b] .. Len(Ins[b]) :
            fixed_rate_noutput_to_ninput(b, n[b]) <= items_available(b, Ins[b][i])
       /\ \A o \in DOMAIN Outs[b] : Room(Outs[b][o], n[b])
  /\ pc[b] = "produce" => \A o \in idx[b] .. Len(Outs[b]) : Room(Outs[b][o], n[b])

\* No reader is ahead of the writer, nor a whole buffer behind.
FillInv ==
  \A f \in Bufs : \A j \in DOMAIN Rdrs[f] :
    items_available(Rdrs[f][j], f) \in 0 .. BufSize - 1

\* The promises made to a block hold wherever its thread is between the
\* inspection of its buffers and the last pointer update of its work().
TpbInv ==
  TypeOK /\ FillInv /\ NoSleepOnMessage /\ \A b \in Blocks : LoopInv(b) /\ PromiseInv(b)

\* A block is done from set_done() on; the flags of its buffers follow one by one,
\* and no other thread sets them.
DoneInv ==
  /\ \A b \in Blocks :
       /\ pc[b] = "set_done" => d_done[b]
       /\ d_done[b] => pc[b] \in {"set_done", "notify", "exited"}
       /\ d_done[b] => \A k \in DOMAIN (Outs[b] \o Ins[b]) :
            (pc[b] = "set_done" => k < idx[b]) => buf_done[(Outs[b] \o Ins[b])[k]]
  /\ \A f \in Bufs : buf_done[f] =>
       d_done[Writer[f]] \/ \E j \in DOMAIN Rdrs[f] : d_done[Rdrs[f][j]]

\* What was seen of an input is still so, or the thread has been told, or will be.
SeenInv(b) ==
  \A i \in DOMAIN d_ninput_items[b] :
    /\ \/ input_changed[b] \/ OwesNotice(b, "input")
       \/ /\ d_ninput_items[b][i] = items_available(b, Ins[b][i])
          /\ d_input_done[b][i] \/ ~d_done[Writer[Ins[b][i]]]
    /\ sink_p(b) => ~(d_ninput_items[b][i] < OutputMultiple[b] /\ d_input_done[b][i])

\* A thread on its way to sleep has a reason to, or has been or will be told.
SleepInv(b) ==
  /\ pc[b] = "wait_in" => ~input_changed[b]
  /\ pc[b] = "wait_out" => ~output_changed[b]
  /\ pc[b] \in {"blkd_in", "msgs_in", "wait_in"} =>
       \/ input_changed[b] \/ OwesNotice(b, "input")
       \/ \E i \in InputShort(b) : ~d_done[Writer[Ins[b][i]]]
  /\ pc[b] \in {"blkd_out", "msgs_out", "wait_out"} =>
       \/ output_changed[b] \/ OwesNotice(b, "output")
       \/ \E o \in OutputFull(b) : \A j \in DOMAIN Rdrs[Outs[b][o]] :
            ~d_done[Rdrs[Outs[b][o]][j]]

\* No wakeup is lost on the way from the inspection of the buffers to the wait.
WakeInv == DoneInv /\ \A b \in Blocks : SeenInv(b) /\ SleepInv(b)

\* An input that was seen to be done belongs to a block that is, and will never
\* hold more than it did then.
EndInv ==
  \A b \in Blocks : \A i \in DOMAIN d_ninput_items[b] : d_input_done[b][i] =>
    /\ d_done[Writer[Ins[b][i]]]
    /\ d_ninput_items[b][i] = items_available(b, Ins[b][i])

\* Blocks without outputs are gr_sync_blocks.
SyncSinks == \A b \in Blocks : sink_p(b) => Decimation[b] = 1
\* No output is connected twice.
OneReader == \A f \in Bufs : Len(Rdrs[f]) = 1
\* The buffers hold the input of one output_multiple(), as allocate_buffer sees to.
InputFits ==
  \A b \in Blocks : ~source_p(b) =>
    fixed_rate_noutput_to_ninput(b, OutputMultiple[b]) <= BufSize - 1
=============================================================================
