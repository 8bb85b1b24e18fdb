--------------------------- MODULE GrTpbWakeProofs ---------------------------
(***************************************************************************)
(* That no wakeup is lost in the thread-per-block scheduler, and that no   *)
(* block finishes early: proofs about GrTpb, on top of GrTpbProofs.        *)
(***************************************************************************)
EXTENDS GrTpbProofs

Own(b)  == Thread(b) \/ WorkThrows(b)
Step(b) == Own(b) \/ SpuriousWakeup(b) \/ post(b) \/ Interrupt(b)

\* The notice that Notify is about to give.
LEMMA NoticeFact ==
  ASSUME TpbInv, NEW b \in Blocks, todo[b] # <<>>
  PROVE  /\ todo[b] \in Seq(Notices) /\ Head(todo[b]) \in Notices
         /\ Head(todo[b])[1] \in {"input", "output"} /\ Head(todo[b])[2] \in Blocks
         /\ Head(todo[b]) = <<Head(todo[b])[1], Head(todo[b])[2]>>
<1>1. todo[b] \in Seq(Notices)
  BY DEF TpbInv, TypeOK, Notices
<1>2. Head(todo[b]) \in Notices
  BY <1>1
<1> QED
  BY <1>1, <1>2 DEF Notices

\* A thread that only another one acts on: it is woken or left alone.
Calm(q) ==
  /\ \/ pc'[q] = pc[q]
     \/ pc[q] = "wait_in" /\ pc'[q] = "msgs_in"
     \/ pc[q] = "wait_out" /\ pc'[q] = "msgs_out"
  /\ idx'[q] = idx[q] /\ todo'[q] = todo[q] /\ d_done'[q] = d_done[q]
  /\ d_ninput_items'[q] = d_ninput_items[q] /\ d_input_done'[q] = d_input_done[q]
  /\ n'[q] = n[q] /\ nproduced'[q] = nproduced[q]
  /\ input_changed'[q] = input_changed[q] \/ (input_changed'[q] /\ pc'[q] # "wait_in")
  /\ output_changed'[q] = output_changed[q] \/ (output_changed'[q] /\ pc'[q] # "wait_out")

\* The threads other than the one that takes a step are calm.
LEMMA OthersCalm ==
  ASSUME TpbInv, NEW b \in Blocks, NEW q \in Blocks, q # b, Own(b)
  PROVE  Calm(q)
<1>1. /\ DOMAIN pc = Blocks /\ DOMAIN idx = Blocks /\ DOMAIN d_ninput_items = Blocks
      /\ DOMAIN d_input_done = Blocks /\ DOMAIN n = Blocks /\ DOMAIN nproduced = Blocks
      /\ DOMAIN todo = Blocks /\ DOMAIN d_done = Blocks
      /\ DOMAIN input_changed = Blocks /\ DOMAIN output_changed = Blocks
      /\ DOMAIN msg_queue = Blocks
  BY DEF TpbInv, TypeOK
<1>2. \A l : Goto(b, l) => pc'[q] = pc[q]
  BY <1>1 DEF Goto
<1>3. WereDone(b) => pc'[q] = pc[q] /\ idx'[q] = idx[q] /\ d_done'[q] = d_done[q]
  BY <1>1, <1>2 DEF WereDone
<1>4. \A k : AfterWork(b, k) => pc'[q] = pc[q] /\ todo'[q] = todo[q]
  BY <1>1, <1>2 DEF AfterWork
<1>5. ForgetSnapshots(b) => /\ d_ninput_items'[q] = d_ninput_items[q]
                            /\ d_input_done'[q] = d_input_done[q]
  BY <1>1 DEF ForgetSnapshots
<1>6. \A x, y, z : Decide(b, x, y, z) =>
        pc'[q] = pc[q] /\ idx'[q] = idx[q] /\ d_done'[q] = d_done[q]
  BY <1>1, <1>2, <1>3 DEF Decide
<1>7. CASE ReadInput(b)
  <2>1. UNCHANGED <<input_changed, output_changed, todo, nproduced, n>>
    BY <1>7, ReadFact DEF tpbVars
  <2>2. pc'[q] = pc[q] /\ idx'[q] = idx[q] /\ d_done'[q] = d_done[q]
    BY <1>1, <1>2, <1>3, <1>6, <1>7, ReadFact
  <2>3. d_ninput_items'[q] = d_ninput_items[q] /\ d_input_done'[q] = d_input_done[q]
    BY <1>1, <1>5, <1>7, ReadFact
  <2> QED
    BY <2>1, <2>2, <2>3 DEF Calm
<1>8. CASE MinAvailableSpace(b)
  <2>1. UNCHANGED <<input_changed, output_changed, todo, nproduced, n>>
    BY <1>8, MinSpaceFact DEF tpbVars
  <2>2. pc'[q] = pc[q] /\ idx'[q] = idx[q] /\ d_done'[q] = d_done[q]
    BY <1>1, <1>2, <1>3, <1>6, <1>8, MinSpaceFact
  <2>3. d_ninput_items'[q] = d_ninput_items[q] /\ d_input_done'[q] = d_input_done[q]
    BY <1>1, <1>5, <1>8, MinSpaceFact
  <2> QED
    BY <2>1, <2>2, <2>3 DEF Calm
<1>9. CASE Work(b)
  <2>1. UNCHANGED <<input_changed, output_changed, d_ninput_items, d_input_done>>
    BY <1>9, WorkFact DEF tpbVars, snapVars
  <2>2. pc'[q] = pc[q] /\ idx'[q] = idx[q] /\ d_done'[q] = d_done[q]
        /\ todo'[q] = todo[q] /\ n'[q] = n[q] /\ nproduced'[q] = nproduced[q]
    BY <1>1, <1>2, <1>3, <1>4, <1>9, WorkFact
  <2> QED
    BY <2>1, <2>2 DEF Calm
<1>10. CASE Notify(b)
  <2>1. UNCHANGED <<idx, d_done, d_ninput_items, d_input_done, n, nproduced>>
        /\ todo' = [todo EXCEPT ![b] = Tail(@)]
    BY <1>10, Zenon DEF Notify, snapVars
  <2> DEFINE kind == Head(todo[b])[1]
             p    == Head(todo[b])[2]
  <2>2. /\ pc' = [pc EXCEPT ![p] = Wake(p, kind)]
        /\ IF kind = "input"
           THEN input_changed' = [input_changed EXCEPT ![p] = TRUE] /\ UNCHANGED output_changed
           ELSE output_changed' = [output_changed EXCEPT ![p] = TRUE] /\ UNCHANGED input_changed
    BY <1>10, Zenon DEF Notify
  <2>5. kind \in {"input", "output"} /\ p \in Blocks
    BY <1>10, NoticeFact DEF Notify
  <2> HIDE DEF kind, p
  <2>3. CASE p # q
    BY <1>1, <2>1, <2>2, <2>3 DEF Calm
  <2>4. CASE p = q
    <3>1. pc'[q] = Wake(q, kind)
      BY <1>1, <2>2, <2>4
    <3>2. CASE kind = "input"
      <4>1. input_changed'[q] /\ output_changed'[q] = output_changed[q]
        BY <1>1, <2>2, <2>4, <3>2
      <4> QED
        BY <1>1, <2>1, <3>1, <3>2, <4>1 DEF Calm, Wake
    <3>3. CASE kind # "input"
      <4>1. output_changed'[q] /\ input_changed'[q] = input_changed[q]
        BY <1>1, <2>2, <2>4, <3>3
      <4> QED
        BY <1>1, <2>1, <2>5, <3>1, <3>3, <4>1 DEF Calm, Wake
    <3> QED
      BY <3>2, <3>3
  <2> QED
    BY <2>3, <2>4
<1>11. CASE consume_each(b)
  BY <1>1, <1>2, <1>4, <1>11 DEF consume_each, Calm, snapVars, tpbVars
<1>12. CASE produce_each(b)
  BY <1>1, <1>2, <1>4, <1>12 DEF produce_each, Calm, snapVars, tpbVars
<1>13. CASE set_done(b)
  <2>1. UNCHANGED <<d_done, snapVars, n, nproduced, tpbVars>>
        /\ \/ idx' = [idx EXCEPT ![b] = @ + 1] /\ UNCHANGED <<pc, todo>>
           \/ AfterWork(b, 1) /\ UNCHANGED idx
    BY <1>13, Zenon DEF set_done
  <2> QED
    BY <1>1, <1>4, <2>1 DEF Calm, snapVars, tpbVars
<1>14. CASE Top(b) \/ Drain(b) \/ clear_changed(b) \/ NotifyEnd(b)
  BY <1>1, <1>2, <1>14 DEF Top, Drain, clear_changed, NotifyEnd, Calm, snapVars, tpbVars
<1>15. CASE BlkdIn(b) \/ BlkdOut(b)
  BY <1>1, <1>2, <1>15 DEF BlkdIn, BlkdOut, Blocked, Calm, snapVars
<1>16. CASE WaitInterrupted(b) \/ WorkThrows(b)
  BY <1>1, <1>2, <1>16 DEF WaitInterrupted, WorkThrows, Calm, snapVars, tpbVars
<1> QED
  BY <1>7, <1>8, <1>9, <1>10, <1>11, <1>12, <1>13, <1>14, <1>15, <1>16 DEF Own, Thread

\* So are all of them when nobody's thread takes a step.
LEMMA OutsideCalm ==
  ASSUME TpbInv, NEW q \in Blocks,
         \/ \E b \in Blocks : SpuriousWakeup(b) \/ post(b) \/ Interrupt(b)
         \/ stop \/ UNCHANGED vars
  PROVE  Calm(q) /\ UNCHANGED <<bufVars, d_done>>
<1>1. DOMAIN pc = Blocks
  BY DEF TpbInv, TypeOK
<1>2. CASE stop \/ UNCHANGED vars
  BY <1>2 DEF stop, vars, Calm, snapVars, tpbVars
<1>3. ASSUME NEW b \in Blocks, SpuriousWakeup(b) \/ post(b) \/ Interrupt(b)
      PROVE  Calm(q) /\ UNCHANGED <<bufVars, d_done>>
  BY <1>1, <1>3 DEF SpuriousWakeup, post, Interrupt, Calm, snapVars, tpbVars, Goto
<1> QED
  BY <1>2, <1>3

-----------------------------------------------------------------------------
(* Notices. *)

\* A notice that is not the next one is still to be given afterwards.
LEMMA TailFact ==
  ASSUME NEW T, NEW s \in Seq(T), s # <<>>, NEW e, Contains(s, e)
  PROVE  e = Head(s) \/ Contains(Tail(s), e)
<1>1. PICK i \in DOMAIN s : s[i] = e
  BY DEF Contains, Range
<1>2. CASE i = 1
  BY <1>1, <1>2
<1>3. CASE i # 1
  <2>1. DOMAIN s = 1 .. Len(s) /\ Len(s) \in Nat
    OBVIOUS
  <2>2. Tail(s) \in Seq(T) /\ Len(Tail(s)) = Len(s) - 1
        /\ \A k \in 1 .. Len(s) - 1 : Tail(s)[k] = s[k + 1]
    OBVIOUS
  <2>3. i - 1 \in 1 .. Len(s) - 1 /\ i - 1 + 1 = i
    BY <1>3, <2>1
  <2>4. i - 1 \in DOMAIN Tail(s) /\ Tail(s)[i - 1] = e
    BY <1>1, <2>2, <2>3
  <2> QED
    BY <2>4 DEF Contains, Range
<1> QED
  BY <1>2, <1>3

\* b has been told, or some thread will tell it.
Told(b, kind) ==
  \/ kind = "input" /\ input_changed[b]
  \/ kind = "output" /\ output_changed[b]
  \/ OwesNotice(b, kind)

\* A thread between its work() or its set_done() and the notices that follow it
\* owes them to its neighbours.
LEMMA OwesFact ==
  ASSUME NEW b \in Blocks
  PROVE  /\ \A i \in DOMAIN Ins[b] :
              /\ pc[Writer[Ins[b][i]]] \in {"consume", "produce", "set_done"}
                   => OwesNotice(b, "input")
              /\ pc'[Writer[Ins[b][i]]] \in {"consume", "produce", "set_done"}
                   => OwesNotice(b, "input")'
         /\ \A o \in DOMAIN Outs[b] : \A j \in DOMAIN Rdrs[Outs[b][o]] :
              /\ pc[Rdrs[Outs[b][o]][j]] \in {"consume", "produce", "set_done"}
                   => OwesNotice(b, "output")
              /\ pc'[Rdrs[Outs[b][o]][j]] \in {"consume", "produce", "set_done"}
                   => OwesNotice(b, "output")'
<1>1. ASSUME NEW i \in DOMAIN Ins[b]
      PROVE  /\ Writer[Ins[b][i]] \in Blocks
             /\ Contains(Downstream(Writer[Ins[b][i]]) \o Upstream(Writer[Ins[b][i]]),
                         <<"input", b>>)
  <2>1. Ins[b][i] \in Bufs
    BY PortFact
  <2>2. PICK j \in DOMAIN Rdrs[Ins[b][i]] : Rdrs[Ins[b][i]][j] = b
    BY ReadsFact
  <2>3. /\ Writer[Ins[b][i]] \in Blocks
        /\ \E o \in DOMAIN Outs[Writer[Ins[b][i]]] : Outs[Writer[Ins[b][i]]][o] = Ins[b][i]
    BY <2>1, ReaderFact
  <2> QED
    BY <2>2, <2>3, TodoType
<1>2. ASSUME NEW o \in DOMAIN Outs[b], NEW j \in DOMAIN Rdrs[Outs[b][o]]
      PROVE  /\ Rdrs[Outs[b][o]][j] \in Blocks
             /\ Contains(Downstream(Rdrs[Outs[b][o]][j]) \o Upstream(Rdrs[Outs[b][o]][j]),
                         <<"output", b>>)
  <2>1. Outs[b][o] \in Bufs /\ Writer[Outs[b][o]] = b
    BY PortFact
  <2>2. /\ Rdrs[Outs[b][o]][j] \in Blocks
        /\ \E i \in DOMAIN Ins[Rdrs[Outs[b][o]][j]] : Ins[Rdrs[Outs[b][o]][j]][i] = Outs[b][o]
    BY <2>1, ReaderFact
  <2> QED
    BY <2>1, <2>2, TodoType
<1> QED
  BY <1>1, <1>2, Zenon DEF OwesNotice

\* The changed flags are cleared by clear_changed alone.
LEMMA FlagsKept ==
  ASSUME TpbInv, NEW b \in Blocks, Own(b), ~clear_changed(b)
  PROVE  /\ input_changed[b] => input_changed'[b]
         /\ output_changed[b] => output_changed'[b]
         /\ Notify(b) \/ UNCHANGED <<input_changed, output_changed>>
<1>1. DOMAIN input_changed = Blocks /\ DOMAIN output_changed = Blocks
  BY DEF TpbInv, TypeOK
<1>2. CASE Notify(b)
  <2> DEFINE kind == Head(todo[b])[1]
             p    == Head(todo[b])[2]
  <2>1. IF kind = "input"
        THEN input_changed' = [input_changed EXCEPT ![p] = TRUE] /\ UNCHANGED output_changed
        ELSE output_changed' = [output_changed EXCEPT ![p] = TRUE] /\ UNCHANGED input_changed
    BY <1>2, Zenon DEF Notify
  <2> HIDE DEF kind, p
  <2> QED
    BY <1>1, <1>2, <2>1
<1>3. CASE ~Notify(b)
  <2>1. CASE ReadInput(b) \/ MinAvailableSpace(b) \/ Work(b)
    BY <2>1, ReadFact, MinSpaceFact, WorkFact DEF tpbVars
  <2>2. CASE set_done(b)
    BY <2>2, Zenon DEF set_done, tpbVars
  <2>3. CASE Top(b) \/ Drain(b) \/ consume_each(b) \/ produce_each(b) \/ NotifyEnd(b)
    BY <2>3 DEF Top, Drain, consume_each, produce_each, NotifyEnd, tpbVars
  <2>4. CASE BlkdIn(b) \/ BlkdOut(b) \/ WaitInterrupted(b) \/ WorkThrows(b)
    BY <2>4 DEF BlkdIn, BlkdOut, Blocked, WaitInterrupted, WorkThrows, tpbVars
  <2>5. UNCHANGED <<input_changed, output_changed>>
    BY <1>3, <2>1, <2>2, <2>3, <2>4 DEF Own, Thread
  <2> QED
    BY <2>5
<1> QED
  BY <1>2, <1>3

\* A thread gives the notices it owes before it does anything else.
LEMMA OwesKept ==
  ASSUME TpbInv, NEW p \in Blocks, Own(p), NEW b \in Blocks, NEW kind \in {"input", "output"},
         \/ pc[p] = "notify" /\ Contains(todo[p], <<kind, b>>)
         \/ /\ pc[p] \in {"consume", "produce", "set_done"}
            /\ Contains(Downstream(p) \o Upstream(p), <<kind, b>>)
  PROVE  Told(b, kind)'
<1>1. /\ DOMAIN pc = Blocks /\ DOMAIN todo = Blocks
      /\ input_changed \in [Blocks -> BOOLEAN] /\ output_changed \in [Blocks -> BOOLEAN]
  BY DEF TpbInv, TypeOK
<1>2. ASSUME NEW k \in Nat \ {0}, AfterWork(p, k), Contains(Downstream(p) \o Upstream(p), <<kind, b>>)
      PROVE  Told(b, kind)'
  <2>1. pc'[p] = "notify" /\ todo'[p] = Downstream(p) \o Upstream(p)
    BY <1>1, <1>2 DEF AfterWork, Goto
  <2> QED
    BY <1>2, <2>1, Zenon DEF Told, OwesNotice
<1>3. ASSUME pc'[p] \in {"consume", "produce", "set_done"},
             Contains(Downstream(p) \o Upstream(p), <<kind, b>>)
      PROVE  Told(b, kind)'
  BY <1>3, Zenon DEF Told, OwesNotice
<1>4. CASE Notify(p)
  <2>1. pc[p] = "notify" /\ todo[p] # <<>> /\ Contains(todo[p], <<kind, b>>)
    BY <1>4, Zenon DEF Notify
  <2>2. /\ todo[p] \in Seq(Notices)
        /\ Head(todo[p]) = <<Head(todo[p])[1], Head(todo[p])[2]>>
        /\ Head(todo[p])[2] \in Blocks
    BY <2>1, NoticeFact
  <2>3. CASE Head(todo[p]) = <<kind, b>>
    <3>1. Head(todo[p])[1] = kind /\ Head(todo[p])[2] = b
      BY <2>3
    <3>2. IF kind = "input" THEN input_changed' = [input_changed EXCEPT ![b] = TRUE]
          ELSE output_changed' = [output_changed EXCEPT ![b] = TRUE]
      BY <1>4, <3>1, Zenon DEF Notify
    <3>3. (kind = "input" /\ input_changed'[b]) \/ (kind = "output" /\ output_changed'[b])
      BY <1>1, <3>2
    <3> QED
      BY <3>3, Zenon DEF Told
  <2>4. CASE Head(todo[p]) # <<kind, b>>
    <3>1. Contains(Tail(todo[p]), <<kind, b>>)
      BY <2>1, <2>2, <2>4, TailFact
    <3>2. todo' = [todo EXCEPT ![p] = Tail(@)]
          /\ pc' = [pc EXCEPT ![Head(todo[p])[2]] = Wake(Head(todo[p])[2], Head(todo[p])[1])]
      BY <1>4, Zenon DEF Notify
    <3>3. pc'[p] = "notify"
      BY <1>1, <2>1, <3>2 DEF Wake
    <3>4. Contains(todo'[p], <<kind, b>>)
      BY <1>1, <3>1, <3>2
    <3> QED
      BY <3>3, <3>4, Zenon DEF Told, OwesNotice
  <2> QED
    BY <2>3, <2>4
<1>5. CASE NotifyEnd(p)
  <2>1. pc[p] = "notify" /\ Contains(<<>>, <<kind, b>>)
    BY <1>5 DEF NotifyEnd
  <2> QED
    BY <2>1 DEF Contains, Range
<1>6. CASE consume_each(p)
  <2>1. pc[p] = "consume" /\ n[p] \in Nat \ {0}
    BY <1>6, ConsumeFact
  <2>2. pc'[p] \in {"consume", "produce"} \/ AfterWork(p, n[p])
    BY <1>1, <1>6, <2>1 DEF consume_each, Goto
  <2> QED
    BY <1>2, <1>3, <2>1, <2>2
<1>7. CASE produce_each(p)
  <2>1. pc[p] = "produce" /\ n[p] \in Nat \ {0}
    BY <1>7, ProduceFact
  <2>2. pc'[p] = "produce" \/ AfterWork(p, n[p])
    BY <1>1, <1>7, <2>1 DEF produce_each
  <2> QED
    BY <1>2, <1>3, <2>1, <2>2
<1>8. CASE set_done(p)
  <2>1. pc[p] = "set_done" /\ (UNCHANGED pc \/ AfterWork(p, 1))
    BY <1>8, Zenon DEF set_done
  <2> QED
    BY <1>2, <1>3, <2>1
<1>9. pc[p] \in {"notify", "consume", "produce", "set_done"}
  OBVIOUS
<1>10. Notify(p) \/ NotifyEnd(p) \/ consume_each(p) \/ produce_each(p) \/ set_done(p)
  <2>1. ~Top(p) /\ ~Drain(p) /\ ~clear_changed(p) /\ ~WaitInterrupted(p) /\ ~WorkThrows(p)
    BY <1>9 DEF Top, Drain, clear_changed, WaitInterrupted, WorkThrows
  <2>2. ~ReadInput(p) /\ ~MinAvailableSpace(p) /\ ~Work(p)
    BY <1>9, ReadFact, MinSpaceFact, WorkFact
  <2>3. ~BlkdIn(p) /\ ~BlkdOut(p)
    BY <1>9 DEF BlkdIn, BlkdOut, Blocked
  <2> QED
    BY <2>1, <2>2, <2>3 DEF Own, Thread
<1> QED
  BY <1>4, <1>5, <1>6, <1>7, <1>8, <1>10

\* What a thread has been told, or is to be told, is not lost before it starts
\* its next iteration.
LEMMA ToldKept ==
  ASSUME TpbInv, [Next]_vars, NEW q \in Blocks, NEW kind \in {"input", "output"},
         Told(q, kind), ~clear_changed(q)
  PROVE  Told(q, kind)'
<1>1. ASSUME NEW p \in Blocks, Calm(p),
             \/ pc[p] = "notify" /\ Contains(todo[p], <<kind, q>>)
             \/ /\ pc[p] \in {"consume", "produce", "set_done"}
                /\ Contains(Downstream(p) \o Upstream(p), <<kind, q>>)
      PROVE  Told(q, kind)'
  <2>1. pc'[p] = pc[p] /\ todo'[p] = todo[p]
    BY <1>1 DEF Calm
  <2> QED
    BY <1>1, <2>1, Zenon DEF Told, OwesNotice
<1>2. ASSUME Calm(q), (kind = "input" /\ input_changed[q]) \/ (kind = "output" /\ output_changed[q])
      PROVE  Told(q, kind)'
  BY <1>2, Zenon DEF Calm, Told
<1>3. \/ (kind = "input" /\ input_changed[q]) \/ (kind = "output" /\ output_changed[q])
      \/ OwesNotice(q, kind)
  BY Zenon DEF Told
<1>4. CASE \A p \in Blocks : Calm(p)
  <2>1. ASSUME OwesNotice(q, kind) PROVE Told(q, kind)'
    <3>1. PICK p \in Blocks :
             \/ pc[p] = "notify" /\ Contains(todo[p], <<kind, q>>)
             \/ /\ pc[p] \in {"consume", "produce", "set_done"}
                /\ Contains(Downstream(p) \o Upstream(p), <<kind, q>>)
      BY <2>1, Zenon DEF OwesNotice
    <3> QED
      BY <1>1, <1>4, <3>1
  <2> QED
    BY <1>2, <1>4, <1>3, <2>1, Zenon
<1>5. ASSUME NEW b \in Blocks, Own(b) PROVE Told(q, kind)'
  <2>1. \A p \in Blocks : p # b => Calm(p)
    BY <1>5, OthersCalm
  <2>2. ASSUME (kind = "input" /\ input_changed[q]) \/ (kind = "output" /\ output_changed[q])
        PROVE  Told(q, kind)'
    <3>1. CASE q # b
      BY <1>2, <2>1, <2>2, <3>1
    <3>2. CASE q = b
      BY <1>5, <2>2, <3>2, FlagsKept, Zenon DEF Told
    <3> QED
      BY <3>1, <3>2
  <2>3. ASSUME OwesNotice(q, kind) PROVE Told(q, kind)'
    <3>1. PICK p \in Blocks :
             \/ pc[p] = "notify" /\ Contains(todo[p], <<kind, q>>)
             \/ /\ pc[p] \in {"consume", "produce", "set_done"}
                /\ Contains(Downstream(p) \o Upstream(p), <<kind, q>>)
      BY <2>3, Zenon DEF OwesNotice
    <3>2. CASE p # b
      BY <1>1, <2>1, <3>1, <3>2
    <3>3. CASE p = b
      BY <1>5, <3>1, <3>3, OwesKept
    <3> QED
      BY <3>2, <3>3
  <2> QED
    BY <1>3, <2>2, <2>3, Zenon
<1> QED
  BY <1>4, <1>5, OutsideCalm, Zenon DEF Next, Own

-----------------------------------------------------------------------------
(* Done flags. *)

\* What a thread does to the done flags.
LEMMA DoneStep ==
  ASSUME TpbInv, NEW b \in Blocks, Own(b)
  PROVE  \/ /\ WereDone(b) /\ pc[b] \in {"inputs", "outputs", "work"}
            /\ UNCHANGED buf_done
         \/ set_done(b)
         \/ /\ UNCHANGED <<d_done, buf_done>> /\ pc'[b] # "set_done"
            /\ pc[b] \notin {"set_done", "exited"}
            /\ pc[b] = "notify" => pc'[b] \in {"notify", "exited"} \/ ~d_done[b]
<1>1. DOMAIN pc = Blocks
  BY DEF TpbInv, TypeOK
<1>2. \A l : Goto(b, l) => pc'[b] = l
  BY <1>1 DEF Goto
<1>3. \A x, y, z : Decide(b, x, y, z) =>
        WereDone(b) \/ (UNCHANGED d_done /\ pc'[b] \in {"work", "blkd_in"})
  BY <1>2 DEF Decide
<1>4. CASE ReadInput(b)
  <2>1. pc[b] = "inputs" /\ UNCHANGED buf_done
    BY <1>4, ReadFact DEF bufVars
  <2>2. WereDone(b) \/ (UNCHANGED d_done /\ pc'[b] \in {"work", "blkd_in", "inputs", "outputs"})
    BY <1>1, <1>2, <1>3, <1>4, <2>1, ReadFact
  <2> QED
    BY <2>1, <2>2
<1>5. CASE MinAvailableSpace(b)
  <2>1. pc[b] = "outputs" /\ UNCHANGED buf_done
    BY <1>5, MinSpaceFact DEF bufVars
  <2>2. WereDone(b) \/ (UNCHANGED d_done /\ pc'[b] \in {"work", "blkd_in", "blkd_out", "outputs"})
    BY <1>1, <1>2, <1>3, <1>5, <2>1, MinSpaceFact
  <2> QED
    BY <2>1, <2>2
<1>6. CASE Work(b)
  <2>1. pc[b] = "work" /\ UNCHANGED buf_done
    BY <1>6, WorkFact DEF bufVars
  <2>2. WereDone(b) \/ (UNCHANGED d_done /\ pc'[b] \in {"consume", "produce", "notify"})
    BY <1>1, <1>2, <1>6, <2>1, WorkFact DEF AfterWork
  <2> QED
    BY <2>1, <2>2
<1>7. CASE Notify(b)
  <2>1. pc[b] = "notify" /\ UNCHANGED <<d_done, buf_done>>
    BY <1>7, Zenon DEF Notify, bufVars
  <2>2. PICK kind, p : pc' = [pc EXCEPT ![p] = Wake(p, kind)]
    BY <1>7, Zenon DEF Notify
  <2>3. pc'[b] = "notify"
    BY <1>1, <2>1, <2>2 DEF Wake
  <2> QED
    BY <2>1, <2>3
<1>8. CASE Top(b) \/ Drain(b) \/ clear_changed(b) \/ NotifyEnd(b)
  BY <1>1, <1>2, <1>8 DEF Top, Drain, clear_changed, NotifyEnd, bufVars
<1>9. CASE consume_each(b) \/ produce_each(b)
  BY <1>1, <1>2, <1>9 DEF consume_each, produce_each, bufVars, AfterWork
<1>10. CASE BlkdIn(b) \/ BlkdOut(b)
  BY <1>1, <1>2, <1>10 DEF BlkdIn, BlkdOut, Blocked, bufVars
<1>11. CASE WaitInterrupted(b) \/ WorkThrows(b)
  BY <1>2, <1>11 DEF WaitInterrupted, WorkThrows, bufVars
<1> QED
  BY <1>4, <1>5, <1>6, <1>7, <1>8, <1>9, <1>10, <1>11 DEF Own, Thread

\* The buffers that set_done goes through are those of the ports, and no others.
LEMMA BuffersFact ==
  ASSUME NEW b \in Blocks
  PROVE  LET fs == Outs[b] \o Ins[b]
         IN /\ fs \in Seq(Bufs) /\ Len(fs) = Len(Outs[b]) + Len(Ins[b])
            /\ Len(fs) \in Nat /\ DOMAIN fs = 1 .. Len(fs)
            /\ \A k \in DOMAIN fs :
                 /\ fs[k] \in Bufs
                 /\ Writer[fs[k]] = b \/ \E j \in DOMAIN Rdrs[fs[k]] : Rdrs[fs[k]][j] = b
            /\ \A o \in DOMAIN Outs[b] : \E k \in DOMAIN fs : fs[k] = Outs[b][o]
            /\ \A i \in DOMAIN Ins[b] : \E k \in DOMAIN fs : fs[k] = Ins[b][i]
<1> DEFINE s == Outs[b]
           t == Ins[b]
<1>1. s \in Seq(Bufs) /\ t \in Seq(Bufs)
  BY GraphAssumption
<1>2. /\ \A o \in DOMAIN s : s[o] \in Bufs /\ Writer[s[o]] = b
      /\ \A i \in DOMAIN t : t[i] \in Bufs /\ \E j \in DOMAIN Rdrs[t[i]] : Rdrs[t[i]][j] = b
  <2>1. \A o \in DOMAIN Outs[b] : Outs[b][o] \in Bufs /\ Writer[Outs[b][o]] = b
    BY PortFact
  <2>2. \A i \in DOMAIN Ins[b] : Ins[b][i] \in Bufs
    BY PortFact
  <2>3. \A i \in DOMAIN Ins[b] : \E j \in DOMAIN Rdrs[Ins[b][i]] : Rdrs[Ins[b][i]][j] = b
    BY ReadsFact
  <2> QED
    BY <2>1, <2>2, <2>3
<1> HIDE DEF s, t
<1>3. /\ s \o t \in Seq(Bufs) /\ Len(s \o t) = Len(s) + Len(t)
      /\ Len(s) \in Nat /\ Len(t) \in Nat
      /\ DOMAIN s = 1 .. Len(s) /\ DOMAIN t = 1 .. Len(t) /\ DOMAIN (s \o t) = 1 .. Len(s \o t)
  BY <1>1
<1>4. \A k \in 1 .. Len(s) + Len(t) :
        (s \o t)[k] = IF k <= Len(s) THEN s[k] ELSE t[k - Len(s)]
  BY <1>1, ConcatProperties
<1>5. ASSUME NEW k \in DOMAIN (s \o t)
      PROVE  (\E o \in DOMAIN s : (s \o t)[k] = s[o]) \/ (\E i \in DOMAIN t : (s \o t)[k] = t[i])
  <2>1. k \in 1 .. Len(s) + Len(t)
    BY <1>3
  <2>2. CASE k <= Len(s)
    <3>1. k \in DOMAIN s /\ (s \o t)[k] = s[k]
      BY <1>3, <1>4, <2>1, <2>2
    <3> QED
      BY <3>1
  <2>3. CASE ~(k <= Len(s))
    <3>1. k - Len(s) \in DOMAIN t /\ (s \o t)[k] = t[k - Len(s)]
      BY <1>3, <1>4, <2>1, <2>3
    <3> QED
      BY <3>1
  <2> QED
    BY <2>2, <2>3
<1>6. ASSUME NEW k \in DOMAIN (s \o t)
      PROVE  /\ (s \o t)[k] \in Bufs
             /\ \/ Writer[(s \o t)[k]] = b
                \/ \E j \in DOMAIN Rdrs[(s \o t)[k]] : Rdrs[(s \o t)[k]][j] = b
  BY <1>2, <1>5
<1>7. ASSUME NEW o \in DOMAIN s PROVE \E k \in DOMAIN (s \o t) : (s \o t)[k] = s[o]
  <2>1. o \in DOMAIN (s \o t) /\ (s \o t)[o] = s[o]
    BY <1>3, <1>4
  <2> QED
    BY <2>1
<1>8. ASSUME NEW i \in DOMAIN t PROVE \E k \in DOMAIN (s \o t) : (s \o t)[k] = t[i]
  <2>1. i + Len(s) \in DOMAIN (s \o t) /\ (s \o t)[i + Len(s)] = t[i]
    BY <1>3, <1>4
  <2> QED
    BY <2>1
<1>9. Len(s \o t) \in Nat
  BY <1>3
<1> QED
  BY <1>3, <1>6, <1>7, <1>8, <1>9, Zenon DEF s, t

\* What set_done does, in terms of the buffers of the block.
LEMMA SetDoneFact ==
  ASSUME TpbInv, NEW b \in Blocks, set_done(b)
  PROVE  LET fs == Outs[b] \o Ins[b]
         IN /\ pc[b] = "set_done" /\ UNCHANGED d_done
            /\ DOMAIN fs = 1 .. Len(fs) /\ idx[b] \in DOMAIN fs /\ fs[idx[b]] \in Bufs
            /\ buf_done' = [buf_done EXCEPT ![fs[idx[b]]] = TRUE]
            /\ \/ pc'[b] = "set_done" /\ idx'[b] = idx[b] + 1
               \/ pc'[b] = "notify" /\ idx[b] = Len(fs)
            /\ \/ Writer[fs[idx[b]]] = b
               \/ \E j \in DOMAIN Rdrs[fs[idx[b]]] : Rdrs[fs[idx[b]]][j] = b
<1> DEFINE fs == Outs[b] \o Ins[b]
<1>1. DOMAIN pc = Blocks /\ DOMAIN idx = Blocks /\ idx[b] \in Nat
  BY DEF TpbInv, TypeOK
<1>3. /\ Len(fs) = Len(Outs[b]) + Len(Ins[b]) /\ DOMAIN fs = 1 .. Len(fs) /\ Len(fs) \in Nat
      /\ \A k \in DOMAIN fs :
           /\ fs[k] \in Bufs
           /\ Writer[fs[k]] = b \/ \E j \in DOMAIN Rdrs[fs[k]] : Rdrs[fs[k]][j] = b
  BY BuffersFact
<1>4. pc[b] = "set_done" /\ UNCHANGED d_done
      /\ buf_done' = [buf_done EXCEPT ![fs[idx[b]]] = TRUE]
      /\ \/ idx[b] < Len(fs) /\ idx' = [idx EXCEPT ![b] = @ + 1] /\ UNCHANGED pc
         \/ ~(idx[b] < Len(fs)) /\ AfterWork(b, 1)
  BY Zenon DEF set_done
<1>5. idx[b] \in DOMAIN fs
  <2>1. idx[b] \in 1 .. Len(Outs[b]) + Len(Ins[b])
    BY <1>4 DEF TpbInv, LoopInv
  <2> QED
    BY <1>3, <2>1, Zenon
<1>6. /\ fs[idx[b]] \in Bufs
      /\ \/ Writer[fs[idx[b]]] = b
         \/ \E j \in DOMAIN Rdrs[fs[idx[b]]] : Rdrs[fs[idx[b]]][j] = b
  BY <1>3, <1>5
<1>7. \/ pc'[b] = "set_done" /\ idx'[b] = idx[b] + 1
      \/ pc'[b] = "notify" /\ idx[b] = Len(fs)
  <2>1. CASE idx[b] < Len(fs) /\ idx' = [idx EXCEPT ![b] = @ + 1] /\ UNCHANGED pc
    BY <1>1, <1>4, <2>1
  <2>2. CASE ~(idx[b] < Len(fs)) /\ AfterWork(b, 1)
    <3>1. pc'[b] = "notify"
      BY <1>1, <2>2 DEF AfterWork, Goto
    <3>2. idx[b] = Len(fs)
      <4>1. \A x, y \in Nat : x \in 1 .. y /\ ~(x < y) => x = y
        OBVIOUS
      <4> QED
        BY <1>1, <1>3, <1>5, <2>2, <4>1, Zenon
    <3> QED
      BY <3>1, <3>2
  <2> QED
    BY <1>4, <2>1, <2>2
<1> QED
  BY <1>3, <1>4, <1>5, <1>6, <1>7

\* The flags of the buffers follow the flags of their blocks.
LEMMA NextDone ==
  ASSUME TpbInv, DoneInv, [Next]_vars
  PROVE  DoneInv'
<1>1. d_done \in [Blocks -> BOOLEAN] /\ buf_done \in [Bufs -> BOOLEAN]
      /\ DOMAIN pc = Blocks /\ idx \in [Blocks -> Nat] /\ TypeOK'
  BY NextTypes DEF TpbInv, TypeOK
<1> DEFINE fs(q) == Outs[q] \o Ins[q]
           Place(q) == /\ pc[q] = "set_done" => d_done[q]
                       /\ d_done[q] => pc[q] \in {"set_done", "notify", "exited"}
           Flags(q) == d_done[q] => \A k \in DOMAIN fs(q) :
                         (pc[q] = "set_done" => k < idx[q]) => buf_done[fs(q)[k]]
           Cause(f) == buf_done[f] =>
                         d_done[Writer[f]] \/ \E j \in DOMAIN Rdrs[f] : d_done[Rdrs[f][j]]
<1>2. (\A q \in Blocks : Place(q) /\ Flags(q)) /\ (\A f \in Bufs : Cause(f))
  BY Zenon DEF DoneInv
<1>3. SUFFICES (\A q \in Blocks : Place(q)' /\ Flags(q)') /\ (\A f \in Bufs : Cause(f)')
  BY Zenon DEF DoneInv
<1>4. \A q \in Blocks : \A k \in DOMAIN fs(q) : fs(q)[k] \in Bufs
  BY BuffersFact
<1> HIDE DEF fs
<1>5. ASSUME NEW q \in Blocks, Calm(q), \A f \in Bufs : buf_done[f] => buf_done'[f]
      PROVE  Place(q)' /\ Flags(q)'
  <2>1. Place(q) /\ Flags(q)
    BY <1>2
  <2> QED
    BY <1>4, <1>5, <2>1 DEF Calm
<1>6. CASE \/ \E b \in Blocks : SpuriousWakeup(b) \/ post(b) \/ Interrupt(b)
           \/ stop \/ UNCHANGED vars
  <2>1. (\A q \in Blocks : Calm(q))
    BY <1>6, OutsideCalm
  <2>2. Blocks = {} \/ UNCHANGED <<buf_done, d_done>>
    BY <1>6, OutsideCalm DEF bufVars
  <2>3. UNCHANGED <<buf_done, d_done>>
    BY <1>6, <2>2 DEF stop, vars, bufVars
  <2>4. \A f \in Bufs : Cause(f)'
    BY <1>2, <2>3
  <2> QED
    BY <1>5, <2>1, <2>3, <2>4
<1>7. ASSUME NEW b \in Blocks, Own(b)
      PROVE  (\A q \in Blocks : Place(q)' /\ Flags(q)') /\ (\A f \in Bufs : Cause(f)')
  <2>1. \A q \in Blocks : q # b => Calm(q)
    BY <1>7, OthersCalm
  <2>2. CASE WereDone(b) /\ pc[b] \in {"inputs", "outputs", "work"} /\ UNCHANGED buf_done
    <3>1. d_done' = [d_done EXCEPT ![b] = TRUE] /\ pc'[b] = "set_done" /\ idx'[b] = 1
      BY <1>1, <2>2 DEF WereDone, Goto
    <3>2. Place(b)' /\ Flags(b)'
      <4>1. \A k \in DOMAIN fs(b) : ~(k < 1)
        <5>1. DOMAIN fs(b) = 1 .. Len(fs(b)) /\ Len(fs(b)) \in Nat
          BY BuffersFact DEF fs
        <5> QED
          BY <5>1
      <4> QED
        BY <1>1, <3>1, <4>1
    <3>3. \A q \in Blocks : d_done[q] => d_done'[q]
      BY <1>1, <3>1
    <3>4. \A f \in Bufs : Cause(f)'
      BY <1>2, <2>2, <3>3, ReaderFact
    <3> QED
      BY <1>5, <2>1, <2>2, <3>2, <3>4
  <2>3. CASE set_done(b)
    <3>1. /\ pc[b] = "set_done" /\ UNCHANGED d_done
          /\ idx[b] \in DOMAIN fs(b) /\ fs(b)[idx[b]] \in Bufs /\ DOMAIN fs(b) = 1 .. Len(fs(b))
          /\ buf_done' = [buf_done EXCEPT ![fs(b)[idx[b]]] = TRUE]
          /\ \/ pc'[b] = "set_done" /\ idx'[b] = idx[b] + 1
             \/ pc'[b] = "notify" /\ idx[b] = Len(fs(b))
          /\ \/ Writer[fs(b)[idx[b]]] = b
             \/ \E j \in DOMAIN Rdrs[fs(b)[idx[b]]] : Rdrs[fs(b)[idx[b]]][j] = b
      BY <2>3, SetDoneFact DEF fs
    <3>2. d_done[b]
      BY <1>2, <3>1
    <3>3. /\ \A f \in Bufs : buf_done[f] => buf_done'[f]
          /\ buf_done'[fs(b)[idx[b]]]
          /\ \A f \in Bufs : buf_done'[f] => buf_done[f] \/ f = fs(b)[idx[b]]
      BY <1>1, <3>1
    <3>4. Place(b)'
      BY <3>1, <3>2
    <3>5. ASSUME NEW k \in DOMAIN fs(b), pc'[b] = "set_done" => k < idx'[b]
          PROVE  buf_done'[fs(b)[k]]
      <4>1. k < idx[b] \/ k = idx[b]
        <5>1. k \in Nat /\ idx[b] \in Nat /\ k \in 1 .. Len(fs(b))
          BY <1>1, <3>1
        <5>2. Len(fs(b)) \in Nat
          BY BuffersFact DEF fs
        <5> QED
          BY <3>1, <3>5, <5>1, <5>2
      <4>2. k < idx[b] => buf_done[fs(b)[k]]
        BY <1>2, <3>2
      <4> QED
        BY <1>4, <3>3, <4>1, <4>2
    <3>6. Flags(b)'
      BY <3>5 DEF fs
    <3>7. \A f \in Bufs : Cause(f)'
      BY <1>2, <3>1, <3>2, <3>3
    <3> QED
      BY <1>5, <2>1, <3>3, <3>4, <3>6, <3>7
  <2>4. CASE /\ UNCHANGED <<d_done, buf_done>> /\ pc'[b] # "set_done"
             /\ pc[b] \notin {"set_done", "exited"}
             /\ pc[b] = "notify" => pc'[b] \in {"notify", "exited"} \/ ~d_done[b]
    <3>1. Place(b) /\ Flags(b)
      BY <1>2
    <3>2. Place(b)'
      BY <2>4, <3>1
    <3>3. Flags(b)'
      BY <2>4, <3>1 DEF fs
    <3>4. \A f \in Bufs : Cause(f)'
      BY <1>2, <2>4
    <3> QED
      BY <1>5, <2>1, <2>4, <3>2, <3>3, <3>4
  <2> QED
    BY <1>7, <2>2, <2>3, <2>4, DoneStep
<1> QED
  BY <1>6, <1>7, Zenon DEF Next, Own

-----------------------------------------------------------------------------
(* Whatever changes next to a thread, it has been told of or will be. *)

\* The space in a buffer depends on what is in front of its readers.
LEMMA SpaceSame ==
  ASSUME NEW f \in Bufs,
         \A q \in Blocks : \A i \in DOMAIN Ins[q] : Ins[q][i] = f =>
           items_available(q, Ins[q][i])' = items_available(q, Ins[q][i])
  PROVE  space_available(f)' = space_available(f)
<1>1. ASSUME NEW j \in DOMAIN Rdrs[f]
      PROVE  items_available(Rdrs[f][j], f)' = items_available(Rdrs[f][j], f)
  <2>1. Rdrs[f][j] \in Blocks /\ \E i \in DOMAIN Ins[Rdrs[f][j]] : Ins[Rdrs[f][j]][i] = f
    BY ReaderFact
  <2>2. PICK i \in DOMAIN Ins[Rdrs[f][j]] : Ins[Rdrs[f][j]][i] = f
    BY <2>1
  <2>3. items_available(Rdrs[f][j], Ins[Rdrs[f][j]][i])'
          = items_available(Rdrs[f][j], Ins[Rdrs[f][j]][i])
    BY <2>1, <2>2
  <2> QED
    BY <2>2, <2>3 DEF items_available
<1>2. {items_available(Rdrs[f][j], f)' : j \in DOMAIN Rdrs[f]}
        = {items_available(Rdrs[f][j], f) : j \in DOMAIN Rdrs[f]}
  BY <1>1
<1> QED
  BY <1>2 DEF space_available, items_available

\* A block upstream of q has not moved and is not done since, unless q is told.
LEMMA StillShort ==
  ASSUME TpbInv, [Next]_vars, NEW q \in Blocks, NEW i \in DOMAIN Ins[q],
         pc[q] # "consume", ~clear_changed(q)
  PROVE  \/ Told(q, "input")'
         \/ /\ items_available(q, Ins[q][i])' = items_available(q, Ins[q][i])
            /\ d_done'[Writer[Ins[q][i]]] = d_done[Writer[Ins[q][i]]]
<1> DEFINE f == Ins[q][i]
<1>1. f \in Bufs /\ Writer[f] \in Blocks /\ DOMAIN d_done = Blocks /\ DOMAIN pc = Blocks
  BY PortFact, ReaderFact DEF TpbInv, TypeOK
<1>2. CASE \/ \E b \in Blocks : SpuriousWakeup(b) \/ post(b) \/ Interrupt(b)
           \/ stop \/ UNCHANGED vars
  <2>1. UNCHANGED <<written, items_read, d_done>>
    BY <1>2, OutsideCalm DEF bufVars
  <2> QED
    BY <2>1, StillFact
<1>3. ASSUME NEW b \in Blocks, Own(b)
      PROVE  \/ Told(q, "input")'
             \/ /\ items_available(q, f)' = items_available(q, f)
                /\ d_done'[Writer[f]] = d_done[Writer[f]]
  <2>1. Told(q, "input")' \/ items_available(q, f)' = items_available(q, f)
    <3>1. CASE Quiet(b)
      <4>1. UNCHANGED <<written, items_read>>
        BY <3>1, QuietFact
      <4> QED
        BY <4>1, StillFact
    <3>2. CASE consume_each(b)
      BY <3>2, ConsumeFact
    <3>3. CASE produce_each(b)
      <4>1. pc[b] = "produce" /\ idx[b] \in DOMAIN Outs[b]
            /\ (f # Outs[b][idx[b]] => items_available(q, f)' = items_available(q, f))
        BY <3>3, ProduceFact
      <4>2. CASE f = Outs[b][idx[b]]
        <5>1. Writer[f] = b
          <6>1. Writer[Outs[b][idx[b]]] = b
            BY <4>1, PortFact
          <6> QED
            BY <4>2, <6>1
        <5>2. OwesNotice(q, "input")
          BY <4>1, <5>1, OwesFact
        <5>3. Told(q, "input")
          BY <5>2 DEF Told
        <5> QED
          BY <5>3, ToldKept
      <4> QED
        BY <4>1, <4>2
    <3> QED
      BY <1>3, <3>1, <3>2, <3>3, Zenon DEF Own, Thread, Quiet
  <2>2. Told(q, "input")' \/ d_done'[Writer[f]] = d_done[Writer[f]]
    <3>1. CASE WereDone(b)
      <4>1. pc'[b] = "set_done" /\ (Writer[f] # b => d_done'[Writer[f]] = d_done[Writer[f]])
        BY <1>1, <3>1 DEF WereDone, Goto
      <4>2. Writer[f] = b => OwesNotice(q, "input")'
        BY <4>1, OwesFact
      <4> QED
        BY <4>1, <4>2 DEF Told
    <3>2. CASE set_done(b)
      BY <3>2, SetDoneFact
    <3> QED
      BY <1>3, <3>1, <3>2, DoneStep
  <2> QED
    BY <2>1, <2>2
<1> QED
  BY <1>2, <1>3, Zenon DEF Next, Own

\* A block downstream of q has not moved and is not done since, unless q is told.
LEMMA StillFull ==
  ASSUME TpbInv, [Next]_vars, NEW q \in Blocks, NEW o \in DOMAIN Outs[q],
         pc[q] # "produce", ~clear_changed(q)
  PROVE  \/ Told(q, "output")'
         \/ /\ space_available(Outs[q][o])' = space_available(Outs[q][o])
            /\ \A j \in DOMAIN Rdrs[Outs[q][o]] :
                 d_done'[Rdrs[Outs[q][o]][j]] = d_done[Rdrs[Outs[q][o]][j]]
<1> DEFINE f == Outs[q][o]
<1>1. /\ f \in Bufs /\ Writer[f] = q /\ DOMAIN d_done = Blocks /\ DOMAIN pc = Blocks
      /\ \A j \in DOMAIN Rdrs[f] : Rdrs[f][j] \in Blocks
  <2>1. f \in Bufs /\ Writer[f] = q
    BY PortFact
  <2>2. \A j \in DOMAIN Rdrs[f] : Rdrs[f][j] \in Blocks
    BY <2>1, ReaderFact
  <2>3. DOMAIN d_done = Blocks /\ DOMAIN pc = Blocks
    BY DEF TpbInv, TypeOK
  <2> QED
    BY <2>1, <2>2, <2>3
<1> HIDE DEF f
<1>2. CASE \/ \E b \in Blocks : SpuriousWakeup(b) \/ post(b) \/ Interrupt(b)
           \/ stop \/ UNCHANGED vars
  <2>1. UNCHANGED <<written, items_read, d_done>>
    BY <1>2, OutsideCalm DEF bufVars
  <2>2. space_available(f)' = space_available(f)
    BY <1>1, <2>1, StillFact, SpaceSame
  <2> QED
    BY <2>1, <2>2 DEF f
<1>3. ASSUME NEW b \in Blocks, Own(b)
      PROVE  \/ Told(q, "output")'
             \/ /\ space_available(f)' = space_available(f)
                /\ \A j \in DOMAIN Rdrs[f] : d_done'[Rdrs[f][j]] = d_done[Rdrs[f][j]]
  <2>1. Told(q, "output")' \/ space_available(f)' = space_available(f)
    <3>1. CASE Quiet(b)
      <4>1. UNCHANGED <<written, items_read>>
        BY <3>1, QuietFact
      <4> QED
        BY <1>1, <4>1, StillFact, SpaceSame
    <3>2. CASE consume_each(b)
      <4>1. CASE \E j \in DOMAIN Rdrs[f] : Rdrs[f][j] = b
        <5>1. pc[b] = "consume"
          BY <3>2, ConsumeFact
        <5>2. OwesNotice(q, "output")
          BY <4>1, <5>1, OwesFact DEF f
        <5>3. Told(q, "output")
          BY <5>2 DEF Told
        <5> QED
          BY <5>3, ToldKept
      <4>2. CASE ~\E j \in DOMAIN Rdrs[f] : Rdrs[f][j] = b
        <5>1. \A i \in DOMAIN Ins[b] : Ins[b][i] # f
          BY <4>2, ReadsFact
        <5>2. \A p \in Blocks : \A i \in DOMAIN Ins[p] : Ins[p][i] = f =>
                items_available(p, Ins[p][i])' = items_available(p, Ins[p][i])
          BY <3>2, <5>1, ConsumeFact
        <5> QED
          BY <1>1, <5>2, SpaceSame
      <4> QED
        BY <4>1, <4>2
    <3>3. CASE produce_each(b)
      <4>1. pc[b] = "produce" /\ idx[b] \in DOMAIN Outs[b]
        BY <3>3, ProduceFact
      <4>2. Writer[Outs[b][idx[b]]] = b
        BY <4>1, PortFact
      <4>3. f # Outs[b][idx[b]]
        BY <1>1, <4>1, <4>2
      <4>4. \A p \in Blocks : \A i \in DOMAIN Ins[p] : Ins[p][i] = f =>
              items_available(p, Ins[p][i])' = items_available(p, Ins[p][i])
        BY <3>3, <4>3, ProduceFact
      <4> QED
        BY <1>1, <4>4, SpaceSame
    <3> QED
      BY <1>3, <3>1, <3>2, <3>3, Zenon DEF Own, Thread, Quiet
  <2>2. Told(q, "output")' \/ \A j \in DOMAIN Rdrs[f] : d_done'[Rdrs[f][j]] = d_done[Rdrs[f][j]]
    <3>1. CASE WereDone(b)
      <4>1. pc'[b] = "set_done"
            /\ \A j \in DOMAIN Rdrs[f] :
                 Rdrs[f][j] # b => d_done'[Rdrs[f][j]] = d_done[Rdrs[f][j]]
        BY <1>1, <3>1 DEF WereDone, Goto
      <4>2. (\E j \in DOMAIN Rdrs[f] : Rdrs[f][j] = b) => OwesNotice(q, "output")'
        BY <4>1, OwesFact DEF f
      <4> QED
        BY <4>1, <4>2 DEF Told
    <3>2. CASE set_done(b)
      BY <3>2, SetDoneFact
    <3> QED
      BY <1>3, <3>1, <3>2, DoneStep
  <2> QED
    BY <2>1, <2>2
<1>4. \/ Told(q, "output")'
      \/ /\ space_available(f)' = space_available(f)
         /\ \A j \in DOMAIN Rdrs[f] : d_done'[Rdrs[f][j]] = d_done[Rdrs[f][j]]
  BY <1>2, <1>3, Zenon DEF Next, Own, f
<1> QED
  BY <1>4 DEF f

\* Why a thread may go to sleep.
WaitsIn(b)  == Told(b, "input") \/ \E i \in InputShort(b) : ~d_done[Writer[Ins[b][i]]]
WaitsOut(b) == \/ Told(b, "output")
               \/ \E o \in OutputFull(b) : \A j \in DOMAIN Rdrs[Outs[b][o]] :
                    ~d_done[Rdrs[Outs[b][o]][j]]

\* SeenInv and SleepInv in these terms.
LEMMA SleepFact ==
  ASSUME NEW b \in Blocks
  PROVE  /\ SleepInv(b) <=>
              /\ pc[b] = "wait_in" => ~input_changed[b]
              /\ pc[b] = "wait_out" => ~output_changed[b]
              /\ pc[b] \in {"blkd_in", "msgs_in", "wait_in"} => WaitsIn(b)
              /\ pc[b] \in {"blkd_out", "msgs_out", "wait_out"} => WaitsOut(b)
         /\ SleepInv(b)' <=>
              /\ pc'[b] = "wait_in" => ~input_changed'[b]
              /\ pc'[b] = "wait_out" => ~output_changed'[b]
              /\ pc'[b] \in {"blkd_in", "msgs_in", "wait_in"} => WaitsIn(b)'
              /\ pc'[b] \in {"blkd_out", "msgs_out", "wait_out"} => WaitsOut(b)'
         /\ SeenInv(b) <=> \A i \in DOMAIN d_ninput_items[b] :
              /\ \/ Told(b, "input")
                 \/ /\ d_ninput_items[b][i] = items_available(b, Ins[b][i])
                    /\ d_input_done[b][i] \/ ~d_done[Writer[Ins[b][i]]]
              /\ sink_p(b) => ~(d_ninput_items[b][i] < OutputMultiple[b] /\ d_input_done[b][i])
         /\ SeenInv(b)' <=> \A i \in DOMAIN d_ninput_items'[b] :
              /\ \/ Told(b, "input")'
                 \/ /\ d_ninput_items'[b][i] = items_available(b, Ins[b][i])'
                    /\ d_input_done'[b][i] \/ ~d_done'[Writer[Ins[b][i]]]
              /\ sink_p(b) => ~(d_ninput_items'[b][i] < OutputMultiple[b] /\ d_input_done'[b][i])
<1>1. "input" # "output"
  OBVIOUS
<1>2. /\ Told(b, "input") <=> input_changed[b] \/ OwesNotice(b, "input")
      /\ Told(b, "output") <=> output_changed[b] \/ OwesNotice(b, "output")
      /\ Told(b, "input")' <=> input_changed'[b] \/ OwesNotice(b, "input")'
      /\ Told(b, "output")' <=> output_changed'[b] \/ OwesNotice(b, "output")'
  BY <1>1, Zenon DEF Told
<1>3. /\ SleepInv(b) <=>
              /\ pc[b] = "wait_in" => ~input_changed[b]
              /\ pc[b] = "wait_out" => ~output_changed[b]
              /\ pc[b] \in {"blkd_in", "msgs_in", "wait_in"} => WaitsIn(b)
              /\ pc[b] \in {"blkd_out", "msgs_out", "wait_out"} => WaitsOut(b)
      /\ SleepInv(b)' <=>
              /\ pc'[b] = "wait_in" => ~input_changed'[b]
              /\ pc'[b] = "wait_out" => ~output_changed'[b]
              /\ pc'[b] \in {"blkd_in", "msgs_in", "wait_in"} => WaitsIn(b)'
              /\ pc'[b] \in {"blkd_out", "msgs_out", "wait_out"} => WaitsOut(b)'
  BY <1>2 DEF SleepInv, WaitsIn, WaitsOut
<1>4. /\ SeenInv(b) <=> \A i \in DOMAIN d_ninput_items[b] :
              /\ \/ Told(b, "input")
                 \/ /\ d_ninput_items[b][i] = items_available(b, Ins[b][i])
                    /\ d_input_done[b][i] \/ ~d_done[Writer[Ins[b][i]]]
              /\ sink_p(b) => ~(d_ninput_items[b][i] < OutputMultiple[b] /\ d_input_done[b][i])
      /\ SeenInv(b)' <=> \A i \in DOMAIN d_ninput_items'[b] :
              /\ \/ Told(b, "input")'
                 \/ /\ d_ninput_items'[b][i] = items_available(b, Ins[b][i])'
                    /\ d_input_done'[b][i] \/ ~d_done'[Writer[Ins[b][i]]]
              /\ sink_p(b) => ~(d_ninput_items'[b][i] < OutputMultiple[b] /\ d_input_done'[b][i])
  BY <1>2 DEF SeenInv
<1> QED
  BY <1>3, <1>4

\* The reason to sleep lasts until the thread is told.
LEMMA WaitsKept ==
  ASSUME TpbInv, [Next]_vars, NEW q \in Blocks, pc[q] # "clear"
  PROVE  /\ pc[q] # "consume" /\ WaitsIn(q) => WaitsIn(q)'
         /\ pc[q] # "produce" /\ WaitsOut(q) => WaitsOut(q)'
<1>1. ~clear_changed(q)
  BY DEF clear_changed
<1>2. Told(q, "input") => Told(q, "input")'
  BY <1>1, ToldKept
<1>3. Told(q, "output") => Told(q, "output")'
  BY <1>1, ToldKept
<1>4. ASSUME pc[q] # "consume", NEW i \in InputShort(q), ~d_done[Writer[Ins[q][i]]]
      PROVE  WaitsIn(q)'
  <2>1. i \in DOMAIN Ins[q] /\
        items_available(q, Ins[q][i]) < fixed_rate_noutput_to_ninput(q, OutputMultiple[q])
    BY DEF InputShort
  <2>2. \/ Told(q, "input")'
        \/ /\ items_available(q, Ins[q][i])' = items_available(q, Ins[q][i])
           /\ d_done'[Writer[Ins[q][i]]] = d_done[Writer[Ins[q][i]]]
    BY <1>1, <1>4, <2>1, StillShort
  <2>3. ASSUME items_available(q, Ins[q][i])' = items_available(q, Ins[q][i]),
               d_done'[Writer[Ins[q][i]]] = d_done[Writer[Ins[q][i]]]
        PROVE  WaitsIn(q)'
    <3>1. i \in InputShort(q)'
      BY <2>1, <2>3 DEF InputShort, fixed_rate_noutput_to_ninput
    <3>2. ~d_done'[Writer[Ins[q][i]]]
      BY <1>4, <2>3
    <3> QED
      BY <3>1, <3>2 DEF WaitsIn
  <2> QED
    BY <2>2, <2>3 DEF WaitsIn
<1>5. ASSUME pc[q] # "produce", NEW o \in OutputFull(q),
             \A j \in DOMAIN Rdrs[Outs[q][o]] : ~d_done[Rdrs[Outs[q][o]][j]]
      PROVE  WaitsOut(q)'
  <2>1. o \in DOMAIN Outs[q] /\
        MinOf({space_available(Outs[q][o]), BufSize \div 2}) < OutputMultiple[q]
    BY DEF OutputFull
  <2>2. \/ Told(q, "output")'
        \/ /\ space_available(Outs[q][o])' = space_available(Outs[q][o])
           /\ \A j \in DOMAIN Rdrs[Outs[q][o]] :
                d_done'[Rdrs[Outs[q][o]][j]] = d_done[Rdrs[Outs[q][o]][j]]
    BY <1>1, <1>5, <2>1, StillFull
  <2>3. ASSUME space_available(Outs[q][o])' = space_available(Outs[q][o]),
               \A j \in DOMAIN Rdrs[Outs[q][o]] :
                 d_done'[Rdrs[Outs[q][o]][j]] = d_done[Rdrs[Outs[q][o]][j]]
        PROVE  WaitsOut(q)'
    <3>1. o \in OutputFull(q)'
      BY <2>1, <2>3 DEF OutputFull
    <3>2. \A j \in DOMAIN Rdrs[Outs[q][o]] : ~d_done'[Rdrs[Outs[q][o]][j]]
      BY <1>5, <2>3
    <3> QED
      BY <3>1, <3>2 DEF WaitsOut
  <2> QED
    BY <2>2, <2>3 DEF WaitsOut
<1>6. pc[q] # "consume" /\ WaitsIn(q) => WaitsIn(q)'
  BY <1>2, <1>4 DEF WaitsIn
<1>7. pc[q] # "produce" /\ WaitsOut(q) => WaitsOut(q)'
  BY <1>3, <1>5 DEF WaitsOut
<1> QED
  BY <1>6, <1>7

\* A block that is done and has not set the flag of one of its buffers is still at it.
LEMMA DoneSoon ==
  ASSUME DoneInv, NEW w \in Blocks, d_done[w], NEW f, ~buf_done[f],
         (\E o \in DOMAIN Outs[w] : Outs[w][o] = f) \/ (\E i \in DOMAIN Ins[w] : Ins[w][i] = f)
  PROVE  pc[w] = "set_done"
<1>1. PICK k \in DOMAIN (Outs[w] \o Ins[w]) : (Outs[w] \o Ins[w])[k] = f
  <2>1. /\ \A o \in DOMAIN Outs[w] : \E k \in DOMAIN (Outs[w] \o Ins[w]) :
             (Outs[w] \o Ins[w])[k] = Outs[w][o]
        /\ \A i \in DOMAIN Ins[w] : \E k \in DOMAIN (Outs[w] \o Ins[w]) :
             (Outs[w] \o Ins[w])[k] = Ins[w][i]
    BY BuffersFact, Zenon
  <2>2. CASE \E o \in DOMAIN Outs[w] : Outs[w][o] = f
    <3>1. PICK o \in DOMAIN Outs[w] : Outs[w][o] = f
      BY <2>2
    <3>2. \E j \in DOMAIN (Outs[w] \o Ins[w]) : (Outs[w] \o Ins[w])[j] = Outs[w][o]
      BY <2>1, <3>1, Zenon
    <3> QED
      BY <3>1, <3>2, Zenon
  <2>3. CASE \E i \in DOMAIN Ins[w] : Ins[w][i] = f
    <3>1. PICK i \in DOMAIN Ins[w] : Ins[w][i] = f
      BY <2>3
    <3>2. \E j \in DOMAIN (Outs[w] \o Ins[w]) : (Outs[w] \o Ins[w])[j] = Ins[w][i]
      BY <2>1, <3>1, Zenon
    <3> QED
      BY <3>1, <3>2, Zenon
  <2> QED
    BY <2>2, <2>3
<1>2. (pc[w] = "set_done" => k < idx[w]) => buf_done[(Outs[w] \o Ins[w])[k]]
  BY DEF DoneInv
<1> QED
  BY <1>1, <1>2, Zenon

\* What ReadInput has just seen is so, or the thread will be told.
LEMMA SeenNow ==
  ASSUME TpbInv, DoneInv, NEW b \in Blocks, SeenInv(b), pc[b] = "inputs"
  PROVE  \A i \in DOMAIN Seen(b) :
           \/ Told(b, "input")
           \/ /\ Seen(b)[i] = items_available(b, Ins[b][i])
              /\ SeenDone(b)[i] \/ ~d_done[Writer[Ins[b][i]]]
<1> SUFFICES ASSUME NEW i \in DOMAIN Seen(b), ~Told(b, "input")
             PROVE  /\ Seen(b)[i] = items_available(b, Ins[b][i])
                    /\ SeenDone(b)[i] \/ ~d_done[Writer[Ins[b][i]]]
  OBVIOUS
<1>1. /\ i \in DOMAIN Ins[b]
      /\ \/ /\ i = idx[b]
            /\ Seen(b)[i] = items_available(b, Ins[b][i])
            /\ SeenDone(b)[i] = buf_done[Ins[b][i]]
         \/ /\ i \in DOMAIN d_ninput_items[b]
            /\ Seen(b)[i] = d_ninput_items[b][i]
            /\ SeenDone(b)[i] = d_input_done[b][i]
  BY SeenFact
<1>2. CASE /\ i \in DOMAIN d_ninput_items[b]
           /\ Seen(b)[i] = d_ninput_items[b][i]
           /\ SeenDone(b)[i] = d_input_done[b][i]
  <2>1. /\ d_ninput_items[b][i] = items_available(b, Ins[b][i])
        /\ d_input_done[b][i] \/ ~d_done[Writer[Ins[b][i]]]
    BY <1>2, SleepFact
  <2> QED
    BY <1>2, <2>1
<1>3. CASE /\ Seen(b)[i] = items_available(b, Ins[b][i])
           /\ SeenDone(b)[i] = buf_done[Ins[b][i]]
  <2>1. ASSUME ~buf_done[Ins[b][i]], d_done[Writer[Ins[b][i]]] PROVE FALSE
    <3>1. Ins[b][i] \in Bufs
      BY <1>1, PortFact
    <3>2. /\ Writer[Ins[b][i]] \in Blocks
          /\ \E o \in DOMAIN Outs[Writer[Ins[b][i]]] : Outs[Writer[Ins[b][i]]][o] = Ins[b][i]
      BY <3>1, ReaderFact
    <3>3. pc[Writer[Ins[b][i]]] = "set_done"
      BY <2>1, <3>2, DoneSoon
    <3>4. OwesNotice(b, "input")
      BY <1>1, <3>3, OwesFact
    <3> QED
      BY <3>4 DEF Told
  <2> QED
    BY <1>3, <2>1
<1> QED
  BY <1>1, <1>2, <1>3

-----------------------------------------------------------------------------
(* No wakeup is lost. *)

\* Only ReadInput and MinAvailableSpace use the snapshots.
LEMMA OwnSnap ==
  ASSUME TpbInv, NEW b \in Blocks, Own(b), ~ReadInput(b), ~MinAvailableSpace(b)
  PROVE  d_ninput_items'[b] = <<>> /\ d_ninput_items[b] = <<>>
<1>1. UNCHANGED d_ninput_items /\ pc[b] \notin {"inputs", "outputs"}
  <2>1. CASE Work(b)
    BY <2>1, WorkFact DEF snapVars
  <2>2. CASE Notify(b)
    BY <2>2, Zenon DEF Notify, snapVars
  <2>3. CASE set_done(b)
    BY <2>3, Zenon DEF set_done, snapVars
  <2>4. CASE Top(b) \/ Drain(b) \/ clear_changed(b) \/ NotifyEnd(b)
    BY <2>4 DEF Top, Drain, clear_changed, NotifyEnd, snapVars
  <2>5. CASE consume_each(b) \/ produce_each(b)
    BY <2>5 DEF consume_each, produce_each, snapVars
  <2>6. CASE BlkdIn(b) \/ BlkdOut(b)
    BY <2>6 DEF BlkdIn, BlkdOut, Blocked, snapVars
  <2>7. CASE WaitInterrupted(b) \/ WorkThrows(b)
    BY <2>7 DEF WaitInterrupted, WorkThrows, snapVars
  <2> QED
    BY <2>1, <2>2, <2>3, <2>4, <2>5, <2>6, <2>7 DEF Own, Thread
<1> QED
  BY <1>1, Rests

\* What a thread has seen of its inputs stays true, or the thread is told.
LEMMA NextSeen ==
  ASSUME TpbInv, DoneInv, [Next]_vars, NEW q \in Blocks, SeenInv(q)
  PROVE  SeenInv(q)'
<1>1. ASSUME d_ninput_items'[q] = <<>> PROVE SeenInv(q)'
  <2>1. DOMAIN <<>> = {}
    OBVIOUS
  <2> QED
    BY <1>1, <2>1, SleepFact
<1>2. ASSUME d_ninput_items'[q] = d_ninput_items[q], d_input_done'[q] = d_input_done[q],
             pc[q] \in {"inputs", "outputs"}
      PROVE  SeenInv(q)'
  <2>1. ~clear_changed(q) /\ pc[q] # "consume"
    BY <1>2 DEF clear_changed
  <2>2. ASSUME NEW i \in DOMAIN d_ninput_items[q]
        PROVE  /\ \/ Told(q, "input")'
                  \/ /\ d_ninput_items[q][i] = items_available(q, Ins[q][i])'
                     /\ d_input_done[q][i] \/ ~d_done'[Writer[Ins[q][i]]]
               /\ sink_p(q) => ~(d_ninput_items[q][i] < OutputMultiple[q] /\ d_input_done[q][i])
    <3>1. /\ \/ Told(q, "input")
             \/ /\ d_ninput_items[q][i] = items_available(q, Ins[q][i])
                /\ d_input_done[q][i] \/ ~d_done[Writer[Ins[q][i]]]
          /\ sink_p(q) => ~(d_ninput_items[q][i] < OutputMultiple[q] /\ d_input_done[q][i])
      BY SleepFact
    <3>2. i \in DOMAIN Ins[q]
      <4>1. d_ninput_items[q] \in Seq(0 .. BufSize - 1) /\ Len(d_ninput_items[q]) <= Len(Ins[q])
        BY DEF TpbInv, TypeOK
      <4>2. DOMAIN Ins[q] = 1 .. Len(Ins[q]) /\ Len(Ins[q]) \in Nat
        BY PortFact
      <4> QED
        BY <4>1, <4>2
    <3>3. Told(q, "input") => Told(q, "input")'
      BY <2>1, ToldKept
    <3>4. \/ Told(q, "input")'
          \/ /\ items_available(q, Ins[q][i])' = items_available(q, Ins[q][i])
             /\ d_done'[Writer[Ins[q][i]]] = d_done[Writer[Ins[q][i]]]
      BY <2>1, <3>2, StillShort
    <3> QED
      BY <3>1, <3>3, <3>4, Zenon
  <2> QED
    BY <1>2, <2>2, SleepFact
<1>3. CASE Calm(q)
  <2>1. d_ninput_items'[q] = d_ninput_items[q] /\ d_input_done'[q] = d_input_done[q]
    BY <1>3 DEF Calm
  <2>2. pc[q] \notin {"inputs", "outputs"} => d_ninput_items'[q] = <<>>
    BY <2>1, Rests
  <2> QED
    BY <1>1, <1>2, <2>1, <2>2
<1>4. CASE ReadInput(q)
  <2>1. /\ pc[q] = "inputs" /\ UNCHANGED <<written, items_read, todo, input_changed>>
        /\ DOMAIN d_ninput_items = Blocks /\ DOMAIN d_input_done = Blocks
    BY <1>4, ReadFact DEF bufVars, tpbVars, TpbInv, TypeOK
  <2>2. ASSUME ForgetSnapshots(q) PROVE SeenInv(q)'
    BY <1>1, <2>2, Rests
  <2>3. ASSUME d_ninput_items' = [d_ninput_items EXCEPT ![q] = Seen(q)],
               d_input_done' = [d_input_done EXCEPT ![q] = SeenDone(q)], UNCHANGED d_done,
               sink_p(q) => ~(/\ items_available(q, Ins[q][idx[q]]) < OutputMultiple[q]
                              /\ buf_done[Ins[q][idx[q]]])
        PROVE  SeenInv(q)'
    <3>1. d_ninput_items'[q] = Seen(q) /\ d_input_done'[q] = SeenDone(q)
      BY <2>1, <2>3
    <3>2. ASSUME NEW i \in DOMAIN Seen(q)
          PROVE  /\ \/ Told(q, "input")'
                    \/ /\ Seen(q)[i] = items_available(q, Ins[q][i])'
                       /\ SeenDone(q)[i] \/ ~d_done'[Writer[Ins[q][i]]]
                 /\ sink_p(q) => ~(Seen(q)[i] < OutputMultiple[q] /\ SeenDone(q)[i])
      <4>1. \/ Told(q, "input")
            \/ /\ Seen(q)[i] = items_available(q, Ins[q][i])
               /\ SeenDone(q)[i] \/ ~d_done[Writer[Ins[q][i]]]
        BY <2>1, SeenNow
      <4>2. ~clear_changed(q)
        BY <2>1 DEF clear_changed
      <4>3. Told(q, "input") => Told(q, "input")'
        BY <4>2, ToldKept
      <4>4. items_available(q, Ins[q][i])' = items_available(q, Ins[q][i]) /\ d_done' = d_done
        BY <2>1, <2>3, StillFact
      <4>5. \/ /\ i = idx[q]
               /\ Seen(q)[i] = items_available(q, Ins[q][i])
               /\ SeenDone(q)[i] = buf_done[Ins[q][i]]
            \/ /\ i \in DOMAIN d_ninput_items[q]
               /\ Seen(q)[i] = d_ninput_items[q][i]
               /\ SeenDone(q)[i] = d_input_done[q][i]
        BY <2>1, SeenFact
      <4>6. \A k \in DOMAIN d_ninput_items[q] :
              sink_p(q) => ~(d_ninput_items[q][k] < OutputMultiple[q] /\ d_input_done[q][k])
        BY SleepFact
      <4>7. sink_p(q) => ~(Seen(q)[i] < OutputMultiple[q] /\ SeenDone(q)[i])
        BY <2>3, <4>5, <4>6
      <4> QED
        BY <4>1, <4>3, <4>4, <4>7, Zenon
    <3> QED
      BY <3>1, <3>2, SleepFact
  <2> QED
    BY <1>4, <2>2, <2>3, ReadFact
<1>5. CASE MinAvailableSpace(q)
  <2>1. pc[q] = "outputs"
    BY <1>5, MinSpaceFact
  <2>2. ForgetSnapshots(q) \/ UNCHANGED <<d_ninput_items, d_input_done>>
    BY <1>5, MinSpaceFact
  <2> QED
    BY <1>1, <1>2, <2>1, <2>2, Rests
<1>6. ASSUME NEW b \in Blocks, Own(b) PROVE SeenInv(q)'
  <2>1. CASE q # b
    BY <1>3, <1>6, <2>1, OthersCalm
  <2>2. CASE q = b
    BY <1>1, <1>4, <1>5, <1>6, <2>2, OwnSnap
  <2> QED
    BY <2>1, <2>2
<1>7. CASE \/ \E b \in Blocks : SpuriousWakeup(b) \/ post(b) \/ Interrupt(b)
           \/ stop \/ UNCHANGED vars
  BY <1>3, <1>7, OutsideCalm
<1> QED
  BY <1>6, <1>7, Zenon DEF Next, Own

\* An input that was seen to be short and not done is a reason to wait.
LEMMA ShortIn ==
  ASSUME NEW b \in Blocks, NEW i \in DOMAIN Ins[b], NEW k,
         k < fixed_rate_noutput_to_ninput(b, OutputMultiple[b]),
         \/ Told(b, "input")
         \/ k = items_available(b, Ins[b][i]) /\ ~d_done[Writer[Ins[b][i]]]
  PROVE  WaitsIn(b)
<1>1. CASE Told(b, "input")
  BY <1>1 DEF WaitsIn
<1>2. CASE k = items_available(b, Ins[b][i]) /\ ~d_done[Writer[Ins[b][i]]]
  <2>1. i \in InputShort(b)
    BY <1>2 DEF InputShort
  <2> QED
    BY <1>2, <2>1 DEF WaitsIn
<1> QED
  BY <1>1, <1>2

\* Where Decide leaves a thread that it sends to wait for input.
LEMMA DecideWaits ==
  ASSUME TpbInv, NEW b \in Blocks, NEW ninput \in Seq(0 .. BufSize - 1), ninput # <<>>, NEW done,
         NEW nout \in Nat, Decide(b, ninput, done, nout), pc'[b] = "blkd_in"
  PROVE  \E i \in DOMAIN ninput :
           ninput[i] < fixed_rate_noutput_to_ninput(b, OutputMultiple[b]) /\ ~done[i]
<1>1. DOMAIN pc = Blocks
  BY DEF TpbInv, TypeOK
<1>2. ~Goto(b, "work") /\ ~WereDone(b)
  BY <1>1 DEF Goto, WereDone
<1> QED
  BY <1>2, DecideFact

\* A thread that run_one_iteration sends to wait for input has a reason to.
LEMMA EntersIn ==
  ASSUME TpbInv, DoneInv, SyncSinks, NEW b \in Blocks, SeenInv(b),
         ReadInput(b) \/ MinAvailableSpace(b), pc'[b] = "blkd_in"
  PROVE  WaitsIn(b)
<1>1. DOMAIN pc = Blocks
  BY DEF TpbInv, TypeOK
<1>2. ~WereDone(b) /\ ~Goto(b, "outputs") /\ ~Goto(b, "work") /\ ~Goto(b, "blkd_out")
  BY <1>1 DEF Goto, WereDone
<1>3. CASE ReadInput(b)
  <2>1. pc[b] = "inputs"
    BY <1>3, ReadFact
  <2>2. /\ Seen(b) \in Seq(0 .. BufSize - 1) /\ Seen(b) # <<>>
        /\ idx[b] \in DOMAIN Ins[b] /\ Len(Seen(b)) = idx[b] /\ idx[b] \in 1 .. Len(Ins[b])
        /\ \A i \in DOMAIN Seen(b) : i \in DOMAIN Ins[b]
    BY <2>1, SeenFact
  <2>3. \A i \in DOMAIN Seen(b) :
          \/ Told(b, "input")
          \/ /\ Seen(b)[i] = items_available(b, Ins[b][i])
             /\ SeenDone(b)[i] \/ ~d_done[Writer[Ins[b][i]]]
    BY <2>1, SeenNow
  <2>4. ASSUME sink_p(b), \A i \in DOMAIN Seen(b) : Seen(b)[i] < OutputMultiple[b] * Decimation[b],
               sink_p(b) => ~(/\ items_available(b, Ins[b][idx[b]]) < OutputMultiple[b]
                              /\ buf_done[Ins[b][idx[b]]])
        PROVE  WaitsIn(b)
    <3>1. idx[b] \in DOMAIN Seen(b)
      <4>1. DOMAIN Seen(b) = 1 .. Len(Seen(b))
        BY <2>2
      <4> QED
        BY <2>2, <4>1
    <3>2. Last(Seen(b)) = items_available(b, Ins[b][idx[b]])
          /\ Last(SeenDone(b)) = buf_done[Ins[b][idx[b]]]
      BY <2>1, SeenFact
    <3>3. idx[b] \notin DOMAIN d_ninput_items[b]
      <4>1. DOMAIN d_ninput_items[b] = 1 .. idx[b] - 1
        BY <2>1, SeenFact
      <4>2. idx[b] \in Nat
        BY DEF TpbInv, TypeOK
      <4> QED
        BY <4>1, <4>2
    <3>4. Seen(b)[idx[b]] = items_available(b, Ins[b][idx[b]])
          /\ SeenDone(b)[idx[b]] = buf_done[Ins[b][idx[b]]]
      BY <2>1, <3>1, <3>3, SeenFact
    <3>5. Decimation[b] = 1 /\ OutputMultiple[b] \in Nat /\ History[b] \in Nat \ {0}
      BY <2>4, SizeAssumption DEF SyncSinks
    <3>6. Seen(b)[idx[b]] \in Int
      BY <2>2, <3>1, SnapshotRange
    <3>7. Seen(b)[idx[b]] < OutputMultiple[b]
      BY <2>4, <3>1, <3>5
    <3>8. ~SeenDone(b)[idx[b]]
      BY <2>4, <3>4, <3>7
    <3>9. Seen(b)[idx[b]] < fixed_rate_noutput_to_ninput(b, OutputMultiple[b])
      BY <3>5, <3>6, <3>7 DEF fixed_rate_noutput_to_ninput
    <3> QED
      BY <2>2, <2>3, <3>1, <3>8, <3>9, ShortIn
  <2>5. ASSUME NEW k \in 0 .. BufSize - 1, Decide(b, Seen(b), SeenDone(b), k)
        PROVE  WaitsIn(b)
    <3>1. k \in Nat
      BY SizeAssumption
    <3>2. PICK i \in DOMAIN Seen(b) :
            /\ Seen(b)[i] < fixed_rate_noutput_to_ninput(b, OutputMultiple[b])
            /\ ~SeenDone(b)[i]
      BY <2>2, <2>5, <3>1, DecideWaits
    <3> QED
      BY <2>2, <2>3, <3>2, ShortIn
  <2>6. ~UNCHANGED pc
    BY <2>1
  <2> QED
    BY <1>2, <1>3, <2>4, <2>5, <2>6, ReadFact
<1>4. CASE MinAvailableSpace(b)
  <2>1. pc[b] = "outputs"
    BY <1>4, MinSpaceFact
  <2>2. /\ d_ninput_items[b] \in Seq(0 .. BufSize - 1) /\ Len(d_ninput_items[b]) = Len(Ins[b])
    BY <2>1 DEF TpbInv, TypeOK, LoopInv
  <2>3. DOMAIN d_ninput_items[b] = DOMAIN Ins[b]
    BY <2>2, PortFact
  <2>4. ASSUME NEW nout \in 0 .. BufSize - 1, ~source_p(b),
               Decide(b, d_ninput_items[b], d_input_done[b], nout)
        PROVE  WaitsIn(b)
    <3>1. nout \in Nat /\ d_ninput_items[b] # <<>>
      <4>1. nout \in Nat
        BY SizeAssumption
      <4>2. Len(Ins[b]) # 0
        BY <2>4, PortFact
      <4> QED
        BY <2>2, <4>1, <4>2
    <3>2. PICK i \in DOMAIN d_ninput_items[b] :
            /\ d_ninput_items[b][i] < fixed_rate_noutput_to_ninput(b, OutputMultiple[b])
            /\ ~d_input_done[b][i]
      BY <2>2, <2>4, <3>1, DecideWaits
    <3>3. \/ Told(b, "input")
          \/ /\ d_ninput_items[b][i] = items_available(b, Ins[b][i])
             /\ d_input_done[b][i] \/ ~d_done[Writer[Ins[b][i]]]
      BY SleepFact
    <3> QED
      BY <2>3, <3>2, <3>3, ShortIn
  <2>5. ~UNCHANGED pc
    BY <2>1
  <2> QED
    BY <1>2, <1>4, <2>4, <2>5, MinSpaceFact
<1> QED
  BY <1>3, <1>4

\* A thread that run_one_iteration sends to wait for space has a reason to.
LEMMA EntersOut ==
  ASSUME TpbInv, DoneInv, NEW b \in Blocks, Own(b), pc'[b] = "blkd_out", pc[b] # "blkd_out"
  PROVE  WaitsOut(b) /\ pc[b] = "outputs"
<1>1. DOMAIN pc = Blocks
  BY DEF TpbInv, TypeOK
<1>2. ~WereDone(b) /\ (\A l : Goto(b, l) => l = "blkd_out") /\ ~UNCHANGED pc
  BY <1>1 DEF Goto, WereDone
<1>3. (\A k : ~AfterWork(b, k)) /\ (\A x, y, z : ~Decide(b, x, y, z))
  BY <1>2 DEF AfterWork, Decide
<1>4. MinAvailableSpace(b)
  <2>1. ~ReadInput(b)
    BY <1>2, <1>3, ReadFact
  <2>2. ~Work(b)
    BY <1>2, <1>3, WorkFact
  <2>3. ~Notify(b)
    <3>1. ASSUME Notify(b) PROVE FALSE
      <4>1. pc[b] = "notify"
        BY <3>1, Zenon DEF Notify
      <4>2. PICK kind, p : pc' = [pc EXCEPT ![p] = Wake(p, kind)]
        BY <3>1, Zenon DEF Notify
      <4> QED
        BY <1>1, <4>1, <4>2 DEF Wake
    <3> QED
      BY <3>1
  <2>4. ~set_done(b)
    <3>1. ASSUME set_done(b) PROVE FALSE
      <4>1. UNCHANGED pc \/ AfterWork(b, 1)
        BY <3>1, Zenon DEF set_done
      <4> QED
        BY <1>2, <1>3, <4>1
    <3> QED
      BY <3>1
  <2>5. ~consume_each(b) /\ ~produce_each(b)
    BY <1>2, <1>3 DEF consume_each, produce_each
  <2>6. ~Top(b) /\ ~Drain(b) /\ ~clear_changed(b) /\ ~NotifyEnd(b)
    BY <1>2 DEF Top, Drain, clear_changed, NotifyEnd
  <2>7. ~BlkdIn(b) /\ ~BlkdOut(b)
    BY <1>2 DEF BlkdIn, BlkdOut, Blocked
  <2>8. ~WaitInterrupted(b) /\ ~WorkThrows(b)
    BY <1>2 DEF WaitInterrupted, WorkThrows
  <2> QED
    BY <2>1, <2>2, <2>3, <2>4, <2>5, <2>6, <2>7, <2>8 DEF Own, Thread
<1>5. /\ idx[b] \in DOMAIN Outs[b] /\ ~buf_done[Outs[b][idx[b]]] /\ idx[b] \in OutputFull(b)
  BY <1>2, <1>3, <1>4, MinSpaceFact
<1>6. ASSUME NEW j \in DOMAIN Rdrs[Outs[b][idx[b]]], d_done[Rdrs[Outs[b][idx[b]]][j]]
      PROVE  Told(b, "output")
  <2>1. Outs[b][idx[b]] \in Bufs
    BY <1>5, PortFact
  <2>2. /\ Rdrs[Outs[b][idx[b]]][j] \in Blocks
        /\ \E i \in DOMAIN Ins[Rdrs[Outs[b][idx[b]]][j]] :
             Ins[Rdrs[Outs[b][idx[b]]][j]][i] = Outs[b][idx[b]]
    BY <2>1, ReaderFact
  <2>3. pc[Rdrs[Outs[b][idx[b]]][j]] = "set_done"
    BY <1>5, <1>6, <2>2, DoneSoon
  <2>4. OwesNotice(b, "output")
    BY <1>5, <2>3, OwesFact
  <2> QED
    BY <2>4 DEF Told
<1>7. pc[b] = "outputs"
  BY <1>4, MinSpaceFact
<1> QED
  BY <1>5, <1>6, <1>7 DEF WaitsOut

\* Where a thread that goes to sleep, or is woken to look at its messages, comes from.
LEMMA OwnSleep ==
  ASSUME TpbInv, NEW b \in Blocks, Own(b)
  PROVE  /\ pc'[b] = "blkd_in" => ReadInput(b) \/ MinAvailableSpace(b)
         /\ pc'[b] = "blkd_out" => pc[b] # "blkd_out"
         /\ pc'[b] \in {"msgs_in", "wait_in"} =>
              /\ pc[b] \in {"blkd_in", "msgs_in"} /\ UNCHANGED <<input_changed, output_changed>>
              /\ pc'[b] = "wait_in" => ~input_changed[b]
         /\ pc'[b] \in {"msgs_out", "wait_out"} =>
              /\ pc[b] \in {"blkd_out", "msgs_out"} /\ UNCHANGED <<input_changed, output_changed>>
              /\ pc'[b] = "wait_out" => ~output_changed[b]
<1>1. DOMAIN pc = Blocks
  BY DEF TpbInv, TypeOK
<1>2. \A l : Goto(b, l) => pc'[b] = l
  BY <1>1 DEF Goto
<1>3. (WereDone(b) => pc'[b] = "set_done") /\ (\A k : AfterWork(b, k) => pc'[b] = "notify")
  BY <1>2 DEF WereDone, AfterWork
<1>4. \A x, y, z : Decide(b, x, y, z) => pc'[b] \in {"work", "set_done", "blkd_in"}
  BY <1>2, <1>3 DEF Decide
<1>5. CASE ReadInput(b)
  <2>1. pc[b] = "inputs"
    BY <1>5, ReadFact
  <2>2. pc'[b] \in {"set_done", "inputs", "outputs", "blkd_in", "work"}
    BY <1>2, <1>3, <1>4, <1>5, <2>1, ReadFact
  <2> QED
    BY <1>5, <2>2
<1>6. CASE MinAvailableSpace(b)
  <2>1. pc[b] = "outputs"
    BY <1>6, MinSpaceFact
  <2>2. pc'[b] \in {"set_done", "outputs", "blkd_out", "blkd_in", "work"}
    BY <1>2, <1>3, <1>4, <1>6, <2>1, MinSpaceFact
  <2> QED
    BY <1>6, <2>1, <2>2
<1>7. CASE BlkdIn(b)
  BY <1>2, <1>7 DEF BlkdIn, Blocked
<1>8. CASE BlkdOut(b)
  BY <1>2, <1>8 DEF BlkdOut, Blocked
<1>9. CASE ~ReadInput(b) /\ ~MinAvailableSpace(b) /\ ~BlkdIn(b) /\ ~BlkdOut(b)
  <2>1. pc'[b] \notin {"blkd_in", "blkd_out", "msgs_in", "msgs_out", "wait_in", "wait_out"}
    <3>1. CASE Work(b)
      BY <1>2, <1>3, <3>1, WorkFact
    <3>2. CASE Notify(b)
      <4>1. pc[b] = "notify"
        BY <3>2, Zenon DEF Notify
      <4>2. PICK kind, p : pc' = [pc EXCEPT ![p] = Wake(p, kind)]
        BY <3>2, Zenon DEF Notify
      <4> QED
        BY <1>1, <4>1, <4>2 DEF Wake
    <3>3. CASE set_done(b)
      <4>1. pc[b] = "set_done" /\ (UNCHANGED pc \/ AfterWork(b, 1))
        BY <3>3, Zenon DEF set_done
      <4> QED
        BY <1>3, <4>1
    <3>4. CASE consume_each(b) \/ produce_each(b)
      BY <1>2, <1>3, <3>4 DEF consume_each, produce_each
    <3>5. CASE Top(b) \/ Drain(b) \/ clear_changed(b) \/ NotifyEnd(b)
      BY <1>2, <3>5 DEF Top, Drain, clear_changed, NotifyEnd
    <3>6. CASE WaitInterrupted(b) \/ WorkThrows(b)
      BY <1>2, <3>6 DEF WaitInterrupted, WorkThrows
    <3> QED
      BY <1>9, <3>1, <3>2, <3>3, <3>4, <3>5, <3>6 DEF Own, Thread
  <2> QED
    BY <2>1
<1> QED
  BY <1>5, <1>6, <1>7, <1>8, <1>9

\* A thread on its way to sleep keeps its reason to, until it is told.
LEMMA NextSleep ==
  ASSUME TpbInv, DoneInv, SyncSinks, [Next]_vars, NEW q \in Blocks, SeenInv(q), SleepInv(q)
  PROVE  SleepInv(q)'
<1>1. /\ pc[q] = "wait_in" => ~input_changed[q]
      /\ pc[q] = "wait_out" => ~output_changed[q]
      /\ pc[q] \in {"blkd_in", "msgs_in", "wait_in"} => WaitsIn(q)
      /\ pc[q] \in {"blkd_out", "msgs_out", "wait_out"} => WaitsOut(q)
  BY SleepFact
<1>2. /\ pc[q] \notin {"clear", "consume"} /\ WaitsIn(q) => WaitsIn(q)'
      /\ pc[q] \notin {"clear", "produce"} /\ WaitsOut(q) => WaitsOut(q)'
  BY WaitsKept
<1>3. CASE Calm(q)
  <2>1. pc'[q] = "wait_in" => ~input_changed'[q]
    BY <1>1, <1>3 DEF Calm
  <2>2. pc'[q] = "wait_out" => ~output_changed'[q]
    BY <1>1, <1>3 DEF Calm
  <2>3. pc'[q] \in {"blkd_in", "msgs_in", "wait_in"} => WaitsIn(q)'
    BY <1>1, <1>2, <1>3 DEF Calm
  <2>4. pc'[q] \in {"blkd_out", "msgs_out", "wait_out"} => WaitsOut(q)'
    BY <1>1, <1>2, <1>3 DEF Calm
  <2> QED
    BY <2>1, <2>2, <2>3, <2>4, SleepFact
<1>4. CASE Own(q)
  <2>1. pc'[q] = "blkd_in" => WaitsIn(q)'
    <3>1. ASSUME pc'[q] = "blkd_in" PROVE WaitsIn(q)'
      <4>1. ReadInput(q) \/ MinAvailableSpace(q)
        BY <1>4, <3>1, OwnSleep
      <4>2. pc[q] \in {"inputs", "outputs"}
        BY <4>1, ReadFact, MinSpaceFact
      <4>3. WaitsIn(q)
        BY <3>1, <4>1, EntersIn
      <4> QED
        BY <1>2, <4>2, <4>3
    <3> QED
      BY <3>1
  <2>2. pc'[q] = "blkd_out" => WaitsOut(q)'
    <3>1. ASSUME pc'[q] = "blkd_out" PROVE WaitsOut(q)'
      <4>1. pc[q] # "blkd_out"
        BY <1>4, <3>1, OwnSleep
      <4>2. WaitsOut(q) /\ pc[q] = "outputs"
        BY <1>4, <3>1, <4>1, EntersOut
      <4> QED
        BY <1>2, <4>2
    <3> QED
      BY <3>1
  <2>3. pc'[q] \in {"msgs_in", "wait_in"} => WaitsIn(q)'
    BY <1>1, <1>2, <1>4, OwnSleep
  <2>4. pc'[q] \in {"msgs_out", "wait_out"} => WaitsOut(q)'
    BY <1>1, <1>2, <1>4, OwnSleep
  <2>5. pc'[q] = "wait_in" => ~input_changed'[q]
    BY <1>4, OwnSleep
  <2>6. pc'[q] = "wait_out" => ~output_changed'[q]
    BY <1>4, OwnSleep
  <2> QED
    BY <2>1, <2>2, <2>3, <2>4, <2>5, <2>6, SleepFact
<1>5. ASSUME NEW b \in Blocks, Own(b) PROVE SleepInv(q)'
  BY <1>3, <1>4, <1>5, OthersCalm
<1>6. CASE \/ \E b \in Blocks : SpuriousWakeup(b) \/ post(b) \/ Interrupt(b)
           \/ stop \/ UNCHANGED vars
  BY <1>3, <1>6, OutsideCalm
<1> QED
  BY <1>5, <1>6, Zenon DEF Next, Own

\* WakeInv holds throughout, in every flowgraph whose sinks are gr_sync_blocks.
THEOREM WakeInvariant ==
  ASSUME SyncSinks
  PROVE  Spec => []WakeInv
<1>1. Init => WakeInv
  <2> SUFFICES ASSUME Init PROVE WakeInv
    OBVIOUS
  <2>1. DoneInv
    <3>1. \A b \in Blocks : pc[b] = "top" /\ ~d_done[b]
      BY DEF Init
    <3>2. \A f \in Bufs : ~buf_done[f]
      BY DEF Init
    <3> QED
      BY <3>1, <3>2 DEF DoneInv
  <2>2. ASSUME NEW b \in Blocks PROVE SeenInv(b) /\ SleepInv(b)
    <3>1. pc[b] = "top" /\ d_ninput_items[b] = <<>>
      BY DEF Init
    <3>2. DOMAIN <<>> = {}
      OBVIOUS
    <3> QED
      BY <3>1, <3>2, SleepFact
  <2> QED
    BY <2>1, <2>2 DEF WakeInv
<1>2. TpbInv /\ WakeInv /\ [Next]_vars => WakeInv'
  <2> SUFFICES ASSUME TpbInv, WakeInv, [Next]_vars PROVE WakeInv'
    OBVIOUS
  <2>1. DoneInv /\ \A b \in Blocks : SeenInv(b) /\ SleepInv(b)
    BY DEF WakeInv
  <2>2. DoneInv'
    BY <2>1, NextDone
  <2>3. \A b \in Blocks : SeenInv(b)' /\ SleepInv(b)'
    BY <2>1, NextSeen, NextSleep
  <2> QED
    BY <2>2, <2>3 DEF WakeInv
<1> QED
  BY <1>1, <1>2, SchedulerInvariant, PTL DEF Spec

\* No wakeup is lost, however the steps of clear_changed, the inspection of the
\* buffers, BLKD_IN and BLKD_OUT, the pointer updates and the notices of the
\* neighbours interleave: a thread of gr_tpb_thread_body that sleeps, and that
\* nobody is about to notify, waits for a neighbour that is still going.
THEOREM NoLostWakeupHolds ==
  ASSUME SyncSinks
  PROVE  Spec => []NoLostWakeup
<1>1. WakeInv => NoLostWakeup
  <2> SUFFICES ASSUME WakeInv PROVE NoLostWakeup
    OBVIOUS
  <2>1. ASSUME NEW b \in Blocks PROVE SleepInv(b)
    BY DEF WakeInv
  <2> QED
    BY <2>1 DEF NoLostWakeup, SleepInv
<1> QED
  BY <1>1, WakeInvariant, PTL

-----------------------------------------------------------------------------
(* A block finishes for a reason. *)

\* The done flag of a block is never taken back.
LEMMA DoneKept ==
  ASSUME TpbInv, [Next]_vars, NEW q \in Blocks, d_done[q]
  PROVE  d_done'[q]
<1>1. d_done \in [Blocks -> BOOLEAN]
  BY DEF TpbInv, TypeOK
<1>2. CASE \/ \E b \in Blocks : SpuriousWakeup(b) \/ post(b) \/ Interrupt(b)
           \/ stop \/ UNCHANGED vars
  BY <1>2, OutsideCalm
<1>3. ASSUME NEW b \in Blocks, Own(b) PROVE d_done'[q]
  <2>1. CASE WereDone(b)
    BY <1>1, <2>1 DEF WereDone
  <2>2. CASE set_done(b)
    BY <2>2, SetDoneFact
  <2> QED
    BY <1>3, <2>1, <2>2, DoneStep
<1> QED
  BY <1>2, <1>3, Zenon DEF Next, Own

\* A block that is done writes no more.
LEMMA WriterStill ==
  ASSUME TpbInv, DoneInv, [Next]_vars, NEW q \in Blocks, NEW i \in DOMAIN Ins[q],
         pc[q] # "consume", d_done[Writer[Ins[q][i]]]
  PROVE  items_available(q, Ins[q][i])' = items_available(q, Ins[q][i])
<1> DEFINE f == Ins[q][i]
<1>1. f \in Bufs /\ Writer[f] \in Blocks
  BY PortFact, ReaderFact
<1>2. CASE \/ \E b \in Blocks : SpuriousWakeup(b) \/ post(b) \/ Interrupt(b)
           \/ stop \/ UNCHANGED vars
  <2>1. UNCHANGED <<written, items_read>>
    BY <1>2, OutsideCalm DEF bufVars
  <2> QED
    BY <2>1, StillFact
<1>3. ASSUME NEW b \in Blocks, Own(b)
      PROVE  items_available(q, f)' = items_available(q, f)
  <2>1. CASE Quiet(b)
    <3>1. UNCHANGED <<written, items_read>>
      BY <2>1, QuietFact
    <3> QED
      BY <3>1, StillFact
  <2>2. CASE consume_each(b)
    BY <2>2, ConsumeFact
  <2>3. CASE produce_each(b)
    <3>1. pc[b] = "produce" /\ idx[b] \in DOMAIN Outs[b]
          /\ (f # Outs[b][idx[b]] => items_available(q, f)' = items_available(q, f))
      BY <2>3, ProduceFact
    <3>2. Writer[Outs[b][idx[b]]] = b
      BY <3>1, PortFact
    <3>3. ~d_done[b]
      BY <3>1 DEF DoneInv
    <3> QED
      BY <3>1, <3>2, <3>3
  <2> QED
    BY <1>3, <2>1, <2>2, <2>3, Zenon DEF Own, Thread, Quiet
<1> QED
  BY <1>2, <1>3, Zenon DEF Next, Own

\* Where an output has one reader, its reader finds it done only after its writer.
LEMMA OnlyReader ==
  ASSUME OneReader, DoneInv, NEW b \in Blocks, NEW i \in DOMAIN Ins[b], ~d_done[b],
         buf_done[Ins[b][i]]
  PROVE  d_done[Writer[Ins[b][i]]]
<1> DEFINE f == Ins[b][i]
<1>1. f \in Bufs
  BY PortFact
<1>2. DOMAIN Rdrs[f] = 1 .. 1
  BY <1>1, ReaderFact DEF OneReader
<1>3. \A j \in DOMAIN Rdrs[f] : j = 1
  BY <1>2
<1>4. \E j \in DOMAIN Rdrs[f] : Rdrs[f][j] = b
  BY ReadsFact
<1>5. d_done[Writer[f]] \/ \E j \in DOMAIN Rdrs[f] : d_done[Rdrs[f][j]]
  BY <1>1 DEF DoneInv
<1> QED
  BY <1>3, <1>4, <1>5

\* What is now seen to be done is over.
LEMMA SeenEnd ==
  ASSUME OneReader, TpbInv, DoneInv, EndInv, NEW b \in Blocks, pc[b] = "inputs"
  PROVE  \A i \in DOMAIN Seen(b) : /\ i \in DOMAIN Ins[b]
                                   /\ SeenDone(b)[i] =>
                                        /\ d_done[Writer[Ins[b][i]]]
                                        /\ Seen(b)[i] = items_available(b, Ins[b][i])
<1> SUFFICES ASSUME NEW i \in DOMAIN Seen(b)
             PROVE  /\ i \in DOMAIN Ins[b]
                    /\ SeenDone(b)[i] => /\ d_done[Writer[Ins[b][i]]]
                                         /\ Seen(b)[i] = items_available(b, Ins[b][i])
  OBVIOUS
<1>1. /\ i \in DOMAIN Ins[b]
      /\ \/ /\ Seen(b)[i] = items_available(b, Ins[b][i])
            /\ SeenDone(b)[i] = buf_done[Ins[b][i]]
         \/ /\ i \in DOMAIN d_ninput_items[b]
            /\ Seen(b)[i] = d_ninput_items[b][i]
            /\ SeenDone(b)[i] = d_input_done[b][i]
  BY SeenFact
<1>2. ~d_done[b]
  BY DEF DoneInv
<1>3. buf_done[Ins[b][i]] => d_done[Writer[Ins[b][i]]]
  BY <1>1, <1>2, OnlyReader
<1>4. i \in DOMAIN d_ninput_items[b] /\ d_input_done[b][i] =>
        d_done[Writer[Ins[b][i]]] /\ d_ninput_items[b][i] = items_available(b, Ins[b][i])
  BY DEF EndInv
<1> QED
  BY <1>1, <1>3, <1>4

\* An input that was seen to be done stays as it was seen.
LEMMA NextEnd ==
  ASSUME OneReader, TpbInv, DoneInv, EndInv, [Next]_vars
  PROVE  EndInv'
<1> DEFINE End(q) == \A i \in DOMAIN d_ninput_items[q] : d_input_done[q][i] =>
                       /\ d_done[Writer[Ins[q][i]]]
                       /\ d_ninput_items[q][i] = items_available(q, Ins[q][i])
<1> SUFFICES ASSUME NEW q \in Blocks PROVE End(q)'
  BY DEF EndInv
<1>1. ASSUME d_ninput_items'[q] = <<>> PROVE End(q)'
  <2>1. DOMAIN <<>> = {}
    OBVIOUS
  <2> QED
    BY <1>1, <2>1
<1>2. ASSUME d_ninput_items'[q] = d_ninput_items[q], d_input_done'[q] = d_input_done[q],
             pc[q] \in {"inputs", "outputs"}
      PROVE  End(q)'
  <2> SUFFICES ASSUME NEW i \in DOMAIN d_ninput_items[q], d_input_done[q][i]
               PROVE  /\ d_done'[Writer[Ins[q][i]]]
                      /\ d_ninput_items[q][i] = items_available(q, Ins[q][i])'
    BY <1>2
  <2>1. /\ d_done[Writer[Ins[q][i]]]
        /\ d_ninput_items[q][i] = items_available(q, Ins[q][i])
    BY DEF EndInv
  <2>2. i \in DOMAIN Ins[q]
    <3>1. d_ninput_items[q] \in Seq(0 .. BufSize - 1) /\ Len(d_ninput_items[q]) <= Len(Ins[q])
      BY DEF TpbInv, TypeOK
    <3>2. DOMAIN Ins[q] = 1 .. Len(Ins[q]) /\ Len(Ins[q]) \in Nat
      BY PortFact
    <3> QED
      BY <3>1, <3>2
  <2>3. Ins[q][i] \in Bufs /\ Writer[Ins[q][i]] \in Blocks
    BY <2>2, PortFact, ReaderFact
  <2>4. d_done'[Writer[Ins[q][i]]]
    BY <2>1, <2>3, DoneKept
  <2>5. items_available(q, Ins[q][i])' = items_available(q, Ins[q][i])
    BY <1>2, <2>1, <2>2, WriterStill
  <2> QED
    BY <2>1, <2>4, <2>5
<1>3. CASE Calm(q)
  <2>1. d_ninput_items'[q] = d_ninput_items[q] /\ d_input_done'[q] = d_input_done[q]
    BY <1>3 DEF Calm
  <2>2. pc[q] \notin {"inputs", "outputs"} => d_ninput_items'[q] = <<>>
    BY <2>1, Rests
  <2> QED
    BY <1>1, <1>2, <2>1, <2>2
<1>4. CASE ReadInput(q)
  <2>1. /\ pc[q] = "inputs" /\ UNCHANGED <<written, items_read>>
        /\ DOMAIN d_ninput_items = Blocks /\ DOMAIN d_input_done = Blocks
    BY <1>4, ReadFact DEF bufVars, TpbInv, TypeOK
  <2>2. ASSUME ForgetSnapshots(q) PROVE End(q)'
    BY <1>1, <2>2, Rests
  <2>3. ASSUME d_ninput_items' = [d_ninput_items EXCEPT ![q] = Seen(q)],
               d_input_done' = [d_input_done EXCEPT ![q] = SeenDone(q)], UNCHANGED d_done
        PROVE  End(q)'
    <3>1. d_ninput_items'[q] = Seen(q) /\ d_input_done'[q] = SeenDone(q)
      BY <2>1, <2>3
    <3>2. ASSUME NEW i \in DOMAIN Seen(q), SeenDone(q)[i]
          PROVE  /\ d_done'[Writer[Ins[q][i]]]
                 /\ Seen(q)[i] = items_available(q, Ins[q][i])'
      <4>1. d_done[Writer[Ins[q][i]]] /\ Seen(q)[i] = items_available(q, Ins[q][i])
        BY <2>1, <3>2, SeenEnd
      <4>2. items_available(q, Ins[q][i])' = items_available(q, Ins[q][i])
        BY <2>1, StillFact
      <4> QED
        BY <2>3, <4>1, <4>2
    <3> QED
      BY <3>1, <3>2
  <2> QED
    BY <1>4, <2>2, <2>3, ReadFact
<1>5. CASE MinAvailableSpace(q)
  <2>1. pc[q] = "outputs"
    BY <1>5, MinSpaceFact
  <2>2. ForgetSnapshots(q) \/ UNCHANGED <<d_ninput_items, d_input_done>>
    BY <1>5, MinSpaceFact
  <2> QED
    BY <1>1, <1>2, <2>1, <2>2, Rests
<1>6. ASSUME NEW b \in Blocks, Own(b) PROVE End(q)'
  <2>1. CASE q # b
    BY <1>3, <1>6, <2>1, OthersCalm
  <2>2. CASE q = b
    BY <1>1, <1>4, <1>5, <1>6, <2>2, OwnSnap
  <2> QED
    BY <2>1, <2>2
<1>7. CASE \/ \E b \in Blocks : SpuriousWakeup(b) \/ post(b) \/ Interrupt(b)
           \/ stop \/ UNCHANGED vars
  BY <1>3, <1>7, OutsideCalm
<1> QED
  BY <1>6, <1>7, Zenon DEF Next, Own

\* Why b is done.
Spent(b)      == nproduced[b] >= Limit[b] \/ (source_p(b) /\ n[b] = 0)
ReaderDone(b) == \E o \in DOMAIN Outs[b] : \E j \in DOMAIN Rdrs[Outs[b][o]] :
                   d_done[Rdrs[Outs[b][o]][j]]
InputOver(b)  == \E i \in InputShort(b) : d_done[Writer[Ins[b][i]]]

\* DoneOnlyWhenFinished, by these names.
LEMMA ReasonFact ==
  /\ DoneOnlyWhenFinished <=>
       \A b \in Blocks : d_done[b] => Spent(b) \/ ReaderDone(b) \/ InputOver(b)
  /\ DoneOnlyWhenFinished' <=>
       \A b \in Blocks : d_done'[b] => Spent(b)' \/ ReaderDone(b)' \/ InputOver(b)'
<1>1. DoneOnlyWhenFinished <=>
        \A b \in Blocks : d_done[b] => Spent(b) \/ ReaderDone(b) \/ InputOver(b)
  BY Zenon DEF DoneOnlyWhenFinished, Spent, ReaderDone, InputOver
<1>2. DoneOnlyWhenFinished' <=>
        \A b \in Blocks : d_done'[b] => Spent(b)' \/ ReaderDone(b)' \/ InputOver(b)'
  BY Zenon DEF DoneOnlyWhenFinished, Spent, ReaderDone, InputOver
<1> QED
  BY <1>1, <1>2, Zenon

\* A reader that is done stays done.
LEMMA ReaderDoneKept ==
  ASSUME TpbInv, [Next]_vars, NEW b \in Blocks, ReaderDone(b)
  PROVE  ReaderDone(b)'
<1>0. PICK o \in DOMAIN Outs[b] : \E j \in DOMAIN Rdrs[Outs[b][o]] : d_done[Rdrs[Outs[b][o]][j]]
  BY DEF ReaderDone
<1>1. PICK j \in DOMAIN Rdrs[Outs[b][o]] : d_done[Rdrs[Outs[b][o]][j]]
  BY <1>0
<1>2. Outs[b][o] \in Bufs
  BY PortFact
<1>3. Rdrs[Outs[b][o]][j] \in Blocks
  BY <1>2, ReaderFact
<1>4. d_done'[Rdrs[Outs[b][o]][j]]
  BY <1>1, <1>3, DoneKept
<1> QED
  BY <1>4 DEF ReaderDone

\* An input that is over stays too short.
LEMMA InputOverKept ==
  ASSUME TpbInv, DoneInv, [Next]_vars, NEW b \in Blocks, pc[b] # "consume", InputOver(b)
  PROVE  InputOver(b)'
<1>1. PICK i \in InputShort(b) : d_done[Writer[Ins[b][i]]]
  BY DEF InputOver
<1>2. i \in DOMAIN Ins[b] /\
        items_available(b, Ins[b][i]) < fixed_rate_noutput_to_ninput(b, OutputMultiple[b])
  BY DEF InputShort
<1>3. Ins[b][i] \in Bufs /\ Writer[Ins[b][i]] \in Blocks
  BY <1>2, PortFact, ReaderFact
<1>4. d_done'[Writer[Ins[b][i]]]
  BY <1>1, <1>3, DoneKept
<1>5. items_available(b, Ins[b][i])' = items_available(b, Ins[b][i])
  BY <1>1, <1>2, WriterStill
<1>6. items_available(b, Ins[b][i])' < fixed_rate_noutput_to_ninput(b, OutputMultiple[b])
  BY <1>2, <1>5
<1>7. i \in InputShort(b)'
  BY <1>2, <1>6 DEF InputShort, fixed_rate_noutput_to_ninput
<1> QED
  BY <1>4, <1>7 DEF InputOver

\* A block that is done calls work() no more.
LEMMA SpentKept ==
  ASSUME TpbInv, DoneInv, [Next]_vars, NEW q \in Blocks, d_done[q], Spent(q)
  PROVE  Spent(q)'
<1>1. pc[q] \in {"set_done", "notify", "exited"}
  BY DEF DoneInv
<1>2. ASSUME n'[q] = n[q], nproduced'[q] = nproduced[q] PROVE Spent(q)'
  BY <1>2 DEF Spent, source_p
<1>3. CASE \/ \E b \in Blocks : SpuriousWakeup(b) \/ post(b) \/ Interrupt(b)
           \/ stop \/ UNCHANGED vars
  <2>1. Calm(q)
    BY <1>3, OutsideCalm
  <2> QED
    BY <1>2, <2>1 DEF Calm
<1>4. ASSUME NEW b \in Blocks, Own(b), b # q PROVE Spent(q)'
  <2>1. Calm(q)
    BY <1>4, OthersCalm
  <2> QED
    BY <1>2, <2>1 DEF Calm
<1>5. ASSUME Own(q) PROVE Spent(q)'
  <2>1. CASE set_done(q)
    BY <1>2, <2>1, Zenon DEF set_done
  <2>2. CASE Notify(q)
    BY <1>2, <2>2, Zenon DEF Notify
  <2>3. CASE NotifyEnd(q)
    BY <1>2, <2>3 DEF NotifyEnd
  <2>4. ~ReadInput(q) /\ ~MinAvailableSpace(q) /\ ~Work(q)
    BY <1>1, ReadFact, MinSpaceFact, WorkFact
  <2>5. ~BlkdIn(q) /\ ~BlkdOut(q)
    BY <1>1 DEF BlkdIn, BlkdOut, Blocked
  <2>6. /\ ~Top(q) /\ ~Drain(q) /\ ~clear_changed(q) /\ ~consume_each(q) /\ ~produce_each(q)
        /\ ~WaitInterrupted(q) /\ ~WorkThrows(q)
    BY <1>1 DEF Top, Drain, clear_changed, consume_each, produce_each, WaitInterrupted, WorkThrows
  <2> QED
    BY <1>5, <2>1, <2>2, <2>3, <2>4, <2>5, <2>6, Zenon DEF Own, Thread
<1> QED
  BY <1>3, <1>4, <1>5, Zenon DEF Next, Own

\* Decide ends a block only because of an input that is over.
LEMMA DecideEnds ==
  ASSUME InputFits, TpbInv, NEW b \in Blocks, ~source_p(b), NEW ninput \in Seq(0 .. BufSize - 1),
         ninput # <<>>, NEW done, NEW nout \in Nat, Decide(b, ninput, done, nout),
         pc'[b] = "set_done",
         \A i \in DOMAIN ninput :
           /\ i \in DOMAIN Ins[b]
           /\ done[i] => d_done[Writer[Ins[b][i]]] /\ ninput[i] = items_available(b, Ins[b][i])
  PROVE  InputOver(b)
<1>1. DOMAIN pc = Blocks
  BY DEF TpbInv, TypeOK
<1>2. ~Goto(b, "work") /\ ~Goto(b, "blkd_in")
  BY <1>1 DEF Goto
<1>3. PICK i \in DOMAIN ninput :
        /\ ninput[i] < fixed_rate_noutput_to_ninput(b, OutputMultiple[b])
        /\ done[i] \/ fixed_rate_noutput_to_ninput(b, OutputMultiple[b]) > BufSize - 1
  BY <1>2, DecideFact
<1>4. fixed_rate_noutput_to_ninput(b, OutputMultiple[b]) <= BufSize - 1
  BY DEF InputFits
<1>5. done[i]
  <2>1. OutputMultiple[b] \in Nat /\ BufSize - 1 \in Int
    BY SizeAssumption
  <2>2. fixed_rate_noutput_to_ninput(b, OutputMultiple[b]) \in Nat
    BY <2>1, NeedFact
  <2> QED
    BY <1>3, <1>4, <2>1, <2>2
<1>6. i \in DOMAIN Ins[b] /\ d_done[Writer[Ins[b][i]]] /\ ninput[i] = items_available(b, Ins[b][i])
  BY <1>5
<1>7. i \in InputShort(b)
  BY <1>3, <1>6 DEF InputShort
<1> QED
  BY <1>6, <1>7 DEF InputOver

\* A block that ends in run_one_iteration has a reason to.
LEMMA ReasonGiven ==
  ASSUME OneReader, InputFits, TpbInv, DoneInv, EndInv, [Next]_vars,
         NEW b \in Blocks, ~d_done[b], d_done'[b]
  PROVE  Spent(b)' \/ ReaderDone(b)' \/ InputOver(b)'
<1>1. DOMAIN pc = Blocks /\ DOMAIN n = Blocks /\ DOMAIN nproduced = Blocks
  BY DEF TpbInv, TypeOK
<1>2. Own(b)
  <2>1. ~(\/ \E p \in Blocks : SpuriousWakeup(p) \/ post(p) \/ Interrupt(p)
          \/ stop \/ UNCHANGED vars)
    BY OutsideCalm
  <2>2. \A p \in Blocks : Own(p) => p = b
    BY OthersCalm DEF Calm
  <2> QED
    BY <2>1, <2>2, Zenon DEF Next, Own
<1>3. WereDone(b) /\ pc[b] \in {"inputs", "outputs", "work"}
  <2>1. ~set_done(b) /\ ~UNCHANGED d_done
    BY SetDoneFact
  <2> QED
    BY <1>2, <2>1, DoneStep
<1>4. pc'[b] = "set_done" /\ pc[b] # "consume"
  BY <1>1, <1>3 DEF WereDone, Goto
<1>5. ReadInput(b) \/ MinAvailableSpace(b) \/ Work(b)
  <2>1. ~WorkThrows(b)
    BY <1>1, <1>4 DEF WorkThrows, Goto
  <2>2. ~BlkdIn(b) /\ ~BlkdOut(b)
    BY <1>3 DEF BlkdIn, BlkdOut, Blocked
  <2>3. ~set_done(b) /\ ~Notify(b)
    BY <1>3, Zenon DEF set_done, Notify
  <2>4. /\ ~Top(b) /\ ~Drain(b) /\ ~clear_changed(b) /\ ~consume_each(b) /\ ~produce_each(b)
        /\ ~WaitInterrupted(b) /\ ~NotifyEnd(b)
    BY <1>3 DEF Top, Drain, clear_changed, consume_each, produce_each, WaitInterrupted, NotifyEnd
  <2> QED
    BY <1>2, <2>1, <2>2, <2>3, <2>4, Zenon DEF Own, Thread
<1>6. CASE Work(b)
  <2>1. \/ nproduced[b] >= Limit[b] /\ UNCHANGED nproduced
        \/ source_p(b) /\ n' = [n EXCEPT ![b] = 0]
    <3>1. ~UNCHANGED d_done
      OBVIOUS
    <3> QED
      BY <1>6, <3>1, WorkFact
  <2>2. CASE nproduced[b] >= Limit[b] /\ UNCHANGED nproduced
    BY <2>2 DEF Spent
  <2>3. CASE source_p(b) /\ n' = [n EXCEPT ![b] = 0]
    BY <1>1, <2>3 DEF Spent, source_p
  <2> QED
    BY <2>1, <2>2, <2>3
<1>7. CASE ReadInput(b)
  <2>1. pc[b] = "inputs" /\ ~UNCHANGED d_done
    BY <1>7, ReadFact
  <2>2. \A i \in DOMAIN Seen(b) :
          /\ i \in DOMAIN Ins[b]
          /\ SeenDone(b)[i] => /\ d_done[Writer[Ins[b][i]]]
                               /\ Seen(b)[i] = items_available(b, Ins[b][i])
    BY <2>1, SeenEnd
  <2>3. idx[b] \in DOMAIN Ins[b] /\ Seen(b) \in Seq(0 .. BufSize - 1) /\ Seen(b) # <<>>
    BY <2>1, SeenFact
  <2>4. ~source_p(b)
    <3>1. DOMAIN <<>> = {}
      OBVIOUS
    <3> QED
      BY <2>3, <3>1 DEF source_p
  <2>5. \/ items_available(b, Ins[b][idx[b]]) < OutputMultiple[b] /\ buf_done[Ins[b][idx[b]]]
        \/ \E k \in 0 .. BufSize - 1 : Decide(b, Seen(b), SeenDone(b), k)
    BY <1>7, <2>1, ReadFact
  <2>6. CASE items_available(b, Ins[b][idx[b]]) < OutputMultiple[b] /\ buf_done[Ins[b][idx[b]]]
    <3>1. d_done[Writer[Ins[b][idx[b]]]]
      BY <2>3, <2>6, OnlyReader
    <3>2. items_available(b, Ins[b][idx[b]]) < fixed_rate_noutput_to_ninput(b, OutputMultiple[b])
      <4>1. /\ OutputMultiple[b] \in Nat \ {0} /\ Decimation[b] \in Nat \ {0}
            /\ History[b] \in Nat \ {0}
        BY SizeAssumption
      <4>2. OutputMultiple[b] * Decimation[b] \in Nat
            /\ OutputMultiple[b] <= OutputMultiple[b] * Decimation[b]
        BY <4>1, NeedFact
      <4>3. items_available(b, Ins[b][idx[b]]) \in Int
        BY <2>3, InputFill DEF TpbInv
      <4> HIDE DEF items_available
      <4> QED
        BY <2>6, <4>1, <4>2, <4>3 DEF fixed_rate_noutput_to_ninput
    <3>3. idx[b] \in InputShort(b)
      BY <2>3, <3>2 DEF InputShort
    <3>4. InputOver(b)
      BY <3>1, <3>3 DEF InputOver
    <3> QED
      BY <1>4, <3>4, InputOverKept
  <2>7. ASSUME NEW k \in 0 .. BufSize - 1, Decide(b, Seen(b), SeenDone(b), k)
        PROVE  InputOver(b)'
    <3>1. k \in Nat
      BY SizeAssumption
    <3>2. InputOver(b)
      BY <1>4, <2>2, <2>3, <2>4, <2>7, <3>1, DecideEnds
    <3> QED
      BY <1>4, <3>2, InputOverKept
  <2> QED
    BY <2>5, <2>6, <2>7
<1>8. CASE MinAvailableSpace(b)
  <2>1. pc[b] = "outputs" /\ idx[b] \in DOMAIN Outs[b] /\ ~UNCHANGED d_done
    BY <1>8, MinSpaceFact
  <2>2. \/ buf_done[Outs[b][idx[b]]]
        \/ \E k \in 0 .. BufSize - 1 :
             ~source_p(b) /\ Decide(b, d_ninput_items[b], d_input_done[b], k)
    BY <1>8, <2>1, MinSpaceFact
  <2>3. CASE buf_done[Outs[b][idx[b]]]
    <3>1. Outs[b][idx[b]] \in Bufs /\ Writer[Outs[b][idx[b]]] = b
      BY <2>1, PortFact
    <3>2. \E j \in DOMAIN Rdrs[Outs[b][idx[b]]] : d_done[Rdrs[Outs[b][idx[b]]][j]]
      BY <2>3, <3>1 DEF DoneInv
    <3>3. ReaderDone(b)
      BY <2>1, <3>2 DEF ReaderDone
    <3> QED
      BY <3>3, ReaderDoneKept
  <2>4. ASSUME NEW k \in 0 .. BufSize - 1, ~source_p(b),
               Decide(b, d_ninput_items[b], d_input_done[b], k)
        PROVE  InputOver(b)'
    <3>1. k \in Nat
      BY SizeAssumption
    <3>2. /\ d_ninput_items[b] \in Seq(0 .. BufSize - 1)
          /\ Len(d_ninput_items[b]) = Len(Ins[b])
      BY <2>1 DEF TpbInv, TypeOK, LoopInv
    <3>3. DOMAIN Ins[b] = 1 .. Len(Ins[b]) /\ Len(Ins[b]) \in Nat /\ Len(Ins[b]) # 0
      BY <2>4, PortFact
    <3>4. d_ninput_items[b] # <<>> /\ \A i \in DOMAIN d_ninput_items[b] : i \in DOMAIN Ins[b]
      BY <3>2, <3>3
    <3>5. \A i \in DOMAIN d_ninput_items[b] :
            /\ i \in DOMAIN Ins[b]
            /\ d_input_done[b][i] => /\ d_done[Writer[Ins[b][i]]]
                                     /\ d_ninput_items[b][i] = items_available(b, Ins[b][i])
      BY <3>4 DEF EndInv
    <3>6. InputOver(b)
      BY <1>4, <2>4, <3>1, <3>2, <3>4, <3>5, DecideEnds
    <3> QED
      BY <1>4, <3>6, InputOverKept
  <2> QED
    BY <2>2, <2>3, <2>4
<1> QED
  BY <1>5, <1>6, <1>7, <1>8

\* The done flags of the buffers follow those of the blocks: from set_done() on a
\* block writes and reads no more, gr_block_detail::set_done() reaches each of its
\* buffers, and nothing else marks a buffer done.
THEOREM DoneFlagsFollow == Spec => []DoneInv
<1>1. Init => DoneInv
  <2> SUFFICES ASSUME Init PROVE DoneInv
    OBVIOUS
  <2>1. \A b \in Blocks : pc[b] = "top" /\ ~d_done[b]
    BY DEF Init
  <2>2. \A f \in Bufs : ~buf_done[f]
    BY DEF Init
  <2> QED
    BY <2>1, <2>2 DEF DoneInv
<1>2. TpbInv /\ DoneInv /\ [Next]_vars => DoneInv'
  BY NextDone
<1> QED
  BY <1>1, <1>2, SchedulerInvariant, PTL DEF Spec

\* Where every output has one reader: an input that run_one_iteration has seen to be
\* done, under the mutex of its buffer, will never hold more than it saw.
THEOREM EndInvariant ==
  ASSUME OneReader
  PROVE  Spec => []EndInv
<1>1. Init => EndInv
  <2> SUFFICES ASSUME Init PROVE EndInv
    OBVIOUS
  <2>1. \A b \in Blocks : d_ninput_items[b] = <<>>
    BY DEF Init
  <2>2. DOMAIN <<>> = {}
    OBVIOUS
  <2> QED
    BY <2>1, <2>2 DEF EndInv
<1>2. TpbInv /\ DoneInv /\ EndInv /\ [Next]_vars => EndInv'
  BY NextEnd
<1> QED
  BY <1>1, <1>2, SchedulerInvariant, DoneFlagsFollow, PTL DEF Spec

\* Where every output has one reader and the buffers are as large as allocate_buffer
\* makes them, a block ends only because its work() said so, because a block
\* downstream has ended, or because a block upstream has and what it left is too
\* little, whatever the order in which its neighbours end.
THEOREM DoneOnlyWhenFinishedHolds ==
  ASSUME OneReader, InputFits
  PROVE  Spec => []DoneOnlyWhenFinished
<1>1. Init => DoneOnlyWhenFinished
  <2> SUFFICES ASSUME Init PROVE DoneOnlyWhenFinished
    OBVIOUS
  <2>1. \A b \in Blocks : ~d_done[b]
    BY DEF Init
  <2> QED
    BY <2>1, ReasonFact
<1>2. TpbInv /\ DoneInv /\ EndInv /\ DoneOnlyWhenFinished /\ [Next]_vars => DoneOnlyWhenFinished'
  <2> SUFFICES ASSUME TpbInv, DoneInv, EndInv, DoneOnlyWhenFinished, [Next]_vars,
                      NEW b \in Blocks, d_done'[b]
               PROVE  Spent(b)' \/ ReaderDone(b)' \/ InputOver(b)'
    BY ReasonFact
  <2>1. CASE ~d_done[b]
    BY <2>1, ReasonGiven
  <2>2. CASE d_done[b]
    <3>1. Spent(b) \/ ReaderDone(b) \/ InputOver(b)
      BY <2>2, ReasonFact
    <3>2. pc[b] # "consume"
      BY <2>2 DEF DoneInv
    <3> QED
      BY <2>2, <3>1, <3>2, SpentKept, ReaderDoneKept, InputOverKept
  <2> QED
    BY <2>1, <2>2
<1> QED
  BY <1>1, <1>2, SchedulerInvariant, DoneFlagsFollow, EndInvariant, PTL DEF Spec

-----------------------------------------------------------------------------
(* What is finished stays so. *)

\* A block that is done moves no pointer.
LEMMA PointersStill ==
  ASSUME TpbInv, DoneInv, [Next]_vars, NEW q \in Blocks, d_done[q]
  PROVE  /\ items_read'[q] = items_read[q]
         /\ \A o \in DOMAIN Outs[q] : written'[Outs[q][o]] = written[Outs[q][o]]
<1>1. /\ DOMAIN items_read = Blocks /\ DOMAIN written = Bufs
      /\ pc[q] \in {"set_done", "notify", "exited"}
  BY DEF TpbInv, TypeOK, DoneInv
<1>2. CASE UNCHANGED <<written, items_read>>
  BY <1>2
<1>3. ASSUME NEW b \in Blocks, consume_each(b)
      PROVE  items_read'[q] = items_read[q] /\ UNCHANGED written
  <2>1. pc[b] = "consume" /\ UNCHANGED written
        /\ items_read' = [items_read EXCEPT ![b][Ins[b][idx[b]]] = @ + n[b] * Decimation[b]]
    BY <1>3 DEF consume_each
  <2> QED
    BY <1>1, <2>1
<1>4. ASSUME NEW b \in Blocks, produce_each(b)
      PROVE  /\ UNCHANGED items_read
             /\ \A o \in DOMAIN Outs[q] : written'[Outs[q][o]] = written[Outs[q][o]]
  <2>1. pc[b] = "produce" /\ UNCHANGED items_read
        /\ written' = [written EXCEPT ![Outs[b][idx[b]]] = @ + n[b]]
    BY <1>4 DEF produce_each
  <2>2. idx[b] \in DOMAIN Outs[b]
    BY <1>4, ProduceFact
  <2>3. Writer[Outs[b][idx[b]]] = b
    BY <2>2, PortFact
  <2>4. ASSUME NEW o \in DOMAIN Outs[q] PROVE written'[Outs[q][o]] = written[Outs[q][o]]
    <3>1. Outs[q][o] \in Bufs /\ Writer[Outs[q][o]] = q
      BY PortFact
    <3>2. Outs[q][o] # Outs[b][idx[b]]
      BY <1>1, <2>1, <2>3, <3>1
    <3> QED
      BY <1>1, <2>1, <3>1, <3>2
  <2> QED
    BY <2>1, <2>4
<1>5. ASSUME NEW b \in Blocks, Quiet(b) PROVE UNCHANGED <<written, items_read>>
  BY <1>5, QuietFact
<1>6. CASE stop \/ UNCHANGED vars
  BY <1>2, <1>6 DEF stop, vars, bufVars
<1>7. ASSUME NEW b \in Blocks, Step(b)
      PROVE  /\ items_read'[q] = items_read[q]
             /\ \A o \in DOMAIN Outs[q] : written'[Outs[q][o]] = written[Outs[q][o]]
  <2>1. Quiet(b) \/ consume_each(b) \/ produce_each(b)
    BY <1>7, Zenon DEF Step, Own, Thread, Quiet
  <2> QED
    BY <1>2, <1>3, <1>4, <1>5, <2>1
<1> QED
  BY <1>6, <1>7, Zenon DEF Next, Step, Own

\* No step takes the done flag of a buffer back.
LEMMA BufDoneKept ==
  ASSUME TpbInv, [Next]_vars, NEW f \in Bufs, buf_done[f]
  PROVE  buf_done'[f]
<1>1. buf_done \in [Bufs -> BOOLEAN]
  BY DEF TpbInv, TypeOK
<1>2. CASE \/ \E b \in Blocks : SpuriousWakeup(b) \/ post(b) \/ Interrupt(b)
           \/ stop \/ UNCHANGED vars
  <2>1. Writer[f] \in Blocks
    BY ReaderFact
  <2>2. UNCHANGED buf_done
    BY <1>2, <2>1, OutsideCalm DEF bufVars
  <2> QED
    BY <2>2
<1>3. ASSUME NEW b \in Blocks, Own(b) PROVE buf_done'[f]
  <2>1. CASE set_done(b)
    <3>1. PICK g \in Bufs : buf_done' = [buf_done EXCEPT ![g] = TRUE]
      BY <2>1, SetDoneFact, Zenon
    <3> QED
      BY <1>1, <3>1
  <2> QED
    BY <1>3, <2>1, DoneStep
<1> QED
  BY <1>2, <1>3, Zenon DEF Next, Own

\* gr_block_detail::set_done() is final, in every flowgraph: the thread that called it
\* still notifies its neighbours, but neither consume_each nor produce_each of its
\* block runs again, and no other thread clears a flag it has set.
THEOREM FinishedIsFinalHolds == Spec => FinishedIsFinal
<1> DEFINE Final == /\ \A b \in Blocks : d_done[b] =>
                         /\ d_done'[b] /\ items_read'[b] = items_read[b]
                         /\ \A o \in DOMAIN Outs[b] :
                              written'[Outs[b][o]] = written[Outs[b][o]]
                    /\ \A f \in Bufs : buf_done[f] => buf_done'[f]
<1>1. TpbInv /\ DoneInv /\ [Next]_vars => [Final]_vars
  <2> SUFFICES ASSUME TpbInv, DoneInv, [Next]_vars PROVE Final
    OBVIOUS
  <2> QED
    BY DoneKept, PointersStill, BufDoneKept
<1> QED
  BY <1>1, SchedulerInvariant, DoneFlagsFollow, PTL DEF Spec, FinishedIsFinal
=============================================================================
