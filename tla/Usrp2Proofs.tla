---------------------------- MODULE Usrp2Proofs ----------------------------
(***************************************************************************)
(* Proofs about the host side of a USRP2, for any number of frames, of     *)
(* reply ids, of commands and of packets of samples.  Usrp2Inv is          *)
(* inductive: one lemma below for each of its parts.                       *)
(***************************************************************************)
EXTENDS Usrp2, FiniteSetTheorems, TLAPS

USE Usrp2Assumption

\* The initial state satisfies every part.
LEMMA InitInv == Init => Usrp2Inv
<1> SUFFICES ASSUME Init PROVE Usrp2Inv
  OBVIOUS
<1> USE DEF Init
<1>1. TypeOK
  BY DEF TypeOK, Frames
<1>2. DeviceInv /\ CallInv /\ SleepInv
  BY DEF DeviceInv, CallInv, SleepInv, SleepsOnlyOnFrames, Loop
<1>3. ReplyInv
  BY DEF ReplyInv, Waiting
<1>4. Cardinality({}) = 0
  BY FS_EmptySet
<1>5. Width % Width = 0
  OBVIOUS
<1>6. CountsKeptFrames
  BY <1>4, <1>5 DEF CountsKeptFrames
<1>7. KeptInv
  BY DEF KeptInv, Queued, Handling
<1>8. ArcInv
  BY DEF ArcInv, Fresh, NextFrame, Arc
<1>9. OrderInv
  BY DEF OrderInv, Fresh, Data, Queued
<1> QED
  BY <1>1, <1>2, <1>3, <1>6, <1>7, <1>8, <1>9 DEF Usrp2Inv

-----------------------------------------------------------------------------
(* Helpers. *)

\* A reply id is an index of the table of pending replies.
LEMMA RidType == ASSUME NEW c \in Nat PROVE rid(c) \in 0 .. NRIDS - 1
BY DEF rid

\* The index after a frame is a frame.
LEMMA IncType == ASSUME NEW i \in Frames PROVE Inc(i) \in Frames
BY DEF Inc, Frames

\* Two commands with one reply id are a whole turn of the ids apart.
LEMMA SameRid ==
  ASSUME NEW a \in Nat, NEW c \in Nat, a < c, rid(a) = rid(c)
  PROVE  a <= c - NRIDS
<1>1. a = NRIDS * (a \div NRIDS) + (a % NRIDS)
  OBVIOUS
<1>2. c = NRIDS * (c \div NRIDS) + (c % NRIDS)
  OBVIOUS
<1> DEFINE p == a \div NRIDS
           q == c \div NRIDS
<1>3. p \in Int /\ q \in Int
  OBVIOUS
<1>4. NRIDS * p < NRIDS * q
  BY <1>1, <1>2, <1>3 DEF rid
<1> HIDE DEF p, q
<1>5. p + 1 <= q
  BY <1>3, <1>4
<1>6. NRIDS * p + NRIDS <= NRIDS * q
  BY <1>3, <1>5
<1> QED
  BY <1>1, <1>2, <1>3, <1>6 DEF rid, p, q

\* The remainder is the only one there is.
LEMMA ModUnique ==
  ASSUME NEW w \in Nat \ {0}, NEW q \in Int, NEW r \in 0 .. w - 1
  PROVE  (w * q + r) % w = r
<1> DEFINE x == w * q + r
           d == x \div w
           m == x % w
<1>1. x \in Int /\ d \in Int /\ m \in 0 .. w - 1 /\ x = w * d + m
  OBVIOUS
<1> HIDE DEF d, m
<1>2. w * (q - d) = m - r
  BY <1>1
<1>3. q - d < 1 /\ q - d > -1
  <2> DEFINE e == q - d
  <2>1. e \in Int /\ w * e < w /\ w * e > 0 - w
    BY <1>1, <1>2
  <2> HIDE DEF e
  <2>2. e >= 1 => w * e >= w
    BY <2>1
  <2>3. e <= -1 => w * e <= 0 - w
    BY <2>1
  <2> QED
    BY <2>1, <2>2, <2>3 DEF e
<1>4. q = d
  BY <1>1, <1>3
<1> QED
  BY <1>1, <1>2, <1>4 DEF m

\* A whole turn of the counter changes nothing.
LEMMA ModAdd == ASSUME NEW y \in 0 .. Width - 1 PROVE (y + Width) % Width = y
<1>1. y + Width = Width * 1 + y /\ 1 \in Int /\ Width \in Nat \ {0}
  OBVIOUS
<1> QED
  BY <1>1, ModUnique

\* Taking a number modulo Width before or after a step up is the same.
LEMMA ModUp == ASSUME NEW x \in Nat PROVE ((x % Width) + 1) % Width = (x + 1) % Width
<1> DEFINE d == x \div Width
           m == x % Width
<1>1. d \in Int /\ m \in 0 .. Width - 1 /\ x = Width * d + m
  OBVIOUS
<1>0. 0 \in Int /\ 1 \in Int /\ Width \in Nat \ {0}
  OBVIOUS
<1> HIDE DEF d, m
<1>2. CASE m + 1 < Width
  <2>1. m + 1 \in 0 .. Width - 1 /\ x + 1 = Width * d + (m + 1) /\ m + 1 = Width * 0 + (m + 1)
    BY <1>1, <1>2
  <2>2. (Width * d + (m + 1)) % Width = m + 1
    BY <1>0, <1>1, <2>1, ModUnique, Zenon
  <2>3. (Width * 0 + (m + 1)) % Width = m + 1
    BY <1>0, <2>1, ModUnique, Zenon
  <2> QED
    BY <2>1, <2>2, <2>3 DEF m
<1>3. CASE m + 1 = Width
  <2>1. x + 1 = Width * (d + 1) + 0 /\ m + 1 = Width * 1 + 0
    BY <1>1, <1>3
  <2>2. 0 \in 0 .. Width - 1 /\ d + 1 \in Int
    BY <1>1
  <2>3. (Width * (d + 1) + 0) % Width = 0
    BY <1>0, <2>2, ModUnique, Zenon
  <2>4. (Width * 1 + 0) % Width = 0
    BY <1>0, <2>2, ModUnique, Zenon
  <2> QED
    BY <2>1, <2>3, <2>4 DEF m
<1> QED
  BY <1>1, <1>2, <1>3

\* The same for a step down.
LEMMA ModDown == ASSUME NEW x \in Nat \ {0} PROVE ((x % Width) + Width - 1) % Width = (x - 1) % Width
<1>1. x % Width = (((x - 1) % Width) + 1) % Width
  BY ModUp
<1> DEFINE y == (x - 1) % Width
<1>2. y \in 0 .. Width - 1
  OBVIOUS
<1> HIDE DEF y
<1>3. CASE y + 1 < Width
  <2>1. (y + 1) % Width = y + 1
    BY <1>2, <1>3
  <2>2. (y + Width) % Width = y
    BY <1>2, ModAdd
  <2> QED
    BY <1>1, <1>2, <2>1, <2>2 DEF y
<1>4. CASE y + 1 = Width
  <2>1. (y + 1) % Width = 0
    BY <1>4
  <2>2. (Width - 1) % Width = Width - 1
    OBVIOUS
  <2> QED
    BY <1>1, <1>2, <1>4, <2>1, <2>2 DEF y
<1> QED
  BY <1>2, <1>3, <1>4

-----------------------------------------------------------------------------
(* Types. *)

\* Giving up a frame leaves the others as they are.
LEMMA WithoutType ==
  ASSUME NEW f
  PROVE  /\ DOMAIN Without(f) = DOMAIN frame \ {f}
         /\ \A g \in DOMAIN frame \ {f} : Without(f)[g] = frame[g]
         /\ DeviceInv => Without(f) \in [DOMAIN Without(f) -> {"reply", "data"} \X Nat]
BY DEF Without, DeviceInv

\* transmit_cmd_and_wait files the call under an id of the table.
LEMMA TransmitType ==
  ASSUME TypeOK, DeviceInv, NEW kind, Transmit(kind)
  PROVE  /\ DOMAIN d_pending_replies' = 0 .. NRIDS - 1
         /\ \A i \in 0 .. NRIDS - 1 :
              d_pending_replies'[i] \in {0} \union {c \in 1 .. cmd' : rid(c) = i}
BY DEF TypeOK, DeviceInv, Transmit

\* A ring that gains or loses a frame is one still.
LEMMA RingType ==
  ASSUME NEW r \in Seq(Frames)
  PROVE  /\ \A f \in Frames : /\ Append(r, f) \in Seq(Frames)
                              /\ Len(Append(r, f)) = Len(r) + 1
                              /\ Range(Append(r, f)) = Range(r) \union {f}
         /\ r # <<>> => /\ Tail(r) \in Seq(Frames) /\ Len(Tail(r)) = Len(r) - 1
                        /\ Head(r) \in Frames
                        /\ Range(r) = Range(Tail(r)) \union {Head(r)}
         /\ Range(r) \subseteq Frames
         /\ Len(r) < NFrames => r # None
<1>1. ASSUME NEW f \in Frames PROVE Range(Append(r, f)) = Range(r) \union {f}
  <2>1. \A i \in DOMAIN r : Append(r, f)[i] = r[i]
    OBVIOUS
  <2>2. DOMAIN Append(r, f) = DOMAIN r \union {Len(r) + 1} /\ Append(r, f)[Len(r) + 1] = f
    OBVIOUS
  <2> QED
    BY <2>1, <2>2 DEF Range
<1>2. ASSUME r # <<>> PROVE Range(r) = Range(Tail(r)) \union {Head(r)}
  <2>1. \A i \in DOMAIN Tail(r) : Tail(r)[i] = r[i + 1] /\ i + 1 \in DOMAIN r
    BY <1>2
  <2>2. \A i \in DOMAIN r \ {1} : i - 1 \in DOMAIN Tail(r) /\ r[i] = Tail(r)[i - 1]
    BY <1>2
  <2>3. 1 \in DOMAIN r /\ Head(r) = r[1]
    BY <1>2
  <2>4. Range(Tail(r)) \subseteq Range(r) /\ Head(r) \in Range(r)
    BY <2>1, <2>3 DEF Range
  <2>5. ASSUME NEW i \in DOMAIN r PROVE r[i] \in Range(Tail(r)) \union {Head(r)}
    BY <2>2, <2>3 DEF Range
  <2>6. Range(r) \subseteq Range(Tail(r)) \union {Head(r)}
    BY <2>5 DEF Range
  <2> QED
    BY <2>4, <2>6
<1>3. ASSUME Len(r) < NFrames PROVE r # None
  <2>1. r \in [1 .. Len(r) -> Frames] /\ Len(r) \in 0 .. NFrames
    BY <1>3
  <2> QED
    BY <2>1 DEF Frames
<1>4. Range(r) \subseteq Frames
  BY DEF Range
<1> QED
  BY <1>1, <1>2, <1>3, <1>4

\* Every step keeps every variable in its type.
LEMMA TypeStep == Usrp2Inv /\ [Next]_vars => TypeOK'
<1> SUFFICES ASSUME TypeOK, DeviceInv, CallInv, [Next]_vars PROVE TypeOK'
  BY DEF Usrp2Inv
<1> USE DEF TypeOK, device, eth, bgs, apps, hist, vars
<1>1. CASE UNCHANGED <<frame, tail, d_head, ring, d_num_enqueued, rings_mutex, d_pending_replies, cmd>>
  BY <1>1
<1>2. CASE Answer \/ Samples
  <2>1. PICK p : Arrives(p) \/ UNCHANGED <<frame, tail>>
    BY <1>2 DEF Answer, Samples
  <2>2. DOMAIN frame' \subseteq Frames /\ tail' \in Frames
    BY <2>1, IncType DEF Arrives
  <2> QED
    BY <1>2, <2>2 DEF Answer, Samples
<1>3. CASE BgPresent \/ BgClear
  <2>1. DOMAIN frame' \subseteq Frames /\ d_head' \in Frames
    BY <1>3, WithoutType, IncType DEF BgPresent, BgClear, Released, NextHead
  <2> QED
    BY <1>3, <2>1 DEF BgPresent, BgClear
<1>4. CASE BgEnqueue
  <2>1. DOMAIN frame' \subseteq Frames /\ d_head' \in Frames
    BY <1>4, WithoutType, IncType DEF BgEnqueue, Released, NextHead
  <2>2. CASE Room /\ ring' = Enqueued
    <3>1. ring \in Seq(Frames) /\ Len(ring) < NFrames - 1
      BY <2>2 DEF Room, CallInv
    <3>2. Len(ring') < NFrames /\ Range(ring') \subseteq Frames
      BY <2>2, <3>1, RingType DEF Enqueued
    <3> QED
      BY <1>4, <2>1, <3>2 DEF BgEnqueue
  <2>3. CASE UNCHANGED ring
    BY <1>4, <2>1, <2>3 DEF BgEnqueue
  <2> QED
    BY <1>4, <2>2, <2>3 DEF BgEnqueue
<1>5. CASE BgInc
  <2>1. d_head' \in Frames
    BY <1>5, IncType DEF BgInc, NextHead
  <2>2. (d_num_enqueued + 1) % Width \in 0 .. Width - 1
    OBVIOUS
  <2> QED
    BY <1>5, <2>1, <2>2 DEF BgInc
<1>6. CASE Configure \/ start_rx_streaming \/ StopCommand
  <2>1. PICK kind : Transmit(kind)
    BY <1>6 DEF Configure, start_rx_streaming, StopCommand
  <2> QED
    BY <1>6, <2>1, TransmitType DEF Configure, start_rx_streaming, StopCommand
<1>7. CASE Return
  <2>1. ring' = None \/ ring' = <<>> \/ ring' = ring
    BY <1>7 DEF Return
  <2>2. Len(<<>>) < NFrames /\ Range(<<>>) \subseteq Frames
    BY DEF Range
  <2>3. ring' = None \/ (Len(ring') < NFrames /\ Range(ring') \subseteq Frames)
    BY <2>1, <2>2
  <2> QED
    BY <1>7, <2>3 DEF Return, Forget
<1>8. CASE Dequeue
  <2>1. ring # None /\ ring # <<>> /\ ring' = Tail(ring)
    BY <1>8 DEF Dequeue, CallInv
  <2>2. Len(ring') < NFrames /\ Range(ring') \subseteq Frames
    BY <2>1, RingType DEF CallInv
  <2> QED
    BY <1>8, <2>2 DEF Dequeue
<1>9. CASE release_frame
  <2>1. DOMAIN frame' \subseteq Frames
    BY <1>9, WithoutType DEF release_frame
  <2> QED
    BY <1>9, <2>1 DEF release_frame
<1>10. CASE dec_enqueued
  <2>1. (d_num_enqueued + Width - 1) % Width \in 0 .. Width - 1
    OBVIOUS
  <2> QED
    BY <1>10, <2>1 DEF dec_enqueued
<1>11. CASE BgNoFrame \/ BgMemcpy \/ BgComplete \/ BgCheck \/ BgSleep \/ BgWake
  BY <1>1, <1>11 DEF BgNoFrame, BgMemcpy, BgComplete, BgCheck, BgSleep, BgWake
<1>12. CASE stop_rx_streaming \/ rx_samples \/ stop_bg \/ Completion \/ LoopEnds \/ NotifyBg
  BY <1>1, <1>12 DEF stop_rx_streaming, rx_samples, stop_bg, Completion, LoopEnds, NotifyBg
<1> QED
  BY <1>1, <1>2, <1>3, <1>4, <1>5, <1>6, <1>7, <1>8, <1>9, <1>10, <1>11, <1>12
     DEF Next, Bg, App, InCall

-----------------------------------------------------------------------------
(* The device, the calls, the sleep and the replies. *)

\* A packet that arrives is put where the kernel fills next, or is lost.
LEMMA ArrivesFrame ==
  ASSUME DeviceInv, NEW p \in {"reply", "data"} \X Nat, Arrives(p), tail \notin DOMAIN frame
  PROVE  /\ DOMAIN frame' = DOMAIN frame \union {tail}
         /\ frame'[tail] = p
         /\ \A f \in DOMAIN frame : frame'[f] = frame[f]
         /\ frame' \in [DOMAIN frame' -> {"reply", "data"} \X Nat]
BY DEF Arrives, DeviceInv

\* Frames hold what the device has sent, the device gets what was asked.
LEMMA DeviceStep == Usrp2Inv /\ [Next]_vars => DeviceInv'
<1> SUFFICES ASSUME TypeOK, DeviceInv, [Next]_vars PROVE DeviceInv'
  BY DEF Usrp2Inv
<1> USE DEF device, eth, bgs, apps, hist, vars
<1>1. CASE UNCHANGED <<frame, sent, cmd, asked>>
  BY <1>1 DEF DeviceInv
<1>2. CASE Answer
  <2>1. /\ asked # <<>> /\ asked' = Tail(asked)
        /\ UNCHANGED frame \/ Arrives(<<"reply", Head(asked)[2]>>)
        /\ UNCHANGED <<cmd, sent>>
    BY <1>2 DEF Answer
  <2>2. Head(asked)[2] \in 1 .. cmd
    BY <2>1 DEF DeviceInv
  <2>3. /\ asked' \in Seq({"config", "start", "stop"} \X Nat)
        /\ \A i \in DOMAIN asked' : asked'[i][2] \in 1 .. cmd
    <3>1. asked \in Seq({"config", "start", "stop"} \X Nat)
          /\ \A i \in DOMAIN asked : asked[i][2] \in 1 .. cmd
      BY DEF DeviceInv
    <3>2. /\ asked' \in Seq({"config", "start", "stop"} \X Nat)
          /\ \A i \in DOMAIN asked' : i + 1 \in DOMAIN asked /\ asked'[i] = asked[i + 1]
      BY <2>1, <3>1
    <3> QED
      BY <3>1, <3>2
  <2>4. CASE UNCHANGED frame
    BY <2>1, <2>3, <2>4 DEF DeviceInv
  <2>5. CASE ~UNCHANGED frame
    <3>1. DEFINE p == <<"reply", Head(asked)[2]>>
    <3>2. p \in {"reply", "data"} \X Nat /\ p[1] = "reply" /\ p[2] \in 1 .. cmd
      BY <2>2 DEF DeviceInv
    <3>3. Arrives(p) /\ tail \notin DOMAIN frame
      BY <2>1, <2>5 DEF Arrives
    <3> HIDE DEF p
    <3>4. /\ DOMAIN frame' = DOMAIN frame \union {tail} /\ frame'[tail] = p
          /\ \A f \in DOMAIN frame : frame'[f] = frame[f]
          /\ frame' \in [DOMAIN frame' -> {"reply", "data"} \X Nat]
      BY <3>2, <3>3, ArrivesFrame
    <3> QED
      BY <2>1, <2>3, <3>2, <3>4 DEF DeviceInv
  <2> QED
    BY <2>4, <2>5
<1>3. CASE Samples
  <2>1. sent' = sent + 1 /\ Arrives(<<"data", sent + 1>>) /\ UNCHANGED <<cmd, asked>>
    BY <1>3 DEF Samples
  <2>2. CASE UNCHANGED frame
    BY <2>1, <2>2 DEF DeviceInv
  <2>3. CASE ~UNCHANGED frame
    <3>1. DEFINE p == <<"data", sent + 1>>
    <3>2. p \in {"reply", "data"} \X Nat /\ p[1] = "data" /\ p[2] = sent + 1
      BY DEF DeviceInv
    <3>3. Arrives(p) /\ tail \notin DOMAIN frame
      BY <2>1, <2>3 DEF Arrives
    <3> HIDE DEF p
    <3>4. /\ DOMAIN frame' = DOMAIN frame \union {tail} /\ frame'[tail] = p
          /\ \A f \in DOMAIN frame : frame'[f] = frame[f]
          /\ frame' \in [DOMAIN frame' -> {"reply", "data"} \X Nat]
      BY <3>2, <3>3, ArrivesFrame
    <3> QED
      BY <2>1, <3>2, <3>4 DEF DeviceInv
  <2> QED
    BY <2>2, <2>3
<1>4. CASE BgPresent \/ BgClear \/ BgEnqueue \/ release_frame
  <2>1. UNCHANGED <<cmd, sent, asked>>
    BY <1>4 DEF BgPresent, BgClear, BgEnqueue, release_frame
  <2>2. UNCHANGED frame \/ \E f : frame' = Without(f)
    BY <1>4 DEF BgPresent, BgClear, BgEnqueue, Released, release_frame
  <2>3. CASE \E f : frame' = Without(f)
    <3>1. PICK f : frame' = Without(f)
      BY <2>3
    <3> QED
      <4>1. /\ DOMAIN frame' \subseteq DOMAIN frame
            /\ \A g \in DOMAIN frame' : frame'[g] = frame[g]
            /\ frame' \in [DOMAIN frame' -> {"reply", "data"} \X Nat]
        BY <3>1, WithoutType
      <4> QED
        BY <2>1, <4>1 DEF DeviceInv
  <2> QED
    BY <1>1, <2>1, <2>2, <2>3
<1>5. CASE Configure \/ start_rx_streaming \/ StopCommand
  <2>1. PICK kind \in {"config", "start", "stop"} : Transmit(kind)
    BY <1>5 DEF Configure, start_rx_streaming, StopCommand
  <2>2. cmd' = cmd + 1 /\ UNCHANGED <<frame, sent>>
    BY <1>5 DEF Configure, start_rx_streaming, StopCommand, Transmit
  <2>3. asked' = asked \/ asked' = Append(asked, <<kind, cmd + 1>>)
    BY <2>1 DEF Transmit
  <2>4. CASE asked' = asked
    BY <2>2, <2>4 DEF DeviceInv
  <2>5. CASE asked' = Append(asked, <<kind, cmd + 1>>)
    <3>1. <<kind, cmd + 1>> \in {"config", "start", "stop"} \X Nat
      BY DEF DeviceInv
    <3>2. asked' \in Seq({"config", "start", "stop"} \X Nat)
      BY <2>5, <3>1 DEF DeviceInv
    <3>3. \A i \in DOMAIN asked' : asked'[i] = IF i \in DOMAIN asked THEN asked[i] ELSE <<kind, cmd + 1>>
      BY <2>5 DEF DeviceInv
    <3>4. \A i \in DOMAIN asked' : asked'[i][2] \in 1 .. cmd + 1
      BY <3>3 DEF DeviceInv
    <3> QED
      BY <2>2, <3>2, <3>4 DEF DeviceInv
  <2> QED
    BY <2>3, <2>4, <2>5
<1>6. CASE BgNoFrame \/ BgMemcpy \/ BgComplete \/ BgInc \/ BgCheck \/ BgSleep \/ BgWake
  BY <1>1, <1>6 DEF BgNoFrame, BgMemcpy, BgComplete, BgInc, BgCheck, BgSleep, BgWake
<1>7. CASE stop_rx_streaming \/ rx_samples \/ stop_bg \/ Completion \/ Return \/ Dequeue
           \/ dec_enqueued \/ LoopEnds \/ NotifyBg
  BY <1>1, <1>7 DEF stop_rx_streaming, rx_samples, stop_bg, Completion, Return, Dequeue,
                    dec_enqueued, LoopEnds, NotifyBg
<1> QED
  BY <1>1, <1>2, <1>3, <1>4, <1>5, <1>6, <1>7 DEF Next, Bg, App, InCall

\* Frames are in hand only in the loops, and the loops have a ring.
LEMMA CallStep == Usrp2Inv /\ [Next]_vars => CallInv'
<1> SUFFICES ASSUME TypeOK, CallInv, [Next]_vars PROVE CallInv'
  BY DEF Usrp2Inv
<1> USE DEF device, eth, bgs, apps, hist, vars
<1>1. CASE UNCHANGED <<ring, hand, app>>
  BY <1>1 DEF CallInv, Loop
<1>2. CASE BgEnqueue
  <2>1. CASE UNCHANGED ring
    BY <1>1, <1>2, <2>1 DEF BgEnqueue
  <2>2. CASE Room /\ ring' = Enqueued
    <3>1. ring \in Seq(Frames) /\ Len(ring) < NFrames - 1 /\ d_head \in Frames
      BY <2>2 DEF Room, CallInv, TypeOK
    <3>2. ring' \in Seq(Frames) /\ Len(ring') < NFrames
      BY <2>2, <3>1 DEF Enqueued
    <3>3. ring' # None
      BY <3>2, RingType
    <3> QED
      BY <1>2, <3>2, <3>3 DEF CallInv, BgEnqueue, Loop
  <2> QED
    BY <1>2, <2>1, <2>2 DEF BgEnqueue
<1>3. CASE Dequeue
  <2>1. ring # None /\ ring # <<>> /\ ring' = Tail(ring) /\ hand' = {Head(ring)} /\ Loop'
    BY <1>3 DEF Dequeue, CallInv, Loop
  <2>2. ring' \in Seq(Frames) /\ Len(ring') < NFrames /\ Head(ring) \in Frames
    BY <2>1, RingType DEF CallInv, TypeOK
  <2>3. ring' # None
    BY <2>2, RingType
  <2> QED
    BY <2>1, <2>2, <2>3 DEF CallInv
<1>4. CASE Return
  <2>1. (ring' = None \/ ring' = <<>> \/ ring' = ring) /\ app' = "idle" /\ UNCHANGED hand /\ ~Loop
    BY <1>4 DEF Return, Loop
  <2>2. <<>> \in Seq(Frames)
    OBVIOUS
  <2> QED
    BY <2>1, <2>2 DEF CallInv, Loop
<1>5. CASE release_frame
  BY <1>5 DEF release_frame, CallInv, AfterRelease, Loop
<1>6. CASE Configure \/ start_rx_streaming \/ StopCommand
  BY <1>6 DEF Configure, start_rx_streaming, StopCommand, Transmit, CallInv, Loop
<1>7. CASE stop_rx_streaming \/ rx_samples \/ stop_bg \/ Completion \/ NotifyBg
  BY <1>7 DEF stop_rx_streaming, rx_samples, stop_bg, Completion, NotifyBg, CallInv, Loop
<1>8. CASE dec_enqueued \/ LoopEnds
  BY <1>8 DEF dec_enqueued, LoopEnds, CallInv, Loop
<1>9. CASE Answer \/ Samples \/ BgPresent \/ BgNoFrame \/ BgMemcpy \/ BgComplete \/ BgClear \/ BgInc
           \/ BgCheck \/ BgSleep \/ BgWake
  BY <1>1, <1>9 DEF Answer, Samples, BgPresent, BgNoFrame, BgMemcpy, BgComplete, BgClear, BgInc,
                    BgCheck, BgSleep, BgWake
<1> QED
  BY <1>1, <1>2, <1>3, <1>4, <1>5, <1>6, <1>7, <1>8, <1>9 DEF Next, Bg, App, InCall

\* The thread sleeps with frames queued, or has been notified.
LEMMA SleepStep == Usrp2Inv /\ [Next]_vars => SleepInv'
<1> SUFFICES ASSUME TypeOK, SleepInv, [Next]_vars PROVE SleepInv'
  BY DEF Usrp2Inv
<1> USE DEF SleepInv, SleepsOnlyOnFrames, device, eth, bgs, apps, hist, vars
<1>1. CASE UNCHANGED <<bg, notified, d_num_enqueued>>
  BY <1>1
<1>2. CASE bg' \notin {"wait", "asleep"}
  BY <1>2
<1>3. CASE BgCheck \/ BgSleep
  BY <1>3 DEF BgCheck, BgSleep
<1>4. CASE BgPresent \/ BgNoFrame \/ BgMemcpy \/ BgComplete \/ BgClear \/ BgEnqueue \/ BgInc \/ BgWake
  BY <1>2, <1>4 DEF BgPresent, BgNoFrame, BgMemcpy, BgComplete, BgClear, BgEnqueue, BgInc, BgWake,
                    Released
<1>5. CASE dec_enqueued
  <2>1. bg # "wait" /\ bg' = bg /\ d_num_enqueued' = (d_num_enqueued + Width - 1) % Width
    BY <1>5 DEF dec_enqueued
  <2>2. CASE bg = "asleep" /\ ~notified'
    <3>0. ~notified /\ ~zero_left
      BY <1>5, <2>2, Zenon DEF dec_enqueued
    <3>1. d_num_enqueued \in 2 .. Width - 1
      BY <2>2, <3>0 DEF zero_left, TypeOK
    <3>2. DEFINE y == d_num_enqueued - 1
    <3>3. y \in 1 .. Width - 1 /\ y \in 0 .. Width - 1 /\ d_num_enqueued + Width - 1 = y + Width
      BY <3>1
    <3> HIDE DEF y
    <3>4. (y + Width) % Width = y
      BY <3>3, ModAdd
    <3> QED
      BY <2>1, <2>2, <3>3, <3>4
  <2> QED
    BY <2>1, <2>2
<1>6. CASE NotifyBg
  BY <1>6 DEF NotifyBg
<1>7. CASE Answer \/ Samples \/ Configure \/ start_rx_streaming \/ stop_rx_streaming \/ rx_samples
           \/ stop_bg
  BY <1>1, <1>7 DEF Answer, Samples, Configure, start_rx_streaming, stop_rx_streaming, rx_samples,
                    stop_bg
<1>8. CASE StopCommand \/ Completion \/ Return \/ Dequeue \/ release_frame \/ LoopEnds
  BY <1>1, <1>8 DEF StopCommand, Completion, Return, Dequeue, release_frame, LoopEnds
<1> QED
  BY <1>1, <1>3, <1>4, <1>5, <1>6, <1>7, <1>8 DEF Next, Bg, App, InCall

\* The call that waits is the only one in the table, and what is copied for it
\* answers its command.
LEMMA ReplyStep == Usrp2Inv /\ [Next]_vars => ReplyInv'
<1> SUFFICES ASSUME TypeOK, DeviceInv, ReplyInv, [Next]_vars PROVE ReplyInv'
  BY DEF Usrp2Inv
<1> USE DEF device, eth, bgs, apps, hist, vars
<1>1. CASE UNCHANGED <<bg, pkt, rp, d_pending_replies, app, cmd, d_complete, reply, overtaken>>
  BY <1>1 DEF ReplyInv, Waiting, Answers
<1>2. CASE /\ UNCHANGED <<d_pending_replies, app, cmd, d_complete, reply, overtaken>>
           /\ bg' \notin {"memcpy", "notify_completion"}
  BY <1>2 DEF ReplyInv, Waiting, Answers
<1>3. CASE BgPresent
  <2>1. UNCHANGED <<d_pending_replies, app, cmd, d_complete, reply, overtaken>>
    BY <1>3 DEF BgPresent
  <2>2. CASE bg' = "memcpy"
    <3> DEFINE p == frame[d_head]
               pending == d_pending_replies[rid(p[2])]
    <3>1. d_head \in DOMAIN frame /\ p[1] = "reply" /\ pending # 0 /\ rp' = pending /\ pkt' = p[2]
      BY <1>3, <2>2 DEF BgPresent, Released
    <3>2. p[2] \in 1 .. cmd /\ rid(p[2]) \in 0 .. NRIDS - 1
      BY <3>1, RidType DEF DeviceInv
    <3>3. rid(p[2]) \in DOMAIN d_pending_replies
      BY <3>2 DEF TypeOK
    <3>4. Waiting /\ pending = cmd /\ rid(cmd) = rid(p[2])
      BY <3>1, <3>3 DEF ReplyInv, TypeOK
    <3>5. Answers(p[2])
      BY <3>2, <3>4, SameRid DEF Answers, DeviceInv
    <3> QED
      BY <2>1, <2>2, <3>1, <3>4, <3>5 DEF ReplyInv, Waiting, Answers
  <2>3. CASE bg' # "memcpy"
    <3>1. bg' # "notify_completion"
      BY <1>3 DEF BgPresent, Released
    <3> QED
      BY <1>2, <2>1, <2>3, <3>1
  <2> QED
    BY <2>2, <2>3
<1>4. CASE BgMemcpy
  <2>1. /\ bg = "memcpy" /\ bg' = "notify_completion"
        /\ (Waiting /\ reply' = pkt) \/ (~Alive /\ UNCHANGED reply)
        /\ UNCHANGED <<d_pending_replies, app, cmd, d_complete, pkt, rp, overtaken>>
    BY <1>4 DEF BgMemcpy
  <2>2. ~overtaken => reply' = pkt /\ Alive /\ Answers(pkt)
    BY <2>1 DEF ReplyInv, Alive
  <2> QED
    BY <2>1, <2>2 DEF ReplyInv, Waiting, Answers
<1>5. CASE BgComplete
  <2>1. /\ bg = "notify_completion" /\ bg' = "clear"
        /\ UNCHANGED <<d_pending_replies, app, cmd, reply, pkt, rp, overtaken>>
        /\ d_complete => d_complete'
    BY <1>5 DEF BgComplete
  <2>2. ~overtaken => Answers(reply)
    BY <2>1 DEF ReplyInv
  <2> QED
    BY <2>1, <2>2 DEF ReplyInv, Waiting, Answers
<1>6. CASE BgClear
  <2>1. /\ d_pending_replies' = [d_pending_replies EXCEPT ![rid(pkt)] = 0]
        /\ bg' = "rx_frames" /\ UNCHANGED <<app, cmd, d_complete, reply, overtaken>>
    BY <1>6 DEF BgClear, Released
  <2> QED
    BY <2>1 DEF ReplyInv, Waiting, Answers
<1>7. CASE BgNoFrame \/ BgEnqueue \/ BgInc \/ BgCheck \/ BgSleep \/ BgWake
  BY <1>2, <1>7 DEF BgNoFrame, BgEnqueue, BgInc, BgCheck, BgSleep, BgWake, Released
<1>8. CASE Configure \/ start_rx_streaming \/ StopCommand
  <2>1. /\ app \in {"idle", "stop"} /\ UNCHANGED <<bg, pkt, rp, overtaken>>
        /\ \E kind : Transmit(kind)
    BY <1>8 DEF Configure, start_rx_streaming, StopCommand
  <2>2. ~Waiting
    BY <2>1 DEF Waiting
  <2>3. bg \in {"memcpy", "notify_completion"} => overtaken
    BY <2>2 DEF ReplyInv
  <2>4. \A i \in DOMAIN d_pending_replies : d_pending_replies[i] = 0
    BY <2>2 DEF ReplyInv
  <2>5. /\ cmd' = cmd + 1 /\ d_complete' = FALSE /\ Waiting' /\ app' # "succeeded"
        /\ d_pending_replies' = [d_pending_replies EXCEPT ![rid(cmd + 1)] = cmd + 1]
    BY <2>1 DEF Transmit, Waiting
  <2>6. \A i \in DOMAIN d_pending_replies' : d_pending_replies'[i] # 0 => d_pending_replies'[i] = cmd'
    BY <2>4, <2>5
  <2> QED
    BY <2>1, <2>3, <2>5, <2>6 DEF ReplyInv
<1>9. CASE Return
  <2>1. /\ Waiting /\ ~Waiting' /\ app' # "succeeded"
        /\ d_pending_replies' = [d_pending_replies EXCEPT ![rid(cmd)] = 0]
        /\ UNCHANGED <<bg, pkt, rp, cmd, d_complete, reply>>
    BY <1>9 DEF Return, Waiting, Forget
  <2>2. overtaken \/ (bg \in {"memcpy", "notify_completion"} /\ rp = cmd) => overtaken'
    BY <1>9, Zenon DEF Return
  <2>3. \A i \in DOMAIN d_pending_replies : d_pending_replies[i] # 0 => i = rid(cmd)
    BY DEF ReplyInv, TypeOK
  <2>4. \A i \in DOMAIN d_pending_replies' : d_pending_replies'[i] = 0
    BY <2>1, <2>3
  <2>5. bg \in {"memcpy", "notify_completion"} => overtaken'
    BY <2>2 DEF ReplyInv
  <2> QED
    BY <2>1, <2>4, <2>5 DEF ReplyInv
<1>10. CASE Completion
  <2>1. /\ Waiting /\ Waiting' /\ (app' = "succeeded" => d_complete)
        /\ UNCHANGED <<bg, pkt, rp, d_pending_replies, cmd, d_complete, reply, overtaken>>
    BY <1>10 DEF Completion, Waiting
  <2> QED
    BY <2>1 DEF ReplyInv, Answers
<1>11. CASE stop_rx_streaming \/ rx_samples \/ stop_bg \/ Dequeue \/ release_frame \/ dec_enqueued
            \/ LoopEnds \/ NotifyBg
  <2>1. /\ ~Waiting /\ ~Waiting' /\ app' # "succeeded"
        /\ UNCHANGED <<bg, pkt, rp, d_pending_replies, cmd, d_complete, reply, overtaken>>
    BY <1>11 DEF stop_rx_streaming, rx_samples, stop_bg, Dequeue, release_frame, dec_enqueued,
                 LoopEnds, NotifyBg, Loop, Waiting, AfterRelease
  <2> QED
    BY <2>1 DEF ReplyInv, Answers
<1>12. CASE Answer \/ Samples
  BY <1>1, <1>12 DEF Answer, Samples
<1> QED
  BY <1>1, <1>3, <1>4, <1>5, <1>6, <1>7, <1>8, <1>9, <1>10, <1>11, <1>12 DEF Next, Bg, App, InCall

-----------------------------------------------------------------------------
(* The frames that are kept. *)

\* Once a kept frame was presented again, that stays recorded.
LEMMA OverrunStays == ASSUME [Next]_vars, ~overrun' PROVE ~overrun
<1> USE DEF device, eth, bgs, apps, hist, vars
<1>1. CASE BgPresent
  BY <1>1, Zenon DEF BgPresent
<1>2. CASE UNCHANGED overrun
  BY <1>2
<1>3. CASE BgNoFrame \/ BgMemcpy \/ BgComplete \/ BgClear \/ BgEnqueue \/ BgInc \/ BgCheck \/ BgSleep
           \/ BgWake \/ Answer \/ Samples
  BY <1>2, <1>3 DEF BgNoFrame, BgMemcpy, BgComplete, BgClear, BgEnqueue, BgInc, BgCheck, BgSleep,
                    BgWake, Answer, Samples
<1>4. CASE App
  BY <1>2, <1>4 DEF App, InCall, Configure, start_rx_streaming, stop_rx_streaming, rx_samples, stop_bg,
                    StopCommand, Completion, Return, Dequeue, release_frame, dec_enqueued, LoopEnds,
                    NotifyBg
<1> QED
  BY <1>1, <1>2, <1>3, <1>4 DEF Next, Bg

\* What the ring holds after a frame is put into it or taken out of it.
LEMMA QueuedAfter ==
  ASSUME CallInv, ring # None
  PROVE  /\ \A f \in Frames \ Range(ring) : IsInjective(ring) => IsInjective(Append(ring, f))
         /\ ring # <<>> /\ IsInjective(ring) =>
              IsInjective(Tail(ring)) /\ Head(ring) \notin Range(Tail(ring))
<1>0. ring \in Seq(Frames)
  BY DEF CallInv
<1>1. ASSUME NEW f \in Frames \ Range(ring), IsInjective(ring) PROVE IsInjective(Append(ring, f))
  <2>1. \A i \in DOMAIN ring : Append(ring, f)[i] = ring[i] /\ ring[i] # f
    BY <1>0 DEF Range
  <2>2. DOMAIN Append(ring, f) = DOMAIN ring \union {Len(ring) + 1} /\ Append(ring, f)[Len(ring) + 1] = f
    BY <1>0
  <2> QED
    BY <1>1, <2>1, <2>2 DEF IsInjective
<1>2. ASSUME ring # <<>>, IsInjective(ring)
      PROVE  IsInjective(Tail(ring)) /\ Head(ring) \notin Range(Tail(ring))
  <2>1. \A i \in DOMAIN Tail(ring) : i \in Nat /\ Tail(ring)[i] = ring[i + 1] /\ i + 1 \in DOMAIN ring /\ i + 1 # 1
    BY <1>0, <1>2
  <2>2. 1 \in DOMAIN ring /\ Head(ring) = ring[1]
    BY <1>0, <1>2
  <2>3. \A i, j \in DOMAIN Tail(ring) : i + 1 = j + 1 => i = j
    BY <2>1
  <2>4. Head(ring) \notin Range(Tail(ring))
    BY <1>2, <2>1, <2>2 DEF IsInjective, Range
  <2>5. IsInjective(Tail(ring))
    BY <1>2, <2>1, <2>3 DEF IsInjective
  <2> QED
    BY <2>4, <2>5
<1> QED
  BY <1>1, <1>2

\* The kept frames are those not given back, and the queue is made of them.
LEMMA KeptStep == Usrp2Inv /\ [Next]_vars => KeptInv'
<1> SUFFICES ASSUME TypeOK, DeviceInv, CallInv, KeptInv, [Next]_vars, ~overrun' PROVE KeptInv'
  BY DEF Usrp2Inv, KeptInv
<1>0. ~overrun
  BY OverrunStays
<1>k. /\ kept \subseteq DOMAIN frame
      /\ hand \subseteq kept /\ Queued \subseteq kept \ hand
      /\ ring # None => IsInjective(ring)
      /\ bg \in Handling => d_head \in DOMAIN frame \ kept
  BY <1>0 DEF KeptInv
<1>h. d_head \in Frames
  BY DEF TypeOK
<1> HIDE DEF KeptInv
<1> USE DEF device, eth, bgs, apps, hist, vars
<1>1. CASE UNCHANGED <<kept, frame, hand, ring, d_head>> /\ (bg' \in Handling => bg \in Handling)
  BY <1>1, <1>k DEF KeptInv, Queued
<1>2. CASE Answer \/ Samples
  <2>1. UNCHANGED <<kept, hand, ring, d_head, bg>>
    BY <1>2 DEF Answer, Samples
  <2>2. PICK p : Arrives(p) \/ UNCHANGED <<frame, tail>>
    BY <1>2 DEF Answer, Samples
  <2>3. DOMAIN frame \subseteq DOMAIN frame'
    BY <2>2 DEF Arrives
  <2> QED
    BY <1>k, <2>1, <2>3 DEF KeptInv, Queued
<1>3. CASE Released /\ d_head \notin kept /\ UNCHANGED <<hand, ring>>
  <2>1. /\ DOMAIN frame' = DOMAIN frame \ {d_head} /\ kept' = kept /\ bg' \notin Handling
        /\ UNCHANGED <<hand, ring>>
    BY <1>3, WithoutType DEF Released, Handling
  <2>2. kept' \subseteq DOMAIN frame'
    BY <1>3, <1>k, <2>1
  <2> QED
    BY <1>k, <2>1, <2>2 DEF KeptInv, Queued
<1>4. CASE BgPresent
  <2>1. d_head \in DOMAIN frame /\ UNCHANGED <<hand, ring>>
    BY <1>4 DEF BgPresent
  <2>2. d_head \notin kept
    BY <1>4, Zenon DEF BgPresent
  <2>3. Released \/ UNCHANGED <<frame, d_head, kept>>
    BY <1>4 DEF BgPresent
  <2> QED
    BY <1>k, <1>3, <2>1, <2>2, <2>3 DEF KeptInv, Queued
<1>5. CASE BgClear
  BY <1>k, <1>3, <1>5 DEF BgClear, Handling
<1>6. CASE BgEnqueue
  <2>1. d_head \in DOMAIN frame \ kept /\ UNCHANGED hand
    BY <1>k, <1>6 DEF BgEnqueue, Handling
  <2>2. CASE Released /\ UNCHANGED ring
    BY <1>3, <2>1, <2>2
  <2>3. CASE /\ Room /\ ring' = Enqueued /\ kept' = kept \union {d_head} /\ bg' = "inc_enqueued"
             /\ UNCHANGED <<frame, d_head>>
    <3>1. ring # None /\ ring \in Seq(Frames) /\ Len(ring) < NFrames - 1
      BY <2>3 DEF Room, CallInv
    <3>2. ring' = Append(ring, d_head) /\ d_head \notin Range(ring)
      BY <1>k, <2>1, <2>3, <3>1 DEF Enqueued, Queued
    <3>3. ring' # None
      <4>1. ring' \in Seq(Frames) /\ Len(ring') = Len(ring) + 1
        BY <1>h, <3>1, <3>2, RingType
      <4>2. Len(ring') < NFrames
        BY <3>1, <4>1
      <4> QED
        BY <4>1, <4>2, RingType
    <3>4. IsInjective(ring')
      BY <1>h, <1>k, <3>1, <3>2, QueuedAfter
    <3>5. Range(ring') = Range(ring) \union {d_head}
      BY <1>h, <3>1, <3>2, RingType
    <3>6. Range(ring) \subseteq kept \ hand /\ d_head \notin hand
      BY <1>k, <2>1, <3>1 DEF Queued
    <3> QED
      BY <1>k, <2>1, <2>3, <3>3, <3>4, <3>5, <3>6 DEF KeptInv, Queued, Handling
  <2> QED
    BY <1>6, <2>2, <2>3 DEF BgEnqueue
<1>7. CASE BgInc
  <2>1. bg' \notin Handling /\ UNCHANGED <<kept, frame, hand, ring>>
    BY <1>7 DEF BgInc, Handling
  <2> QED
    BY <1>k, <2>1 DEF KeptInv, Queued
<1>8. CASE BgNoFrame \/ BgMemcpy \/ BgComplete \/ BgCheck \/ BgSleep \/ BgWake
  BY <1>1, <1>8 DEF BgNoFrame, BgMemcpy, BgComplete, BgCheck, BgSleep, BgWake, Handling
<1>9. CASE Return
  <2>1. UNCHANGED <<kept, frame, hand, d_head, bg>> /\ (ring' = None \/ ring' = <<>> \/ ring' = ring)
    BY <1>9 DEF Return
  <2>2. Range(<<>>) = {} /\ IsInjective(<<>>)
    BY DEF Range, IsInjective
  <2> QED
    BY <1>k, <2>1, <2>2 DEF KeptInv, Queued
<1>10. CASE Dequeue
  <2>1. /\ ring # None /\ ring # <<>> /\ ring' = Tail(ring) /\ hand' = {Head(ring)}
        /\ UNCHANGED <<kept, frame, d_head, bg>>
    BY <1>10 DEF Dequeue, CallInv
  <2>2. IsInjective(ring') /\ Head(ring) \notin Range(ring')
    BY <1>k, <2>1, QueuedAfter
  <2>3. ring \in Seq(Frames) /\ Range(ring) = Range(ring') \union {Head(ring)}
    BY <2>1, RingType DEF CallInv
  <2>4. Range(ring) \subseteq kept
    BY <1>k, <2>1 DEF Queued
  <2> QED
    BY <1>k, <2>1, <2>2, <2>3, <2>4 DEF KeptInv, Queued
<1>11. CASE release_frame
  <2>1. PICK f \in hand : frame' = Without(f) /\ kept' = kept \ {f}
    BY <1>11 DEF release_frame
  <2>2. hand = {f} /\ hand' = {} /\ UNCHANGED <<ring, d_head, bg>>
    BY <1>11, <2>1 DEF release_frame, CallInv
  <2>3. DOMAIN frame' = DOMAIN frame \ {f}
    BY <2>1, WithoutType
  <2> QED
    BY <1>k, <2>1, <2>2, <2>3 DEF KeptInv, Queued
<1>12. CASE Configure \/ start_rx_streaming \/ StopCommand \/ stop_rx_streaming \/ rx_samples \/ stop_bg
  BY <1>1, <1>12 DEF Configure, start_rx_streaming, StopCommand, stop_rx_streaming, rx_samples, stop_bg
<1>13. CASE Completion \/ dec_enqueued \/ LoopEnds \/ NotifyBg
  BY <1>1, <1>13 DEF Completion, dec_enqueued, LoopEnds, NotifyBg
<1> QED
  BY <1>1, <1>2, <1>4, <1>5, <1>6, <1>7, <1>8, <1>9, <1>10, <1>11, <1>12, <1>13
     DEF Next, Bg, App, InCall

\* 1 while a kept frame is not counted yet, and while one given back still is.
Uncounted == IF bg = "inc_enqueued" THEN 1 ELSE 0
Overcounted == IF app \in {"flush_dec", "rx_dec"} THEN 1 ELSE 0

\* The counter follows the number of kept frames, modulo its width.
LEMMA CountStep == Usrp2Inv /\ [Next]_vars => CountsKeptFrames'
<1> SUFFICES ASSUME Usrp2Inv, [Next]_vars, ~overrun' PROVE CountsKeptFrames'
  BY DEF CountsKeptFrames
<1>0. ~overrun
  BY OverrunStays
<1>k. TypeOK /\ CallInv /\ KeptInv /\ KeptInv'
  BY KeptStep DEF Usrp2Inv
<1>s. SUFFICES d_num_enqueued' = (Cardinality(kept') + Width - Uncounted' + Overcounted') % Width
  BY <1>k, Zenon DEF CountsKeptFrames, KeptInv, Uncounted, Overcounted, Queued
<1>c. d_num_enqueued = (Cardinality(kept) + Width - Uncounted + Overcounted) % Width
  BY <1>0, Zenon DEF Usrp2Inv, CountsKeptFrames, Uncounted, Overcounted
<1>f. IsFiniteSet(kept) /\ Cardinality(kept) \in Nat
  <2>1. kept \subseteq 0 .. NFrames - 1
    BY <1>0, <1>k DEF KeptInv, TypeOK, Frames
  <2>2. IsFiniteSet(0 .. NFrames - 1)
    BY FS_Interval
  <2> QED
    BY <2>1, <2>2, FS_Subset, FS_CardinalityType
<1>u. Uncounted \in {0, 1} /\ Overcounted \in {0, 1}
  BY DEF Uncounted, Overcounted
<1> USE DEF device, eth, bgs, apps, hist, vars
<1>1. CASE UNCHANGED <<kept, d_num_enqueued>> /\ Uncounted' = Uncounted /\ Overcounted' = Overcounted
  BY <1>c, <1>1
<1>2. CASE BgPresent \/ BgClear
  <2>1. d_head \notin kept
    <3>1. CASE BgPresent
      BY <3>1, Zenon DEF BgPresent
    <3>2. CASE BgClear
      BY <1>0, <1>k, <3>2 DEF BgClear, KeptInv, Handling
    <3> QED
      BY <1>2, <3>1, <3>2
  <2>2. kept' = kept
    BY <1>2, <2>1 DEF BgPresent, BgClear, Released
  <2>3. UNCHANGED d_num_enqueued /\ Uncounted' = Uncounted /\ Overcounted' = Overcounted
    BY <1>2 DEF BgPresent, BgClear, Released, Uncounted, Overcounted
  <2> QED
    BY <1>1, <2>2, <2>3
<1>3. CASE BgEnqueue
  <2>1. d_head \notin kept /\ Uncounted = 0 /\ Overcounted' = Overcounted /\ UNCHANGED d_num_enqueued
    BY <1>0, <1>k, <1>3 DEF BgEnqueue, KeptInv, Handling, Uncounted, Overcounted
  <2>2. CASE Released
    BY <1>1, <2>1, <2>2 DEF Released, Uncounted
  <2>3. CASE kept' = kept \union {d_head} /\ bg' = "inc_enqueued"
    <3>1. Cardinality(kept') = Cardinality(kept) + 1
      BY <1>f, <2>1, <2>3, FS_AddElement
    <3>2. Uncounted' = 1
      BY <2>3 DEF Uncounted
    <3>3. Cardinality(kept') + Width - Uncounted' + Overcounted'
            = Cardinality(kept) + Width - Uncounted + Overcounted
      BY <1>f, <1>u, <2>1, <3>1, <3>2
    <3> QED
      BY <1>c, <2>1, <3>3
  <2> QED
    BY <1>3, <2>2, <2>3 DEF BgEnqueue
<1>4. CASE BgInc
  <2>1. /\ kept' = kept /\ Uncounted = 1 /\ Uncounted' = 0 /\ Overcounted' = Overcounted
        /\ d_num_enqueued' = (d_num_enqueued + 1) % Width
    BY <1>4 DEF BgInc, Uncounted, Overcounted
  <2> DEFINE x == Cardinality(kept) + Width - 1 + Overcounted
  <2>2. x \in Nat /\ x = Cardinality(kept) + Width - Uncounted + Overcounted
    BY <1>f, <1>u, <2>1
  <2>3. x + 1 = Cardinality(kept') + Width - Uncounted' + Overcounted'
    BY <1>f, <1>u, <2>1
  <2> HIDE DEF x
  <2> QED
    BY <1>c, <2>1, <2>2, <2>3, ModUp
<1>5. CASE release_frame
  <2>1. PICK f \in hand : kept' = kept \ {f}
    BY <1>5 DEF release_frame
  <2>2. f \in kept
    BY <1>0, <1>k, <2>1 DEF KeptInv
  <2>3. Cardinality(kept') = Cardinality(kept) - 1
    BY <1>f, <2>1, <2>2, FS_RemoveElement
  <2>4. /\ UNCHANGED d_num_enqueued /\ Uncounted' = Uncounted
        /\ Overcounted = 0 /\ Overcounted' = 1
    BY <1>5 DEF release_frame, Loop, AfterRelease, Uncounted, Overcounted
  <2>5. Cardinality(kept') + Width - Uncounted' + Overcounted'
          = Cardinality(kept) + Width - Uncounted + Overcounted
    BY <1>f, <1>u, <2>3, <2>4
  <2> QED
    BY <1>c, <2>4, <2>5
<1>6. CASE dec_enqueued
  <2>1. /\ kept' = kept /\ Uncounted' = Uncounted /\ Overcounted = 1 /\ Overcounted' = 0
        /\ d_num_enqueued' = (d_num_enqueued + Width - 1) % Width
    BY <1>6 DEF dec_enqueued, Uncounted, Overcounted
  <2> DEFINE x == Cardinality(kept) + Width - Uncounted + 1
  <2>2. x \in Nat \ {0} /\ x = Cardinality(kept) + Width - Uncounted + Overcounted
    BY <1>f, <1>u, <2>1
  <2>3. x - 1 = Cardinality(kept') + Width - Uncounted' + Overcounted'
    BY <1>f, <1>u, <2>1
  <2> HIDE DEF x
  <2> QED
    BY <1>c, <2>1, <2>2, <2>3, ModDown
<1>7. CASE BgNoFrame \/ BgMemcpy \/ BgComplete \/ BgCheck \/ BgSleep \/ BgWake \/ Answer \/ Samples
  BY <1>1, <1>7 DEF BgNoFrame, BgMemcpy, BgComplete, BgCheck, BgSleep, BgWake, Answer, Samples,
                    Uncounted, Overcounted
<1>8. CASE Configure \/ start_rx_streaming \/ StopCommand \/ stop_rx_streaming \/ rx_samples \/ stop_bg
  BY <1>1, <1>8 DEF Configure, start_rx_streaming, StopCommand, stop_rx_streaming, rx_samples, stop_bg,
                    Transmit, Uncounted, Overcounted
<1>9. CASE Completion \/ Return \/ Dequeue \/ LoopEnds \/ NotifyBg
  BY <1>1, <1>9 DEF Completion, Return, Dequeue, LoopEnds, NotifyBg, Loop, Uncounted, Overcounted
<1>10. CASE UNCHANGED vars
  BY <1>1, <1>10 DEF Uncounted, Overcounted
<1> QED
  BY <1>2, <1>3, <1>4, <1>5, <1>6, <1>7, <1>8, <1>9, <1>10 DEF Next, Bg, App, InCall

-----------------------------------------------------------------------------
(* The frames not yet handled. *)

\* F is the arc from h to t, or all the frames.
Shape(F, h, t) == F = Arc(h, t) \/ (h = t /\ F = Frames)

\* A frame filled at the end of the arc makes it longer.
LEMMA ShapeAdd ==
  ASSUME NEW F, NEW h \in Frames, NEW t \in Frames, Shape(F, h, t), t \notin F
  PROVE  Shape(F \union {t}, h, Inc(t))
<1>1. F = Arc(h, t)
  BY DEF Shape
<1>2. CASE Inc(t) # h
  <2>1. Arc(h, t) \union {t} = Arc(h, Inc(t))
    BY <1>2 DEF Arc, Inc, Frames
  <2> QED
    BY <1>1, <2>1 DEF Shape
<1>3. CASE Inc(t) = h
  <2>1. Arc(h, t) \union {t} = Frames
    BY <1>3 DEF Arc, Inc, Frames
  <2> QED
    BY <1>1, <1>3, <2>1 DEF Shape
<1> QED
  BY <1>2, <1>3

\* A frame handled at its start makes it shorter.
LEMMA ShapeDrop ==
  ASSUME NEW F, NEW h \in Frames, NEW t \in Frames, Shape(F, h, t), h \in F
  PROVE  Shape(F \ {h}, Inc(h), t)
<1>1. CASE F = Arc(h, t)
  <2>1. h # t
    BY <1>1 DEF Arc, Frames
  <2>2. Arc(h, t) \ {h} = Arc(Inc(h), t)
    BY <2>1 DEF Arc, Inc, Frames
  <2> QED
    BY <1>1, <2>2 DEF Shape
<1>2. CASE h = t /\ F = Frames
  <2>1. Frames \ {h} = Arc(Inc(h), h)
    BY DEF Arc, Inc, Frames
  <2> QED
    BY <1>2, <2>1 DEF Shape
<1> QED
  BY <1>1, <1>2 DEF Shape

\* What a step does to the frames not yet handled: one arrives at the end, one
\* is handled at the start, or nothing.
LEMMA FreshStep ==
  ASSUME Usrp2Inv, [Next]_vars, ~overrun'
  PROVE  /\ ~overrun /\ NextFrame \in Frames /\ tail \in Frames
         /\ \/ /\ tail \notin DOMAIN frame /\ tail \notin kept
               /\ Fresh' = Fresh \union {tail} /\ NextFrame' = NextFrame /\ tail' = Inc(tail)
            \/ /\ NextFrame \in Fresh
               /\ Fresh' = Fresh \ {NextFrame} /\ NextFrame' = Inc(NextFrame) /\ tail' = tail
            \/ Fresh' = Fresh /\ NextFrame' = NextFrame /\ tail' = tail
<1>0. ~overrun
  BY OverrunStays
<1>k. TypeOK /\ CallInv /\ KeptInv /\ DeviceInv
  BY DEF Usrp2Inv
<1>f. NextFrame \in Frames /\ tail \in Frames /\ kept \subseteq DOMAIN frame
  BY <1>0, <1>k, IncType DEF NextFrame, TypeOK, KeptInv
<1> HIDE DEF Usrp2Inv
<1> USE DEF device, eth, bgs, apps, hist, vars
<1>1. CASE UNCHANGED <<frame, kept, d_head, tail>> /\ bg # "inc_enqueued" /\ bg' # "inc_enqueued"
  BY <1>0, <1>1, <1>f DEF Fresh, NextFrame
<1>2. CASE UNCHANGED <<frame, kept, d_head, tail, bg>>
  BY <1>0, <1>2, <1>f DEF Fresh, NextFrame
<1>3. CASE Released /\ bg # "inc_enqueued" /\ d_head \in DOMAIN frame \ kept /\ UNCHANGED tail
  <2>1. DOMAIN frame' = DOMAIN frame \ {d_head} /\ kept' = kept
    BY <1>3, WithoutType DEF Released
  <2>2. NextFrame = d_head /\ NextFrame' = Inc(d_head)
    BY <1>3 DEF Released, NextFrame, NextHead
  <2>3. d_head \in Fresh /\ Fresh' = Fresh \ {d_head}
    BY <1>3, <2>1 DEF Fresh
  <2> QED
    BY <1>0, <1>3, <1>f, <2>2, <2>3
<1>4. CASE Answer \/ Samples
  <2>1. UNCHANGED <<kept, d_head, bg>>
    BY <1>4 DEF Answer, Samples
  <2>2. PICK p : Arrives(p) \/ UNCHANGED <<frame, tail>>
    BY <1>4 DEF Answer, Samples
  <2>3. CASE UNCHANGED <<frame, tail>>
    BY <1>2, <2>1, <2>3
  <2>4. CASE ~UNCHANGED <<frame, tail>>
    <3>1. tail \notin DOMAIN frame /\ DOMAIN frame' = DOMAIN frame \union {tail} /\ tail' = Inc(tail)
      BY <2>2, <2>4 DEF Arrives
    <3>2. tail \notin kept /\ Fresh' = Fresh \union {tail} /\ NextFrame' = NextFrame
      BY <1>f, <2>1, <3>1 DEF Fresh, NextFrame
    <3> QED
      BY <1>0, <1>f, <3>1, <3>2
  <2> QED
    BY <2>3, <2>4
<1>5. CASE BgPresent
  <2>1. d_head \in DOMAIN frame /\ bg = "rx_frames" /\ UNCHANGED tail
    BY <1>5 DEF BgPresent
  <2>2. d_head \notin kept
    BY <1>5, Zenon DEF BgPresent
  <2>3. Released \/ (UNCHANGED <<frame, d_head, kept>> /\ bg' # "inc_enqueued")
    BY <1>5 DEF BgPresent
  <2> QED
    BY <1>1, <1>3, <2>1, <2>2, <2>3
<1>6. CASE BgClear
  BY <1>0, <1>3, <1>6, <1>k DEF BgClear, KeptInv, Handling
<1>7. CASE BgEnqueue
  <2>1. d_head \in DOMAIN frame \ kept /\ bg = "handle_data_packet" /\ UNCHANGED tail
    BY <1>0, <1>7, <1>k DEF BgEnqueue, KeptInv, Handling
  <2>2. CASE Released
    BY <1>3, <2>1, <2>2
  <2>3. CASE /\ kept' = kept \union {d_head} /\ bg' = "inc_enqueued"
             /\ UNCHANGED <<frame, d_head>>
    <3>1. NextFrame = d_head /\ NextFrame' = Inc(d_head)
      BY <2>1, <2>3 DEF NextFrame
    <3>2. d_head \in Fresh /\ Fresh' = Fresh \ {d_head}
      BY <2>1, <2>3 DEF Fresh
    <3> QED
      BY <1>0, <1>f, <2>1, <3>1, <3>2
  <2> QED
    BY <1>7, <2>2, <2>3 DEF BgEnqueue
<1>8. CASE BgInc
  <2>1. NextFrame' = NextFrame
    BY <1>8 DEF BgInc, NextFrame, NextHead
  <2>2. UNCHANGED <<frame, kept, tail>>
    BY <1>8 DEF BgInc
  <2> QED
    BY <1>0, <1>f, <2>1, <2>2 DEF Fresh
<1>9. CASE BgNoFrame \/ BgMemcpy \/ BgComplete \/ BgCheck \/ BgSleep \/ BgWake
  BY <1>1, <1>9 DEF BgNoFrame, BgMemcpy, BgComplete, BgCheck, BgSleep, BgWake
<1>10. CASE release_frame
  <2>1. PICK f \in hand : frame' = Without(f) /\ kept' = kept \ {f}
    BY <1>10 DEF release_frame
  <2>2. f \in kept /\ DOMAIN frame' = DOMAIN frame \ {f}
    BY <1>0, <1>k, <2>1, WithoutType DEF KeptInv
  <2>3. UNCHANGED <<tail, d_head, bg>>
    BY <1>10 DEF release_frame
  <2> QED
    BY <1>0, <1>f, <2>1, <2>2, <2>3 DEF Fresh, NextFrame
<1>11. CASE Configure \/ start_rx_streaming \/ StopCommand \/ stop_rx_streaming \/ rx_samples \/ stop_bg
  BY <1>2, <1>11 DEF Configure, start_rx_streaming, StopCommand, stop_rx_streaming, rx_samples, stop_bg
<1>12. CASE Completion \/ Return \/ Dequeue \/ dec_enqueued \/ LoopEnds \/ NotifyBg
  BY <1>2, <1>12 DEF Completion, Return, Dequeue, dec_enqueued, LoopEnds, NotifyBg
<1> QED
  BY <1>2, <1>4, <1>5, <1>6, <1>7, <1>8, <1>9, <1>10, <1>11, <1>12 DEF Next, Bg, App, InCall

\* The frames not yet handled stay an arc.
LEMMA ArcStep == Usrp2Inv /\ [Next]_vars => ArcInv'
<1> SUFFICES ASSUME Usrp2Inv, [Next]_vars, ~overrun' PROVE Shape(Fresh', NextFrame', tail')
  BY DEF ArcInv, Shape, Arc, Frames
<1>1. ~overrun /\ NextFrame \in Frames /\ tail \in Frames
  BY FreshStep
<1>2. Shape(Fresh, NextFrame, tail)
  BY <1>1 DEF Usrp2Inv, ArcInv, Shape
<1>3. CASE /\ tail \notin DOMAIN frame /\ tail \notin kept
           /\ Fresh' = Fresh \union {tail} /\ NextFrame' = NextFrame /\ tail' = Inc(tail)
  <2>1. tail \notin Fresh
    BY <1>3 DEF Fresh
  <2> QED
    BY <1>1, <1>2, <1>3, <2>1, ShapeAdd
<1>4. CASE /\ NextFrame \in Fresh
           /\ Fresh' = Fresh \ {NextFrame} /\ NextFrame' = Inc(NextFrame) /\ tail' = tail
  BY <1>1, <1>2, <1>4, ShapeDrop
<1>5. CASE Fresh' = Fresh /\ NextFrame' = NextFrame /\ tail' = tail
  BY <1>2, <1>5
<1> QED
  BY <1>3, <1>4, <1>5, FreshStep

-----------------------------------------------------------------------------
(* The order of the samples. *)

AgeFrom(f, h) == IF f >= h THEN f - h ELSE f + NFrames - h

\* The frame that is filled next comes after all that are waiting.
LEMMA AgeLast ==
  ASSUME NEW F, NEW h \in Frames, NEW t \in Frames, Shape(F, h, t), t \notin F, NEW f \in F
  PROVE  AgeFrom(f, h) < AgeFrom(t, h)
<1>1. F = Arc(h, t)
  BY DEF Shape
<1> QED
  BY <1>1 DEF Arc, Frames, AgeFrom

\* When the first has been handled the order of the others is what it was.
LEMMA AgeDrop ==
  ASSUME NEW h \in Frames, NEW f \in Frames \ {h}
  PROVE  /\ AgeFrom(f, h) \in Nat /\ AgeFrom(h, h) = 0 /\ AgeFrom(f, h) > 0
         /\ AgeFrom(f, Inc(h)) = AgeFrom(f, h) - 1
BY DEF Frames, AgeFrom, Inc

\* What OrderInv says of a state, as long as no kept frame was presented again.
OrderParts ==
  /\ last <= sent
  /\ \A f, g \in Data(Fresh) : AgeFrom(f, NextFrame) < AgeFrom(g, NextFrame) => frame[f][2] < frame[g][2]
  /\ \A g \in Data(Fresh) : last < frame[g][2]
  /\ \A f \in hand \union Queued :
       /\ frame[f][1] = "data" /\ last < frame[f][2]
       /\ \A g \in Data(Fresh) : frame[f][2] < frame[g][2]
  /\ \A f \in hand : \A g \in Queued : frame[f][2] < frame[g][2]
  /\ ring # None => \A i, j \in DOMAIN ring : i < j => frame[ring[i]][2] < frame[ring[j]][2]
  /\ bg = "handle_data_packet" => frame[d_head][1] = "data"

\* The two say the same.
LEMMA OrderIsParts == OrderInv <=> (last \in Nat /\ (~overrun => OrderParts))
BY DEF OrderInv, OrderParts, Age, AgeFrom

\* A packet that arrives is the newest.
LEMMA OrderArrive ==
  ASSUME Usrp2Inv, ~overrun, OrderParts, Answer \/ Samples
  PROVE  OrderParts'
<1> USE DEF device, eth, bgs, apps, hist
<1>1. UNCHANGED <<kept, hand, ring, bg, d_head, last>>
  BY DEF Answer, Samples
<1>2. PICK p \in {"reply", "data"} \X Nat :
        /\ Arrives(p) \/ UNCHANGED <<frame, tail>>
        /\ p[1] = "data" => p[2] = sent + 1
        /\ sent' = sent \/ (sent' = sent + 1 /\ p[1] = "data")
        /\ p[1] = "data" => sent' = sent + 1
  <2>1. CASE Samples
    <3>1. <<"data", sent + 1>> \in {"reply", "data"} \X Nat
      BY DEF Usrp2Inv, DeviceInv
    <3> QED
      BY <2>1, <3>1 DEF Samples
  <2>2. CASE Answer
    <3>1. <<"reply", Head(asked)[2]>> \in {"reply", "data"} \X Nat
      BY <2>2 DEF Usrp2Inv, DeviceInv, Answer
    <3>2. Arrives(<<"reply", Head(asked)[2]>>) \/ UNCHANGED <<frame, tail>>
      BY <2>2 DEF Answer
    <3>3. UNCHANGED sent
      BY <2>2 DEF Answer
    <3> QED
      BY <3>1, <3>2, <3>3
  <2> QED
    BY <2>1, <2>2
<1>3. sent \in Nat /\ last \in Nat /\ sent' \in Nat /\ sent <= sent'
  BY <1>2 DEF Usrp2Inv, DeviceInv, OrderInv
<1>4. CASE UNCHANGED frame
  BY <1>1, <1>3, <1>4 DEF OrderParts, Data, Fresh, NextFrame, Queued, AgeFrom, Inc
<1>5. CASE ~UNCHANGED frame
  <2>1. Arrives(p) /\ tail \notin DOMAIN frame
    BY <1>2, <1>5 DEF Arrives
  <2>2. /\ DOMAIN frame' = DOMAIN frame \union {tail} /\ frame'[tail] = p
        /\ \A f \in DOMAIN frame : frame'[f] = frame[f]
    BY <2>1, ArrivesFrame DEF Usrp2Inv
  <2>3. /\ kept \subseteq DOMAIN frame /\ hand \union Queued \subseteq kept
        /\ NextFrame \in Frames /\ tail \in Frames
    BY IncType DEF Usrp2Inv, KeptInv, TypeOK, NextFrame
  <2>4. /\ tail \notin Fresh /\ Fresh' = Fresh \union {tail} /\ NextFrame' = NextFrame
        /\ Queued' = Queued /\ Fresh \subseteq DOMAIN frame
    BY <1>1, <2>1, <2>2, <2>3 DEF Fresh, NextFrame, Queued
  <2>5. \A f \in Fresh : AgeFrom(f, NextFrame) < AgeFrom(tail, NextFrame)
    <3>1. Shape(Fresh, NextFrame, tail)
      BY DEF Usrp2Inv, ArcInv, Shape
    <3> QED
      BY <2>3, <2>4, <3>1, AgeLast
  <2>6. \A f \in DOMAIN frame : frame[f][1] = "data" => frame[f][2] \in 1 .. sent
    BY DEF Usrp2Inv, DeviceInv
  <2>7. Data(Fresh)' = Data(Fresh) \union (IF p[1] = "data" THEN {tail} ELSE {})
    <3>1. \A f \in Fresh : f \in Data(Fresh)' <=> f \in Data(Fresh)
      BY <2>2, <2>4 DEF Data
    <3>2. tail \in Data(Fresh)' <=> p[1] = "data"
      BY <2>2, <2>4 DEF Data
    <3>3. Data(Fresh)' \subseteq Fresh \union {tail} /\ Data(Fresh) \subseteq Fresh
      BY <2>4 DEF Data
    <3> QED
      BY <2>4, <3>1, <3>2, <3>3
  <2>8. \A f \in Fresh' : AgeFrom(f, NextFrame) \in Nat
    <3>1. Fresh' \subseteq Frames
      BY <2>3, <2>4 DEF Usrp2Inv, TypeOK
    <3> QED
      BY <2>3, <3>1 DEF AgeFrom, Frames
  <2>9. \A f, g \in Data(Fresh)' :
          AgeFrom(f, NextFrame') < AgeFrom(g, NextFrame') => frame'[f][2] < frame'[g][2]
    <3> SUFFICES ASSUME NEW f \in Data(Fresh)', NEW g \in Data(Fresh)',
                        AgeFrom(f, NextFrame) < AgeFrom(g, NextFrame)
                 PROVE  frame'[f][2] < frame'[g][2]
      BY <2>4
    <3>1. CASE f \in Data(Fresh) /\ g \in Data(Fresh)
      BY <2>2, <2>4, <3>1 DEF OrderParts, Data
    <3>2. CASE f \in Data(Fresh) /\ g = tail /\ p[1] = "data"
      BY <1>2, <1>3, <2>2, <2>4, <2>6, <3>2 DEF Data
    <3>3. CASE f = tail /\ g \in Data(Fresh)
      BY <2>4, <2>5, <2>8, <3>3 DEF Data
    <3>4. CASE f = tail /\ g = tail
      BY <2>4, <2>8, <3>4
    <3> QED
      BY <2>7, <3>1, <3>2, <3>3, <3>4
  <2>10. \A g \in Data(Fresh)' : last < frame'[g][2]
    BY <1>2, <1>3, <2>2, <2>4, <2>7 DEF OrderParts, Data
  <2>11. \A f \in hand \union Queued :
           /\ f \in DOMAIN frame /\ frame'[f] = frame[f]
           /\ frame[f][1] = "data" /\ last < frame[f][2] /\ frame[f][2] \in 1 .. sent
    BY <2>2, <2>3, <2>6 DEF OrderParts
  <2>12. ASSUME NEW f \in hand \union Queued, NEW g \in Data(Fresh)'
         PROVE  frame'[f][2] < frame'[g][2]
    <3>1. CASE g \in Data(Fresh)
      BY <2>2, <2>4, <2>11, <3>1 DEF OrderParts, Data
    <3>2. CASE g = tail /\ p[1] = "data"
      BY <1>2, <1>3, <2>2, <2>11, <3>2
    <3> QED
      BY <2>7, <3>1, <3>2
  <2>13. ring # None => \A i, j \in DOMAIN ring : i < j => frame'[ring[i]][2] < frame'[ring[j]][2]
    <3>1. ring # None => \A i \in DOMAIN ring : ring[i] \in Queued
      BY DEF Queued, Range
    <3> QED
      BY <2>11, <3>1 DEF OrderParts
  <2>14. bg = "handle_data_packet" => frame'[d_head][1] = "data"
    BY <2>2 DEF OrderParts, Usrp2Inv, KeptInv, Handling
  <2> QED
    <3>1. hand' = hand /\ Queued' = Queued /\ last' = last /\ ring' = ring /\ bg' = bg /\ d_head' = d_head
      BY <1>1, <2>4
    <3>2. last <= sent'
      BY <1>3 DEF OrderParts
    <3>3. \A f \in hand : \A g \in Queued : frame'[f][2] < frame'[g][2]
      BY <2>11 DEF OrderParts
    <3> HIDE DEF device, eth, bgs, apps, hist
    <3> QED
      BY <2>9, <2>10, <2>11, <2>12, <2>13, <2>14, <3>1, <3>2, <3>3, Zenon DEF OrderParts
<1> QED
  BY <1>4, <1>5

\* The first of the frames not yet handled is older than the others, and they
\* keep their order when it has been handled.
LEMMA FirstIsOldest ==
  ASSUME Usrp2Inv, ~overrun, OrderParts, NextFrame \in Fresh
  PROVE  /\ frame[NextFrame][1] = "data" =>
              \A g \in Data(Fresh) \ {NextFrame} : frame[NextFrame][2] < frame[g][2]
         /\ \A f, g \in Data(Fresh) \ {NextFrame} :
              AgeFrom(f, Inc(NextFrame)) < AgeFrom(g, Inc(NextFrame)) => frame[f][2] < frame[g][2]
<1>1. NextFrame \in Frames /\ Data(Fresh) \subseteq Frames
  BY IncType DEF Usrp2Inv, TypeOK, NextFrame, Data, Fresh
<1> DEFINE h == NextFrame
<1>2. \A f \in Data(Fresh) \ {h} :
        /\ AgeFrom(f, h) \in Nat /\ AgeFrom(h, h) = 0 /\ AgeFrom(f, h) > 0
        /\ AgeFrom(f, Inc(h)) = AgeFrom(f, h) - 1
  BY <1>1, AgeDrop
<1>3. frame[h][1] = "data" => h \in Data(Fresh)
  BY DEF Data
<1>4. \A f, g \in Data(Fresh) : AgeFrom(f, h) < AgeFrom(g, h) => frame[f][2] < frame[g][2]
  BY DEF OrderParts
<1> HIDE DEF h
<1>5. \A f, g \in Data(Fresh) \ {h} :
        AgeFrom(f, Inc(h)) < AgeFrom(g, Inc(h)) => AgeFrom(f, h) < AgeFrom(g, h)
  BY <1>2
<1>6. \A g \in Data(Fresh) \ {h} : AgeFrom(h, h) < AgeFrom(g, h)
  BY <1>2
<1> QED
  BY <1>3, <1>4, <1>5, <1>6 DEF h

\* Giving back the frame just handled leaves the queue and the order.
LEMMA OrderReleased ==
  ASSUME Usrp2Inv, ~overrun, OrderParts, Released, bg # "inc_enqueued", d_head \in DOMAIN frame \ kept,
         UNCHANGED <<hand, ring, last, sent>>
  PROVE  OrderParts'
<1>1. /\ DOMAIN frame' = DOMAIN frame \ {d_head} /\ kept' = kept
      /\ \A g \in DOMAIN frame \ {d_head} : frame'[g] = frame[g]
  BY WithoutType DEF Released
<1>2. NextFrame = d_head /\ NextFrame' = Inc(NextFrame) /\ bg' # "handle_data_packet"
  BY DEF Released, NextFrame, NextHead
<1>3. NextFrame \in Fresh /\ Fresh' = Fresh \ {NextFrame} /\ Fresh \subseteq DOMAIN frame
  BY <1>1, <1>2 DEF Fresh
<1>4. Data(Fresh)' = Data(Fresh) \ {NextFrame} /\ \A g \in Data(Fresh)' : frame'[g] = frame[g]
  BY <1>1, <1>2, <1>3 DEF Data
<1>5. Queued' = Queued /\ hand' = hand /\ last' = last /\ sent' = sent /\ ring' = ring
  BY DEF Queued
<1>6. \A f \in hand \union Queued : frame'[f] = frame[f]
  BY <1>1 DEF Usrp2Inv, KeptInv
<1>7. ring # None => \A i \in DOMAIN ring : ring[i] \in Queued
  BY DEF Queued, Range
<1>8. \A f, g \in Data(Fresh)' :
        AgeFrom(f, NextFrame') < AgeFrom(g, NextFrame') => frame'[f][2] < frame'[g][2]
  <2>1. \A f, g \in Data(Fresh) \ {NextFrame} :
          AgeFrom(f, Inc(NextFrame)) < AgeFrom(g, Inc(NextFrame)) => frame[f][2] < frame[g][2]
    BY <1>3, FirstIsOldest
  <2> QED
    BY <1>2, <1>4, <2>1
<1>9. ring # None => \A i, j \in DOMAIN ring : i < j => frame'[ring[i]][2] < frame'[ring[j]][2]
  BY <1>6, <1>7 DEF OrderParts
<1>10. \A g \in Data(Fresh)' : last < frame'[g][2]
  BY <1>4 DEF OrderParts
<1>11. \A f \in hand \union Queued :
         /\ frame'[f][1] = "data" /\ last < frame'[f][2]
         /\ \A g \in Data(Fresh)' : frame'[f][2] < frame'[g][2]
  BY <1>4, <1>6 DEF OrderParts
<1>12. \A f \in hand : \A g \in Queued : frame'[f][2] < frame'[g][2]
  BY <1>6 DEF OrderParts
<1>13. last <= sent
  BY DEF OrderParts
<1> QED
  BY <1>2, <1>5, <1>8, <1>9, <1>10, <1>11, <1>12, <1>13, Zenon DEF OrderParts

\* A frame enqueued is newer than what the ring holds.
LEMMA OrderEnqueued ==
  ASSUME Usrp2Inv, ~overrun, OrderParts, bg = "handle_data_packet", Room, ring' = Enqueued,
         kept' = kept \union {d_head}, bg' = "inc_enqueued",
         UNCHANGED <<frame, d_head, hand, last, sent>>
  PROVE  OrderParts'
<1>1. d_head \in DOMAIN frame \ kept /\ frame[d_head][1] = "data" /\ d_head \in Frames
  BY DEF Usrp2Inv, KeptInv, Handling, OrderParts, TypeOK
<1>2. NextFrame = d_head /\ NextFrame' = Inc(NextFrame)
  BY DEF NextFrame
<1>3. NextFrame \in Fresh /\ Fresh' = Fresh \ {NextFrame}
  BY <1>1, <1>2 DEF Fresh
<1>4. Data(Fresh)' = Data(Fresh) \ {NextFrame} /\ NextFrame \in Data(Fresh)
  BY <1>1, <1>2, <1>3 DEF Data
<1>5. ring # None /\ ring \in Seq(Frames) /\ Len(ring) < NFrames - 1 /\ ring' = Append(ring, d_head)
  BY DEF Usrp2Inv, CallInv, Room, Enqueued
<1>6. ring' # None /\ Range(ring') = Range(ring) \union {d_head}
  <2>1. /\ Append(ring, d_head) \in Seq(Frames) /\ Len(Append(ring, d_head)) = Len(ring) + 1
        /\ Range(Append(ring, d_head)) = Range(ring) \union {d_head}
    BY <1>1, <1>5, RingType, Zenon
  <2>2. Len(ring) \in Nat
    BY <1>5
  <2>3. Len(Append(ring, d_head)) < NFrames
    BY <1>5, <2>1, <2>2
  <2>4. Append(ring, d_head) # None
    BY <2>1, <2>3, RingType, Zenon
  <2> QED
    BY <1>5, <2>1, <2>4, Zenon
<1>7. Queued' = Queued \union {d_head}
  BY <1>5, <1>6 DEF Queued
<1>8. \A g \in Data(Fresh)' : frame[d_head][2] < frame[g][2]
  BY <1>1, <1>2, <1>3, <1>4, FirstIsOldest
<1>9. \A f, g \in Data(Fresh)' :
        AgeFrom(f, NextFrame') < AgeFrom(g, NextFrame') => frame[f][2] < frame[g][2]
  BY <1>2, <1>3, <1>4, FirstIsOldest
<1>10. \A f \in hand \union Queued : frame[f][2] < frame[d_head][2]
  BY <1>2, <1>4 DEF OrderParts
<1>11. last < frame[d_head][2]
  BY <1>2, <1>4 DEF OrderParts
<1>12. ASSUME NEW i \in DOMAIN ring', NEW j \in DOMAIN ring', i < j
       PROVE  frame[ring'[i]][2] < frame[ring'[j]][2]
  <2>1. i \in DOMAIN ring /\ ring'[i] = ring[i] /\ ring[i] \in Queued
    <3>1. i \in DOMAIN ring /\ ring'[i] = ring[i]
      BY <1>5, <1>12
    <3> QED
      BY <1>5, <3>1 DEF Queued, Range
  <2>2. CASE j \in DOMAIN ring
    <3>1. ring'[j] = ring[j]
      BY <1>5, <2>2
    <3> QED
      BY <1>5, <1>12, <2>1, <2>2, <3>1 DEF OrderParts
  <2>3. CASE j \notin DOMAIN ring
    <3>1. ring'[j] = d_head
      BY <1>5, <2>3
    <3> QED
      BY <1>10, <2>1, <3>1
  <2> QED
    BY <2>2, <2>3
<1>13. \A g \in Data(Fresh)' : last < frame[g][2]
  BY <1>4 DEF OrderParts
<1>14. \A f \in hand \union Queued' :
         /\ frame[f][1] = "data" /\ last < frame[f][2]
         /\ \A g \in Data(Fresh)' : frame[f][2] < frame[g][2]
  BY <1>1, <1>4, <1>7, <1>8, <1>11 DEF OrderParts
<1>15. \A f \in hand : \A g \in Queued' : frame[f][2] < frame[g][2]
  BY <1>7, <1>10 DEF OrderParts
<1>16. last <= sent
  BY DEF OrderParts
<1>17. frame' = frame /\ hand' = hand /\ last' = last /\ sent' = sent /\ bg' # "handle_data_packet"
  OBVIOUS
<1> QED
  BY <1>9, <1>12, <1>13, <1>14, <1>15, <1>16, <1>17, Zenon DEF OrderParts

\* A frame taken out of the ring is its oldest.
LEMMA OrderDequeue ==
  ASSUME Usrp2Inv, ~overrun, OrderParts, Dequeue
  PROVE  OrderParts'
<1> USE DEF device, eth, bgs, hist
<1>1. /\ ring # None /\ ring # <<>> /\ ring' = Tail(ring) /\ hand' = {Head(ring)}
      /\ UNCHANGED <<kept, frame, d_head, bg, last, sent>>
  BY DEF Dequeue, Usrp2Inv, CallInv
<1>2. ring \in Seq(Frames) /\ ring' \in Seq(Frames) /\ ring' # None /\ Range(ring) = Range(ring') \union {Head(ring)}
  <2>1. ring \in Seq(Frames) /\ Len(ring) < NFrames
    BY <1>1 DEF Usrp2Inv, CallInv, TypeOK
  <2> QED
    BY <1>1, <2>1, RingType
<1>3. Queued = Queued' \union hand'
  BY <1>1, <1>2 DEF Queued
<1>4. /\ 1 \in DOMAIN ring /\ Head(ring) = ring[1]
      /\ \A i \in DOMAIN ring' : i \in Nat \ {0} /\ i + 1 \in DOMAIN ring /\ ring'[i] = ring[i + 1]
  BY <1>1, <1>2
<1>5. \A i, j \in DOMAIN ring : i < j => frame[ring[i]][2] < frame[ring[j]][2]
  BY <1>1 DEF OrderParts
<1>6. \A f \in hand' : \A g \in Queued' : frame[f][2] < frame[g][2]
  <2>1. \A i \in DOMAIN ring' : frame[ring[1]][2] < frame[ring'[i]][2]
    BY <1>4, <1>5
  <2>2. \A g \in Queued' : \E i \in DOMAIN ring' : g = ring'[i]
    BY <1>2 DEF Queued, Range
  <2> QED
    BY <1>1, <1>4, <2>1, <2>2
<1>7. \A i, j \in DOMAIN ring' : i < j => frame[ring'[i]][2] < frame[ring'[j]][2]
  <2>1. \A i, j \in DOMAIN ring' : i < j => i + 1 < j + 1
    BY <1>4
  <2> QED
    BY <1>4, <1>5, <2>1
<1>8. \A f \in hand' \union Queued' :
        /\ frame[f][1] = "data" /\ last < frame[f][2]
        /\ \A g \in Data(Fresh) : frame[f][2] < frame[g][2]
  BY <1>3 DEF OrderParts
<1>9. Data(Fresh)' = Data(Fresh) /\ NextFrame' = NextFrame
  BY <1>1 DEF Data, Fresh, NextFrame, Inc
<1>10. frame' = frame /\ bg' = bg /\ d_head' = d_head /\ last' = last /\ sent' = sent
  BY <1>1
<1> HIDE DEF device, eth, bgs, hist
<1> QED
  BY <1>6, <1>7, <1>8, <1>9, <1>10, Zenon DEF OrderParts

\* A frame the application has had is older than the rest of the ring.
LEMMA OrderRelease ==
  ASSUME Usrp2Inv, ~overrun, OrderParts, release_frame
  PROVE  OrderParts'
<1> USE DEF device, bgs
<1>1. PICK f \in hand : /\ frame' = Without(f) /\ kept' = kept \ {f}
                        /\ last' = IF f \in DOMAIN frame THEN frame[f][2] ELSE last
  BY DEF release_frame
<1>2. /\ hand' = {} /\ UNCHANGED <<ring, d_head, bg, sent>> /\ hand = {f}
  BY <1>1 DEF release_frame, Usrp2Inv, CallInv
<1>3. /\ f \in kept /\ f \in DOMAIN frame /\ kept \subseteq DOMAIN frame /\ Queued \subseteq kept \ {f}
  BY <1>1, <1>2 DEF Usrp2Inv, KeptInv
<1>4. /\ DOMAIN frame' = DOMAIN frame \ {f}
      /\ \A g \in DOMAIN frame \ {f} : frame'[g] = frame[g]
  BY <1>1, WithoutType
<1>5. last' = frame[f][2] /\ frame[f][1] = "data"
  BY <1>1, <1>2, <1>3 DEF OrderParts
<1>6. frame[f][2] <= sent
  BY <1>3, <1>5 DEF Usrp2Inv, DeviceInv
<1>7. Fresh' = Fresh /\ NextFrame' = NextFrame /\ f \notin Fresh /\ Fresh \subseteq DOMAIN frame \ {f}
  BY <1>1, <1>2, <1>3, <1>4 DEF Fresh, NextFrame, Inc
<1>8. Data(Fresh)' = Data(Fresh) /\ \A g \in Data(Fresh) : frame'[g] = frame[g]
  BY <1>4, <1>7 DEF Data
<1>9. Queued' = Queued /\ \A g \in Queued : frame'[g] = frame[g]
  BY <1>2, <1>3, <1>4 DEF Queued
<1>10. ring # None => \A i \in DOMAIN ring : ring[i] \in Queued
  BY DEF Queued, Range
<1>11. \A g, k \in Data(Fresh) :
         AgeFrom(g, NextFrame) < AgeFrom(k, NextFrame) => frame'[g][2] < frame'[k][2]
  BY <1>8 DEF OrderParts
<1>12. \A g \in Data(Fresh) : last' < frame'[g][2]
  BY <1>1, <1>5, <1>8 DEF OrderParts
<1>13. \A q \in Queued : /\ frame'[q][1] = "data" /\ last' < frame'[q][2]
                         /\ \A g \in Data(Fresh) : frame'[q][2] < frame'[g][2]
  BY <1>1, <1>5, <1>8, <1>9 DEF OrderParts
<1>14. ring # None => \A i, j \in DOMAIN ring : i < j => frame'[ring[i]][2] < frame'[ring[j]][2]
  BY <1>9, <1>10 DEF OrderParts
<1>15. bg = "handle_data_packet" => frame'[d_head][1] = "data"
  BY <1>3, <1>4 DEF OrderParts, Usrp2Inv, KeptInv, Handling
<1>16. last' <= sent' /\ ring' = ring /\ bg' = bg /\ d_head' = d_head /\ hand' = {}
  BY <1>2, <1>5, <1>6
<1>17. hand' \union Queued' = Queued /\ \A g : g \notin hand'
  BY <1>9, <1>16
<1>18. \A g \in Data(Fresh)' : last' < frame'[g][2]
  BY <1>8, <1>12
<1>19. \A q \in hand' \union Queued' :
         /\ frame'[q][1] = "data" /\ last' < frame'[q][2]
         /\ \A g \in Data(Fresh)' : frame'[q][2] < frame'[g][2]
  BY <1>8, <1>13, <1>17
<1>20. \A g, k \in Data(Fresh)' :
         AgeFrom(g, NextFrame') < AgeFrom(k, NextFrame') => frame'[g][2] < frame'[k][2]
  BY <1>7, <1>8, <1>11
<1> HIDE DEF device, bgs
<1> QED
  BY <1>14, <1>15, <1>16, <1>17, <1>18, <1>19, <1>20, Zenon DEF OrderParts

\* The order of the samples survives every step.
LEMMA OrderStep == Usrp2Inv /\ [Next]_vars => OrderInv'
<1> SUFFICES ASSUME Usrp2Inv, [Next]_vars PROVE OrderInv'
  OBVIOUS
<1> USE DEF device, eth, bgs, apps, hist, vars
<1>1. last' \in Nat
  <2>1. CASE release_frame
    <3>1. PICK f \in hand : last' = IF f \in DOMAIN frame THEN frame[f][2] ELSE last
      BY <2>1 DEF release_frame
    <3> QED
      BY <3>1 DEF Usrp2Inv, DeviceInv, OrderInv
  <2>2. CASE UNCHANGED last
    BY <2>2 DEF Usrp2Inv, OrderInv
  <2>3. CASE Bg \/ Answer \/ Samples
    BY <2>2, <2>3 DEF Bg, BgPresent, BgNoFrame, BgMemcpy, BgComplete, BgClear, BgEnqueue, BgInc, BgCheck,
                      BgSleep, BgWake, Answer, Samples
  <2>4. CASE Configure \/ start_rx_streaming \/ stop_rx_streaming \/ rx_samples \/ stop_bg \/ StopCommand
             \/ Completion \/ Return \/ Dequeue \/ dec_enqueued \/ LoopEnds \/ NotifyBg
    BY <2>2, <2>4 DEF Configure, start_rx_streaming, stop_rx_streaming, rx_samples, stop_bg, StopCommand,
                      Completion, Return, Dequeue, dec_enqueued, LoopEnds, NotifyBg
  <2> QED
    BY <2>1, <2>2, <2>3, <2>4 DEF Next, App, InCall
<1>2. SUFFICES ASSUME ~overrun' PROVE OrderParts'
  <2>1. OrderInv' <=> (last' \in Nat /\ (~overrun' => OrderParts'))
    BY Zenon DEF OrderInv, OrderParts, Age, AgeFrom
  <2> QED
    BY <1>1, <1>2, <2>1
<1>3. ~overrun /\ OrderParts
  <2>1. ~overrun
    BY <1>2, OverrunStays
  <2>2. OrderInv
    BY DEF Usrp2Inv
  <2> QED
    BY <2>1, <2>2, OrderIsParts
<1>4. CASE UNCHANGED <<last, sent, frame, kept, hand, ring, d_head>> /\ NextFrame' = NextFrame
           /\ (bg' = "handle_data_packet" => frame[d_head][1] = "data")
  <2>1. Data(Fresh)' = Data(Fresh) /\ Queued' = Queued
    BY <1>4 DEF Data, Fresh, Queued
  <2>2. /\ last' = last /\ sent' = sent /\ frame' = frame /\ hand' = hand /\ ring' = ring
        /\ d_head' = d_head /\ NextFrame' = NextFrame
    BY <1>4
  <2> HIDE DEF device, eth, bgs, apps, hist, vars
  <2> QED
    BY <1>3, <1>4, <2>1, <2>2, Zenon DEF OrderParts
<1>5. CASE UNCHANGED <<last, sent, frame, kept, hand, ring, d_head, bg>>
  <2>1. NextFrame' = NextFrame /\ (bg' = "handle_data_packet" => frame[d_head][1] = "data")
    BY <1>3, <1>5 DEF NextFrame, Inc, OrderParts
  <2> QED
    BY <1>4, <1>5, <2>1
<1>6. CASE Answer \/ Samples
  BY <1>3, <1>6, OrderArrive
<1>7. CASE BgPresent
  <2>1. d_head \in DOMAIN frame /\ bg = "rx_frames" /\ UNCHANGED <<hand, ring, last, sent>>
    BY <1>7 DEF BgPresent
  <2>2. d_head \notin kept
    BY <1>2, <1>7, Zenon DEF BgPresent
  <2>3. \/ Released
        \/ /\ UNCHANGED <<frame, d_head, kept>> /\ bg' # "inc_enqueued"
           /\ (bg' = "handle_data_packet" => frame[d_head][1] = "data")
    BY <1>7 DEF BgPresent
  <2>4. CASE Released
    BY <1>3, <2>1, <2>2, <2>4, OrderReleased
  <2>5. CASE ~Released
    BY <1>4, <2>1, <2>3, <2>5 DEF NextFrame
  <2> QED
    BY <2>4, <2>5
<1>8. CASE BgClear
  <2>1. Released /\ bg = "clear" /\ UNCHANGED <<hand, ring, last, sent>>
    BY <1>8 DEF BgClear
  <2>2. d_head \in DOMAIN frame \ kept
    BY <1>3, <2>1 DEF Usrp2Inv, KeptInv, Handling
  <2> QED
    BY <1>3, <2>1, <2>2, OrderReleased
<1>9. CASE BgEnqueue
  <2>1. bg = "handle_data_packet" /\ UNCHANGED <<hand, last, sent>>
    BY <1>9 DEF BgEnqueue
  <2>2. d_head \in DOMAIN frame \ kept
    BY <1>3, <2>1 DEF Usrp2Inv, KeptInv, Handling
  <2>3. CASE Released /\ UNCHANGED ring
    BY <1>3, <2>1, <2>2, <2>3, OrderReleased
  <2>4. CASE /\ Room /\ ring' = Enqueued /\ kept' = kept \union {d_head} /\ bg' = "inc_enqueued"
             /\ UNCHANGED <<frame, d_head>>
    BY <1>3, <2>1, <2>4, OrderEnqueued
  <2> QED
    BY <1>9, <2>3, <2>4 DEF BgEnqueue
<1>10. CASE BgInc
  <2>1. NextFrame' = NextFrame /\ bg' # "handle_data_packet"
    BY <1>10 DEF BgInc, NextFrame, NextHead
  <2>2. UNCHANGED <<last, sent, frame, kept, hand, ring>>
    BY <1>10 DEF BgInc
  <2>3. Data(Fresh)' = Data(Fresh) /\ Queued' = Queued
    BY <2>2 DEF Data, Fresh, Queued
  <2>4. last' = last /\ sent' = sent /\ frame' = frame /\ hand' = hand /\ ring' = ring
    BY <2>2
  <2> HIDE DEF device, eth, bgs, apps, hist, vars
  <2> QED
    BY <1>3, <2>1, <2>3, <2>4, Zenon DEF OrderParts
<1>11. CASE BgNoFrame \/ BgMemcpy \/ BgComplete \/ BgCheck \/ BgSleep \/ BgWake
  <2>1. /\ UNCHANGED <<last, sent, frame, kept, hand, ring, d_head>>
        /\ bg # "inc_enqueued" /\ bg' # "inc_enqueued" /\ bg' # "handle_data_packet"
    BY <1>11 DEF BgNoFrame, BgMemcpy, BgComplete, BgCheck, BgSleep, BgWake
  <2> QED
    BY <1>4, <2>1 DEF NextFrame
<1>12. CASE Return
  <2>1. /\ UNCHANGED <<last, sent, frame, kept, hand, d_head, bg>> /\ (ring' = None \/ ring' = <<>> \/ ring' = ring)
    BY <1>12 DEF Return
  <2>2. CASE ring' = ring
    BY <1>5, <2>1, <2>2
  <2>3. CASE ring' = None \/ ring' = <<>>
    <3>1. Queued' = {} /\ (ring' # None => DOMAIN ring' = {})
      BY <2>3 DEF Queued, Range
    <3>2. Data(Fresh)' = Data(Fresh) /\ NextFrame' = NextFrame
      BY <2>1 DEF Data, Fresh, NextFrame, Inc
    <3>3. last' = last /\ sent' = sent /\ frame' = frame /\ hand' = hand /\ bg' = bg /\ d_head' = d_head
      BY <2>1
    <3> HIDE DEF device, eth, bgs, apps, hist, vars
    <3> QED
      BY <1>3, <3>1, <3>2, <3>3, Zenon DEF OrderParts
  <2> QED
    BY <2>1, <2>2, <2>3
<1>13. CASE Dequeue
  BY <1>3, <1>13, OrderDequeue
<1>14. CASE release_frame
  BY <1>3, <1>14, OrderRelease
<1>15. CASE Configure \/ start_rx_streaming \/ StopCommand \/ stop_rx_streaming \/ rx_samples \/ stop_bg
  BY <1>5, <1>15 DEF Configure, start_rx_streaming, StopCommand, stop_rx_streaming, rx_samples, stop_bg
<1>16. CASE Completion \/ dec_enqueued \/ LoopEnds \/ NotifyBg
  BY <1>5, <1>16 DEF Completion, dec_enqueued, LoopEnds, NotifyBg
<1> QED
  BY <1>5, <1>6, <1>7, <1>8, <1>9, <1>10, <1>11, <1>12, <1>13, <1>14, <1>15, <1>16
     DEF Next, Bg, App, InCall

-----------------------------------------------------------------------------
(* The theorems. *)

\* The parts hold together in every reachable state of bg_loop, the handler and
\* the calls, whatever the device loses or delays.
THEOREM HostInvariant == Spec => []Usrp2Inv
<1>1. Usrp2Inv /\ [Next]_vars => Usrp2Inv'
  BY TypeStep, DeviceStep, CallStep, ReplyStep, SleepStep, CountStep, KeptStep, ArcStep, OrderStep
     DEF Usrp2Inv
<1> QED
  BY InitInv, <1>1, PTL DEF Spec

\* Indices stay inside the frames, the ring never overflows, a pending reply is
\* filed under its own id.
THEOREM TypeCorrect == Spec => []TypeOK
<1>1. Usrp2Inv => TypeOK
  BY DEF Usrp2Inv
<1> QED
  BY <1>1, HostInvariant, PTL

\* bg_loop never sleeps past the dec_enqueued that takes the counter to zero.
THEOREM SleepsOnlyOnFramesHolds == Spec => []SleepsOnlyOnFrames
<1>1. Usrp2Inv => SleepsOnlyOnFrames
  BY DEF Usrp2Inv, SleepInv
<1> QED
  BY <1>1, HostInvariant, PTL

\* d_num_enqueued counts the kept frames, through wrap-around and dropped rings.
THEOREM CountsKeptFramesHolds == Spec => []CountsKeptFrames
<1>1. Usrp2Inv => CountsKeptFrames
  BY DEF Usrp2Inv
<1> QED
  BY <1>1, HostInvariant, PTL

\* No frame is kept when bg_loop calls rx_frames again, and within a call
\* rx_frames meets a kept frame only when every frame is kept.
THEOREM LappedOnlyWhenFullHolds == Spec => []LappedOnlyWhenFull
<1>1. ASSUME Usrp2Inv PROVE LappedOnlyWhenFull
  <2> SUFFICES ASSUME ~overrun
               PROVE  /\ bg = "check" /\ d_num_enqueued = 0 => kept = {}
                      /\ bg = "rx_frames" /\ d_head \in kept => d_head = tail /\ DOMAIN frame = kept
    BY DEF LappedOnlyWhenFull
  <2>1. ASSUME bg = "check", d_num_enqueued = 0 PROVE kept = {}
    <3> DEFINE over == IF app \in {"flush_dec", "rx_dec"} THEN 1 ELSE 0
    <3>1. kept \subseteq Frames
      BY <1>1 DEF Usrp2Inv, TypeOK, KeptInv
    <3>2. IsFiniteSet(kept) /\ Cardinality(kept) \in Nat /\ Cardinality(kept) <= NFrames
      <4>1. IsFiniteSet(Frames) /\ Cardinality(Frames) = NFrames
        BY FS_Interval DEF Frames
      <4> QED
        BY <3>1, <4>1, FS_Subset, FS_CardinalityType
    <3>3. 0 = (Cardinality(kept) + Width + over) % Width
      <4>1. d_num_enqueued = (Cardinality(kept) + Width - 0 + over) % Width
        BY <1>1, <2>1 DEF Usrp2Inv, CountsKeptFrames
      <4>2. Cardinality(kept) + Width - 0 + over = Cardinality(kept) + Width + over
        BY <3>2
      <4> QED
        BY <2>1, <4>1, <4>2
    <3>4. (Cardinality(kept) + Width + over) % Width = Cardinality(kept) + over
      <4> DEFINE k == Cardinality(kept) + over
      <4>1. k \in Nat /\ k < Width
        BY <3>2
      <4>2. Cardinality(kept) + Width + over = k + Width
        BY <3>2
      <4> HIDE DEF k
      <4>3. (k + Width) % Width = k
        BY <4>1, ModAdd
      <4> QED
        BY <4>2, <4>3 DEF k
    <3>5. Cardinality(kept) = 0
      BY <3>2, <3>3, <3>4
    <3> QED
      BY <3>2, <3>5, FS_EmptySet
  <2>2. ASSUME bg = "rx_frames", d_head \in kept PROVE d_head = tail /\ DOMAIN frame = kept
    <3>1. NextFrame = d_head /\ d_head \in Frames /\ tail \in Frames /\ kept \subseteq DOMAIN frame
      BY <1>1, <2>2 DEF NextFrame, Usrp2Inv, TypeOK, KeptInv
    <3>2. d_head \notin Fresh
      BY <2>2 DEF Fresh
    <3>3. Fresh = Arc(d_head, tail)
      BY <1>1, <3>1, <3>2 DEF Usrp2Inv, ArcInv
    <3>4. d_head = tail /\ Arc(d_head, tail) = {}
      BY <3>1, <3>2, <3>3 DEF Arc, Frames
    <3> QED
      BY <3>1, <3>3, <3>4 DEF Fresh
  <2> QED
    BY <2>1, <2>2
<1> QED
  BY <1>1, HostInvariant, PTL

\* The frame in hand, if any, as a sequence.
LEMMA HandSequence == /\ SetToSeq({}) = <<>>
                      /\ \A f : SetToSeq({f}) = <<f>>
<1>1. Cardinality({}) = 0 /\ \A f : Cardinality({f}) = 1
  BY FS_EmptySet, FS_Singleton
<1>2. SetToSeq({}) = <<>>
  <2>1. <<>> \in [1 .. 0 -> {}] /\ IsInjective(<<>>)
    BY DEF IsInjective
  <2>2. SetToSeq({}) \in [1 .. 0 -> {}]
    BY <1>1, <2>1 DEF SetToSeq
  <2>3. SetToSeq({}) \in Seq({}) /\ Len(SetToSeq({})) = 0
    BY <2>2
  <2> QED
    BY <2>3
<1>3. ASSUME NEW f PROVE SetToSeq({f}) = <<f>>
  <2>1. <<f>> \in [1 .. 1 -> {f}] /\ IsInjective(<<f>>)
    BY DEF IsInjective
  <2>2. SetToSeq({f}) \in [1 .. 1 -> {f}]
    BY <1>1, <2>1 DEF SetToSeq
  <2>3. \A s, t \in [1 .. 1 -> {f}] : s = t
    OBVIOUS
  <2> QED
    BY <2>1, <2>2, <2>3
<1> QED
  BY <1>2, <1>3

\* Samples reach the application once and in order.
THEOREM SamplesInOrderHolds == Spec => []SamplesInOrder
<1>1. ASSUME Usrp2Inv PROVE SamplesInOrder
  <2> SUFFICES ASSUME ~overrun, ring # None,
                      NEW i \in DOMAIN (SetToSeq(hand) \o ring)
               PROVE  LET queue == SetToSeq(hand) \o ring
                      IN /\ queue[i] \in DOMAIN frame /\ frame[queue[i]][1] = "data"
                         /\ frame[queue[i]][2] > (IF i = 1 THEN last ELSE frame[queue[i - 1]][2])
    BY DEF SamplesInOrder
  <2> DEFINE queue == SetToSeq(hand) \o ring
  <2>0. ring \in Seq(Frames) /\ OrderParts
    BY <1>1, OrderIsParts DEF Usrp2Inv, CallInv
  <2>1. \A j \in DOMAIN ring : ring[j] \in Queued
    BY DEF Queued, Range
  <2>2. \A q \in hand \union Queued : q \in DOMAIN frame /\ frame[q][1] = "data" /\ last < frame[q][2]
    BY <1>1, <2>0 DEF Usrp2Inv, KeptInv, OrderParts
  <2>3. \A j, k \in DOMAIN ring : j < k => frame[ring[j]][2] < frame[ring[k]][2]
    BY <2>0 DEF OrderParts
  <2>4. last \in Nat /\ \A q \in hand \union Queued : frame[q][2] \in Nat
    BY <1>1, <2>2 DEF Usrp2Inv, DeviceInv, OrderInv
  <2>5. CASE hand = {}
    <3>1. queue = ring
      BY <2>0, <2>5, HandSequence
    <3> HIDE DEF queue
    <3>2. i \in DOMAIN ring
      BY <3>1 DEF queue
    <3>3. i # 1 => i - 1 \in DOMAIN ring /\ i - 1 < i
      BY <2>0, <3>2
    <3>4. frame[ring[i]][2] > (IF i = 1 THEN last ELSE frame[ring[i - 1]][2])
      BY <2>1, <2>2, <2>3, <2>4, <3>2, <3>3
    <3> QED
      BY <2>1, <2>2, <3>1, <3>2, <3>4 DEF queue
  <2>6. CASE hand # {}
    <3>1. PICK f \in Frames : hand = {f}
      BY <1>1, <2>6 DEF Usrp2Inv, CallInv
    <3>2. queue = <<f>> \o ring
      BY <3>1, HandSequence
    <3>3. /\ i \in 1 .. Len(ring) + 1 /\ queue[1] = f
          /\ i # 1 => i - 1 \in DOMAIN ring /\ queue[i] = ring[i - 1]
          /\ i # 1 /\ i # 2 => i - 2 \in DOMAIN ring /\ queue[i - 1] = ring[i - 2] /\ i - 2 < i - 1
      <4>1. <<f>> \in Seq(Frames) /\ Len(<<f>>) = 1
        OBVIOUS
      <4>2. /\ Len(queue) = Len(ring) + 1 /\ queue \in Seq(Frames) /\ queue[1] = f
            /\ \A k \in 1 .. Len(ring) + 1 : k > 1 => queue[k] = ring[k - 1]
        BY <2>0, <3>2, <4>1
      <4>3. i \in 1 .. Len(ring) + 1
        BY <4>2
      <4> HIDE DEF queue
      <4> QED
        BY <2>0, <4>2, <4>3
    <3> HIDE DEF queue
    <3>4. \A q \in Queued : frame[f][2] < frame[q][2]
      BY <2>0, <3>1 DEF OrderParts
    <3>5. CASE i = 1
      BY <2>2, <2>4, <3>1, <3>3, <3>5 DEF queue
    <3>6. CASE i = 2
      <4>1. i - 1 = 1 /\ queue[i] \in Queued /\ queue[i - 1] = f
        BY <2>1, <3>3, <3>6
      <4> QED
        BY <2>2, <2>4, <3>1, <3>4, <3>6, <4>1 DEF queue
    <3>7. CASE i # 1 /\ i # 2
      <4>1. queue[i] \in Queued /\ queue[i - 1] \in Queued /\ frame[queue[i - 1]][2] < frame[queue[i]][2]
        BY <2>1, <2>3, <3>3, <3>7
      <4> QED
        BY <2>2, <2>4, <3>7, <4>1 DEF queue
    <3> QED
      BY <3>5, <3>6, <3>7
  <2> QED
    BY <2>5, <2>6
<1> QED
  BY <1>1, HostInvariant, PTL

\* A call that succeeds has the reply to its command, or to one a whole turn of
\* the reply ids older, unless a timeout overtook the handler.
THEOREM RepliesMatchHolds == Spec => []RepliesMatch
<1>1. ASSUME Usrp2Inv PROVE RepliesMatch
  BY <1>1 DEF Usrp2Inv, ReplyInv, RepliesMatch, Waiting, Answers
<1> QED
  BY <1>1, HostInvariant, PTL
=============================================================================
