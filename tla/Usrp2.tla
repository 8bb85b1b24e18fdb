------------------------------- MODULE Usrp2 -------------------------------
(***************************************************************************)
(* usrp2::impl, the host side of a USRP2: the thread that runs bg_loop()   *)
(* takes packets out of the frames it shares with the kernel (eth_buffer), *)
(* hands replies to the call that waits for them (pending_reply) and       *)
(* samples to the ring of the channel; one thread of the application       *)
(* makes every call.  The kernel and the device are external.              *)
(*                                                                         *)
(* Commands are numbered; the reply id is the number modulo NRIDS.  A      *)
(* packet is <<"reply", command>> or <<"data", number>>.                   *)
(***************************************************************************)
EXTENDS Integers, Sequences, FiniteSets, SequencesExt

CONSTANTS
  NFrames,       \* frames shared with the kernel, and entries of a ring
  NRIDS,         \* reply ids
  None,          \* no ring, no call, nobody
  Width,         \* d_num_enqueued is an unsigned number below Width
  MaxCmds,       \* bound: commands
  MaxData        \* bound: packets of samples the device sends

ASSUME Usrp2Assumption ==
  /\ NFrames \in Nat \ {0, 1} /\ NRIDS \in Nat \ {0}
  /\ Width \in Nat /\ Width > NFrames + 1
  /\ \A n \in 0 .. NFrames : None \notin [1 .. n -> 0 .. NFrames - 1]

VARIABLES
  \* the kernel and the device
  frame,         \* frames not marked free, and the packet in each
  tail,          \* the frame the kernel fills next
  asked,         \* commands on their way to the device
  streaming, sent,
  \* the background thread
  bg,            \* where it is
  pkt,           \* the reply it is handling, 0 if none
  rp,            \* the command whose pending_reply it has looked up
  d_head,        \* the frame it looks at next
  d_bg_running, notified,  \* notified: d_bg_pending_cond, while it sleeps
  \* shared
  d_num_enqueued, d_dont_enqueue, ring, rings_mutex, d_pending_replies,
  \* the calling thread
  app, call,     \* where it is, and in which call
  cmd,           \* the last command
  d_complete, reply,       \* its pending_reply and the buffer of that one
  hand,          \* the frames it has dequeued and not yet released
  \* history, which nothing reads
  kept,          \* frames kept by the handler and not released since
  last,          \* the last packet given to the application
  overrun,       \* a kept frame was presented to the handler again
  overtaken      \* a call returned while the handler held its pending_reply

device == <<asked, streaming, sent>>
eth  == <<frame, tail, d_head>>
bgs  == <<bg, pkt, rp, notified>>
apps == <<app, call, cmd, d_complete, reply, hand>>
hist == <<kept, last, overrun, overtaken>>
vars == <<device, eth, bgs, d_bg_running, d_num_enqueued, d_dont_enqueue, ring, rings_mutex,
          d_pending_replies, apps, hist>>

Frames == 0 .. NFrames - 1
rid(c) == c % NRIDS

\* Mutant of Inc: the index wraps one frame late.
Inc_late(i) == IF i + 1 > NFrames THEN 0 ELSE i + 1

Inc(i) == IF i + 1 >= NFrames THEN 0 ELSE i + 1

\* Mutant of NextHead: the head stays where it is.
NextHead_same == d_head

NextHead == Inc(d_head)

\* A ring to enqueue into, which is not full: one of its NFrames entries stays empty.
Room == IF ring = None THEN FALSE ELSE Len(ring) < NFrames - 1

\* Constructed: the loop runs and answered the constructor's last command.
Init ==
  /\ frame = << >> /\ tail = 0 /\ asked = <<>> /\ streaming = FALSE /\ sent = 0
  /\ bg = "rx_frames" /\ pkt = 0 /\ rp = 0 /\ d_head = 0 /\ d_bg_running = TRUE /\ notified = FALSE
  /\ d_num_enqueued = 0 /\ d_dont_enqueue = TRUE /\ ring = None /\ rings_mutex = None
  /\ d_pending_replies = [i \in 0 .. NRIDS - 1 |-> 0]
  /\ app = "idle" /\ call = None /\ cmd = 0 /\ d_complete = FALSE /\ reply = 0 /\ hand = {}
  /\ kept = {} /\ last = 0 /\ overrun = FALSE /\ overtaken = FALSE

-----------------------------------------------------------------------------
(* The kernel and the device (external). *)

\* A packet arrives; with no free frame to put it into it is lost.
Arrives(p) ==
  IF tail \in DOMAIN frame THEN UNCHANGED <<frame, tail>>
  ELSE /\ frame' = [f \in DOMAIN frame \union {tail} |-> IF f = tail THEN p ELSE frame[f]]
       /\ tail' = Inc(tail)

\* The device obeys a command; the command or its answer may be lost.
Answer ==
  /\ asked # <<>>
  /\ asked' = Tail(asked)
  /\ LET c == Head(asked)
     IN \/ UNCHANGED <<frame, tail, streaming>>
        \/ /\ streaming' = IF c[1] = "start" THEN TRUE ELSE IF c[1] = "stop" THEN FALSE ELSE streaming
           /\ Arrives(<<"reply", c[2]>>) \/ UNCHANGED <<frame, tail>>
  /\ UNCHANGED <<sent, d_head, bgs, d_bg_running, d_num_enqueued, d_dont_enqueue, ring,
                 rings_mutex, d_pending_replies, apps, hist>>

Samples ==
  /\ streaming /\ sent < MaxData
  /\ sent' = sent + 1
  /\ Arrives(<<"data", sent + 1>>)
  /\ UNCHANGED <<asked, streaming, d_head, bgs, d_bg_running, d_num_enqueued, d_dont_enqueue,
                 ring, rings_mutex, d_pending_replies, apps, hist>>

-----------------------------------------------------------------------------
(* bg_loop *)

Without(f) == [g \in DOMAIN frame \ {f} |-> frame[g]]

\* The handler returns RELEASE: the frame is free again.
Released ==
  /\ frame' = Without(d_head)
  /\ d_head' = NextHead
  /\ kept' = kept \ {d_head}
  /\ bg' = "rx_frames"

\* rx_frames: the handler is called with the next frame.  Packets for calls that
\* do not wait, and samples nobody wants, are released at once.
BgPresent ==
  /\ bg = "rx_frames" /\ d_head \in DOMAIN frame
  /\ overrun' = (overrun \/ d_head \in kept)
  /\ LET p == frame[d_head]
         pending == d_pending_replies[rid(p[2])]
     IN \/ /\ p[1] = "reply" /\ pending # 0
           /\ rp' = pending /\ pkt' = p[2]
           /\ bg' = "memcpy"
           /\ UNCHANGED <<frame, d_head, kept>>
        \/ /\ p[1] = "data" /\ ~d_dont_enqueue
           /\ bg' = "handle_data_packet"
           /\ UNCHANGED <<pkt, rp, frame, d_head, kept>>
        \/ /\ IF p[1] = "reply" THEN pending = 0 ELSE d_dont_enqueue
           /\ Released
           /\ UNCHANGED <<pkt, rp>>
  /\ UNCHANGED <<device, tail, notified, d_bg_running, d_num_enqueued, d_dont_enqueue, ring,
                 rings_mutex, d_pending_replies, apps, last, overtaken>>

\* rx_frames finds no frame: it has had some, its poll() has timed out, or the
\* poll() has failed, which ends the loop.
BgNoFrame ==
  /\ bg = "rx_frames" /\ d_head \notin DOMAIN frame
  /\ \/ bg' = "check" /\ UNCHANGED d_bg_running
     \/ bg' = "end" /\ d_bg_running' = FALSE
  /\ UNCHANGED <<device, eth, pkt, rp, notified, d_num_enqueued, d_dont_enqueue, ring, rings_mutex,
                 d_pending_replies, apps, hist>>

\* The pending_reply and the buffer live on the stack of the call.  Once it has
\* returned, the same memory may be that of a later call.
Waiting == app \in {"wait_for_completion", "succeeded", "failed"}
Alive == Waiting /\ rp = cmd

BgMemcpy ==
  /\ bg = "memcpy"
  /\ \/ Waiting /\ reply' = pkt
     \/ ~Alive /\ UNCHANGED reply
  /\ bg' = "notify_completion"
  /\ UNCHANGED <<device, eth, pkt, rp, notified, d_bg_running, d_num_enqueued, d_dont_enqueue, ring,
                 rings_mutex, d_pending_replies, app, call, cmd, d_complete, hand, hist>>

BgComplete ==
  /\ bg = "notify_completion"
  /\ \/ Waiting /\ d_complete' = TRUE
     \/ ~Alive /\ UNCHANGED d_complete
  /\ bg' = "clear"
  /\ UNCHANGED <<device, eth, pkt, rp, notified, d_bg_running, d_num_enqueued, d_dont_enqueue, ring,
                 rings_mutex, d_pending_replies, app, call, cmd, reply, hand, hist>>

BgClear ==
  /\ bg = "clear"
  /\ d_pending_replies' = [d_pending_replies EXCEPT ![rid(pkt)] = 0]
  /\ Released
  /\ pkt' = 0 /\ rp' = 0
  /\ UNCHANGED <<device, tail, notified, d_bg_running, d_num_enqueued, d_dont_enqueue, ring,
                 rings_mutex, apps, last, overrun, overtaken>>

\* Mutant of Enqueued: the new frame goes to the front.
Enqueued_front == <<d_head>> \o ring

\* ring::enqueue
Enqueued == Append(ring, d_head)

\* handle_data_packet, up to ring::enqueue.
BgEnqueue ==
  /\ bg = "handle_data_packet" /\ rings_mutex = None
  /\ \/ /\ ~Room
        /\ Released
        /\ UNCHANGED <<ring, rings_mutex>>
     \/ /\ Room
        /\ ring' = Enqueued
        /\ rings_mutex' = "bg"
        /\ kept' = kept \union {d_head}
        /\ bg' = "inc_enqueued"
        /\ UNCHANGED <<frame, d_head>>
  /\ UNCHANGED <<device, tail, pkt, rp, notified, d_bg_running, d_num_enqueued, d_dont_enqueue,
                 d_pending_replies, apps, last, overrun, overtaken>>

\* inc_enqueued, after which the handler returns KEEP.
BgInc ==
  /\ bg = "inc_enqueued"
  /\ d_num_enqueued' = (d_num_enqueued + 1) % Width
  /\ rings_mutex' = None
  /\ d_head' = NextHead
  /\ bg' = "rx_frames"
  /\ UNCHANGED <<device, frame, tail, pkt, rp, notified, d_bg_running, d_dont_enqueue, ring,
                 d_pending_replies, apps, hist>>

\* Mutant of BgCheck: the loop goes on waiting whatever it is told.
BgCheck_always ==
  /\ bg = "check"
  /\ bg' = IF d_num_enqueued > 0 THEN "wait" ELSE "rx_frames"
  /\ UNCHANGED <<device, eth, pkt, rp, notified, d_bg_running, d_num_enqueued, d_dont_enqueue, ring,
                 rings_mutex, d_pending_replies, apps, hist>>

\* The conditions of the two loops.  From here to BgSleep d_enqueued_mutex is held.
BgCheck ==
  /\ bg = "check"
  /\ bg' = IF ~d_bg_running THEN "end" ELSE IF d_num_enqueued > 0 THEN "wait" ELSE "rx_frames"
  /\ UNCHANGED <<device, eth, pkt, rp, notified, d_bg_running, d_num_enqueued, d_dont_enqueue, ring,
                 rings_mutex, d_pending_replies, apps, hist>>

BgSleep ==
  /\ bg = "wait"
  /\ bg' = "asleep" /\ notified' = FALSE
  /\ UNCHANGED <<device, eth, pkt, rp, d_bg_running, d_num_enqueued, d_dont_enqueue, ring, rings_mutex,
                 d_pending_replies, apps, hist>>

BgWake ==
  /\ bg = "asleep" /\ notified
  /\ bg' = "check"
  /\ UNCHANGED <<device, eth, pkt, rp, notified, d_bg_running, d_num_enqueued, d_dont_enqueue, ring,
                 rings_mutex, d_pending_replies, apps, hist>>

Bg == \/ BgPresent \/ BgNoFrame \/ BgMemcpy \/ BgComplete \/ BgClear
      \/ BgEnqueue \/ BgInc \/ BgCheck \/ BgSleep \/ BgWake

-----------------------------------------------------------------------------
(* The calls of the application. *)

\* transmit_cmd_and_wait, up to the wait; if the frame cannot be sent the call fails.
Transmit(kind) ==
  /\ cmd' = cmd + 1 /\ call' = kind
  /\ d_complete' = FALSE /\ reply' = 0
  /\ d_pending_replies' = [d_pending_replies EXCEPT ![rid(cmd + 1)] = cmd + 1]
  /\ \/ app' = "wait_for_completion" /\ asked' = Append(asked, <<kind, cmd + 1>>)
     \/ app' = "failed" /\ UNCHANGED asked

\* set_rx_gain and every other call that sends one command.
Configure ==
  /\ app = "idle" /\ cmd < MaxCmds
  /\ Transmit("config")
  /\ UNCHANGED <<streaming, sent, eth, bgs, d_bg_running, d_num_enqueued, d_dont_enqueue, ring,
                 rings_mutex, hand, hist>>

\* start_rx_streaming and start_rx_streaming_at, which hold the mutex of the rings
\* until they return.
start_rx_streaming ==
  /\ app = "idle" /\ cmd < MaxCmds
  /\ ring = None /\ rings_mutex = None
  /\ rings_mutex' = "app"
  /\ d_dont_enqueue' = FALSE
  /\ Transmit("start")
  /\ UNCHANGED <<streaming, sent, eth, bgs, d_bg_running, d_num_enqueued, ring, hand, hist>>

\* stop_rx_streaming: d_dont_enqueue, the flush, and the command.
stop_rx_streaming ==
  /\ app = "idle" /\ cmd < MaxCmds
  /\ d_dont_enqueue' = TRUE
  /\ app' = IF ring = None THEN "stop" ELSE "flush"
  /\ UNCHANGED <<device, eth, bgs, d_bg_running, d_num_enqueued, ring, rings_mutex,
                 d_pending_replies, call, cmd, d_complete, reply, hand, hist>>

StopCommand ==
  /\ app = "stop" /\ rings_mutex = None
  /\ rings_mutex' = "app"
  /\ Transmit("stop")
  /\ UNCHANGED <<streaming, sent, eth, bgs, d_bg_running, d_num_enqueued, d_dont_enqueue, ring,
                 hand, hist>>

\* Mutant of timed_out: the wait has no time limit.
timed_out_never == FALSE

\* wait_for_completion may give up at any time, even as the completion comes.
timed_out == app = "wait_for_completion"

Completion ==
  /\ app = "wait_for_completion"
  /\ \/ d_complete /\ app' = "succeeded"
     \/ timed_out /\ app' = "failed"
  /\ UNCHANGED <<device, eth, bgs, d_bg_running, d_num_enqueued, d_dont_enqueue, ring, rings_mutex,
                 d_pending_replies, call, cmd, d_complete, reply, hand, hist>>

\* Mutant of Forget: the entry of a call that is over is left in the table.
Forget_never == UNCHANGED d_pending_replies

Forget == d_pending_replies' = [d_pending_replies EXCEPT ![rid(cmd)] = 0]

\* The end of transmit_cmd_and_wait and what the call does with the outcome: a
\* start makes the ring if the device says so, a stop drops it whatever happened.
\* One step stands for the clearing of the table, which the handler reads without
\* a mutex, and for what follows under rings_mutex: a handler between the two
\* would drop a reply and, as there is no ring, the samples after it.
Return ==
  /\ app \in {"succeeded", "failed"}
  /\ Forget
  /\ overtaken' = (overtaken \/ (bg \in {"memcpy", "notify_completion"} /\ rp = cmd))
  /\ \/ call = "config" /\ UNCHANGED <<ring, d_dont_enqueue, rings_mutex>>
     \/ /\ call = "start" /\ rings_mutex' = None
        /\ \/ app = "succeeded" /\ ring' = <<>> /\ UNCHANGED d_dont_enqueue
           \/ d_dont_enqueue' = TRUE /\ UNCHANGED ring     \* no answer, or not ok
     \/ /\ call = "stop" /\ rings_mutex' = None
        /\ ring' = None /\ UNCHANGED d_dont_enqueue
  /\ app' = "idle"
  /\ UNCHANGED <<device, eth, bgs, d_bg_running, d_num_enqueued, call, cmd, d_complete, reply, hand,
                 kept, last, overrun>>

\* rx_samples: waits until the ring is not empty; then frames are dequeued,
\* given to the application (each is long enough for
\* its header, as Ethernet pads packets) and released until there are none, or it has enough.
rx_samples ==
  /\ app = "idle" /\ ring # None
  /\ app' = "wait_for_not_empty"
  /\ UNCHANGED <<device, eth, bgs, d_bg_running, d_num_enqueued, d_dont_enqueue, ring, rings_mutex,
                 d_pending_replies, call, cmd, d_complete, reply, hand, hist>>

\* The loops of rx_samples and flush_rx_samples.
Loop == app \in {"rx_samples", "flush"}

Dequeue ==
  /\ Loop \/ app = "wait_for_not_empty"
  /\ hand = {} /\ ring # <<>>
  /\ app' = IF Loop THEN app ELSE "rx_samples"
  /\ hand' = {Head(ring)} /\ ring' = Tail(ring)
  /\ UNCHANGED <<device, eth, bgs, d_bg_running, d_num_enqueued, d_dont_enqueue, rings_mutex,
                 d_pending_replies, call, cmd, d_complete, reply, hist>>

\* Mutant of AfterRelease: the flush does not count.
AfterRelease_uncounted == IF app = "flush" THEN "flush" ELSE "rx_dec"

AfterRelease == IF app = "flush" THEN "flush_dec" ELSE "rx_dec"

release_frame ==
  /\ Loop
  /\ \E f \in hand :
       /\ frame' = Without(f)
       /\ kept' = kept \ {f}
       /\ last' = IF f \in DOMAIN frame THEN frame[f][2] ELSE last
  /\ hand' = {}
  /\ app' = AfterRelease
  /\ UNCHANGED <<device, tail, d_head, bgs, d_bg_running, d_num_enqueued, d_dont_enqueue, ring,
                 rings_mutex, d_pending_replies, call, cmd, d_complete, reply, overrun, overtaken>>

\* Mutant of zero_left: the old value is tested.
zero_left_before == d_num_enqueued = 0

zero_left == d_num_enqueued = 1

dec_enqueued ==
  /\ app \in {"flush_dec", "rx_dec"} /\ bg # "wait"
  /\ d_num_enqueued' = (d_num_enqueued + Width - 1) % Width
  /\ notified' = (notified \/ (zero_left /\ bg = "asleep"))
  /\ \/ app' = IF app = "flush_dec" THEN "flush" ELSE "rx_samples"
     \/ app = "rx_dec" /\ app' = "idle"                    \* want_more is false
  /\ UNCHANGED <<device, eth, bg, pkt, rp, d_bg_running, d_dont_enqueue, ring, rings_mutex,
                 d_pending_replies, call, cmd, d_complete, reply, hand, hist>>

LoopEnds ==
  /\ Loop /\ hand = {} /\ ring = <<>>
  /\ app' = IF app = "flush" THEN "stop" ELSE "idle"
  /\ UNCHANGED <<device, eth, bgs, d_bg_running, d_num_enqueued, d_dont_enqueue, ring, rings_mutex,
                 d_pending_replies, call, cmd, d_complete, reply, hand, hist>>

\* ~impl: stop_bg() clears the flag, notifies without the mutex, and joins.
stop_bg ==
  /\ app = "idle"
  /\ d_bg_running' = FALSE
  /\ app' = "stop_bg"
  /\ UNCHANGED <<device, eth, bgs, d_num_enqueued, d_dont_enqueue, ring, rings_mutex,
                 d_pending_replies, call, cmd, d_complete, reply, hand, hist>>

NotifyBg ==
  /\ app = "stop_bg"
  /\ notified' = (notified \/ bg = "asleep")
  /\ app' = "join"
  /\ UNCHANGED <<device, eth, bg, pkt, rp, d_bg_running, d_num_enqueued, d_dont_enqueue, ring,
                 rings_mutex, d_pending_replies, call, cmd, d_complete, reply, hand, hist>>

InCall == \/ StopCommand \/ Completion \/ Return \/ Dequeue \/ release_frame \/ dec_enqueued
          \/ LoopEnds \/ NotifyBg

App == Configure \/ start_rx_streaming \/ stop_rx_streaming \/ rx_samples \/ stop_bg \/ InCall

Next == Bg \/ App \/ Answer \/ Samples

\* Both threads are scheduled; a call that has begun goes on, a time limit is
\* reached, poll() returns.  Nothing is asked of the device.
Spec == Init /\ [][Next]_vars /\ WF_vars(Bg) /\ WF_vars(InCall)
-----------------------------------------------------------------------------
(* Properties. *)

\* Every variable keeps its type: indices stay inside the frames, a ring never
\* holds more than it has entries, a pending reply is filed under its own id.
TypeOK ==
  /\ DOMAIN frame \subseteq Frames /\ tail \in Frames /\ d_head \in Frames
  /\ ring = None \/ (Len(ring) < NFrames /\ Range(ring) \subseteq Frames)
  /\ d_num_enqueued \in 0 .. Width - 1
  /\ rings_mutex \in {None, "app", "bg"}
  /\ DOMAIN d_pending_replies = 0 .. NRIDS - 1
  /\ \A i \in 0 .. NRIDS - 1 : d_pending_replies[i] \in {0} \union {c \in 1 .. cmd : rid(c) = i}

\* The background thread sleeps for queued frames only: dec_enqueued may run
\* before the inc_enqueued of the same frame and wrap the counter below zero,
\* and still the notify_one that takes it to zero is never missed.
SleepsOnlyOnFrames == bg = "asleep" /\ ~notified => d_num_enqueued > 0

\* Until a kept frame is presented again, which would count it twice, the counter
\* is exact whichever of inc_enqueued and dec_enqueued comes first: it is the
\* number of frames the handler has kept and nobody has released.  A frame that
\* stop_rx_streaming drops with its ring is one of these for good.
CountsKeptFrames ==
  ~overrun =>
    /\ hand \subseteq kept /\ (ring # None => Range(ring) \subseteq kept)
    /\ d_num_enqueued = (Cardinality(kept) + Width - (IF bg = "inc_enqueued" THEN 1 ELSE 0)
                           + (IF app \in {"flush_dec", "rx_dec"} THEN 1 ELSE 0)) % Width

\* When the handler is given a frame it has kept.  eth_buffer.h says that kept
\* frames are presented again, before any new ones, at the next call of rx_frames.
\* The code does otherwise: it moves d_head on after a frame, kept or not, so
\* the next call would begin after them; and frame_available() cannot tell a kept
\* frame from a new one, so the same call presents it again, after a whole turn.
\* The host gets by with that: bg_loop waits until the count is zero before it
\* calls rx_frames again, so that no frame is kept by then and nothing is left to
\* present; and within a call a kept frame is met only when the handler has seen
\* every packet there is and the kernel has nowhere to put the next one.
LappedOnlyWhenFull ==
  ~overrun =>
    /\ bg = "check" /\ d_num_enqueued = 0 => kept = {}
    /\ bg = "rx_frames" /\ d_head \in kept => d_head = tail /\ DOMAIN frame = kept

\* Until that happens, samples reach the application once and in order, across
\* any number of starts and stops, and never from a frame that was given back.
SamplesInOrder ==
  ~overrun /\ ring # None =>
    LET queue == SetToSeq(hand) \o ring
    IN \A i \in DOMAIN queue :
         /\ queue[i] \in DOMAIN frame /\ frame[queue[i]][1] = "data"
         /\ frame[queue[i]][2] > (IF i = 1 THEN last ELSE frame[queue[i - 1]][2])

\* A call that succeeds has the reply to its own command, or to one a whole
\* turn of the reply ids older, as long as no handler was overtaken by a timeout.
RepliesMatch ==
  app = "succeeded" /\ ~overtaken => reply = cmd \/ (reply > 0 /\ reply <= cmd - NRIDS)

\* Every call but rx_samples and the destructor returns, whether the device
\* answers or not and whatever the background thread waits for.
CallsReturn == app \in {"wait_for_completion", "stop", "flush"} ~> app = "idle"

\* The destructor returns when no frames are queued, once the device has no more
\* to send: the loop tests d_bg_running only when rx_frames returns, which it does
\* when it has caught up with the device.  (With frames queued the notification
\* of stop_bg may be lost, and the destructor hangs.)
DestructorReturns == (app = "join" /\ d_num_enqueued = 0) ~> (bg = "end")

-----------------------------------------------------------------------------
(* What the properties rest on. *)

Handling == {"memcpy", "notify_completion", "clear", "handle_data_packet"}

\* What is in a frame is a packet the device has sent, what is on its way to it
\* a command that was given.
DeviceInv ==
  /\ cmd \in Nat /\ sent \in Nat
  /\ frame \in [DOMAIN frame -> {"reply", "data"} \X Nat]
  /\ \A f \in DOMAIN frame : frame[f][2] \in 1 .. (IF frame[f][1] = "data" THEN sent ELSE cmd)
  /\ asked \in Seq({"config", "start", "stop"} \X Nat)
  /\ \A i \in DOMAIN asked : asked[i][2] \in 1 .. cmd

\* Only the loops of rx_samples and of the flush hold a frame, and they have a ring.
CallInv ==
  /\ ring # None => ring \in Seq(Frames)
  /\ hand = {} \/ (Loop /\ \E f \in Frames : hand = {f})
  /\ Loop \/ app \in {"wait_for_not_empty", "rx_dec", "flush_dec"} => ring # None

\* A reply that may be taken for the one to the last command: its id is the same.
Answers(r) == r = cmd \/ (r > 0 /\ r <= cmd - NRIDS)

\* The table holds the call that waits and no other; the handler copies into the
\* buffer of that call unless a call returned under its hands.
ReplyInv ==
  /\ \A i \in DOMAIN d_pending_replies :
       d_pending_replies[i] # 0 => Waiting /\ d_pending_replies[i] = cmd
  /\ bg \in {"memcpy", "notify_completion"} /\ ~overtaken => Waiting /\ rp = cmd /\ Answers(pkt)
  /\ bg = "notify_completion" /\ ~overtaken => Answers(reply)
  /\ app = "succeeded" => d_complete
  /\ d_complete /\ Waiting /\ ~overtaken => Answers(reply)

\* A thread about to sleep holds the mutex of the counter it has seen.
SleepInv ==
  /\ bg = "wait" => d_num_enqueued > 0
  /\ SleepsOnlyOnFrames

Queued == IF ring = None THEN {} ELSE Range(ring)

\* The frames of the ring and the one in hand are kept, and are all different.
KeptInv ==
  ~overrun =>
    /\ kept \subseteq DOMAIN frame
    /\ hand \subseteq kept /\ Queued \subseteq kept \ hand
    /\ ring # None => IsInjective(ring)
    /\ bg \in Handling => d_head \in DOMAIN frame \ kept

\* The frame the handler goes to next, and those the kernel has filled since.
NextFrame == IF bg = "inc_enqueued" THEN Inc(d_head) ELSE d_head
Fresh == DOMAIN frame \ kept
Arc(h, t) == IF h <= t THEN h .. t - 1 ELSE (h .. NFrames - 1) \union (0 .. t - 1)

\* The frames that hold packets not yet handled follow one another, from the
\* one the handler goes to next to the one the kernel fills next.
ArcInv ==
  ~overrun => Fresh = Arc(NextFrame, tail) \/ (NextFrame = tail /\ Fresh = Frames)

Age(f) == IF f >= NextFrame THEN f - NextFrame ELSE f + NFrames - NextFrame
Data(S) == {f \in S : frame[f][1] = "data"}

\* What the application has had is older than what it holds, that is older than
\* what is in the ring, and that is older than what is not yet handled.
OrderInv ==
  /\ last \in Nat
  /\ ~overrun =>
       /\ last <= sent
       /\ \A f, g \in Data(Fresh) : Age(f) < Age(g) => frame[f][2] < frame[g][2]
       /\ \A g \in Data(Fresh) : last < frame[g][2]
       /\ \A f \in hand \union Queued :
            /\ frame[f][1] = "data" /\ last < frame[f][2]
            /\ \A g \in Data(Fresh) : frame[f][2] < frame[g][2]
       /\ \A f \in hand : \A g \in Queued : frame[f][2] < frame[g][2]
       /\ ring # None => \A i, j \in DOMAIN ring : i < j => frame[ring[i]][2] < frame[ring[j]][2]
       /\ bg = "handle_data_packet" => frame[d_head][1] = "data"

\* The inductive invariant of the host library.
Usrp2Inv ==
  /\ TypeOK /\ DeviceInv /\ CallInv /\ ReplyInv /\ SleepInv
  /\ CountsKeptFrames /\ KeptInv /\ ArcInv /\ OrderInv
=============================================================================
