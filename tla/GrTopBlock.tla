----------------------------- MODULE GrTopBlock -----------------------------
(***************************************************************************)
(* gr_top_block_impl: start(), stop(), wait(), lock(), unlock() and the    *)
(* restart() that the last unlock() performs, called by several            *)
(* application threads.  A scheduler is reduced to a generation number and *)
(* to whether its block threads (GrTpb) are alive.  start() and unlock()   *)
(* hold d_mutex; stop() and wait() do not.                                 *)
(***************************************************************************)
EXTENDS Integers, FiniteSets

CONSTANTS
  Callers,         \* application threads
  Calls,           \* the methods each of them may call
  MaxGenerations,  \* bound: schedulers created
  MaxLocks,        \* bound: nesting of lock()
  Finite,          \* the flowgraph may end by itself
  Null

ASSUME CallsAssumption ==
  Calls \in [Callers -> SUBSET {"start", "stop", "wait", "lock", "unlock"}]
ASSUME BoundAssumption == MaxGenerations \in Nat /\ MaxLocks \in Nat /\ Null \notin Callers

Generations == 1 .. MaxGenerations

VARIABLES
  d_state, d_lock_count, d_mutex,
  d_scheduler,     \* the current scheduler, 0 before the first start()
  made,            \* schedulers created so far
  alive,           \* generations whose threads have not all ended
  interrupted,     \* why a generation was told to stop: "no", "user", "restart"
  pc, joining      \* each caller: where it is, whose threads wait() joins (0: none)

vars == <<d_state, d_lock_count, d_mutex, d_scheduler, made, alive,
          interrupted, pc, joining>>

Init ==
  /\ d_state = "IDLE" /\ d_lock_count = 0 /\ d_mutex = Null
  /\ d_scheduler = 0 /\ made = 0
  /\ alive = {}
  /\ interrupted = [g \in Generations |-> "no"]
  /\ pc = [c \in Callers |-> "idle"]
  /\ joining = [c \in Callers |-> 0]

Goto(c, label) == pc' = [pc EXCEPT ![c] = label]

CanCall(c, method) == pc[c] = "idle" /\ method \in Calls[c]

\* interrupt_all of the current scheduler, if there is one with live threads.
InterruptAll(why) ==
  interrupted' = IF d_scheduler \notin alive \/ interrupted[d_scheduler] = "user"
                 THEN interrupted ELSE [interrupted EXCEPT ![d_scheduler] = why]

-----------------------------------------------------------------------------
\* start(): throws unless idle and unlocked.
start(c) ==
  /\ CanCall(c, "start")
  /\ d_mutex = Null /\ made < MaxGenerations
  /\ \/ /\ d_state # "IDLE" \/ d_lock_count > 0
        /\ UNCHANGED <<d_mutex, pc>>
     \/ /\ d_state = "IDLE" /\ d_lock_count = 0
        /\ d_mutex' = c
        /\ Goto(c, "flatten")
  /\ UNCHANGED <<d_state, d_lock_count, d_scheduler, made, alive, interrupted, joining>>

\* flatten(), validate() and setup_connections() or merge_connections(): the
\* graph structure is changed, or validate() throws.
Flatten(c) ==
  /\ pc[c] = "flatten"
  /\ \/ Goto(c, "make") /\ UNCHANGED d_mutex
     \/ Goto(c, "idle") /\ d_mutex' = Null
  /\ UNCHANGED <<d_state, d_lock_count, d_scheduler, made, alive, interrupted,
                 joining>>

\* make_scheduler() creates the threads ...
make_scheduler(c) ==
  /\ pc[c] = "make"
  /\ made' = made + 1
  /\ alive' = alive \union {made + 1}
  /\ Goto(c, "assign")
  /\ UNCHANGED <<d_state, d_lock_count, d_mutex, d_scheduler, interrupted, joining>>

\* Mutant of AssignScheduler: the new scheduler is stopped in place of the old.
AssignScheduler_stops_new(c) ==
  /\ pc[c] = "assign"
  /\ d_scheduler' = made
  /\ interrupted' = [interrupted EXCEPT ![made] = "restart"]
  /\ Goto(c, "run")
  /\ UNCHANGED <<d_state, d_lock_count, d_mutex, made, alive, joining>>

\* ... then replaces the old scheduler, whose destructor stops it ...
AssignScheduler(c) ==
  /\ pc[c] = "assign"
  /\ d_scheduler' = made
  /\ InterruptAll("restart")
  /\ Goto(c, "run")
  /\ UNCHANGED <<d_state, d_lock_count, d_mutex, made, alive, joining>>

\* ... and only then is the state RUNNING.
SetRunning(c) ==
  /\ pc[c] = "run"
  /\ d_state' = "RUNNING"
  /\ d_mutex' = Null
  /\ Goto(c, "idle")
  /\ UNCHANGED <<d_lock_count, d_scheduler, made, alive, interrupted, joining>>

-----------------------------------------------------------------------------
stop(c) ==
  /\ CanCall(c, "stop")
  /\ InterruptAll("user")
  /\ UNCHANGED <<d_state, d_lock_count, d_mutex, d_scheduler, made, alive, pc, joining>>

wait(c) ==
  /\ CanCall(c, "wait")
  /\ joining' = [joining EXCEPT ![c] = IF d_scheduler \in alive THEN d_scheduler ELSE 0]
  /\ Goto(c, "join")
  /\ UNCHANGED <<d_state, d_lock_count, d_mutex, d_scheduler, made, alive,
                 interrupted>>

\* Mutant of JoinAll: wait() does not wait for the threads.
JoinAll_at_once(c) ==
  /\ pc[c] = "join"
  /\ Goto(c, "set_idle")
  /\ UNCHANGED <<d_state, d_lock_count, d_mutex, d_scheduler, made, alive,
                 interrupted, joining>>

JoinAll(c) ==
  /\ pc[c] = "join"
  /\ joining[c] \notin alive
  /\ Goto(c, "set_idle")
  /\ UNCHANGED <<d_state, d_lock_count, d_mutex, d_scheduler, made, alive,
                 interrupted, joining>>

SetIdle(c) ==
  /\ pc[c] = "set_idle"
  /\ d_state' = "IDLE"
  /\ joining' = [joining EXCEPT ![c] = 0]
  /\ Goto(c, "idle")
  /\ UNCHANGED <<d_lock_count, d_mutex, d_scheduler, made, alive, interrupted>>

-----------------------------------------------------------------------------
lock(c) ==
  /\ CanCall(c, "lock")
  /\ d_mutex = Null /\ d_lock_count < MaxLocks
  /\ d_lock_count' = d_lock_count + 1
  /\ UNCHANGED <<d_state, d_mutex, d_scheduler, made, alive, interrupted, pc,
                 joining>>

\* Mutant of unlock: an unpaired unlock() is not refused.
unlock_unpaired(c) ==
  /\ CanCall(c, "unlock")
  /\ d_mutex = Null /\ made < MaxGenerations
  /\ d_lock_count' = d_lock_count - 1
  /\ IF d_lock_count' > 0 \/ d_state = "IDLE"
     THEN UNCHANGED <<d_mutex, pc>>
     ELSE d_mutex' = c /\ Goto(c, "restart")
  /\ UNCHANGED <<d_state, d_scheduler, made, alive, interrupted, joining>>

\* unlock(): throws if unpaired, and restarts when the last lock is released.
unlock(c) ==
  /\ CanCall(c, "unlock")
  /\ d_mutex = Null /\ made < MaxGenerations
  /\ \/ /\ d_lock_count <= 0
        /\ d_lock_count' = 0 /\ UNCHANGED <<d_mutex, pc>>
     \/ /\ d_lock_count > 0
        /\ d_lock_count' = d_lock_count - 1
        /\ IF d_lock_count' > 0 \/ d_state = "IDLE"
           THEN UNCHANGED <<d_mutex, pc>>
           ELSE d_mutex' = c /\ Goto(c, "restart")
  /\ UNCHANGED <<d_state, d_scheduler, made, alive, interrupted, joining>>

\* restart(): stop() ...
RestartStop(c) ==
  /\ pc[c] = "restart"
  /\ InterruptAll("restart")
  /\ Goto(c, "restart_join")
  /\ UNCHANGED <<d_state, d_lock_count, d_mutex, d_scheduler, made, alive, joining>>

\* Mutants of RestartWait: restart() does not wait for the old threads; its
\* wait() takes d_mutex, which unlock() holds.
RestartWait_at_once(c) ==
  /\ pc[c] = "restart_join"
  /\ d_state' = "IDLE"
  /\ Goto(c, "flatten")
  /\ UNCHANGED <<d_lock_count, d_mutex, d_scheduler, made, alive, interrupted,
                 joining>>

RestartWait_locking(c) ==
  /\ pc[c] = "restart_join"
  /\ d_mutex = Null
  /\ d_scheduler \notin alive
  /\ d_state' = "IDLE"
  /\ Goto(c, "flatten")
  /\ UNCHANGED <<d_lock_count, d_mutex, d_scheduler, made, alive, interrupted,
                 joining>>

\* ... then wait(), and on to the new flat flowgraph.
RestartWait(c) ==
  /\ pc[c] = "restart_join"
  /\ d_scheduler \notin alive
  /\ d_state' = "IDLE"
  /\ Goto(c, "flatten")
  /\ UNCHANGED <<d_lock_count, d_mutex, d_scheduler, made, alive, interrupted,
                 joining>>

-----------------------------------------------------------------------------
\* The threads of generation g have all ended (GrTpb: Completes).
ThreadsEnd(g) ==
  /\ g \in alive
  /\ Finite \/ interrupted[g] # "no"
  /\ alive' = alive \ {g}
  /\ UNCHANGED <<d_state, d_lock_count, d_mutex, d_scheduler, made, interrupted,
                 pc, joining>>

\* What a caller does inside a call, as opposed to making one.
InCall(c) ==
  \/ Flatten(c) \/ make_scheduler(c) \/ AssignScheduler(c) \/ SetRunning(c)
  \/ JoinAll(c) \/ SetIdle(c) \/ RestartStop(c) \/ RestartWait(c)

Next ==
  \/ \E c \in Callers : start(c) \/ stop(c) \/ wait(c) \/ lock(c) \/ unlock(c) \/ InCall(c)
  \/ \E g \in Generations : ThreadsEnd(g)

Fairness ==
  /\ \A c \in Callers : WF_vars(InCall(c))
  /\ \A g \in Generations : WF_vars(ThreadsEnd(g))

Spec == Init /\ [][Next]_vars /\ Fairness

-----------------------------------------------------------------------------
(* Properties. *)

\* Every variable keeps its type.
TypeOK ==
  /\ d_state \in {"IDLE", "RUNNING"} /\ d_lock_count \in 0 .. MaxLocks
  /\ d_mutex \in Callers \union {Null}
  /\ d_scheduler \in 0 .. made /\ made \in 0 .. MaxGenerations
  /\ alive \subseteq 1 .. made
  /\ interrupted \in [Generations -> {"no", "user", "restart"}]
  /\ pc \in [Callers -> {"idle", "flatten", "make", "assign", "run", "join",
                         "set_idle", "restart", "restart_join"}]
  /\ joining \in [Callers -> 0 .. made]

\* No block thread runs while flatten, setup_connections or merge_connections
\* changes the graph structure that block threads read without locks.
NoThreadsWhileRewiring ==
  \A c \in Callers : pc[c] \in {"flatten", "make"} => alive = {}

\* A flowgraph whose threads are running is never taken for an idle one, which
\* is what lets start() reject a second start.
IdleMeansStopped ==
  d_state = "IDLE" /\ alive # {} => \E c \in Callers : pc[c] \in {"assign", "run"}

\* wait() returns only when the flowgraph has completed: its blocks were done,
\* or stop() had been called.
WaitMeansComplete ==
  \A c \in Callers : pc[c] = "set_idle" /\ joining[c] # 0 =>
    interrupted[joining[c]] # "restart"

\* Every call returns, given that the flowgraph ends by itself.
CallsReturn == \A c \in Callers : pc[c] # "idle" ~> pc[c] = "idle"
-----------------------------------------------------------------------------
(* The inductive invariant behind the properties, in named parts. *)

\* The callers that are inside start(), unlock() or restart() hold d_mutex.
Holding == {"flatten", "make", "assign", "run", "restart", "restart_join"}
HolderInv == \A c \in Callers : pc[c] \in Holding => d_mutex = c

\* A scheduler is made only while there is room under the bound.
RoomInv ==
  \A c \in Callers : pc[c] \in {"restart", "restart_join", "flatten", "make"} =>
    made < MaxGenerations

\* At most one caller makes the calls that start, wait for or restart the
\* flowgraph; the others may still call stop() and lock().
SingleOwner ==
  \A c, d \in Callers :
    c # d => \E e \in {c, d} : Calls[e] \intersect {"start", "wait", "unlock"} = {}

OwnerInv ==
  \A c \in Callers : pc[c] # "idle" => Calls[c] \intersect {"start", "wait", "unlock"} # {}

\* Only the current scheduler, or the one just made, has threads.
AliveInv ==
  /\ \A c \in Callers : pc[c] = "assign" => alive \subseteq {made} /\ d_scheduler < made
  /\ (\A c \in Callers : pc[c] # "assign") => alive \subseteq {d_scheduler}
  /\ \A c \in Callers : pc[c] = "join" => alive \subseteq {joining[c]}
  /\ \A c \in Callers : pc[c] = "set_idle" => alive = {}

\* A scheduler is stopped for a restart only while the restart waits for it.
InterruptInv ==
  /\ \A g \in Generations : g > made => interrupted[g] = "no"
  /\ \A g \in alive : interrupted[g] = "restart" => \E c \in Callers : pc[c] = "restart_join"
  /\ \A c \in Callers : pc[c] \in {"join", "set_idle"} /\ joining[c] # 0 =>
       interrupted[joining[c]] # "restart"

\* With a single owner, this invariant is inductive.
TopBlockInv ==
  /\ TypeOK /\ HolderInv /\ RoomInv /\ OwnerInv /\ AliveInv /\ InterruptInv
  /\ NoThreadsWhileRewiring /\ IdleMeansStopped
=============================================================================
