-------------------------- MODULE GrTopBlockProofs --------------------------
(***************************************************************************)
(* Proofs about gr_top_block_impl (GrTopBlock).  Type correctness holds    *)
(* whoever makes the calls; that no threads run while the flowgraph is     *)
(* rewired, that an idle flowgraph has none and that wait() means          *)
(* completion hold when a single thread starts, waits for and unlocks the  *)
(* flowgraph, however many others stop() and lock() it.                    *)
(***************************************************************************)
EXTENDS GrTopBlock, TLAPS

-----------------------------------------------------------------------------
(* Type correctness, for any assignment of calls to callers. *)

TypeInv == TypeOK /\ HolderInv /\ RoomInv

\* interrupt_all marks at most the current scheduler.
LEMMA InterruptAllType ==
  ASSUME TypeOK, NEW why \in {"user", "restart"}, InterruptAll(why)
  PROVE  /\ interrupted' \in [Generations -> {"no", "user", "restart"}]
         /\ \A g \in Generations : g # d_scheduler => interrupted'[g] = interrupted[g]
         /\ \A g \in Generations : interrupted'[g] = interrupted[g] \/ (g \in alive /\ interrupted'[g] = why)
BY DEF InterruptAll, TypeOK, Generations

\* The initial state is well typed.
LEMMA InitTypeInv == Init => TypeInv
BY BoundAssumption DEF Init, TypeInv, TypeOK, HolderInv, RoomInv, Holding

\* Every step keeps the types, the mutex with its holder and room for the
\* scheduler that the holder is about to make.
LEMMA NextTypeInv == TypeInv /\ [Next]_vars => TypeInv'
<1> SUFFICES ASSUME TypeInv, [Next]_vars
             PROVE  TypeInv'
  OBVIOUS
<1> USE BoundAssumption DEF TypeInv, HolderInv, RoomInv, Holding, Goto, CanCall
<1>1. ASSUME NEW c \in Callers, start(c) PROVE TypeInv'
  BY <1>1 DEF start, TypeOK
<1>2. ASSUME NEW c \in Callers, stop(c) PROVE TypeInv'
  <2>1. interrupted' \in [Generations -> {"no", "user", "restart"}]
    BY <1>2, InterruptAllType DEF stop
  <2> QED BY <1>2, <2>1 DEF stop, TypeOK
<1>3. ASSUME NEW c \in Callers, wait(c) PROVE TypeInv'
  BY <1>3 DEF wait, TypeOK
<1>4. ASSUME NEW c \in Callers, lock(c) PROVE TypeInv'
  BY <1>4 DEF lock, TypeOK
<1>5. ASSUME NEW c \in Callers, unlock(c) PROVE TypeInv'
  BY <1>5 DEF unlock, TypeOK
<1>6. ASSUME NEW c \in Callers, Flatten(c) PROVE TypeInv'
  BY <1>6 DEF Flatten, TypeOK
<1>7. ASSUME NEW c \in Callers, make_scheduler(c) PROVE TypeInv'
  BY <1>7 DEF make_scheduler, TypeOK
<1>8. ASSUME NEW c \in Callers, AssignScheduler(c) PROVE TypeInv'
  <2>1. interrupted' \in [Generations -> {"no", "user", "restart"}]
    BY <1>8, InterruptAllType DEF AssignScheduler
  <2> QED BY <1>8, <2>1 DEF AssignScheduler, TypeOK
<1>9. ASSUME NEW c \in Callers, SetRunning(c) PROVE TypeInv'
  BY <1>9 DEF SetRunning, TypeOK
<1>10. ASSUME NEW c \in Callers, JoinAll(c) PROVE TypeInv'
  BY <1>10 DEF JoinAll, TypeOK
<1>11. ASSUME NEW c \in Callers, SetIdle(c) PROVE TypeInv'
  BY <1>11 DEF SetIdle, TypeOK
<1>12. ASSUME NEW c \in Callers, RestartStop(c) PROVE TypeInv'
  <2>1. interrupted' \in [Generations -> {"no", "user", "restart"}]
    BY <1>12, InterruptAllType DEF RestartStop
  <2> QED BY <1>12, <2>1 DEF RestartStop, TypeOK
<1>13. ASSUME NEW c \in Callers, RestartWait(c) PROVE TypeInv'
  BY <1>13 DEF RestartWait, TypeOK
<1>14. ASSUME NEW g \in Generations, ThreadsEnd(g) PROVE TypeInv'
  BY <1>14 DEF ThreadsEnd, TypeOK
<1>15. CASE UNCHANGED vars
  BY <1>15 DEF vars, TypeOK
<1> QED
  BY <1>1, <1>2, <1>3, <1>4, <1>5, <1>6, <1>7, <1>8, <1>9, <1>10, <1>11, <1>12,
     <1>13, <1>14, <1>15 DEF Next, InCall

\* gr_top_block_impl keeps its types whoever calls it: no more schedulers than
\* the bound are made, and joining and d_scheduler name ones that were made.
THEOREM TypeCorrect == Spec => []TypeOK
<1>1. Spec => []TypeInv
  BY InitTypeInv, NextTypeInv, PTL DEF Spec
<1> QED
  BY <1>1, PTL DEF TypeInv

-----------------------------------------------------------------------------
(* The single owner. *)

\* A top block that was never started satisfies the invariant.
LEMMA InitTopBlockInv == Init => TopBlockInv
BY InitTypeInv DEF Init, TopBlockInv, TypeInv, OwnerInv, AliveInv, InterruptInv,
   NoThreadsWhileRewiring, IdleMeansStopped

\* While a caller makes an owner's call, or is inside one, nobody else is in one.
LEMMA OneActive ==
  ASSUME SingleOwner, OwnerInv, NEW c \in Callers,
         Calls[c] \intersect {"start", "wait", "unlock"} # {}
  PROVE  \A d \in Callers : d # c => pc[d] = "idle"
BY DEF SingleOwner, OwnerInv

\* Every step of every caller keeps the single owner's invariant.
LEMMA NextTopBlockInv == SingleOwner /\ TopBlockInv /\ [Next]_vars => TopBlockInv'
<1> SUFFICES ASSUME SingleOwner, TopBlockInv, [Next]_vars
             PROVE  TopBlockInv'
  OBVIOUS
<1>a. TypeOK' /\ HolderInv' /\ RoomInv'
  BY NextTypeInv DEF TopBlockInv, TypeInv
<1> DEFINE Rest == /\ OwnerInv' /\ AliveInv' /\ InterruptInv'
                   /\ NoThreadsWhileRewiring' /\ IdleMeansStopped'
<1> USE BoundAssumption DEF Goto, CanCall
<1>i. OwnerInv /\ TypeOK
  BY DEF TopBlockInv
<1>1. ASSUME NEW c \in Callers, start(c) PROVE Rest
  <2>1. \A d \in Callers : d # c => pc[d] = "idle"
    BY <1>1, <1>i, OneActive DEF start
  <2> QED BY <1>1, <2>1 DEF start, TopBlockInv, TypeOK, OwnerInv, AliveInv, InterruptInv,
             NoThreadsWhileRewiring, IdleMeansStopped
<1>2. ASSUME NEW c \in Callers, stop(c) PROVE Rest
  <2>1. \A g \in Generations : interrupted'[g] = interrupted[g]
                               \/ (g \in alive /\ interrupted'[g] = "user")
    BY <1>2, <1>i, InterruptAllType DEF stop
  <2> QED BY <1>2, <2>1 DEF stop, TopBlockInv, TypeOK, OwnerInv, AliveInv, InterruptInv,
             NoThreadsWhileRewiring, IdleMeansStopped, Generations
<1>3. ASSUME NEW c \in Callers, wait(c) PROVE Rest
  <2>1. \A d \in Callers : d # c => pc[d] = "idle"
    BY <1>3, <1>i, OneActive DEF wait
  <2> QED BY <1>3, <2>1 DEF wait, TopBlockInv, TypeOK, OwnerInv, AliveInv, InterruptInv,
             NoThreadsWhileRewiring, IdleMeansStopped
<1>4. ASSUME NEW c \in Callers, lock(c) PROVE Rest
  BY <1>4 DEF lock, TopBlockInv, OwnerInv, AliveInv, InterruptInv,
     NoThreadsWhileRewiring, IdleMeansStopped
<1>5. ASSUME NEW c \in Callers, unlock(c) PROVE Rest
  <2>1. \A d \in Callers : d # c => pc[d] = "idle"
    BY <1>5, <1>i, OneActive DEF unlock
  <2> QED BY <1>5, <2>1 DEF unlock, TopBlockInv, TypeOK, OwnerInv, AliveInv, InterruptInv,
             NoThreadsWhileRewiring, IdleMeansStopped
<1>6. ASSUME NEW c \in Callers, InCall(c) PROVE Rest
  <2>1. Calls[c] \intersect {"start", "wait", "unlock"} # {}
    BY <1>6, <1>i DEF OwnerInv, InCall, Flatten, make_scheduler, AssignScheduler,
       SetRunning, JoinAll, SetIdle, RestartStop, RestartWait
  <2>2. \A d \in Callers : d # c => pc[d] = "idle"
    BY <2>1, <1>i, OneActive
  <2> USE <2>1, <2>2 DEF TopBlockInv, TypeOK, OwnerInv, AliveInv, InterruptInv,
          NoThreadsWhileRewiring, IdleMeansStopped
  <2>3. CASE Flatten(c)
    BY <2>3 DEF Flatten
  <2>4. CASE make_scheduler(c)
    BY <2>4 DEF make_scheduler, Generations, RoomInv
  <2>5. CASE AssignScheduler(c)
    <3>1. d_scheduler \notin alive
      BY <2>5 DEF AssignScheduler
    <3>2. interrupted' = interrupted
      BY <2>5, <3>1 DEF AssignScheduler, InterruptAll
    <3> QED BY <2>5, <3>1, <3>2 DEF AssignScheduler
  <2>6. CASE SetRunning(c)
    BY <2>6 DEF SetRunning
  <2>7. CASE JoinAll(c)
    BY <2>7 DEF JoinAll
  <2>8. CASE SetIdle(c)
    BY <2>8 DEF SetIdle
  <2>9. CASE RestartStop(c)
    <3>1. \A g \in Generations : interrupted'[g] = interrupted[g]
                                 \/ (g \in alive /\ interrupted'[g] = "restart")
      BY <2>9, InterruptAllType DEF RestartStop
    <3> QED BY <2>9, <3>1 DEF RestartStop, Generations
  <2>10. CASE RestartWait(c)
    <3>1. pc[c] = "restart_join" /\ \A d \in Callers : pc[d] # "assign"
      BY <2>10 DEF RestartWait
    <3>2. alive = {}
      BY <2>10, <3>1 DEF RestartWait
    <3>3. pc' = [pc EXCEPT ![c] = "flatten"] /\ DOMAIN pc = Callers
          /\ UNCHANGED <<d_scheduler, made, alive, interrupted, joining>>
      BY <2>10 DEF RestartWait
    <3>4. pc'[c] = "flatten" /\ \A d \in Callers : d # c => pc'[d] = "idle"
      BY <3>3
    <3>5. OwnerInv' /\ NoThreadsWhileRewiring' /\ IdleMeansStopped'
      BY <3>2, <3>3, <3>4
    <3>6. AliveInv' /\ InterruptInv'
      BY <3>1, <3>2, <3>3, <3>4
    <3> QED BY <3>5, <3>6
  <2> QED BY <1>6, <2>3, <2>4, <2>5, <2>6, <2>7, <2>8, <2>9, <2>10 DEF InCall
<1>7. ASSUME NEW g \in Generations, ThreadsEnd(g) PROVE Rest
  BY <1>7 DEF ThreadsEnd, TopBlockInv, OwnerInv, AliveInv, InterruptInv,
     NoThreadsWhileRewiring, IdleMeansStopped
<1>8. ASSUME UNCHANGED vars PROVE Rest
  BY <1>8 DEF vars, TopBlockInv, OwnerInv, AliveInv, InterruptInv,
     NoThreadsWhileRewiring, IdleMeansStopped
<1> QED
  BY <1>a, <1>1, <1>2, <1>3, <1>4, <1>5, <1>6, <1>7, <1>8 DEF Next, TopBlockInv

\* With a single owner every reachable state satisfies the invariant.
THEOREM OwnerInvariant == ASSUME SingleOwner PROVE Spec => []TopBlockInv
<1>1. TopBlockInv /\ [Next]_vars => TopBlockInv'
  BY NextTopBlockInv
<1> QED
  BY <1>1, InitTopBlockInv, PTL DEF Spec

\* restart() never rewires a flowgraph that has threads, so that flatten(),
\* setup_connections() and merge_connections() race with no block.
THEOREM NoThreadsWhileRewiringHolds ==
  ASSUME SingleOwner PROVE Spec => []NoThreadsWhileRewiring
BY OwnerInvariant, PTL DEF TopBlockInv

\* d_state is IDLE only when there are no threads, but for those of the
\* start() or restart() in progress: start() cannot start a running flowgraph.
THEOREM IdleMeansStoppedHolds ==
  ASSUME SingleOwner PROVE Spec => []IdleMeansStopped
BY OwnerInvariant, PTL DEF TopBlockInv

\* wait() returns for a flowgraph that ended or was stopped by stop(), never
\* for one that a restart stopped.
THEOREM WaitMeansCompleteHolds ==
  ASSUME SingleOwner PROVE Spec => []WaitMeansComplete
<1>1. TopBlockInv => WaitMeansComplete
  BY DEF TopBlockInv, InterruptInv, WaitMeansComplete
<1> QED
  BY <1>1, OwnerInvariant, PTL
=============================================================================
