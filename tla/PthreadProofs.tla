---------------------------- MODULE PthreadProofs ---------------------------
(***************************************************************************)
(* What is proved about PthreadMutex, for any set of threads, both types   *)
(* of mutex and any depth of recursion, and about PthreadCond, for any set *)
(* of threads and any number of signals and broadcasts.                    *)
(***************************************************************************)
EXTENDS PthreadCond, TLAPS

(* owner names a thread exactly while it has a recursive mutex and is      *)
(* neither setting nor clearing it; a thread that locks again has room.    *)
OwnerOK ==
    /\ ~Recursive => /\ owner = NoThread
                     /\ level = 0
                     /\ \A t \in Thread : pc[t] # "check_owner"
    /\ \A t \in Thread : owner = t => pc[t] \in {"own", "check_owner"}
    /\ \A t \in Thread : Recursive /\ pc[t] = "own" => owner = t
    /\ \A t \in Thread : pc[t] = "check_owner" /\ owner = t => level < MaxLevel

(* The inductive invariant.  MutualExclusion needs OwnerOK because a       *)
(* thread that believes to be the owner takes the mutex without asking.    *)
IndInv ==
    /\ TypeOK
    /\ OwnerOK
    /\ MutualExclusion
    /\ LevelsBalanced

USE DEF UNLOCKED, NO_NEED_TO_WAKE, NEED_TO_WAKE

(* IndInv holds at first.                                                  *)
LEMMA InitIndInv == Init => IndInv
<1> SUFFICES ASSUME Init PROVE IndInv
  OBVIOUS
<1> USE ThreadAssumption, LevelAssumption
<1>1. TypeOK
  BY DEF Init, TypeOK, Location, Type
<1>2. OwnerOK
  BY DEF Init, OwnerOK, Recursive
<1>3. MutualExclusion
  BY DEF Init, MutualExclusion, Has
<1>4. LevelsBalanced
  BY DEF Init, LevelsBalanced
<1> QED
  BY <1>1, <1>2, <1>3, <1>4 DEF IndInv

(* The attributes of a mutex never change.                                 *)
LEMMA KindFixed == [Next]_vars => type' = type /\ with_cond' = with_cond
  BY DEF Next, vars, kind, LockFast, LockBusy, CheckOwner, SlowPath, Exchange, FutexWait, SetOwner,
         Interrupt, LeaveQueue, LockPessimistic, Unlock, Release, FutexWake

(* Every step preserves IndInv.                                            *)
LEMMA NextIndInv == IndInv /\ [Next]_vars => IndInv'
<1> SUFFICES ASSUME IndInv, [Next]_vars PROVE IndInv'
  OBVIOUS
<1>0. type' = type /\ with_cond' = with_cond
  BY KindFixed
<1> USE <1>0 DEF Recursive, Type
<1> USE ThreadAssumption, LevelAssumption
<1> USE DEF IndInv
<1>1. ASSUME NEW t \in Thread, LockFast(t) PROVE IndInv'
  <2> USE <1>1 DEF LockFast, Goto, MayLock
  <2>1. TypeOK'
    BY DEF TypeOK, Location, OwnerOK, LevelsBalanced
  <2>2. OwnerOK'
    BY DEF TypeOK, Location, OwnerOK, MutualExclusion, Has
  <2>3. MutualExclusion'
    BY DEF TypeOK, Location, OwnerOK, MutualExclusion, Has
  <2>4. LevelsBalanced'
    BY DEF TypeOK, Location, OwnerOK, MutualExclusion, Has, LevelsBalanced
  <2> QED
    BY <2>1, <2>2, <2>3, <2>4
<1>2. ASSUME NEW t \in Thread, LockBusy(t) PROVE IndInv'
  <2> USE <1>2 DEF LockBusy, Goto, MayLock
  <2>1. TypeOK'
    BY DEF TypeOK, Location, OwnerOK, LevelsBalanced
  <2>2. OwnerOK'
    BY DEF TypeOK, Location, OwnerOK, MutualExclusion, Has
  <2>3. MutualExclusion'
    BY DEF TypeOK, Location, OwnerOK, MutualExclusion, Has
  <2>4. LevelsBalanced'
    BY DEF TypeOK, Location, OwnerOK, MutualExclusion, Has, LevelsBalanced
  <2> QED
    BY <2>1, <2>2, <2>3, <2>4
<1>3. ASSUME NEW t \in Thread, CheckOwner(t) PROVE IndInv'
  <2> USE <1>3 DEF CheckOwner, Goto
  <2>1. TypeOK'
    BY DEF TypeOK, Location, OwnerOK, LevelsBalanced
  <2>2. OwnerOK'
    BY DEF TypeOK, Location, OwnerOK, MutualExclusion, Has
  <2>3. MutualExclusion'
    BY DEF TypeOK, Location, OwnerOK, MutualExclusion, Has
  <2>4. LevelsBalanced'
    BY DEF TypeOK, Location, OwnerOK, MutualExclusion, Has, LevelsBalanced
  <2> QED
    BY <2>1, <2>2, <2>3, <2>4
<1>4. ASSUME NEW t \in Thread, SlowPath(t) PROVE IndInv'
  <2> USE <1>4 DEF SlowPath, Goto
  <2>1. TypeOK'
    BY DEF TypeOK, Location, OwnerOK, LevelsBalanced
  <2>2. OwnerOK'
    BY DEF TypeOK, Location, OwnerOK, MutualExclusion, Has
  <2>3. MutualExclusion'
    BY DEF TypeOK, Location, OwnerOK, MutualExclusion, Has
  <2>4. LevelsBalanced'
    BY DEF TypeOK, Location, OwnerOK, MutualExclusion, Has, LevelsBalanced
  <2> QED
    BY <2>1, <2>2, <2>3, <2>4
<1>5. ASSUME NEW t \in Thread, Exchange(t) PROVE IndInv'
  <2> USE <1>5 DEF Exchange, Goto
  <2>1. TypeOK'
    BY DEF TypeOK, Location, OwnerOK, LevelsBalanced
  <2>2. OwnerOK'
    BY DEF TypeOK, Location, OwnerOK, MutualExclusion, Has
  <2>3. MutualExclusion'
    BY DEF TypeOK, Location, OwnerOK, MutualExclusion, Has
  <2>4. LevelsBalanced'
    BY DEF TypeOK, Location, OwnerOK, MutualExclusion, Has, LevelsBalanced
  <2> QED
    BY <2>1, <2>2, <2>3, <2>4
<1>6. ASSUME NEW t \in Thread, FutexWait(t) PROVE IndInv'
  <2> USE <1>6 DEF FutexWait, Goto, Expected
  <2>1. TypeOK'
    BY DEF TypeOK, Location, OwnerOK, LevelsBalanced
  <2>2. OwnerOK'
    BY DEF TypeOK, Location, OwnerOK, MutualExclusion, Has
  <2>3. MutualExclusion'
    BY DEF TypeOK, Location, OwnerOK, MutualExclusion, Has
  <2>4. LevelsBalanced'
    BY DEF TypeOK, Location, OwnerOK, MutualExclusion, Has, LevelsBalanced
  <2> QED
    BY <2>1, <2>2, <2>3, <2>4
<1>7. ASSUME NEW t \in Thread, Interrupt(t) PROVE IndInv'
  <2> USE <1>7 DEF Interrupt, Goto
  <2>1. TypeOK'
    BY DEF TypeOK, Location, OwnerOK, LevelsBalanced
  <2>2. OwnerOK'
    BY DEF TypeOK, Location, OwnerOK, MutualExclusion, Has
  <2>3. MutualExclusion'
    BY DEF TypeOK, Location, OwnerOK, MutualExclusion, Has
  <2>4. LevelsBalanced'
    BY DEF TypeOK, Location, OwnerOK, MutualExclusion, Has, LevelsBalanced
  <2> QED
    BY <2>1, <2>2, <2>3, <2>4
<1>8. ASSUME NEW t \in Thread, LeaveQueue(t) PROVE IndInv'
  <2> USE <1>8 DEF LeaveQueue, Goto
  <2>1. TypeOK'
    BY DEF TypeOK, Location, OwnerOK, LevelsBalanced
  <2>2. OwnerOK'
    BY DEF TypeOK, Location, OwnerOK, MutualExclusion, Has
  <2>3. MutualExclusion'
    BY DEF TypeOK, Location, OwnerOK, MutualExclusion, Has
  <2>4. LevelsBalanced'
    BY DEF TypeOK, Location, OwnerOK, MutualExclusion, Has, LevelsBalanced
  <2> QED
    BY <2>1, <2>2, <2>3, <2>4
<1>9. ASSUME NEW t \in Thread, SetOwner(t) PROVE IndInv'
  <2> USE <1>9 DEF SetOwner, Goto
  <2>1. TypeOK'
    BY DEF TypeOK, Location, OwnerOK, LevelsBalanced
  <2>2. OwnerOK'
    BY DEF TypeOK, Location, OwnerOK, MutualExclusion, Has
  <2>3. MutualExclusion'
    BY DEF TypeOK, Location, OwnerOK, MutualExclusion, Has
  <2>4. LevelsBalanced'
    BY DEF TypeOK, Location, OwnerOK, MutualExclusion, Has, LevelsBalanced
  <2> QED
    BY <2>1, <2>2, <2>3, <2>4
<1>10. ASSUME NEW t \in Thread, LockPessimistic(t) PROVE IndInv'
  <2> USE <1>10 DEF LockPessimistic, Goto
  <2>1. TypeOK'
    BY DEF TypeOK, Location, OwnerOK, LevelsBalanced
  <2>2. OwnerOK'
    BY DEF TypeOK, Location, OwnerOK, MutualExclusion, Has
  <2>3. MutualExclusion'
    BY DEF TypeOK, Location, OwnerOK, MutualExclusion, Has
  <2>4. LevelsBalanced'
    BY DEF TypeOK, Location, OwnerOK, MutualExclusion, Has, LevelsBalanced
  <2> QED
    BY <2>1, <2>2, <2>3, <2>4
<1>11. ASSUME NEW t \in Thread, Unlock(t) PROVE IndInv'
  <2> USE <1>11 DEF Unlock, Goto
  <2>1. TypeOK'
    BY DEF TypeOK, Location, OwnerOK, LevelsBalanced
  <2>2. OwnerOK'
    BY DEF TypeOK, Location, OwnerOK, MutualExclusion, Has
  <2>3. MutualExclusion'
    BY DEF TypeOK, Location, OwnerOK, MutualExclusion, Has
  <2>4. LevelsBalanced'
    BY DEF TypeOK, Location, OwnerOK, MutualExclusion, Has, LevelsBalanced
  <2> QED
    BY <2>1, <2>2, <2>3, <2>4
<1>12. ASSUME NEW t \in Thread, Release(t) PROVE IndInv'
  <2> USE <1>12 DEF Release, Goto
  <2>1. TypeOK'
    BY DEF TypeOK, Location, OwnerOK, LevelsBalanced
  <2>2. OwnerOK'
    BY DEF TypeOK, Location, OwnerOK, MutualExclusion, Has
  <2>3. MutualExclusion'
    BY DEF TypeOK, Location, OwnerOK, MutualExclusion, Has
  <2>4. LevelsBalanced'
    BY DEF TypeOK, Location, OwnerOK, MutualExclusion, Has, LevelsBalanced
  <2> QED
    BY <2>1, <2>2, <2>3, <2>4
<1>13. ASSUME NEW t \in Thread, FutexWake(t) PROVE IndInv'
  <2> USE <1>13 DEF FutexWake, Goto, Queued
  <2>1. TypeOK'
    BY DEF TypeOK, Location, OwnerOK, LevelsBalanced
  <2>2. OwnerOK'
    BY DEF TypeOK, Location, OwnerOK, MutualExclusion, Has
  <2>3. MutualExclusion'
    BY DEF TypeOK, Location, OwnerOK, MutualExclusion, Has
  <2>4. LevelsBalanced'
    BY DEF TypeOK, Location, OwnerOK, MutualExclusion, Has, LevelsBalanced
  <2> QED
    BY <2>1, <2>2, <2>3, <2>4
<1>14. CASE UNCHANGED vars
  BY <1>14 DEF vars, TypeOK, OwnerOK, MutualExclusion, LevelsBalanced, Has
<1> QED
  BY <1>1, <1>2, <1>3, <1>4, <1>5, <1>6, <1>7, <1>8, <1>9, <1>10, <1>11, <1>12, <1>13, <1>14 DEF Next

(* So it holds in every reachable state.                                   *)
LEMMA Invariance == Spec => []IndInv
BY InitIndInv, NextIndInv, PTL DEF Spec

(* Every step of every thread keeps the words of the mutex and the local   *)
(* variables of pthread_mutex_lock and _unlock in their ranges.            *)
THEOREM TypeCorrect == Spec => []TypeOK
BY Invariance, PTL DEF IndInv

(* No two threads have a pthread mutex, normal or recursive, with or       *)
(* without the pessimistic lock, and lock is UNLOCKED exactly if none has. *)
THEOREM MutualExclusionHolds == Spec => []MutualExclusion
BY Invariance, PTL DEF IndInv

(* The level of a recursive mutex counts the locks of its owner, so that   *)
(* as many calls of pthread_mutex_unlock release it.                       *)
THEOREM LevelsBalancedHolds == Spec => []LevelsBalanced
BY Invariance, PTL DEF IndInv

-----------------------------------------------------------------------------
(* Sleepers.                                                               *)

(* Without the pessimistic lock everybody waits for NEED_TO_WAKE, so the   *)
(* flag is set whenever somebody falls asleep.                             *)
SleepInv == TypeOK /\ (~with_cond => pess = {} /\ SleepersKnown)

(* Every step preserves SleepInv.                                          *)
LEMMA NextSleepInv == TypeOK' /\ SleepInv /\ [Next]_vars => SleepInv'
<1> SUFFICES ASSUME TypeOK', TypeOK, ~with_cond, pess = {}, SleepersKnown, [Next]_vars
             PROVE  pess' = {} /\ SleepersKnown'
  BY KindFixed DEF SleepInv
<1>0. type' = type /\ with_cond' = with_cond
  BY KindFixed
<1> USE <1>0
<1>1. pess' = {}
  <2>1. ASSUME NEW t \in Thread, SetOwner(t) PROVE pess' = {}
    BY <2>1 DEF SetOwner
  <2>2. ASSUME NEW t \in Thread, ~SetOwner(t),
               LockFast(t) \/ LockBusy(t) \/ CheckOwner(t) \/ SlowPath(t) \/ Exchange(t)
                 \/ FutexWait(t) \/ Interrupt(t) \/ LeaveQueue(t) \/ LockPessimistic(t)
                 \/ Unlock(t) \/ Release(t) \/ FutexWake(t)
        PROVE  pess' = {}
    BY <2>2 DEF LockFast, LockBusy, CheckOwner, SlowPath, Exchange, FutexWait, Interrupt,
                LeaveQueue, LockPessimistic, Unlock, Release, FutexWake
  <2>3. CASE UNCHANGED vars
    BY <2>3 DEF vars
  <2> QED
    BY <2>1, <2>2, <2>3 DEF Next
<1>2. SleepersKnown'
  <2> USE DEF TypeOK, Location, SleepersKnown
  <2>1. ASSUME NEW t \in Thread, LockFast(t) PROVE SleepersKnown'
    BY <2>1 DEF LockFast, Goto, MayLock
  <2>2. ASSUME NEW t \in Thread, LockBusy(t) PROVE SleepersKnown'
    BY <2>2 DEF LockBusy, Goto, MayLock
  <2>3. ASSUME NEW t \in Thread, CheckOwner(t) PROVE SleepersKnown'
    BY <2>3 DEF CheckOwner, Goto
  <2>4. ASSUME NEW t \in Thread, SlowPath(t) PROVE SleepersKnown'
    BY <2>4 DEF SlowPath, Goto
  <2>5. ASSUME NEW t \in Thread, Exchange(t) PROVE SleepersKnown'
    BY <2>5 DEF Exchange, Goto
  <2>6. ASSUME NEW t \in Thread, FutexWait(t) PROVE SleepersKnown'
    BY <2>6 DEF FutexWait, Goto, Expected
  <2>7. ASSUME NEW t \in Thread, Interrupt(t) PROVE SleepersKnown'
    BY <2>7 DEF Interrupt, Goto
  <2>8. ASSUME NEW t \in Thread, LeaveQueue(t) PROVE SleepersKnown'
    BY <2>8 DEF LeaveQueue, Goto
  <2>9. ASSUME NEW t \in Thread, SetOwner(t) PROVE SleepersKnown'
    BY <2>9 DEF SetOwner, Goto
  <2>10. ASSUME NEW t \in Thread, LockPessimistic(t) PROVE SleepersKnown'
    BY <2>10 DEF LockPessimistic
  <2>11. ASSUME NEW t \in Thread, Unlock(t) PROVE SleepersKnown'
    BY <2>11 DEF Unlock, Goto
  <2>12. ASSUME NEW t \in Thread, Release(t) PROVE SleepersKnown'
    BY <2>12 DEF Release, Goto
  <2>13. ASSUME NEW t \in Thread, FutexWake(t) PROVE SleepersKnown'
    <3>1. CASE Queued # {}
      BY <2>13, <3>1 DEF FutexWake, Goto, Queued
    <3>2. CASE Queued = {}
      BY <2>13, <3>2 DEF FutexWake, Goto, Queued
    <3> QED
      BY <3>1, <3>2
  <2>14. CASE UNCHANGED vars
    BY <2>14 DEF vars
  <2> QED
    BY <2>1, <2>2, <2>3, <2>4, <2>5, <2>6, <2>7, <2>8, <2>9, <2>10, <2>11, <2>12, <2>13, <2>14 DEF Next
<1> QED
  BY <1>1, <1>2

(* If no condition variable uses the mutex, no thread sleeps in            *)
(* pthread_mutex_lock while lock does not make the next unlock wake it,    *)
(* unless another one is about to wake somebody or to set that flag.       *)
THEOREM NoSleeperForgottenHolds == Spec => []NoSleeperForgotten
<1>1. Init => SleepInv
  BY InitIndInv DEF IndInv, Init, SleepInv, SleepersKnown
<1>2. TypeOK' /\ SleepInv /\ [Next]_vars => SleepInv'
  BY NextSleepInv
<1>3. SleepInv => NoSleeperForgotten
  BY DEF SleepInv, NoSleeperForgotten
<1> QED
  BY <1>1, <1>2, <1>3, TypeCorrect, PTL DEF Spec

-----------------------------------------------------------------------------
(* Condition variables.                                                    *)

CondLocation == {"none", "registered", "asleep", "interrupted", "timed_out", "relock", "signal_clear",
                 "signal_wake", "signal_restore", "broadcast_clear", "broadcast_wake"}

(* The types.                                                              *)
CondTypeOK ==
    /\ disciplined \in BOOLEAN
    /\ cond \in [gen : Nat, one : BOOLEAN, all : BOOLEAN]
    /\ cpc \in [Thread -> CondLocation]
    /\ generation \in [Thread -> Nat]
    /\ owed \in [Thread -> SUBSET SUBSET Thread]

(* While a thread is in the queue of the condition variable, the flags are *)
(* set or the call that cleared them has not finished.                     *)
QueuedFlagged ==
    CondQueued # {} =>
        /\ cond.one \/ \E t \in Thread : cpc[t] \in {"signal_wake", "signal_restore",
                                                     "broadcast_wake"}
        /\ cond.all \/ \E t \in Thread : cpc[t] = "broadcast_wake"

(* Nobody waits for the end of a generation that has not begun.            *)
GenerationOK == \A w \in Thread : generation[w] <= cond.gen

(* Only waiting threads are owed anything, and every debt has a creditor.  *)
OwedOK == \A t \in Thread : \A S \in owed[t] : S # {} /\ S \subseteq Waiting

(* With the mutex held for it, a call is alone: its flag stays set until   *)
(* it clears it, nobody joins those that wait, and who is on the way into  *)
(* futex_wait will not sleep.                                              *)
CallOK ==
    \A t \in Thread : InCall(t) =>
        /\ pc[t] = "own"
        /\ cpc[t] = "signal_clear" => cond.one
        /\ \A w \in Thread : cpc[w] = "registered" => generation[w] # cond.gen
        /\ cpc[t] \in {"signal_clear", "signal_wake"} => \A S \in owed[t] : Waiting \subseteq S
        /\ cpc[t] = "signal_restore" => owed[t] = {}

CondInv ==
    /\ CondTypeOK
    /\ QueuedFlagged
    /\ GenerationOK
    /\ OwedOK
    /\ disciplined => CallOK /\ SignalReleases

(* The functions of the condition variable use the mutex as any other      *)
(* code does: every step is one of the mutex or leaves it alone.           *)
LEMMA CondStep == [CondNext]_<<vars, cvars>> => [Next]_vars
BY DEF CondNext, Next, MutexStep, Register, CondFutexWait, CondInterrupt, CondLeaveQueue, Relock,
       WaitReturns, Signal, SignalClear, SignalWake, SignalRestore, Broadcast, BroadcastClear,
       BroadcastWake

(* A mutex that is used with a condition variable is still a mutex: what   *)
(* is proved of PthreadMutex holds in PthreadCond, the mutual exclusion of *)
(* the threads that pthread_cond_wait gives the mutex back to included.    *)
THEOREM CondImplementsMutex == CondSpec => Spec
<1>1. CondInit => Init
  BY DEF CondInit
<1> QED
  BY <1>1, CondStep, PTL DEF CondSpec, Spec

(* CondInv holds at first: nobody waits.                                   *)
LEMMA InitCondInv == CondInit => CondInv
<1> SUFFICES ASSUME CondInit PROVE CondInv
  OBVIOUS
<1> USE DEF CondInit
<1>1. CondTypeOK
  BY DEF CondTypeOK, CondLocation
<1>2. QueuedFlagged /\ GenerationOK
  BY DEF QueuedFlagged, CondQueued, GenerationOK
<1>3. OwedOK /\ CallOK /\ SignalReleases
  BY DEF OwedOK, CallOK, SignalReleases, InCall
<1> QED
  BY <1>1, <1>2, <1>3 DEF CondInv

(* The steps of the mutex, with which a call of signal or broadcast does   *)
(* not lose it.                                                            *)
LEMMA MutexStepCondInv ==
  ASSUME CondInv, TypeOK, NEW u \in Thread, MutexStep(u) \/ Relock(u)
  PROVE  CondInv'
<1>1. UNCHANGED cvars
  BY DEF MutexStep, Relock
<1>2. ASSUME NEW t \in Thread, InCall(t), pc[t] = "own" PROVE pc'[t] = "own"
  <2>1. t # u
    BY <1>2 DEF MutexStep, Relock, InCall
  <2>2. ASSUME ~FutexWake(u) PROVE pc'[t] = pc[t]
    BY <2>1, <2>2 DEF MutexStep, Relock, TypeOK, Goto, LockFast, LockBusy, SlowPath, SetOwner, Unlock, Release,
       Exchange, FutexWait, Interrupt, LeaveQueue, LockPessimistic
  <2>3. ASSUME FutexWake(u) PROVE pc'[t] = pc[t]
    BY <1>2, <2>1, <2>3 DEF FutexWake, Goto, Queued, TypeOK
  <2> QED BY <1>2, <2>2, <2>3
<1>3. CondTypeOK' /\ QueuedFlagged' /\ GenerationOK' /\ OwedOK'
  BY <1>1 DEF cvars, CondInv, CondTypeOK, QueuedFlagged, CondQueued, GenerationOK, OwedOK, Waiting
<1>4. ASSUME disciplined' PROVE CallOK' /\ SignalReleases'
  <2>1. disciplined /\ CallOK /\ SignalReleases
    BY <1>1, <1>4 DEF cvars, CondInv
  <2>2. SignalReleases'
    BY <1>1, <2>1 DEF cvars, SignalReleases, InCall
  <2>3. CallOK'
    BY <1>1, <1>2, <2>1 DEF cvars, CallOK, InCall, Waiting
  <2> QED BY <2>2, <2>3
<1> QED
  BY <1>3, <1>4 DEF CondInv

(* The steps of a thread that waits: what it is owed is forgotten as it is *)
(* released.                                                               *)
LEMMA WaiterCondInv ==
  ASSUME CondInv, NEW t \in Thread,
         Register(t) \/ CondFutexWait(t) \/ CondInterrupt(t) \/ CondLeaveQueue(t), MutualExclusion
  PROVE  CondInv'
<1> USE DEF CondInv, CondTypeOK, CGoto
<1>0. pc' = pc /\ disciplined' = disciplined
  BY DEF Register, CondFutexWait, CondInterrupt, CondLeaveQueue, vars
<1>1. CASE Register(t)
  <2>1. /\ cpc[t] = "none" /\ pc[t] = "own" /\ owed' = owed
        /\ generation' = [generation EXCEPT ![t] = cond.gen]
        /\ cpc' = [cpc EXCEPT ![t] = "registered"]
    BY <1>1 DEF Register
  <2>2. cond' \in [gen : Nat, one : BOOLEAN, all : BOOLEAN] /\ cond'.gen = cond.gen /\ cond'.one /\ cond'.all
    BY <1>1 DEF Register
  <2>3. CondTypeOK'
    BY <1>0, <2>1, <2>2 DEF CondLocation
  <2>4. QueuedFlagged' /\ GenerationOK'
    BY <2>1, <2>2 DEF QueuedFlagged, GenerationOK
  <2>5. Waiting \subseteq Waiting'
    BY <2>1 DEF Waiting
  <2>6. OwedOK'
    BY <2>1, <2>5 DEF OwedOK
  <2>7. ASSUME disciplined PROVE \A u \in Thread : ~InCall(u) /\ ~InCall(u)'
    BY <2>1, <2>7 DEF MutualExclusion, Has, CallOK, InCall
  <2>8. ASSUME disciplined PROVE CallOK' /\ SignalReleases'
    BY <2>1, <2>2, <2>7, <2>8 DEF CallOK, SignalReleases, InCall
  <2> QED BY <1>0, <2>3, <2>4, <2>6, <2>8
<1>2. CASE CondInterrupt(t) \/ (CondFutexWait(t) /\ SameValue(t))
  <2>1. /\ cpc[t] \in {"registered", "asleep"} /\ owed' = owed /\ cond' = cond /\ generation' = generation
        /\ \E l \in {"asleep", "interrupted", "timed_out"} : cpc' = [cpc EXCEPT ![t] = l]
        /\ cpc[t] = "registered" => cond.one /\ cond.all /\ generation[t] = cond.gen
    BY <1>2 DEF CondInterrupt, CondFutexWait, SameValue
  <2>3. CondTypeOK'
    BY <1>0, <2>1 DEF CondLocation
  <2>4. QueuedFlagged' /\ GenerationOK'
    BY <2>1 DEF QueuedFlagged, GenerationOK, CondQueued
  <2>5. Waiting' = Waiting
    BY <2>1 DEF Waiting
  <2>6. OwedOK'
    BY <2>1, <2>5 DEF OwedOK
  <2>7. \A u \in Thread : InCall(u)' <=> InCall(u)
    BY <2>1 DEF InCall
  <2>8. ASSUME disciplined PROVE CallOK'
    BY <1>0, <2>1, <2>5, <2>7, <2>8 DEF CallOK, InCall
  <2>9. ASSUME disciplined PROVE SignalReleases'
    BY <2>1, <2>7, <2>9 DEF SignalReleases
  <2> QED BY <1>0, <2>3, <2>4, <2>6, <2>8, <2>9
<1>3. CASE CondLeaveQueue(t) \/ (CondFutexWait(t) /\ ~SameValue(t))
  <2>1. /\ cpc[t] \in {"registered", "interrupted", "timed_out"} /\ cond' = cond /\ generation' = generation
        /\ \E l \in {"none", "relock"} : cpc' = [cpc EXCEPT ![t] = l]
        /\ owed' = [u \in Thread |-> {S \in owed[u] : S \cap {t} = {}}]
    BY <1>3 DEF CondLeaveQueue, CondFutexWait, Woken, Released
  <2>2. \A u \in Thread : owed'[u] \subseteq owed[u] /\ \A S \in owed'[u] : t \notin S
    BY <2>1
  <2>3. CondTypeOK'
    BY <1>0, <2>1, <2>2 DEF CondLocation
  <2>4. QueuedFlagged' /\ GenerationOK'
    BY <2>1 DEF QueuedFlagged, GenerationOK, CondQueued
  <2>5. Waiting' = Waiting \ {t}
    BY <2>1 DEF Waiting
  <2>6. OwedOK'
    BY <2>2, <2>5 DEF OwedOK
  <2>7. \A u \in Thread : InCall(u)' <=> InCall(u)
    BY <2>1 DEF InCall
  <2>8. ASSUME disciplined PROVE CallOK'
    BY <1>0, <2>1, <2>2, <2>5, <2>7, <2>8 DEF CallOK, InCall
  <2>9. ASSUME disciplined PROVE SignalReleases'
    BY <2>1, <2>2, <2>7, <2>9 DEF SignalReleases
  <2> QED BY <1>0, <2>3, <2>4, <2>6, <2>8, <2>9
<1> QED BY <1>1, <1>2, <1>3

(* pthread_cond_timedwait returns with the mutex.                          *)
LEMMA WaitReturnsCondInv ==
  ASSUME CondInv, TypeOK, NEW t \in Thread, WaitReturns(t)
  PROVE  CondInv'
<1> USE DEF CondInv, CondTypeOK, CGoto
<1>1. /\ cpc[t] = "relock" /\ cond' = cond /\ generation' = generation /\ owed' = owed
      /\ cpc' = [cpc EXCEPT ![t] = "none"] /\ disciplined' = disciplined
      /\ pc' = [pc EXCEPT ![t] = "own"]
  BY DEF WaitReturns, SetOwner, Goto
<1>2. CondTypeOK' /\ GenerationOK'
  BY <1>1 DEF CondLocation, GenerationOK
<1>3. CondQueued' = CondQueued /\ Waiting' = Waiting
  BY <1>1 DEF CondQueued, Waiting
<1>4. QueuedFlagged' /\ OwedOK'
  BY <1>1, <1>3 DEF QueuedFlagged, OwedOK
<1>5. \A u \in Thread : /\ InCall(u)' <=> InCall(u)
                        /\ InCall(u) => u # t /\ pc'[u] = pc[u] /\ cpc'[u] = cpc[u]
  BY <1>1 DEF InCall, TypeOK
<1>6. ASSUME disciplined PROVE CallOK'
  BY <1>1, <1>3, <1>5, <1>6 DEF CallOK
<1>7. ASSUME disciplined PROVE SignalReleases'
  BY <1>1, <1>5, <1>7 DEF SignalReleases
<1> QED BY <1>1, <1>2, <1>4, <1>6, <1>7

(* A signal or a broadcast begins.  If its flag is off nobody is in the    *)
(* queue, as no other call is on its way, and those that are on their way  *)
(* into futex_wait find another generation.                                *)
LEMMA CallBeginsCondInv ==
  ASSUME CondInv, TypeOK, MutualExclusion, NEW t \in Thread, Signal(t) \/ Broadcast(t)
  PROVE  CondInv'
<1> USE DEF CondInv, CondTypeOK, CGoto
<1>1. /\ cpc[t] = "none" /\ generation' = generation /\ disciplined' = disciplined /\ pc' = pc
      /\ disciplined => pc[t] = "own"
  BY DEF Signal, Broadcast, MaySignal, vars
<1>2. /\ cond' \in [gen : Nat, one : BOOLEAN, all : BOOLEAN]
      /\ cond'.gen = cond.gen + 1 /\ cond'.one = cond.one /\ cond'.all = cond.all
  BY DEF Signal, Broadcast
<1>3. \/ /\ Signal(t) /\ owed' = [owed EXCEPT ![t] = {Waiting} \ {{}}]
         /\ cpc' = [cpc EXCEPT ![t] = IF cond.one THEN "signal_clear" ELSE "none"]
      \/ /\ Broadcast(t) /\ owed' = [owed EXCEPT ![t] = {{w} : w \in Waiting}]
         /\ cpc' = [cpc EXCEPT ![t] = IF cond.all THEN "broadcast_clear" ELSE "none"]
  BY DEF Signal, Broadcast, Owe
<1>4. /\ \A u \in Thread : u # t => cpc'[u] = cpc[u] /\ owed'[u] = owed[u]
      /\ cpc'[t] \in {"signal_clear", "broadcast_clear", "none"}
      /\ cpc' \in [Thread -> CondLocation]
  BY <1>3 DEF CondLocation
<1>5. Waiting' = Waiting /\ CondQueued' = CondQueued /\ Waiting \subseteq Thread
  BY <1>1, <1>4 DEF Waiting, CondQueued
<1>6. \A S \in owed'[t] : S # {} /\ S \subseteq Waiting
  BY <1>3
<1>7. owed' \in [Thread -> SUBSET SUBSET Thread]
  BY <1>3, <1>5
<1>8. CondTypeOK' /\ GenerationOK'
  BY <1>1, <1>2, <1>4, <1>7 DEF GenerationOK
<1>9. OwedOK'
  BY <1>4, <1>5, <1>6 DEF OwedOK
<1>10. QueuedFlagged'
  BY <1>1, <1>2, <1>4, <1>5 DEF QueuedFlagged
<1>11. \A w \in Thread : generation'[w] # cond'.gen
  BY <1>1, <1>2 DEF GenerationOK
<1>12. ASSUME disciplined PROVE \A u \in Thread : ~InCall(u) /\ (InCall(u)' => u = t)
  BY <1>1, <1>4, <1>12 DEF MutualExclusion, Has, CallOK, InCall
<1>13. ASSUME disciplined PROVE CallOK'
  <2>1. cpc'[t] = "signal_clear" => cond'.one /\ owed'[t] = {Waiting} \ {{}}
    BY <1>1, <1>2, <1>3
  <2> QED
    BY <1>1, <1>4, <1>5, <1>11, <1>12, <1>13, <2>1 DEF CallOK
<1>14. ASSUME disciplined PROVE SignalReleases'
  <2>1. \A w \in Waiting : w \in CondQueued \/ cpc'[w] = "registered"
    BY <1>1, <1>4 DEF Waiting, CondQueued
  <2>2. CondQueued # {} => cond.one /\ cond.all
    BY <1>12, <1>14 DEF QueuedFlagged, InCall
  <2>3. cpc'[t] = "none" => CondQueued = {}
    BY <1>1, <1>3, <2>2
  <2>4. \A S \in owed'[t] : InCall(t)' \/ \E w \in S : cpc'[w] = "registered"
    BY <1>4, <1>6, <2>1, <2>3 DEF InCall
  <2>5. \A u \in Thread : \A S \in owed[u] : \E w \in S : cpc[w] = "registered" /\ w # t
    BY <1>1, <1>12, <1>14 DEF SignalReleases
  <2> QED
    BY <1>4, <1>5, <1>6, <1>11, <1>9, <2>4, <2>5 DEF SignalReleases, OwedOK
<1> QED BY <1>1, <1>8, <1>9, <1>10, <1>13, <1>14

(* The flags are cleared, by a call that will wake, or put back.           *)
LEMMA FlagsCondInv ==
  ASSUME CondInv, TypeOK, MutualExclusion, NEW t \in Thread,
         SignalClear(t) \/ SignalRestore(t) \/ BroadcastClear(t)
  PROVE  CondInv'
<1> USE DEF CondInv, CondTypeOK, CGoto
<1>1. generation' = generation /\ disciplined' = disciplined /\ pc' = pc /\ owed' = owed
  BY DEF SignalClear, SignalRestore, BroadcastClear, vars
<1>2. cond' \in [gen : Nat, one : BOOLEAN, all : BOOLEAN] /\ cond'.gen = cond.gen
  BY DEF SignalClear, SignalRestore, BroadcastClear
<1>3. \/ /\ SignalClear(t) /\ cpc[t] = "signal_clear" /\ ~cond'.one /\ cond'.all = cond.all
         /\ cpc' = [cpc EXCEPT ![t] = IF cond.one THEN "signal_wake" ELSE "none"]
      \/ /\ SignalRestore(t) /\ cpc[t] = "signal_restore" /\ cond'.one /\ cond'.all = cond.all
         /\ cpc' = [cpc EXCEPT ![t] = "none"]
      \/ /\ BroadcastClear(t) /\ cpc[t] = "broadcast_clear"
         /\ cpc' = [cpc EXCEPT ![t] = "broadcast_wake"]
  BY DEF SignalClear, SignalRestore, BroadcastClear
<1>4. /\ \A u \in Thread : u # t => cpc'[u] = cpc[u]
      /\ cpc'[t] \in {"signal_wake", "broadcast_wake", "none"}
      /\ cpc' \in [Thread -> CondLocation]
  BY <1>3 DEF CondLocation
<1>5. Waiting' = Waiting /\ CondQueued' = CondQueued
  BY <1>3, <1>4 DEF Waiting, CondQueued
<1>6. CondTypeOK' /\ GenerationOK' /\ OwedOK'
  BY <1>1, <1>2, <1>4, <1>5 DEF GenerationOK, OwedOK
<1>7. QueuedFlagged'
  BY <1>1, <1>2, <1>3, <1>4, <1>5 DEF QueuedFlagged
<1>8. ASSUME disciplined
      PROVE  /\ \A u \in Thread : InCall(u) => u = t
             /\ CallOK /\ SignalReleases /\ InCall(t)
             /\ cpc'[t] = "none" => owed[t] = {}
  BY <1>3, <1>8 DEF MutualExclusion, Has, CallOK, InCall
<1>9. ASSUME disciplined PROVE CallOK'
  BY <1>1, <1>2, <1>3, <1>4, <1>5, <1>8, <1>9 DEF CallOK, InCall
<1>10. ASSUME disciplined PROVE SignalReleases'
  <2> SUFFICES ASSUME NEW u \in Thread, NEW S \in owed[u]
               PROVE  InCall(u)' \/ \E w \in S : cpc'[w] = "registered" /\ generation[w] # cond.gen
    BY <1>1, <1>2 DEF SignalReleases
  <2>1. CASE u = t
    BY <1>4, <1>8, <1>10, <2>1 DEF InCall
  <2>2. CASE u # t
    BY <1>3, <1>4, <1>8, <1>10, <2>2 DEF SignalReleases, InCall
  <2> QED BY <2>1, <2>2
<1> QED BY <1>1, <1>6, <1>7, <1>9, <1>10

(* A call of signal or broadcast wakes one thread or all: who is left of   *)
(* those that it owes something to will not fall asleep.                   *)
LEMMA WakeCondInv ==
  ASSUME CondInv, TypeOK, MutualExclusion, NEW t \in Thread, SignalWake(t) \/ BroadcastWake(t)
  PROVE  CondInv'
<1> USE DEF CondInv, CondTypeOK, CGoto
<1>1. generation' = generation /\ disciplined' = disciplined /\ pc' = pc /\ cond' = cond
  BY DEF SignalWake, BroadcastWake, vars
<1> DEFINE Wakes(ws) ==
        /\ \/ cpc[t] = "signal_wake" /\ cpc'[t] = "signal_restore" /\ ws # {}
           \/ cpc[t] \in {"signal_wake", "broadcast_wake"} /\ cpc'[t] = "none" /\ ws = CondQueued
        /\ t \notin ws
        /\ cpc' \in [Thread -> CondLocation]
        /\ \A u \in Thread \ {t} : cpc'[u] = IF u \in ws THEN Woken(u) ELSE cpc[u]
        /\ owed' = [u \in Thread |-> {S \in owed[u] : S \cap ws = {}}]
<1>2. PICK ws \in SUBSET CondQueued : Wakes(ws)
  <2>1. CASE BroadcastWake(t)
    <3>1. /\ cpc[t] = "broadcast_wake"
          /\ cpc' = [w \in Thread |-> IF w = t THEN "none" ELSE IF w \in CondQueued THEN Woken(w) ELSE cpc[w]]
          /\ owed' = [u \in Thread |-> {S \in owed[u] : S \cap CondQueued = {}}]
      BY <2>1 DEF BroadcastWake, Released
    <3>2. t \notin CondQueued
      BY <3>1 DEF CondQueued
    <3>3. Wakes(CondQueued)
      BY <3>1, <3>2 DEF CondLocation, Woken
    <3> QED BY <3>3
  <2>2. ASSUME SignalWake(t), NEW w \in CondQueued,
               cpc' = [cpc EXCEPT ![t] = "signal_restore", ![w] = Woken(w)], Released({w})
        PROVE  Wakes({w})
    <3>1. cpc[t] = "signal_wake" /\ w \in Thread /\ w # t
      BY <2>2 DEF SignalWake, CondQueued
    <3> QED BY <2>2, <3>1 DEF CondLocation, Woken, Released
  <2>3. ASSUME SignalWake(t), CondQueued = {}, cpc' = [cpc EXCEPT ![t] = "none"], owed' = owed
        PROVE  Wakes({})
    <3>1. cpc[t] = "signal_wake"
      BY <2>3 DEF SignalWake
    <3>2. owed' = [u \in Thread |-> {S \in owed[u] : S \cap {} = {}}]
      BY <2>3
    <3> QED BY <2>3, <3>1, <3>2 DEF CondLocation
  <2> HIDE DEF Wakes
  <2>4. CASE SignalWake(t)
    <3>1. CASE \E w \in CondQueued : /\ cpc' = [cpc EXCEPT ![t] = "signal_restore", ![w] = Woken(w)]
                                     /\ Released({w})
      <4>1. PICK w \in CondQueued : /\ cpc' = [cpc EXCEPT ![t] = "signal_restore", ![w] = Woken(w)]
                                    /\ Released({w})
        BY <3>1
      <4>2. {w} \in SUBSET CondQueued /\ Wakes({w})
        BY <2>2, <2>4, <4>1
      <4> QED BY <4>2
    <3>2. CASE CondQueued = {} /\ cpc' = [cpc EXCEPT ![t] = "none"] /\ owed' = owed
      BY <2>3, <2>4, <3>2
    <3> QED BY <2>4, <3>1, <3>2 DEF SignalWake
  <2> QED BY <2>1, <2>4
<1>3. /\ cpc[t] \in {"signal_wake", "broadcast_wake"} /\ cpc'[t] \in {"signal_restore", "none"}
      /\ cpc'[t] = "none" => ws = CondQueued
      /\ cpc'[t] = "signal_restore" => cpc[t] = "signal_wake" /\ ws # {}
      /\ t \notin ws /\ ws \subseteq Thread /\ cpc' \in [Thread -> CondLocation]
  BY <1>2 DEF CondQueued
<1>4. \A u \in Thread : u # t => cpc'[u] = IF u \in ws THEN Woken(u) ELSE cpc[u]
  BY <1>2
<1>5. \A u \in Thread : owed'[u] = {S \in owed[u] : S \cap ws = {}}
  BY <1>2
<1>6. owed' \in [Thread -> SUBSET SUBSET Thread]
  BY <1>2
<1> HIDE DEF Wakes
<1>7. Waiting' = Waiting \ ws /\ CondQueued' = CondQueued \ ws
  BY <1>3, <1>4 DEF Waiting, CondQueued, Woken
<1>8. \A u \in Thread : u # t => (cpc'[u] = "registered" <=> cpc[u] = "registered")
                              /\ (InCall(u)' <=> InCall(u)) /\ (InCall(u) => cpc'[u] = cpc[u])
  BY <1>4 DEF InCall, CondQueued, Woken
<1>9. CondTypeOK' /\ GenerationOK'
  BY <1>1, <1>3, <1>6 DEF GenerationOK
<1>10. OwedOK'
  BY <1>5, <1>7 DEF OwedOK
<1>11. QueuedFlagged'
  <2> SUFFICES ASSUME CondQueued' # {} PROVE QueuedFlagged'
    BY DEF QueuedFlagged
  <2>1. CondQueued # {} /\ cpc'[t] = "signal_restore" /\ cpc[t] = "signal_wake"
    BY <1>3, <1>7
  <2>2. cond'.all \/ \E u \in Thread : cpc'[u] = "broadcast_wake"
    BY <1>1, <1>8, <2>1 DEF QueuedFlagged, InCall
  <2> QED BY <2>1, <2>2 DEF QueuedFlagged
<1>12. ASSUME disciplined
       PROVE  /\ \A u \in Thread : InCall(u) => u = t
              /\ CallOK /\ SignalReleases /\ InCall(t)
              /\ \A w \in Thread : cpc[w] = "registered" => generation[w] # cond.gen
  BY <1>3, <1>12 DEF MutualExclusion, Has, CallOK, InCall
<1>13. ASSUME disciplined PROVE CallOK'
  <2> SUFFICES ASSUME NEW u \in Thread, InCall(u)'
               PROVE  /\ pc[u] = "own" /\ cpc'[u] = "signal_restore" /\ owed'[u] = {}
                      /\ \A w \in Thread : cpc'[w] = "registered" => generation[w] # cond.gen
    BY <1>1 DEF CallOK
  <2>1. u = t /\ cpc'[t] = "signal_restore" /\ cpc[t] = "signal_wake" /\ ws # {} /\ ws \subseteq Waiting
    BY <1>3, <1>8, <1>12, <1>13 DEF InCall, Waiting, CondQueued
  <2>2. \A S \in owed[t] : Waiting \subseteq S
    BY <1>12, <1>13, <2>1 DEF CallOK
  <2>3. owed'[t] = {}
    BY <1>5, <2>1, <2>2
  <2> QED BY <1>3, <1>8, <1>12, <1>13, <2>1, <2>3 DEF CallOK
<1>14. ASSUME disciplined PROVE SignalReleases'
  <2> SUFFICES ASSUME NEW u \in Thread, NEW S \in owed'[u], ~InCall(u)'
               PROVE  \E w \in S : cpc'[w] = "registered" /\ generation[w] # cond.gen
    BY <1>1 DEF SignalReleases
  <2>1. S \in owed[u] /\ S \cap ws = {} /\ S # {} /\ S \subseteq Waiting /\ S \subseteq Thread
    BY <1>5 DEF OwedOK
  <2>2. CASE u = t
    <3>1. ws = CondQueued
      BY <1>3, <2>2 DEF InCall
    <3>2. \A w \in S : cpc[w] = "registered"
      BY <2>1, <3>1 DEF Waiting, CondQueued
    <3> QED BY <1>3, <1>8, <1>12, <1>14, <2>1, <3>2
  <2>3. CASE u # t
    <3>1. ~InCall(u)
      BY <1>8, <2>3
    <3>2. PICK w \in S : cpc[w] = "registered" /\ generation[w] # cond.gen
      BY <1>12, <1>14, <2>1, <3>1 DEF SignalReleases
    <3> QED BY <1>3, <1>8, <2>1, <3>2
  <2> QED BY <2>2, <2>3
<1> QED BY <1>1, <1>9, <1>10, <1>11, <1>13, <1>14

(* Every step preserves CondInv.                                           *)
LEMMA NextCondInv == CondInv /\ IndInv /\ [CondNext]_<<vars, cvars>> => CondInv'
<1> SUFFICES ASSUME CondInv, IndInv, [CondNext]_<<vars, cvars>> PROVE CondInv'
  OBVIOUS
<1>0. TypeOK /\ MutualExclusion
  BY DEF IndInv
<1>1. CASE UNCHANGED <<vars, cvars>>
  BY <1>1 DEF vars, cvars, CondInv, CondTypeOK, QueuedFlagged, CondQueued, GenerationOK, OwedOK, Waiting,
              CallOK, SignalReleases, InCall
<1>2. CASE CondNext
  BY <1>0, <1>2, MutexStepCondInv, WaiterCondInv, WaitReturnsCondInv, CallBeginsCondInv, FlagsCondInv,
     WakeCondInv DEF CondNext
<1> QED BY <1>1, <1>2

(* So it holds in every reachable state.                                   *)
LEMMA CondInvariance == CondSpec => []CondInv
BY CondImplementsMutex, Invariance, InitCondInv, NextCondInv, PTL DEF CondSpec

(* When signals and broadcasts are sent with the mutex held, for any       *)
(* number of threads pthread_cond_signal has, when it returns, released    *)
(* one of the threads that waited when it was called, and                  *)
(* pthread_cond_broadcast all of them, however they come together with     *)
(* time-outs, signals and threads on their way into futex_wait.            *)
THEOREM SignalReleasesHolds == CondSpec => []SignalReleases
<1>1. CondInv => SignalReleases
  BY DEF CondInv, SignalReleases
<1> QED BY <1>1, CondInvariance, PTL

(* No thread sleeps in pthread_cond_wait while a flag is off, unless the   *)
(* call that cleared it has not finished, whoever calls signal and         *)
(* broadcast, with or without the mutex.                                   *)
THEOREM SleepersFlaggedHolds == CondSpec => []SleepersFlagged
<1>1. CondInv => SleepersFlagged
  BY DEF CondInv, QueuedFlagged, CondQueued, SleepersFlagged
<1> QED BY <1>1, CondInvariance, PTL
=============================================================================
