---------------------------- MODULE PthreadMutex ----------------------------
(***************************************************************************)
(* The pthread mutex of LibC (Userland/Libraries/LibC/                     *)
(* pthread_integration.cpp) on a private futex: pthread_mutex_lock,        *)
(* pthread_mutex_trylock, pthread_mutex_unlock and the pessimistic lock    *)
(* that the condition variables use, for normal and for recursive mutexes. *)
(*                                                                         *)
(* Every access to the mutex's words is a step of its own.  Of the futex   *)
(* it is used that a thread only falls asleep if the word has the value it *)
(* passed, atomically as far as wakes are concerned (module Futex,         *)
(* NoMissedWakeInProcess), that a signal may end its sleep, and that a     *)
(* wake may be spent on a thread that was interrupted and has not left the *)
(* queue yet.                                                              *)
(***************************************************************************)
EXTENDS Naturals, FiniteSets

CONSTANTS Thread,
          NoThread,
          MaxLevel       \* bound: how often a recursive mutex is locked again

ASSUME ThreadAssumption == NoThread \notin Thread
ASSUME LevelAssumption == MaxLevel \in Nat

VARIABLES
    type,     \* __PTHREAD_MUTEX_NORMAL or _RECURSIVE, fixed by the attributes
    with_cond,  \* does anybody use a condition variable with the mutex?
    lock,     \* MUTEX_UNLOCKED, .._NO_NEED_TO_WAKE or .._NEED_TO_WAKE
    owner,    \* of a recursive mutex
    level,    \* of a recursive mutex
    pc,       \* where each thread is in the functions
    value,    \* its local variable: what it last found in lock
    pess,     \* the threads in the pessimistic lock
    depth     \* ghost: how often each thread has locked the mutex

kind == <<type, with_cond>>
vars == <<kind, lock, owner, level, pc, value, pess, depth>>

Type == {"NORMAL", "RECURSIVE"}
Recursive == type = "RECURSIVE"

UNLOCKED == 0
NO_NEED_TO_WAKE == 1
NEED_TO_WAKE == 2

Init ==
    /\ type \in Type
    /\ with_cond \in BOOLEAN
    /\ lock = UNLOCKED
    /\ owner = NoThread
    /\ level = 0
    /\ pc = [t \in Thread |-> "out"]
    /\ value = [t \in Thread |-> UNLOCKED]
    /\ pess = {}
    /\ depth = [t \in Thread |-> 0]

Goto(t, l) == pc' = [pc EXCEPT ![t] = l]

(* The caller does not have the mutex, or has it, it is recursive, and it  *)
(* locks it once more.                                                     *)
MayLock(t) == pc[t] = "out" \/ (Recursive /\ pc[t] = "own" /\ level < MaxLevel)

-----------------------------------------------------------------------------
(* pthread_mutex_lock and, as far as it does not return EBUSY,             *)
(* pthread_mutex_trylock.                                                  *)

(* The compare-and-exchange succeeds.                                      *)
LockFast(t) ==
    /\ MayLock(t)
    /\ lock = UNLOCKED
    /\ lock' = NO_NEED_TO_WAKE
    /\ Goto(t, "acquired")
    /\ UNCHANGED <<kind, owner, level, value, pess, depth>>

(* It fails and says what it has found.                                    *)
LockBusy(t) ==
    /\ MayLock(t)
    /\ lock # UNLOCKED
    /\ value' = [value EXCEPT ![t] = lock]
    /\ Goto(t, IF Recursive THEN "check_owner" ELSE "slow")
    /\ UNCHANGED <<kind, lock, owner, level, pess, depth>>

(* Mutant: any owner will do.                                              *)
CheckOwnerAnybody(t) ==
    /\ pc[t] = "check_owner"
    /\ IF owner # NoThread
       THEN /\ level' = level + 1
            /\ depth' = [depth EXCEPT ![t] = @ + 1]
            /\ Goto(t, "own")
       ELSE Goto(t, "slow") /\ UNCHANGED <<level, depth>>
    /\ UNCHANGED <<kind, lock, owner, value, pess>>

(* A thread that is the owner of the recursive mutex has it once more.     *)
CheckOwner(t) ==
    /\ pc[t] = "check_owner"
    /\ IF owner = t
       THEN /\ level' = level + 1
            /\ depth' = [depth EXCEPT ![t] = @ + 1]
            /\ Goto(t, "own")
       ELSE Goto(t, "slow") /\ UNCHANGED <<level, depth>>
    /\ UNCHANGED <<kind, lock, owner, value, pess>>

(* The slow path records that there is somebody to wake.                   *)
SlowPath(t) ==
    /\ pc[t] = "slow"
    /\ Goto(t, IF value[t] # NEED_TO_WAKE THEN "exchange" ELSE "wait")
    /\ UNCHANGED <<kind, lock, owner, level, value, pess, depth>>

(* Mutant: the thread that gets the mutex does not set the flag.           *)
ExchangeKeepsFlagOff(t) ==
    /\ pc[t] = "exchange"
    /\ value' = [value EXCEPT ![t] = lock]
    /\ lock' = IF lock = UNLOCKED THEN NO_NEED_TO_WAKE ELSE NEED_TO_WAKE
    /\ Goto(t, IF lock = UNLOCKED THEN "acquired" ELSE "wait")
    /\ UNCHANGED <<kind, owner, level, pess, depth>>

(* The exchange before and in the loop.                                    *)
Exchange(t) ==
    /\ pc[t] = "exchange"
    /\ value' = [value EXCEPT ![t] = lock]
    /\ lock' = NEED_TO_WAKE
    /\ Goto(t, IF lock = UNLOCKED THEN "acquired" ELSE "wait")
    /\ UNCHANGED <<kind, owner, level, pess, depth>>

(* The threads in the queue of the futex.                                  *)
Queued == {s \in Thread : pc[s] \in {"asleep", "interrupted"}}

(* The value passed to futex_wait.                                         *)
Expected(t) == IF t \in pess THEN value[t] ELSE NEED_TO_WAKE

(* futex_wait: EAGAIN if the word is another one.                          *)
FutexWait(t) ==
    /\ pc[t] = "wait"
    /\ Goto(t, IF lock = Expected(t) THEN "asleep" ELSE "exchange")
    /\ UNCHANGED <<kind, lock, owner, level, value, pess, depth>>

(* A signal interrupts futex_wait ...                                      *)
Interrupt(t) ==
    /\ pc[t] = "asleep"
    /\ Goto(t, "interrupted")
    /\ UNCHANGED <<kind, lock, owner, level, value, pess, depth>>

(* ... and t leaves the queue of the futex.                                *)
LeaveQueue(t) ==
    /\ pc[t] = "interrupted"
    /\ Goto(t, "exchange")
    /\ UNCHANGED <<kind, lock, owner, level, value, pess, depth>>

(* owner and level are set by the thread that has the mutex.               *)
SetOwner(t) ==
    /\ pc[t] = "acquired"
    /\ owner' = IF Recursive THEN t ELSE owner
    /\ level' = 0
    /\ depth' = [depth EXCEPT ![t] = @ + 1]
    /\ pess' = pess \ {t}
    /\ Goto(t, "own")
    /\ UNCHANGED <<kind, lock, value>>

(* __pthread_mutex_lock_pessimistic_np, by a thread without the mutex.     *)
LockPessimistic(t) ==
    /\ with_cond
    /\ pc[t] = "out"
    /\ pess' = pess \cup {t}
    /\ Goto(t, "exchange")
    /\ UNCHANGED <<kind, lock, owner, level, value, depth>>

-----------------------------------------------------------------------------
(* pthread_mutex_unlock, by the thread that has the mutex.                 *)

(* Mutant: an unlock without a nested lock counts as nested.               *)
UnlockUnderflows(t) ==
    /\ pc[t] = "own"
    /\ depth' = [depth EXCEPT ![t] = @ - 1]
    /\ IF Recursive
       THEN /\ level' = level - 1
            /\ UNCHANGED <<owner, pc>>
       ELSE /\ Goto(t, "release")
            /\ UNCHANGED <<owner, level>>
    /\ UNCHANGED <<kind, lock, value, pess>>

(* Mutant: the last unlock but one releases the mutex.                     *)
UnlockEarly(t) ==
    /\ pc[t] = "own"
    /\ depth' = [depth EXCEPT ![t] = @ - 1]
    /\ IF Recursive /\ level > 1
       THEN /\ level' = level - 1
            /\ UNCHANGED <<owner, pc>>
       ELSE /\ owner' = IF Recursive THEN NoThread ELSE owner
            /\ Goto(t, "release")
            /\ UNCHANGED level
    /\ UNCHANGED <<kind, lock, value, pess>>

Unlock(t) ==
    /\ pc[t] = "own"
    /\ depth' = [depth EXCEPT ![t] = @ - 1]
    /\ IF Recursive /\ level > 0
       THEN /\ level' = level - 1
            /\ UNCHANGED <<owner, pc>>
       ELSE /\ owner' = IF Recursive THEN NoThread ELSE owner
            /\ Goto(t, "release")
            /\ UNCHANGED level
    /\ UNCHANGED <<kind, lock, value, pess>>

(* Mutant: nobody is woken.                                                *)
ReleaseSilently(t) ==
    /\ pc[t] = "release"
    /\ value' = [value EXCEPT ![t] = lock]
    /\ lock' = UNLOCKED
    /\ Goto(t, "out")
    /\ UNCHANGED <<kind, owner, level, pess, depth>>

Release(t) ==
    /\ pc[t] = "release"
    /\ value' = [value EXCEPT ![t] = lock]
    /\ lock' = UNLOCKED
    /\ Goto(t, IF lock = NEED_TO_WAKE THEN "wake" ELSE "out")
    /\ UNCHANGED <<kind, owner, level, pess, depth>>

(* futex_wake(&mutex->lock, 1): one thread of the queue, if there is one.  *)
FutexWake(t) ==
    /\ pc[t] = "wake"
    /\ \/ \E s \in Queued : pc' = [pc EXCEPT ![t] = "out", ![s] = "exchange"]
       \/ /\ Queued = {}
          /\ Goto(t, "out")
    /\ UNCHANGED <<kind, lock, owner, level, value, pess, depth>>

-----------------------------------------------------------------------------
Next == \E t \in Thread :
          \/ LockFast(t) \/ LockBusy(t) \/ CheckOwner(t) \/ SlowPath(t)
          \/ Exchange(t) \/ FutexWait(t) \/ SetOwner(t)
          \/ Interrupt(t) \/ LeaveQueue(t)
          \/ LockPessimistic(t)
          \/ Unlock(t) \/ Release(t) \/ FutexWake(t)

Spec == Init /\ [][Next]_vars

(* A thread inside the functions goes on, and one that has the mutex       *)
(* unlocks it in the end, however often it has it nested on the way;       *)
(* nobody has to lock it, and no signal has to come.                       *)
Progress(t) ==
    \/ CheckOwner(t) \/ SlowPath(t) \/ Exchange(t) \/ FutexWait(t) \/ LeaveQueue(t)
    \/ SetOwner(t) \/ Unlock(t) \/ Release(t) \/ FutexWake(t)

FairSpec ==
    /\ Spec
    /\ \A t \in Thread :
         /\ WF_vars(Progress(t))
         /\ \A d \in 1..MaxLevel + 1 : SF_vars(depth[t] = d /\ Unlock(t))

-----------------------------------------------------------------------------
(* Properties.                                                             *)

Location == {"out", "check_owner", "slow", "exchange", "wait", "asleep",
             "interrupted", "acquired", "own", "release", "wake"}

(* The types.                                                              *)
TypeOK ==
    /\ type \in Type
    /\ with_cond \in BOOLEAN
    /\ lock \in {UNLOCKED, NO_NEED_TO_WAKE, NEED_TO_WAKE}
    /\ owner \in Thread \cup {NoThread}
    /\ level \in 0..MaxLevel
    /\ pc \in [Thread -> Location]
    /\ value \in [Thread -> {UNLOCKED, NO_NEED_TO_WAKE, NEED_TO_WAKE}]
    /\ pess \subseteq Thread
    /\ depth \in [Thread -> 0..MaxLevel + 1]

(* t has the mutex: from the exchange that got it to the one that gives it *)
(* back, and while it locks it again.                                      *)
Has(t) == pc[t] \in {"acquired", "own", "release"} \/ (pc[t] = "check_owner" /\ owner = t)

(* Mutual exclusion, and the word tells whether anybody has the mutex.     *)
MutualExclusion ==
    /\ \A t, u \in Thread : Has(t) /\ Has(u) => t = u
    /\ lock # UNLOCKED <=> \E t \in Thread : Has(t)

(* A recursive mutex is released by exactly as many unlocks as there were  *)
(* locks: level, which only the owner may look at, counts the nested ones. *)
LevelsBalanced ==
    \A t \in Thread :
        depth[t] = IF pc[t] = "own" \/ (pc[t] = "check_owner" /\ owner = t)
                   THEN level + 1 ELSE 0

(* While somebody sleeps, the word says that the next unlock has to wake,  *)
(* or somebody is on the way to wake a thread or to set that flag: nobody  *)
(* sleeps next to a free mutex or one whose holder does not know.          *)
SleepersKnown ==
    (\E s \in Thread : pc[s] = "asleep") =>
        \/ lock = NEED_TO_WAKE
        \/ \E t \in Thread : \/ pc[t] \in {"wake", "exchange", "interrupted"}
                             \/ pc[t] = "slow" /\ value[t] # NEED_TO_WAKE

(* The same for a mutex that is only used with pthread_mutex_lock, trylock *)
(* and unlock.                                                             *)
NoSleeperForgotten == ~with_cond => SleepersKnown

(* As long as threads want such a mutex and those that have it unlock it,  *)
(* it goes on being acquired.                                              *)
SomebodyGetsIt ==
    ~with_cond /\ (\E t \in Thread : pc[t] = "asleep")
        ~> (\E t \in Thread : pc[t] = "acquired")
=============================================================================
