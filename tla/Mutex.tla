------------------------------- MODULE Mutex --------------------------------
(***************************************************************************)
(* Kernel::Mutex (Kernel/Locking/Mutex.{h,cpp}) with the part of Thread    *)
(* it blocks and wakes threads with (Thread::block(Mutex&),                *)
(* Thread::unblock_from_mutex in Kernel/Tasks/Thread.cpp).                 *)
(*                                                                         *)
(* Every member function runs under the spinlock m_lock, so it is one      *)
(* atomic action, except that a function that blocks gives up m_lock in    *)
(* the middle: it is the action that queues the thread and marks it        *)
(* Blocked, followed, after some other thread's unblock_waiters has handed *)
(* the lock to it, by the action Resume that takes m_lock again, removes   *)
(* the thread from the list and returns.  Between the two the thread is    *)
(* still in the list although it already owns the mutex.                   *)
(*                                                                         *)
(* m_behavior "Regular" is every mutex of the kernel, "BigLock" is         *)
(* Process::m_big_lock, the only one force_unlock_exclusive_if_locked and  *)
(* restore_exclusive_lock are used on; it is never locked in shared mode.  *)
(***************************************************************************)
EXTENDS Naturals, Sequences, FiniteSets

CONSTANTS Thread,       \* the threads that use the mutex
          NoThread,     \* a null m_holder
          MaxLocks,     \* bound: how often one thread nests its locks
          Upgrades      \* TRUE: a thread that holds the mutex shared may ask
                        \* for it exclusively (documented to deadlock)

ASSUME ThreadAssumption == IsFiniteSet(Thread) /\ NoThread \notin Thread
ASSUME MaxLocksAssumption == MaxLocks \in Nat \ {0}
ASSUME UpgradesAssumption == Upgrades \in BOOLEAN

VARIABLES
    m_behavior,        \* "Regular" or "BigLock", fixed by the constructor
    m_mode,            \* "Unlocked", "Shared", "Exclusive"
    m_times_locked,    \* number of locks that have not been unlocked
    m_holder,          \* the exclusive holder, or NoThread
    m_shared_holders,  \* number of shared locks
    exclusive,         \* lists.exclusive or, of a big lock,
                       \* lists.exclusive_big_lock: a sequence of threads
    shared,            \* lists.shared, always served as a whole: a set
    m_blocking_mutex,  \* the threads whose m_blocking_mutex is this mutex
    m_lock_requested_count,  \* [Thread -> Nat]
    want,              \* the mode a thread that is blocked or was woken wants
    held,              \* locks the thread has taken and not yet released
    pc                 \* where the thread is, see Location

mutexVars == <<m_mode, m_times_locked, m_holder, m_shared_holders>>
listVars == <<exclusive, shared>>
threadVars == <<m_blocking_mutex, m_lock_requested_count, want, held, pc>>
vars == <<m_behavior, mutexVars, listVars, threadVars>>

Behavior == {"Regular", "BigLock"}
Mode == {"Unlocked", "Shared", "Exclusive"}

(* "outside": not in a function of the mutex.  "blocked": in Thread::block *)
(* and waiting.  "woken": unblock_from_mutex was called for it, and it has *)
(* not yet taken m_lock again.  "yielded": it gave up the big lock before  *)
(* yielding and has to restore it (Thread::relock_process).                *)
Location == {"outside", "blocked", "woken", "yielded"}

(* The modes lock() is called with: the big lock is only locked exclusively *)
Requestable == IF m_behavior = "BigLock" THEN {"Exclusive"}
               ELSE {"Shared", "Exclusive"}

Waiting(t) == pc[t] \in {"blocked", "woken"}

(* The list without t (IntrusiveList::remove).                             *)
Without(s, t) ==
    LET i == CHOOSE j \in DOMAIN s : s[j] = t
    IN  [j \in 1 .. (Len(s) - 1) |-> IF j < i THEN s[j] ELSE s[j + 1]]

Init ==
    /\ m_behavior \in Behavior
    /\ m_mode = "Unlocked"
    /\ m_times_locked = 0
    /\ m_holder = NoThread
    /\ m_shared_holders = 0
    /\ exclusive = <<>>
    /\ shared = {}
    /\ m_blocking_mutex = {}
    /\ m_lock_requested_count = [t \in Thread |-> 0]
    /\ want = [t \in Thread |-> "Unlocked"]
    /\ held = [t \in Thread |-> 0]
    /\ pc = [t \in Thread |-> "outside"]

-----------------------------------------------------------------------------
(* Blocking and waking.                                                    *)

(* Mutex::block up to the point where Thread::block has released m_lock.   *)
Block(t, mode, requested_locks) ==
    /\ exclusive' = IF mode = "Exclusive" THEN Append(exclusive, t) ELSE exclusive
    /\ shared' = IF mode = "Shared" THEN shared \cup {t} ELSE shared
    /\ m_blocking_mutex' = m_blocking_mutex \cup {t}
    /\ m_lock_requested_count' = [m_lock_requested_count EXCEPT ![t] = requested_locks]
    /\ want' = [want EXCEPT ![t] = mode]
    /\ pc' = [pc EXCEPT ![t] = "blocked"]
    /\ UNCHANGED <<mutexVars, held>>

(* Thread::unblock_from_mutex for every thread of S.                       *)
UnblockFromMutex(S) ==
    m_blocking_mutex' = m_blocking_mutex \ S

(* A thread that has been unblocked is runnable and will resume.           *)
Wake(S, pc0) == [t \in Thread |-> IF t \in S THEN "woken" ELSE pc0[t]]

(* Mutant: the woken readers are counted as one.                           *)
UnblockSharedCountsOne(pc0) ==
    /\ shared # {}
    /\ m_mode' = "Shared"
    /\ m_shared_holders' = 1
    /\ m_times_locked' = 1
    /\ m_holder' = NoThread
    /\ UnblockFromMutex(shared)
    /\ pc' = Wake(shared, pc0)

(* Hand the mutex to all of lists.shared.  Each of them asked for one lock *)
(* (only Mutex::lock blocks in shared mode).                               *)
UnblockShared(pc0) ==
    /\ shared # {}
    /\ m_mode' = "Shared"
    /\ m_shared_holders' = Cardinality(shared)
    /\ m_times_locked' = Cardinality(shared)
    /\ m_holder' = NoThread
    /\ UnblockFromMutex(shared)
    /\ pc' = Wake(shared, pc0)

(* Mutant: the thread that came last is served first.                      *)
UnblockExclusiveLast(pc0) ==
    LET last == exclusive[Len(exclusive)]
    IN  /\ exclusive # <<>>
        /\ m_mode' = "Exclusive"
        /\ m_holder' = last
        /\ m_times_locked' = m_lock_requested_count[last]
        /\ m_shared_holders' = 0
        /\ UnblockFromMutex({last})
        /\ pc' = Wake({last}, pc0)

(* Hand the mutex to the first of lists.exclusive.                         *)
UnblockExclusive(pc0) ==
    /\ exclusive # <<>>
    /\ m_mode' = "Exclusive"
    /\ m_holder' = Head(exclusive)
    /\ m_times_locked' = m_lock_requested_count[Head(exclusive)]
    /\ m_shared_holders' = 0
    /\ UnblockFromMutex({Head(exclusive)})
    /\ pc' = Wake({Head(exclusive)}, pc0)

NobodyToUnblock(pc0) ==
    /\ m_mode' = "Unlocked"
    /\ m_holder' = NoThread
    /\ m_times_locked' = 0
    /\ m_shared_holders' = 0
    /\ UNCHANGED m_blocking_mutex
    /\ pc' = pc0

(* Mutant: after an exclusive owner only readers are looked for.           *)
UnblockWaitersNoFallback(previous_mode, pc0) ==
    IF previous_mode = "Exclusive"
    THEN IF shared # {} THEN UnblockShared(pc0) ELSE NobodyToUnblock(pc0)
    ELSE IF exclusive # <<>> THEN UnblockExclusive(pc0) ELSE NobodyToUnblock(pc0)

(* Mutant: writers always go first.                                        *)
UnblockWaitersWritersFirst(previous_mode, pc0) ==
    IF exclusive # <<>> THEN UnblockExclusive(pc0)
    ELSE IF shared # {} THEN UnblockShared(pc0)
    ELSE NobodyToUnblock(pc0)

(* Mutex::unblock_waiters: called when the last lock was given up, with    *)
(* m_times_locked and m_shared_holders 0 and no holder.  After an          *)
(* exclusive owner readers go first, after readers a writer.  "pc0" is     *)
(* where the threads are once the calling thread has done its part.        *)
UnblockWaiters(previous_mode, pc0) ==
    IF m_behavior = "BigLock" \/ shared = {} \/ previous_mode = "Shared"
    THEN IF exclusive # <<>> THEN UnblockExclusive(pc0)
         ELSE IF shared # {} THEN UnblockShared(pc0)
         ELSE NobodyToUnblock(pc0)
    ELSE UnblockShared(pc0)

-----------------------------------------------------------------------------
(* Mutex::lock(mode)                                                       *)

LockUnlocked(t, mode) ==
    /\ m_mode = "Unlocked"
    /\ m_mode' = mode
    /\ m_holder' = IF mode = "Exclusive" THEN t ELSE NoThread
    /\ m_shared_holders' = IF mode = "Shared" THEN m_shared_holders + 1
                           ELSE m_shared_holders
    /\ m_times_locked' = m_times_locked + 1
    /\ held' = [held EXCEPT ![t] = @ + 1]
    /\ UNCHANGED <<listVars, m_blocking_mutex, m_lock_requested_count, want, pc>>

(* Mutant: any thread may lock again what is locked exclusively.           *)
LockRecursiveAnybody(t) ==
    /\ m_mode = "Exclusive"
    /\ m_times_locked' = m_times_locked + 1
    /\ held' = [held EXCEPT ![t] = @ + 1]
    /\ UNCHANGED <<m_mode, m_holder, m_shared_holders, listVars,
                   m_blocking_mutex, m_lock_requested_count, want, pc>>

(* The exclusive holder locks again, in whatever mode it asks for.         *)
LockRecursive(t) ==
    /\ m_mode = "Exclusive"
    /\ m_holder = t
    /\ m_times_locked' = m_times_locked + 1
    /\ held' = [held EXCEPT ![t] = @ + 1]
    /\ UNCHANGED <<m_mode, m_holder, m_shared_holders, listVars,
                   m_blocking_mutex, m_lock_requested_count, want, pc>>

(* A reader joins the readers, whether or not a writer is waiting.         *)
LockShared(t, mode) ==
    /\ m_mode = "Shared"
    /\ mode = "Shared"
    /\ m_times_locked' = m_times_locked + 1
    /\ m_shared_holders' = m_shared_holders + 1
    /\ held' = [held EXCEPT ![t] = @ + 1]
    /\ UNCHANGED <<m_mode, m_holder, listVars,
                   m_blocking_mutex, m_lock_requested_count, want, pc>>

LockBlocks(t, mode) ==
    /\ \/ m_mode = "Exclusive" /\ m_holder # t
       \/ m_mode = "Shared" /\ mode = "Exclusive" /\ (held[t] = 0 \/ Upgrades)
    /\ Block(t, mode, 1)

Lock(t, mode) ==
    /\ pc[t] = "outside"
    /\ held[t] < MaxLocks
    /\ \/ LockUnlocked(t, mode)
       \/ LockRecursive(t)
       \/ LockShared(t, mode)
       \/ LockBlocks(t, mode)
    /\ UNCHANGED m_behavior

(* The second half of Mutex::block, once Thread::block has returned, and   *)
(* the return from the function that called it.                            *)
Resume(t) ==
    /\ pc[t] = "woken"
    /\ exclusive' = IF want[t] = "Exclusive" THEN Without(exclusive, t) ELSE exclusive
    /\ shared' = IF want[t] = "Shared" THEN shared \ {t} ELSE shared
    /\ held' = [held EXCEPT ![t] = @ + m_lock_requested_count[t]]
    /\ m_lock_requested_count' = [m_lock_requested_count EXCEPT ![t] = 0]
    /\ pc' = [pc EXCEPT ![t] = "outside"]
    /\ UNCHANGED <<m_behavior, mutexVars, m_blocking_mutex, want>>

(* Mutant: the waiters are served when t has given up its own last lock.   *)
UnlockOwnLast(t) ==
    /\ pc[t] = "outside"
    /\ held[t] > 0
    /\ held' = [held EXCEPT ![t] = @ - 1]
    /\ IF held[t] = 1
       THEN UnblockWaiters(m_mode, pc)
       ELSE /\ m_times_locked' = m_times_locked - 1
            /\ m_shared_holders' = IF m_mode = "Shared" THEN m_shared_holders - 1
                                   ELSE m_shared_holders
            /\ UNCHANGED <<m_mode, m_holder, m_blocking_mutex, pc>>
    /\ UNCHANGED <<m_behavior, listVars, m_lock_requested_count, want>>

(* Mutant: m_shared_holders goes down in exclusive mode too.               *)
UnlockAlwaysShared(t) ==
    /\ pc[t] = "outside"
    /\ held[t] > 0
    /\ held' = [held EXCEPT ![t] = @ - 1]
    /\ IF m_times_locked = 1
       THEN UnblockWaiters(m_mode, pc)
       ELSE /\ m_times_locked' = m_times_locked - 1
            /\ m_shared_holders' = m_shared_holders - 1
            /\ UNCHANGED <<m_mode, m_holder, m_blocking_mutex, pc>>
    /\ UNCHANGED <<m_behavior, listVars, m_lock_requested_count, want>>

(* Mutex::unlock: one of the locks t holds.                                *)
Unlock(t) ==
    /\ pc[t] = "outside"
    /\ held[t] > 0
    /\ held' = [held EXCEPT ![t] = @ - 1]
    /\ IF m_times_locked = 1
       THEN UnblockWaiters(m_mode, pc)
       ELSE /\ m_times_locked' = m_times_locked - 1
            /\ m_shared_holders' = IF m_mode = "Shared" THEN m_shared_holders - 1
                                   ELSE m_shared_holders
            /\ UNCHANGED <<m_mode, m_holder, m_blocking_mutex, pc>>
    /\ UNCHANGED <<m_behavior, listVars, m_lock_requested_count, want>>

-----------------------------------------------------------------------------
(* The big lock around a thread switch.                                    *)

(* Mutex::force_unlock_exclusive_if_locked by a thread that holds the big  *)
(* lock m_times_locked times.  A thread that blocks or yields remembers    *)
(* how often (lock_count_to_restore, here in m_lock_requested_count); one  *)
(* that dies does not come back, and its name stands for a new thread.     *)
ForceUnlock(t, after) ==
    /\ m_behavior = "BigLock"
    /\ pc[t] = "outside"
    /\ m_mode = "Exclusive"
    /\ m_holder = t
    /\ held' = [held EXCEPT ![t] = 0]
    /\ m_lock_requested_count' =
         [m_lock_requested_count EXCEPT ![t] = IF after = "yielded" THEN m_times_locked ELSE 0]
    /\ UnblockWaiters("Exclusive", [pc EXCEPT ![t] = after])
    /\ UNCHANGED <<m_behavior, listVars, want>>

(* Mutant: the lock is restored over its present holder.                   *)
RestoreTakesAnyway(t) ==
    /\ m_mode' = "Exclusive"
    /\ m_holder' = t
    /\ m_times_locked' = m_times_locked + m_lock_requested_count[t]
    /\ held' = [held EXCEPT ![t] = @ + m_lock_requested_count[t]]
    /\ m_lock_requested_count' = [m_lock_requested_count EXCEPT ![t] = 0]
    /\ pc' = [pc EXCEPT ![t] = "outside"]
    /\ UNCHANGED <<m_shared_holders, listVars, m_blocking_mutex, want>>

(* Mutex::restore_exclusive_lock from Thread::relock_process.              *)
RestoreTakes(t) ==
    /\ m_mode = "Unlocked" \/ m_holder = t
    /\ m_mode' = "Exclusive"
    /\ m_holder' = t
    /\ m_times_locked' = m_times_locked + m_lock_requested_count[t]
    /\ held' = [held EXCEPT ![t] = @ + m_lock_requested_count[t]]
    /\ m_lock_requested_count' = [m_lock_requested_count EXCEPT ![t] = 0]
    /\ pc' = [pc EXCEPT ![t] = "outside"]
    /\ UNCHANGED <<m_shared_holders, listVars, m_blocking_mutex, want>>

RestoreBlocks(t) ==
    /\ m_mode = "Exclusive"
    /\ m_holder # t
    /\ Block(t, "Exclusive", m_lock_requested_count[t])

Restore(t) ==
    /\ m_behavior = "BigLock"
    /\ pc[t] = "yielded"
    /\ RestoreTakes(t) \/ RestoreBlocks(t)
    /\ UNCHANGED m_behavior

-----------------------------------------------------------------------------
Next == \E t \in Thread :
          \/ \E mode \in Requestable : Lock(t, mode)
          \/ Resume(t)
          \/ Unlock(t)
          \/ \E after \in {"yielded", "outside"} : ForceUnlock(t, after)
          \/ Restore(t)

Spec == Init /\ [][Next]_vars

(* A thread that was made runnable runs again; a thread that yielded comes *)
(* back; and a critical section is finite: a thread that again and again   *)
(* holds just one lock gives it up some time (MutexLocker unlocks when its *)
(* scope ends).                                                            *)
Fairness == \A t \in Thread :
              /\ WF_vars(Resume(t))
              /\ WF_vars(Restore(t))
              /\ WF_vars(Unlock(t))
              /\ SF_vars(held[t] = 1 /\ Unlock(t))

FairSpec == Spec /\ Fairness
-----------------------------------------------------------------------------
(* Properties.                                                             *)

(* The locks t owns: the ones its callers hold and, from the moment        *)
(* unblock_waiters has handed it the mutex, the ones it asked for.         *)
Owned(t) == held[t] + (IF pc[t] = "woken" THEN m_lock_requested_count[t] ELSE 0)

owned == [t \in Thread |-> Owned(t)]

(* All the locks that "own" counts, one element for each.                  *)
TokensOf(own) == {e \in Thread \X (1 .. MaxLocks) : e[2] <= own[e[1]]}

(* The types of the members of Mutex and of the threads' own state.        *)
TypeOK ==
    /\ m_behavior \in Behavior
    /\ m_mode \in Mode
    /\ m_times_locked \in Nat
    /\ m_holder \in Thread \cup {NoThread}
    /\ m_shared_holders \in Nat
    /\ exclusive \in Seq(Thread)
    /\ shared \in SUBSET Thread
    /\ m_blocking_mutex \in SUBSET Thread
    /\ m_lock_requested_count \in [Thread -> 0 .. MaxLocks]
    /\ want \in [Thread -> Mode]
    /\ held \in [Thread -> 0 .. MaxLocks]
    /\ pc \in [Thread -> Location]

(* Two threads own the mutex at the same time only in shared mode, counting *)
(* a thread as an owner from the hand-off in unblock_waiters on and not     *)
(* only when it runs again.                                                *)
MutualExclusion ==
    \A t, u \in Thread :
        t # u /\ Owned(t) > 0 /\ Owned(u) > 0 => m_mode = "Shared"

(* The mode, the holder and the counters of the mutex agree with the locks *)
(* the threads own: what the VERIFYs of lock(), unlock() and               *)
(* restore_exclusive_lock() check of m_holder, m_times_locked and          *)
(* m_shared_holders, and the comment on m_holder in Mutex.h.               *)
CountsAgree ==
    /\ m_mode = "Unlocked" =>
         /\ m_times_locked = 0 /\ m_shared_holders = 0 /\ m_holder = NoThread
         /\ \A t \in Thread : Owned(t) = 0
    /\ m_mode = "Exclusive" =>
         /\ m_shared_holders = 0
         /\ m_holder \in Thread
         /\ m_times_locked = Owned(m_holder)
         /\ m_times_locked > 0
         /\ \A t \in Thread \ {m_holder} : Owned(t) = 0
    /\ m_mode = "Shared" =>
         /\ m_holder = NoThread
         /\ m_times_locked = m_shared_holders
         /\ m_times_locked = Cardinality(TokensOf(owned))
         /\ m_times_locked > 0

(* A thread that unblock_waiters has woken finds the mutex in the mode it  *)
(* asked for when it gets to run, however long that takes and whatever the *)
(* other threads do meanwhile (VERIFY(m_mode == mode) after block()), and  *)
(* unblock_from_mutex is only ever called for threads that wait for this   *)
(* mutex (VERIFY(m_blocking_mutex == &mutex)).                             *)
HandOff ==
    \A t \in Thread :
        /\ pc[t] = "woken" => m_mode = want[t] /\ m_lock_requested_count[t] > 0
        /\ pc[t] = "blocked" <=> t \in m_blocking_mutex

(* No lost wake-up: the mutex is never unlocked while a thread is in one   *)
(* of its lists, and a reader only waits while somebody owns the mutex     *)
(* exclusively.                                                            *)
NoWaiterLeftBehind ==
    /\ m_mode = "Unlocked" => exclusive = <<>> /\ shared = {}
    /\ \A t \in Thread :
         pc[t] = "blocked" /\ want[t] = "Shared" => m_mode = "Exclusive"

(* Nobody becomes the exclusive holder while the thread that has waited    *)
(* longest for exclusive access goes on waiting: lock() and                *)
(* restore_exclusive_lock() never overtake lists.exclusive.                *)
NoBarging ==
    [][ \A t \in Thread :
          exclusive # <<>> /\ t = Head(exclusive) /\ pc[t] = "blocked"
             /\ pc'[t] = "blocked" /\ m_holder' # m_holder
          => m_holder' = NoThread ]_vars

(* The mutex implements a readers-writer lock: see module RWLock.          *)
Lock_ == INSTANCE RWLock
            WITH mode <- m_mode, owned <- owned
ImplementsRWLock == Lock_!Spec

(* Every thread that waits for the big lock gets it: its list is first in, *)
(* first out, and a thread that unlocks and locks again goes to its end.   *)
(* Every thread that waits to share a regular mutex gets to share it,      *)
(* whatever mixture of readers and writers uses the mutex.  (A writer may  *)
(* wait forever behind readers that keep joining: LockShared does not look *)
(* at lists.exclusive.)                                                    *)
EveryWaiterServed ==
    \A t \in Thread :
        pc[t] = "blocked" /\ (m_behavior = "BigLock" \/ want[t] = "Shared")
           ~> pc[t] = "outside" /\ held[t] > 0
=============================================================================
