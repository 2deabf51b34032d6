------------------------------- MODULE Futex --------------------------------
(***************************************************************************)
(* One futex: the FUTEX_WAIT and FUTEX_WAKE operations of sys$futex, with  *)
(* and without a bitset (Kernel/Syscalls/futex.cpp), and the FutexQueue    *)
(* behind it (Kernel/Tasks/FutexQueue.cpp), which is created by the first  *)
(* waiter, looked up in s_global_futex_queues and removed from there when  *)
(* it has no more waiters.                                                 *)
(*                                                                         *)
(* sys$futex runs with the big lock of the calling process, which          *)
(* block_impl gives up while the thread is blocked and takes again before  *)
(* it returns.  User space changes the futex word without any lock.  The   *)
(* futex is shared by the processes of its threads; if there is only one,  *)
(* it is what a private futex is.  Every section under a spinlock is one   *)
(* step; block_impl up to the switch to another thread is one too, as it   *)
(* is on one processor (module Blocking looks into it).                    *)
(***************************************************************************)
EXTENDS Naturals, Sequences, FiniteSets, Functions, BlockerSet

CONSTANTS Thread,       \* the threads that use the futex
          Process,      \* their processes
          ProcessOf,    \* the process of each thread
          Queue,        \* FutexQueue objects
          NoQueue,
          Nobody,       \* a free big lock
          Value,        \* values of the futex word
          Bit,          \* the bits of a bitset; all of them: MATCH_ANY
          WaitBitsets,  \* the bitsets that threads wait with
          WakeBitsets,  \* the bitsets that threads wake with
          WakeCounts    \* the numbers of threads that wakes ask for

ASSUME ThreadAssumption == IsFiniteSet(Thread)
ASSUME ProcessAssumption == ProcessOf \in [Thread -> Process]
ASSUME NobodyAssumption == Nobody \notin Thread /\ NoQueue \notin Queue
ASSUME BitsetAssumption == /\ WaitBitsets \subseteq (SUBSET Bit) \ {{}}
                           /\ WakeBitsets \subseteq (SUBSET Bit) \ {{}}
ASSUME QueueAssumption == Cardinality(Queue) > Cardinality(Thread)  \* there is memory for one
ASSUME CountAssumption == WakeCounts \subseteq Nat \ {0}

VARIABLES
    word,              \* the futex word in user memory
    futex_queues,      \* s_global_futex_queues at this futex's key
    m_imminent_waits,  \* FutexQueue::m_imminent_waits
    m_was_removed,     \* the queues whose m_was_removed is set
    m_blockers,        \* FutexQueue: the threads whose blockers it holds
    m_did_unblock,     \* the threads whose FutexBlocker is unblocked
    big_lock,          \* who holds the big lock of each process
    pc,                \* where each thread is in sys$futex
    call,              \* the arguments of its call
    queue,             \* its futex_queue
    passed             \* ghost: <<t, u>> if a wake by u has passed over t,
                       \* though the word was no longer what t waits for

queueVars == <<futex_queues, m_imminent_waits, m_was_removed, m_blockers>>
vars == <<word, queueVars, m_did_unblock, big_lock, pc, call, queue, passed>>

NoCall == [op |-> "none"]

Init ==
    /\ word \in Value
    /\ futex_queues = NoQueue
    /\ m_imminent_waits = [q \in Queue |-> 0]
    /\ m_was_removed = {}
    /\ m_blockers = [q \in Queue |-> <<>>]
    /\ m_did_unblock = {}
    /\ big_lock = [p \in Process |-> Nobody]
    /\ pc = [t \in Thread |-> "user"]
    /\ call = [t \in Thread |-> NoCall]
    /\ queue = [t \in Thread |-> NoQueue]
    /\ passed = {}

Goto(t, l) == pc' = [pc EXCEPT ![t] = l]

(* The wait of t is over, or starts over.                                  *)
Forget(t) == {e \in passed : e[1] # t}

(* User space stores to the word.                                          *)
Store(v) ==
    /\ word # v
    /\ word' = v
    /\ UNCHANGED <<queueVars, m_did_unblock, big_lock, pc, call, queue, passed>>

-----------------------------------------------------------------------------
(* The big lock.                                                           *)

BigLock(t) == big_lock[ProcessOf[t]]
Acquire(t) == /\ BigLock(t) = Nobody
              /\ big_lock' = [big_lock EXCEPT ![ProcessOf[t]] = t]
Release(t) == big_lock' = [big_lock EXCEPT ![ProcessOf[t]] = IF @ = t THEN Nobody ELSE @]

(* Mutant: the system call does not need the big lock.                     *)
EnterUnlocked(t, c, l) ==
    /\ pc[t] = "user"
    /\ call' = [call EXCEPT ![t] = c]
    /\ Goto(t, l)
    /\ UNCHANGED <<word, queueVars, m_did_unblock, big_lock, queue, passed>>

Enter(t, c, l) ==
    /\ pc[t] = "user"
    /\ Acquire(t)
    /\ call' = [call EXCEPT ![t] = c]
    /\ Goto(t, l)
    /\ UNCHANGED <<word, queueVars, m_did_unblock, queue, passed>>

(* sys$futex returns: the reference to the queue goes, and the big lock.   *)
Return(t) ==
    /\ Release(t)
    /\ call' = [call EXCEPT ![t] = NoCall]
    /\ queue' = [queue EXCEPT ![t] = NoQueue]
    /\ Goto(t, "user")

-----------------------------------------------------------------------------
(* FutexQueue.                                                             *)

is_empty_and_no_imminent_waits(q) == m_imminent_waits[q] = 0 /\ m_blockers[q] = <<>>

(* Mutant: imminent waits do not keep a queue from being removed.          *)
TryRemoveEmpty(q) == q \notin m_was_removed /\ m_blockers[q] = <<>>

try_remove(q) == q \notin m_was_removed /\ is_empty_and_no_imminent_waits(q)

(* remove_futex_queue                                                      *)
RemoveQueue ==
    IF futex_queues # NoQueue /\ try_remove(futex_queues)
    THEN /\ m_was_removed' = m_was_removed \cup {futex_queues}
         /\ futex_queues' = NoQueue
    ELSE UNCHANGED <<m_was_removed, futex_queues>>

(* Memory for a new FutexQueue: an object that nobody refers to.           *)
Referenced(q) == q = futex_queues \/ \E t \in Thread : queue[t] = q
Unreferenced == {q \in Queue : ~Referenced(q)}

-----------------------------------------------------------------------------
(* do_wait                                                                 *)

WaitEnter(t, v, b) == Enter(t, [op |-> "wait", val |-> v, bitset |-> b], "load")

WaitLoad(t) ==
    /\ pc[t] = "load"
    /\ IF word = call[t].val
       THEN Goto(t, "find") /\ UNCHANGED <<big_lock, call, queue>>
       ELSE Return(t)
    /\ passed' = Forget(t)
    /\ UNCHANGED <<word, queueVars, m_did_unblock>>

(* Mutant: the creator of a queue queues its imminent wait, too.           *)
WaitFindCountsTwice(t) ==
    /\ pc[t] = "find"
    /\ \/ /\ futex_queues # NoQueue
          /\ queue' = [queue EXCEPT ![t] = futex_queues]
          /\ UNCHANGED queueVars
       \/ /\ futex_queues = NoQueue
          /\ \E q \in Unreferenced :
                /\ futex_queues' = q
                /\ m_imminent_waits' = [m_imminent_waits EXCEPT ![q] = 1]
                /\ m_blockers' = [m_blockers EXCEPT ![q] = <<>>]
                /\ m_was_removed' = m_was_removed \ {q}
                /\ queue' = [queue EXCEPT ![t] = q]
    /\ Goto(t, "queue")
    /\ UNCHANGED <<word, m_did_unblock, big_lock, call, passed>>

(* find_futex_queue, which may create the queue, with one imminent wait.   *)
WaitFind(t) ==
    /\ pc[t] = "find"
    /\ \/ /\ futex_queues # NoQueue
          /\ queue' = [queue EXCEPT ![t] = futex_queues]
          /\ Goto(t, "queue")
          /\ UNCHANGED queueVars
       \/ /\ futex_queues = NoQueue
          /\ \E q \in Unreferenced :
                /\ futex_queues' = q
                /\ m_imminent_waits' = [m_imminent_waits EXCEPT ![q] = 1]
                /\ m_blockers' = [m_blockers EXCEPT ![q] = <<>>]
                /\ m_was_removed' = m_was_removed \ {q}
                /\ queue' = [queue EXCEPT ![t] = q]
          /\ Goto(t, "block")
    /\ UNCHANGED <<word, m_did_unblock, big_lock, call, passed>>

(* queue_imminent_wait; do_wait starts over if the queue was removed.      *)
QueueImminentWait(t) ==
    /\ pc[t] = "queue"
    /\ IF queue[t] \in m_was_removed
       THEN Goto(t, "load") /\ UNCHANGED m_imminent_waits
       ELSE /\ m_imminent_waits' = [m_imminent_waits EXCEPT ![queue[t]] = @ + 1]
            /\ Goto(t, "block")
    /\ UNCHANGED <<word, futex_queues, m_was_removed, m_blockers, m_did_unblock,
                   big_lock, call, queue, passed>>

(* wait_on: should_add_blocker; if it agrees the thread is Blocked, and    *)
(* gives up the big lock.                                                  *)
Block(t) ==
    /\ pc[t] = "block"
    /\ m_imminent_waits' = [m_imminent_waits EXCEPT ![queue[t]] = @ - 1]
    /\ m_did_unblock' = m_did_unblock \ {t}
    /\ IF queue[t] \in m_was_removed
       THEN Goto(t, "check") /\ UNCHANGED <<m_blockers, big_lock>>
       ELSE /\ m_blockers' = [m_blockers EXCEPT ![queue[t]] = Append(@, t)]
            /\ Release(t)
            /\ Goto(t, "blocked")
    /\ UNCHANGED <<word, futex_queues, m_was_removed, call, queue, passed>>

(* The timeout passes, or a signal comes: the thread can run.              *)
Interrupt(t) ==
    /\ pc[t] = "blocked"
    /\ Goto(t, "relock")
    /\ UNCHANGED <<word, queueVars, m_did_unblock, big_lock, call, queue, passed>>

(* relock_process, and only then the guard of block_impl: finalize().      *)
Relock(t) ==
    /\ pc[t] = "relock"
    /\ Acquire(t)
    /\ Goto(t, "finalize")
    /\ UNCHANGED <<word, queueVars, m_did_unblock, call, queue, passed>>

(* Mutant: the imminent wait is withdrawn a second time.                   *)
FinalizeWithdraws(t) ==
    /\ pc[t] = "finalize"
    /\ m_blockers' = [m_blockers EXCEPT ![queue[t]] = remove_blocker(@, t)]
    /\ m_imminent_waits' = [m_imminent_waits EXCEPT ![queue[t]] = @ - 1]
    /\ Goto(t, "check")
    /\ UNCHANGED <<word, futex_queues, m_was_removed, m_did_unblock, big_lock, call, queue, passed>>

Finalize(t) ==
    /\ pc[t] = "finalize"
    /\ m_blockers' = [m_blockers EXCEPT ![queue[t]] = remove_blocker(@, t)]
    /\ Goto(t, "check")
    /\ UNCHANGED <<word, futex_queues, m_imminent_waits, m_was_removed, m_did_unblock,
                   big_lock, call, queue, passed>>

(* Mutant: a waiter leaves an empty queue behind.                          *)
CheckForgets(t) ==
    /\ pc[t] = "check"
    /\ Return(t)
    /\ passed' = Forget(t)
    /\ UNCHANGED <<word, queueVars, m_did_unblock>>

(* Nobody else waits: the queue is to be removed.                          *)
Check(t) ==
    /\ pc[t] = "check"
    /\ IF is_empty_and_no_imminent_waits(queue[t])
       THEN Goto(t, "remove") /\ UNCHANGED <<big_lock, call, queue>>
       ELSE Return(t)
    /\ passed' = Forget(t)
    /\ UNCHANGED <<word, queueVars, m_did_unblock>>

WaitRemove(t) ==
    /\ pc[t] = "remove"
    /\ RemoveQueue
    /\ Return(t)
    /\ UNCHANGED <<word, m_imminent_waits, m_blockers, m_did_unblock, passed>>

-----------------------------------------------------------------------------
(* do_wake                                                                 *)

WakeEnter(t, n, b) == Enter(t, [op |-> "wake", count |-> n, bitset |-> b], "wake_find")

(* The threads that have found the word as they expected and are not woken *)
(* yet.                                                                    *)
Committed == {t \in Thread : pc[t] \in {"find", "queue", "block", "blocked"}}

(* Those of them that a wake with this bitset should wake, because the     *)
(* word has changed.                                                       *)
Due(b) == {t \in Committed : word # call[t].val /\ call[t].bitset \cap b # {}}

WakeFind(t) ==
    /\ pc[t] = "wake_find"
    /\ IF futex_queues = NoQueue
       THEN /\ Return(t)
            /\ passed' = passed \cup (Due(call[t].bitset) \X {t})
       ELSE /\ queue' = [queue EXCEPT ![t] = futex_queues]
            /\ Goto(t, "wake")
            /\ UNCHANGED <<big_lock, call, passed>>
    /\ UNCHANGED <<word, queueVars, m_did_unblock>>

(* m_bitset: do_wait(0) for FUTEX_WAIT, which is what FUTEX_WAIT_BITSET    *)
(* with all bits is turned into.                                           *)
m_bitset(t) == IF call[t].bitset = Bit THEN {} ELSE call[t].bitset

(* FutexBlocker::unblock or, with a bitset, unblock_bitset.                *)
Unblocks(b, t) == t \notin m_did_unblock /\ (b = Bit \/ m_bitset(t) \cap b # {})

(* wake_n: a thread that a timeout or a signal has unblocked already       *)
(* counts, too.                                                            *)
WakeN(t) ==
    /\ pc[t] = "wake"
    /\ LET q == queue[t]
           due == {u \in Range(m_blockers[q]) : Unblocks(call[t].bitset, u)}
           scan == UnblockBlockers(m_blockers[q], due, call[t].count)
           woken == Range(scan.taken)
           is_empty == m_imminent_waits[q] = 0 /\ scan.left = <<>>
           next == [u \in Thread |-> IF u \in woken /\ pc[u] = "blocked" THEN "relock" ELSE pc[u]]
       IN  /\ m_blockers' = [m_blockers EXCEPT ![q] = scan.left]
           /\ m_did_unblock' = m_did_unblock \cup woken
           /\ passed' = IF Len(scan.taken) < call[t].count
                        THEN passed \cup ((Due(call[t].bitset) \ woken) \X {t}) ELSE passed
           /\ IF is_empty
              THEN /\ pc' = [next EXCEPT ![t] = "wake_remove"]
                   /\ UNCHANGED <<big_lock, call, queue>>
              ELSE /\ pc' = [next EXCEPT ![t] = "user"]
                   /\ Release(t)
                   /\ call' = [call EXCEPT ![t] = NoCall]
                   /\ queue' = [queue EXCEPT ![t] = NoQueue]
    /\ UNCHANGED <<word, futex_queues, m_imminent_waits, m_was_removed>>

WakeRemove(t) ==
    /\ pc[t] = "wake_remove"
    /\ RemoveQueue
    /\ Return(t)
    /\ UNCHANGED <<word, m_imminent_waits, m_blockers, m_did_unblock, passed>>

-----------------------------------------------------------------------------
Next ==
    \/ \E v \in Value : Store(v)
    \/ \E t \in Thread :
          \/ \E v \in Value, b \in WaitBitsets : WaitEnter(t, v, b)
          \/ WaitLoad(t)
          \/ WaitFind(t)
          \/ QueueImminentWait(t)
          \/ Block(t)
          \/ Interrupt(t)
          \/ Relock(t)
          \/ Finalize(t)
          \/ Check(t)
          \/ WaitRemove(t)
          \/ \E n \in WakeCounts, b \in WakeBitsets : WakeEnter(t, n, b)
          \/ WakeFind(t)
          \/ WakeN(t)
          \/ WakeRemove(t)

Spec == Init /\ [][Next]_vars

-----------------------------------------------------------------------------
(* Properties.                                                             *)

(* The types; m_imminent_waits never goes below zero, as                   *)
(* should_add_blocker VERIFYs.                                             *)
TypeOK ==
    /\ word \in Value
    /\ futex_queues \in Queue \cup {NoQueue}
    /\ m_imminent_waits \in [Queue -> Nat]
    /\ m_was_removed \subseteq Queue
    /\ m_blockers \in [Queue -> Seq(Thread)]
    /\ m_did_unblock \subseteq Thread
    /\ big_lock \in [Process -> Thread \cup {Nobody}]
    /\ pc \in [Thread -> {"user", "load", "find", "queue", "block", "blocked", "relock",
                          "finalize", "check", "remove", "wake_find", "wake", "wake_remove"}]
    /\ queue \in [Thread -> Queue \cup {NoQueue}]
    /\ passed \subseteq Thread \X Thread

(* A thread that waits, or has announced that it will, does so on the very *)
(* queue that the next wake will find: the removal of an empty queue never *)
(* strands a waiter on an object that is no longer in the table.           *)
QueueReachable ==
    \A t \in Thread :
        \/ pc[t] = "block"
        \/ pc[t] = "blocked" /\ t \notin m_did_unblock
        => futex_queues = queue[t] /\ queue[t] \notin m_was_removed

Imminent(q) == {t \in Thread : pc[t] = "block" /\ queue[t] = q}

(* m_imminent_waits counts exactly the threads between queue_imminent_wait *)
(* (or the creation of the queue) and should_add_blocker.                  *)
ImminentCounted ==
    \A q \in Queue : Referenced(q) => m_imminent_waits[q] = Cardinality(Imminent(q))

(* No queue is leaked: when every thread is back in user space the table   *)
(* has no entry.                                                           *)
NothingLeaked == (\A t \in Thread : pc[t] = "user") => futex_queues = NoQueue

(* The comparison of the word and the start of the wait are atomic with    *)
(* respect to the wakes of the process: no thread stays blocked that a     *)
(* thread of its own process has passed over after the word had changed.   *)
NoMissedWakeInProcess ==
    \A e \in passed : ProcessOf[e[1]] = ProcessOf[e[2]] => pc[e[1]] # "blocked"

(* The same with respect to all wakes, as the man page says.               *)
NoMissedWake == \A e \in passed : pc[e[1]] # "blocked"
=============================================================================
