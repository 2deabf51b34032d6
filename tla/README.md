# A TLA+ verification of MixUpOS

MixUpOS is a Unix-like operating system: a multi-threaded kernel (`Kernel/`), a C library
(`Userland/Libraries/LibC`), the AK support library, and a large userland. This directory holds
TLA+ models of the parts on which everything else waits: the kernel's mutex, the blocking and
waking of threads, the futex, the mutex, condition variable and semaphore that LibC builds on it;
and of two parts that have to keep their promises under faults: anonymous memory with
copy-on-write, and TCP. TLC checks the models on small instances and TLAPS proves the most
important results for every instance.

## 1. Inventory

| component | state | operations | what makes it hard | what makes it correct |
|---|---|---|---|---|
| Kernel mutex (`Kernel/Locking/Mutex.cpp`) | mode, holder, two counters, lists of blocked threads | `lock`, `unlock`, `force_unlock_exclusive_if_locked`, `restore_exclusive_lock` | ownership is handed to threads that run much later; recursion; the big lock is dropped at every block and restored with its count | exclusion, counters that agree with the owners, no waiter next to an unlocked mutex, service in order |
| Blocking and waking (`Thread::block_impl`, `Blocker`, `BlockerSet`, `DeprecatedWaitQueue`) | thread state, `m_blocker`, flags of the blocker, the queue | block, wake, deferred wake, timer, signal, death | wakes, timers, signals and interrupts race with a blocker that lives on a stack; two spinlocks | no lost wake-up, no dangling blocker, results that say what happened |
| Futex (`sys$futex`, `FutexQueue`) | table of queues, imminent waits, blockers, big locks | wait, wake, their bitset forms, requeue, wake-op | the word changes without a lock; a queue is created and removed while others look at it | no missed wake, no waiter on a removed queue, no leaked queue |
| LibC mutex (`pthread_integration.cpp`) | the word, owner, level | lock, trylock, unlock, pessimistic lock | atomic operations of many threads, a flag that tells whether to wake | exclusion, balanced recursion, no forgotten sleeper |
| LibC semaphore (`semaphore.cpp`) | count and `POST_WAKES` in one word | post, wait, timedwait, trywait | the responsibility for waking moves between posters and sleepers | no forgotten sleeper, slots are taken |
| LibC condition variables (`pthread_cond.cpp`) | generation and two flags in one word | wait, timedwait, signal, broadcast | a waiter that has unlocked the mutex and does not sleep yet; flags cleared and put back around a wake | a signal releases one of the waiting threads, no sleeper without its flag |
| `pthread_once`, thread creation, cancellation, keys | | | small clients of the futex | |
| Thread states, signals, join, finalizer | state, pending signals, joiner | stop, continue, dispatch, join, die | signals at any time, threads joined while they die | no thread is joined twice or leaked |
| Scheduler | ready queues, bit mask | enqueue, dequeue, pick, yield | several processors | a runnable thread is in exactly one queue |
| Wait queues and work queues | list of waiters; list of work items | wait_until, notify; queue, run | notify between check and wait | no lost notification, every item runs once |
| Timer queue | sorted lists, expired list | add, cancel, fire | cancelling a timer that is firing | a callback never runs after cancel returned |
| Pipes, double buffers | two halves, readers, writers | open, read, write, close | rendezvous of open, swap of halves | bytes in order, end of file once |
| File system layer | inodes, custodies, advisory locks | open, lock, unlink | lock conflicts, blocking locks | no conflicting locks |
| TCP (`TCPSocket.cpp`, `NetworkTask.cpp`) | connection state, sequence numbers, unacknowledged packets | connect, send, receive, retransmit, close | lost, repeated, reordered packets, delayed acknowledgements, timers | the stream arrives whole and in order, nothing is acknowledged unreceived, a sender gets through or gives up |
| Local sockets | queues, buffers | connect, accept, send | | |
| Anonymous memory (`AnonymousVMObject.cpp`, `Region.cpp`, `MemoryManager.cpp`) | page slots, committed pages, copy-on-write maps, global counters | mmap, fork, fault, madvise, purge, unmap | faults look at an object several times while others fork, purge and copy; reference counts decide what is copied | every committed page has one owner, reserved memory can be filled, processes do not see each other's writes |
| Drivers, AK, libraries, services, applications | | | hardware, data transformation, user interfaces | |

How they interact: a system call runs with the **big lock** of its process, which is a kernel
mutex; `Thread::block_impl` gives it up when the thread blocks and restores it afterwards. The
futex is a system call whose waiters block through `block_impl` on a `FutexQueue`, which is a
`BlockerSet`. The LibC mutex, condition variable and semaphore are user-space algorithms over one
futex word each; a condition variable also uses its caller's mutex. A page fault takes the lock of
the memory object and the counters of the memory manager; the network task runs the packet handlers,
delayed acknowledgements and retransmissions of every TCP socket under the socket's mutex.
`PROJECT.json` lists every component with its sources, and under `hazards` what is hard to test,
at the line where it bites.

## 2. Modules

| module | models | state and actions |
|---|---|---|
| `RWLock` | what a mutex promises: an abstract readers-writer lock | `mode` and `owned`; acquire and release |
| `Mutex` | `Kernel/Locking/Mutex.cpp`, `Thread::unblock_from_mutex`, `relock_process` | the members under their own names; `held` and `pc` per thread; `Lock`, `Resume`, `Unlock`, `ForceUnlock`, `Restore` |
| `MutexProofs` | proofs about `Mutex` | |
| `BlockerSet` | the list of a `BlockerSet`: what `unblock_all_blockers_whose_conditions_are_met` and `remove_blocker` leave of it | operators only, used by `Futex` |
| `BlockerSetProofs` | what these operators do to a list of any length, and the induction it takes | |
| `Blocking` | `Thread::block_impl`, `Blocker`, `BlockerSet`, `DeprecatedWaitQueue` | the two spinlocks are explicit; one action per section between lock operations |
| `BlockingProofs` | proofs about `Blocking` | |
| `Futex` | `futex.cpp`, `FutexQueue.cpp` | one futex; one action per section under a spinlock; big locks; `passed` is a ghost |
| `FutexProofs` | proofs about `Futex` | |
| `PthreadMutex` | `pthread_mutex_*` | one action per access to the words; `depth` is a ghost |
| `PthreadCond` | `pthread_cond_*`, composed with `PthreadMutex` (`EXTENDS`) | one action per access to `cond->value` or futex call, interleaved with the mutex's own; `owed` is a ghost |
| `PthreadProofs` | proofs about `PthreadMutex` and `PthreadCond` | |
| `Semaphore` | `sem_*` on unnamed semaphores | one action per access to `sem->value` |
| `SemaphoreProofs` | proofs about `Semaphore` | |
| `AnonymousMemory` | `AnonymousVMObject`, the write faults of `Region`, the counters of `MemoryManager` | one record per object; `Create`, `Clone`, `Destroy`, `SetVolatile`, `SetNonVolatile`, `Purge`; a fault in up to three steps |
| `AnonymousMemoryProofs` | proofs about `AnonymousMemory` | |
| `TCP` | `TCPSocket` and `handle_tcp` of two machines, and the network between them | one record per socket; one action per delivered packet, timer or call; `sent`, `received` and `jumped` are ghosts |
| `TCPProofs` | proofs about `TCP` | |
| `MC*` | instances for TLC: sets of model values, symmetry | |

`Mutex` instantiates `RWLock`, and `PthreadCond` extends `PthreadMutex`; the other models are stacked
by their interfaces. `Mutex` takes blocking and waking of
its waiters as one step each, since they happen under its spinlock. `Futex` takes `block_impl` up to
the switch to another thread as one step, which is what it is on one processor; `Blocking` looks
into it. `PthreadMutex` and `Semaphore` take the futex as an atomic compare-and-sleep, which is what
`NoMissedWakeInProcess` establishes for threads of one process, and let a wake be spent on a thread
that a signal has already woken, which is what `Futex` and `Blocking` show to be possible. A
process-shared semaphore is therefore outside what `Semaphore` covers.

**Mutex.** A blocked thread stays in its list from `block()` until it runs again, although
`unblock_waiters` has made it an owner before; `pc` is "blocked" and then "woken". `lists.exclusive`
stands for `lists.exclusive_big_lock` as well: a mutex uses one of them. `MaxLocks` bounds the nesting
of one thread, in the guard of `Lock`. `m_behavior` is a variable that `Init` chooses and nothing
changes: one run covers regular mutexes and big locks.

**Blocking.** With `SMP = FALSE` a processor that holds a spinlock is not preempted, so only one
actor can be between two lock operations (`CanRun`); with `SMP = TRUE` all can. That is the difference
the kernel's `smp=on` makes. A wake may come from an interrupt handler, and is deferred then.

**Futex.** `Queue` holds the `FutexQueue` objects; one that nobody refers to can be allocated again.
`Value` has two values, so that the word can change and change back.

**PthreadMutex.** `MaxLevel` bounds the nested locks of a recursive mutex. `type` and `with_cond` are
chosen by `Init` and never change: the type of the mutex, and whether a condition variable is used
with it, in which case threads also take it through the pessimistic lock.

**PthreadCond.** Every thread locks, waits, signals and broadcasts. `disciplined`, chosen by `Init`, says
whether callers of signal and broadcast have the mutex. `owed` remembers for each call of signal the
set of threads that were waiting when it began, one of which it has to release, and for a broadcast
each of them. `MaxGeneration` bounds the calls of signal and broadcast, so that the generation does
not wrap. A sleep ends by a wake, by a signal, after which the waiter locks the mutex as after a wake
(`sys$futex` returns 0), or by the time-out, which alone makes it return without the mutex (`Woken`).
`FUTEX_REQUEUE` is called with a wake count of 2^32 - 1 and wakes the whole queue.

**AnonymousMemory.** An object is mapped by one region; `writable` is what its page table lets the
process write to. There is one processor, as the kernel starts unless it is told `smp=on`, so what runs
under a spinlock is one action: `sys$fork` clones and remaps each region under the address space's. A
page fault runs with interrupts enabled. It reads the slot and keeps a reference to the page
(`FaultBegin`), looks whether the page is to be copied (`FaultCheck`), and handles the fault under the
object's lock (`FaultZero`, `FaultCow`) or, if it has found no reason for it, looks into the page table
(`FaultVerify`); between these anything may happen. Reference counts are not a variable: `References`
counts the slots and faults that refer to a page. `panic` says why the system has stopped, and in whose
fault: a VERIFY, the PANIC of `handle_fault`, an allocation that purges an object while it holds the
spinlock that freeing a page takes ("purge"), or a munmap that waits for a fault with interrupts
disabled ("unmap"); nothing happens afterwards. `MaxMixed` bounds the objects that exist at once if one of
them is purgeable, `MaxBusy` those that exist when a second fault begins; in the proofs both are arbitrary.

**TCP.** Packets stay in the network for ever, and so may arrive never, once, often and in any order.
A packet with data carries one byte; sequence numbers are relative to the initial ones and do not
wrap. `plan`, chosen by `Init` from `Plans`, bounds what the two processes do, and says who writes
through a non-blocking descriptor, for which `can_write` ignores the window. `did_receive` may refuse
any packet, since the buffer may be full. What the processes could have done but leave no trace on
the wire (accepting the connection, closing a socket that is closed already) is not an action: a
process may stop acting at any time. The listening socket is the state "new" of the server's side.

**Semaphore.** The word is a record of the count and the flag. `MaxCount` bounds the count at which
`sem_post` is called.

Definitions whose comment begins with "Mutant" are wrong variants of the definition that follows.
No specification uses them: they are there to be put in its place, to see a property fail.

## 3. Runs

| run | instance | shows |
|---|---|---|
| `mutex` | 4 threads, nested twice, upgrades allowed, both behaviours | safety, refinement of `RWLock`, and `EveryWaiterServed` (readers of a regular mutex, everybody who waits for the big lock) |
| `blocking` | 2 threads, 1 waker, one processor | `NoDanglingBlocker`, `BlockedIffBlocker`, `NoLostWakeup`, `ResultTruthful`, and, under fairness, `UnblockedReturns`, `TimedWaitReturns` |
| `blocking_lost_wakeup` | 2 threads, 2 wakers, several processors | violation: a wake between registration and `begin_blocking` is lost |
| `futex` | 2 threads of one process, 1 of another, 4 queues | `QueueReachable`, `ImminentCounted`, `NothingLeaked`, `NoMissedWakeInProcess` |
| `futex_missed` | the same, without bitsets | violation: a wake by another process is missed |
| `pthread_mutex` | 3 threads, both types, one nested lock, with and without condition variables | `MutualExclusion`, `LevelsBalanced`, `NoSleeperForgotten`, `SomebodyGetsIt` |
| `pthread_mutex_pessimistic` | 3 threads | violation: the pessimistic lock can sleep on a mutex nobody knows it waits for |
| `pthread_cond` | 3 threads, 2 generations | `MutualExclusion` across waits, `SignalReleases`, `SleepersFlagged` |
| `semaphore` | 4 threads, 2 slots | `ResponsibilityKept`, `NoSleeperForgotten`, `SlotsAreTaken` |
| `anonymous_memory` | 3 pages, 3 objects of 2 pages, 2 faulting threads | `Accounting`, `LazyBacked`, `CowIsolation`, `PanicExplained` |
| `anonymous_memory_commit` | the same | violation: the pages committed by a fork do not last |
| `tcp` | 4 plans, window of 1, 1 repetition | `StreamPrefix`, `AckedWasReceived`, `SenderFinishes` |

Why the bounds are enough. Three actors are what it takes for one to interfere between the two
others: an owner, a waiter and a third that overtakes; a fourth gives two waiters of each kind. Two
nested locks tell a recursion from its absence and a count from a flag. Two slots are the smallest
number at which a woken thread has to wake another one. Four futex queues are one more than there
are threads to refer to them. Two generations let a signal overtake a waiter and a second one find
the flags as the first left them. Three pages for objects of two make the system run out of memory
while a page is shared; three objects are a parent, its child and a second child or grandchild; two
threads let one fault be overtaken by another. (A second fault begins only while there are at most two
objects; a fork then adds the third.) Of the TCP plans one lets two packets (of a
non-blocking writer, past the window) and a FIN overtake each other, one has data and acknowledgements in
both directions with a writer that waits for the window, and two have either side or both closing
around a packet. The invariants that are proved do not depend on bounds at all.

Deadlock is checked in every passing run except `mutex`, where a thread that upgrades its own shared
lock waits for itself, as the comment in `Mutex::lock` says; `anonymous_memory`, which stops after a
panic; and `tcp`, which stops when the plans are carried out. `NothingLeaked` and the
states in which nobody is in the functions are reached, so the invariants are not vacuous; every
property has a mutant of the code that breaks it (`mutants` in `PROJECT.json`).

### Fairness

* `Mutex`: a thread that was made runnable runs, a thread that yielded comes back, and critical
  sections are finite (`MutexLocker` unlocks at the end of its scope). The last needs strong fairness
  for the outermost unlock, since a thread may lock again inside; the scheduler is round-robin within
  a priority and every runnable thread gets its turn.
* `Blocking`: a wake that has begun and a deferred call, which nothing preempts, are carried out (weak
  fairness). A thread in `block_impl` that can go on again and again does so, and so does an armed
  timer: strong fairness, since others may get the processor or the spinlock first any number of
  times, and the scheduler gives every runnable thread its turn. Nothing makes wakes or signals come.
* `PthreadMutex`, `Semaphore`: a thread inside the functions goes on, and a thread that has the
  mutex unlocks it. Nobody has to call a function and no signal has to come. `SlotsAreTaken` excepts
  behaviours in which `sem_post` goes on for ever: its compare-and-exchange loop is lock-free but not
  wait-free, and TLC shows how one thread can lose the race for the word again and again.
* `TCP`: the network task's loop calls `retransmit_tcp_packets` at least every 500 ms, so a packet that
  waits for its acknowledgement is sent again when its interval is over (weak fairness of
  `Retransmit`). No packet has to arrive and no process has to do anything.
* `PthreadCond` and `AnonymousMemory` state safety only.

## 4. Proofs

Every theorem holds for all values of the constants that satisfy the ASSUMEs of its module, which are
about types only: finite sets of threads, bounds that are natural numbers, null values that are not
members of the sets. Hypotheses beyond that are part of the theorem and named below. TLC checked
every inductive invariant on the instances of section 3 before it was proved.

**Kernel mutex** (`MutexProofs`: any number of threads, any nesting, both values of `m_behavior`).
`IndInv` is `TypeOK`, `ListsOK`, `RequestsOK`, `BigLockExclusive`, `CountsAgree`, `HandOff` and
`NoWaiterLeftBehind`. `CountsAgree` is not inductive alone: that unlocking a shared mutex leaves a
correct count needs the locks that woken threads own but do not use yet, so the proof counts tokens,
one for every lock owned (`TokensOf`), and shows that every action adds or removes exactly the ones
it adds to or subtracts from `m_times_locked`. `ListsOK` says who is in which list and that a list
holds each thread once: without it `unblock_waiters` could wake a thread twice. Theorems:
`TypeCorrect`, `CountsCorrect`, `MutualExclusionHolds`, `HandOffHolds`, `NoWaiterLeftBehindHolds`; the action
property `NoBargingHolds`; and the refinement `ImplementsRWLockHolds`, in which a lock that is granted is
`Enter`, an unlock `Leave` or, if it is the last, `LeaveLast` with the hand-off of `unblock_waiters`
(lemma `HandOver`), and blocking and resuming are stutters. That the last unlock is `LeaveLast` for one
lock is `LastUnlock`, again by counting tokens.

**Blocking** (`BlockingProofs`: any threads, any wakers). `BlockInv` is inductive for one processor and for
several: who holds which lock, that a blocker is in the list once and only while its thread is in
`block_impl`, and that the blocker a waker is about to unblock stays at its place while the waker
has the queue's lock. It gives `TypeCorrect`, `NoDanglingBlockerHolds` and `BlockedIffBlockerHolds`.
`ProcessorInv` adds what one processor guarantees: the two locks are never held together, a thread begins
to wait with a fresh blocker, and whoever is Runnable has a reason recorded. `NoLostWakeupHolds` and
`ResultTruthfulHolds` follow, under the hypothesis `~SMP`; the run `blocking_lost_wakeup` shows that the
first is false without it.

**Futex** (`FutexProofs`: any number of threads, processes, values, bitsets and queues). `QueueInv` says that a
thread in `sys$futex` has its process's big lock unless it is switched away (`LockOK`), that a
queue somebody refers to is the one in the table or was removed from it (`ReferenceOK`), that exactly
the waiting threads are in the lists (`BlockersOK`), that the queue in the table has a waiter that will
yet look whether to remove it (`Responsible`), and that the wakes of a process act on the queue its
threads wait on (`WakesOwn`). Theorems: `TypeCorrect`, `QueueReachableHolds`, `ImminentCountedHolds`,
`NothingLeakedHolds`, and `NoMissedWakeHolds` under the hypothesis `BitsetsMatch`: the futex is not used with both
FUTEX_WAIT and FUTEX_WAKE_BITSET. That combination is an observation of section 5: `sys$futex` gives
FUTEX_WAIT the bitset 0, and TLC shows that such a wake passes the waiter over.

The lists of `BlockerSet` are scanned by a recursive function. `BlockerSetProofs` shows by induction on
the length that a scan keeps order and multiplicity, takes what it should and not more. The
induction is stated for sets of natural numbers (`Induct`, from the well-foundedness of <), since the
provers cannot instantiate an induction principle for predicates; the same lemma serves `TCPProofs`
and `AnonymousMemoryProofs`.

**LibC mutex and condition variable** (`PthreadProofs`: any set of threads, any depth, any number of
generations). For the mutex `IndInv` adds `OwnerOK` to the type invariant, `MutualExclusion` and
`LevelsBalanced`: `owner` names a thread only while it has the mutex and is past setting it, which is why
a thread that reads its own name there may take the mutex without the word. Theorems: `TypeCorrect`,
`MutualExclusionHolds`, `LevelsBalancedHolds` and `NoSleeperForgottenHolds`, whose property is about
mutexes that no condition variable uses (`~with_cond`); the run `pthread_mutex_pessimistic` shows that
this is needed. `CondImplementsMutex` proves that the composed specification implements the mutex's own, so that
those results hold below a condition variable without a new proof. `CondInv` then says that both flags
are set while threads are in the queue, or their clearing is still under way (`QueuedFlagged`), that only
waiting threads are owed a wake (`OwedOK`), and, if calls are made with the mutex, that a call is alone and whoever
has registered before it will not fall asleep (`CallOK`). Theorems: `SignalReleasesHolds`,
`SleepersFlaggedHolds`.

**Semaphore** (`SemaphoreProofs`: any finite set of threads, any `MaxCount`). `IndInv` is `TypeOK`, `LocalsOK` (a
thread in the queue has set `responsible_for_waking`; one that wakes others has found more than one
slot) and `ResponsibilityKept`. For `NoSleeperForgottenHolds` it is joined by `SlotsCovered`: while the flag is
set and threads sleep, each free slot has an awake thread that has slept, or a thread is about to
clear the flag or to wake others for the slots. Theorems: `TypeCorrect`, `ResponsibilityKeptHolds`,
`NoSleeperForgottenHolds`.

**Anonymous memory** (`AnonymousMemoryProofs`: any finite sets of pages, objects, slots and threads; one
shared set more than objects, so that a fork finds one). `MemoryInv` is `TypeOK`, `Accounting`,
`PanicExplained` and `Sound`. `Sound` says of each object that the pages committed for it cover its
lazy slots, that nothing is committed for one that has zero slots or is volatile, and that the page
table of one that is not purgeable allows writing to exactly the slots that are not to be copied
(`RecordOK`); of each fault that what it remembers of such an object still holds at its next step
(`FaultOK`), which is what keeps the VERIFYs true: a page that was there is there, a lazy slot is lazy or
filled; only that it need not be copied may have become false, by a fork; and of each pair of objects that a page of the
one which the other refers to as well is marked in its copy-on-write map (`CopiedBy`). Most operations
change one object, so the lemmas `ChangeObject`, `AddObject`, `DropObjects` and `ChangeFault` say once what such a
change has to preserve. `Accounting` compares sums over objects and shared sets with the counters; a sum
is shown, by induction on the size of the set, to be the number of its tokens <<x, 1>> ... <<x, f[x]>>,
after which the facts about cardinalities apply (`SumIsTokens`). `SettleStep` reduces each action to two
things: the objects that it leaves are sound, and what it takes and gives back agrees with what becomes
used and free. `CowSetLeft` shows that a fork always finds a shared set. Theorems: `MemoryTypeCorrect`,
`AccountingHolds`, `LazyBackedHolds`, `CowIsolationHolds`, `PanicExplainedHolds`. As in the runs, `CowIsolation`
and `PanicExplained` except purgeable objects, and `PanicExplained` allows the PANIC after a fork and says
nothing of the two waits that never end, "purge" and "unmap" (section 5).

**TCP** (`TCPProofs`: any plans, window and limits). Packets are never removed from the network, so the
invariant speaks of all that were ever sent: a packet with data says what its sender wrote at that
number, a FIN comes after everything (`PacketOK`); the next byte that a side expects is the one after
those it has received (`InStepAt`); what waits for an acknowledgement is covered by the number that the
code compares with (`UnackedOK`); and a byte that was written is still waiting or has been received
(`NothingLost`), because no packet acknowledges more than was received (`AcksOK`). Theorems: `StreamPrefixHolds`,
`AckedWasReceivedHolds`. Both properties except the side that left SynReceived with another number than the
one it waited for (`jumped`, see section 5), and only what that side receives; a client may write at once.

Only model-checked: the liveness properties `EveryWaiterServed`, `UnblockedReturns`, `TimedWaitReturns`,
`SomebodyGetsIt`, `SlotsAreTaken` and `SenderFinishes` (fairness and ENABLED are out of the prover's reach). Every
invariant that a passing run checks is also a theorem.

## 5. Findings

1. **Lost wake-up with several processors** (`blocking_lost_wakeup`). `block_impl` registers the blocker
   before `m_is_blocking` is set. A waker in between removes the blocker from the queue and returns
   without taking `m_block_lock`; the thread then blocks for good. The comment in `block_impl` says
   that holding `m_block_lock` prevents this.
2. **Process-shared futex** (`futex_missed`). The comparison and the wait are atomic for wakes of
   the same process only; the man page promises it for all.
3. **Pessimistic lock** (`pthread_mutex_pessimistic`). It passes the value it found to `futex_wait`, where
   `pthread_mutex_lock` passes the one with the flag.
4. **Committed copy-on-write pages** (`anonymous_memory_commit`). `handle_cow_fault` means to leave a page
   that nobody else shares in place, but `handle_fault` still holds a reference of its own, so the last
   owner copies too, with a page that nobody has committed, and may get OutOfMemory. The comment in
   `try_clone` says that fork commits enough pages for every copy.

Observations without a run: with several processors, `block_impl` and a waker take `g_scheduler_lock` and
the queue's lock in opposite orders, and both have `LockRank::None`, so that no rank check notices; a
signal of a caller that does not have the mutex can find the flag cleared by another signal and wake
nobody; `pthread_cond_timedwait` returns ETIMEDOUT without the mutex; `set_volatile` on memory shared with a
forked process lets both write to the same page; a page fault that has found nothing to do, because
another thread has handled it, hits PANIC("Unhandled page fault") if a third one forks before it looks
into the page table, though the comment there (`Region.cpp:458`) knows only that another thread was
faster, or a bug; a munmap while another thread is in a fault on the region waits for it with the
address space's spinlock held and interrupts disabled, on one processor for ever, though the comment
(`Region.cpp:80`) says that the fault will be allowed to finish; an allocation that has to purge a volatile
object frees its pages under `m_global_data`, which freeing a page takes; a TCP server in SynReceived takes an ACK with any
sequence number, so that bytes that a quick client wrote can be skipped (if the ACK and the data are lost,
and the client answers the repeated SYN|ACK), and a FIN is never sent
again; a thread in FUTEX_WAIT is not woken by FUTEX_WAKE_BITSET (it waits with
bitset 0), though the man page says it is treated as having all bits; writers of a regular mutex can
starve behind readers that overlap; the branch of `restore_exclusive_lock` for a thread that already
holds the lock, and that of `FutexQueue::should_add_blocker` for a removed queue, are not reached by
any behaviour of the models.

## 6. Not modelled, and the plan

The components marked `not_modelled` in `PROJECT.json`, with the reason. Of the modelled ones:
`LOCK_DEBUG` bookkeeping, tracing and read-only queries; FUTEX_REQUEUE and FUTEX_WAKE_OP; named
semaphores; the other blockers on top of `BlockerSet`; shared and inode-backed memory, AllocateNow,
and failures of the kernel heap; the TCP options, checksums, routing, backlog, simultaneous open, the
wrap of sequence numbers, the lifetime of sockets, and writing to a connection that is Closed; memory
orders (the models are sequentially consistent). Most of the repository (the browser engine, the
JavaScript engine, codecs, applications) transforms data, and is not something a model checker says
much about.

Next, in this order:

1. FUTEX_REQUEUE and FUTEX_WAKE_OP in `Futex`; `pthread_once`.
2. `Thread`: states, stop and continue, signals, join and the finalizer; `TimerQueue` with cancel
   against fire; then `Blocking` refined against them.
3. `WaitQueue` and `WorkQueue`; the scheduler's ready queues.
4. The buddy allocator of the physical regions, against a reference definition; pipes and
   `DoubleBuffer`; advisory file locks.
