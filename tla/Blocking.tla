------------------------------ MODULE Blocking ------------------------------
(***************************************************************************)
(* How a kernel thread blocks and is woken: Thread::block_impl,            *)
(* Thread::unblock, unblock_from_blocker and set_should_die                *)
(* (Kernel/Tasks/Thread.cpp), Thread::Blocker and BlockerSet               *)
(* (Kernel/Tasks/Thread.h, ThreadBlockers.cpp), here with a                *)
(* DeprecatedWaitQueue (Kernel/Tasks/DeprecatedWaitQueue.cpp) as the set.  *)
(*                                                                         *)
(* The actors are the threads that wait on the queue, and wakers: code on  *)
(* some processor that calls wake_one, wake_n or wake_all, possibly in an  *)
(* interrupt handler.  The two spinlocks that order them, the queue's      *)
(* m_lock and g_scheduler_lock, are explicit.  A processor that holds a    *)
(* spinlock has its interrupts off, so with a single processor (SMP =      *)
(* FALSE, the default of the boot parameter smp) nobody else runs while    *)
(* one is held; with several processors everybody else does.               *)
(*                                                                         *)
(* A thread that was told to die does so when it leaves the kernel, and a  *)
(* new thread of the same name takes its place.  The blocker lives on the  *)
(* stack of block_impl: every wait of a thread has it at the same address. *)
(***************************************************************************)
EXTENDS Naturals, Sequences, FiniteSets, SequencesExt, BlockerSet

CONSTANTS Thread,      \* threads that wait on the queue
          Waker,       \* processors that wake them
          Nobody,      \* a free spinlock
          SMP,         \* more than one processor?
          WakeCounts   \* the wake_counts used: 1 is wake_one, one more than
                       \* there are threads is wake_all

ASSUME ActorAssumption == Nobody \notin Thread \cup Waker /\ Thread \cap Waker = {}
ASSUME SMPAssumption == SMP \in BOOLEAN
ASSUME WakeCountsAssumption == WakeCounts \subseteq Nat \ {0}

VARIABLES
    m_blockers,         \* BlockerSet: the threads whose blockers are in it
    m_wake_requested,   \* DeprecatedWaitQueue
    m_lock,             \* who holds the queue's spinlock
    g_scheduler_lock,   \* who holds the scheduler's spinlock
    m_state,            \* Thread::m_state
    m_blocker,          \* the threads whose m_blocker is their blocker
    m_should_die,       \* the threads told to die
    m_is_blocking,      \* Blocker::m_is_blocking, for each thread's blocker
    m_did_unblock,      \* DeprecatedWaitQueueBlocker::m_did_unblock
    interrupted,        \* m_was_interrupted_by_signal or _by_death
    timer,              \* m_block_timer: "none", "armed" or "fired"
    timeout_unblocked,  \* the flag shared by block_impl and its timer
    result,             \* what block_impl is about to return
    pc,                 \* where the thread is in block_impl
    wake,               \* what each waker is doing
    deferred            \* the calls of unblock_from_blocker that wakers deferred

queueVars == <<m_blockers, m_wake_requested>>
lockVars == <<m_lock, g_scheduler_lock>>
threadVars == <<m_state, m_blocker, m_should_die>>
blockerVars == <<m_is_blocking, m_did_unblock, interrupted>>
timerVars == <<timer, timeout_unblocked>>
vars == <<queueVars, lockVars, threadVars, blockerVars, timerVars, result, pc, wake, deferred>>

Result == {"none", "WokeNormally", "InterruptedBySignal",
           "InterruptedByDeath", "InterruptedByTimeout"}

(* "out": not blocking.  "setup": g_scheduler_lock is held and the blocker *)
(* exists.  "registered": setup_blocker has put it in the set.  "blocked": *)
(* past set_state(Blocked).  "ending": running again.  "finalize": about   *)
(* to take the blocker out of the set and to return.                       *)
Location == {"out", "setup", "registered", "blocked", "ending", "finalize"}

Idle == [pc |-> "idle"]

(* An actor runs if it has a processor: with just one, an actor that holds *)
(* a spinlock keeps it, and calls deferred by an interrupt handler run as  *)
(* soon as the handler is done, before anybody else.                       *)
CanRun(a) ==
    \/ SMP
    \/ /\ {m_lock, g_scheduler_lock} \subseteq {a, Nobody}
       /\ deferred # {} => m_lock = a

Init ==
    /\ m_blockers = <<>>
    /\ m_wake_requested = FALSE
    /\ m_lock = Nobody
    /\ g_scheduler_lock = Nobody
    /\ m_state = [t \in Thread |-> "Running"]
    /\ m_blocker = {}
    /\ m_should_die = {}
    /\ m_is_blocking = [t \in Thread |-> FALSE]
    /\ m_did_unblock = [t \in Thread |-> FALSE]
    /\ interrupted = [t \in Thread |-> "no"]
    /\ timer = [t \in Thread |-> "none"]
    /\ timeout_unblocked = [t \in Thread |-> FALSE]
    /\ result = [t \in Thread |-> "none"]
    /\ pc = [t \in Thread |-> "out"]
    /\ wake = [w \in Waker |-> Idle]
    /\ deferred = {}

-----------------------------------------------------------------------------
(* Thread::unblock, for a thread whose m_blocker is set and whose state is *)
(* then Blocked: it forgets the blocker and becomes runnable.              *)
Unblock(t) ==
    /\ m_blocker' = m_blocker \ {t}
    /\ m_state' = [m_state EXCEPT ![t] = "Runnable"]

-----------------------------------------------------------------------------
(* Thread::block_impl                                                      *)

Goto(t, l) == pc' = [pc EXCEPT ![t] = l]

(* Mutant: block_impl without the scheduler lock.                          *)
BlockEnterUnlocked(t) ==
    /\ CanRun(t)
    /\ pc[t] = "out"
    /\ Goto(t, "setup")
    /\ UNCHANGED <<queueVars, lockVars, threadVars, blockerVars, timerVars, result, wake, deferred>>

(* The blocker is constructed and g_scheduler_lock and m_block_lock taken. *)
BlockEnter(t) ==
    /\ CanRun(t)
    /\ pc[t] = "out"
    /\ g_scheduler_lock = Nobody
    /\ g_scheduler_lock' = t
    /\ Goto(t, "setup")
    /\ UNCHANGED <<queueVars, m_lock, threadVars, blockerVars, timerVars, result, wake, deferred>>

(* setup_blocker: add_blocker takes the queue's lock and asks              *)
(* should_add_blocker; a wake that found nobody is used up here.           *)
SetupBlocker(t) ==
    /\ CanRun(t)
    /\ pc[t] = "setup"
    /\ m_lock = Nobody
    /\ \/ /\ m_wake_requested
          /\ m_wake_requested' = FALSE
          /\ g_scheduler_lock' = Nobody
          /\ Goto(t, "out")
          /\ UNCHANGED m_blockers
       \/ /\ ~m_wake_requested
          /\ m_blockers' = Append(m_blockers, t)
          /\ Goto(t, "registered")
          /\ UNCHANGED <<m_wake_requested, g_scheduler_lock>>
    /\ UNCHANGED <<m_lock, threadVars, blockerVars, timerVars, result, wake, deferred>>

(* m_blocker, the timer if there is a timeout, begin_blocking, Blocked;    *)
(* then both locks are released.                                           *)
BeginBlocking(t, timed) ==
    /\ CanRun(t)
    /\ pc[t] = "registered"
    /\ m_blocker' = m_blocker \cup {t}
    /\ timer' = [timer EXCEPT ![t] = IF timed THEN "armed" ELSE "none"]
    /\ m_is_blocking' = [m_is_blocking EXCEPT ![t] = TRUE]
    /\ m_state' = [m_state EXCEPT ![t] = "Blocked"]
    /\ g_scheduler_lock' = Nobody
    /\ Goto(t, "blocked")
    /\ UNCHANGED <<queueVars, m_lock, m_should_die, m_did_unblock, interrupted,
                   timeout_unblocked, result, wake, deferred>>

(* The timeout is in the past: add_timer_without_id refuses it.  The guard *)
(* that finalizes the blocker runs before the locks are released.          *)
TimeoutInThePast(t) ==
    /\ CanRun(t)
    /\ pc[t] = "registered"
    /\ result' = [result EXCEPT ![t] = "InterruptedByTimeout"]
    /\ Goto(t, "finalize")
    /\ UNCHANGED <<queueVars, lockVars, threadVars, blockerVars, timerVars, wake, deferred>>

(* Mutant: did_timeout is set whenever there was a timer.                  *)
ResumeTimerAdded(t) ==
    /\ CanRun(t)
    /\ pc[t] = "blocked"
    /\ m_state[t] = "Runnable"
    /\ m_state' = [m_state EXCEPT ![t] = "Running"]
    /\ m_blocker' = m_blocker \ {t}
    /\ timeout_unblocked' = [timeout_unblocked EXCEPT ![t] = TRUE]
    /\ result' = [result EXCEPT ![t] =
                    IF timer[t] # "none" THEN "InterruptedByTimeout" ELSE "WokeNormally"]
    /\ Goto(t, "ending")
    /\ UNCHANGED <<queueVars, lockVars, m_should_die, blockerVars, timer, wake, deferred>>

(* The thread is scheduled again and takes m_block_lock: no timer callback *)
(* unblocks it from here on.                                               *)
Resume(t) ==
    /\ CanRun(t)
    /\ pc[t] = "blocked"
    /\ m_state[t] = "Runnable"
    /\ m_state' = [m_state EXCEPT ![t] = "Running"]
    /\ m_blocker' = m_blocker \ {t}
    /\ timeout_unblocked' = [timeout_unblocked EXCEPT ![t] = TRUE]
    /\ result' = [result EXCEPT ![t] =
                    IF timeout_unblocked[t] THEN "InterruptedByTimeout" ELSE "WokeNormally"]
    /\ Goto(t, "ending")
    /\ UNCHANGED <<queueVars, lockVars, m_should_die, blockerVars, timer, wake, deferred>>

(* end_blocking, and cancel_timer unless the timer did it: death takes     *)
(* precedence over a signal and a signal over the timeout.                 *)
EndBlocking(t) ==
    /\ CanRun(t)
    /\ pc[t] = "ending"
    /\ m_is_blocking' = [m_is_blocking EXCEPT ![t] = FALSE]
    /\ timer' = [timer EXCEPT ![t] = "none"]
    /\ result' = [result EXCEPT ![t] = CASE interrupted[t] = "death" -> "InterruptedByDeath"
                                         [] interrupted[t] = "signal" -> "InterruptedBySignal"
                                         [] OTHER -> @]
    /\ Goto(t, "finalize")
    /\ UNCHANGED <<queueVars, lockVars, threadVars, m_did_unblock, interrupted,
                   timeout_unblocked, wake, deferred>>

(* Mutant: the blocker is not removed from the set.                        *)
FinalizeLeaves(t) ==
    /\ CanRun(t)
    /\ pc[t] = "finalize"
    /\ g_scheduler_lock' = IF g_scheduler_lock = t THEN Nobody ELSE g_scheduler_lock
    /\ m_is_blocking' = [m_is_blocking EXCEPT ![t] = FALSE]
    /\ m_did_unblock' = [m_did_unblock EXCEPT ![t] = FALSE]
    /\ interrupted' = [interrupted EXCEPT ![t] = "no"]
    /\ timeout_unblocked' = [timeout_unblocked EXCEPT ![t] = FALSE]
    /\ result' = [result EXCEPT ![t] = "none"]
    /\ Goto(t, "out")
    /\ UNCHANGED <<queueVars, m_lock, threadVars, timer, wake, deferred>>

(* The guard of block_impl: blocker.finalize() takes the queue's lock and  *)
(* removes the blocker, which dies as block_impl returns: the next wait of *)
(* the thread constructs a new one.                                        *)
Finalize(t) ==
    /\ CanRun(t)
    /\ pc[t] = "finalize"
    /\ m_lock = Nobody
    /\ m_blockers' = remove_blocker(m_blockers, t)
    /\ g_scheduler_lock' = IF g_scheduler_lock = t THEN Nobody ELSE g_scheduler_lock
    /\ m_is_blocking' = [m_is_blocking EXCEPT ![t] = FALSE]
    /\ m_did_unblock' = [m_did_unblock EXCEPT ![t] = FALSE]
    /\ interrupted' = [interrupted EXCEPT ![t] = "no"]
    /\ timeout_unblocked' = [timeout_unblocked EXCEPT ![t] = FALSE]
    /\ result' = [result EXCEPT ![t] = "none"]
    /\ Goto(t, "out")
    /\ UNCHANGED <<m_wake_requested, m_lock, threadVars, timer, wake, deferred>>

(* Thread::die_if_needed, on the way out of the kernel.                    *)
Die(t) ==
    /\ CanRun(t)
    /\ pc[t] = "out"
    /\ t \in m_should_die
    /\ m_should_die' = m_should_die \ {t}
    /\ UNCHANGED <<queueVars, lockVars, m_state, m_blocker, blockerVars, timerVars,
                   result, pc, wake, deferred>>

-----------------------------------------------------------------------------
(* What can unblock it besides the queue.                                  *)

(* Mutant: the callback only unblocks a thread that has timed out before.  *)
TimerFiresInverted(t) ==
    /\ CanRun(Nobody)
    /\ timer[t] = "armed"
    /\ g_scheduler_lock = Nobody
    /\ timer' = [timer EXCEPT ![t] = "fired"]
    /\ timeout_unblocked' = [timeout_unblocked EXCEPT ![t] = TRUE]
    /\ IF t \in m_blocker /\ timeout_unblocked[t] THEN Unblock(t) ELSE UNCHANGED <<m_blocker, m_state>>
    /\ UNCHANGED <<queueVars, lockVars, m_should_die, blockerVars, result, pc, wake, deferred>>

(* The callback of the timer, under g_scheduler_lock and m_block_lock.     *)
TimerFires(t) ==
    /\ CanRun(Nobody)
    /\ timer[t] = "armed"
    /\ g_scheduler_lock = Nobody
    /\ timer' = [timer EXCEPT ![t] = "fired"]
    /\ IF t \in m_blocker /\ ~timeout_unblocked[t]
       THEN /\ timeout_unblocked' = [timeout_unblocked EXCEPT ![t] = TRUE]
            /\ Unblock(t)
       ELSE UNCHANGED <<timeout_unblocked, m_blocker, m_state>>
    /\ UNCHANGED <<queueVars, lockVars, m_should_die, blockerVars, result, pc, wake, deferred>>

(* Thread::send_signal with an unmasked signal, for a blocked thread.      *)
SendSignal(t) ==
    /\ CanRun(Nobody)
    /\ g_scheduler_lock = Nobody
    /\ t \in m_blocker
    /\ interrupted' = [interrupted EXCEPT ![t] = "signal"]
    /\ Unblock(t)
    /\ UNCHANGED <<queueVars, lockVars, m_should_die, m_is_blocking, m_did_unblock,
                   timerVars, result, pc, wake, deferred>>

(* Thread::set_should_die                                                  *)
SetShouldDie(t) ==
    /\ CanRun(Nobody)
    /\ g_scheduler_lock = Nobody
    /\ t \notin m_should_die
    /\ m_should_die' = m_should_die \cup {t}
    /\ IF t \in m_blocker
       THEN /\ interrupted' = [interrupted EXCEPT ![t] = "death"]
            /\ Unblock(t)
       ELSE UNCHANGED <<interrupted, m_blocker, m_state>>
    /\ UNCHANGED <<queueVars, lockVars, m_is_blocking, m_did_unblock,
                   timerVars, result, pc, wake, deferred>>

-----------------------------------------------------------------------------
(* DeprecatedWaitQueue::wake_one, wake_n and wake_all, with BlockerSet's   *)
(* unblock_all_blockers_whose_conditions_are_met_locked.                   *)

WakeBegin(w, n, irq) ==
    /\ CanRun(w)
    /\ wake[w] = Idle
    /\ \A t \in Thread : <<w, t>> \notin deferred
    /\ m_lock = Nobody
    /\ m_lock' = w
    /\ wake' = [wake EXCEPT ![w] = [pc |-> "scan", irq |-> irq, count |-> n, i |-> 1, woke |-> 0]]
    /\ UNCHANGED <<queueVars, g_scheduler_lock, threadVars, blockerVars, timerVars, result, pc, deferred>>

Scanning(w) == wake[w] # Idle /\ wake[w].pc = "scan"

(* Mutant: stops one blocker too late.                                     *)
ExhaustedLate(w) == wake[w].i > Len(m_blockers) \/ wake[w].woke > wake[w].count

Exhausted(w) == wake[w].i > Len(m_blockers) \/ wake[w].woke >= wake[w].count

(* Mutant: in an interrupt handler nothing is deferred.                    *)
WakeVisitNoDefer(w) ==
    /\ CanRun(w)
    /\ Scanning(w)
    /\ ~Exhausted(w)
    /\ LET t == m_blockers[wake[w].i] IN
       IF m_did_unblock[t]
       THEN /\ wake' = [wake EXCEPT ![w].i = @ + 1]
            /\ UNCHANGED <<m_blockers, m_is_blocking, m_did_unblock>>
       ELSE /\ m_did_unblock' = [m_did_unblock EXCEPT ![t] = TRUE]
            /\ m_is_blocking' = [m_is_blocking EXCEPT ![t] = FALSE]
            /\ IF m_is_blocking[t] /\ ~wake[w].irq
               THEN /\ wake' = [wake EXCEPT ![w].pc = "unblock"]
                    /\ UNCHANGED m_blockers
               ELSE /\ m_blockers' = RemoveAt(m_blockers, wake[w].i)
                    /\ wake' = [wake EXCEPT ![w].woke = @ + 1]
    /\ UNCHANGED <<m_wake_requested, lockVars, threadVars, interrupted, timerVars, result, pc, deferred>>

(* DeprecatedWaitQueueBlocker::unblock on the blocker that the scan has    *)
(* reached, up to Blocker::unblock_from_blocker, which only goes on to the *)
(* thread if the blocker is blocking.                                      *)
WakeVisit(w) ==
    /\ CanRun(w)
    /\ Scanning(w)
    /\ ~Exhausted(w)
    /\ LET t == m_blockers[wake[w].i] IN
       IF m_did_unblock[t]
       THEN /\ wake' = [wake EXCEPT ![w].i = @ + 1]
            /\ UNCHANGED <<m_blockers, m_is_blocking, m_did_unblock, deferred>>
       ELSE /\ m_did_unblock' = [m_did_unblock EXCEPT ![t] = TRUE]
            /\ m_is_blocking' = [m_is_blocking EXCEPT ![t] = FALSE]
            /\ IF m_is_blocking[t] /\ ~wake[w].irq
               THEN /\ wake' = [wake EXCEPT ![w].pc = "unblock"]
                    /\ UNCHANGED <<m_blockers, deferred>>
               ELSE /\ deferred' = IF m_is_blocking[t] THEN deferred \cup {<<w, t>>} ELSE deferred
                    /\ m_blockers' = RemoveAt(m_blockers, wake[w].i)
                    /\ wake' = [wake EXCEPT ![w].woke = @ + 1]
    /\ UNCHANGED <<m_wake_requested, lockVars, threadVars, interrupted, timerVars, result, pc>>

(* Mutant: whether the thread still has this blocker is not checked.       *)
WakeUnblockAnyway(w) ==
    /\ CanRun(w)
    /\ wake[w] # Idle /\ wake[w].pc = "unblock"
    /\ g_scheduler_lock = Nobody
    /\ Unblock(m_blockers[wake[w].i])
    /\ m_blockers' = RemoveAt(m_blockers, wake[w].i)
    /\ wake' = [wake EXCEPT ![w].pc = "scan", ![w].woke = @ + 1]
    /\ UNCHANGED <<m_wake_requested, lockVars, m_should_die, blockerVars, timerVars,
                   result, pc, deferred>>

(* Thread::unblock_from_blocker outside of an interrupt handler: it needs  *)
(* g_scheduler_lock while the queue's m_lock is held.                      *)
WakeUnblock(w) ==
    /\ CanRun(w)
    /\ wake[w] # Idle /\ wake[w].pc = "unblock"
    /\ g_scheduler_lock = Nobody
    /\ LET t == m_blockers[wake[w].i] IN
       IF t \in m_blocker THEN Unblock(t) ELSE UNCHANGED <<m_blocker, m_state>>
    /\ m_blockers' = RemoveAt(m_blockers, wake[w].i)
    /\ wake' = [wake EXCEPT ![w].pc = "scan", ![w].woke = @ + 1]
    /\ UNCHANGED <<m_wake_requested, lockVars, m_should_die, blockerVars, timerVars,
                   result, pc, deferred>>

WakeEnd(w) ==
    /\ CanRun(w)
    /\ Scanning(w)
    /\ Exhausted(w)
    /\ m_wake_requested' = (wake[w].woke = 0)
    /\ m_lock' = Nobody
    /\ wake' = [wake EXCEPT ![w] = Idle]
    /\ UNCHANGED <<m_blockers, g_scheduler_lock, threadVars, blockerVars, timerVars,
                   result, pc, deferred>>

(* The call that unblock_from_blocker deferred runs when the processor     *)
(* leaves its interrupt handler.                                           *)
DeferredUnblock(w, t) ==
    /\ <<w, t>> \in deferred
    /\ wake[w] = Idle
    /\ g_scheduler_lock = Nobody
    /\ deferred' = deferred \ {<<w, t>>}
    /\ IF t \in m_blocker THEN Unblock(t) ELSE UNCHANGED <<m_blocker, m_state>>
    /\ UNCHANGED <<queueVars, lockVars, m_should_die, blockerVars, timerVars, result, pc, wake>>

-----------------------------------------------------------------------------
BlockStep(t) ==
    \/ SetupBlocker(t)
    \/ \E timed \in BOOLEAN : BeginBlocking(t, timed)
    \/ TimeoutInThePast(t)
    \/ Resume(t)
    \/ EndBlocking(t)
    \/ Finalize(t)

WakerStep(w) == WakeVisit(w) \/ WakeUnblock(w) \/ WakeEnd(w)

Next ==
    \/ \E t \in Thread : \/ BlockEnter(t)
                         \/ BlockStep(t)
                         \/ Die(t)
                         \/ TimerFires(t)
                         \/ SendSignal(t)
                         \/ SetShouldDie(t)
    \/ \E w \in Waker : \/ \E n \in WakeCounts, irq \in BOOLEAN : WakeBegin(w, n, irq)
                        \/ WakerStep(w)
                        \/ \E t \in Thread : DeferredUnblock(w, t)

Spec == Init /\ [][Next]_vars

(* The scheduler is fair to runnable threads, so whoever is in block_impl  *)
(* and can go on does so in the end, however often others get the          *)
(* processor or the spinlock first; an armed timer fires; and a wake that  *)
(* has begun and a deferred call, which nothing preempts, are carried out. *)
(* Nobody has to start waiting or to wake anybody.                         *)
Fairness ==
    /\ \A t \in Thread : /\ SF_vars(BlockStep(t))
                         /\ SF_vars(TimerFires(t))
    /\ \A w \in Waker : WF_vars(WakerStep(w) \/ \E t \in Thread : DeferredUnblock(w, t))

FairSpec == Spec /\ Fairness

-----------------------------------------------------------------------------
(* Properties.                                                             *)

(* The types; did_wake stays within wake_count, as wake_n VERIFYs.         *)
TypeOK ==
    /\ m_blockers \in Seq(Thread)
    /\ m_wake_requested \in BOOLEAN
    /\ m_lock \in Waker \cup {Nobody}
    /\ g_scheduler_lock \in Thread \cup {Nobody}
    /\ m_state \in [Thread -> {"Running", "Blocked", "Runnable"}]
    /\ m_blocker \subseteq Thread /\ m_should_die \subseteq Thread
    /\ m_is_blocking \in [Thread -> BOOLEAN]
    /\ m_did_unblock \in [Thread -> BOOLEAN]
    /\ interrupted \in [Thread -> {"no", "signal", "death"}]
    /\ timer \in [Thread -> {"none", "armed", "fired"}]
    /\ timeout_unblocked \in [Thread -> BOOLEAN]
    /\ result \in [Thread -> Result]
    /\ pc \in [Thread -> Location]
    /\ \A w \in Waker : wake[w] # Idle => /\ wake[w].pc \in {"scan", "unblock"}
                                         /\ wake[w].i \in Nat \ {0}
                                         /\ wake[w].woke \in 0..wake[w].count
    /\ deferred \subseteq Waker \X Thread

(* The blocker a waker works on.                                           *)
Target(w) == m_blockers[wake[w].i]

(* The set never holds a blocker whose block_impl has returned, nor one    *)
(* twice, and a waker that has let go of the blocker's lock on its way to  *)
(* Thread::unblock_from_blocker still works on a live blocker: a timeout,  *)
(* a signal or death that overtakes the wake cannot free it, because       *)
(* finalize() has to wait for the queue's lock.                            *)
NoDanglingBlocker ==
    /\ \A i \in DOMAIN m_blockers : pc[m_blockers[i]] \notin {"out", "setup"}
    /\ \A i, j \in DOMAIN m_blockers : m_blockers[i] = m_blockers[j] => i = j
    /\ \A w \in Waker : wake[w] # Idle /\ wake[w].pc = "unblock" =>
         /\ wake[w].i \in DOMAIN m_blockers
         /\ pc[Target(w)] \notin {"out", "setup"}
         /\ m_did_unblock[Target(w)]

(* m_blocker is set exactly while the thread is Blocked in block_impl: the *)
(* PANIC of block_impl ("Attempting to block with invalid thread state"),  *)
(* VERIFY(m_blocker == nullptr) and the PANIC of set_state for a thread    *)
(* that is already Runnable cannot be hit, whichever of wake, timer,       *)
(* signal and death come together.                                         *)
BlockedIffBlocker ==
    \A t \in Thread :
        /\ t \in m_blocker <=> m_state[t] = "Blocked"
        /\ m_state[t] # "Running" => pc[t] = "blocked"

(* No lost wake-up: once a waker has unblocked the blocker of a thread (so *)
(* that no other waker will), the thread is not left Blocked without       *)
(* somebody about to make it runnable.                                     *)
NoLostWakeup ==
    \A t \in Thread :
        m_state[t] = "Blocked" /\ m_did_unblock[t] =>
            \E w \in Waker :
                \/ <<w, t>> \in deferred
                \/ wake[w] # Idle /\ wake[w].pc = "unblock" /\ Target(w) = t

(* What block_impl found when the thread ran again is true, whatever came  *)
(* together: it timed out only if its timer has fired, and it woke         *)
(* normally, if neither signal nor death is about to override that, only   *)
(* if a waker unblocked the blocker of this very wait.                     *)
ResultTruthful ==
    \A t \in Thread : pc[t] = "ending" =>
        /\ result[t] = "InterruptedByTimeout" => timer[t] = "fired"
        /\ result[t] = "WokeNormally" /\ interrupted[t] = "no" => m_did_unblock[t]

(* A thread whose blocker was unblocked by a waker returns from block_impl. *)
UnblockedReturns ==
    \A t \in Thread : m_did_unblock[t] /\ pc[t] # "out" ~> pc[t] = "out"

(* A thread that blocked with a timeout returns.                           *)
TimedWaitReturns ==
    \A t \in Thread : timer[t] = "armed" ~> pc[t] = "out"
=============================================================================
