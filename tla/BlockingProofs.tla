--------------------------- MODULE BlockingProofs ---------------------------
(***************************************************************************)
(* What is proved about Blocking for any set of threads and wakers.        *)
(*                                                                         *)
(* BlockInv is inductive whatever the number of processors, and            *)
(* ProcessorInv with just one.                                             *)
(***************************************************************************)
EXTENDS Blocking, BlockerSetProofs

(* What a waker is doing: it has woken fewer threads than it may while it  *)
(* is on its way to one more.                                              *)
Wake == [pc : {"scan", "unblock"}, irq : BOOLEAN, count : Nat, i : Nat \ {0}, woke : Nat]

WakeOK(w) ==
    \/ wake[w] = Idle
    \/ /\ wake[w] \in Wake
       /\ wake[w].woke <= wake[w].count
       /\ wake[w].pc = "unblock" => wake[w].woke < wake[w].count

(* Who holds the locks.                                                    *)
LockOK ==
    /\ \A w \in Waker : wake[w] # Idle => m_lock = w
    /\ \A t \in Thread : pc[t] \in {"setup", "registered"} => g_scheduler_lock = t

(* A blocker is in the set at most once, and only while its thread is in   *)
(* block_impl.                                                             *)
BlockersOK ==
    /\ \A t \in Range(m_blockers) : t \in Thread /\ pc[t] \notin {"out", "setup"}
    /\ IsInjective(m_blockers)

(* The blocker that a waker is about to unblock stays where it is.         *)
TargetOK ==
    \A w \in Waker : wake[w] # Idle /\ wake[w].pc = "unblock" =>
        /\ wake[w].i \in DOMAIN m_blockers
        /\ m_did_unblock[m_blockers[wake[w].i]]

BlockInv ==
    /\ TypeOK
    /\ wake \in [Waker -> {Idle} \cup Wake]
    /\ \A w \in Waker : WakeOK(w)
    /\ LockOK
    /\ BlockersOK
    /\ TargetOK
    /\ BlockedIffBlocker

(* With one processor the two locks are not held at the same time, and     *)
(* deferred calls come before anything that a thread does.                 *)
OneLock == m_lock = Nobody \/ g_scheduler_lock = Nobody

(* A thread begins to wait with a blocker that nothing has happened to.    *)
FreshBlocker ==
    \A t \in Thread :
        /\ pc[t] \in {"out", "setup", "registered"} =>
             ~m_did_unblock[t] /\ ~timeout_unblocked[t] /\ interrupted[t] = "no"
        /\ m_state[t] = "Blocked" => m_is_blocking[t] \/ m_did_unblock[t]
        /\ pc[t] = "blocked" /\ timeout_unblocked[t] => timer[t] = "fired"

(* Why a thread is Runnable, and what a deferred call is about.            *)
ReasonOK ==
    /\ \A t \in Thread :
         m_state[t] = "Runnable" => timeout_unblocked[t] \/ interrupted[t] # "no" \/ m_did_unblock[t]
    /\ \A w \in Waker, t \in Thread : <<w, t>> \in deferred => m_did_unblock[t]

ProcessorInv == OneLock /\ FreshBlocker /\ ReasonOK /\ NoLostWakeup /\ ResultTruthful

-----------------------------------------------------------------------------
(* What RemoveAt leaves of a list.                                         *)
LEMMA RemoveAtFacts ==
  ASSUME NEW T, NEW s \in Seq(T), NEW i \in DOMAIN s
  PROVE  /\ RemoveAt(s, i) \in Seq(T)
         /\ Range(RemoveAt(s, i)) \subseteq Range(s)
         /\ IsInjective(s) => IsInjective(RemoveAt(s, i))
<1> DEFINE r == RemoveAt(s, i)
           a == SubSeq(s, 1, i - 1)
           b == SubSeq(s, i + 1, Len(s))
<1>0. Len(s) \in Nat /\ i \in 1..Len(s)
  OBVIOUS
<1>1. a \in Seq(T) /\ Len(a) = i - 1 /\ \A j \in 1..i - 1 : a[j] = s[j]
  BY <1>0
<1>2. b \in Seq(T) /\ Len(b) = Len(s) - i /\ \A j \in 1..Len(s) - i : b[j] = s[i + j]
  BY <1>0
<1>3. r = a \o b
  BY DEF RemoveAt
<1> HIDE DEF a, b, r
<1>4. r \in Seq(T) /\ Len(r) = Len(s) - 1
  BY <1>0, <1>1, <1>2, <1>3
<1>5. \A j \in 1..Len(s) - 1 : r[j] = IF j < i THEN s[j] ELSE s[j + 1]
  <2> SUFFICES ASSUME NEW j \in 1..Len(s) - 1 PROVE r[j] = IF j < i THEN s[j] ELSE s[j + 1]
    OBVIOUS
  <2>1. CASE j < i
    BY <1>0, <1>1, <1>2, <1>3, <2>1
  <2>2. CASE ~(j < i)
    <3>1. j - (i - 1) \in 1..Len(s) - i /\ i + (j - (i - 1)) = j + 1
      BY <1>0, <2>2
    <3>2. j > Len(a) /\ j \in 1..Len(a) + Len(b)
      BY <1>0, <1>1, <1>2, <2>2
    <3>3. r[j] = b[j - Len(a)]
      BY <1>1, <1>2, <1>3, <3>2
    <3> QED BY <1>1, <1>2, <2>2, <3>1, <3>3
  <2> QED BY <2>1, <2>2
<1>6. Range(r) \subseteq Range(s)
  BY <1>0, <1>4, <1>5 DEF Range
<1>7. ASSUME IsInjective(s) PROVE IsInjective(r)
  <2> DEFINE f(j) == IF j < i THEN j ELSE j + 1
  <2>1. DOMAIN r = 1..Len(s) - 1
    BY <1>0, <1>4
  <2>2. \A j \in DOMAIN r : f(j) \in DOMAIN s /\ r[j] = s[f(j)]
    BY <1>0, <1>5, <2>1
  <2>3. \A j, k \in DOMAIN r : f(j) = f(k) => j = k
    BY <1>0, <2>1
  <2> HIDE DEF f
  <2> QED BY <1>7, <2>2, <2>3 DEF IsInjective
<1> QED
  BY <1>4, <1>6, <1>7 DEF r

(* BlockInv holds at first: nobody waits and nobody wakes.                 *)
LEMMA InitBlockInv == Init => BlockInv
<1> SUFFICES ASSUME Init PROVE BlockInv
  OBVIOUS
<1>1. Range(<<>>) = {} /\ IsInjective(<<>>)
  BY DEF Range, IsInjective
<1>2. \A w \in Waker : wake[w] = Idle
  BY DEF Init
<1>3. TypeOK
  <2>1. m_blockers \in Seq(Thread)
    BY DEF Init
  <2>2. /\ m_state \in [Thread -> {"Running", "Blocked", "Runnable"}]
        /\ m_is_blocking \in [Thread -> BOOLEAN] /\ m_did_unblock \in [Thread -> BOOLEAN]
        /\ timeout_unblocked \in [Thread -> BOOLEAN]
    BY DEF Init
  <2>3. /\ interrupted \in [Thread -> {"no", "signal", "death"}]
        /\ timer \in [Thread -> {"none", "armed", "fired"}]
        /\ result \in [Thread -> Result] /\ pc \in [Thread -> Location]
    BY DEF Init, Location, Result
  <2>4. /\ m_wake_requested \in BOOLEAN /\ m_lock \in Waker \cup {Nobody}
        /\ g_scheduler_lock \in Thread \cup {Nobody}
        /\ m_blocker \subseteq Thread /\ m_should_die \subseteq Thread
        /\ deferred \subseteq Waker \X Thread
    BY DEF Init
  <2> QED BY <1>2, <2>1, <2>2, <2>3, <2>4 DEF TypeOK
<1>4. wake \in [Waker -> {Idle} \cup Wake] /\ \A w \in Waker : WakeOK(w)
  BY DEF Init, WakeOK
<1>5. LockOK /\ TargetOK
  BY <1>2 DEF Init, LockOK, TargetOK
<1>6. BlockersOK
  BY <1>1 DEF Init, BlockersOK
<1>7. BlockedIffBlocker
  BY DEF Init, BlockedIffBlocker
<1> QED
  BY <1>3, <1>4, <1>5, <1>6, <1>7 DEF BlockInv

-----------------------------------------------------------------------------
(* The steps of a thread.                                                  *)

(* block_impl takes g_scheduler_lock, which was free.                      *)
LEMMA BlockEnterStep == ASSUME BlockInv, NEW t \in Thread, BlockEnter(t) PROVE BlockInv'
<1> USE DEF BlockInv, BlockEnter, Goto, queueVars, threadVars, blockerVars, timerVars
<1>1. TypeOK'
  BY ActorAssumption DEF TypeOK, Location
<1>2. wake' \in [Waker -> {Idle} \cup Wake] /\ \A w \in Waker : WakeOK(w)'
  BY DEF WakeOK
<1>3. LockOK'
  BY ActorAssumption DEF LockOK, TypeOK
<1>4. BlockersOK'
  BY DEF BlockersOK, TypeOK
<1>5. TargetOK'
  BY DEF TargetOK
<1>6. BlockedIffBlocker'
  BY DEF BlockedIffBlocker, TypeOK
<1> QED
  BY <1>1, <1>2, <1>3, <1>4, <1>5, <1>6

(* setup_blocker registers the blocker, which was not in the set, or uses  *)
(* up a wake request.                                                      *)
LEMMA SetupBlockerStep == ASSUME BlockInv, NEW t \in Thread, SetupBlocker(t) PROVE BlockInv'
<1> USE DEF BlockInv, Goto, queueVars, threadVars, blockerVars, timerVars
<1>0. /\ pc[t] = "setup" /\ m_lock = Nobody
      /\ UNCHANGED <<m_lock, threadVars, blockerVars, timerVars, result, wake, deferred>>
      /\ g_scheduler_lock = t
  BY DEF SetupBlocker, LockOK
<1>1. \A w \in Waker : wake[w] = Idle
  BY <1>0, ActorAssumption DEF LockOK
<1>2. m_blockers \in Seq(Thread) /\ t \notin Range(m_blockers)
  BY <1>0 DEF TypeOK, BlockersOK
<1>3. \/ m_blockers' = m_blockers
      \/ m_blockers' = Append(m_blockers, t) /\ pc' = [pc EXCEPT ![t] = "registered"]
  BY DEF SetupBlocker
<1>4. /\ pc' = [pc EXCEPT ![t] = "out"] \/ pc' = [pc EXCEPT ![t] = "registered"]
      /\ m_wake_requested' \in BOOLEAN /\ g_scheduler_lock' \in Thread \cup {Nobody}
      /\ pc' = [pc EXCEPT ![t] = "registered"] => g_scheduler_lock' = t
  BY <1>0 DEF SetupBlocker, TypeOK
<1>5. m_blockers' \in Seq(Thread)
  BY <1>2, <1>3
<1>6. TypeOK'
  BY <1>0, <1>1, <1>4, <1>5 DEF TypeOK, Location
<1>7. wake' \in [Waker -> {Idle} \cup Wake] /\ \A w \in Waker : WakeOK(w)'
  BY <1>0 DEF WakeOK
<1>8. LockOK'
  BY <1>0, <1>1, <1>4, ActorAssumption DEF LockOK, TypeOK
<1>9. BlockersOK'
  <2>1. CASE m_blockers' = m_blockers
    BY <1>0, <1>2, <1>4, <2>1 DEF BlockersOK, TypeOK
  <2>2. CASE m_blockers' = Append(m_blockers, t) /\ pc' = [pc EXCEPT ![t] = "registered"]
    <3>1. Range(m_blockers') = Range(m_blockers) \cup {t} /\ IsInjective(m_blockers')
      BY <1>2, <2>2, RangeAppend, InjectiveAppend DEF BlockersOK
    <3> QED
      BY <2>2, <3>1 DEF BlockersOK, TypeOK
  <2> QED BY <1>3, <2>1, <2>2
<1>10. TargetOK'
  BY <1>0, <1>1 DEF TargetOK
<1>11. BlockedIffBlocker'
  BY <1>0, <1>4 DEF BlockedIffBlocker, TypeOK
<1> QED
  BY <1>6, <1>7, <1>8, <1>9, <1>10, <1>11

(* A step that neither touches the list of blockers nor what a waker does. *)
LEMMA ThreadStep ==
  ASSUME BlockInv, NEW t \in Thread, UNCHANGED <<m_blockers, m_wake_requested, m_lock, wake, deferred>>,
         TypeOK', BlockedIffBlocker',
         NEW l \in Location, pc' = [pc EXCEPT ![t] = l], l \notin {"out", "setup"},
         l = "registered" => g_scheduler_lock' = t,
         \A u \in Thread : u # t /\ g_scheduler_lock = u => g_scheduler_lock' = u,
         m_did_unblock' = m_did_unblock
  PROVE  BlockInv'
<1>1. wake' \in [Waker -> {Idle} \cup Wake] /\ \A w \in Waker : WakeOK(w)'
  BY DEF BlockInv, WakeOK
<1>2. LockOK'
  BY DEF BlockInv, LockOK, TypeOK
<1>3. BlockersOK'
  BY DEF BlockInv, BlockersOK, TypeOK
<1>4. TargetOK'
  BY DEF BlockInv, TargetOK
<1> QED
  BY <1>1, <1>2, <1>3, <1>4 DEF BlockInv

(* The thread becomes Blocked and m_blocker is set.                        *)
LEMMA BeginBlockingStep ==
  ASSUME BlockInv, NEW t \in Thread, NEW timed \in BOOLEAN, BeginBlocking(t, timed) PROVE BlockInv'
<1> USE DEF BlockInv, BeginBlocking, Goto, queueVars
<1>1. TypeOK'
  BY DEF TypeOK, Location
<1>2. BlockedIffBlocker'
  BY DEF BlockedIffBlocker, TypeOK
<1>3. g_scheduler_lock = t
  BY DEF LockOK
<1> QED
  BY <1>1, <1>2, <1>3, ThreadStep DEF Location

(* A timeout in the past ends the wait before it has begun.                *)
LEMMA TimeoutInThePastStep ==
  ASSUME BlockInv, NEW t \in Thread, TimeoutInThePast(t) PROVE BlockInv'
<1> USE DEF BlockInv, TimeoutInThePast, Goto, queueVars, lockVars, threadVars, blockerVars, timerVars
<1>1. TypeOK'
  BY DEF TypeOK, Location, Result
<1>2. BlockedIffBlocker'
  BY DEF BlockedIffBlocker, TypeOK
<1> QED
  BY <1>1, <1>2, ThreadStep DEF Location

(* The thread runs again; m_blocker was forgotten by who unblocked it.     *)
LEMMA ResumeStep ==
  ASSUME BlockInv, NEW t \in Thread, Resume(t) PROVE BlockInv'
<1> USE DEF BlockInv, Resume, Goto, queueVars, lockVars, threadVars, blockerVars, timerVars
<1>1. TypeOK'
  BY DEF TypeOK, Location, Result
<1>2. BlockedIffBlocker'
  BY DEF BlockedIffBlocker, TypeOK
<1> QED
  BY <1>1, <1>2, ThreadStep DEF Location

(* end_blocking, and the timer is cancelled.                               *)
LEMMA EndBlockingStep ==
  ASSUME BlockInv, NEW t \in Thread, EndBlocking(t) PROVE BlockInv'
<1> USE DEF BlockInv, EndBlocking, Goto, queueVars, lockVars, threadVars, blockerVars, timerVars
<1>1. TypeOK'
  BY DEF TypeOK, Location, Result
<1>2. BlockedIffBlocker'
  BY DEF BlockedIffBlocker, TypeOK
<1> QED
  BY <1>1, <1>2, ThreadStep DEF Location

(* finalize() takes the blocker out of the set: no waker holds m_lock, so  *)
(* none works on it.                                                       *)
LEMMA FinalizeStep ==
  ASSUME BlockInv, NEW t \in Thread, Finalize(t) PROVE BlockInv'
<1> USE DEF BlockInv, Goto, queueVars, lockVars, threadVars, blockerVars, timerVars
<1>0. /\ pc[t] = "finalize" /\ m_lock = Nobody
      /\ UNCHANGED <<m_wake_requested, m_lock, threadVars, timer, wake, deferred>>
      /\ pc' = [pc EXCEPT ![t] = "out"] /\ m_blockers' = remove_blocker(m_blockers, t)
      /\ g_scheduler_lock' = IF g_scheduler_lock = t THEN Nobody ELSE g_scheduler_lock
  BY DEF Finalize
<1>1. \A w \in Waker : wake[w] = Idle
  BY <1>0, ActorAssumption DEF LockOK
<1>2. /\ m_blockers' \in Seq(Thread) /\ Range(m_blockers') = Range(m_blockers) \ {t}
      /\ IsInjective(m_blockers')
  BY <1>0, RemoveBlockerFacts DEF BlockersOK, TypeOK
<1>3. TypeOK'
  BY <1>0, <1>1, <1>2 DEF TypeOK, Location, Result, Finalize
<1>4. wake' \in [Waker -> {Idle} \cup Wake] /\ \A w \in Waker : WakeOK(w)'
  BY <1>0 DEF WakeOK
<1>5. LockOK'
  BY <1>0, <1>1 DEF LockOK, TypeOK
<1>6. BlockersOK'
  BY <1>0, <1>2 DEF BlockersOK, TypeOK
<1>7. TargetOK'
  BY <1>0, <1>1 DEF TargetOK
<1>8. BlockedIffBlocker'
  BY <1>0 DEF BlockedIffBlocker, TypeOK
<1> QED
  BY <1>3, <1>4, <1>5, <1>6, <1>7, <1>8

(* die_if_needed, outside of block_impl.                                   *)
LEMMA DieStep == ASSUME BlockInv, NEW t \in Thread, Die(t) PROVE BlockInv'
<1> USE DEF BlockInv, Die, queueVars, lockVars, blockerVars, timerVars
<1>1. TypeOK'
  BY DEF TypeOK
<1>2. wake' \in [Waker -> {Idle} \cup Wake] /\ \A w \in Waker : WakeOK(w)'
  BY DEF WakeOK
<1>3. LockOK' /\ BlockersOK' /\ TargetOK' /\ BlockedIffBlocker'
  BY DEF LockOK, BlockersOK, TargetOK, BlockedIffBlocker
<1> QED
  BY <1>1, <1>2, <1>3

-----------------------------------------------------------------------------
(* What else unblocks a thread.                                            *)

(* Thread::unblock keeps m_blocker and m_state in step.                    *)
LEMMA UnblockFacts ==
  ASSUME BlockInv, NEW t \in Thread, pc' = pc,
         (t \in m_blocker /\ Unblock(t)) \/ UNCHANGED <<m_blocker, m_state>>
  PROVE  /\ m_blocker' \subseteq Thread
         /\ m_state' \in [Thread -> {"Running", "Blocked", "Runnable"}]
         /\ BlockedIffBlocker'
BY DEF BlockInv, TypeOK, BlockedIffBlocker, Unblock

(* A step that leaves the threads where they are, and the list of blockers *)
(* and the wakers alone.                                                   *)
LEMMA OutsideStep ==
  ASSUME BlockInv, TypeOK', BlockedIffBlocker',
         UNCHANGED <<m_blockers, m_lock, g_scheduler_lock, wake, pc, m_did_unblock>>
  PROVE  BlockInv'
<1> USE DEF BlockInv
<1>1. wake' \in [Waker -> {Idle} \cup Wake] /\ \A w \in Waker : WakeOK(w)'
  BY DEF WakeOK
<1>2. LockOK' /\ BlockersOK' /\ TargetOK'
  BY DEF LockOK, BlockersOK, TargetOK
<1> QED
  BY <1>1, <1>2

(* The callback of the timer.                                              *)
LEMMA TimerFiresStep == ASSUME BlockInv, NEW t \in Thread, TimerFires(t) PROVE BlockInv'
<1>0. pc' = pc /\ ((t \in m_blocker /\ Unblock(t)) \/ UNCHANGED <<m_blocker, m_state>>)
  BY DEF TimerFires
<1>1. /\ m_blocker' \subseteq Thread /\ BlockedIffBlocker'
      /\ m_state' \in [Thread -> {"Running", "Blocked", "Runnable"}]
  BY <1>0, UnblockFacts
<1>2. timeout_unblocked' \in [Thread -> BOOLEAN] /\ timer' \in [Thread -> {"none", "armed", "fired"}]
  BY DEF TimerFires, BlockInv, TypeOK
<1>3. UNCHANGED <<queueVars, lockVars, m_should_die, blockerVars, result, pc, wake, deferred>>
  BY DEF TimerFires
<1>4. TypeOK'
  BY <1>1, <1>2, <1>3 DEF BlockInv, TypeOK, queueVars, lockVars, blockerVars
<1> QED
  BY <1>1, <1>3, <1>4, OutsideStep DEF queueVars, lockVars, blockerVars

(* A signal.                                                               *)
LEMMA SendSignalStep == ASSUME BlockInv, NEW t \in Thread, SendSignal(t) PROVE BlockInv'
<1>0. pc' = pc /\ t \in m_blocker /\ Unblock(t)
  BY DEF SendSignal
<1>1. /\ m_blocker' \subseteq Thread /\ BlockedIffBlocker'
      /\ m_state' \in [Thread -> {"Running", "Blocked", "Runnable"}]
  BY <1>0, UnblockFacts
<1>2. interrupted' \in [Thread -> {"no", "signal", "death"}]
  BY DEF SendSignal, BlockInv, TypeOK
<1>3. UNCHANGED <<queueVars, lockVars, m_should_die, m_is_blocking, m_did_unblock,
                  timerVars, result, pc, wake, deferred>>
  BY DEF SendSignal
<1>4. TypeOK'
  BY <1>1, <1>2, <1>3 DEF BlockInv, TypeOK, queueVars, lockVars, timerVars
<1> QED
  BY <1>1, <1>3, <1>4, OutsideStep DEF queueVars, lockVars

(* set_should_die.                                                         *)
LEMMA SetShouldDieStep == ASSUME BlockInv, NEW t \in Thread, SetShouldDie(t) PROVE BlockInv'
<1>0. pc' = pc /\ ((t \in m_blocker /\ Unblock(t)) \/ UNCHANGED <<m_blocker, m_state>>)
  BY DEF SetShouldDie
<1>1. /\ m_blocker' \subseteq Thread /\ BlockedIffBlocker'
      /\ m_state' \in [Thread -> {"Running", "Blocked", "Runnable"}]
  BY <1>0, UnblockFacts
<1>2. interrupted' \in [Thread -> {"no", "signal", "death"}] /\ m_should_die' \subseteq Thread
  BY DEF SetShouldDie, BlockInv, TypeOK
<1>3. UNCHANGED <<queueVars, lockVars, m_is_blocking, m_did_unblock,
                  timerVars, result, pc, wake, deferred>>
  BY DEF SetShouldDie
<1>4. TypeOK'
  BY <1>1, <1>2, <1>3 DEF BlockInv, TypeOK, queueVars, lockVars, timerVars
<1> QED
  BY <1>1, <1>3, <1>4, OutsideStep DEF queueVars, lockVars

(* A call that an interrupt handler had deferred.                          *)
LEMMA DeferredUnblockStep ==
  ASSUME BlockInv, NEW w \in Waker, NEW t \in Thread, DeferredUnblock(w, t) PROVE BlockInv'
<1>0. pc' = pc /\ ((t \in m_blocker /\ Unblock(t)) \/ UNCHANGED <<m_blocker, m_state>>)
  BY DEF DeferredUnblock
<1>1. /\ m_blocker' \subseteq Thread /\ BlockedIffBlocker'
      /\ m_state' \in [Thread -> {"Running", "Blocked", "Runnable"}]
  BY <1>0, UnblockFacts
<1>2. deferred' \subseteq Waker \X Thread
  BY DEF DeferredUnblock, BlockInv, TypeOK
<1>3. UNCHANGED <<queueVars, lockVars, m_should_die, blockerVars, timerVars, result, pc, wake>>
  BY DEF DeferredUnblock
<1>4. TypeOK'
  BY <1>1, <1>2, <1>3 DEF BlockInv, TypeOK, queueVars, lockVars, timerVars, blockerVars
<1> QED
  BY <1>1, <1>3, <1>4, OutsideStep DEF queueVars, lockVars, blockerVars

-----------------------------------------------------------------------------
(* The wakers.                                                             *)

(* A waker that is at work holds m_lock, so that the others are idle.      *)
LEMMA RunningWaker ==
  ASSUME BlockInv, NEW w \in Waker, wake[w] # Idle
  PROVE  /\ m_lock = w /\ wake[w] \in Wake /\ wake[w].woke <= wake[w].count
         /\ wake[w].pc = "unblock" => wake[w].woke < wake[w].count
         /\ \A v \in Waker : v # w => wake[v] = Idle
BY DEF BlockInv, WakeOK, LockOK

(* A step of waker w that ends with v as what it is doing.                 *)
LEMMA WakerStepOK ==
  ASSUME BlockInv, NEW w \in Waker, NEW v \in Wake, wake' = [wake EXCEPT ![w] = v],
         v.woke <= v.count, v.pc = "unblock" => v.woke < v.count,
         m_lock' = w, \A x \in Waker : x # w => wake[x] = Idle
  PROVE  /\ wake' \in [Waker -> {Idle} \cup Wake] /\ wake'[w] = v
         /\ \A x \in Waker : WakeOK(x)'
         /\ \A x \in Waker : x # w => wake'[x] = Idle
         /\ \A x \in Waker : wake'[x] # Idle => /\ wake'[x].pc \in {"scan", "unblock"}
                                               /\ wake'[x].i \in Nat \ {0}
                                               /\ wake'[x].woke \in 0..wake'[x].count
         /\ \A x \in Waker : wake'[x] # Idle => m_lock' = x
<1>1. wake' \in [Waker -> {Idle} \cup Wake] /\ wake'[w] = v /\ \A x \in Waker : x # w => wake'[x] = Idle
  BY DEF BlockInv
<1>2. v.count \in Nat /\ v.woke \in 0..v.count /\ v.i \in Nat \ {0} /\ v.pc \in {"scan", "unblock"}
  BY DEF Wake
<1> QED
  BY <1>1, <1>2 DEF WakeOK

(* A waker takes m_lock and starts at the first blocker.                   *)
LEMMA WakeBeginStep ==
  ASSUME BlockInv, NEW w \in Waker, NEW n \in WakeCounts, NEW irq \in BOOLEAN, WakeBegin(w, n, irq)
  PROVE  BlockInv'
<1> DEFINE v == [pc |-> "scan", irq |-> irq, count |-> n, i |-> 1, woke |-> 0]
<1>1. v \in Wake /\ v.woke <= v.count /\ v.pc = "scan"
  BY WakeCountsAssumption DEF Wake
<1>2. /\ wake' = [wake EXCEPT ![w] = v] /\ m_lock' = w /\ m_lock = Nobody
      /\ UNCHANGED <<queueVars, g_scheduler_lock, threadVars, blockerVars, timerVars, result, pc, deferred>>
  BY DEF WakeBegin
<1>3. \A x \in Waker : wake[x] = Idle
  BY <1>2, ActorAssumption DEF BlockInv, LockOK
<1> HIDE DEF v
<1>4. /\ wake' \in [Waker -> {Idle} \cup Wake] /\ wake'[w] = v
      /\ \A x \in Waker : WakeOK(x)'
      /\ \A x \in Waker : x # w => wake'[x] = Idle
      /\ \A x \in Waker : wake'[x] # Idle => /\ wake'[x].pc \in {"scan", "unblock"}
                                            /\ wake'[x].i \in Nat \ {0}
                                            /\ wake'[x].woke \in 0..wake'[x].count
      /\ \A x \in Waker : wake'[x] # Idle => m_lock' = x
  BY <1>1, <1>2, <1>3, WakerStepOK
<1> USE DEF BlockInv, queueVars, threadVars, blockerVars, timerVars
<1>5. TypeOK'
  BY <1>2, <1>4 DEF TypeOK
<1>6. LockOK'
  BY <1>2, <1>4 DEF LockOK
<1>7. BlockersOK' /\ BlockedIffBlocker'
  BY <1>2 DEF BlockersOK, BlockedIffBlocker
<1>8. TargetOK'
  BY <1>1, <1>4 DEF TargetOK
<1> QED
  BY <1>4, <1>5, <1>6, <1>7, <1>8

(* A step of waker w that takes at most one blocker out of the list.       *)
LEMMA ScanStep ==
  ASSUME BlockInv, NEW w \in Waker, wake[w] # Idle, NEW v \in Wake, wake' = [wake EXCEPT ![w] = v],
         v.woke <= v.count, v.pc = "unblock" => v.woke < v.count,
         wake[w].i \in DOMAIN m_blockers,
         m_blockers' = m_blockers \/ (m_blockers' = RemoveAt(m_blockers, wake[w].i) /\ v.pc = "scan"),
         v.pc = "unblock" => /\ v.i = wake[w].i
                             /\ m_did_unblock'[m_blockers[v.i]],
         m_did_unblock' \in [Thread -> BOOLEAN], m_is_blocking' \in [Thread -> BOOLEAN],
         deferred' \subseteq Waker \X Thread, m_blocker' \subseteq Thread,
         m_state' \in [Thread -> {"Running", "Blocked", "Runnable"}], BlockedIffBlocker',
         UNCHANGED <<m_wake_requested, m_lock, g_scheduler_lock, m_should_die, interrupted,
                     timer, timeout_unblocked, result, pc>>
  PROVE  BlockInv'
<1>1. m_lock = w /\ \A x \in Waker : x # w => wake[x] = Idle
  BY RunningWaker
<1>2. /\ wake' \in [Waker -> {Idle} \cup Wake] /\ wake'[w] = v
      /\ \A x \in Waker : WakeOK(x)'
      /\ \A x \in Waker : x # w => wake'[x] = Idle
      /\ \A x \in Waker : wake'[x] # Idle => /\ wake'[x].pc \in {"scan", "unblock"}
                                            /\ wake'[x].i \in Nat \ {0}
                                            /\ wake'[x].woke \in 0..wake'[x].count
      /\ \A x \in Waker : wake'[x] # Idle => m_lock' = x
  BY <1>1, WakerStepOK
<1>3. /\ m_blockers \in Seq(Thread) /\ IsInjective(m_blockers)
  BY DEF BlockInv, TypeOK, BlockersOK
<1>4. m_blockers' \in Seq(Thread) /\ Range(m_blockers') \subseteq Range(m_blockers) /\ IsInjective(m_blockers')
  BY <1>3, RemoveAtFacts
<1> USE DEF BlockInv
<1>5. TypeOK'
  BY <1>2, <1>4 DEF TypeOK
<1>6. LockOK'
  BY <1>2 DEF LockOK
<1>7. BlockersOK'
  BY <1>4 DEF BlockersOK
<1>8. TargetOK'
  <2> SUFFICES ASSUME NEW x \in Waker, wake'[x] # Idle, wake'[x].pc = "unblock"
               PROVE  wake'[x].i \in DOMAIN m_blockers' /\ m_did_unblock'[m_blockers'[wake'[x].i]]
    BY DEF TargetOK
  <2>1. x = w /\ v.pc = "unblock" /\ v.i = wake[w].i /\ wake'[x].i = v.i
    BY <1>2
  <2>2. m_blockers' = m_blockers
    BY <2>1
  <2> QED
    BY <2>1, <2>2
<1> QED
  BY <1>2, <1>5, <1>6, <1>7, <1>8

(* The scan goes on to the next blocker, takes this one out of the set, or *)
(* is on its way to its thread.                                            *)
LEMMA WakeVisitStep == ASSUME BlockInv, NEW w \in Waker, WakeVisit(w) PROVE BlockInv'
<1> DEFINE u == wake[w]
           t == m_blockers[u.i]
           skip == [u EXCEPT !.i = @ + 1]
           stop == [u EXCEPT !.pc = "unblock"]
           take == [u EXCEPT !.woke = @ + 1]
<1>0. wake[w] # Idle /\ u.pc = "scan" /\ ~Exhausted(w)
  BY DEF WakeVisit, Scanning
<1>1. m_lock = w /\ u \in Wake
  BY <1>0, RunningWaker
<1>2. m_blockers \in Seq(Thread) /\ u.i \in DOMAIN m_blockers /\ t \in Thread /\ u.woke < u.count
  BY <1>0, <1>1 DEF Exhausted, Wake, BlockInv, TypeOK
<1>3. UNCHANGED <<m_wake_requested, lockVars, threadVars, interrupted, timerVars, result, pc>>
  BY DEF WakeVisit
<1>4. BlockedIffBlocker'
  BY <1>3 DEF BlockInv, BlockedIffBlocker, threadVars
<1>5. /\ m_blocker' \subseteq Thread /\ m_state' \in [Thread -> {"Running", "Blocked", "Runnable"}]
      /\ m_did_unblock \in [Thread -> BOOLEAN] /\ m_is_blocking \in [Thread -> BOOLEAN]
      /\ deferred \subseteq Waker \X Thread
  BY <1>3 DEF BlockInv, TypeOK, threadVars
<1>6. /\ skip \in Wake /\ skip.pc = "scan" /\ skip.woke = u.woke /\ skip.count = u.count
      /\ stop \in Wake /\ stop.pc = "unblock" /\ stop.woke = u.woke /\ stop.count = u.count
      /\ stop.i = u.i
      /\ take \in Wake /\ take.pc = "scan" /\ take.woke = u.woke + 1 /\ take.count = u.count
  BY <1>0, <1>1 DEF Wake
<1>7. u.woke \in Nat /\ u.count \in Nat
  BY <1>1 DEF Wake
<1>8. CASE m_did_unblock[t]
  <2>1. /\ wake' = [wake EXCEPT ![w] = skip]
        /\ UNCHANGED <<m_blockers, m_is_blocking, m_did_unblock, deferred>>
    BY <1>8 DEF WakeVisit
  <2>2. skip.woke <= skip.count
    BY <1>2, <1>6, <1>7
  <2> HIDE DEF skip
  <2> QED
    BY <1>0, <1>2, <1>3, <1>4, <1>5, <1>6, <2>1, <2>2, ScanStep DEF lockVars, threadVars, timerVars
<1>9. CASE ~m_did_unblock[t] /\ m_is_blocking[t] /\ ~u.irq
  <2>1. /\ m_did_unblock' = [m_did_unblock EXCEPT ![t] = TRUE]
        /\ m_is_blocking' = [m_is_blocking EXCEPT ![t] = FALSE]
        /\ wake' = [wake EXCEPT ![w] = stop]
        /\ UNCHANGED <<m_blockers, deferred>>
    BY <1>9 DEF WakeVisit
  <2>2. m_did_unblock' \in [Thread -> BOOLEAN] /\ m_is_blocking' \in [Thread -> BOOLEAN] /\ m_did_unblock'[t]
    BY <1>2, <1>5, <2>1
  <2>3. stop.woke <= stop.count /\ stop.woke < stop.count /\ m_did_unblock'[m_blockers[stop.i]]
    BY <1>2, <1>6, <1>7, <2>2
  <2> HIDE DEF stop
  <2> QED
    BY <1>0, <1>2, <1>3, <1>4, <1>5, <1>6, <2>1, <2>2, <2>3, ScanStep DEF lockVars, threadVars, timerVars
<1>10. CASE ~m_did_unblock[t] /\ ~(m_is_blocking[t] /\ ~u.irq)
  <2>1. /\ m_did_unblock' = [m_did_unblock EXCEPT ![t] = TRUE]
        /\ m_is_blocking' = [m_is_blocking EXCEPT ![t] = FALSE]
        /\ wake' = [wake EXCEPT ![w] = take]
        /\ m_blockers' = RemoveAt(m_blockers, wake[w].i)
        /\ deferred' \in {deferred, deferred \cup {<<w, t>>}}
    BY <1>10 DEF WakeVisit
  <2>2. m_did_unblock' \in [Thread -> BOOLEAN] /\ m_is_blocking' \in [Thread -> BOOLEAN]
        /\ deferred' \subseteq Waker \X Thread
    BY <1>2, <1>5, <2>1
  <2>3. take.woke <= take.count
    BY <1>2, <1>6, <1>7
  <2> HIDE DEF take
  <2> QED
    BY <1>0, <1>2, <1>3, <1>4, <1>5, <1>6, <1>7, <2>1, <2>2, <2>3, ScanStep DEF lockVars, threadVars, timerVars
<1> QED
  BY <1>8, <1>9, <1>10

(* The waker makes the thread runnable and takes its blocker out.          *)
LEMMA WakeUnblockStep == ASSUME BlockInv, NEW w \in Waker, WakeUnblock(w) PROVE BlockInv'
<1> DEFINE u == wake[w]
           t == m_blockers[u.i]
           v == [u EXCEPT !.pc = "scan", !.woke = @ + 1]
<1>0. wake[w] # Idle /\ u.pc = "unblock"
  BY DEF WakeUnblock
<1>1. u \in Wake /\ u.woke < u.count
  BY <1>0, RunningWaker
<1>2. m_blockers \in Seq(Thread) /\ u.i \in DOMAIN m_blockers /\ t \in Thread
  BY <1>0 DEF BlockInv, TypeOK, TargetOK
<1>3. v \in Wake /\ v.pc = "scan" /\ v.woke <= v.count
  <2> DEFINE n == u.woke + 1
  <2> HIDE DEF u
  <2>1. u.woke \in Nat /\ u.count \in Nat /\ n \in Nat /\ n <= u.count
    BY <1>1 DEF Wake
  <2>2. v = [u EXCEPT !.pc = "scan", !.woke = n]
    OBVIOUS
  <2> HIDE DEF n, v
  <2>3. v \in Wake /\ v.pc = "scan" /\ v.woke = n /\ v.count = u.count
    BY <1>1, <2>1, <2>2 DEF Wake
  <2> QED BY <2>1, <2>3
<1>4. /\ UNCHANGED <<m_wake_requested, lockVars, m_should_die, blockerVars, timerVars, result, pc, deferred>>
      /\ wake' = [wake EXCEPT ![w] = v]
      /\ m_blockers' = RemoveAt(m_blockers, wake[w].i)
  BY DEF WakeUnblock
<1>5. pc' = pc /\ ((t \in m_blocker /\ Unblock(t)) \/ UNCHANGED <<m_blocker, m_state>>)
  BY DEF WakeUnblock
<1>6. /\ m_blocker' \subseteq Thread /\ BlockedIffBlocker'
      /\ m_state' \in [Thread -> {"Running", "Blocked", "Runnable"}]
  BY <1>2, <1>5, UnblockFacts
<1>7. /\ m_did_unblock' \in [Thread -> BOOLEAN] /\ m_is_blocking' \in [Thread -> BOOLEAN]
      /\ deferred' \subseteq Waker \X Thread
  BY <1>4 DEF BlockInv, TypeOK, blockerVars
<1> HIDE DEF v
<1> QED
  BY <1>0, <1>2, <1>3, <1>4, <1>6, <1>7, ScanStep DEF lockVars, blockerVars, timerVars

(* The waker gives m_lock back.                                            *)
LEMMA WakeEndStep == ASSUME BlockInv, NEW w \in Waker, WakeEnd(w) PROVE BlockInv'
<1>1. /\ wake[w] # Idle /\ wake' = [wake EXCEPT ![w] = Idle] /\ m_lock' = Nobody
      /\ m_wake_requested' \in BOOLEAN
      /\ UNCHANGED <<m_blockers, g_scheduler_lock, threadVars, blockerVars, timerVars, result, pc, deferred>>
  BY DEF WakeEnd, Scanning
<1>2. \A x \in Waker : x # w => wake[x] = Idle
  BY <1>1, RunningWaker
<1> HIDE DEF Idle
<1>3. wake' \in [Waker -> {Idle} \cup Wake] /\ \A x \in Waker : wake'[x] = Idle
  BY <1>1, <1>2 DEF BlockInv
<1> USE DEF BlockInv, threadVars, blockerVars, timerVars
<1>4. TypeOK'
  BY <1>1, <1>3 DEF TypeOK
<1>5. \A x \in Waker : WakeOK(x)'
  BY <1>3 DEF WakeOK
<1>6. LockOK' /\ TargetOK'
  BY <1>1, <1>3 DEF LockOK, TargetOK
<1>7. BlockersOK' /\ BlockedIffBlocker'
  BY <1>1 DEF BlockersOK, BlockedIffBlocker
<1> QED
  BY <1>3, <1>4, <1>5, <1>6, <1>7

-----------------------------------------------------------------------------
(* Every step preserves BlockInv, whatever the number of processors.       *)
LEMMA NextBlockInv == BlockInv /\ [Next]_vars => BlockInv'
<1> SUFFICES ASSUME BlockInv, [Next]_vars PROVE BlockInv'
  OBVIOUS
<1>1. ASSUME NEW t \in Thread, BlockEnter(t) \/ BlockStep(t) \/ Die(t) PROVE BlockInv'
  BY <1>1, BlockEnterStep, SetupBlockerStep, BeginBlockingStep, TimeoutInThePastStep, ResumeStep,
     EndBlockingStep, FinalizeStep, DieStep DEF BlockStep
<1>2. ASSUME NEW t \in Thread, TimerFires(t) \/ SendSignal(t) \/ SetShouldDie(t) PROVE BlockInv'
  BY <1>2, TimerFiresStep, SendSignalStep, SetShouldDieStep
<1>3. ASSUME NEW w \in Waker, NEW n \in WakeCounts, NEW irq \in BOOLEAN, WakeBegin(w, n, irq) PROVE BlockInv'
  BY <1>3, WakeBeginStep
<1>4. ASSUME NEW w \in Waker, WakerStep(w) PROVE BlockInv'
  BY <1>4, WakeVisitStep, WakeUnblockStep, WakeEndStep DEF WakerStep
<1>5. ASSUME NEW w \in Waker, NEW t \in Thread, DeferredUnblock(w, t) PROVE BlockInv'
  BY <1>5, DeferredUnblockStep
<1>6. CASE UNCHANGED vars
  <2> USE <1>6 DEF vars, queueVars, lockVars, threadVars, blockerVars, timerVars
  <2>1. TypeOK' /\ BlockedIffBlocker'
    BY DEF BlockInv, TypeOK, BlockedIffBlocker
  <2> QED
    BY <2>1, OutsideStep
<1> QED
  BY <1>1, <1>2, <1>3, <1>4, <1>5, <1>6 DEF Next

(* So it holds in every reachable state.                                   *)
LEMMA BlockInvariance == Spec => []BlockInv
BY InitBlockInv, NextBlockInv, PTL DEF Spec

(* The types of all variables, for any number of threads, wakers and       *)
(* processors; did_wake stays within wake_count, as wake_n VERIFYs.        *)
THEOREM TypeCorrect == Spec => []TypeOK
<1>1. BlockInv => TypeOK
  BY DEF BlockInv
<1> QED
  BY <1>1, BlockInvariance, PTL

(* A blocker is in the set once and only while its block_impl has not      *)
(* returned, and a waker on its way to the thread works on a live one,     *)
(* for any number of processors.                                           *)
THEOREM NoDanglingBlockerHolds == Spec => []NoDanglingBlocker
<1>1. BlockInv => NoDanglingBlocker
  <2> SUFFICES ASSUME BlockInv PROVE NoDanglingBlocker
    OBVIOUS
  <2>1. \A i \in DOMAIN m_blockers : m_blockers[i] \in Range(m_blockers)
    BY DEF Range
  <2> QED
    BY <2>1 DEF BlockInv, BlockersOK, TargetOK, Target, NoDanglingBlocker, IsInjective
<1> QED
  BY <1>1, BlockInvariance, PTL

(* m_blocker is set exactly while the thread is Blocked in block_impl, for *)
(* any number of processors.                                               *)
THEOREM BlockedIffBlockerHolds == Spec => []BlockedIffBlocker
<1>1. BlockInv => BlockedIffBlocker
  BY DEF BlockInv
<1> QED
  BY <1>1, BlockInvariance, PTL

-----------------------------------------------------------------------------
(* One processor.                                                          *)

(* While a thread runs, nobody wakes anybody.                              *)
LEMMA ThreadRuns ==
  ASSUME ~SMP, BlockInv, ProcessorInv, NEW t \in Thread, CanRun(t)
  PROVE  /\ m_lock = Nobody /\ deferred = {} /\ \A w \in Waker : wake[w] = Idle
         /\ \A u \in Thread : ~(m_state[u] = "Blocked" /\ m_did_unblock[u])
<1>1. m_lock = Nobody /\ deferred = {}
  BY ActorAssumption DEF CanRun, BlockInv, TypeOK
<1>2. \A w \in Waker : wake[w] = Idle
  BY <1>1, ActorAssumption DEF BlockInv, LockOK
<1> QED
  BY <1>1, <1>2 DEF ProcessorInv, NoLostWakeup

(* While a waker runs, no thread is on its way into the wait.              *)
LEMMA WakerRuns ==
  ASSUME ~SMP, BlockInv, NEW w \in Waker, CanRun(w)
  PROVE  /\ g_scheduler_lock = Nobody
         /\ \A t \in Thread : pc[t] \notin {"setup", "registered"}
BY ActorAssumption DEF CanRun, BlockInv, TypeOK, LockOK

(* Steps of a thread.                                                      *)
LEMMA ThreadProcessorInv ==
  ASSUME ~SMP, BlockInv, ProcessorInv, NEW t \in Thread, BlockEnter(t) \/ BlockStep(t) \/ Die(t)
  PROVE  ProcessorInv'
<1>0. CanRun(t)
  BY DEF BlockEnter, BlockStep, Die, SetupBlocker, BeginBlocking, TimeoutInThePast, Resume,
         EndBlocking, Finalize
<1>1. /\ m_lock = Nobody /\ deferred = {} /\ \A w \in Waker : wake[w] = Idle
      /\ \A u \in Thread : ~(m_state[u] = "Blocked" /\ m_did_unblock[u])
  BY <1>0, ThreadRuns
<1>2. m_lock' = Nobody /\ deferred' = {}
  BY <1>1 DEF BlockEnter, BlockStep, Die, SetupBlocker, BeginBlocking, TimeoutInThePast, Resume,
              EndBlocking, Finalize, lockVars
<1>3. OneLock'
  BY <1>2 DEF OneLock
<1> USE DEF BlockInv, TypeOK, Goto, queueVars, lockVars, threadVars, blockerVars, timerVars
<1>4. CASE BlockEnter(t) \/ SetupBlocker(t) \/ Die(t)
  <2>1. /\ UNCHANGED <<m_state, blockerVars, timerVars, result>>
        /\ \/ pc' = pc
           \/ pc[t] \in {"out", "setup"}
              /\ \E l \in {"out", "setup", "registered"} : pc' = [pc EXCEPT ![t] = l]
    BY <1>4 DEF BlockEnter, SetupBlocker, Die
  <2>2. FreshBlocker'
    BY <2>1 DEF ProcessorInv, FreshBlocker
  <2>3. ReasonOK' /\ NoLostWakeup'
    BY <1>1, <1>2, <2>1 DEF ProcessorInv, ReasonOK, NoLostWakeup
  <2>4. ResultTruthful'
    BY <2>1 DEF ProcessorInv, ResultTruthful
  <2> QED BY <1>3, <2>2, <2>3, <2>4 DEF ProcessorInv
<1>5. ASSUME NEW timed \in BOOLEAN, BeginBlocking(t, timed) PROVE ProcessorInv'
  <2>1. FreshBlocker'
    BY <1>5 DEF BeginBlocking, ProcessorInv, FreshBlocker
  <2>2. ReasonOK' /\ NoLostWakeup'
    BY <1>1, <1>2, <1>5 DEF BeginBlocking, ProcessorInv, FreshBlocker, ReasonOK, NoLostWakeup
  <2>3. ResultTruthful'
    BY <1>5 DEF BeginBlocking, ProcessorInv, ResultTruthful
  <2> QED BY <1>3, <2>1, <2>2, <2>3 DEF ProcessorInv
<1>6. CASE TimeoutInThePast(t)
  <2>1. FreshBlocker'
    BY <1>6 DEF TimeoutInThePast, ProcessorInv, FreshBlocker
  <2>2. ReasonOK' /\ NoLostWakeup'
    BY <1>1, <1>2, <1>6 DEF TimeoutInThePast, ProcessorInv, ReasonOK, NoLostWakeup
  <2>3. ResultTruthful'
    BY <1>6 DEF TimeoutInThePast, ProcessorInv, ResultTruthful
  <2> QED BY <1>3, <2>1, <2>2, <2>3 DEF ProcessorInv
<1>7. CASE Resume(t)
  <2>1. FreshBlocker'
    BY <1>7 DEF Resume, ProcessorInv, FreshBlocker
  <2>2. ReasonOK' /\ NoLostWakeup'
    BY <1>1, <1>2, <1>7 DEF Resume, ProcessorInv, ReasonOK, NoLostWakeup
  <2>3. ResultTruthful'
    BY <1>7 DEF Resume, ProcessorInv, ResultTruthful, FreshBlocker, ReasonOK
  <2> QED BY <1>3, <2>1, <2>2, <2>3 DEF ProcessorInv
<1>8. CASE EndBlocking(t)
  <2>0. m_state[t] = "Running"
    BY <1>8 DEF EndBlocking, BlockedIffBlocker
  <2>1. FreshBlocker'
    BY <1>8, <2>0 DEF EndBlocking, ProcessorInv, FreshBlocker
  <2>2. ReasonOK' /\ NoLostWakeup'
    BY <1>1, <1>2, <1>8 DEF EndBlocking, ProcessorInv, ReasonOK, NoLostWakeup
  <2>3. ResultTruthful'
    BY <1>8 DEF EndBlocking, ProcessorInv, ResultTruthful
  <2> QED BY <1>3, <2>1, <2>2, <2>3 DEF ProcessorInv
<1>9. CASE Finalize(t)
  <2>0. m_state[t] = "Running"
    BY <1>9 DEF Finalize, BlockedIffBlocker
  <2>1. FreshBlocker'
    BY <1>9, <2>0 DEF Finalize, ProcessorInv, FreshBlocker
  <2>2. ReasonOK' /\ NoLostWakeup'
    BY <1>1, <1>2, <1>9, <2>0 DEF Finalize, ProcessorInv, ReasonOK, NoLostWakeup
  <2>3. ResultTruthful'
    BY <1>9 DEF Finalize, ProcessorInv, ResultTruthful
  <2> QED BY <1>3, <2>1, <2>2, <2>3 DEF ProcessorInv
<1> QED
  BY <1>4, <1>5, <1>6, <1>7, <1>8, <1>9 DEF BlockStep

(* A timer, a signal or death, or a deferred call, unblocks at most one    *)
(* thread and leaves the wakers and the locks alone.                       *)
LEMMA OutsideProcessorInv ==
  ASSUME ~SMP, BlockInv, ProcessorInv, NEW t \in Thread,
         TimerFires(t) \/ SendSignal(t) \/ SetShouldDie(t) \/ \E w \in Waker : DeferredUnblock(w, t)
  PROVE  ProcessorInv'
<1> USE DEF BlockInv, TypeOK, Unblock, queueVars, lockVars, threadVars, blockerVars, timerVars
<1>0. \A u \in Thread : u \in m_blocker <=> m_state[u] = "Blocked"
  BY DEF BlockedIffBlocker
<1>b. m_state[t] # "Running" => pc[t] = "blocked"
  BY DEF BlockedIffBlocker
<1>1. UNCHANGED <<m_blockers, m_lock, g_scheduler_lock, wake, pc, m_did_unblock, m_is_blocking, result>>
  BY DEF TimerFires, SendSignal, SetShouldDie, DeferredUnblock
<1>2. OneLock'
  BY <1>1 DEF ProcessorInv, OneLock
<1> DEFINE Settled == \A u \in Thread : m_state'[u] = "Blocked" =>
                        /\ m_state[u] = "Blocked"
                        /\ \A x \in Waker : <<x, u>> \in deferred => <<x, u>> \in deferred'
<1>s. ASSUME Settled PROVE NoLostWakeup'
  <2>1. \A u \in Thread : m_state[u] = "Blocked" /\ m_did_unblock[u] =>
          \E x \in Waker : \/ <<x, u>> \in deferred
                           \/ wake[x] # Idle /\ wake[x].pc = "unblock" /\ m_blockers[wake[x].i] = u
    BY DEF ProcessorInv, NoLostWakeup, Target
  <2>2. UNCHANGED <<m_blockers, wake, m_did_unblock>>
    BY <1>1
  <2> SUFFICES ASSUME NEW u \in Thread, m_state'[u] = "Blocked", m_did_unblock[u]
               PROVE  \E x \in Waker : \/ <<x, u>> \in deferred'
                                       \/ wake[x] # Idle /\ wake[x].pc = "unblock" /\ m_blockers[wake[x].i] = u
    BY <2>2 DEF NoLostWakeup, Target
  <2> QED
    BY <1>s, <2>1
<1> HIDE DEF Settled
<1>3. CASE TimerFires(t)
  <2>1. FreshBlocker'
    BY <1>0, <1>b, <1>1, <1>3 DEF TimerFires, ProcessorInv, FreshBlocker
  <2>2. ReasonOK'
    BY <1>0, <1>1, <1>3 DEF TimerFires, ProcessorInv, ReasonOK
  <2>3. NoLostWakeup'
    <3>1. deferred' = deferred /\ (m_state' = m_state \/ m_state' = [m_state EXCEPT ![t] = "Runnable"])
      BY <1>3 DEF TimerFires
    <3>2. Settled
      BY <3>1 DEF Settled
    <3> QED BY <1>s, <3>2
  <2>4. ResultTruthful'
    BY <1>1, <1>3 DEF TimerFires, ProcessorInv, ResultTruthful
  <2> QED BY <1>2, <2>1, <2>2, <2>3, <2>4 DEF ProcessorInv
<1>4. CASE SendSignal(t)
  <2>1. FreshBlocker'
    BY <1>0, <1>b, <1>1, <1>4 DEF SendSignal, ProcessorInv, FreshBlocker
  <2>2. ReasonOK'
    BY <1>0, <1>1, <1>4 DEF SendSignal, ProcessorInv, ReasonOK
  <2>3. NoLostWakeup'
    <3>1. deferred' = deferred /\ (m_state' = m_state \/ m_state' = [m_state EXCEPT ![t] = "Runnable"])
      BY <1>4 DEF SendSignal
    <3>2. Settled
      BY <3>1 DEF Settled
    <3> QED BY <1>s, <3>2
  <2>4. ResultTruthful'
    BY <1>0, <1>b, <1>1, <1>4 DEF SendSignal, ProcessorInv, ResultTruthful
  <2> QED BY <1>2, <2>1, <2>2, <2>3, <2>4 DEF ProcessorInv
<1>5. CASE SetShouldDie(t)
  <2>1. FreshBlocker'
    BY <1>0, <1>b, <1>1, <1>5 DEF SetShouldDie, ProcessorInv, FreshBlocker
  <2>2. ReasonOK'
    BY <1>0, <1>1, <1>5 DEF SetShouldDie, ProcessorInv, ReasonOK
  <2>3. NoLostWakeup'
    <3>1. deferred' = deferred /\ (m_state' = m_state \/ m_state' = [m_state EXCEPT ![t] = "Runnable"])
      BY <1>5 DEF SetShouldDie
    <3>2. Settled
      BY <3>1 DEF Settled
    <3> QED BY <1>s, <3>2
  <2>4. ResultTruthful'
    BY <1>0, <1>b, <1>1, <1>5 DEF SetShouldDie, ProcessorInv, ResultTruthful
  <2> QED BY <1>2, <2>1, <2>2, <2>3, <2>4 DEF ProcessorInv
<1>6. ASSUME NEW w \in Waker, DeferredUnblock(w, t) PROVE ProcessorInv'
  <2>1. FreshBlocker'
    BY <1>0, <1>b, <1>1, <1>6 DEF DeferredUnblock, ProcessorInv, FreshBlocker
  <2>2. ReasonOK'
    BY <1>0, <1>1, <1>6 DEF DeferredUnblock, ProcessorInv, ReasonOK
  <2>3. NoLostWakeup'
    <3>1. deferred' = deferred \ {<<w, t>>}
      BY <1>6 DEF DeferredUnblock
    <3>2. m_state'[t] # "Blocked" /\ \A u \in Thread : u # t => m_state'[u] = m_state[u]
      BY <1>0, <1>6 DEF DeferredUnblock
    <3>3. \A x \in Waker, u \in Thread : u # t /\ <<x, u>> \in deferred => <<x, u>> \in deferred'
      BY <3>1
    <3>4. Settled
      BY <3>2, <3>3 DEF Settled
    <3> QED BY <1>s, <3>4
  <2>4. ResultTruthful'
    BY <1>1, <1>6 DEF DeferredUnblock, ProcessorInv, ResultTruthful
  <2> QED BY <1>2, <2>1, <2>2, <2>3, <2>4 DEF ProcessorInv
<1> QED
  BY <1>3, <1>4, <1>5, <1>6

(* Steps of a waker: whoever is Blocked and has been unblocked by a waker  *)
(* is waiting for a deferred call, or for this waker.                      *)
LEMMA WakerProcessorInv ==
  ASSUME ~SMP, BlockInv, ProcessorInv, NEW w \in Waker,
         WakerStep(w) \/ \E n \in WakeCounts, irq \in BOOLEAN : WakeBegin(w, n, irq)
  PROVE  ProcessorInv'
<1>0. CanRun(w)
  BY DEF WakerStep, WakeBegin, WakeVisit, WakeUnblock, WakeEnd
<1>1. g_scheduler_lock = Nobody /\ \A u \in Thread : pc[u] \notin {"setup", "registered"}
  BY <1>0, WakerRuns
<1>2. g_scheduler_lock' = Nobody
  BY <1>1 DEF WakerStep, WakeBegin, WakeVisit, WakeUnblock, WakeEnd, lockVars
<1>3. OneLock'
  BY <1>2 DEF OneLock
<1>4. \A x \in Waker : x # w => wake[x] = Idle
  BY ActorAssumption, RunningWaker DEF WakerStep, WakeBegin, WakeVisit, WakeUnblock, WakeEnd, Scanning,
     BlockInv, LockOK
<1>5. wake[w] = Idle \/ wake[w].pc # "unblock" =>
        \A u \in Thread : m_state[u] = "Blocked" /\ m_did_unblock[u] =>
          \E x \in Waker : <<x, u>> \in deferred
  BY <1>4 DEF ProcessorInv, NoLostWakeup
<1> USE DEF BlockInv, TypeOK, Unblock, queueVars, lockVars, threadVars, blockerVars, timerVars
<1>6. CASE WakeEnd(w) \/ \E n \in WakeCounts, irq \in BOOLEAN : WakeBegin(w, n, irq)
  <2>1. UNCHANGED <<m_blockers, threadVars, blockerVars, timerVars, result, pc, deferred>>
        /\ (wake[w] = Idle \/ wake[w].pc # "unblock")
    BY <1>6 DEF WakeEnd, WakeBegin, Scanning
  <2>2. FreshBlocker' /\ ReasonOK' /\ ResultTruthful'
    BY <2>1 DEF ProcessorInv, FreshBlocker, ReasonOK, ResultTruthful
  <2>3. NoLostWakeup'
    BY <1>5, <2>1 DEF NoLostWakeup
  <2> QED BY <1>3, <2>2, <2>3 DEF ProcessorInv
<1>7. CASE WakeVisit(w)
  <2> DEFINE t == m_blockers[wake[w].i]
  <2>0. wake[w] # Idle /\ wake[w].pc = "scan" /\ ~Exhausted(w) /\ wake[w] \in Wake
    BY <1>7, RunningWaker DEF WakeVisit, Scanning
  <2>1. wake[w].i \in DOMAIN m_blockers /\ t \in Thread /\ t \in Range(m_blockers)
    BY <2>0 DEF Exhausted, Wake, Range
  <2>2. pc[t] \notin {"out", "setup", "registered"}
    BY <1>1, <2>1 DEF BlockersOK
  <2>3. UNCHANGED <<threadVars, interrupted, timerVars, result, pc>>
    BY <1>7 DEF WakeVisit
  <2>4. /\ \A u \in Thread : m_did_unblock[u] => m_did_unblock'[u]
        /\ \A u \in Thread : u # t => m_did_unblock'[u] = m_did_unblock[u] /\ m_is_blocking'[u] = m_is_blocking[u]
        /\ m_did_unblock'[t]
        /\ deferred \subseteq deferred'
        /\ \A x \in Waker, u \in Thread : <<x, u>> \in deferred' => <<x, u>> \in deferred \/ u = t
    <3>1. CASE m_did_unblock[t]
      <4>1. UNCHANGED <<m_is_blocking, m_did_unblock, deferred>>
        BY <1>7, <3>1 DEF WakeVisit
      <4> QED BY <3>1, <4>1
    <3>2. CASE ~m_did_unblock[t]
      <4>1. /\ m_did_unblock' = [m_did_unblock EXCEPT ![t] = TRUE]
            /\ m_is_blocking' = [m_is_blocking EXCEPT ![t] = FALSE]
            /\ deferred' = deferred \/ deferred' = deferred \cup {<<w, t>>}
        BY <1>7, <3>2 DEF WakeVisit
      <4> HIDE DEF t
      <4>2. \A u \in Thread : m_did_unblock'[u] = (u = t \/ m_did_unblock[u])
        BY <2>1, <4>1
      <4>3. \A u \in Thread : u # t => m_is_blocking'[u] = m_is_blocking[u]
        BY <2>1, <4>1
      <4>4. \A u \in Thread : u # t => m_did_unblock'[u] = m_did_unblock[u]
        BY <2>1, <4>1
      <4>5. deferred \subseteq deferred'
        BY <4>1
      <4>6. \A x \in Waker, u \in Thread : <<x, u>> \in deferred' => <<x, u>> \in deferred \/ u = t
        BY <4>1
      <4> QED BY <2>1, <4>2, <4>3, <4>4, <4>5, <4>6
    <3> QED BY <3>1, <3>2
  <2>5. FreshBlocker'
    BY <2>2, <2>3, <2>4 DEF ProcessorInv, FreshBlocker
  <2>6. ReasonOK' /\ ResultTruthful'
    BY <2>3, <2>4 DEF ProcessorInv, ReasonOK, ResultTruthful
  <2>7. NoLostWakeup'
    <3> SUFFICES ASSUME NEW u \in Thread, m_state[u] = "Blocked", m_did_unblock'[u]
                 PROVE  \E x \in Waker :
                          \/ <<x, u>> \in deferred'
                          \/ wake'[x] # Idle /\ wake'[x].pc = "unblock" /\ m_blockers'[wake'[x].i] = u
      BY <2>3 DEF NoLostWakeup, Target
    <3>1. CASE m_did_unblock[u]
      BY <1>5, <2>0, <2>4, <3>1
    <3>2. CASE ~m_did_unblock[u]
      <4>1. u = t /\ m_is_blocking[t]
        BY <2>4, <3>2 DEF ProcessorInv, FreshBlocker
      <4>2. CASE wake[w].irq
        BY <1>7, <3>2, <4>1, <4>2 DEF WakeVisit
      <4>3. CASE ~wake[w].irq
        <5>1. wake' = [wake EXCEPT ![w] = [wake[w] EXCEPT !.pc = "unblock"]] /\ m_blockers' = m_blockers
          BY <1>7, <3>2, <4>1, <4>3 DEF WakeVisit
        <5> DEFINE v == [wake[w] EXCEPT !.pc = "unblock"]
        <5>2. v \in Wake /\ v.pc = "unblock" /\ v.i = wake[w].i
          BY <2>0 DEF Wake
        <5> HIDE DEF v
        <5>3. wake'[w] = v
          BY <5>1 DEF v
        <5>4. v # Idle
          BY <5>2 DEF Idle
        <5> QED BY <4>1, <5>1, <5>2, <5>3, <5>4
      <4> QED BY <4>2, <4>3
    <3> QED BY <3>1, <3>2
  <2> QED BY <1>3, <2>5, <2>6, <2>7 DEF ProcessorInv
<1>8. CASE WakeUnblock(w)
  <2> DEFINE t == m_blockers[wake[w].i]
  <2>0. wake[w] # Idle /\ wake[w].pc = "unblock"
    BY <1>8 DEF WakeUnblock
  <2>1. t \in Thread /\ m_did_unblock[t]
    BY <2>0 DEF TargetOK
  <2>2. UNCHANGED <<blockerVars, timerVars, result, pc, deferred>>
    BY <1>8 DEF WakeUnblock
  <2>3. /\ \A u \in Thread : m_state'[u] = m_state[u] \/ (u = t /\ m_state'[u] = "Runnable")
        /\ m_state'[t] # "Blocked"
    BY <1>8, <2>1 DEF WakeUnblock, BlockedIffBlocker
  <2>4. FreshBlocker'
    BY <2>2, <2>3 DEF ProcessorInv, FreshBlocker
  <2>5. ReasonOK' /\ ResultTruthful'
    BY <2>1, <2>2, <2>3 DEF ProcessorInv, ReasonOK, ResultTruthful
  <2>6. NoLostWakeup'
    <3> SUFFICES ASSUME NEW u \in Thread, m_state'[u] = "Blocked", m_did_unblock[u]
                 PROVE  \E x \in Waker : <<x, u>> \in deferred
      BY <2>2 DEF NoLostWakeup
    <3>1. u # t /\ m_state[u] = "Blocked"
      BY <2>3
    <3> QED
      BY <1>4, <3>1 DEF ProcessorInv, NoLostWakeup, Target
  <2> QED BY <1>3, <2>4, <2>5, <2>6 DEF ProcessorInv
<1> QED
  BY <1>6, <1>7, <1>8 DEF WakerStep

(* With one processor every step preserves ProcessorInv.                   *)
LEMMA NextProcessorInv == ~SMP /\ BlockInv /\ ProcessorInv /\ [Next]_vars => ProcessorInv'
<1> SUFFICES ASSUME ~SMP, BlockInv, ProcessorInv, [Next]_vars PROVE ProcessorInv'
  OBVIOUS
<1>1. CASE UNCHANGED vars
  <2> USE <1>1 DEF vars, queueVars, lockVars, threadVars, blockerVars, timerVars
  <2>1. OneLock' /\ FreshBlocker' /\ ReasonOK' /\ ResultTruthful'
    BY DEF ProcessorInv, OneLock, FreshBlocker, ReasonOK, ResultTruthful
  <2>2. NoLostWakeup'
    BY DEF ProcessorInv, NoLostWakeup, Target
  <2> QED BY <2>1, <2>2 DEF ProcessorInv
<1>2. CASE Next
  BY <1>2, ThreadProcessorInv, OutsideProcessorInv, WakerProcessorInv DEF Next
<1> QED
  BY <1>1, <1>2

(* ProcessorInv holds at first.                                            *)
LEMMA InitProcessorInv == Init => ProcessorInv
<1> SUFFICES ASSUME Init PROVE ProcessorInv
  OBVIOUS
<1>1. OneLock /\ FreshBlocker
  BY DEF Init, OneLock, FreshBlocker
<1>2. ReasonOK /\ NoLostWakeup /\ ResultTruthful
  BY DEF Init, ReasonOK, NoLostWakeup, ResultTruthful
<1> QED
  BY <1>1, <1>2 DEF ProcessorInv

(* So with one processor it holds in every reachable state.                *)
LEMMA ProcessorInvariance == ASSUME ~SMP PROVE Spec => []ProcessorInv
<1>1. BlockInv /\ ProcessorInv /\ [Next]_vars => ProcessorInv'
  BY NextProcessorInv
<1> QED
  BY <1>1, InitProcessorInv, BlockInvariance, PTL DEF Spec

(* With one processor no wake-up is lost: a thread that a waker has        *)
(* unblocked is not left Blocked without somebody about to make it         *)
(* runnable, for any number of threads and interrupt handlers.  (With      *)
(* several processors it may be: a run shows how.)                         *)
THEOREM NoLostWakeupHolds == ASSUME ~SMP PROVE Spec => []NoLostWakeup
<1>1. ProcessorInv => NoLostWakeup
  BY DEF ProcessorInv
<1> QED
  BY <1>1, ProcessorInvariance, PTL

(* With one processor, what block_impl returns is why the thread was       *)
(* woken.                                                                  *)
THEOREM ResultTruthfulHolds == ASSUME ~SMP PROVE Spec => []ResultTruthful
<1>1. ProcessorInv => ResultTruthful
  BY DEF ProcessorInv
<1> QED
  BY <1>1, ProcessorInvariance, PTL
=============================================================================
