---------------------------- MODULE PthreadCond ----------------------------
(***************************************************************************)
(* The condition variables of LibC (Userland/Libraries/LibC/               *)
(* pthread_cond.cpp) together with the mutex they are used with:           *)
(* pthread_cond_wait and _timedwait, _signal and _broadcast, every atomic  *)
(* access to cond->value and every futex call a step.                      *)
(*                                                                         *)
(* The mutex is the one of module PthreadMutex, of normal type; its steps  *)
(* interleave with the ones here.  The futex behaves as described there.   *)
(* FUTEX_REQUEUE is called with a wake count of 2^32 - 1, so it wakes the  *)
(* whole queue and requeues nobody.                                        *)
(***************************************************************************)
EXTENDS PthreadMutex

CONSTANT MaxGeneration     \* bound: calls of signal and broadcast

ASSUME GenerationAssumption == MaxGeneration \in Nat

VARIABLES
    disciplined,   \* do callers of signal and broadcast have the mutex?
    cond,          \* cond->value: the generation and the two NEED_TO_WAKE flags
    cpc,           \* where each thread is in the functions of this module
    generation,    \* its local value: the generation that it waits for to end
    owed           \* ghost: see Owe

cvars == <<disciplined, cond, cpc, generation, owed>>

CondInit ==
    /\ Init
    /\ type = "NORMAL" /\ with_cond
    /\ disciplined \in BOOLEAN
    /\ cond = [gen |-> 0, one |-> FALSE, all |-> FALSE]
    /\ cpc = [t \in Thread |-> "none"]
    /\ generation = [t \in Thread |-> 0]
    /\ owed = [t \in Thread |-> {}]

CGoto(t, l) == cpc' = [cpc EXCEPT ![t] = l]

-----------------------------------------------------------------------------
(* Ghost state.  A thread is waiting from the atomic_fetch_or until it has *)
(* left futex_wait.  A call of signal owes it to the set of threads that   *)
(* are waiting that one of them is released, a broadcast owes it to each.  *)

Waiting == {w \in Thread : cpc[w] \in {"registered", "asleep", "interrupted", "timed_out"}}

Owe(t, sets) == owed' = [owed EXCEPT ![t] = sets]

Released(ws) ==
    owed' = [t \in Thread |-> {S \in owed[t] : S \cap ws = {}}]

-----------------------------------------------------------------------------
(* pthread_cond_timedwait, called with the mutex.                          *)

(* The flags are set while the mutex is held.                              *)
Register(t) ==
    /\ cpc[t] = "none" /\ pc[t] = "own"
    /\ generation' = [generation EXCEPT ![t] = cond.gen]
    /\ cond' = [cond EXCEPT !.one = TRUE, !.all = TRUE]
    /\ CGoto(t, "registered")
    /\ UNCHANGED <<disciplined, owed>>
    /\ UNCHANGED vars

(* Mutant: the flags are not part of the value that futex_wait compares,   *)
(* and the generation is read again.                                       *)
SameValueRead(t) == cond.one /\ cond.all

(* Is cond->value what t has passed to futex_wait?                         *)
SameValue(t) == cond.gen = generation[t] /\ cond.one /\ cond.all

(* After pthread_mutex_unlock: futex_wait, or EAGAIN.                      *)
CondFutexWait(t) ==
    /\ cpc[t] = "registered" /\ pc[t] = "out"
    /\ IF SameValue(t) THEN CGoto(t, "asleep") /\ UNCHANGED owed
                       ELSE CGoto(t, "relock") /\ Released({t})
    /\ UNCHANGED <<disciplined, cond, generation>>
    /\ UNCHANGED vars

(* A signal handler or the time-out ends the sleep of t, which stays in    *)
(* the queue until it runs.                                                *)
CondInterrupt(t) ==
    /\ cpc[t] = "asleep"
    /\ CGoto(t, "interrupted") \/ CGoto(t, "timed_out")
    /\ UNCHANGED <<disciplined, cond, generation, owed>>
    /\ UNCHANGED vars

(* Where a thread goes on that has left the queue.  Only the time-out is   *)
(* an error to futex_wait, with which pthread_cond_timedwait returns       *)
(* without the mutex; after a signal it locks the mutex and returns 0, as  *)
(* after a wake.                                                           *)
Woken(w) == IF cpc[w] = "timed_out" THEN "none" ELSE "relock"

(* t leaves the queue by itself.                                           *)
CondLeaveQueue(t) ==
    /\ cpc[t] \in {"interrupted", "timed_out"}
    /\ CGoto(t, Woken(t))
    /\ Released({t})
    /\ UNCHANGED <<disciplined, cond, generation>>
    /\ UNCHANGED vars

(* Mutant: the thread that did not have to sleep does not lock the mutex.  *)
RelockSkipped(t) ==
    /\ cpc[t] = "relock" /\ pc[t] = "out"
    /\ pc' = [pc EXCEPT ![t] = "acquired"]
    /\ UNCHANGED <<kind, lock, owner, level, value, pess, depth>>
    /\ UNCHANGED cvars

(* __pthread_mutex_lock_pessimistic_np                                     *)
Relock(t) ==
    /\ cpc[t] = "relock"
    /\ LockPessimistic(t)
    /\ UNCHANGED cvars

WaitReturns(t) ==
    /\ cpc[t] = "relock"
    /\ SetOwner(t)
    /\ CGoto(t, "none")
    /\ UNCHANGED <<disciplined, cond, generation, owed>>

-----------------------------------------------------------------------------
(* pthread_cond_signal                                                     *)

MaySignal(t) ==
    /\ cpc[t] = "none"
    /\ pc[t] = "own" \/ (~disciplined /\ pc[t] = "out")
    /\ cond.gen < MaxGeneration

(* The generation is incremented; without the flag that was all.           *)
Signal(t) ==
    /\ MaySignal(t)
    /\ cond' = [cond EXCEPT !.gen = @ + 1]
    /\ Owe(t, {Waiting} \ {{}})
    /\ CGoto(t, IF cond.one THEN "signal_clear" ELSE "none")
    /\ UNCHANGED <<disciplined, generation>>
    /\ UNCHANGED vars

(* The flag is cleared, unless another call has cleared it before.         *)
SignalClear(t) ==
    /\ cpc[t] = "signal_clear"
    /\ cond' = [cond EXCEPT !.one = FALSE]
    /\ CGoto(t, IF cond.one THEN "signal_wake" ELSE "none")
    /\ UNCHANGED <<disciplined, generation, owed>>
    /\ UNCHANGED vars

(* The threads in the queue of &cond->value.                               *)
CondQueued == {w \in Thread : cpc[w] \in {"asleep", "interrupted", "timed_out"}}

(* Mutant: the flag is not put back.                                       *)
SignalWakeForgets(t) ==
    /\ cpc[t] = "signal_wake"
    /\ \/ \E w \in CondQueued :
             /\ cpc' = [cpc EXCEPT ![t] = "none", ![w] = Woken(w)]
             /\ Released({w})
       \/ /\ CondQueued = {}
          /\ CGoto(t, "none")
          /\ UNCHANGED owed
    /\ UNCHANGED <<disciplined, cond, generation>>
    /\ UNCHANGED vars

(* futex_wake of one thread.  A thread whose sleep has ended counts if it  *)
(* is still in the queue, and goes on as it would have.                    *)
SignalWake(t) ==
    /\ cpc[t] = "signal_wake"
    /\ \/ \E w \in CondQueued :
             /\ cpc' = [cpc EXCEPT ![t] = "signal_restore", ![w] = Woken(w)]
             /\ Released({w})
       \/ /\ CondQueued = {}
          /\ CGoto(t, "none")
          /\ UNCHANGED owed
    /\ UNCHANGED <<disciplined, cond, generation>>
    /\ UNCHANGED vars

(* There may be more waiting threads: the flag is put back.                *)
SignalRestore(t) ==
    /\ cpc[t] = "signal_restore"
    /\ cond' = [cond EXCEPT !.one = TRUE]
    /\ CGoto(t, "none")
    /\ UNCHANGED <<disciplined, generation, owed>>
    /\ UNCHANGED vars

-----------------------------------------------------------------------------
(* pthread_cond_broadcast                                                  *)

Broadcast(t) ==
    /\ MaySignal(t)
    /\ cond' = [cond EXCEPT !.gen = @ + 1]
    /\ Owe(t, {{w} : w \in Waiting})
    /\ CGoto(t, IF cond.all THEN "broadcast_clear" ELSE "none")
    /\ UNCHANGED <<disciplined, generation>>
    /\ UNCHANGED vars

BroadcastClear(t) ==
    /\ cpc[t] = "broadcast_clear"
    /\ cond' = [cond EXCEPT !.one = FALSE, !.all = FALSE]
    /\ CGoto(t, "broadcast_wake")
    /\ UNCHANGED <<disciplined, generation, owed>>
    /\ UNCHANGED vars

BroadcastWake(t) ==
    /\ cpc[t] = "broadcast_wake"
    /\ cpc' = [w \in Thread |-> IF w = t THEN "none"
                                ELSE IF w \in CondQueued THEN Woken(w) ELSE cpc[w]]
    /\ Released(CondQueued)
    /\ UNCHANGED <<disciplined, cond, generation>>
    /\ UNCHANGED vars

-----------------------------------------------------------------------------
(* The steps of the mutex: of a thread outside of this module's functions, *)
(* of pthread_mutex_unlock in pthread_cond_timedwait, and of the           *)
(* pessimistic lock at its end.                                            *)
MutexStep(t) ==
    /\ \/ cpc[t] = "none" /\ (LockFast(t) \/ LockBusy(t) \/ SlowPath(t) \/ SetOwner(t))
       \/ cpc[t] \in {"none", "registered"} /\ (Unlock(t) \/ Release(t) \/ FutexWake(t))
       \/ cpc[t] \in {"none", "relock"}
            /\ (Exchange(t) \/ FutexWait(t) \/ Interrupt(t) \/ LeaveQueue(t))
    /\ UNCHANGED cvars

CondNext == \E t \in Thread :
    \/ MutexStep(t)
    \/ Register(t) \/ CondFutexWait(t) \/ CondInterrupt(t) \/ CondLeaveQueue(t)
    \/ Relock(t) \/ WaitReturns(t)
    \/ Signal(t) \/ SignalClear(t) \/ SignalWake(t) \/ SignalRestore(t)
    \/ Broadcast(t) \/ BroadcastClear(t) \/ BroadcastWake(t)

CondSpec == CondInit /\ [][CondNext]_<<vars, cvars>>

-----------------------------------------------------------------------------
(* Properties.                                                             *)

InCall(t) == cpc[t] \in {"signal_clear", "signal_wake", "signal_restore",
                         "broadcast_clear", "broadcast_wake"}

(* When signals and broadcasts are sent with the mutex held, a signal has, *)
(* when it returns, released at least one of the threads that were waiting *)
(* when it was called, and a broadcast all of them; a thread that is on    *)
(* its way into futex_wait is released too, as it will not fall asleep.    *)
SignalReleases ==
    disciplined =>
        \A t \in Thread : \A S \in owed[t] :
            InCall(t) \/ \E w \in S : cpc[w] = "registered" /\ generation[w] # cond.gen

(* While a thread sleeps, both flags are set, or the call that cleared     *)
(* them is still going to wake threads or to put the flag back: whoever    *)
(* signals, with or without the mutex, no sleeper is out of the reach of   *)
(* later signals.                                                          *)
SleepersFlagged ==
    (\E w \in Thread : cpc[w] = "asleep") =>
        /\ cond.one \/ \E t \in Thread : cpc[t] \in {"signal_wake", "signal_restore",
                                                     "broadcast_wake"}
        /\ cond.all \/ \E t \in Thread : cpc[t] = "broadcast_wake"
=============================================================================
