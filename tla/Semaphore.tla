----------------------------- MODULE Semaphore ------------------------------
(***************************************************************************)
(* The semaphores of LibC (Userland/Libraries/LibC/semaphore.cpp) on a     *)
(* futex: sem_post, sem_trywait and sem_timedwait, which sem_wait calls    *)
(* without a timeout.                                                      *)
(*                                                                         *)
(* sem->value holds the count and the flag POST_WAKES, which says whether  *)
(* sem_post has to wake anybody.  Every access to it is a step.  Of the    *)
(* futex it is used that a thread only falls asleep if the word has the    *)
(* value it passed, atomically as far as wakes are concerned (module       *)
(* Futex, NoMissedWakeInProcess), that a signal or the timeout may end its *)
(* sleep, and that a wake may be spent on a thread that was interrupted    *)
(* and has not left the queue yet.                                         *)
(***************************************************************************)
EXTENDS Naturals, FiniteSets

CONSTANTS Thread,
          MaxCount     \* bound: sem_post is called while the count is below

ASSUME ThreadAssumption == IsFiniteSet(Thread)
ASSUME CountAssumption == MaxCount \in Nat

VARIABLES
    value,     \* sem->value
    pc,        \* where each thread is in the functions
    local,     \* its local variable value
    resp       \* the threads with responsible_for_waking

vars == <<value, pc, local, resp>>

Word(n, flag) == [count |-> n, POST_WAKES |-> flag]

NoLocal == Word(0, FALSE)

Init ==
    /\ value \in {Word(n, FALSE) : n \in 0 .. MaxCount}
    /\ pc = [t \in Thread |-> "out"]
    /\ local = [t \in Thread |-> NoLocal]
    /\ resp = {}

Goto(t, l) == pc' = [pc EXCEPT ![t] = l]

(* The function returns, and its local variables are gone.                 *)
Return(t) ==
    /\ Goto(t, "out")
    /\ local' = [local EXCEPT ![t] = NoLocal]
    /\ resp' = resp \ {t}

-----------------------------------------------------------------------------
(* The futex.                                                              *)

(* The threads in the queue of the futex.                                  *)
Queued == {s \in Thread : pc[s] \in {"asleep", "interrupted"}}

(* After futex_wait: "the state we will probably see upon being waked".    *)
Woken == Word(1, FALSE)

(* futex_wake for at most n threads, by t, which then returns.             *)
FutexWake(t, n) ==
    /\ \E woken \in SUBSET Queued :
          /\ Cardinality(woken) = IF n < Cardinality(Queued) THEN n ELSE Cardinality(Queued)
          /\ pc' = [s \in Thread |-> IF s \in woken THEN "loop"
                                     ELSE IF s = t THEN "out" ELSE pc[s]]
          /\ local' = [s \in Thread |-> IF s \in woken THEN Woken
                                        ELSE IF s = t THEN NoLocal ELSE local[s]]
    /\ resp' = resp \ {t}

(* A signal, or the timeout, ends the sleep of t ...                       *)
Interrupt(t) ==
    /\ pc[t] = "asleep"
    /\ Goto(t, "interrupted")
    /\ UNCHANGED <<value, local, resp>>

(* ... and t leaves the queue.                                             *)
LeaveQueue(t) ==
    /\ pc[t] = "interrupted"
    /\ Goto(t, "loop")
    /\ local' = [local EXCEPT ![t] = Woken]
    /\ UNCHANGED <<value, resp>>

-----------------------------------------------------------------------------
(* sem_post                                                                *)

Post(t) ==
    /\ pc[t] = "out"
    /\ value.count < MaxCount
    /\ value' = [value EXCEPT !.count = @ + 1]
    /\ Goto(t, IF value.POST_WAKES THEN "clear" ELSE "out")
    /\ UNCHANGED <<local, resp>>

(* The thread that clears the flag wakes somebody.                         *)
PostClear(t) ==
    /\ pc[t] = "clear"
    /\ value' = [value EXCEPT !.POST_WAKES = FALSE]
    /\ Goto(t, IF value.POST_WAKES THEN "wake" ELSE "out")
    /\ UNCHANGED <<local, resp>>

PostWake(t) ==
    /\ pc[t] = "wake"
    /\ FutexWake(t, 1)
    /\ UNCHANGED value

-----------------------------------------------------------------------------
(* sem_trywait                                                             *)

TryWait(t) ==
    /\ pc[t] = "out"
    /\ value.count > 0      \* else EAGAIN
    /\ local' = [local EXCEPT ![t] = value]
    /\ Goto(t, "try")
    /\ UNCHANGED <<value, resp>>

(* Mutant: the slot is taken without looking whether it is still there.    *)
TryExchangeBlindly(t) ==
    /\ pc[t] = "try"
    /\ value' = [value EXCEPT !.count = @ - 1]
    /\ Return(t)

(* It takes a slot, or returns EAGAIN because the word has changed.        *)
TryExchange(t) ==
    /\ pc[t] = "try"
    /\ value' = IF value = local[t] THEN [value EXCEPT !.count = @ - 1] ELSE value
    /\ Return(t)

-----------------------------------------------------------------------------
(* sem_timedwait                                                           *)

Wait(t) ==
    /\ pc[t] = "out"
    /\ local' = [local EXCEPT ![t] = value]
    /\ Goto(t, "loop")
    /\ UNCHANGED <<value, resp>>

(* A compare-and-exchange fails: the word is looked at again.              *)
Reevaluate(t) ==
    /\ pc[t] = "loop"
    /\ local[t].count > 0 \/ ~local[t].POST_WAKES
    /\ local[t] # value
    /\ local' = [local EXCEPT ![t] = value]
    /\ UNCHANGED <<value, pc, resp>>

(* Mutant: a thread that was woken does not set the flag again.            *)
TakeSlotForgets(t) ==
    /\ pc[t] = "loop"
    /\ local[t].count > 0
    /\ local[t] = value
    /\ value' = Word(value.count - 1, value.POST_WAKES)
    /\ Return(t)

(* Mutant: the others are not woken.                                       *)
TakeSlotSilently(t) ==
    /\ pc[t] = "loop"
    /\ local[t].count > 0
    /\ local[t] = value
    /\ value' = Word(value.count - 1, value.POST_WAKES \/ t \in resp)
    /\ Return(t)

(* There are free slots, and t takes one.  If t has slept and the flag is  *)
(* not set, t sets it and wakes threads for the slots that are left.       *)
TakeSlot(t) ==
    /\ pc[t] = "loop"
    /\ local[t].count > 0
    /\ local[t] = value
    /\ value' = Word(value.count - 1, value.POST_WAKES \/ t \in resp)
    /\ IF t \in resp /\ ~value.POST_WAKES /\ value.count > 1
       THEN Goto(t, "wake_rest") /\ UNCHANGED <<local, resp>>
       ELSE Return(t)

(* futex_wake(&sem->value, count - 1)                                      *)
WakeRest(t) ==
    /\ pc[t] = "wake_rest"
    /\ FutexWake(t, local[t].count - 1)
    /\ UNCHANGED value

(* There is no slot: t sets the flag.                                      *)
SetFlag(t) ==
    /\ pc[t] = "loop"
    /\ local[t] = Word(0, FALSE)
    /\ local[t] = value
    /\ value' = Word(0, TRUE)
    /\ local' = [local EXCEPT ![t] = Word(0, TRUE)]
    /\ UNCHANGED <<pc, resp>>

(* There is no slot and the flag is set: futex_wait, which returns at once *)
(* if the word is another one by now.                                      *)
FutexWait(t) ==
    /\ pc[t] = "loop"
    /\ local[t] = Word(0, TRUE)
    /\ resp' = resp \cup {t}
    /\ IF value = local[t]
       THEN Goto(t, "asleep") /\ UNCHANGED local
       ELSE local' = [local EXCEPT ![t] = Woken] /\ UNCHANGED pc
    /\ UNCHANGED value

-----------------------------------------------------------------------------
Next == \E t \in Thread :
          \/ Interrupt(t) \/ LeaveQueue(t)
          \/ Post(t) \/ PostClear(t) \/ PostWake(t)
          \/ TryWait(t) \/ TryExchange(t)
          \/ Wait(t) \/ Reevaluate(t) \/ TakeSlot(t) \/ WakeRest(t) \/ SetFlag(t) \/ FutexWait(t)

Spec == Init /\ [][Next]_vars

(* A thread inside the functions goes on; nobody has to call them, and no  *)
(* signal has to come.                                                     *)
Progress(t) ==
    \/ LeaveQueue(t) \/ PostClear(t) \/ PostWake(t) \/ TryExchange(t)
    \/ Reevaluate(t) \/ TakeSlot(t) \/ WakeRest(t) \/ SetFlag(t) \/ FutexWait(t)

FairSpec == Spec /\ \A t \in Thread : WF_vars(Progress(t))

-----------------------------------------------------------------------------
(* Properties.                                                             *)

Location == {"out", "clear", "wake", "try", "loop", "wake_rest", "asleep", "interrupted"}

(* The types.                                                              *)
TypeOK ==
    /\ value \in [count : 0 .. MaxCount, POST_WAKES : BOOLEAN]
    /\ pc \in [Thread -> Location]
    /\ local \in [Thread -> [count : Nat, POST_WAKES : BOOLEAN]]
    /\ resp \subseteq Thread

(* While somebody sleeps, either sem_post is responsible for waking (the   *)
(* flag), or somebody is about to wake a thread, or a thread that has      *)
(* slept is awake and has taken the responsibility over.                   *)
ResponsibilityKept ==
    (\E s \in Thread : pc[s] = "asleep") =>
        \/ value.POST_WAKES
        \/ \E t \in Thread : pc[t] = "wake" \/ (pc[t] = "loop" /\ t \in resp)

(* When nobody is on the way through the functions and somebody sleeps,    *)
(* there is no slot free and the next sem_post will wake.                  *)
NoSleeperForgotten ==
    (\A t \in Thread : pc[t] \in {"out", "asleep"}) /\ (\E t \in Thread : pc[t] = "asleep")
        => value = Word(0, TRUE)

(* Slots do not stay free while threads sleep, unless sem_post goes on     *)
(* being called for ever: then a thread may lose the race for the word     *)
(* again and again.                                                        *)
SlotsAreTaken ==
    \/ []<><<\E t \in Thread : Post(t)>>_vars
    \/ (value.count > 0 /\ \E t \in Thread : pc[t] = "asleep")
          ~> (value.count = 0 \/ \A t \in Thread : pc[t] # "asleep")
=============================================================================
