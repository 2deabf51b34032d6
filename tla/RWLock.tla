------------------------------- MODULE RWLock -------------------------------
(***************************************************************************)
(* What Kernel::Mutex promises its callers: a recursive readers-writer     *)
(* lock.  "owned[t]" is the number of times thread t owns the lock; a      *)
(* thread owns it from the step that grants it on, even when it has not    *)
(* been scheduled since.  The step that gives up the last ownership may    *)
(* hand the lock to other threads at once, so that nobody can slip in      *)
(* between.  Nothing is said here about queues, blocking or the order in   *)
(* which threads are served: module Mutex shows how the code does it.      *)
(***************************************************************************)
EXTENDS Naturals

CONSTANTS Thread,     \* the threads that use the lock
          MaxLocks    \* how deep the ownership of one thread is nested

VARIABLES mode,       \* "Unlocked", "Shared" or "Exclusive"
          owned       \* [Thread -> Nat]

vars == <<mode, owned>>

Init == /\ mode = "Unlocked"
        /\ owned = [t \in Thread |-> 0]

(* t becomes an owner n more times, in mode m, if the lock is free, if it  *)
(* is shared and t wants to share it, or if t is its exclusive owner.      *)
Enter(t, m, n) ==
    /\ \/ mode = "Unlocked" /\ mode' = m
       \/ mode = "Shared" /\ m = "Shared" /\ mode' = mode
       \/ mode = "Exclusive" /\ owned[t] > 0 /\ mode' = mode
    /\ owned' = [owned EXCEPT ![t] = @ + n]

(* t gives up n of its ownerships and others, or t itself, keep the lock.  *)
Leave(t, n) ==
    /\ n <= owned[t]
    /\ \E u \in Thread : owned[u] > (IF u = t THEN n ELSE 0)
    /\ owned' = [owned EXCEPT ![t] = @ - n]
    /\ mode' = mode

(* t gives up its n ownerships, which were the last ones, and the lock is  *)
(* free or goes to one exclusive owner (n2 times) or to a set of readers.  *)
LeaveLast(t, n) ==
    /\ n = owned[t]
    /\ \A u \in Thread \ {t} : owned[u] = 0
    /\ \/ mode' = "Unlocked" /\ owned' = [u \in Thread |-> 0]
       \/ \E w \in Thread, n2 \in 1..MaxLocks :
             /\ mode' = "Exclusive"
             /\ owned' = [u \in Thread |-> IF u = w THEN n2 ELSE 0]
       \/ \E S \in SUBSET Thread :
             /\ mode' = "Shared"
             /\ S # {}
             /\ owned' = [u \in Thread |-> IF u \in S THEN 1 ELSE 0]

Next == \E t \in Thread, n \in 1..MaxLocks :
          \/ \E m \in {"Shared", "Exclusive"} : Enter(t, m, n)
          \/ Leave(t, n)
          \/ LeaveLast(t, n)

Spec == Init /\ [][Next]_vars
=============================================================================
