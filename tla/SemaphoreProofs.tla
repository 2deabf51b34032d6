-------------------------- MODULE SemaphoreProofs ---------------------------
(***************************************************************************)
(* What is proved about Semaphore for any finite set of threads and any    *)
(* number of slots.                                                        *)
(***************************************************************************)
EXTENDS Semaphore, FiniteSetTheorems, TLAPS

(* A thread in the queue has set responsible_for_waking, and a thread that *)
(* is to wake others has found more than one slot.                         *)
LocalsOK ==
    \A t \in Thread :
        /\ pc[t] \in {"asleep", "interrupted"} => t \in resp
        /\ pc[t] = "wake_rest" => local[t].count > 1
        /\ pc[t] = "try" => local[t].count > 0

(* The inductive invariant.                                                *)
IndInv == TypeOK /\ LocalsOK /\ ResponsibilityKept

(* IndInv holds at first.                                                  *)
LEMMA InitIndInv == Init => IndInv
<1> SUFFICES ASSUME Init PROVE IndInv
  OBVIOUS
<1> USE CountAssumption DEF Init, NoLocal, Word
<1>1. TypeOK
  <2>1. PICK n \in 0 .. MaxCount : value = Word(n, FALSE)
    OBVIOUS
  <2> QED
    BY <2>1 DEF TypeOK, Location
<1>2. LocalsOK
  BY DEF LocalsOK
<1>3. ResponsibilityKept
  BY DEF ResponsibilityKept
<1> QED
  BY <1>1, <1>2, <1>3 DEF IndInv

(* futex_wake with one thread to wake does wake one, if there is one.      *)
LEMMA OneIsWoken ==
    ASSUME NEW woken \in SUBSET Queued,
           Queued # {},
           Cardinality(woken) = IF 1 < Cardinality(Queued) THEN 1 ELSE Cardinality(Queued)
    PROVE  woken # {}
<1>1. IsFiniteSet(Queued)
  BY ThreadAssumption, FS_Subset DEF Queued
<1>2. Cardinality(Queued) \in Nat /\ Cardinality(Queued) # 0
  BY <1>1, FS_CardinalityType, FS_EmptySet
<1> QED
  BY <1>2, FS_EmptySet

(* Every step preserves IndInv.                                            *)
LEMMA NextIndInv == IndInv /\ [Next]_vars => IndInv'
<1> SUFFICES ASSUME IndInv, [Next]_vars PROVE IndInv'
  OBVIOUS
<1> USE CountAssumption DEF IndInv, Word, NoLocal
<1>1. ASSUME NEW t \in Thread, Interrupt(t) PROVE IndInv'
  <2> USE <1>1 DEF Interrupt, Goto
  <2>1. TypeOK'
    BY DEF TypeOK, Location, LocalsOK
  <2>2. LocalsOK'
    BY DEF TypeOK, Location, LocalsOK
  <2>3. ResponsibilityKept'
    BY DEF TypeOK, Location, LocalsOK, ResponsibilityKept
  <2> QED
    BY <2>1, <2>2, <2>3
<1>2. ASSUME NEW t \in Thread, LeaveQueue(t) PROVE IndInv'
  <2> USE <1>2 DEF LeaveQueue, Goto, Woken
  <2>1. TypeOK'
    BY DEF TypeOK, Location, LocalsOK
  <2>2. LocalsOK'
    BY DEF TypeOK, Location, LocalsOK
  <2>3. ResponsibilityKept'
    BY DEF TypeOK, Location, LocalsOK, ResponsibilityKept
  <2> QED
    BY <2>1, <2>2, <2>3
<1>3. ASSUME NEW t \in Thread, Post(t) PROVE IndInv'
  <2> USE <1>3 DEF Post, Goto
  <2>1. TypeOK'
    BY DEF TypeOK, Location, LocalsOK
  <2>2. LocalsOK'
    BY DEF TypeOK, Location, LocalsOK
  <2>3. ResponsibilityKept'
    BY DEF TypeOK, Location, LocalsOK, ResponsibilityKept
  <2> QED
    BY <2>1, <2>2, <2>3
<1>4. ASSUME NEW t \in Thread, PostClear(t) PROVE IndInv'
  <2> USE <1>4 DEF PostClear, Goto
  <2>1. TypeOK'
    BY DEF TypeOK, Location, LocalsOK
  <2>2. LocalsOK'
    BY DEF TypeOK, Location, LocalsOK
  <2>3. ResponsibilityKept'
    BY DEF TypeOK, Location, LocalsOK, ResponsibilityKept
  <2> QED
    BY <2>1, <2>2, <2>3
<1>5. ASSUME NEW t \in Thread, PostWake(t) PROVE IndInv'
  <2> USE <1>5 DEF PostWake, FutexWake, Queued
  <2>1. TypeOK'
    <3>1. PICK woken \in SUBSET Queued :
            /\ pc' = [s \in Thread |-> IF s \in woken THEN "loop"
                                       ELSE IF s = t THEN "out" ELSE pc[s]]
            /\ local' = [s \in Thread |-> IF s \in woken THEN Woken
                                          ELSE IF s = t THEN NoLocal ELSE local[s]]
      OBVIOUS
    <3>2. pc' \in [Thread -> Location]
      BY <3>1 DEF TypeOK, Location
    <3>3. Woken \in [count : Nat, POST_WAKES : BOOLEAN] /\ NoLocal \in [count : Nat, POST_WAKES : BOOLEAN]
      BY DEF Woken
    <3>4. local' \in [Thread -> [count : Nat, POST_WAKES : BOOLEAN]]
      BY <3>1, <3>3 DEF TypeOK
    <3> QED
      BY <3>2, <3>4 DEF TypeOK
  <2>2. LocalsOK'
    BY DEF TypeOK, Location, LocalsOK
  <2>3. ResponsibilityKept'
    <3>1. PICK woken \in SUBSET Queued :
            /\ Cardinality(woken) = IF 1 < Cardinality(Queued) THEN 1 ELSE Cardinality(Queued)
            /\ pc' = [s \in Thread |-> IF s \in woken THEN "loop"
                                       ELSE IF s = t THEN "out" ELSE pc[s]]
      OBVIOUS
    <3>2. SUFFICES ASSUME NEW s \in Thread, pc'[s] = "asleep"
                   PROVE  \E u \in Thread : pc'[u] = "loop" /\ u \in resp'
      BY DEF ResponsibilityKept
    <3>3. s \in Queued
      BY <3>1, <3>2 DEF TypeOK
    <3>4. PICK u \in woken : TRUE
      BY <3>1, <3>3, OneIsWoken
    <3>5. u \in Thread /\ u # t /\ u \in resp
      BY <3>4 DEF LocalsOK
    <3> QED
      BY <3>1, <3>4, <3>5
  <2> QED
    BY <2>1, <2>2, <2>3
<1>6. ASSUME NEW t \in Thread, TryWait(t) PROVE IndInv'
  <2> USE <1>6 DEF TryWait, Goto
  <2>1. TypeOK'
    BY DEF TypeOK, Location, LocalsOK
  <2>2. LocalsOK'
    BY DEF TypeOK, Location, LocalsOK
  <2>3. ResponsibilityKept'
    BY DEF TypeOK, Location, LocalsOK, ResponsibilityKept
  <2> QED
    BY <2>1, <2>2, <2>3
<1>7. ASSUME NEW t \in Thread, TryExchange(t) PROVE IndInv'
  <2> USE <1>7 DEF TryExchange, Goto, Return
  <2>1. TypeOK'
    BY DEF TypeOK, Location, LocalsOK
  <2>2. LocalsOK'
    BY DEF TypeOK, Location, LocalsOK
  <2>3. ResponsibilityKept'
    BY DEF TypeOK, Location, LocalsOK, ResponsibilityKept
  <2> QED
    BY <2>1, <2>2, <2>3
<1>8. ASSUME NEW t \in Thread, Wait(t) PROVE IndInv'
  <2> USE <1>8 DEF Wait, Goto
  <2>1. TypeOK'
    BY DEF TypeOK, Location, LocalsOK
  <2>2. LocalsOK'
    BY DEF TypeOK, Location, LocalsOK
  <2>3. ResponsibilityKept'
    BY DEF TypeOK, Location, LocalsOK, ResponsibilityKept
  <2> QED
    BY <2>1, <2>2, <2>3
<1>9. ASSUME NEW t \in Thread, Reevaluate(t) PROVE IndInv'
  <2> USE <1>9 DEF Reevaluate, Goto
  <2>1. TypeOK'
    BY DEF TypeOK, Location, LocalsOK
  <2>2. LocalsOK'
    BY DEF TypeOK, Location, LocalsOK
  <2>3. ResponsibilityKept'
    BY DEF TypeOK, Location, LocalsOK, ResponsibilityKept
  <2> QED
    BY <2>1, <2>2, <2>3
<1>10. ASSUME NEW t \in Thread, TakeSlot(t) PROVE IndInv'
  <2> USE <1>10 DEF TakeSlot, Goto, Return
  <2>1. TypeOK'
    <3>1. value.count - 1 \in 0 .. MaxCount /\ (value.POST_WAKES \/ t \in resp) \in BOOLEAN
      BY DEF TypeOK
    <3>2. value' \in [count : 0 .. MaxCount, POST_WAKES : BOOLEAN]
      BY <3>1
    <3>3. pc' \in [Thread -> Location] /\ resp' \subseteq Thread
      BY DEF TypeOK, Location
    <3>4. NoLocal \in [count : Nat, POST_WAKES : BOOLEAN]
      OBVIOUS
    <3>5. local' = local \/ local' = [local EXCEPT ![t] = NoLocal]
      OBVIOUS
    <3>6. local' \in [Thread -> [count : Nat, POST_WAKES : BOOLEAN]]
      BY <3>4, <3>5, Zenon DEF TypeOK
    <3> QED
      BY <3>2, <3>3, <3>6 DEF TypeOK
  <2>2. LocalsOK'
    BY DEF TypeOK, Location, LocalsOK
  <2>3. ResponsibilityKept'
    BY DEF TypeOK, Location, LocalsOK, ResponsibilityKept
  <2> QED
    BY <2>1, <2>2, <2>3
<1>11. ASSUME NEW t \in Thread, WakeRest(t) PROVE IndInv'
  <2> USE <1>11 DEF WakeRest, FutexWake, Queued
  <2>1. TypeOK'
    <3>1. PICK woken \in SUBSET Queued :
            /\ pc' = [s \in Thread |-> IF s \in woken THEN "loop"
                                       ELSE IF s = t THEN "out" ELSE pc[s]]
            /\ local' = [s \in Thread |-> IF s \in woken THEN Woken
                                          ELSE IF s = t THEN NoLocal ELSE local[s]]
      OBVIOUS
    <3>2. pc' \in [Thread -> Location]
      BY <3>1 DEF TypeOK, Location
    <3>3. Woken \in [count : Nat, POST_WAKES : BOOLEAN] /\ NoLocal \in [count : Nat, POST_WAKES : BOOLEAN]
      BY DEF Woken
    <3>4. local' \in [Thread -> [count : Nat, POST_WAKES : BOOLEAN]]
      BY <3>1, <3>3 DEF TypeOK
    <3> QED
      BY <3>2, <3>4 DEF TypeOK
  <2>2. LocalsOK'
    BY DEF TypeOK, Location, LocalsOK
  <2>3. ResponsibilityKept'
    BY DEF TypeOK, Location, LocalsOK, ResponsibilityKept
  <2> QED
    BY <2>1, <2>2, <2>3
<1>12. ASSUME NEW t \in Thread, SetFlag(t) PROVE IndInv'
  <2> USE <1>12 DEF SetFlag, Goto
  <2>1. TypeOK'
    BY DEF TypeOK, Location, LocalsOK
  <2>2. LocalsOK'
    BY DEF TypeOK, Location, LocalsOK
  <2>3. ResponsibilityKept'
    BY DEF TypeOK, Location, LocalsOK, ResponsibilityKept
  <2> QED
    BY <2>1, <2>2, <2>3
<1>13. ASSUME NEW t \in Thread, FutexWait(t) PROVE IndInv'
  <2> USE <1>13 DEF FutexWait, Goto, Woken
  <2>1. TypeOK'
    <3>1. CASE value = local[t]
      BY <3>1 DEF TypeOK, Location
    <3>2. CASE value # local[t]
      <4>1. Woken \in [count : Nat, POST_WAKES : BOOLEAN]
        OBVIOUS
      <4>2. local' = [local EXCEPT ![t] = Woken]
        BY <3>2
      <4>3. local' \in [Thread -> [count : Nat, POST_WAKES : BOOLEAN]]
        BY <4>1, <4>2, Zenon DEF TypeOK
      <4> QED
        BY <3>2, <4>3 DEF TypeOK
    <3> QED
      BY <3>1, <3>2
  <2>2. LocalsOK'
    BY DEF TypeOK, Location, LocalsOK
  <2>3. ResponsibilityKept'
    BY DEF TypeOK, Location, LocalsOK, ResponsibilityKept
  <2> QED
    BY <2>1, <2>2, <2>3
<1>14. CASE UNCHANGED vars
  BY <1>14 DEF vars, TypeOK, LocalsOK, ResponsibilityKept
<1> QED
  BY <1>1, <1>2, <1>3, <1>4, <1>5, <1>6, <1>7, <1>8, <1>9, <1>10, <1>11, <1>12, <1>13, <1>14 DEF Next

(* So it holds in every reachable state.                                   *)
LEMMA Invariance == Spec => []IndInv
BY InitIndInv, NextIndInv, PTL DEF Spec

(* Every step of every thread keeps sem->value a count of at most MaxCount *)
(* and a flag, and the locals of the functions in their ranges.            *)
THEOREM TypeCorrect == Spec => []TypeOK
BY Invariance, PTL DEF IndInv

(* Whatever sem_post, sem_trywait and sem_timedwait do at the same time,   *)
(* some thread or the flag POST_WAKES is responsible for waking, as long   *)
(* as a thread sleeps in sem_timedwait.                                    *)
THEOREM ResponsibilityKeptHolds == Spec => []ResponsibilityKept
BY Invariance, PTL DEF IndInv

-----------------------------------------------------------------------------
(* Free slots.                                                             *)

(* The threads that are awake and have slept.                              *)
Responsible == {t \in Thread : pc[t] = "interrupted" \/ (pc[t] = "loop" /\ t \in resp)}

(* If the flag is set while there are free slots and a thread sleeps, then *)
(* a sem_post is about to clear it, or a thread is about to wake others    *)
(* for all of them, or for each there is a thread that has been woken.     *)
SlotsCovered ==
    value.POST_WAKES /\ (\E s \in Thread : pc[s] = "asleep") =>
        \/ \E t \in Thread : pc[t] = "clear"
        \/ \E t \in Thread : pc[t] = "wake_rest" /\ value.count < local[t].count
        \/ value.count <= Cardinality(Responsible)

(* There are finitely many threads, so they can be counted.                *)
LEMMA ResponsibleFinite ==
  /\ Responsible \subseteq Thread /\ Cardinality(Responsible) \in Nat
  /\ Responsible' \subseteq Thread /\ Cardinality(Responsible') \in Nat
  /\ IsFiniteSet(Responsible) /\ IsFiniteSet(Responsible')
BY ThreadAssumption, FS_Subset, FS_CardinalityType DEF Responsible

(* A step that adds no slot, does not set the flag, puts nobody to sleep   *)
(* and keeps those who are responsible.                                    *)
LEMMA SlotsKept ==
  ASSUME TypeOK, TypeOK', SlotsCovered, value'.POST_WAKES => value.POST_WAKES, value'.count <= value.count,
         \A s \in Thread : pc'[s] = "asleep" => pc[s] = "asleep",
         \A s \in Thread : pc[s] = "clear" => pc'[s] = "clear",
         \A s \in Thread : pc[s] = "wake_rest" => pc'[s] = "wake_rest" /\ local'[s] = local[s],
         Responsible \subseteq Responsible'
  PROVE  SlotsCovered'
<1>1. Cardinality(Responsible) <= Cardinality(Responsible')
  BY ResponsibleFinite, FS_Subset
<1>2. value.count \in Nat /\ value'.count \in Nat /\ \A t \in Thread : local[t].count \in Nat
  BY CountAssumption DEF TypeOK
<1> QED
  BY <1>1, <1>2, ResponsibleFinite DEF SlotsCovered

(* Without a free slot there is nothing to show.                           *)
LEMMA NoSlot == ASSUME value'.count = 0 PROVE SlotsCovered'
BY ResponsibleFinite DEF SlotsCovered

(* Every step preserves SlotsCovered.                                      *)
LEMMA NextSlotsCovered == IndInv /\ IndInv' /\ SlotsCovered /\ [Next]_vars => SlotsCovered'
<1> SUFFICES ASSUME IndInv, IndInv', SlotsCovered, [Next]_vars PROVE SlotsCovered'
  OBVIOUS
<1>0. TypeOK /\ TypeOK' /\ LocalsOK
  BY DEF IndInv
<1>a. value.count \in Nat /\ \A t \in Thread : local[t].count \in Nat
  BY <1>0, CountAssumption DEF TypeOK
<1> USE DEF Word, NoLocal, Woken
<1>1. ASSUME NEW t \in Thread, Interrupt(t) \/ LeaveQueue(t) \/ TryWait(t) \/ Wait(t) \/ Reevaluate(t)
      PROVE  SlotsCovered'
  <2>1. value' = value /\ resp' = resp
    BY <1>1 DEF Interrupt, LeaveQueue, TryWait, Wait, Reevaluate
  <2>2. /\ \A s \in Thread : s # t => pc'[s] = pc[s] /\ local'[s] = local[s]
        /\ pc[t] \in {"asleep", "interrupted", "out", "loop"} /\ pc'[t] \in {"interrupted", "loop", "try"}
        /\ t \in Responsible => pc'[t] \in {"interrupted", "loop"} /\ t \in resp
    BY <1>0, <1>1 DEF Interrupt, LeaveQueue, TryWait, Wait, Reevaluate, Goto, TypeOK, LocalsOK, Responsible
  <2>3. Responsible \subseteq Responsible'
    BY <2>1, <2>2 DEF Responsible
  <2> QED
    BY <1>0, <1>a, <2>1, <2>2, <2>3, SlotsKept
<1>2. ASSUME NEW t \in Thread, Post(t) PROVE SlotsCovered'
  <2>1. value'.POST_WAKES = value.POST_WAKES /\ (value.POST_WAKES => pc'[t] = "clear")
    BY <1>0, <1>2 DEF Post, Goto, TypeOK
  <2> QED BY <2>1 DEF SlotsCovered
<1>3. ASSUME NEW t \in Thread, PostClear(t) PROVE SlotsCovered'
  <2>1. ~value'.POST_WAKES
    BY <1>0, <1>3 DEF PostClear, TypeOK
  <2> QED BY <2>1 DEF SlotsCovered
<1>4. ASSUME NEW t \in Thread, NEW n, FutexWake(t, n), value' = value, pc[t] \in {"wake", "wake_rest"}
      PROVE  \E woken \in SUBSET Queued :
               /\ Cardinality(woken) = IF n < Cardinality(Queued) THEN n ELSE Cardinality(Queued)
               /\ \A s \in Thread : s # t /\ s \notin woken => pc'[s] = pc[s] /\ local'[s] = local[s]
               /\ woken \subseteq Responsible' /\ Responsible \subseteq Responsible'
               /\ \A s \in Thread : pc'[s] = "asleep" => pc[s] = "asleep" /\ s \notin woken
  <2>1. PICK woken \in SUBSET Queued :
          /\ Cardinality(woken) = IF n < Cardinality(Queued) THEN n ELSE Cardinality(Queued)
          /\ pc' = [s \in Thread |-> IF s \in woken THEN "loop" ELSE IF s = t THEN "out" ELSE pc[s]]
          /\ local' = [s \in Thread |-> IF s \in woken THEN Woken ELSE IF s = t THEN NoLocal ELSE local[s]]
    BY <1>4 DEF FutexWake
  <2>2. resp' = resp \ {t} /\ t \notin woken /\ t \notin Responsible /\ woken \subseteq resp
        /\ woken \subseteq Thread
    BY <1>0, <1>4 DEF FutexWake, Queued, Responsible, LocalsOK
  <2>3. woken \subseteq Responsible'
    BY <2>1, <2>2 DEF Responsible
  <2>4. Responsible \subseteq Responsible'
    BY <2>1, <2>2 DEF Responsible
  <2>5. \A s \in Thread : s # t /\ s \notin woken => pc'[s] = pc[s] /\ local'[s] = local[s]
    BY <2>1
  <2>6. \A s \in Thread : pc'[s] = "asleep" => pc[s] = "asleep" /\ s \notin woken
    BY <2>1
  <2> QED BY <2>1, <2>3, <2>4, <2>5, <2>6
<1>5. ASSUME NEW t \in Thread, PostWake(t) PROVE SlotsCovered'
  <2>1. pc[t] = "wake" /\ value' = value /\ FutexWake(t, 1)
    BY <1>5 DEF PostWake
  <2>2. PICK woken \in SUBSET Queued :
               /\ \A s \in Thread : s # t /\ s \notin woken => pc'[s] = pc[s] /\ local'[s] = local[s]
               /\ Responsible \subseteq Responsible'
               /\ \A s \in Thread : pc'[s] = "asleep" => pc[s] = "asleep"
    BY <1>4, <2>1
  <2>3. \A s \in Thread : pc[s] \in {"clear", "wake_rest"} => s # t /\ s \notin woken
    BY <2>1 DEF Queued
  <2> QED BY <1>0, <1>a, <2>1, <2>2, <2>3, SlotsKept
<1>6. ASSUME NEW t \in Thread, TryExchange(t) PROVE SlotsCovered'
  <2>1. value'.count <= value.count /\ value'.POST_WAKES = value.POST_WAKES
    <3>1. CASE value = local[t]
      <4>1. value' = [value EXCEPT !.count = value.count - 1] /\ value.count > 0
        BY <1>0, <1>6, <3>1 DEF TryExchange, LocalsOK
      <4> QED BY <1>0, <1>a, <4>1 DEF TypeOK
    <3>2. CASE value # local[t]
      BY <1>a, <1>6, <3>2 DEF TryExchange
    <3> QED BY <3>1, <3>2
  <2>2. /\ \A s \in Thread : s # t => pc'[s] = pc[s] /\ local'[s] = local[s]
        /\ pc[t] = "try" /\ pc'[t] = "out" /\ resp' = resp \ {t}
    BY <1>0, <1>6 DEF TryExchange, Return, Goto, TypeOK
  <2>3. Responsible \subseteq Responsible'
    BY <2>2 DEF Responsible
  <2> QED BY <1>0, <2>1, <2>2, <2>3, SlotsKept
<1>7. ASSUME NEW t \in Thread, TakeSlot(t) PROVE SlotsCovered'
  <2> DEFINE c == value.count - 1
             f == value.POST_WAKES \/ t \in resp
  <2>1. /\ pc[t] = "loop" /\ local[t] = value /\ value.count > 0 /\ c \in Nat
        /\ value'.count = c /\ value'.POST_WAKES = f
    BY <1>a, <1>7 DEF TakeSlot
  <2>2. CASE t \in resp /\ ~value.POST_WAKES /\ value.count > 1
    <3>1. pc'[t] = "wake_rest" /\ local'[t] = value
      BY <1>0, <1>7, <2>1, <2>2 DEF TakeSlot, Goto, TypeOK
    <3>2. value'.count < local'[t].count
      BY <1>a, <2>1, <3>1
    <3> QED BY <3>1, <3>2 DEF SlotsCovered
  <2>3. CASE value.count = 1
    <3>1. value'.count = 0
      BY <2>1, <2>3
    <3> QED BY <3>1, NoSlot
  <2>4. CASE ~(t \in resp /\ ~value.POST_WAKES) /\ value.count # 1
    <3>1. /\ \A s \in Thread : s # t => pc'[s] = pc[s] /\ local'[s] = local[s]
          /\ pc'[t] = "out" /\ resp' = resp \ {t}
      BY <1>0, <1>7, <2>4 DEF TakeSlot, Return, Goto, TypeOK
    <3>2. Responsible' = Responsible \ {t}
      BY <3>1 DEF Responsible
    <3>3. CASE t \in resp
      <4>1. t \in Responsible /\ value.POST_WAKES
        BY <2>1, <2>4, <3>3 DEF Responsible
      <4>2. Cardinality(Responsible') = Cardinality(Responsible) - 1
        BY <3>2, <4>1, ResponsibleFinite, FS_RemoveElement
      <4> SUFFICES ASSUME \E s \in Thread : pc'[s] = "asleep" PROVE SlotsCovered'
        BY DEF SlotsCovered
      <4>3. \E s \in Thread : pc[s] = "asleep"
        BY <3>1
      <4>4. CASE \E s \in Thread : pc[s] = "clear"
        BY <2>1, <3>1, <4>4 DEF SlotsCovered
      <4>5. CASE \E s \in Thread : pc[s] = "wake_rest" /\ value.count < local[s].count
        <5>1. PICK s \in Thread : pc[s] = "wake_rest" /\ value.count < local[s].count
          BY <4>5
        <5>2. pc'[s] = "wake_rest" /\ value'.count < local'[s].count
          BY <1>a, <2>1, <3>1, <5>1
        <5> QED BY <5>2 DEF SlotsCovered
      <4>6. CASE value.count <= Cardinality(Responsible)
        <5>1. value'.count <= Cardinality(Responsible')
          BY <1>a, <2>1, <4>2, <4>6, ResponsibleFinite
        <5> QED BY <5>1 DEF SlotsCovered
      <4> QED BY <4>1, <4>3, <4>4, <4>5, <4>6 DEF SlotsCovered
    <3>4. CASE t \notin resp
      <4>1. Responsible' = Responsible
        BY <2>1, <3>2, <3>4 DEF Responsible
      <4>2. value'.count <= value.count /\ (value'.POST_WAKES => value.POST_WAKES)
        <5>1. value'.count <= value.count
          BY <1>a, <2>1
        <5>2. value'.POST_WAKES = (value.POST_WAKES \/ t \in resp)
          BY <2>1
        <5>3. value'.POST_WAKES => value.POST_WAKES
          BY <3>4, <5>2, Zenon
        <5> QED BY <5>1, <5>3
      <4> HIDE DEF c, f
      <4> QED BY <1>0, <2>1, <3>1, <4>1, <4>2, SlotsKept
    <3> QED BY <3>3, <3>4
  <2> QED BY <1>a, <2>1, <2>2, <2>3, <2>4
<1>8. ASSUME NEW t \in Thread, WakeRest(t) PROVE SlotsCovered'
  <2> DEFINE n == local[t].count - 1
  <2>1. pc[t] = "wake_rest" /\ value' = value /\ FutexWake(t, n) /\ n \in Nat
    BY <1>0, <1>a, <1>8 DEF WakeRest, LocalsOK
  <2> HIDE DEF n
  <2>2. PICK woken \in SUBSET Queued :
               /\ Cardinality(woken) = IF n < Cardinality(Queued) THEN n ELSE Cardinality(Queued)
               /\ \A s \in Thread : s # t /\ s \notin woken => pc'[s] = pc[s] /\ local'[s] = local[s]
               /\ woken \subseteq Responsible' /\ Responsible \subseteq Responsible'
               /\ \A s \in Thread : pc'[s] = "asleep" => pc[s] = "asleep" /\ s \notin woken
    BY <1>4, <2>1
  <2>3. \A s \in Thread : pc[s] \in {"clear", "wake_rest"} => s \notin woken
    BY DEF Queued
  <2> SUFFICES ASSUME value.POST_WAKES, NEW s \in Thread, pc'[s] = "asleep" PROVE SlotsCovered'
    BY <2>1 DEF SlotsCovered
  <2>4. IsFiniteSet(Queued) /\ IsFiniteSet(woken) /\ Cardinality(woken) \in Nat /\ Cardinality(Queued) \in Nat
    BY ThreadAssumption, FS_Subset, FS_CardinalityType DEF Queued
  <2>5. s \in Queued \ woken
    BY <2>2 DEF Queued
  <2>6. Cardinality(woken) = n
    <3>1. Cardinality(woken) # Cardinality(Queued)
      BY <2>4, <2>5, FS_Subset
    <3> QED BY <2>2, <3>1
  <2>7. n <= Cardinality(Responsible') /\ Cardinality(Responsible) <= Cardinality(Responsible')
    BY <2>2, <2>6, ResponsibleFinite, FS_Subset
  <2>8. CASE \E u \in Thread : pc[u] = "clear"
    BY <2>1, <2>2, <2>3, <2>8 DEF SlotsCovered
  <2>9. CASE \E u \in Thread : u # t /\ pc[u] = "wake_rest" /\ value.count < local[u].count
    BY <2>1, <2>2, <2>3, <2>9 DEF SlotsCovered
  <2>10. CASE value.count < local[t].count
    <3>1. value'.count <= Cardinality(Responsible')
      BY <1>a, <2>1, <2>7, <2>10, ResponsibleFinite DEF n
    <3> QED BY <3>1 DEF SlotsCovered
  <2>11. CASE value.count <= Cardinality(Responsible)
    <3>1. value'.count <= Cardinality(Responsible')
      BY <1>a, <2>1, <2>7, <2>11, ResponsibleFinite
    <3> QED BY <3>1 DEF SlotsCovered
  <2>12. pc[s] = "asleep"
    BY <2>2
  <2> QED BY <2>8, <2>9, <2>10, <2>11, <2>12 DEF SlotsCovered
<1>9. ASSUME NEW t \in Thread, SetFlag(t) PROVE SlotsCovered'
  BY <1>9, NoSlot DEF SetFlag
<1>10. ASSUME NEW t \in Thread, FutexWait(t) PROVE SlotsCovered'
  <2>1. CASE value = local[t]
    BY <1>10, <2>1, NoSlot DEF FutexWait
  <2>2. CASE value # local[t]
    <3>1. /\ value' = value /\ pc' = pc /\ resp' = resp \cup {t} /\ pc[t] = "loop"
          /\ local' = [local EXCEPT ![t] = Woken]
      BY <1>10, <2>2 DEF FutexWait
    <3>2. \A s \in Thread : s # t => local'[s] = local[s]
      BY <1>0, <3>1, Zenon DEF TypeOK
    <3>3. Responsible \subseteq Responsible'
      BY <3>1 DEF Responsible
    <3> QED BY <1>0, <1>a, <3>1, <3>2, <3>3, SlotsKept
  <2> QED BY <2>1, <2>2
<1>11. CASE UNCHANGED vars
  BY <1>11 DEF vars, SlotsCovered, Responsible
<1> QED
  BY <1>1, <1>2, <1>3, <1>5, <1>6, <1>7, <1>8, <1>9, <1>10, <1>11 DEF Next

(* Whenever nobody is on the way through the functions and a thread sleeps *)
(* in sem_timedwait, the count is zero and POST_WAKES is set, so that the  *)
(* next sem_post wakes: with free slots, whoever was woken would still be  *)
(* on its way to one of them.                                              *)
THEOREM NoSleeperForgottenHolds == Spec => []NoSleeperForgotten
<1>1. Init => SlotsCovered
  BY DEF Init, SlotsCovered
<1>2. IndInv /\ SlotsCovered => NoSleeperForgotten
  <2> SUFFICES ASSUME IndInv, SlotsCovered, \A t \in Thread : pc[t] \in {"out", "asleep"},
                      \E t \in Thread : pc[t] = "asleep"
               PROVE  value = Word(0, TRUE)
    BY DEF NoSleeperForgotten
  <2>1. value.POST_WAKES
    BY DEF IndInv, ResponsibilityKept
  <2>2. Responsible = {}
    BY DEF Responsible
  <2>3. value.count <= 0
    BY <2>1, <2>2, FS_EmptySet DEF SlotsCovered
  <2>4. value \in [count : Nat, POST_WAKES : BOOLEAN]
    BY CountAssumption DEF IndInv, TypeOK
  <2> QED
    BY <2>1, <2>3, <2>4 DEF Word
<1> QED
  BY <1>1, <1>2, NextSlotsCovered, Invariance, PTL DEF Spec
=============================================================================
