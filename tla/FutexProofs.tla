---------------------------- MODULE FutexProofs -----------------------------
(***************************************************************************)
(* What is proved about Futex for any number of threads, processes, bits   *)
(* and values.                                                             *)
(***************************************************************************)
EXTENDS Futex, BlockerSetProofs, FiniteSetTheorems

Location == {"user", "load", "find", "queue", "block", "blocked", "relock",
             "finalize", "check", "remove", "wake_find", "wake", "wake_remove"}

(* The arguments of the calls.                                             *)
CallOK ==
    /\ call = [t \in Thread |-> call[t]]
    /\ \A t \in Thread :
        /\ pc[t] \in {"load", "find", "queue", "block", "blocked", "relock", "finalize",
                      "check", "remove"} => call[t].bitset \in WaitBitsets
        /\ pc[t] \in {"wake_find", "wake", "wake_remove"} =>
             call[t].bitset \in WakeBitsets /\ call[t].count \in WakeCounts

(* A thread in sys$futex has the big lock of its process, except between   *)
(* the switch to another thread and relock_process.                        *)
LockOK ==
    \A t \in Thread : pc[t] \notin {"user", "blocked", "relock"} => BigLock(t) = t

(* A queue that somebody refers to is the one in the table, or was removed *)
(* from it; the one in the table was not.                                  *)
ReferenceOK ==
    /\ futex_queues \notin m_was_removed
    /\ \A t \in Thread :
         /\ pc[t] \in {"queue", "block", "blocked", "relock", "finalize", "check", "remove",
                       "wake", "wake_remove"} => queue[t] \in Queue
         /\ queue[t] \in Queue => queue[t] \in m_was_removed \cup {futex_queues}

(* Who waits is in the list of its queue, and who is in a list waits or is *)
(* on its way out.                                                         *)
BlockersOK ==
    /\ \A t \in Thread : pc[t] = "blocked" =>
         t \notin m_did_unblock /\ t \in Range(m_blockers[queue[t]])
    /\ \A q \in Queue : \A t \in Range(m_blockers[q]) :
         t \in Thread /\ pc[t] \in {"blocked", "relock", "finalize"} /\ queue[t] = q

(* The queue in the table has a waiter that will look whether it can be    *)
(* removed.                                                                *)
Responsible ==
    futex_queues # NoQueue =>
        \E t \in Thread :
            /\ queue[t] = futex_queues
            /\ pc[t] \in {"block", "blocked", "relock", "finalize", "check", "remove"}

(* The wakes of a process work on the queue that its threads wait on.      *)
WakesOwn ==
    \A t, u \in Thread :
        pc[t] = "blocked" /\ pc[u] = "wake" /\ ProcessOf[t] = ProcessOf[u] => queue[t] = queue[u]

(* A wake only passes over threads of other processes.                     *)
PassedOthers == \A e \in passed : ProcessOf[e[1]] # ProcessOf[e[2]]

QueueInv ==
    /\ TypeOK
    /\ CallOK
    /\ LockOK
    /\ ReferenceOK
    /\ BlockersOK
    /\ QueueReachable
    /\ ImminentCounted
    /\ Responsible
    /\ WakesOwn

-----------------------------------------------------------------------------
(* The number of imminent waits.                                           *)

(* There are finitely many threads, so they can be counted.                *)
LEMMA ImminentFinite ==
  ASSUME NEW q
  PROVE  /\ IsFiniteSet(Imminent(q))
         /\ Cardinality(Imminent(q)) \in Nat
         /\ Cardinality(Imminent(q)) = 0 <=> Imminent(q) = {}
<1>1. Imminent(q) \subseteq Thread
  BY DEF Imminent
<1>2. IsFiniteSet(Imminent(q))
  BY <1>1, ThreadAssumption, FS_Subset
<1> QED
  BY <1>2, FS_CardinalityType, FS_EmptySet

(* A step that changes neither the counters nor who is counted.            *)
LEMMA ImminentFrame ==
  ASSUME ImminentCounted, UNCHANGED m_imminent_waits,
         \A q \in Queue : Referenced(q)' => Referenced(q),
         \A t \in Thread : /\ pc'[t] = "block" <=> pc[t] = "block"
                           /\ pc[t] = "block" => queue'[t] = queue[t]
  PROVE  ImminentCounted'
<1>1. \A q \in Queue : Imminent(q)' = Imminent(q)
  BY DEF Imminent
<1> QED
  BY <1>1 DEF ImminentCounted

(* A queue that is empty, and has no imminent waits, has no waiters ...    *)
LEMMA EmptyQueue ==
  ASSUME TypeOK, BlockersOK, ImminentCounted, NEW q \in Queue, Referenced(q),
         is_empty_and_no_imminent_waits(q), NEW t \in Thread, pc[t] \in {"block", "blocked"}
  PROVE  queue[t] # q
<1>1. Imminent(q) = {}
  BY ImminentFinite DEF ImminentCounted, is_empty_and_no_imminent_waits
<1>2. Range(m_blockers[q]) = {}
  BY DEF is_empty_and_no_imminent_waits, Range
<1> QED
  BY <1>1, <1>2 DEF Imminent, BlockersOK

(* ... and one that is not has some, or some that are about to leave it.   *)
LEMMA NonEmptyQueue ==
  ASSUME TypeOK, BlockersOK, ImminentCounted, NEW q \in Queue, Referenced(q),
         ~is_empty_and_no_imminent_waits(q)
  PROVE  \E t \in Thread : queue[t] = q /\ pc[t] \in {"block", "blocked", "relock", "finalize"}
<1>1. CASE m_imminent_waits[q] # 0
  <2>1. Imminent(q) # {}
    BY <1>1, ImminentFinite DEF ImminentCounted
  <2> QED
    BY <2>1 DEF Imminent
<1>2. CASE m_blockers[q] # <<>>
  <2>1. m_blockers[q] \in Seq(Thread)
    BY DEF TypeOK
  <2>2. 1 \in DOMAIN m_blockers[q]
    BY <1>2, <2>1
  <2>3. m_blockers[q][1] \in Range(m_blockers[q])
    BY <2>2 DEF Range
  <2> QED
    BY <2>3 DEF BlockersOK
<1> QED
  BY <1>1, <1>2 DEF is_empty_and_no_imminent_waits

(* A step of a thread that is neither in a list nor put into one.          *)
LEMMA BlockersFrame ==
  ASSUME BlockersOK, UNCHANGED <<m_blockers, m_did_unblock>>,
         NEW t \in Thread, pc[t] \notin {"blocked", "relock", "finalize"}, pc'[t] # "blocked",
         \A u \in Thread \ {t} : pc'[u] = pc[u] /\ queue'[u] = queue[u]
  PROVE  BlockersOK'
<1>1. ASSUME NEW u \in Thread, pc'[u] = "blocked"
      PROVE  u \notin m_did_unblock' /\ u \in Range(m_blockers[queue[u]])'
  BY <1>1 DEF BlockersOK
<1>2. ASSUME NEW q \in Queue, NEW u \in Range(m_blockers'[q])
      PROVE  u \in Thread /\ pc'[u] \in {"blocked", "relock", "finalize"} /\ queue'[u] = q
  BY <1>2 DEF BlockersOK
<1> QED
  BY <1>1, <1>2 DEF BlockersOK

(* wake_n: whom it wakes, whom it leaves in the list, and whether it       *)
(* stopped because it had woken as many as asked for.                      *)
WakeNEffect(t, left, woken, full) ==
    /\ queue[t] \in Queue
    /\ Range(left) \cup woken = Range(m_blockers[queue[t]])
    /\ ~full => \A u \in Range(left) : ~Unblocks(call[t].bitset, u)
    /\ m_blockers' = [m_blockers EXCEPT ![queue[t]] = left]
    /\ m_did_unblock' = m_did_unblock \cup woken
    /\ passed' = IF full THEN passed ELSE passed \cup ((Due(call[t].bitset) \ woken) \X {t})
    /\ pc' \in [Thread -> Location]
    /\ \A u \in Thread \ {t} :
         /\ pc'[u] = IF u \in woken /\ pc[u] = "blocked" THEN "relock" ELSE pc[u]
         /\ queue'[u] = queue[u] /\ call'[u] = call[u]
    /\ \/ pc'[t] = "wake_remove" /\ UNCHANGED <<big_lock, call, queue>>
       \/ /\ pc'[t] = "user"
          /\ Release(t)
          /\ call' = [call EXCEPT ![t] = NoCall]
          /\ queue' = [queue EXCEPT ![t] = NoQueue]

(* What wake_n does, in terms of the facts about the scan: it leaves some  *)
(* of the blockers in the list, and of those it took the ones that have    *)
(* been switched away from go on.                                          *)
LEMMA WakeNFacts ==
  ASSUME TypeOK, CallOK, ReferenceOK, NEW t \in Thread, WakeN(t)
  PROVE  \E left \in Seq(Thread), woken \in SUBSET Thread, full \in BOOLEAN :
           WakeNEffect(t, left, woken, full)
<1> DEFINE q == queue[t]
           due == {u \in Range(m_blockers[q]) : Unblocks(call[t].bitset, u)}
           scan == UnblockBlockers(m_blockers[q], due, call[t].count)
           woken == Range(scan.taken)
           full == ~(Len(scan.taken) < call[t].count)
           next == [u \in Thread |-> IF u \in woken /\ pc[u] = "blocked" THEN "relock" ELSE pc[u]]
<1>1. q \in Queue /\ call[t].count \in Nat /\ m_blockers[q] \in Seq(Thread)
  BY CountAssumption DEF WakeN, TypeOK, CallOK, ReferenceOK
<1>2. /\ scan.left \in Seq(Thread) /\ scan.taken \in Seq(Thread)
      /\ Range(scan.left) \cup woken = Range(m_blockers[q])
      /\ Len(scan.taken) < call[t].count => Range(scan.left) \cap due = {}
  <2> DEFINE s == m_blockers[q]
             n == call[t].count
  <2>1. s \in Seq(Thread) /\ n \in Nat
    BY <1>1
  <2> HIDE DEF due, s, n
  <2>2. LET r == UnblockBlockers(s, due, n)
        IN  /\ r.left \in Seq(Thread) /\ r.taken \in Seq(Thread)
            /\ Range(r.left) \cup Range(r.taken) = Range(s)
            /\ Len(r.taken) < n => Range(r.left) \cap due = {}
    BY <2>1, UnblockBlockersFacts
  <2> QED
    BY <2>2 DEF s, n
<1>3. /\ m_blockers' = [m_blockers EXCEPT ![q] = scan.left]
      /\ m_did_unblock' = m_did_unblock \cup woken
      /\ passed' = IF full THEN passed ELSE passed \cup ((Due(call[t].bitset) \ woken) \X {t})
      /\ \/ /\ pc' = [next EXCEPT ![t] = "wake_remove"]
            /\ UNCHANGED <<big_lock, call, queue>>
         \/ /\ pc' = [next EXCEPT ![t] = "user"]
            /\ Release(t)
            /\ call' = [call EXCEPT ![t] = NoCall]
            /\ queue' = [queue EXCEPT ![t] = NoQueue]
  BY DEF WakeN
<1>4. woken \in SUBSET Thread /\ full \in BOOLEAN
  BY <1>2 DEF Range
<1>5. ~full => \A u \in Range(scan.left) : ~Unblocks(call[t].bitset, u)
  <2> SUFFICES ASSUME ~full, NEW u \in Range(scan.left), Unblocks(call[t].bitset, u) PROVE FALSE
    OBVIOUS
  <2>1. u \in Range(m_blockers[q])
    BY <1>2
  <2>2. u \in due
    BY <2>1
  <2> HIDE DEF due, scan
  <2> QED
    BY <1>2, <2>2
<1> HIDE DEF scan, woken, full, due
<1>6. next \in [Thread -> Location]
  BY DEF TypeOK, Location
<1>7. pc' \in [Thread -> Location]
  <2> HIDE DEF next
  <2> QED
    BY <1>3, <1>6 DEF Location
<1>8. \A u \in Thread \ {t} :
        pc'[u] = IF u \in woken /\ pc[u] = "blocked" THEN "relock" ELSE pc[u]
  BY <1>3
<1>9. \/ pc'[t] = "wake_remove" /\ UNCHANGED <<big_lock, call, queue>>
      \/ /\ pc'[t] = "user"
         /\ Release(t)
         /\ call' = [call EXCEPT ![t] = NoCall]
         /\ queue' = [queue EXCEPT ![t] = NoQueue]
  <2> HIDE DEF next
  <2>1. DOMAIN next = Thread
    BY <1>6
  <2> QED
    BY <1>3, <2>1
<1>10. \A u \in Thread \ {t} : queue'[u] = queue[u] /\ call'[u] = call[u]
  BY <1>9 DEF TypeOK, CallOK
<1> HIDE DEF next
<1>11. scan.left \in Seq(Thread)
  BY <1>2
<1>12. Range(scan.left) \cup woken = Range(m_blockers[q])
  BY <1>2
<1>13. /\ m_blockers' = [m_blockers EXCEPT ![q] = scan.left]
       /\ m_did_unblock' = m_did_unblock \cup woken
       /\ passed' = IF full THEN passed ELSE passed \cup ((Due(call[t].bitset) \ woken) \X {t})
  BY <1>3
<1> QED
  BY <1>1, <1>4, <1>5, <1>7, <1>8, <1>9, <1>10, <1>11, <1>12, <1>13, Zenon DEF WakeNEffect

-----------------------------------------------------------------------------
(* The invariant.                                                          *)

(* QueueInv holds at first: there is no queue.                             *)
LEMMA InitQueueInv == Init => QueueInv
<1> SUFFICES ASSUME Init PROVE QueueInv
  OBVIOUS
<1> USE NobodyAssumption DEF Init
<1>1. TypeOK
  BY DEF TypeOK
<1>2. CallOK /\ LockOK /\ ReferenceOK
  BY DEF CallOK, LockOK, ReferenceOK
<1>3. BlockersOK
  BY DEF BlockersOK, Range
<1>4. QueueReachable /\ Responsible /\ WakesOwn
  BY DEF QueueReachable, Responsible, WakesOwn
<1>5. ImminentCounted
  BY DEF ImminentCounted, Referenced
<1> QED
  BY <1>1, <1>2, <1>3, <1>4, <1>5 DEF QueueInv

(* Every step preserves QueueInv.                                          *)
LEMMA NextQueueInv == QueueInv /\ [Next]_vars => QueueInv'
<1> SUFFICES ASSUME QueueInv, [Next]_vars PROVE QueueInv'
  OBVIOUS
<1> USE NobodyAssumption, ProcessAssumption
<1> USE DEF QueueInv, queueVars
<1>1. ASSUME NEW v \in Value, Store(v) PROVE QueueInv'
  <2> USE <1>1 DEF Store
  <2>1. TypeOK'
    BY DEF TypeOK, Location
  <2>2. CallOK'
    BY DEF TypeOK, CallOK
  <2>3. LockOK'
    BY DEF TypeOK, LockOK, BigLock
  <2>4. ReferenceOK'
    BY DEF TypeOK, ReferenceOK
  <2>5. BlockersOK'
    BY DEF TypeOK, ReferenceOK, BlockersOK
  <2>6. QueueReachable'
    BY DEF TypeOK, ReferenceOK, BlockersOK, QueueReachable
  <2>7. ImminentCounted'
    BY ImminentFrame DEF TypeOK, Referenced
  <2>8. Responsible'
    BY DEF TypeOK, Responsible, ReferenceOK
  <2>9. WakesOwn'
    BY DEF TypeOK, LockOK, BigLock, WakesOwn, QueueReachable, BlockersOK
  <2> QED
    BY <2>1, <2>2, <2>3, <2>4, <2>5, <2>6, <2>7, <2>8, <2>9
<1>2. ASSUME NEW t \in Thread, NEW v \in Value, NEW b \in WaitBitsets, WaitEnter(t, v, b) PROVE QueueInv'
  <2> USE <1>2 DEF WaitEnter, Enter, Acquire, BigLock, Goto
  <2>1. TypeOK'
    BY DEF TypeOK, Location
  <2>2. CallOK'
    BY DEF TypeOK, CallOK
  <2>3. LockOK'
    BY DEF TypeOK, LockOK, BigLock
  <2>4. ReferenceOK'
    BY DEF TypeOK, ReferenceOK
  <2>5. BlockersOK'
    BY DEF TypeOK, ReferenceOK, BlockersOK
  <2>6. QueueReachable'
    BY DEF TypeOK, ReferenceOK, BlockersOK, QueueReachable
  <2>7. ImminentCounted'
    BY ImminentFrame DEF TypeOK, Referenced
  <2>8. Responsible'
    BY DEF TypeOK, Responsible, ReferenceOK
  <2>9. WakesOwn'
    BY DEF TypeOK, LockOK, BigLock, WakesOwn, QueueReachable, BlockersOK
  <2> QED
    BY <2>1, <2>2, <2>3, <2>4, <2>5, <2>6, <2>7, <2>8, <2>9
<1>3. ASSUME NEW t \in Thread, WaitLoad(t) PROVE QueueInv'
  <2> USE <1>3 DEF WaitLoad, Return, Release, Forget, Goto
  <2>1. TypeOK'
    BY DEF TypeOK, Location
  <2>2. CallOK'
    BY DEF TypeOK, CallOK
  <2>3. LockOK'
    BY DEF TypeOK, LockOK, BigLock
  <2>4. ReferenceOK'
    BY DEF TypeOK, ReferenceOK
  <2>5. BlockersOK'
    BY BlockersFrame DEF TypeOK
  <2>6. QueueReachable'
    BY DEF TypeOK, ReferenceOK, BlockersOK, QueueReachable
  <2>7. ImminentCounted'
    BY ImminentFrame DEF TypeOK, Referenced
  <2>8. Responsible'
    BY DEF TypeOK, Responsible, ReferenceOK
  <2>9. WakesOwn'
    BY DEF TypeOK, LockOK, BigLock, WakesOwn, QueueReachable, BlockersOK
  <2> QED
    BY <2>1, <2>2, <2>3, <2>4, <2>5, <2>6, <2>7, <2>8, <2>9
<1>4. ASSUME NEW t \in Thread, WaitFind(t) PROVE QueueInv'
  <2> USE <1>4 DEF WaitFind, Goto
  <2>1. CASE futex_queues # NoQueue
    <3>0. /\ queue' = [queue EXCEPT ![t] = futex_queues]
          /\ pc' = [pc EXCEPT ![t] = "queue"]
          /\ UNCHANGED <<futex_queues, m_imminent_waits, m_was_removed, m_blockers>>
      BY <2>1
    <3>1. TypeOK'
      BY <3>0 DEF TypeOK
    <3>2. CallOK' /\ LockOK'
      BY <3>0 DEF TypeOK, CallOK, LockOK, BigLock
    <3>3. ReferenceOK'
      BY <2>1, <3>0 DEF TypeOK, ReferenceOK
    <3>4. BlockersOK'
      BY <3>0, BlockersFrame DEF TypeOK
    <3>5. QueueReachable'
      BY <3>0 DEF TypeOK, QueueReachable
    <3>6. ImminentCounted'
      BY <3>0, ImminentFrame DEF TypeOK, Referenced
    <3>7. Responsible'
      BY <3>0 DEF TypeOK, Responsible
    <3>8. WakesOwn'
      BY <3>0 DEF TypeOK, WakesOwn
    <3> QED
      BY <3>1, <3>2, <3>3, <3>4, <3>5, <3>6, <3>7, <3>8
  <2>2. CASE futex_queues = NoQueue
    <3>0. PICK q \in Queue :
            /\ ~Referenced(q)
            /\ futex_queues' = q
            /\ m_imminent_waits' = [m_imminent_waits EXCEPT ![q] = 1]
            /\ m_blockers' = [m_blockers EXCEPT ![q] = <<>>]
            /\ m_was_removed' = m_was_removed \ {q}
            /\ queue' = [queue EXCEPT ![t] = q]
            /\ pc' = [pc EXCEPT ![t] = "block"]
      BY <2>2 DEF Unreferenced
    <3>1. \A u \in Thread : queue[u] # q
      BY <3>0 DEF Referenced
    <3>2. \A u \in Thread : pc[u] \notin {"block", "blocked"}
      BY <2>2 DEF QueueReachable, BlockersOK, ReferenceOK
    <3>3. TypeOK'
      BY <3>0 DEF TypeOK
    <3>4. CallOK' /\ LockOK'
      BY <3>0 DEF TypeOK, CallOK, LockOK, BigLock
    <3>5. ReferenceOK'
      BY <2>2, <3>0, <3>1 DEF TypeOK, ReferenceOK
    <3>6. BlockersOK'
      <4>1. ASSUME NEW u \in Thread PROVE pc'[u] # "blocked"
        BY <3>0, <3>2 DEF TypeOK
      <4>2. Range(<<>>) = {}
        BY DEF Range
      <4>3. ASSUME NEW r \in Queue, NEW u \in Range(m_blockers'[r])
            PROVE  u \in Thread /\ pc'[u] \in {"blocked", "relock", "finalize"} /\ queue'[u] = r
        <5>1. r # q
          BY <3>0, <4>2, <4>3 DEF TypeOK
        <5>2. u \in Range(m_blockers[r])
          BY <3>0, <4>3, <5>1 DEF TypeOK
        <5>3. u \in Thread /\ pc[u] \in {"blocked", "relock", "finalize"} /\ queue[u] = r
          BY <5>2 DEF BlockersOK
        <5> QED
          BY <3>0, <5>3 DEF TypeOK
      <4> QED
        BY <4>1, <4>3 DEF BlockersOK
    <3>7. QueueReachable'
      BY <3>0, <3>2 DEF TypeOK, QueueReachable
    <3>8. ImminentCounted'
      <4>1. Imminent(q)' = {t}
        BY <3>0, <3>1 DEF TypeOK, Imminent
      <4>2. Cardinality(Imminent(q)') = 1
        BY <4>1, FS_Singleton
      <4>3. ASSUME NEW r \in Queue, r # q, Referenced(r)'
            PROVE  m_imminent_waits'[r] = Cardinality(Imminent(r)')
        <5>1. Referenced(r)
          BY <3>0, <4>3 DEF TypeOK, Referenced
        <5>2. Imminent(r)' = Imminent(r)
          BY <3>0, <4>3 DEF TypeOK, Imminent
        <5> QED
          BY <3>0, <4>3, <5>1, <5>2 DEF TypeOK, ImminentCounted
      <4> QED
        BY <3>0, <4>2, <4>3 DEF TypeOK, ImminentCounted
    <3>9. Responsible'
      BY <3>0 DEF TypeOK, Responsible
    <3>10. WakesOwn'
      BY <3>0, <3>2 DEF TypeOK, WakesOwn
    <3> QED
      BY <3>3, <3>4, <3>5, <3>6, <3>7, <3>8, <3>9, <3>10
  <2> QED
    BY <2>1, <2>2
<1>5. ASSUME NEW t \in Thread, QueueImminentWait(t) PROVE QueueInv'
  <2> USE <1>5 DEF QueueImminentWait, Goto
  <2>0. queue[t] \in Queue
    BY DEF ReferenceOK
  <2>1. TypeOK'
    <3>1. m_imminent_waits[queue[t]] + 1 \in Nat
      BY <2>0 DEF TypeOK
    <3> QED
      BY <2>0, <3>1 DEF TypeOK
  <2>2. CallOK' /\ LockOK'
    BY DEF TypeOK, CallOK, LockOK, BigLock
  <2>3. ReferenceOK'
    BY DEF TypeOK, ReferenceOK
  <2>4. BlockersOK'
    BY BlockersFrame DEF TypeOK
  <2>5. QueueReachable'
    BY <2>0 DEF TypeOK, ReferenceOK, QueueReachable
  <2>6. ImminentCounted'
    <3>1. CASE queue[t] \in m_was_removed
      BY <3>1, ImminentFrame DEF TypeOK, Referenced
    <3>2. CASE queue[t] \notin m_was_removed
      <4> DEFINE q == queue[t]
      <4>1. Imminent(q)' = Imminent(q) \cup {t} /\ t \notin Imminent(q)
        BY <3>2 DEF TypeOK, Imminent
      <4>2. Cardinality(Imminent(q)') = Cardinality(Imminent(q)) + 1
        BY <4>1, ImminentFinite, FS_AddElement
      <4>3. m_imminent_waits[q] = Cardinality(Imminent(q))
        BY <2>0 DEF ImminentCounted, Referenced
      <4>4. m_imminent_waits'[q] = Cardinality(Imminent(q)')
        BY <2>0, <3>2, <4>2, <4>3 DEF TypeOK
      <4>5. ASSUME NEW r \in Queue, r # q, Referenced(r)'
            PROVE  m_imminent_waits'[r] = Cardinality(Imminent(r)')
        <5>1. Referenced(r)
          BY <4>5 DEF Referenced
        <5>2. Imminent(r)' = Imminent(r)
          BY <3>2, <4>5 DEF TypeOK, Imminent
        <5> QED
          BY <3>2, <4>5, <5>1, <5>2 DEF TypeOK, ImminentCounted
      <4> QED
        BY <4>4, <4>5 DEF ImminentCounted
    <3> QED
      BY <3>1, <3>2
  <2>7. Responsible'
    BY DEF TypeOK, Responsible
  <2>8. WakesOwn'
    <3>1. pc'[t] \notin {"blocked", "wake"}
      BY DEF TypeOK
    <3>2. \A u \in Thread \ {t} : pc'[u] = pc[u]
      BY DEF TypeOK
    <3> QED
      BY <3>1, <3>2 DEF WakesOwn
  <2> QED
    BY <2>1, <2>2, <2>3, <2>4, <2>5, <2>6, <2>7, <2>8
<1>6. ASSUME NEW t \in Thread, Block(t) PROVE QueueInv'
  <2> USE <1>6 DEF Block, Goto
  <2> DEFINE q == queue[t]
  <2>0. q \in Queue /\ futex_queues = q /\ q \notin m_was_removed
    BY DEF ReferenceOK, QueueReachable
  <2>1. /\ m_blockers' = [m_blockers EXCEPT ![q] = Append(@, t)]
        /\ big_lock' = [big_lock EXCEPT ![ProcessOf[t]] = IF @ = t THEN Nobody ELSE @]
        /\ pc' = [pc EXCEPT ![t] = "blocked"]
    BY <2>0 DEF Release
  <2>2. m_blockers[q] \in Seq(Thread)
    BY <2>0 DEF TypeOK
  <2>3. Range(m_blockers'[q]) = Range(m_blockers[q]) \cup {t}
    BY <2>0, <2>1, <2>2, RangeAppend DEF TypeOK
  <2>4. /\ Imminent(q)' = Imminent(q) \ {t} /\ t \in Imminent(q)
        /\ m_imminent_waits[q] = Cardinality(Imminent(q))
    BY <2>0, <2>1 DEF TypeOK, Imminent, ImminentCounted, Referenced
  <2>5. /\ Cardinality(Imminent(q)') = m_imminent_waits[q] - 1
        /\ m_imminent_waits[q] - 1 \in Nat
    <3>1. Imminent(q) # {}
      BY <2>4
    <3>2. Cardinality(Imminent(q)) \in Nat /\ Cardinality(Imminent(q)) # 0
      BY <3>1, ImminentFinite
    <3>3. Cardinality(Imminent(q) \ {t}) = Cardinality(Imminent(q)) - 1
      BY <2>4, ImminentFinite, FS_RemoveElement
    <3> QED
      BY <2>4, <3>2, <3>3
  <2>6. TypeOK'
    BY <2>0, <2>1, <2>2, <2>5 DEF TypeOK
  <2>7. CallOK' /\ LockOK'
    BY <2>1 DEF TypeOK, CallOK, LockOK, BigLock
  <2>8. ReferenceOK'
    BY <2>0, <2>1 DEF TypeOK, ReferenceOK
  <2>9. BlockersOK'
    <3>1. ASSUME NEW u \in Thread, pc'[u] = "blocked"
          PROVE  u \notin m_did_unblock' /\ u \in Range(m_blockers'[queue[u]])
      <4>1. CASE u = t
        BY <2>3, <4>1
      <4>2. CASE u # t
        <5>1. pc[u] = "blocked" /\ u \notin m_did_unblock /\ u \in Range(m_blockers[queue[u]])
              /\ queue[u] \in Queue
          BY <2>1, <3>1, <4>2 DEF TypeOK, BlockersOK, ReferenceOK
        <5>2. m_blockers'[queue[u]] = m_blockers[queue[u]] \/ queue[u] = q
          BY <2>0, <2>1, <5>1 DEF TypeOK
        <5> QED
          BY <2>3, <5>1, <5>2
      <4> QED
        BY <4>1, <4>2
    <3>2. ASSUME NEW r \in Queue, NEW u \in Range(m_blockers'[r])
          PROVE  u \in Thread /\ pc'[u] \in {"blocked", "relock", "finalize"} /\ queue[u] = r
      <4>1. u \in Range(m_blockers[r]) \/ (u = t /\ r = q)
        BY <2>1, <2>3, <3>2 DEF TypeOK
      <4> QED
        BY <2>1, <4>1 DEF TypeOK, BlockersOK
    <3> QED
      BY <3>1, <3>2 DEF BlockersOK
  <2>10. QueueReachable'
    BY <2>0, <2>1 DEF TypeOK, QueueReachable, BlockersOK
  <2>11. ImminentCounted'
    <3>1. ASSUME NEW r \in Queue, r # q, Referenced(r)'
          PROVE  m_imminent_waits'[r] = Cardinality(Imminent(r)')
      <4>1. Referenced(r)
        BY <3>1 DEF Referenced
      <4>2. Imminent(r)' = Imminent(r)
        BY <2>1, <3>1 DEF TypeOK, Imminent
      <4> QED
        BY <3>1, <4>1, <4>2 DEF TypeOK, ImminentCounted
    <3>2. m_imminent_waits'[q] = Cardinality(Imminent(q)')
      BY <2>0, <2>5 DEF TypeOK
    <3> QED
      BY <3>1, <3>2 DEF ImminentCounted
  <2>12. Responsible'
    BY <2>1 DEF TypeOK, Responsible
  <2>13. WakesOwn'
    <3> SUFFICES ASSUME NEW x \in Thread, NEW y \in Thread, pc'[x] = "blocked", pc'[y] = "wake",
                        ProcessOf[x] = ProcessOf[y]
                 PROVE  queue[x] = queue[y]
      BY DEF WakesOwn
    <3>1. y # t /\ pc[y] = "wake"
      BY <2>1 DEF TypeOK
    <3>2. x # t
      BY <3>1 DEF LockOK, BigLock
    <3> QED
      BY <2>1, <3>1, <3>2 DEF TypeOK, WakesOwn
  <2> QED
    BY <2>6, <2>7, <2>8, <2>9, <2>10, <2>11, <2>12, <2>13
<1>7. ASSUME NEW t \in Thread, Interrupt(t) PROVE QueueInv'
  <2> USE <1>7 DEF Interrupt, Goto
  <2>1. TypeOK'
    BY DEF TypeOK, Location
  <2>2. CallOK'
    BY DEF TypeOK, CallOK
  <2>3. LockOK'
    BY DEF TypeOK, LockOK, BigLock
  <2>4. ReferenceOK'
    BY DEF TypeOK, ReferenceOK
  <2>5. BlockersOK'
    BY DEF TypeOK, ReferenceOK, BlockersOK
  <2>6. QueueReachable'
    BY DEF TypeOK, ReferenceOK, BlockersOK, QueueReachable
  <2>7. ImminentCounted'
    BY ImminentFrame DEF TypeOK, Referenced
  <2>8. Responsible'
    BY DEF TypeOK, Responsible, ReferenceOK
  <2>9. WakesOwn'
    BY DEF TypeOK, LockOK, BigLock, WakesOwn, QueueReachable, BlockersOK
  <2> QED
    BY <2>1, <2>2, <2>3, <2>4, <2>5, <2>6, <2>7, <2>8, <2>9
<1>8. ASSUME NEW t \in Thread, Relock(t) PROVE QueueInv'
  <2> USE <1>8 DEF Relock, Acquire, BigLock, Goto
  <2>1. TypeOK'
    BY DEF TypeOK, Location
  <2>2. CallOK'
    BY DEF TypeOK, CallOK
  <2>3. LockOK'
    BY DEF TypeOK, LockOK, BigLock
  <2>4. ReferenceOK'
    BY DEF TypeOK, ReferenceOK
  <2>5. BlockersOK'
    BY DEF TypeOK, ReferenceOK, BlockersOK
  <2>6. QueueReachable'
    BY DEF TypeOK, ReferenceOK, BlockersOK, QueueReachable
  <2>7. ImminentCounted'
    BY ImminentFrame DEF TypeOK, Referenced
  <2>8. Responsible'
    BY DEF TypeOK, Responsible, ReferenceOK
  <2>9. WakesOwn'
    BY DEF TypeOK, LockOK, BigLock, WakesOwn, QueueReachable, BlockersOK
  <2> QED
    BY <2>1, <2>2, <2>3, <2>4, <2>5, <2>6, <2>7, <2>8, <2>9
<1>9. ASSUME NEW t \in Thread, Finalize(t) PROVE QueueInv'
  <2> USE <1>9 DEF Finalize, Goto
  <2>1. TypeOK'
    <3>1. queue[t] \in Queue
      BY DEF ReferenceOK
    <3>2. remove_blocker(m_blockers[queue[t]], t) \in Seq(Thread)
      BY <3>1, RemoveBlockerFacts DEF TypeOK
    <3> QED
      BY <3>1, <3>2 DEF TypeOK
  <2>2. CallOK'
    BY DEF TypeOK, CallOK
  <2>3. LockOK'
    BY DEF TypeOK, LockOK, BigLock
  <2>4. ReferenceOK'
    BY DEF TypeOK, ReferenceOK
  <2>5. BlockersOK'
    <3>1. queue[t] \in Queue
      BY DEF ReferenceOK
    <3>2. Range(m_blockers'[queue[t]]) = Range(m_blockers[queue[t]]) \ {t}
      BY <3>1, RemoveBlockerFacts DEF TypeOK
    <3>3. \A r \in Queue \ {queue[t]} : m_blockers'[r] = m_blockers[r]
      BY DEF TypeOK
    <3>4. \A u \in Thread \ {t} : pc'[u] = pc[u]
      BY DEF TypeOK
    <3>5. pc'[t] = "check" /\ m_did_unblock' = m_did_unblock /\ queue' = queue
      BY DEF TypeOK
    <3>6. ASSUME NEW u \in Thread, pc'[u] = "blocked"
          PROVE  u \notin m_did_unblock' /\ u \in Range(m_blockers'[queue'[u]])
      <4>1. u # t
        BY <3>5, <3>6
      <4>2. pc[u] = "blocked" /\ u \notin m_did_unblock /\ u \in Range(m_blockers[queue[u]])
            /\ queue[u] \in Queue
        BY <3>4, <3>6, <4>1 DEF BlockersOK, ReferenceOK
      <4> QED
        BY <3>2, <3>3, <3>5, <4>1, <4>2
    <3>7. ASSUME NEW r \in Queue, NEW u \in Range(m_blockers'[r])
          PROVE  u \in Thread /\ pc'[u] \in {"blocked", "relock", "finalize"} /\ queue'[u] = r
      <4>1. u \in Range(m_blockers[r]) /\ (r = queue[t] => u # t)
        BY <3>2, <3>3, <3>7
      <4>2. u \in Thread /\ pc[u] \in {"blocked", "relock", "finalize"} /\ queue[u] = r
        BY <4>1 DEF BlockersOK
      <4> QED
        BY <3>4, <3>5, <4>1, <4>2
    <3> QED
      BY <3>6, <3>7 DEF BlockersOK
  <2>6. QueueReachable'
    BY DEF TypeOK, ReferenceOK, BlockersOK, QueueReachable
  <2>7. ImminentCounted'
    BY ImminentFrame DEF TypeOK, Referenced
  <2>8. Responsible'
    BY DEF TypeOK, Responsible, ReferenceOK
  <2>9. WakesOwn'
    BY DEF TypeOK, LockOK, BigLock, WakesOwn, QueueReachable, BlockersOK
  <2> QED
    BY <2>1, <2>2, <2>3, <2>4, <2>5, <2>6, <2>7, <2>8, <2>9
<1>10. ASSUME NEW t \in Thread, Check(t) PROVE QueueInv'
  <2> USE <1>10 DEF Check, Return, Release, Forget, Goto
  <2>1. TypeOK'
    BY DEF TypeOK, Location
  <2>2. CallOK'
    BY DEF TypeOK, CallOK
  <2>3. LockOK'
    BY DEF TypeOK, LockOK, BigLock
  <2>4. ReferenceOK'
    BY DEF TypeOK, ReferenceOK
  <2>5. BlockersOK'
    BY BlockersFrame DEF TypeOK
  <2>6. QueueReachable'
    BY DEF TypeOK, ReferenceOK, BlockersOK, QueueReachable
  <2>7. ImminentCounted'
    BY ImminentFrame DEF TypeOK, Referenced
  <2>8. Responsible'
    <3>1. CASE is_empty_and_no_imminent_waits(queue[t])
      BY <3>1 DEF TypeOK, Responsible
    <3>2. CASE ~is_empty_and_no_imminent_waits(queue[t]) /\ queue[t] = futex_queues
      <4>1. PICK u \in Thread : queue[u] = queue[t] /\ pc[u] \in {"block", "blocked", "relock", "finalize"}
        BY <3>2, NonEmptyQueue DEF ReferenceOK, Referenced
      <4>2. u # t
        BY <4>1
      <4> QED
        BY <3>2, <4>1, <4>2 DEF TypeOK, Responsible
    <3>3. CASE ~is_empty_and_no_imminent_waits(queue[t]) /\ queue[t] # futex_queues
      BY <3>3 DEF TypeOK, Responsible
    <3> QED
      BY <3>1, <3>2, <3>3
  <2>9. WakesOwn'
    BY DEF TypeOK, LockOK, BigLock, WakesOwn, QueueReachable, BlockersOK
  <2> QED
    BY <2>1, <2>2, <2>3, <2>4, <2>5, <2>6, <2>7, <2>8, <2>9
<1>11. ASSUME NEW t \in Thread, WaitRemove(t) PROVE QueueInv'
  <2> USE <1>11 DEF WaitRemove, RemoveQueue, Return, Release, Goto
  <2>1. TypeOK'
    BY DEF TypeOK, Location
  <2>2. CallOK'
    BY DEF TypeOK, CallOK
  <2>3. LockOK'
    BY DEF TypeOK, LockOK, BigLock
  <2>4. ReferenceOK'
    BY DEF TypeOK, ReferenceOK
  <2>5. BlockersOK'
    BY BlockersFrame DEF TypeOK
  <2>6. QueueReachable'
    <3>1. CASE futex_queues # NoQueue /\ try_remove(futex_queues)
      <4>1. \A u \in Thread : pc[u] \in {"block", "blocked"} => queue[u] # futex_queues
        BY <3>1, EmptyQueue DEF try_remove, TypeOK, Referenced
      <4>2. \A u \in Thread : pc[u] \notin {"block", "blocked"}
        BY <4>1 DEF QueueReachable, BlockersOK
      <4> QED
        BY <4>2 DEF TypeOK, QueueReachable
    <3>2. CASE ~(futex_queues # NoQueue /\ try_remove(futex_queues))
      BY <3>2 DEF TypeOK, QueueReachable
    <3> QED
      BY <3>1, <3>2
  <2>7. ImminentCounted'
    BY ImminentFrame DEF TypeOK, Referenced
  <2>8. Responsible'
    <3>1. CASE futex_queues = NoQueue \/ try_remove(futex_queues)
      BY <3>1 DEF TypeOK, Responsible
    <3>2. CASE futex_queues # NoQueue /\ ~try_remove(futex_queues)
      <4>0. ~is_empty_and_no_imminent_waits(futex_queues) /\ futex_queues \in Queue
        BY <3>2 DEF try_remove, ReferenceOK, TypeOK
      <4>1. PICK u \in Thread :
              /\ queue[u] = futex_queues
              /\ pc[u] \in {"block", "blocked", "relock", "finalize"}
        BY <4>0, NonEmptyQueue DEF Referenced
      <4>2. u # t
        BY <4>1
      <4> QED
        BY <3>2, <4>1, <4>2 DEF TypeOK, Responsible
    <3> QED
      BY <3>1, <3>2
  <2>9. WakesOwn'
    BY DEF TypeOK, LockOK, BigLock, WakesOwn, QueueReachable, BlockersOK
  <2> QED
    BY <2>1, <2>2, <2>3, <2>4, <2>5, <2>6, <2>7, <2>8, <2>9
<1>12. ASSUME NEW t \in Thread, NEW n \in WakeCounts, NEW b \in WakeBitsets, WakeEnter(t, n, b) PROVE QueueInv'
  <2> USE <1>12 DEF WakeEnter, Enter, Acquire, BigLock, Goto
  <2>1. TypeOK'
    BY DEF TypeOK, Location
  <2>2. CallOK'
    BY DEF TypeOK, CallOK
  <2>3. LockOK'
    BY DEF TypeOK, LockOK, BigLock
  <2>4. ReferenceOK'
    BY DEF TypeOK, ReferenceOK
  <2>5. BlockersOK'
    BY DEF TypeOK, ReferenceOK, BlockersOK
  <2>6. QueueReachable'
    BY DEF TypeOK, ReferenceOK, BlockersOK, QueueReachable
  <2>7. ImminentCounted'
    BY ImminentFrame DEF TypeOK, Referenced
  <2>8. Responsible'
    BY DEF TypeOK, Responsible, ReferenceOK
  <2>9. WakesOwn'
    BY DEF TypeOK, LockOK, BigLock, WakesOwn, QueueReachable, BlockersOK
  <2> QED
    BY <2>1, <2>2, <2>3, <2>4, <2>5, <2>6, <2>7, <2>8, <2>9
<1>13. ASSUME NEW t \in Thread, WakeFind(t) PROVE QueueInv'
  <2> USE <1>13 DEF WakeFind, Return, Release, Goto
  <2>1. TypeOK'
    <3>1. passed' \subseteq Thread \X Thread
      BY DEF TypeOK, Due, Committed
    <3>2. big_lock' \in [Process -> Thread \cup {Nobody}] /\ queue' \in [Thread -> Queue \cup {NoQueue}]
      BY DEF TypeOK
    <3>3. pc' \in [Thread -> Location]
      BY DEF TypeOK, Location
    <3> QED
      BY <3>1, <3>2, <3>3 DEF TypeOK, Location
  <2>2. CallOK'
    BY DEF TypeOK, CallOK
  <2>3. LockOK'
    <3>1. CASE futex_queues = NoQueue
      BY <3>1 DEF TypeOK, LockOK, BigLock
    <3>2. CASE futex_queues # NoQueue
      BY <3>2 DEF TypeOK, LockOK, BigLock
    <3> QED
      BY <3>1, <3>2
  <2>4. ReferenceOK'
    BY DEF TypeOK, ReferenceOK
  <2>5. BlockersOK'
    BY BlockersFrame DEF TypeOK
  <2>6. QueueReachable'
    BY DEF TypeOK, ReferenceOK, BlockersOK, QueueReachable
  <2>7. ImminentCounted'
    BY ImminentFrame DEF TypeOK, Referenced
  <2>8. Responsible'
    BY DEF TypeOK, Responsible, ReferenceOK
  <2>9. WakesOwn'
    BY DEF TypeOK, LockOK, BigLock, WakesOwn, QueueReachable, BlockersOK
  <2> QED
    BY <2>1, <2>2, <2>3, <2>4, <2>5, <2>6, <2>7, <2>8, <2>9
<1>14. ASSUME NEW t \in Thread, WakeN(t) PROVE QueueInv'
  <2>0. PICK left \in Seq(Thread), woken \in SUBSET Thread, full \in BOOLEAN :
          WakeNEffect(t, left, woken, full)
    BY <1>14, WakeNFacts
  <2> USE DEF WakeNEffect
  <2>1. pc[t] = "wake" /\ UNCHANGED <<word, futex_queues, m_imminent_waits, m_was_removed>>
    BY <1>14 DEF WakeN
  <2>a. \/ pc'[t] = "wake_remove" /\ big_lock' = big_lock /\ queue' = queue
        \/ pc'[t] = "user" /\ Release(t) /\ queue' = [queue EXCEPT ![t] = NoQueue]
    BY <2>0, Zenon
  <2>2. Range(m_blockers'[queue[t]]) = Range(left)
    BY <2>0 DEF TypeOK
  <2>3. \A r \in Queue \ {queue[t]} : m_blockers'[r] = m_blockers[r]
    BY <2>0 DEF TypeOK
  <2>4. TypeOK'
    <3>1. passed' \subseteq Thread \X Thread
      BY <2>0 DEF TypeOK, Due, Committed
    <3>2. m_blockers' \in [Queue -> Seq(Thread)] /\ m_did_unblock' \subseteq Thread
      BY <2>0 DEF TypeOK
    <3>3. big_lock' \in [Process -> Thread \cup {Nobody}]
      <4>1. CASE big_lock' = big_lock
        BY <4>1 DEF TypeOK
      <4>2. CASE Release(t)
        BY <4>2 DEF TypeOK, Release
      <4> QED
        BY <2>a, <4>1, <4>2
    <3>4. queue' \in [Thread -> Queue \cup {NoQueue}]
      BY <2>a DEF TypeOK
    <3> QED
      BY <2>0, <2>1, <3>1, <3>2, <3>3, <3>4 DEF TypeOK, Location
  <2>5. CallOK'
    <3>1. call' = [u \in Thread |-> call'[u]]
      BY <2>0 DEF CallOK
    <3>2. \A u \in Thread : pc'[u] # pc[u] /\ u # t => pc[u] = "blocked" /\ pc'[u] = "relock"
      BY <2>0
    <3>3. pc'[t] = "user" \/ (pc'[t] = "wake_remove" /\ call' = call)
      BY <2>0
    <3> QED
      BY <2>0, <2>1, <3>1, <3>2, <3>3 DEF CallOK
  <2>6. LockOK'
    <3>1. \A u \in Thread \ {t} : pc'[u] \notin {"user", "blocked", "relock"} => pc'[u] = pc[u]
      BY <2>0
    <3>2. CASE big_lock' = big_lock
      BY <2>0, <2>1, <3>1, <3>2 DEF LockOK, BigLock
    <3>3. CASE pc'[t] = "user" /\ Release(t)
      BY <2>1, <3>1, <3>3 DEF LockOK, BigLock, Release, TypeOK
    <3> QED
      BY <2>a, <3>2, <3>3
  <2>7. ReferenceOK'
    <3>1. \A u \in Thread \ {t} : pc'[u] = pc[u] \/ (pc[u] = "blocked" /\ pc'[u] = "relock")
      BY <2>0
    <3>2. CASE pc'[t] = "wake_remove" /\ queue' = queue
      BY <2>0, <2>1, <3>1, <3>2 DEF ReferenceOK
    <3>3. CASE pc'[t] = "user" /\ queue' = [queue EXCEPT ![t] = NoQueue]
      BY <2>0, <2>1, <3>1, <3>3 DEF ReferenceOK, TypeOK
    <3> QED
      BY <2>a, <3>2, <3>3
  <2>8. BlockersOK'
    <3>1. ASSUME NEW u \in Thread, pc'[u] = "blocked"
          PROVE  u \notin m_did_unblock' /\ u \in Range(m_blockers'[queue'[u]])
      <4>1. u # t /\ u \notin woken /\ pc[u] = "blocked" /\ queue'[u] = queue[u]
        BY <2>0, <3>1
      <4>2. u \notin m_did_unblock /\ u \in Range(m_blockers[queue[u]]) /\ queue[u] \in Queue
        BY <4>1 DEF BlockersOK, ReferenceOK
      <4>3. queue[u] = queue[t] => u \in Range(left)
        BY <2>0, <4>1, <4>2
      <4> QED
        BY <2>0, <2>2, <2>3, <4>1, <4>2, <4>3
    <3>2. ASSUME NEW r \in Queue, NEW u \in Range(m_blockers'[r])
          PROVE  u \in Thread /\ pc'[u] \in {"blocked", "relock", "finalize"} /\ queue'[u] = r
      <4>1. u \in Range(m_blockers[r])
        BY <2>0, <2>2, <2>3, <3>2
      <4>2. u \in Thread /\ pc[u] \in {"blocked", "relock", "finalize"} /\ queue[u] = r
        BY <4>1 DEF BlockersOK
      <4> QED
        BY <2>0, <2>1, <4>2
    <3> QED
      BY <3>1, <3>2 DEF BlockersOK
  <2>9. QueueReachable'
    <3> SUFFICES ASSUME NEW u \in Thread,
                        pc'[u] = "block" \/ (pc'[u] = "blocked" /\ u \notin m_did_unblock')
                 PROVE  futex_queues = queue'[u] /\ queue'[u] \notin m_was_removed
      BY <2>1 DEF QueueReachable
    <3>1. u # t /\ pc[u] = pc'[u] /\ queue'[u] = queue[u] /\ m_did_unblock \subseteq m_did_unblock'
      BY <2>0
    <3> QED
      BY <3>1 DEF QueueReachable
  <2>10. ImminentCounted'
    <3>1. \A u \in Thread : /\ pc'[u] = "block" <=> pc[u] = "block"
                            /\ pc[u] = "block" => queue'[u] = queue[u]
      BY <2>0, <2>1
    <3>2. \A r \in Queue : Referenced(r)' => Referenced(r)
      BY <2>0, <2>1 DEF Referenced, TypeOK
    <3> QED
      BY <2>1, <3>1, <3>2, ImminentFrame
  <2>11. Responsible'
    <3> SUFFICES ASSUME futex_queues # NoQueue
                 PROVE  \E u \in Thread :
                          /\ queue'[u] = futex_queues
                          /\ pc'[u] \in {"block", "blocked", "relock", "finalize", "check", "remove"}
      BY <2>1 DEF Responsible
    <3>1. PICK u \in Thread :
            /\ queue[u] = futex_queues
            /\ pc[u] \in {"block", "blocked", "relock", "finalize", "check", "remove"}
      BY DEF Responsible
    <3>2. u # t
      BY <2>1, <3>1
    <3> QED
      BY <2>0, <3>1, <3>2
  <2>12. WakesOwn'
    <3> SUFFICES ASSUME NEW x \in Thread, NEW y \in Thread, pc'[x] = "blocked", pc'[y] = "wake",
                        ProcessOf[x] = ProcessOf[y]
                 PROVE  queue'[x] = queue'[y]
      BY DEF WakesOwn
    <3>1. x # t /\ y # t /\ pc[x] = "blocked" /\ pc[y] = "wake"
      BY <2>0
    <3> QED
      BY <2>0, <3>1 DEF WakesOwn
  <2> QED
    BY <2>4, <2>5, <2>6, <2>7, <2>8, <2>9, <2>10, <2>11, <2>12
<1>15. ASSUME NEW t \in Thread, WakeRemove(t) PROVE QueueInv'
  <2> USE <1>15 DEF WakeRemove, RemoveQueue, Return, Release, Goto
  <2>1. TypeOK'
    BY DEF TypeOK, Location
  <2>2. CallOK'
    BY DEF TypeOK, CallOK
  <2>3. LockOK'
    BY DEF TypeOK, LockOK, BigLock
  <2>4. ReferenceOK'
    BY DEF TypeOK, ReferenceOK
  <2>5. BlockersOK'
    BY BlockersFrame DEF TypeOK
  <2>6. QueueReachable'
    <3>1. CASE futex_queues # NoQueue /\ try_remove(futex_queues)
      <4>1. \A u \in Thread : pc[u] \in {"block", "blocked"} => queue[u] # futex_queues
        BY <3>1, EmptyQueue DEF try_remove, TypeOK, Referenced
      <4>2. \A u \in Thread : pc[u] \notin {"block", "blocked"}
        BY <4>1 DEF QueueReachable, BlockersOK
      <4> QED
        BY <4>2 DEF TypeOK, QueueReachable
    <3>2. CASE ~(futex_queues # NoQueue /\ try_remove(futex_queues))
      BY <3>2 DEF TypeOK, QueueReachable
    <3> QED
      BY <3>1, <3>2
  <2>7. ImminentCounted'
    BY ImminentFrame DEF TypeOK, Referenced
  <2>8. Responsible'
    BY DEF TypeOK, Responsible, ReferenceOK
  <2>9. WakesOwn'
    BY DEF TypeOK, LockOK, BigLock, WakesOwn, QueueReachable, BlockersOK
  <2> QED
    BY <2>1, <2>2, <2>3, <2>4, <2>5, <2>6, <2>7, <2>8, <2>9
<1>16. CASE UNCHANGED vars
  BY <1>16 DEF vars, queueVars, TypeOK, CallOK, LockOK, ReferenceOK, BlockersOK, QueueReachable, ImminentCounted, Responsible, WakesOwn, BigLock, Imminent, Referenced
<1> QED
  BY <1>1, <1>2, <1>3, <1>4, <1>5, <1>6, <1>7, <1>8, <1>9, <1>10, <1>11, <1>12, <1>13, <1>14, <1>15, <1>16 DEF Next

(* So it holds in every reachable state.                                   *)
LEMMA QueueInvariance == Spec => []QueueInv
BY InitQueueInv, NextQueueInv, PTL DEF Spec

(* Every step of sys$futex keeps the state in its type; in particular      *)
(* should_add_blocker never finds m_imminent_waits at zero, which it       *)
(* VERIFYs.                                                                *)
THEOREM TypeCorrect == Spec => []TypeOK
BY QueueInvariance, PTL DEF QueueInv

(* However many threads of however many processes create, look up, remove  *)
(* and recreate the queue of a futex, nobody waits, or is about to, on one *)
(* that find_futex_queue no longer returns.                                *)
THEOREM QueueReachableHolds == Spec => []QueueReachable
BY QueueInvariance, PTL DEF QueueInv

(* m_imminent_waits is the number of threads between queue_imminent_wait   *)
(* and should_add_blocker, for any number of threads.                      *)
THEOREM ImminentCountedHolds == Spec => []ImminentCounted
BY QueueInvariance, PTL DEF QueueInv

(* A FutexQueue is removed from the table when the last thread leaves      *)
(* sys$futex, whichever of the waiters and wakers finds it empty.          *)
THEOREM NothingLeakedHolds == Spec => []NothingLeaked
<1>1. QueueInv => NothingLeaked
  BY DEF QueueInv, Responsible, NothingLeaked
<1> QED
  BY <1>1, QueueInvariance, PTL

-----------------------------------------------------------------------------
(* Wakes.                                                                  *)

(* FUTEX_WAIT waits with an empty m_bitset, which FUTEX_WAKE_BITSET only   *)
(* matches with all bits: a futex that is used with both is not covered.   *)
BitsetsMatch == Bit \notin WaitBitsets \/ WakeBitsets \subseteq {Bit}

(* A thread that is committed to wait either has the big lock, so that no  *)
(* other thread of its process is in sys$futex, or is in the list that the *)
(* wakes of its process work on.                                           *)
LEMMA NextPassedOthers ==
  BitsetsMatch /\ QueueInv /\ PassedOthers /\ [Next]_vars => PassedOthers'
<1> SUFFICES ASSUME BitsetsMatch, QueueInv, PassedOthers, [Next]_vars PROVE PassedOthers'
  OBVIOUS
<1> USE DEF QueueInv
<1>1. ASSUME NEW t \in Thread, pc[t] \in {"wake_find", "wake"},
             NEW u \in Committed, ProcessOf[u] = ProcessOf[t]
      PROVE  pc[u] = "blocked"
  BY <1>1 DEF Committed, LockOK, BigLock
<1>2. ASSUME NEW t \in Thread, WakeFind(t) PROVE PassedOthers'
  <2> SUFFICES ASSUME futex_queues = NoQueue, NEW u \in Due(call[t].bitset),
                      ProcessOf[u] = ProcessOf[t]
               PROVE  FALSE
    BY <1>2 DEF WakeFind, PassedOthers
  <2>1. u \in Thread /\ pc[u] = "blocked"
    BY <1>1, <1>2 DEF WakeFind, Due, Committed
  <2> QED
    BY <2>1, NobodyAssumption DEF BlockersOK, QueueReachable, ReferenceOK
<1>3. ASSUME NEW t \in Thread, WakeN(t) PROVE PassedOthers'
  <2>0. PICK left \in Seq(Thread), woken \in SUBSET Thread, full \in BOOLEAN :
          WakeNEffect(t, left, woken, full)
    BY <1>3, WakeNFacts
  <2> SUFFICES ASSUME ~full, NEW u \in Due(call[t].bitset), u \notin woken,
                      ProcessOf[u] = ProcessOf[t]
               PROVE  FALSE
    BY <2>0 DEF PassedOthers, WakeNEffect
  <2>1. u \in Thread /\ pc[u] = "blocked" /\ pc[t] = "wake"
    BY <1>1, <1>3 DEF WakeN, Due, Committed
  <2>2. queue[u] = queue[t] /\ u \notin m_did_unblock /\ u \in Range(m_blockers[queue[t]])
    BY <2>1 DEF WakesOwn, BlockersOK
  <2>3. ~Unblocks(call[t].bitset, u)
    BY <2>0, <2>2 DEF WakeNEffect
  <2>4. /\ call[u].bitset \in WaitBitsets /\ call[t].bitset \in WakeBitsets
        /\ call[u].bitset \cap call[t].bitset # {}
    BY <2>1 DEF CallOK, Due
  <2> QED
    BY <2>2, <2>3, <2>4 DEF Unblocks, m_bitset, BitsetsMatch
<1>4. ASSUME NEW t \in Thread, WaitLoad(t) \/ Check(t) PROVE PassedOthers'
  BY <1>4 DEF WaitLoad, Check, Forget, PassedOthers
<1>5. ASSUME UNCHANGED passed PROVE PassedOthers'
  BY <1>5 DEF PassedOthers
<1>6. ASSUME NEW v \in Value, Store(v) PROVE UNCHANGED passed
  BY <1>6 DEF Store
<1>7. ASSUME NEW t \in Thread,
             \/ \E v \in Value, b \in WaitBitsets : WaitEnter(t, v, b)
             \/ \E n \in WakeCounts, b \in WakeBitsets : WakeEnter(t, n, b)
             \/ WaitFind(t) \/ QueueImminentWait(t) \/ Block(t) \/ Interrupt(t) \/ Relock(t)
             \/ Finalize(t) \/ WaitRemove(t) \/ WakeRemove(t)
      PROVE  UNCHANGED passed
  BY <1>7 DEF WaitEnter, WakeEnter, Enter, WaitFind, QueueImminentWait, Block, Interrupt, Relock,
              Finalize, WaitRemove, WakeRemove
<1>8. CASE UNCHANGED vars
  BY <1>5, <1>8 DEF vars
<1> QED
  BY <1>2, <1>3, <1>4, <1>5, <1>6, <1>7, <1>8 DEF Next

(* The value comparison and the wait are one atomic step as far as the     *)
(* wakes of the same process are concerned: the big lock keeps them out    *)
(* until the thread is in the list, and wake_n does not pass over it.      *)
THEOREM NoMissedWakeHolds == ASSUME BitsetsMatch PROVE Spec => []NoMissedWakeInProcess
<1>1. Init => PassedOthers
  BY DEF Init, PassedOthers
<1>2. QueueInv /\ PassedOthers /\ [Next]_vars => PassedOthers'
  BY NextPassedOthers
<1>3. PassedOthers => NoMissedWakeInProcess
  BY DEF PassedOthers, NoMissedWakeInProcess
<1> QED
  BY <1>1, <1>2, <1>3, QueueInvariance, PTL DEF Spec
=============================================================================
