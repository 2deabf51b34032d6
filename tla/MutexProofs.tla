----------------------------- MODULE MutexProofs -----------------------------
(***************************************************************************)
(* What is proved about Mutex for any finite set of threads, any nesting   *)
(* depth and both behaviours.                                              *)
(***************************************************************************)
EXTENDS Mutex, FiniteSetTheorems, TLAPS

-----------------------------------------------------------------------------
(* The inductive invariant.                                                *)

(* A thread is in the list of the mode it wants exactly while it is        *)
(* blocked, or woken and not yet back from Mutex::block; the exclusive     *)
(* list holds nobody twice (the VERIFYs on list.contains).                 *)
ListsOK ==
    /\ \A t \in Thread : t \in shared <=> Waiting(t) /\ want[t] = "Shared"
    /\ \A t \in Thread :
         (\E i \in 1 .. Len(exclusive) : exclusive[i] = t)
            <=> Waiting(t) /\ want[t] = "Exclusive"
    /\ \A i, j \in 1 .. Len(exclusive) : exclusive[i] = exclusive[j] => i = j

(* What a thread asks for.                                                 *)
RequestsOK ==
    \A t \in Thread :
        /\ Waiting(t) => want[t] # "Unlocked" /\ m_lock_requested_count[t] > 0
        /\ Waiting(t) /\ want[t] = "Shared" => m_lock_requested_count[t] = 1
        /\ pc[t] = "yielded" => held[t] = 0 /\ m_lock_requested_count[t] > 0
        /\ pc[t] \in {"blocked", "woken"} => held[t] + m_lock_requested_count[t] <= MaxLocks

(* The big lock is never shared.                                           *)
BigLockExclusive ==
    m_behavior = "BigLock" =>
        /\ m_mode # "Shared"
        /\ shared = {}
        /\ \A t \in Thread : want[t] # "Shared"

IndInv ==
    /\ TypeOK
    /\ ListsOK
    /\ RequestsOK
    /\ BigLockExclusive
    /\ CountsAgree
    /\ HandOff
    /\ NoWaiterLeftBehind

-----------------------------------------------------------------------------
(* Counting locks.                                                         *)

(* The tokens of a bounded count are a finite set.                         *)
LEMMA TokensFinite ==
    ASSUME NEW own
    PROVE  /\ IsFiniteSet(TokensOf(own))
           /\ Cardinality(TokensOf(own)) \in Nat
<1>1. IsFiniteSet(1 .. MaxLocks)
  BY MaxLocksAssumption, FS_Interval
<1>2. IsFiniteSet(Thread \X (1 .. MaxLocks))
  BY <1>1, ThreadAssumption, FS_Product
<1>3. TokensOf(own) \in SUBSET (Thread \X (1 .. MaxLocks))
  BY DEF TokensOf
<1> QED
  BY <1>2, <1>3, FS_Subset, FS_CardinalityType

(* One more lock for t is one more token.                                  *)
LEMMA TokensAdd ==
    ASSUME NEW own \in [Thread -> Nat], NEW t \in Thread, own[t] < MaxLocks
    PROVE  Cardinality(TokensOf([own EXCEPT ![t] = @ + 1]))
              = Cardinality(TokensOf(own)) + 1
<1> DEFINE new == [own EXCEPT ![t] = @ + 1]
           e0 == <<t, own[t] + 1>>
<1>1. own[t] + 1 \in 1 .. MaxLocks
  BY MaxLocksAssumption
<1>2. e0 \notin TokensOf(own)
  BY DEF TokensOf
<1>3. ASSUME NEW u \in Thread, NEW i \in 1 .. MaxLocks
      PROVE  <<u, i>> \in TokensOf(new) <=> <<u, i>> \in TokensOf(own) \/ <<u, i>> = e0
  <2>1. CASE u = t
    BY <2>1, MaxLocksAssumption DEF TokensOf
  <2>2. CASE u # t
    BY <2>2 DEF TokensOf
  <2> QED BY <2>1, <2>2
<1>4. TokensOf(new) = TokensOf(own) \cup {e0}
  <2>1. \A e \in Thread \X (1 .. MaxLocks) : e = <<e[1], e[2]>> /\ e[1] \in Thread /\ e[2] \in 1 .. MaxLocks
    OBVIOUS
  <2>2. e0 \in Thread \X (1 .. MaxLocks)
    BY <1>1
  <2>3. TokensOf(new) \subseteq Thread \X (1 .. MaxLocks) /\ TokensOf(own) \subseteq Thread \X (1 .. MaxLocks)
    BY DEF TokensOf
  <2>4. ASSUME NEW e \in Thread \X (1 .. MaxLocks)
        PROVE  e \in TokensOf(new) <=> e \in TokensOf(own) \/ e = e0
    <3>1. PICK u \in Thread, i \in 1 .. MaxLocks : e = <<u, i>>
      BY <2>1
    <3> HIDE DEF new, e0
    <3> QED BY <1>3, <3>1
  <2> QED BY <2>2, <2>3, <2>4
<1> QED
  BY <1>2, <1>4, TokensFinite, FS_AddElement

(* One lock less for t is one token less.                                  *)
LEMMA TokensRemove ==
    ASSUME NEW own \in [Thread -> 0 .. MaxLocks], NEW t \in Thread, own[t] > 0
    PROVE  Cardinality(TokensOf([own EXCEPT ![t] = @ - 1]))
              = Cardinality(TokensOf(own)) - 1
<1> DEFINE old == [own EXCEPT ![t] = @ - 1]
<1>1. old \in [Thread -> Nat] /\ old[t] < MaxLocks
  BY MaxLocksAssumption
<1>2. [old EXCEPT ![t] = @ + 1] = own
  <2>1. ASSUME NEW u \in Thread
        PROVE  [old EXCEPT ![t] = @ + 1][u] = own[u]
    <3>1. own[u] \in Nat
      BY MaxLocksAssumption
    <3>2. CASE u = t
      BY <3>1, <3>2
    <3>3. CASE u # t
      BY <3>3
    <3> QED BY <3>2, <3>3
  <2>2. DOMAIN [old EXCEPT ![t] = @ + 1] = Thread
    OBVIOUS
  <2> QED BY <2>1, <2>2
<1>3. Cardinality(TokensOf([old EXCEPT ![t] = @ + 1])) = Cardinality(TokensOf(old)) + 1
  BY <1>1, TokensAdd
<1> HIDE DEF old
<1>4. Cardinality(TokensOf(own)) = Cardinality(TokensOf(old)) + 1
  BY <1>2, <1>3
<1>5. Cardinality(TokensOf(old)) \in Nat
  BY TokensFinite
<1>6. Cardinality(TokensOf(old)) = Cardinality(TokensOf(own)) - 1
  BY <1>4, <1>5
<1> QED BY <1>6 DEF old

(* There is no token exactly when nobody owns a lock.                      *)
LEMMA TokensNone ==
    ASSUME NEW own \in [Thread -> 0 .. MaxLocks]
    PROVE  Cardinality(TokensOf(own)) = 0 <=> \A t \in Thread : own[t] = 0
<1>1. Cardinality(TokensOf(own)) = 0 <=> TokensOf(own) = {}
  BY TokensFinite, FS_EmptySet
<1>2. ASSUME TokensOf(own) = {}, NEW t \in Thread, own[t] # 0
      PROVE  FALSE
  <2>1. own[t] \in 1 .. MaxLocks
    BY <1>2
  <2>2. <<t, own[t]>> \in TokensOf(own)
    BY <2>1 DEF TokensOf
  <2> QED BY <1>2, <2>2
<1>3. ASSUME \A t \in Thread : own[t] = 0
      PROVE  TokensOf(own) = {}
  BY <1>3 DEF TokensOf
<1> QED BY <1>1, <1>2, <1>3

(* One lock each for the threads of S is one token for each of them.       *)
LEMMA TokensUnit ==
    ASSUME NEW S \in SUBSET Thread
    PROVE  Cardinality(TokensOf([u \in Thread |-> IF u \in S THEN 1 ELSE 0]))
              = Cardinality(S)
<1> DEFINE own == [u \in Thread |-> IF u \in S THEN 1 ELSE 0]
           f == [u \in S |-> <<u, 1>>]
<1>1. TokensOf(own) = {<<u, 1>> : u \in S}
  <2>1. \A e \in Thread \X (1 .. MaxLocks) : e = <<e[1], e[2]>> /\ e[1] \in Thread /\ e[2] \in 1 .. MaxLocks
    OBVIOUS
  <2>2. ASSUME NEW u \in Thread, NEW i \in 1 .. MaxLocks
        PROVE  <<u, i>> \in TokensOf(own) <=> u \in S /\ i = 1
    BY MaxLocksAssumption DEF TokensOf
  <2>3. TokensOf(own) \subseteq Thread \X (1 .. MaxLocks)
    BY DEF TokensOf
  <2>4. 1 \in 1 .. MaxLocks
    BY MaxLocksAssumption
  <2> HIDE DEF own
  <2>5. TokensOf(own) \subseteq {<<u, 1>> : u \in S}
    BY <2>1, <2>2, <2>3
  <2>6. {<<u, 1>> : u \in S} \subseteq TokensOf(own)
    BY <2>2, <2>4
  <2> QED BY <2>5, <2>6
<1>2. f \in Bijection(S, {<<u, 1>> : u \in S})
  BY DEF Bijection, Injection, Surjection, IsInjective
<1>3. IsFiniteSet(S)
  BY ThreadAssumption, FS_Subset
<1> QED
  BY <1>1, <1>2, <1>3, FS_Bijection DEF ExistsBijection

-----------------------------------------------------------------------------
(* Ownership counts are bounded.                                           *)
LEMMA OwnedType ==
    ASSUME TypeOK, RequestsOK
    PROVE  /\ owned \in [Thread -> 0 .. MaxLocks]
           /\ \A t \in Thread : owned[t] = Owned(t)
  BY MaxLocksAssumption DEF TypeOK, RequestsOK, owned, Owned, Location

(* The list without t.                                                     *)
LEMMA WithoutList ==
    ASSUME NEW s \in Seq(Thread), NEW t \in Thread,
           \E i \in 1 .. Len(s) : s[i] = t,
           \A i, j \in 1 .. Len(s) : s[i] = s[j] => i = j
    PROVE  /\ Without(s, t) \in Seq(Thread)
           /\ \A u \in Thread :
                (\E i \in 1 .. Len(Without(s, t)) : Without(s, t)[i] = u)
                   <=> u # t /\ \E i \in 1 .. Len(s) : s[i] = u
           /\ \A i, j \in 1 .. Len(Without(s, t)) :
                Without(s, t)[i] = Without(s, t)[j] => i = j
<1>1. DOMAIN s = 1 .. Len(s) /\ Len(s) \in Nat /\ Len(s) > 0
  OBVIOUS
<1> DEFINE k == CHOOSE j \in DOMAIN s : s[j] = t
           w == [j \in 1 .. (Len(s) - 1) |-> IF j < k THEN s[j] ELSE s[j + 1]]
<1>2. k \in 1 .. Len(s) /\ s[k] = t
  BY <1>1
<1>3. Without(s, t) = w
  BY DEF Without
<1> HIDE DEF k
<1>4. w \in Seq(Thread) /\ Len(w) = Len(s) - 1
  <2>1. \A j \in 1 .. (Len(s) - 1) : s[j] \in Thread /\ s[j + 1] \in Thread
    BY <1>1
  <2> QED BY <1>1, <2>1
<1>5. ASSUME NEW u \in Thread
      PROVE  (\E i \in 1 .. Len(w) : w[i] = u) <=> u # t /\ \E i \in 1 .. Len(s) : s[i] = u
  <2>1. ASSUME NEW i \in 1 .. Len(w), w[i] = u
        PROVE  u # t /\ \E j \in 1 .. Len(s) : s[j] = u
    <3>1. CASE i < k
      BY <1>1, <1>2, <1>4, <2>1, <3>1
    <3>2. CASE ~(i < k)
      BY <1>1, <1>2, <1>4, <2>1, <3>2
    <3> QED BY <3>1, <3>2
  <2>2. ASSUME u # t, NEW i \in 1 .. Len(s), s[i] = u
        PROVE  \E j \in 1 .. Len(w) : w[j] = u
    <3>1. CASE i < k
      <4>1. i \in 1 .. Len(w) /\ w[i] = u
        BY <1>1, <1>2, <1>4, <2>2, <3>1
      <4> QED BY <4>1
    <3>2. CASE i > k
      <4>1. i - 1 \in 1 .. Len(w) /\ w[i - 1] = u
        BY <1>1, <1>2, <1>4, <2>2, <3>2
      <4> QED BY <4>1
    <3>3. i # k
      BY <1>2, <2>2
    <3>4. i < k \/ i > k
      BY <1>1, <1>2, <3>3
    <3> QED BY <3>1, <3>2, <3>4
  <2> QED BY <2>1, <2>2
<1>6. ASSUME NEW i \in 1 .. Len(w), NEW j \in 1 .. Len(w), w[i] = w[j]
      PROVE  i = j
  BY <1>1, <1>2, <1>4, <1>6
<1> HIDE DEF w
<1> QED BY <1>3, <1>4, <1>5, <1>6

-----------------------------------------------------------------------------
(* The hand-off: whoever gives up the last lock, unblock_waiters           *)
(* re-establishes the invariant.                                           *)
LEMMA UnblockWaitersOK ==
    ASSUME IndInv, m_behavior' = m_behavior,
           NEW previous_mode, NEW pc0 \in [Thread -> Location],
           UnblockWaiters(previous_mode, pc0),
           UNCHANGED <<listVars, want>>,
           held' = [t \in Thread |-> 0],
           m_lock_requested_count' \in [Thread -> 0 .. MaxLocks],
           \A t \in Thread :
              /\ pc[t] # "woken"
              /\ pc0[t] # "woken"
              /\ pc0[t] = "blocked" <=> pc[t] = "blocked"
              /\ pc[t] = "blocked" =>
                   m_lock_requested_count'[t] = m_lock_requested_count[t]
              /\ pc0[t] = "yielded" => m_lock_requested_count'[t] > 0
    PROVE  IndInv'
<1> USE MaxLocksAssumption, ThreadAssumption
<1>0. /\ TypeOK /\ ListsOK /\ RequestsOK /\ BigLockExclusive
      /\ HandOff
  BY DEF IndInv
<1>1. /\ exclusive' = exclusive
      /\ shared' = shared
      /\ want' = want
      /\ \A t \in Thread : held'[t] = 0 /\ pc0[t] \in Location
      /\ held' \in [Thread -> 0 .. MaxLocks]
  BY DEF listVars
<1>2. CASE UnblockShared(pc0)
  <2>1. /\ shared # {} /\ shared \subseteq Thread
        /\ m_mode' = "Shared" /\ m_holder' = NoThread
        /\ m_times_locked' = Cardinality(shared)
        /\ m_shared_holders' = Cardinality(shared)
        /\ m_blocking_mutex' = m_blocking_mutex \ shared
        /\ pc' = [t \in Thread |-> IF t \in shared THEN "woken" ELSE pc0[t]]
    BY <1>0, <1>2 DEF UnblockShared, UnblockFromMutex, Wake, TypeOK
  <2>2. \A t \in shared : pc[t] = "blocked" /\ want[t] = "Shared"
                             /\ m_lock_requested_count'[t] = 1
    BY <1>0, <2>1 DEF ListsOK, RequestsOK, Waiting
  <2>3. Cardinality(shared) \in Nat /\ Cardinality(shared) > 0
    BY <2>1, FS_Subset, FS_CardinalityType, FS_EmptySet
  <2>4. TypeOK'
    BY <1>0, <1>1, <2>1, <2>3 DEF TypeOK, Behavior, Mode, Location
  <2>5. \A t \in Thread : Waiting(t)' <=> Waiting(t)
    BY <1>1, <2>1, <2>2 DEF Waiting, Location
  <2>6. ListsOK'
    BY <1>0, <1>1, <2>5 DEF ListsOK
  <2>7. RequestsOK'
    <3>1. ASSUME NEW t \in Thread, pc'[t] = "woken"
          PROVE  t \in shared
      BY <2>1, <3>1
    <3>2. ASSUME NEW t \in Thread, pc'[t] = "blocked"
          PROVE  pc[t] = "blocked" /\ m_lock_requested_count'[t] = m_lock_requested_count[t]
      BY <2>1, <3>2
    <3> QED BY <1>0, <1>1, <2>1, <2>2, <3>1, <3>2 DEF RequestsOK, Waiting, TypeOK
  <2>8. BigLockExclusive'
    BY <1>0, <1>1, <2>1 DEF BigLockExclusive
  <2>9. owned' = [u \in Thread |-> IF u \in shared THEN 1 ELSE 0]
    BY <1>1, <2>1, <2>2 DEF owned, Owned
  <2>10. CountsAgree'
    <3>1. Cardinality(TokensOf(owned'))  = Cardinality(shared)
      BY <2>1, <2>9, TokensUnit
    <3>2. TokensOf(owned)' = TokensOf(owned')
      BY DEF TokensOf
    <3> QED BY <2>1, <2>3, <3>1, <3>2 DEF CountsAgree
  <2>11. HandOff'
    <3>1. ASSUME NEW t \in Thread
          PROVE  pc'[t] = "blocked" <=> t \in m_blocking_mutex'
      BY <1>0, <2>1, <2>2 DEF HandOff
    <3>2. ASSUME NEW t \in Thread, pc'[t] = "woken"
          PROVE  m_mode' = want'[t] /\ m_lock_requested_count'[t] > 0
      BY <1>1, <2>1, <2>2, <3>2
    <3> QED BY <3>1, <3>2 DEF HandOff
  <2>12. NoWaiterLeftBehind'
    <3>1. ASSUME NEW t \in Thread, pc'[t] = "blocked", want'[t] = "Shared"
          PROVE  FALSE
      <4>1. pc[t] = "blocked" /\ t \notin shared
        BY <2>1, <3>1
      <4> QED BY <1>0, <1>1, <3>1, <4>1 DEF ListsOK, Waiting
    <3> QED BY <2>1, <3>1 DEF NoWaiterLeftBehind
  <2> QED
    BY <2>4, <2>6, <2>7, <2>8, <2>10, <2>11, <2>12 DEF IndInv
<1>3. CASE UnblockExclusive(pc0)
  <2> DEFINE h == exclusive[1]
  <2>1. /\ exclusive # <<>> /\ Len(exclusive) \in Nat /\ Len(exclusive) > 0
        /\ h \in Thread
        /\ m_mode' = "Exclusive" /\ m_holder' = h
        /\ m_times_locked' = m_lock_requested_count[h]
        /\ m_shared_holders' = 0
        /\ m_blocking_mutex' = m_blocking_mutex \ {h}
        /\ pc' = [t \in Thread |-> IF t = h THEN "woken" ELSE pc0[t]]
    <3>1. Head(exclusive) = h /\ exclusive \in Seq(Thread) /\ exclusive # <<>>
      BY <1>0, <1>3 DEF UnblockExclusive, TypeOK
    <3> QED BY <1>3, <3>1 DEF UnblockExclusive, UnblockFromMutex, Wake
  <2>2. /\ pc[h] = "blocked" /\ want[h] = "Exclusive"
        /\ m_lock_requested_count'[h] = m_lock_requested_count[h]
        /\ m_lock_requested_count[h] > 0
        /\ m_lock_requested_count[h] \in 0 .. MaxLocks
    BY <1>0, <2>1 DEF ListsOK, RequestsOK, Waiting, TypeOK
  <2> HIDE DEF h
  <2>4. TypeOK'
    BY <1>0, <1>1, <2>1, <2>2 DEF TypeOK, Behavior, Mode, Location
  <2>5. \A t \in Thread : Waiting(t)' <=> Waiting(t)
    BY <1>1, <2>1, <2>2 DEF Waiting, Location
  <2>6. ListsOK'
    BY <1>0, <1>1, <2>5 DEF ListsOK
  <2>7. RequestsOK'
    <3>1. ASSUME NEW t \in Thread, pc'[t] = "woken"
          PROVE  t = h
      BY <2>1, <3>1
    <3>2. ASSUME NEW t \in Thread, pc'[t] = "blocked"
          PROVE  pc[t] = "blocked" /\ m_lock_requested_count'[t] = m_lock_requested_count[t]
      BY <2>1, <3>2
    <3> QED BY <1>0, <1>1, <2>1, <2>2, <3>1, <3>2 DEF RequestsOK, Waiting, TypeOK
  <2>8. BigLockExclusive'
    BY <1>0, <1>1, <2>1 DEF BigLockExclusive
  <2>9. \A u \in Thread : Owned(u)' = IF u = h THEN m_lock_requested_count[h] ELSE 0
    BY <1>1, <2>1, <2>2 DEF Owned
  <2>10. CountsAgree'
    BY <2>1, <2>2, <2>9 DEF CountsAgree
  <2>11. HandOff'
    <3>1. ASSUME NEW t \in Thread
          PROVE  pc'[t] = "blocked" <=> t \in m_blocking_mutex'
      BY <1>0, <2>1, <2>2 DEF HandOff
    <3>2. ASSUME NEW t \in Thread, pc'[t] = "woken"
          PROVE  m_mode' = want'[t] /\ m_lock_requested_count'[t] > 0
      BY <1>1, <2>1, <2>2, <3>2
    <3> QED BY <3>1, <3>2 DEF HandOff
  <2>12. NoWaiterLeftBehind'
    BY <2>1 DEF NoWaiterLeftBehind
  <2> QED
    BY <2>4, <2>6, <2>7, <2>8, <2>10, <2>11, <2>12 DEF IndInv
<1>4. CASE exclusive = <<>> /\ shared = {} /\ NobodyToUnblock(pc0)
  <2>1. /\ m_mode' = "Unlocked" /\ m_holder' = NoThread
        /\ m_times_locked' = 0 /\ m_shared_holders' = 0
        /\ m_blocking_mutex' = m_blocking_mutex /\ pc' = pc0
    BY <1>4 DEF NobodyToUnblock
  <2>2. \A t \in Thread : Waiting(t)' <=> Waiting(t)
    BY <2>1 DEF Waiting
  <2>3. \A t \in Thread : ~Waiting(t)
    <3>1. Len(exclusive) = 0
      BY <1>4
    <3>2. ASSUME NEW t \in Thread, Waiting(t)
          PROVE  want[t] \in {"Shared", "Exclusive"}
      BY <1>0, <3>2 DEF RequestsOK, TypeOK, Mode
    <3> QED BY <1>0, <1>4, <3>1, <3>2 DEF ListsOK
  <2>4. TypeOK'
    BY <1>0, <1>1, <2>1 DEF TypeOK, Behavior, Mode, Location
  <2>5. ListsOK'
    BY <1>0, <1>1, <2>2 DEF ListsOK
  <2>6. RequestsOK'
    BY <1>1, <2>1, <2>2, <2>3 DEF RequestsOK, Waiting
  <2>7. BigLockExclusive'
    BY <1>0, <1>1, <2>1 DEF BigLockExclusive
  <2>8. \A t \in Thread : Owned(t)' = 0
    BY <1>1, <2>1 DEF Owned
  <2>9. CountsAgree'
    BY <2>1, <2>8 DEF CountsAgree
  <2>10. HandOff'
    BY <1>0, <2>1 DEF HandOff
  <2>11. NoWaiterLeftBehind'
    BY <1>1, <1>4, <2>1, <2>2, <2>3 DEF NoWaiterLeftBehind, Waiting
  <2> QED
    BY <2>4, <2>5, <2>6, <2>7, <2>9, <2>10, <2>11 DEF IndInv
<1>5. UnblockShared(pc0) \/ UnblockExclusive(pc0)
        \/ (exclusive = <<>> /\ shared = {} /\ NobodyToUnblock(pc0))
  BY DEF UnblockWaiters
<1> QED
  BY <1>2, <1>3, <1>4, <1>5

-----------------------------------------------------------------------------
(* Every action preserves the invariant.                                   *)

(* A thread that joins the waiters.                                        *)
LEMMA BlockOK ==
    ASSUME IndInv, m_behavior' = m_behavior,
           NEW t \in Thread, NEW mode \in Requestable,
           NEW n \in 1 .. MaxLocks,
           pc[t] \in {"outside", "yielded"},
           held[t] + n <= MaxLocks,
           mode = "Shared" => n = 1,
           \/ m_mode = "Exclusive" /\ m_holder # t
           \/ m_mode = "Shared" /\ mode = "Exclusive",
           Block(t, mode, n)
    PROVE  IndInv'
<1> USE MaxLocksAssumption, ThreadAssumption
<1>1. /\ exclusive' = IF mode = "Exclusive" THEN Append(exclusive, t) ELSE exclusive
      /\ shared' = IF mode = "Shared" THEN shared \cup {t} ELSE shared
      /\ m_blocking_mutex' = m_blocking_mutex \cup {t}
      /\ m_lock_requested_count' = [m_lock_requested_count EXCEPT ![t] = n]
      /\ want' = [want EXCEPT ![t] = mode]
      /\ pc' = [pc EXCEPT ![t] = "blocked"]
      /\ m_mode' = m_mode /\ m_times_locked' = m_times_locked
      /\ m_holder' = m_holder /\ m_shared_holders' = m_shared_holders
      /\ held' = held
  BY DEF Block, mutexVars
<1>2. /\ TypeOK /\ ListsOK /\ RequestsOK /\ BigLockExclusive
      /\ CountsAgree /\ HandOff /\ NoWaiterLeftBehind
  BY DEF IndInv
<1>3. mode \in {"Shared", "Exclusive"} /\ (m_behavior = "BigLock" => mode = "Exclusive")
  BY DEF Requestable
<1>4. /\ m_lock_requested_count'[t] = n /\ want'[t] = mode /\ pc'[t] = "blocked"
      /\ \A u \in Thread \ {t} :
           /\ m_lock_requested_count'[u] = m_lock_requested_count[u]
           /\ want'[u] = want[u]
           /\ pc'[u] = pc[u]
  BY <1>1, <1>2 DEF TypeOK
<1>5. TypeOK'
  BY <1>1, <1>2, <1>3 DEF TypeOK, Behavior, Mode, Location
<1>6. /\ ~Waiting(t) /\ Waiting(t)'
      /\ \A u \in Thread \ {t} : Waiting(u)' <=> Waiting(u)
  BY <1>4 DEF Waiting
<1>7. ListsOK'
  <2>1. CASE mode = "Shared"
    BY <1>1, <1>2, <1>4, <1>6, <2>1 DEF ListsOK
  <2>2. CASE mode = "Exclusive"
    <3>1. /\ exclusive' = Append(exclusive, t) /\ shared' = shared
          /\ exclusive \in Seq(Thread) /\ Len(exclusive) \in Nat
          /\ Len(exclusive') = Len(exclusive) + 1
          /\ exclusive'[Len(exclusive) + 1] = t
          /\ \A i \in 1 .. Len(exclusive) : exclusive'[i] = exclusive[i]
      BY <1>1, <1>2, <2>2 DEF TypeOK
    <3>2. \A i \in 1 .. Len(exclusive) : exclusive[i] # t
      BY <1>2, <1>6 DEF ListsOK
    <3>3. \A u \in Thread : u \in shared' <=> Waiting(u)' /\ want'[u] = "Shared"
      BY <1>2, <1>4, <1>6, <2>2, <3>1 DEF ListsOK
    <3>4. ASSUME NEW u \in Thread
          PROVE  (\E i \in 1 .. Len(exclusive') : exclusive'[i] = u)
                    <=> Waiting(u)' /\ want'[u] = "Exclusive"
      <4>1. CASE u = t
        BY <1>4, <1>6, <2>2, <3>1, <4>1
      <4>2. CASE u # t
        <5>1. (\E i \in 1 .. Len(exclusive') : exclusive'[i] = u)
                 <=> (\E i \in 1 .. Len(exclusive) : exclusive[i] = u)
          BY <3>1, <4>2
        <5> QED BY <1>2, <1>4, <1>6, <4>2, <5>1 DEF ListsOK
      <4> QED BY <4>1, <4>2
    <3>5. \A i, j \in 1 .. Len(exclusive') : exclusive'[i] = exclusive'[j] => i = j
      BY <1>2, <3>1, <3>2 DEF ListsOK
    <3> QED BY <3>3, <3>4, <3>5 DEF ListsOK
  <2> QED BY <1>3, <2>1, <2>2
<1>8. RequestsOK'
  BY <1>1, <1>2, <1>3, <1>4 DEF RequestsOK, Waiting, TypeOK
<1>9. BigLockExclusive'
  BY <1>1, <1>2, <1>3, <1>4 DEF BigLockExclusive
<1>10. /\ owned' = owned
       /\ \A u \in Thread : Owned(u)' = Owned(u)
  BY <1>1, <1>4 DEF Owned, owned
<1>11. CountsAgree'
  <2>1. TokensOf(owned)' = TokensOf(owned)
    BY <1>10 DEF TokensOf
  <2> QED BY <1>1, <1>2, <1>10, <2>1 DEF CountsAgree
<1>12. HandOff'
  BY <1>1, <1>2, <1>4 DEF HandOff
<1>13. NoWaiterLeftBehind'
  BY <1>1, <1>2, <1>4 DEF NoWaiterLeftBehind
<1> QED
  BY <1>5, <1>7, <1>8, <1>9, <1>11, <1>12, <1>13 DEF IndInv

(* t takes n more locks without touching the lists or any other thread.    *)
LEMMA TakeOK ==
    ASSUME IndInv, m_behavior' = m_behavior,
           NEW t \in Thread, NEW n \in 1 .. MaxLocks,
           pc[t] \in {"outside", "yielded"},
           held[t] + n <= MaxLocks,
           held' = [held EXCEPT ![t] = @ + n],
           m_lock_requested_count' \in [Thread -> 0 .. MaxLocks],
           \A u \in Thread \ {t} : m_lock_requested_count'[u] = m_lock_requested_count[u],
           pc' = [pc EXCEPT ![t] = "outside"],
           UNCHANGED <<listVars, m_blocking_mutex, want>>,
           m_mode' \in {"Shared", "Exclusive"},
           m_mode # "Unlocked" => m_mode' = m_mode,
           m_behavior = "BigLock" => m_mode' = "Exclusive",
           m_times_locked' = m_times_locked + n,
           m_mode' = "Exclusive" =>
              /\ m_mode = "Exclusive" => m_holder = t
              /\ m_holder' = t
              /\ m_shared_holders' = m_shared_holders,
           m_mode' = "Shared" =>
              /\ n = 1
              /\ m_holder' = NoThread
              /\ m_shared_holders' = m_shared_holders + 1
    PROVE  IndInv'
<1> USE MaxLocksAssumption, ThreadAssumption
<1>1. /\ TypeOK /\ ListsOK /\ RequestsOK /\ BigLockExclusive
      /\ CountsAgree /\ HandOff /\ NoWaiterLeftBehind
  BY DEF IndInv
<1>2. /\ exclusive' = exclusive /\ shared' = shared /\ want' = want
      /\ m_blocking_mutex' = m_blocking_mutex
  BY DEF listVars
<1>3. /\ pc'[t] = "outside" /\ held'[t] = held[t] + n
      /\ \A u \in Thread \ {t} : pc'[u] = pc[u] /\ held'[u] = held[u]
      /\ \A u \in Thread : held[u] \in 0 .. MaxLocks
  BY <1>1 DEF TypeOK
<1>4. TypeOK'
  BY <1>1, <1>2, <1>3 DEF TypeOK, Behavior, Mode, Location
<1>5. \A u \in Thread : Waiting(u)' <=> Waiting(u)
  BY <1>3 DEF Waiting
<1>6. ListsOK'
  BY <1>1, <1>2, <1>5 DEF ListsOK
<1>7. RequestsOK'
  BY <1>1, <1>2, <1>3, <1>5 DEF RequestsOK, Waiting
<1>8. BigLockExclusive'
  BY <1>1, <1>2 DEF BigLockExclusive
<1>9. Owned(t)' = Owned(t) + n /\ \A u \in Thread \ {t} : Owned(u)' = Owned(u)
  BY <1>1, <1>3 DEF Owned, TypeOK
<1>10. owned \in [Thread -> 0 .. MaxLocks] /\ \A u \in Thread : owned[u] = Owned(u)
  BY <1>1, OwnedType
<1>11. CountsAgree'
  <2>1. CASE m_mode' = "Exclusive"
    BY <1>1, <1>9, <1>10, <2>1 DEF CountsAgree, TypeOK, Mode
  <2>2. CASE m_mode' = "Shared"
    <3>1. owned' = [owned EXCEPT ![t] = @ + 1]
      <4>1. owned' = [u \in Thread |-> Owned(u)']
        BY DEF owned
      <4>2. \A u \in Thread : owned'[u] = [owned EXCEPT ![t] = @ + 1][u]
        BY <1>9, <1>10, <2>2, <4>1
      <4> QED BY <1>10, <4>1, <4>2
    <3>2. owned[t] < MaxLocks /\ owned \in [Thread -> Nat]
      BY <1>3, <1>10 DEF Owned
    <3>3. Cardinality(TokensOf(owned')) = Cardinality(TokensOf(owned)) + 1
      BY <3>1, <3>2, TokensAdd
    <3>4. TokensOf(owned)' = TokensOf(owned')
      BY DEF TokensOf
    <3>5. m_times_locked = m_shared_holders /\ m_times_locked = Cardinality(TokensOf(owned))
      <4>1. CASE m_mode = "Unlocked"
        BY <1>1, <1>10, <4>1, TokensNone DEF CountsAgree
      <4>2. CASE m_mode = "Shared"
        BY <1>1, <4>2 DEF CountsAgree
      <4> QED BY <1>1, <2>2, <4>1, <4>2 DEF TypeOK, Mode
    <3>6. m_times_locked \in Nat
      BY <1>1 DEF TypeOK
    <3> QED BY <2>2, <3>3, <3>4, <3>5, <3>6 DEF CountsAgree
  <2> QED BY <2>1, <2>2
<1>12. HandOff'
  <2>1. ASSUME NEW u \in Thread
        PROVE  /\ pc'[u] = "woken" => m_mode' = want'[u] /\ m_lock_requested_count'[u] > 0
               /\ pc'[u] = "blocked" <=> u \in m_blocking_mutex'
    <3>1. CASE u = t
      BY <1>1, <1>2, <1>3, <3>1 DEF HandOff
    <3>2. CASE u # t
      <4>1. ASSUME pc[u] = "woken"
            PROVE  m_mode # "Unlocked" /\ m_lock_requested_count[u] > 0 /\ m_mode = want[u]
        BY <1>1, <4>1 DEF HandOff, RequestsOK, Waiting
      <4> QED BY <1>1, <1>2, <1>3, <3>2, <4>1 DEF HandOff
    <3> QED BY <3>1, <3>2
  <2> QED BY <2>1 DEF HandOff
<1>13. NoWaiterLeftBehind'
  <2>1. ASSUME NEW u \in Thread, pc'[u] = "blocked", want'[u] = "Shared"
        PROVE  m_mode' = "Exclusive"
    <3>1. pc[u] = "blocked"
      BY <1>3, <2>1
    <3> QED BY <1>1, <1>2, <2>1, <3>1 DEF NoWaiterLeftBehind
  <2> QED BY <2>1 DEF NoWaiterLeftBehind
<1> QED
  BY <1>4, <1>6, <1>7, <1>8, <1>11, <1>12, <1>13 DEF IndInv

(* Mutex::lock, all cases.                                                 *)
LEMMA LockOK ==
    ASSUME IndInv, m_behavior' = m_behavior,
           NEW t \in Thread, NEW mode \in Requestable, Lock(t, mode)
    PROVE  IndInv'
<1> USE MaxLocksAssumption
<1>1. /\ TypeOK /\ CountsAgree /\ BigLockExclusive
      /\ pc[t] = "outside" /\ held[t] < MaxLocks
      /\ held[t] \in Nat /\ 1 \in 1 .. MaxLocks
      /\ mode \in {"Shared", "Exclusive"}
      /\ m_behavior = "BigLock" => mode = "Exclusive"
  BY DEF IndInv, TypeOK, Lock, Requestable
<1>2. pc = [pc EXCEPT ![t] = "outside"]
  BY <1>1 DEF TypeOK
<1> DEFINE Taken == /\ held' = [held EXCEPT ![t] = @ + 1]
                    /\ UNCHANGED <<listVars, m_blocking_mutex,
                                   m_lock_requested_count, want, pc>>
                    /\ m_times_locked' = m_times_locked + 1
<1>3. ASSUME Taken
      PROVE  /\ pc' = [pc EXCEPT ![t] = "outside"]
             /\ m_lock_requested_count' \in [Thread -> 0 .. MaxLocks]
             /\ m_lock_requested_count' = m_lock_requested_count
  BY <1>1, <1>2, <1>3 DEF TypeOK
<1>4. CASE LockUnlocked(t, mode) \/ LockRecursive(t) \/ LockShared(t, mode)
  <2>1. Taken
    BY <1>4 DEF LockUnlocked, LockRecursive, LockShared
  <2>2. /\ m_mode' \in {"Shared", "Exclusive"}
        /\ m_mode # "Unlocked" => m_mode' = m_mode
        /\ m_behavior = "BigLock" => m_mode' = "Exclusive"
    BY <1>1, <1>4 DEF LockUnlocked, LockRecursive, LockShared, BigLockExclusive
  <2>3. m_mode' = "Exclusive" => /\ m_mode = "Exclusive" => m_holder = t
                                 /\ m_holder' = t
                                 /\ m_shared_holders' = m_shared_holders
    BY <1>1, <1>4 DEF LockUnlocked, LockRecursive, LockShared
  <2>4. m_mode' = "Shared" => /\ m_holder' = NoThread
                              /\ m_shared_holders' = m_shared_holders + 1
    BY <1>1, <1>4 DEF LockUnlocked, LockRecursive, LockShared, CountsAgree
  <2>5. held[t] + 1 <= MaxLocks
    BY <1>1
  <2> QED
    BY <1>1, <1>3, <2>1, <2>2, <2>3, <2>4, <2>5, TakeOK
<1>5. CASE LockBlocks(t, mode)
  <2>1. held[t] + 1 <= MaxLocks
    BY <1>1
  <2> QED
    BY <1>1, <1>5, <2>1, BlockOK DEF LockBlocks
<1> QED
  BY <1>4, <1>5 DEF Lock

(* restore_exclusive_lock.                                                 *)
LEMMA RestoreOK ==
    ASSUME IndInv, m_behavior' = m_behavior,
           NEW t \in Thread, Restore(t)
    PROVE  IndInv'
<1> USE MaxLocksAssumption
<1> DEFINE n == m_lock_requested_count[t]
<1>1. /\ TypeOK /\ CountsAgree /\ BigLockExclusive
      /\ m_behavior = "BigLock" /\ pc[t] = "yielded" /\ held[t] = 0
      /\ n \in 1 .. MaxLocks
      /\ "Exclusive" \in Requestable
  BY DEF IndInv, TypeOK, RequestsOK, Restore, Requestable
<1>2. CASE RestoreTakes(t)
  <2>1. /\ m_lock_requested_count' \in [Thread -> 0 .. MaxLocks]
        /\ \A u \in Thread \ {t} : m_lock_requested_count'[u] = m_lock_requested_count[u]
    BY <1>1, <1>2 DEF RestoreTakes, TypeOK
  <2>2. /\ pc' = [pc EXCEPT ![t] = "outside"]
        /\ held' = [held EXCEPT ![t] = @ + n]
        /\ UNCHANGED <<listVars, m_blocking_mutex, want>>
        /\ m_mode' = "Exclusive" /\ m_holder' = t
        /\ m_times_locked' = m_times_locked + n
        /\ m_shared_holders' = m_shared_holders
        /\ m_mode = "Unlocked" \/ m_holder = t
    BY <1>2 DEF RestoreTakes
  <2>3. m_mode \in {"Unlocked", "Exclusive"}
    BY <1>1 DEF TypeOK, Mode, BigLockExclusive
  <2>4. held[t] + n <= MaxLocks
    BY <1>1
  <2> HIDE DEF n
  <2> QED
    BY <1>1, <2>1, <2>2, <2>3, <2>4, TakeOK
<1>3. CASE RestoreBlocks(t)
  <2>1. Block(t, "Exclusive", n) /\ m_mode = "Exclusive" /\ m_holder # t
    BY <1>3 DEF RestoreBlocks
  <2>2. held[t] + n <= MaxLocks
    BY <1>1
  <2> HIDE DEF n
  <2> QED
    BY <1>1, <2>1, <2>2, BlockOK
<1> QED
  BY <1>2, <1>3 DEF Restore

(* A woken thread goes on.                                                 *)
LEMMA ResumeOK ==
    ASSUME IndInv, m_behavior' = m_behavior,
           NEW t \in Thread, Resume(t)
    PROVE  IndInv'
<1> USE MaxLocksAssumption, ThreadAssumption
<1>1. /\ TypeOK /\ ListsOK /\ RequestsOK /\ BigLockExclusive
      /\ CountsAgree /\ HandOff /\ NoWaiterLeftBehind
  BY DEF IndInv
<1>2. /\ pc[t] = "woken"
      /\ exclusive' = IF want[t] = "Exclusive" THEN Without(exclusive, t) ELSE exclusive
      /\ shared' = IF want[t] = "Shared" THEN shared \ {t} ELSE shared
      /\ held' = [held EXCEPT ![t] = @ + m_lock_requested_count[t]]
      /\ m_lock_requested_count' = [m_lock_requested_count EXCEPT ![t] = 0]
      /\ pc' = [pc EXCEPT ![t] = "outside"]
      /\ m_mode' = m_mode /\ m_times_locked' = m_times_locked
      /\ m_holder' = m_holder /\ m_shared_holders' = m_shared_holders
      /\ m_blocking_mutex' = m_blocking_mutex /\ want' = want
  BY DEF Resume, mutexVars
<1>3. /\ pc'[t] = "outside" /\ held'[t] = held[t] + m_lock_requested_count[t]
      /\ m_lock_requested_count'[t] = 0
      /\ \A u \in Thread \ {t} :
           /\ m_lock_requested_count'[u] = m_lock_requested_count[u]
           /\ held'[u] = held[u]
           /\ pc'[u] = pc[u]
      /\ \A u \in Thread : held[u] \in Nat /\ m_lock_requested_count[u] \in Nat
  BY <1>1, <1>2 DEF TypeOK
<1>4. /\ Waiting(t) /\ ~Waiting(t)'
      /\ \A u \in Thread \ {t} : Waiting(u)' <=> Waiting(u)
  BY <1>2, <1>3 DEF Waiting
<1>5. held[t] + m_lock_requested_count[t] <= MaxLocks
  BY <1>1, <1>2 DEF RequestsOK
<1>6. TypeOK' /\ ListsOK'
  <2>1. CASE want[t] = "Exclusive"
    <3>1. /\ exclusive \in Seq(Thread)
          /\ \E i \in 1 .. Len(exclusive) : exclusive[i] = t
          /\ \A i, j \in 1 .. Len(exclusive) : exclusive[i] = exclusive[j] => i = j
      BY <1>1, <1>4, <2>1 DEF ListsOK, TypeOK
    <3>2. /\ exclusive' \in Seq(Thread)
          /\ \A u \in Thread :
               (\E i \in 1 .. Len(exclusive') : exclusive'[i] = u)
                  <=> u # t /\ \E i \in 1 .. Len(exclusive) : exclusive[i] = u
          /\ \A i, j \in 1 .. Len(exclusive') : exclusive'[i] = exclusive'[j] => i = j
      <4>1. exclusive' = Without(exclusive, t)
        BY <1>2, <2>1
      <4> DEFINE w == Without(exclusive, t)
      <4>2. /\ w \in Seq(Thread)
            /\ \A u \in Thread :
                 (\E i \in 1 .. Len(w) : w[i] = u)
                    <=> u # t /\ \E i \in 1 .. Len(exclusive) : exclusive[i] = u
            /\ \A i, j \in 1 .. Len(w) : w[i] = w[j] => i = j
        BY <3>1, WithoutList, Zenon
      <4> HIDE DEF w
      <4>3. exclusive' = w
        BY <4>1 DEF w
      <4> QED BY <4>2, <4>3
    <3>3. TypeOK'
      BY <1>1, <1>2, <1>3, <1>5, <2>1, <3>2 DEF TypeOK, Behavior, Mode, Location
    <3>4. \A u \in Thread : u \in shared' <=> Waiting(u)' /\ want'[u] = "Shared"
      BY <1>1, <1>2, <1>4, <2>1 DEF ListsOK
    <3>5. \A u \in Thread :
            (\E i \in 1 .. Len(exclusive') : exclusive'[i] = u)
               <=> Waiting(u)' /\ want'[u] = "Exclusive"
      BY <1>1, <1>2, <1>4, <3>2 DEF ListsOK
    <3> QED BY <3>2, <3>3, <3>4, <3>5 DEF ListsOK
  <2>2. CASE want[t] # "Exclusive"
    <3>1. want[t] = "Shared" /\ exclusive' = exclusive /\ shared' = shared \ {t}
      BY <1>1, <1>2, <1>4, <2>2 DEF RequestsOK, TypeOK, Mode
    <3>2. TypeOK'
      BY <1>1, <1>2, <1>3, <1>5, <3>1 DEF TypeOK, Behavior, Mode, Location
    <3>3. ListsOK'
      BY <1>1, <1>2, <1>4, <3>1 DEF ListsOK
    <3> QED BY <3>2, <3>3
  <2> QED BY <2>1, <2>2
<1>7. RequestsOK'
  BY <1>1, <1>2, <1>3 DEF RequestsOK, Waiting
<1>8. BigLockExclusive'
  BY <1>1, <1>2 DEF BigLockExclusive
<1>9. owned' = owned /\ \A u \in Thread : Owned(u)' = Owned(u)
  <2>1. ASSUME NEW u \in Thread
        PROVE  Owned(u)' = Owned(u)
    <3>1. CASE u = t
      BY <1>2, <1>3, <3>1 DEF Owned
    <3>2. CASE u # t
      BY <1>3, <3>2 DEF Owned
    <3> QED BY <3>1, <3>2
  <2> QED BY <2>1 DEF owned
<1>10. CountsAgree'
  <2>1. TokensOf(owned)' = TokensOf(owned)
    BY <1>9 DEF TokensOf
  <2> QED BY <1>1, <1>2, <1>9, <2>1 DEF CountsAgree
<1>11. HandOff'
  BY <1>1, <1>2, <1>3 DEF HandOff
<1>12. NoWaiterLeftBehind'
  <2>1. m_mode' # "Unlocked"
    BY <1>1, <1>2, <1>4 DEF HandOff, RequestsOK
  <2> QED BY <1>1, <1>2, <1>3, <2>1 DEF NoWaiterLeftBehind
<1> QED
  BY <1>6, <1>7, <1>8, <1>10, <1>11, <1>12 DEF IndInv

(* When the last lock of the mutex is unlocked, t owned just that one and  *)
(* nobody else owns any.                                                   *)
LEMMA LastUnlock ==
    ASSUME IndInv, NEW t \in Thread, Unlock(t), m_times_locked = 1
    PROVE  /\ Owned(t) = 1
           /\ \A u \in Thread \ {t} : Owned(u) = 0
           /\ held' = [u \in Thread |-> 0]
           /\ \A u \in Thread : pc[u] # "woken"
<1> USE MaxLocksAssumption, ThreadAssumption
<1>1. TypeOK /\ RequestsOK /\ CountsAgree /\ HandOff
  BY DEF IndInv
<1>2. /\ pc[t] = "outside" /\ held[t] > 0
      /\ held' = [held EXCEPT ![t] = @ - 1]
  BY DEF Unlock
<1>3. \A u \in Thread : held[u] \in 0 .. MaxLocks /\ m_lock_requested_count[u] \in 0 .. MaxLocks
  BY <1>1 DEF TypeOK
<1>4. owned \in [Thread -> 0 .. MaxLocks] /\ \A u \in Thread : owned[u] = Owned(u)
  BY <1>1, OwnedType
<1>5. Owned(t) = held[t] /\ Owned(t) > 0
  BY <1>2, <1>3 DEF Owned
<1> DEFINE rest == [owned EXCEPT ![t] = @ - 1]
<1>6. /\ rest \in [Thread -> 0 .. MaxLocks]
      /\ rest[t] = Owned(t) - 1
      /\ \A u \in Thread \ {t} : rest[u] = Owned(u)
  BY <1>4, <1>5
<1>7. m_mode = "Shared" => Cardinality(TokensOf(rest)) = 0
  <2>1. Cardinality(TokensOf(rest)) = Cardinality(TokensOf(owned)) - 1
    BY <1>4, <1>5, TokensRemove
  <2>2. m_mode = "Shared" => Cardinality(TokensOf(owned)) = 1
    BY <1>1 DEF CountsAgree
  <2> QED BY <2>1, <2>2
<1> HIDE DEF rest
<1>8. Owned(t) = 1 /\ \A u \in Thread \ {t} : Owned(u) = 0
  <2>1. CASE m_mode = "Exclusive"
    BY <1>1, <1>5, <2>1 DEF CountsAgree
  <2>2. CASE m_mode = "Shared"
    <3>1. \A u \in Thread : rest[u] = 0
      BY <1>6, <1>7, <2>2, TokensNone
    <3>2. Owned(t) \in Nat
      BY <1>3, <1>5
    <3> QED BY <1>6, <3>1, <3>2
  <2> QED BY <1>1, <1>5, <2>1, <2>2 DEF CountsAgree, TypeOK, Mode
<1>9. ASSUME NEW u \in Thread
      PROVE  held'[u] = 0 /\ pc[u] # "woken"
  <2>1. CASE u = t
    BY <1>1, <1>2, <1>5, <1>8, <2>1 DEF TypeOK
  <2>2. CASE u # t
    <3>1. Owned(u) = 0 /\ held'[u] = held[u]
      BY <1>2, <1>8, <2>2
    <3>2. pc[u] = "woken" => m_lock_requested_count[u] > 0
      BY <1>1 DEF HandOff
    <3> QED BY <1>3, <3>1, <3>2 DEF Owned
  <2> QED BY <2>1, <2>2
<1>10. held' = [u \in Thread |-> 0]
  <2>1. held' = [u \in Thread |-> held'[u]]
    BY <1>1, <1>2 DEF TypeOK
  <2> QED BY <1>9, <2>1
<1> QED BY <1>8, <1>9, <1>10

(* Mutex::unlock, all cases.                                               *)
LEMMA UnlockOK ==
    ASSUME IndInv, m_behavior' = m_behavior,
           NEW t \in Thread, Unlock(t)
    PROVE  IndInv'
<1> USE MaxLocksAssumption, ThreadAssumption
<1>1. /\ TypeOK /\ ListsOK /\ RequestsOK /\ BigLockExclusive
      /\ CountsAgree /\ HandOff /\ NoWaiterLeftBehind
  BY DEF IndInv
<1>2. /\ pc[t] = "outside" /\ held[t] > 0
      /\ held' = [held EXCEPT ![t] = @ - 1]
      /\ exclusive' = exclusive /\ shared' = shared
      /\ m_lock_requested_count' = m_lock_requested_count
      /\ want' = want
  BY DEF Unlock, listVars
<1>3. /\ held'[t] = held[t] - 1
      /\ \A u \in Thread \ {t} : held'[u] = held[u]
      /\ \A u \in Thread : /\ held[u] \in 0 .. MaxLocks
                           /\ m_lock_requested_count[u] \in 0 .. MaxLocks
                           /\ pc[u] \in Location
      /\ held' \in [Thread -> 0 .. MaxLocks]
      /\ m_times_locked \in Nat /\ m_shared_holders \in Nat
  BY <1>1, <1>2 DEF TypeOK
<1>4. owned \in [Thread -> 0 .. MaxLocks] /\ \A u \in Thread : owned[u] = Owned(u)
  BY <1>1, OwnedType
<1>5. Owned(t) = held[t] /\ Owned(t) > 0
  BY <1>2, <1>3 DEF Owned
<1>6. /\ m_mode # "Unlocked"
      /\ m_times_locked > 0
      /\ m_mode = "Exclusive" => m_holder = t
  BY <1>1, <1>5 DEF CountsAgree, TypeOK, Mode
<1> DEFINE rest == [owned EXCEPT ![t] = @ - 1]
<1>7. /\ rest \in [Thread -> 0 .. MaxLocks]
      /\ rest[t] = Owned(t) - 1
      /\ \A u \in Thread \ {t} : rest[u] = Owned(u)
  BY <1>4, <1>5
<1>8. m_mode = "Shared" => Cardinality(TokensOf(rest)) = m_times_locked - 1
  BY <1>1, <1>4, <1>5, TokensRemove DEF CountsAgree
<1> HIDE DEF rest
<1>9. CASE m_times_locked = 1
  <2>2. \A u \in Thread : pc[u] # "woken"
    BY <1>9, LastUnlock
  <2>3. held' = [u \in Thread |-> 0]
    BY <1>9, LastUnlock
  <2>4. UnblockWaiters(m_mode, pc) /\ UNCHANGED <<listVars, want>>
    BY <1>9 DEF Unlock
  <2>5. pc \in [Thread -> Location]
        /\ m_lock_requested_count' \in [Thread -> 0 .. MaxLocks]
    BY <1>1, <1>2 DEF TypeOK
  <2>6. \A u \in Thread : pc[u] = "yielded" => m_lock_requested_count'[u] > 0
    BY <1>1, <1>2 DEF RequestsOK
  <2> QED
    BY <1>2, <2>2, <2>3, <2>4, <2>5, <2>6, UnblockWaitersOK
<1>10. CASE m_times_locked # 1
  <2>1. /\ m_times_locked' = m_times_locked - 1
        /\ m_shared_holders' = IF m_mode = "Shared" THEN m_shared_holders - 1 ELSE m_shared_holders
        /\ m_mode' = m_mode /\ m_holder' = m_holder
        /\ m_blocking_mutex' = m_blocking_mutex /\ pc' = pc
    BY <1>10 DEF Unlock
  <2>2. TypeOK'
    BY <1>1, <1>2, <1>3, <1>6, <1>10, <2>1 DEF TypeOK, CountsAgree
  <2>3. ListsOK'
    BY <1>1, <1>2, <2>1 DEF ListsOK, Waiting
  <2>4. RequestsOK'
    BY <1>1, <1>2, <1>3, <2>1 DEF RequestsOK, Waiting
  <2>5. BigLockExclusive'
    BY <1>1, <1>2, <2>1 DEF BigLockExclusive
  <2>6. /\ \A u \in Thread : Owned(u)' = rest[u]
        /\ owned' = rest
    <3>1. \A u \in Thread : Owned(u)' = rest[u]
      BY <1>2, <1>3, <1>5, <1>7, <2>1 DEF Owned
    <3>2. owned' = [u \in Thread |-> Owned(u)']
      BY DEF owned
    <3> QED BY <1>7, <3>1, <3>2
  <2>7. CountsAgree'
    <3>1. CASE m_mode = "Exclusive"
      BY <1>1, <1>3, <1>6, <1>7, <1>10, <2>1, <2>6, <3>1 DEF CountsAgree
    <3>2. CASE m_mode = "Shared"
      <4>1. TokensOf(owned)' = TokensOf(rest)
        BY <2>6 DEF TokensOf
      <4> QED BY <1>1, <1>3, <1>6, <1>8, <1>10, <2>1, <3>2, <4>1 DEF CountsAgree
    <3> QED BY <1>1, <1>6, <3>1, <3>2 DEF TypeOK, Mode
  <2>8. HandOff'
    BY <1>1, <1>2, <2>1 DEF HandOff
  <2>9. NoWaiterLeftBehind'
    BY <1>1, <1>2, <2>1 DEF NoWaiterLeftBehind
  <2> QED
    BY <2>2, <2>3, <2>4, <2>5, <2>7, <2>8, <2>9 DEF IndInv
<1> QED
  BY <1>9, <1>10

(* force_unlock_exclusive_if_locked.                                       *)
LEMMA ForceUnlockOK ==
    ASSUME IndInv, m_behavior' = m_behavior,
           NEW t \in Thread, NEW after \in {"yielded", "outside"},
           ForceUnlock(t, after)
    PROVE  IndInv'
<1> USE MaxLocksAssumption, ThreadAssumption
<1>1. /\ TypeOK /\ RequestsOK /\ CountsAgree /\ HandOff
  BY DEF IndInv
<1>2. /\ pc[t] = "outside" /\ m_mode = "Exclusive" /\ m_holder = t
      /\ held' = [held EXCEPT ![t] = 0]
      /\ m_lock_requested_count' =
           [m_lock_requested_count EXCEPT ![t] = IF after = "yielded" THEN m_times_locked ELSE 0]
      /\ UnblockWaiters("Exclusive", [pc EXCEPT ![t] = after])
      /\ UNCHANGED <<listVars, want>>
  BY DEF ForceUnlock
<1>3. /\ \A u \in Thread \ {t} : Owned(u) = 0
      /\ m_times_locked = held[t] /\ held[t] > 0 /\ held[t] \in 0 .. MaxLocks
  BY <1>1, <1>2 DEF CountsAgree, Owned, TypeOK
<1>4. \A u \in Thread \ {t} : held[u] = 0 /\ pc[u] # "woken"
  <2>1. ASSUME NEW u \in Thread \ {t}
        PROVE  held[u] = 0 /\ pc[u] # "woken"
    <3>1. held[u] \in Nat /\ m_lock_requested_count[u] \in Nat /\ Owned(u) = 0
      BY <1>1, <1>3 DEF TypeOK
    <3>2. pc[u] = "woken" => m_lock_requested_count[u] > 0
      BY <1>1 DEF HandOff
    <3> QED BY <3>1, <3>2 DEF Owned
  <2> QED BY <2>1
<1>5. held' = [u \in Thread |-> 0]
  BY <1>1, <1>2, <1>4 DEF TypeOK
<1>6. m_lock_requested_count' \in [Thread -> 0 .. MaxLocks]
  BY <1>1, <1>2, <1>3 DEF TypeOK
<1> DEFINE pc0 == [pc EXCEPT ![t] = after]
<1>7. pc0 \in [Thread -> Location]
  BY <1>1 DEF TypeOK, Location
<1>8. ASSUME NEW u \in Thread
      PROVE  /\ pc[u] # "woken"
             /\ pc0[u] # "woken"
             /\ pc0[u] = "blocked" <=> pc[u] = "blocked"
             /\ pc[u] = "blocked" => m_lock_requested_count'[u] = m_lock_requested_count[u]
             /\ pc0[u] = "yielded" => m_lock_requested_count'[u] > 0
  <2>1. CASE u = t
    BY <1>1, <1>2, <1>3, <2>1 DEF TypeOK
  <2>2. CASE u # t
    BY <1>1, <1>2, <1>4, <2>2 DEF TypeOK, RequestsOK
  <2> QED BY <2>1, <2>2
<1>9. UnblockWaiters("Exclusive", pc0)
  BY <1>2
<1> HIDE DEF pc0
<1> QED
  BY <1>2, <1>5, <1>6, <1>7, <1>8, <1>9, UnblockWaitersOK

-----------------------------------------------------------------------------
(* The results.                                                            *)

(* The invariant holds at first and is kept by every step.                 *)
LEMMA InitOK == Init => IndInv
<1> SUFFICES ASSUME Init PROVE IndInv
  OBVIOUS
<1> USE MaxLocksAssumption DEF Init
<1>1. TypeOK
  BY DEF TypeOK, Behavior, Mode, Location
<1>2. ListsOK /\ RequestsOK /\ BigLockExclusive
  BY DEF ListsOK, RequestsOK, BigLockExclusive, Waiting
<1>3. CountsAgree /\ HandOff /\ NoWaiterLeftBehind
  BY DEF CountsAgree, HandOff, NoWaiterLeftBehind, Owned
<1> QED BY <1>1, <1>2, <1>3 DEF IndInv

(* Every step preserves IndInv.                                            *)
LEMMA NextOK == IndInv /\ [Next]_vars => IndInv'
<1> SUFFICES ASSUME IndInv, [Next]_vars PROVE IndInv'
  OBVIOUS
<1>1. ASSUME NEW t \in Thread, NEW mode \in Requestable, Lock(t, mode)
      PROVE  IndInv'
  BY <1>1, LockOK DEF Lock
<1>2. ASSUME NEW t \in Thread, Resume(t)
      PROVE  IndInv'
  BY <1>2, ResumeOK DEF Resume
<1>3. ASSUME NEW t \in Thread, Unlock(t)
      PROVE  IndInv'
  BY <1>3, UnlockOK DEF Unlock
<1>4. ASSUME NEW t \in Thread, NEW after \in {"yielded", "outside"}, ForceUnlock(t, after)
      PROVE  IndInv'
  BY <1>4, ForceUnlockOK DEF ForceUnlock
<1>5. ASSUME NEW t \in Thread, Restore(t)
      PROVE  IndInv'
  BY <1>5, RestoreOK DEF Restore
<1>6. CASE UNCHANGED vars
  BY <1>6 DEF vars, mutexVars, listVars, threadVars, IndInv, TypeOK, ListsOK,
     RequestsOK, BigLockExclusive, CountsAgree, HandOff, NoWaiterLeftBehind,
     Waiting, Owned, owned, TokensOf
<1> QED
  BY <1>1, <1>2, <1>3, <1>4, <1>5, <1>6 DEF Next

(* So it holds in every reachable state.                                   *)
LEMMA Invariance == Spec => []IndInv
  BY InitOK, NextOK, PTL DEF Spec

(* Type correctness of the mutex and of what Thread keeps for it.          *)
THEOREM TypeCorrect == Spec => []TypeOK
<1>1. IndInv => TypeOK
  BY DEF IndInv
<1> QED BY <1>1, Invariance, PTL

(* m_mode, m_holder, m_times_locked and m_shared_holders always agree with *)
(* the locks that the threads own: the VERIFYs of lock(), unlock() and     *)
(* restore_exclusive_lock() cannot fail.                                   *)
THEOREM CountsCorrect == Spec => []CountsAgree
<1>1. IndInv => CountsAgree
  BY DEF IndInv
<1> QED BY <1>1, Invariance, PTL

(* Two threads never own the mutex together unless it is shared.           *)
THEOREM MutualExclusionHolds == Spec => []MutualExclusion
<1>1. IndInv => MutualExclusion
  <2> SUFFICES ASSUME IndInv, NEW t \in Thread, NEW u \in Thread,
                      t # u, Owned(t) > 0, Owned(u) > 0, m_mode # "Shared"
               PROVE  FALSE
    BY DEF MutualExclusion
  <2> QED BY DEF IndInv, CountsAgree, TypeOK, Mode
<1> QED BY <1>1, Invariance, PTL

(* A woken thread finds the mutex as it asked for it, and only threads     *)
(* that wait for the mutex are unblocked from it.                          *)
THEOREM HandOffHolds == Spec => []HandOff
<1>1. IndInv => HandOff
  BY DEF IndInv
<1> QED BY <1>1, Invariance, PTL

(* No wake-up is lost: an unlocked mutex has no waiters.                   *)
THEOREM NoWaiterLeftBehindHolds == Spec => []NoWaiterLeftBehind
<1>1. IndInv => NoWaiterLeftBehind
  BY DEF IndInv
<1> QED BY <1>1, Invariance, PTL

-----------------------------------------------------------------------------
(* The order of service.                                                   *)

(* unblock_waiters serves somebody or nobody, and when it serves a writer  *)
(* it is the first of the list.                                            *)
LEMMA UnblockWaitersCases ==
    ASSUME NEW previous_mode, NEW pc0, UnblockWaiters(previous_mode, pc0)
    PROVE  \/ UnblockShared(pc0)
           \/ UnblockExclusive(pc0)
           \/ exclusive = <<>> /\ shared = {} /\ NobodyToUnblock(pc0)
  BY DEF UnblockWaiters

(* A thread that unblock_waiters leaves blocked at the head of the list    *)
(* has not been passed over for another writer.                            *)
LEMMA UnblockWaitersNoBarging ==
    ASSUME TypeOK, NEW previous_mode, NEW pc0, UnblockWaiters(previous_mode, pc0),
           exclusive # <<>>, pc'[Head(exclusive)] = "blocked"
    PROVE  m_holder' = NoThread
<1>1. CASE UnblockShared(pc0)
  BY <1>1 DEF UnblockShared
<1>2. CASE UnblockExclusive(pc0)
  <2>1. Head(exclusive) \in Thread
    BY DEF TypeOK
  <2>2. pc'[Head(exclusive)] = "woken"
    BY <1>2, <2>1 DEF UnblockExclusive, Wake
  <2> QED BY <2>2
<1>3. CASE NobodyToUnblock(pc0)
  BY <1>3 DEF NobodyToUnblock
<1> QED BY <1>1, <1>2, <1>3, UnblockWaitersCases

(* lock(), unlock(), the forced unlock and the restoring of the big lock   *)
(* never make a thread the exclusive holder while the one that has waited  *)
(* longest goes on waiting.                                                *)
THEOREM NoBargingHolds == Spec => NoBarging
<1>1. ASSUME IndInv, [Next]_vars, NEW t \in Thread,
             exclusive # <<>>, t = Head(exclusive),
             pc'[t] = "blocked", m_holder' # m_holder
      PROVE  m_holder' = NoThread
  <2>1. TypeOK /\ NoWaiterLeftBehind
    BY <1>1 DEF IndInv
  <2>2. m_mode # "Unlocked"
    BY <1>1, <2>1 DEF NoWaiterLeftBehind
  <2>3. ASSUME NEW u \in Thread, NEW mode \in Requestable, Lock(u, mode)
        PROVE  FALSE
    BY <1>1, <2>2, <2>3
       DEF Lock, LockUnlocked, LockRecursive, LockShared, LockBlocks, Block, mutexVars
  <2>4. ASSUME NEW u \in Thread, Resume(u)
        PROVE  FALSE
    BY <1>1, <2>4 DEF Resume, mutexVars
  <2>5. ASSUME NEW u \in Thread, Unlock(u)
        PROVE  m_holder' = NoThread
    BY <1>1, <2>1, <2>5, UnblockWaitersNoBarging DEF Unlock
  <2>6. ASSUME NEW u \in Thread, NEW after \in {"yielded", "outside"}, ForceUnlock(u, after)
        PROVE  m_holder' = NoThread
    BY <1>1, <2>1, <2>6, UnblockWaitersNoBarging DEF ForceUnlock
  <2>7. ASSUME NEW u \in Thread, Restore(u)
        PROVE  FALSE
    BY <1>1, <2>2, <2>7 DEF Restore, RestoreTakes, RestoreBlocks, Block, mutexVars
  <2>8. CASE UNCHANGED vars
    BY <1>1, <2>8 DEF vars, mutexVars
  <2> QED BY <1>1, <2>3, <2>4, <2>5, <2>6, <2>7, <2>8 DEF Next
<1>2. IndInv /\ [Next]_vars =>
        [ \A t \in Thread :
            exclusive # <<>> /\ t = Head(exclusive) /\ pc[t] = "blocked"
               /\ pc'[t] = "blocked" /\ m_holder' # m_holder
            => m_holder' = NoThread ]_vars
  BY <1>1
<1> QED BY <1>2, Invariance, PTL DEF Spec, NoBarging

-----------------------------------------------------------------------------
(* The mutex implements the readers-writer lock.                           *)

(* What unblock_waiters makes of the abstract lock: nobody's, the first    *)
(* writer's, or all the waiting readers'.                                  *)
LEMMA HandOver ==
    ASSUME IndInv,
           NEW previous_mode, NEW pc0 \in [Thread -> Location],
           UnblockWaiters(previous_mode, pc0),
           held' = [u \in Thread |-> 0],
           \A u \in Thread :
              /\ pc[u] # "woken"
              /\ pc0[u] # "woken"
              /\ pc[u] = "blocked" =>
                   m_lock_requested_count'[u] = m_lock_requested_count[u]
    PROVE  \/ m_mode' = "Unlocked" /\ owned' = [u \in Thread |-> 0]
           \/ \E w \in Thread, n2 \in 1 .. MaxLocks :
                 /\ m_mode' = "Exclusive"
                 /\ owned' = [u \in Thread |-> IF u = w THEN n2 ELSE 0]
           \/ \E S \in SUBSET Thread :
                 /\ m_mode' = "Shared"
                 /\ S # {}
                 /\ owned' = [u \in Thread |-> IF u \in S THEN 1 ELSE 0]
<1> USE MaxLocksAssumption
<1>1. TypeOK /\ ListsOK /\ RequestsOK
  BY DEF IndInv
<1>2. \A u \in Thread : held'[u] = 0
  OBVIOUS
<1>3. owned' = [u \in Thread |-> Owned(u)']
  BY DEF owned
<1>4. CASE UnblockShared(pc0)
  <2>1. /\ shared \in SUBSET Thread /\ shared # {} /\ m_mode' = "Shared"
        /\ pc' = [u \in Thread |-> IF u \in shared THEN "woken" ELSE pc0[u]]
    BY <1>1, <1>4 DEF UnblockShared, Wake, TypeOK
  <2>2. \A u \in shared : m_lock_requested_count'[u] = 1
    BY <1>1, <2>1 DEF ListsOK, RequestsOK, Waiting
  <2>3. \A u \in Thread : Owned(u)' = IF u \in shared THEN 1 ELSE 0
    BY <1>2, <2>1, <2>2 DEF Owned
  <2>4. owned' = [u \in Thread |-> IF u \in shared THEN 1 ELSE 0]
    BY <1>3, <2>3
  <2> QED BY <2>1, <2>4
<1>5. CASE UnblockExclusive(pc0)
  <2> DEFINE h == Head(exclusive)
  <2>1. /\ h \in Thread /\ m_mode' = "Exclusive"
        /\ \E i \in 1 .. Len(exclusive) : exclusive[i] = h
        /\ pc' = [u \in Thread |-> IF u = h THEN "woken" ELSE pc0[u]]
    <3>1. exclusive \in Seq(Thread) /\ exclusive # <<>>
      BY <1>1, <1>5 DEF UnblockExclusive, TypeOK
    <3>2. Len(exclusive) \in Nat /\ Len(exclusive) > 0 /\ h = exclusive[1] /\ h \in Thread
      BY <3>1
    <3> QED BY <1>5, <3>2 DEF UnblockExclusive, Wake
  <2> HIDE DEF h
  <2> DEFINE n2 == m_lock_requested_count[h]
  <2>2. m_lock_requested_count'[h] = n2 /\ n2 \in 1 .. MaxLocks
    BY <1>1, <2>1 DEF ListsOK, RequestsOK, Waiting, TypeOK
  <2> HIDE DEF n2
  <2>3. \A u \in Thread : Owned(u)' = IF u = h THEN n2 ELSE 0
    BY <1>2, <2>1, <2>2 DEF Owned
  <2>4. owned' = [u \in Thread |-> IF u = h THEN n2 ELSE 0]
    BY <1>3, <2>3
  <2> QED BY <2>1, <2>2, <2>4
<1>6. CASE NobodyToUnblock(pc0)
  <2>1. m_mode' = "Unlocked" /\ pc' = pc0
    BY <1>6 DEF NobodyToUnblock
  <2>2. \A u \in Thread : Owned(u)' = 0
    BY <1>2, <2>1 DEF Owned
  <2>3. owned' = [u \in Thread |-> 0]
    BY <1>3, <2>2
  <2> QED BY <2>1, <2>3
<1> QED BY <1>4, <1>5, <1>6, UnblockWaitersCases

(* Taking the mutex, for the first time or again, enters the lock; waiting *)
(* for it changes nothing.                                                 *)
LEMMA LockEnters ==
    ASSUME IndInv, NEW t \in Thread, NEW mode \in Requestable, Lock(t, mode)
    PROVE  Lock_!Next \/ UNCHANGED Lock_!vars
<1> USE MaxLocksAssumption
<1>1. TypeOK /\ RequestsOK /\ CountsAgree
  BY DEF IndInv
<1>2. /\ pc[t] = "outside" /\ mode \in {"Shared", "Exclusive"}
      /\ \A u \in Thread : held[u] \in Nat /\ m_lock_requested_count[u] \in Nat
      /\ held \in [Thread -> 0 .. MaxLocks]
      /\ 1 \in 1 .. MaxLocks
  BY <1>1 DEF Lock, Requestable, TypeOK
<1>3. owned \in [Thread -> 0 .. MaxLocks] /\ \A u \in Thread : owned[u] = Owned(u)
  BY <1>1, OwnedType
<1>4. owned' = [u \in Thread |-> Owned(u)']
  BY DEF owned
<1>5. ASSUME held' = [held EXCEPT ![t] = @ + 1], pc' = pc,
             m_lock_requested_count' = m_lock_requested_count
      PROVE  owned' = [owned EXCEPT ![t] = @ + 1]
  <2>1. \A u \in Thread : Owned(u)' = IF u = t THEN owned[u] + 1 ELSE owned[u]
    BY <1>2, <1>3, <1>5 DEF Owned
  <2> QED BY <1>3, <1>4, <2>1
<1>6. CASE LockUnlocked(t, mode)
  <2>1. m_mode = "Unlocked" /\ m_mode' = mode /\ owned' = [owned EXCEPT ![t] = @ + 1]
    BY <1>5, <1>6 DEF LockUnlocked
  <2>2. Lock_!Enter(t, mode, 1)
    BY <2>1 DEF Lock_!Enter
  <2> QED BY <1>2, <2>2 DEF Lock_!Next
<1>7. CASE LockRecursive(t)
  <2>1. m_mode = "Exclusive" /\ m_holder = t /\ m_mode' = m_mode
        /\ owned' = [owned EXCEPT ![t] = @ + 1]
    BY <1>5, <1>7 DEF LockRecursive
  <2>2. owned[t] > 0
    BY <1>1, <1>3, <2>1 DEF CountsAgree
  <2>3. Lock_!Enter(t, mode, 1)
    BY <2>1, <2>2 DEF Lock_!Enter
  <2> QED BY <1>2, <2>3 DEF Lock_!Next
<1>8. CASE LockShared(t, mode)
  <2>1. m_mode = "Shared" /\ mode = "Shared" /\ m_mode' = m_mode
        /\ owned' = [owned EXCEPT ![t] = @ + 1]
    BY <1>5, <1>8 DEF LockShared
  <2>2. Lock_!Enter(t, mode, 1)
    BY <2>1 DEF Lock_!Enter
  <2> QED BY <1>2, <2>2 DEF Lock_!Next
<1>9. CASE LockBlocks(t, mode)
  <2>1. /\ m_mode' = m_mode /\ held' = held /\ pc' = [pc EXCEPT ![t] = "blocked"]
        /\ \A u \in Thread \ {t} : m_lock_requested_count'[u] = m_lock_requested_count[u]
    BY <1>1, <1>9 DEF LockBlocks, Block, mutexVars, TypeOK
  <2>2. \A u \in Thread : Owned(u)' = owned[u]
    BY <1>1, <1>2, <1>3, <2>1 DEF Owned, TypeOK
  <2>3. owned' = owned
    BY <1>3, <1>4, <2>2
  <2> QED BY <2>1, <2>3 DEF Lock_!vars
<1> QED BY <1>6, <1>7, <1>8, <1>9 DEF Lock

(* The return from Mutex::block is no step of the lock: the thread has     *)
(* owned it since the hand-off.                                            *)
LEMMA ResumeStutters ==
    ASSUME IndInv, NEW t \in Thread, Resume(t)
    PROVE  UNCHANGED Lock_!vars
<1> USE MaxLocksAssumption
<1>1. TypeOK /\ RequestsOK
  BY DEF IndInv
<1>2. /\ pc[t] = "woken" /\ m_mode' = m_mode
      /\ held' = [held EXCEPT ![t] = @ + m_lock_requested_count[t]]
      /\ m_lock_requested_count' = [m_lock_requested_count EXCEPT ![t] = 0]
      /\ pc' = [pc EXCEPT ![t] = "outside"]
  BY DEF Resume, mutexVars
<1>3. /\ held \in [Thread -> 0 .. MaxLocks] /\ pc \in [Thread -> Location]
      /\ m_lock_requested_count \in [Thread -> 0 .. MaxLocks]
  BY <1>1 DEF TypeOK
<1>4. \A u \in Thread : Owned(u)' = Owned(u)
  BY <1>2, <1>3 DEF Owned
<1>5. owned' = owned
  BY <1>4 DEF owned
<1> QED BY <1>2, <1>5 DEF Lock_!vars

(* An unlock leaves the lock to the other owners or to itself, and the     *)
(* last one hands it over.                                                 *)
LEMMA UnlockLeaves ==
    ASSUME IndInv, NEW t \in Thread, Unlock(t)
    PROVE  Lock_!Next
<1> USE MaxLocksAssumption
<1>1. TypeOK /\ RequestsOK /\ CountsAgree
  BY DEF IndInv
<1>2. owned \in [Thread -> 0 .. MaxLocks] /\ \A u \in Thread : owned[u] = Owned(u)
  BY <1>1, OwnedType
<1>3. /\ pc[t] = "outside" /\ held[t] > 0
      /\ held' = [held EXCEPT ![t] = @ - 1]
      /\ m_lock_requested_count' = m_lock_requested_count
      /\ held \in [Thread -> 0 .. MaxLocks]
      /\ \A u \in Thread : m_lock_requested_count[u] \in Nat
      /\ 1 \in 1 .. MaxLocks
  BY <1>1 DEF Unlock, TypeOK
<1>4. owned[t] = held[t] /\ owned[t] > 0
  BY <1>2, <1>3 DEF Owned
<1>5. CASE m_times_locked = 1
  <2>1. /\ owned[t] = 1
        /\ \A u \in Thread \ {t} : owned[u] = 0
        /\ held' = [u \in Thread |-> 0]
        /\ \A u \in Thread : pc[u] # "woken"
    BY <1>2, <1>5, LastUnlock
  <2>2. UnblockWaiters(m_mode, pc) /\ pc \in [Thread -> Location]
    BY <1>1, <1>5 DEF Unlock, TypeOK
  <2>3. \/ m_mode' = "Unlocked" /\ owned' = [u \in Thread |-> 0]
        \/ \E w \in Thread, n2 \in 1 .. MaxLocks :
              /\ m_mode' = "Exclusive"
              /\ owned' = [u \in Thread |-> IF u = w THEN n2 ELSE 0]
        \/ \E S \in SUBSET Thread :
              /\ m_mode' = "Shared"
              /\ S # {}
              /\ owned' = [u \in Thread |-> IF u \in S THEN 1 ELSE 0]
    BY <1>3, <2>1, <2>2, HandOver
  <2>4. Lock_!LeaveLast(t, 1)
    BY <2>1, <2>3 DEF Lock_!LeaveLast
  <2> QED BY <1>3, <2>4 DEF Lock_!Next
<1>6. CASE m_times_locked # 1
  <2>1. m_mode' = m_mode /\ pc' = pc
    BY <1>6 DEF Unlock
  <2>2. \A u \in Thread : Owned(u)' = IF u = t THEN owned[u] - 1 ELSE owned[u]
    BY <1>2, <1>3, <2>1 DEF Owned
  <2>3. owned' = [owned EXCEPT ![t] = @ - 1]
    <3>1. owned' = [u \in Thread |-> Owned(u)']
      BY DEF owned
    <3> QED BY <1>2, <2>2, <3>1
  <2>4. \E u \in Thread : owned[u] > (IF u = t THEN 1 ELSE 0)
    <3>1. CASE m_mode = "Exclusive"
      BY <1>1, <1>2, <1>4, <1>6, <3>1 DEF CountsAgree
    <3>2. CASE m_mode = "Shared"
      <4>1. SUFFICES ASSUME \A u \in Thread : owned[u] = (IF u = t THEN 1 ELSE 0)
                     PROVE  FALSE
        BY <1>2, <1>4
      <4>2. owned = [u \in Thread |-> IF u \in {t} THEN 1 ELSE 0]
        BY <1>2, <4>1
      <4>3. Cardinality(TokensOf(owned)) = Cardinality({t})
        BY <4>2, TokensUnit
      <4> QED BY <1>1, <1>6, <3>2, <4>3, FS_Singleton DEF CountsAgree
    <3> QED BY <1>1, <1>2, <1>4, <3>1, <3>2 DEF CountsAgree, TypeOK, Mode
  <2>5. Lock_!Leave(t, 1)
    BY <1>2, <1>4, <2>1, <2>3, <2>4 DEF Lock_!Leave
  <2> QED BY <1>3, <2>5 DEF Lock_!Next
<1> QED BY <1>5, <1>6

(* force_unlock_exclusive_if_locked gives up all the locks of the holder   *)
(* at once and hands the lock over.                                        *)
LEMMA ForceUnlockLeaves ==
    ASSUME IndInv, NEW t \in Thread, NEW after \in {"yielded", "outside"},
           ForceUnlock(t, after)
    PROVE  Lock_!Next
<1> USE MaxLocksAssumption
<1>1. TypeOK /\ RequestsOK /\ CountsAgree /\ HandOff
  BY DEF IndInv
<1>2. owned \in [Thread -> 0 .. MaxLocks] /\ \A u \in Thread : owned[u] = Owned(u)
  BY <1>1, OwnedType
<1> DEFINE pc0 == [pc EXCEPT ![t] = after]
<1>3. /\ pc[t] = "outside" /\ m_mode = "Exclusive" /\ m_holder = t
      /\ held' = [held EXCEPT ![t] = 0]
      /\ \A u \in Thread \ {t} : m_lock_requested_count'[u] = m_lock_requested_count[u]
      /\ UnblockWaiters("Exclusive", pc0)
      /\ pc0 \in [Thread -> Location]
  BY <1>1 DEF ForceUnlock, TypeOK, Location
<1>4. /\ \A u \in Thread \ {t} : owned[u] = 0
      /\ owned[t] \in 1 .. MaxLocks
  BY <1>1, <1>2, <1>3 DEF CountsAgree
<1>5. ASSUME NEW u \in Thread
      PROVE  held'[u] = 0 /\ pc[u] # "woken" /\ pc0[u] # "woken"
  <2>1. CASE u = t
    BY <1>1, <1>3, <2>1 DEF TypeOK
  <2>2. CASE u # t
    <3>1. Owned(u) = 0 /\ held'[u] = held[u] /\ pc0[u] = pc[u]
      BY <1>1, <1>2, <1>3, <1>4, <2>2 DEF TypeOK
    <3>2. pc[u] = "woken" => m_lock_requested_count[u] > 0
      BY <1>1 DEF HandOff
    <3>3. held[u] \in Nat /\ m_lock_requested_count[u] \in Nat
      BY <1>1 DEF TypeOK
    <3> QED BY <3>1, <3>2, <3>3 DEF Owned
  <2> QED BY <2>1, <2>2
<1>6. held' = [u \in Thread |-> 0]
  <2>1. held' = [u \in Thread |-> held'[u]]
    BY <1>1, <1>3 DEF TypeOK
  <2> QED BY <1>5, <2>1
<1>7. \A u \in Thread : pc[u] = "blocked" => m_lock_requested_count'[u] = m_lock_requested_count[u]
  BY <1>3
<1> HIDE DEF pc0
<1>8. \/ m_mode' = "Unlocked" /\ owned' = [u \in Thread |-> 0]
      \/ \E w \in Thread, n2 \in 1 .. MaxLocks :
            /\ m_mode' = "Exclusive"
            /\ owned' = [u \in Thread |-> IF u = w THEN n2 ELSE 0]
      \/ \E S \in SUBSET Thread :
            /\ m_mode' = "Shared"
            /\ S # {}
            /\ owned' = [u \in Thread |-> IF u \in S THEN 1 ELSE 0]
  BY <1>3, <1>5, <1>6, <1>7, HandOver
<1>9. Lock_!LeaveLast(t, owned[t])
  BY <1>4, <1>8 DEF Lock_!LeaveLast
<1> QED BY <1>4, <1>9 DEF Lock_!Next

(* restore_exclusive_lock enters the lock as often as it had been left.    *)
LEMMA RestoreEnters ==
    ASSUME IndInv, NEW t \in Thread, Restore(t)
    PROVE  Lock_!Next \/ UNCHANGED Lock_!vars
<1> USE MaxLocksAssumption
<1>1. TypeOK /\ RequestsOK /\ CountsAgree
  BY DEF IndInv
<1>2. /\ pc[t] = "yielded" /\ held[t] = 0
      /\ m_lock_requested_count[t] \in 1 .. MaxLocks
      /\ held \in [Thread -> 0 .. MaxLocks]
      /\ pc \in [Thread -> Location]
      /\ m_lock_requested_count \in [Thread -> 0 .. MaxLocks]
  BY <1>1 DEF Restore, RequestsOK, TypeOK
<1>3. owned \in [Thread -> 0 .. MaxLocks] /\ \A u \in Thread : owned[u] = Owned(u)
  BY <1>1, OwnedType
<1>4. owned' = [u \in Thread |-> Owned(u)']
  BY DEF owned
<1>5. owned[t] = 0
  BY <1>2, <1>3 DEF Owned
<1>6. CASE RestoreTakes(t)
  <2> DEFINE n == m_lock_requested_count[t]
  <2>1. m_mode = "Unlocked"
    BY <1>1, <1>3, <1>5, <1>6, ThreadAssumption DEF RestoreTakes, CountsAgree, TypeOK, Mode
  <2>2. /\ m_mode' = "Exclusive"
        /\ held' = [held EXCEPT ![t] = @ + n]
        /\ \A u \in Thread \ {t} : m_lock_requested_count'[u] = m_lock_requested_count[u]
        /\ pc' = [pc EXCEPT ![t] = "outside"]
        /\ n \in 1 .. MaxLocks
    BY <1>2, <1>6 DEF RestoreTakes
  <2> HIDE DEF n
  <2>3. \A u \in Thread : Owned(u)' = IF u = t THEN owned[u] + n ELSE owned[u]
    BY <1>2, <1>3, <1>5, <2>2 DEF Owned
  <2>4. owned' = [owned EXCEPT ![t] = @ + n]
    BY <1>3, <1>4, <2>3
  <2>5. Lock_!Enter(t, "Exclusive", n)
    BY <2>1, <2>2, <2>4 DEF Lock_!Enter
  <2> QED BY <2>2, <2>5 DEF Lock_!Next
<1>7. CASE RestoreBlocks(t)
  <2>1. /\ m_mode' = m_mode /\ held' = held /\ pc' = [pc EXCEPT ![t] = "blocked"]
        /\ \A u \in Thread \ {t} : m_lock_requested_count'[u] = m_lock_requested_count[u]
    BY <1>2, <1>7 DEF RestoreBlocks, Block, mutexVars
  <2>2. \A u \in Thread : Owned(u)' = owned[u]
    BY <1>2, <1>3, <2>1 DEF Owned
  <2>3. owned' = owned
    BY <1>3, <1>4, <2>2
  <2> QED BY <2>1, <2>3 DEF Lock_!vars
<1> QED BY <1>6, <1>7 DEF Restore

(* The mutex of the kernel implements the abstract readers-writer lock:    *)
(* each step of lock(), unlock(), unblock_waiters and of the big lock's    *)
(* functions is one step of the lock or none.                              *)
THEOREM ImplementsRWLockHolds == Spec => ImplementsRWLock
<1>1. Init => Lock_!Init
  BY DEF Init, Lock_!Init, owned, Owned
<1>2. IndInv /\ [Next]_vars => [Lock_!Next]_Lock_!vars
  <2> SUFFICES ASSUME IndInv, [Next]_vars
               PROVE  Lock_!Next \/ UNCHANGED Lock_!vars
    OBVIOUS
  <2>1. CASE UNCHANGED vars
    BY <2>1 DEF vars, mutexVars, threadVars, owned, Owned, Lock_!vars
  <2>2. CASE Next
    BY <2>2, LockEnters, ResumeStutters, UnlockLeaves, ForceUnlockLeaves, RestoreEnters DEF Next
  <2> QED BY <2>1, <2>2
<1> QED BY <1>1, <1>2, Invariance, PTL DEF Spec, ImplementsRWLock, Lock_!Spec
=============================================================================
