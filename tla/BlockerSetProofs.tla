-------------------------- MODULE BlockerSetProofs --------------------------
(***************************************************************************)
(* What the operations of BlockerSet do to a list of any length. They are  *)
(* defined by recursion on the list, so every fact is an induction: on     *)
(* sets of natural numbers, in the form of Induct.                         *)
(***************************************************************************)
EXTENDS BlockerSet, WellFoundedInduction, SequenceTheorems, TLAPS

(* A set of natural numbers that is not empty has a least element.         *)
LEMMA Least == ASSUME NEW T \in SUBSET Nat, T # {} PROVE \E n \in T : \A m \in T : n <= m
<1> DEFINE R == OpToRel(<, Nat)
<1>1. IsWellFoundedOn(R, Nat)
  BY NatLessThanWellFounded
<1>2. \A x, y \in Nat : y < x => <<y, x>> \in R
  BY Zenon DEF OpToRel
<1> HIDE DEF R
<1>3. PICK x \in T : \A y \in T : ~ (<<y, x>> \in R)
  BY <1>1, WFMin
<1>4. \A y \in T : ~(y < x)
  <2> SUFFICES ASSUME NEW y \in T, y < x PROVE FALSE
    OBVIOUS
  <2>1. x \in Nat /\ y \in Nat
    OBVIOUS
  <2> QED BY <2>1, <1>2, <1>3, Zenon
<1> QED BY <1>4

(* Induction over the natural numbers, for a set: the form that the        *)
(* provers can instantiate.                                                *)
LEMMA Induct == ASSUME NEW T, 0 \in T, \A n \in Nat : n \in T => n + 1 \in T PROVE Nat \subseteq T
<1> SUFFICES ASSUME ~(Nat \subseteq T) PROVE FALSE
  OBVIOUS
<1> DEFINE U == {n \in Nat : n \notin T}
<1>1. PICK n \in U : \A m \in U : n <= m
  <2>1. U \in SUBSET Nat /\ U # {}
    OBVIOUS
  <2> HIDE DEF U
  <2> QED BY <2>1, Least
<1>2. n # 0
  BY <1>1
<1>3. n - 1 \in Nat /\ n - 1 \notin U
  BY <1>1, <1>2
<1> QED BY <1>3, <1>2, <1>1

(* One step of the scan.                                                   *)
Step(r, b, S, n) ==
    IF b \in S /\ Len(r.taken) < n
    THEN [left |-> r.left, taken |-> Append(r.taken, b)]
    ELSE [left |-> Append(r.left, b), taken |-> r.taken]

IsScan(f, s, S, n, k) ==
    f = [i \in 0..k |-> IF i = 0 THEN [left |-> <<>>, taken |-> <<>>]
                       ELSE Step(f[i - 1], s[i], S, n)]

(* The recursive definition of Scan has a solution on the first k          *)
(* blockers, whatever k is.                                                *)
LEMMA ScanExists ==
  ASSUME NEW s, NEW S, NEW n
  PROVE  \A k \in Nat : \E f : IsScan(f, s, S, n, k)
<1> DEFINE T == {k \in Nat : \E f : IsScan(f, s, S, n, k)}
<1>1. 0 \in T
  <2> DEFINE g == [i \in 0..0 |-> [left |-> <<>>, taken |-> <<>>]]
  <2>1. IsScan(g, s, S, n, 0)
    BY DEF IsScan
  <2> QED
    BY <2>1
<1>2. ASSUME NEW k \in Nat, k \in T PROVE k + 1 \in T
  <2>1. PICK f : IsScan(f, s, S, n, k)
    BY <1>2
  <2> DEFINE g == [i \in 0..k + 1 |-> IF i = k + 1 THEN Step(f[k], s[i], S, n) ELSE f[i]]
  <2>2. \A i \in 0..k + 1 : g[i] = IF i = 0 THEN [left |-> <<>>, taken |-> <<>>]
                                   ELSE Step(g[i - 1], s[i], S, n)
    <3> SUFFICES ASSUME NEW i \in 0..k + 1
                 PROVE  g[i] = IF i = 0 THEN [left |-> <<>>, taken |-> <<>>]
                               ELSE Step(g[i - 1], s[i], S, n)
      OBVIOUS
    <3>1. CASE i = 0
      BY <2>1, <3>1 DEF IsScan
    <3>2. CASE i \in 1..k
      <4>1. g[i] = f[i] /\ g[i - 1] = f[i - 1]
        BY <3>2
      <4>2. f[i] = Step(f[i - 1], s[i], S, n)
        BY <2>1, <3>2 DEF IsScan
      <4> QED
        BY <4>1, <4>2, <3>2
    <3>3. CASE i = k + 1
      <4>1. g[i] = Step(f[k], s[i], S, n) /\ g[i - 1] = f[k]
        BY <3>3
      <4> QED
        BY <4>1, <3>3
    <3> QED
      BY <3>1, <3>2, <3>3
  <2>3. IsScan(g, s, S, n, k + 1)
    <3>1. g = [i \in 0..k + 1 |-> g[i]]
      OBVIOUS
    <3> HIDE DEF g
    <3> QED
      BY <2>2, <3>1 DEF IsScan
  <2> QED
    BY <2>3
<1> HIDE DEF T
<1>3. Nat \subseteq T
  BY <1>1, <1>2, Induct
<1> QED
  BY <1>3 DEF T

(* So Scan satisfies its definition.                                       *)
LEMMA ScanDef ==
  ASSUME NEW s, NEW S, NEW n, Len(s) \in Nat
  PROVE  IsScan(Scan(s, S, n), s, S, n, Len(s))
<1>1. \E f : IsScan(f, s, S, n, Len(s))
  BY ScanExists
<1> QED
  BY <1>1 DEF Scan, IsScan, Step

(* What a scan has done after i blockers.                                  *)
ScanOK(r, s, S, n, T, i) ==
    /\ r.left \in Seq(T) /\ r.taken \in Seq(T)
    /\ r = [left |-> r.left, taken |-> r.taken]
    /\ Len(r.left) + Len(r.taken) = i
    /\ Range(r.left) \cup Range(r.taken) = {s[j] : j \in 1..i}
    /\ Range(r.taken) \subseteq S
    /\ Len(r.taken) <= n
    /\ Len(r.taken) < n => Range(r.left) \cap S = {}
    /\ IsInjective(s) => IsInjective(r.left)

(* What is in a list to which one blocker was appended.                    *)
LEMMA RangeAppend ==
  ASSUME NEW T, NEW s \in Seq(T), NEW e \in T
  PROVE  Range(Append(s, e)) = Range(s) \cup {e}
<1> USE DEF Range
<1>1. /\ DOMAIN Append(s, e) = 1..Len(s) + 1
      /\ \A i \in 1..Len(s) : Append(s, e)[i] = s[i]
      /\ Append(s, e)[Len(s) + 1] = e
  BY AppendProperties
<1>2. DOMAIN s = 1..Len(s) /\ Len(s) \in Nat
  OBVIOUS
<1>3. Range(Append(s, e)) \subseteq Range(s) \cup {e}
  <2> SUFFICES ASSUME NEW i \in 1..Len(s) + 1 PROVE Append(s, e)[i] \in Range(s) \cup {e}
    BY <1>1
  <2> QED
    BY <1>1, <1>2
<1>4. Range(s) \cup {e} \subseteq Range(Append(s, e))
  BY <1>1, <1>2
<1> QED
  BY <1>3, <1>4

(* A list without repetitions to which a new blocker is appended has none. *)
LEMMA InjectiveAppend ==
  ASSUME NEW T, NEW s \in Seq(T), NEW e \in T, IsInjective(s), e \notin Range(s)
  PROVE  IsInjective(Append(s, e))
<1>1. /\ DOMAIN Append(s, e) = 1..Len(s) + 1
      /\ \A i \in 1..Len(s) : Append(s, e)[i] = s[i]
      /\ Append(s, e)[Len(s) + 1] = e
  BY AppendProperties
<1>2. DOMAIN s = 1..Len(s) /\ Len(s) \in Nat
  OBVIOUS
<1>3. \A i \in 1..Len(s) : s[i] # e
  BY <1>2 DEF Range
<1> QED
  BY <1>1, <1>2, <1>3 DEF IsInjective

(* One step of the scan keeps ScanOK, for one blocker more.                *)
LEMMA StepOK ==
  ASSUME NEW T, NEW s \in Seq(T), NEW S, NEW n \in Nat, NEW i \in 1..Len(s), NEW r,
         ScanOK(r, s, S, n, T, i - 1)
  PROVE  ScanOK(Step(r, s[i], S, n), s, S, n, T, i)
<1> USE DEF ScanOK
<1> DEFINE q == Step(r, s[i], S, n)
<1>0. s[i] \in T /\ i \in Nat /\ Len(s) \in Nat
  OBVIOUS
<1>1. {s[j] : j \in 1..i} = {s[j] : j \in 1..i - 1} \cup {s[i]}
  BY <1>0
<1>2. Len(r.left) \in Nat /\ Len(r.taken) \in Nat
  OBVIOUS
<1>3. CASE s[i] \in S /\ Len(r.taken) < n
  <2>1. q.left = r.left /\ q.taken = Append(r.taken, s[i]) /\ q = [left |-> q.left, taken |-> q.taken]
    BY <1>3 DEF Step
  <2>2. Range(q.taken) = Range(r.taken) \cup {s[i]}
    BY <2>1, <1>0, RangeAppend
  <2>3. q.taken \in Seq(T) /\ Len(q.taken) = Len(r.taken) + 1
    BY <2>1, <1>0
  <2>4. Range(r.left) \cap S = {}
    BY <1>3
  <2> HIDE DEF q
  <2>5. Range(q.left) \cup Range(q.taken) = {s[j] : j \in 1..i}
    BY <1>1, <2>1, <2>2
  <2>6. Len(q.left) + Len(q.taken) = i /\ Len(q.taken) <= n
    BY <1>0, <1>2, <1>3, <2>1, <2>3
  <2>7. Range(q.taken) \subseteq S /\ q.left \in Seq(T)
    BY <1>3, <2>1, <2>2
  <2>8. IsInjective(s) => IsInjective(q.left)
    BY <2>1, Zenon
  <2>9. ScanOK(q, s, S, n, T, i)
    BY <2>1, <2>3, <2>4, <2>5, <2>6, <2>7, <2>8, Zenon
  <2> QED
    BY <2>9 DEF q
<1>4. CASE ~(s[i] \in S /\ Len(r.taken) < n)
  <2>1. q.left = Append(r.left, s[i]) /\ q.taken = r.taken /\ q = [left |-> q.left, taken |-> q.taken]
    BY <1>4 DEF Step
  <2>2. Range(q.left) = Range(r.left) \cup {s[i]}
    BY <2>1, <1>0, RangeAppend
  <2>3. q.left \in Seq(T) /\ Len(q.left) = Len(r.left) + 1
    BY <2>1, <1>0
  <2> HIDE DEF q
  <2>4. Len(q.taken) < n => Range(q.left) \cap S = {}
    BY <1>4, <2>1, <2>2
  <2>5. Range(q.left) \cup Range(q.taken) = {s[j] : j \in 1..i}
    BY <1>1, <2>1, <2>2
  <2>6. IsInjective(s) => IsInjective(q.left)
    <3> SUFFICES ASSUME IsInjective(s) PROVE IsInjective(Append(r.left, s[i]))
      BY <2>1
    <3>1. s[i] \notin {s[j] : j \in 1..i - 1}
      BY <1>0 DEF IsInjective
    <3>2. s[i] \notin Range(r.left)
      BY <3>1
    <3> QED
      BY <1>0, <3>2, InjectiveAppend
  <2>7. Len(q.left) + Len(q.taken) = i
    BY <1>0, <1>2, <2>1, <2>3
  <2>8. ScanOK(q, s, S, n, T, i)
    BY <2>1, <2>3, <2>4, <2>5, <2>6, <2>7, Zenon
  <2> QED
    BY <2>8 DEF q
<1> QED
  BY <1>3, <1>4

(* So it holds after any number of blockers.                               *)
LEMMA ScanFacts ==
  ASSUME NEW T, NEW s \in Seq(T), NEW S, NEW n \in Nat
  PROVE  \A i \in 0..Len(s) : ScanOK(Scan(s, S, n)[i], s, S, n, T, i)
<1> DEFINE F == Scan(s, S, n)
           G == {i \in Nat : i \in 0..Len(s) => ScanOK(F[i], s, S, n, T, i)}
<1>0. Len(s) \in Nat
  OBVIOUS
<1>1. IsScan(F, s, S, n, Len(s))
  BY <1>0, ScanDef
<1> HIDE DEF F
<1>2. 0 \in G
  <2>1. F[0] = [left |-> <<>>, taken |-> <<>>]
    BY <1>0, <1>1 DEF IsScan
  <2>2. IsInjective(<<>>) /\ Range(<<>>) = {} /\ Len(<<>>) = 0 /\ <<>> \in Seq(T) /\ {s[j] : j \in 1..0} = {}
    BY DEF Range, IsInjective
  <2>3. F[0].left = <<>> /\ F[0].taken = <<>> /\ F[0] = [left |-> F[0].left, taken |-> F[0].taken]
    BY <2>1
  <2>4. ScanOK(F[0], s, S, n, T, 0)
    BY <2>2, <2>3 DEF ScanOK
  <2> QED
    BY <2>4
<1>3. ASSUME NEW i \in Nat, i \in G PROVE i + 1 \in G
  <2> SUFFICES ASSUME i + 1 \in 0..Len(s) PROVE ScanOK(F[i + 1], s, S, n, T, i + 1)
    OBVIOUS
  <2>1. i + 1 \in 1..Len(s) /\ i \in 0..Len(s) /\ (i + 1) - 1 = i
    BY <1>0
  <2>2. F[i + 1] = Step(F[i], s[i + 1], S, n)
    BY <1>0, <1>1, <2>1 DEF IsScan
  <2>3. ScanOK(F[i], s, S, n, T, i)
    BY <1>3, <2>1
  <2> QED
    BY <2>1, <2>2, <2>3, StepOK
<1> HIDE DEF G
<1>4. Nat \subseteq G
  BY <1>2, <1>3, Induct
<1> QED
  BY <1>4 DEF G, F

(* What unblock_all_blockers_whose_conditions_are_met_locked leaves and    *)
(* takes: together the blockers of the list, taken only if they qualify,   *)
(* never more than the limit; none that qualifies is left unless the limit *)
(* was reached.                                                            *)
LEMMA UnblockBlockersFacts ==
  ASSUME NEW T, NEW s \in Seq(T), NEW S, NEW n \in Nat
  PROVE  LET r == UnblockBlockers(s, S, n)
         IN  /\ r.left \in Seq(T) /\ r.taken \in Seq(T)
             /\ Len(r.left) + Len(r.taken) = Len(s)
             /\ Range(r.left) \cup Range(r.taken) = Range(s)
             /\ Range(r.taken) \subseteq S
             /\ Len(r.taken) <= n
             /\ Len(r.taken) < n => Range(r.left) \cap S = {}
             /\ IsInjective(s) => IsInjective(r.left)
<1> DEFINE r == UnblockBlockers(s, S, n)
<1>1. ScanOK(r, s, S, n, T, Len(s))
  BY ScanFacts DEF UnblockBlockers
<1>2. Range(s) = {s[j] : j \in 1..Len(s)}
  BY RangeEquality
<1> HIDE DEF r
<1> QED
  BY <1>1, <1>2 DEF ScanOK, r

(* remove_blocker takes out the one blocker and leaves the others.         *)
LEMMA RemoveBlockerFacts ==
  ASSUME NEW T, NEW s \in Seq(T), NEW b
  PROVE  /\ remove_blocker(s, b) \in Seq(T)
         /\ Range(remove_blocker(s, b)) = Range(s) \ {b}
         /\ IsInjective(s) => IsInjective(remove_blocker(s, b))
<1> DEFINE r == UnblockBlockers(s, {b}, Len(s))
<1>0. Len(s) \in Nat
  OBVIOUS
<1>1. /\ r.left \in Seq(T) /\ r.taken \in Seq(T)
      /\ Len(r.left) + Len(r.taken) = Len(s)
      /\ Range(r.left) \cup Range(r.taken) = Range(s)
      /\ Range(r.taken) \subseteq {b}
      /\ Len(r.taken) < Len(s) => Range(r.left) \cap {b} = {}
      /\ IsInjective(s) => IsInjective(r.left)
  BY <1>0, UnblockBlockersFacts
<1> HIDE DEF r
<1>2. Range(r.left) \cap {b} = {}
  <2>1. CASE Len(r.taken) < Len(s)
    BY <1>1, <2>1
  <2>2. CASE Len(r.taken) >= Len(s)
    <3>1. Len(r.left) \in Nat /\ Len(r.taken) \in Nat
      BY <1>1
    <3>2. Len(r.left) = 0
      <4>1. Len(r.left) + Len(r.taken) = Len(s)
        BY <1>1, Zenon
      <4>2. \A x, y, z \in Nat : x + y = z /\ y >= z => x = 0
        OBVIOUS
      <4> QED
        BY <4>1, <4>2, <1>0, <2>2, <3>1, Zenon
    <3>3. r.left = <<>>
      BY <1>1, <3>2, EmptySeq
    <3> QED
      BY <3>3 DEF Range
  <2> QED
    BY <1>0, <1>1, <2>1, <2>2
<1> QED
  BY <1>1, <1>2 DEF remove_blocker, r
=============================================================================
