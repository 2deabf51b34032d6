------------------------------ MODULE MCFutex -------------------------------
(***************************************************************************)
(* The instances of Futex that TLC checks.                                 *)
(***************************************************************************)
EXTENDS Futex, TLC

CONSTANTS t1, t2, t3, p1, p2, b1, b2

(* Two threads of one process and one of another share the futex.          *)
TwoAndOne == [t \in Thread |-> IF t = t3 THEN p2 ELSE p1]

TwoBits == {b1, b2}
AllBits == {{b1, b2}}
FirstBit == {{b1}}
AnyBits == {{b1}, {b2}, {b1, b2}}

Symmetry == Permutations(Queue) \cup Permutations({t1, t2})
=============================================================================
