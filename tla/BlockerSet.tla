----------------------------- MODULE BlockerSet -----------------------------
(***************************************************************************)
(* The list m_blockers of a Thread::BlockerSet (Kernel/Tasks/Thread.h):    *)
(* what the two operations that take blockers out of it leave there.       *)
(***************************************************************************)
EXTENDS Naturals, Sequences

(* unblock_all_blockers_whose_conditions_are_met_locked, with a callback   *)
(* that unblocks the blockers in S and stops after n of them, as those of  *)
(* the wake functions do: what is left of the first i blockers, and which  *)
(* of them it took.                                                        *)
Scan(s, S, n) ==
    LET F[i \in 0..Len(s)] ==
          IF i = 0 THEN [left |-> <<>>, taken |-> <<>>]
          ELSE IF s[i] \in S /\ Len(F[i - 1].taken) < n
               THEN [left |-> F[i - 1].left, taken |-> Append(F[i - 1].taken, s[i])]
               ELSE [left |-> Append(F[i - 1].left, s[i]), taken |-> F[i - 1].taken]
    IN  F

UnblockBlockers(s, S, n) == Scan(s, S, n)[Len(s)]

(* remove_blocker, which removes all entries that match.                   *)
remove_blocker(s, b) == UnblockBlockers(s, {b}, Len(s)).left
=============================================================================
