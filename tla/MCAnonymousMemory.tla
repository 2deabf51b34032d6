-------------------------- MODULE MCAnonymousMemory --------------------------
(***************************************************************************)
(* The instances of AnonymousMemory that TLC checks.                       *)
(***************************************************************************)
EXTENDS AnonymousMemory, TLC

Symmetry == Permutations(Page) \cup Permutations(Object) \cup Permutations(Index)
              \cup Permutations(Thread)
=============================================================================
