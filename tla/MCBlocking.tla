----------------------------- MODULE MCBlocking -----------------------------
(***************************************************************************)
(* The instances of Blocking that TLC checks.                              *)
(***************************************************************************)
EXTENDS Blocking

ThreadSymmetry == Permutations(Thread)
=============================================================================
