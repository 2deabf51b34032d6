--------------------------- MODULE MCPthreadCond ---------------------------
(***************************************************************************)
(* The instances of PthreadCond that TLC checks.                           *)
(***************************************************************************)
EXTENDS PthreadCond, TLC

Symmetry == Permutations(Thread)
=============================================================================
