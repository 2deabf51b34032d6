--------------------------- MODULE MCPthreadMutex ---------------------------
(***************************************************************************)
(* The instances of PthreadMutex that TLC checks.                          *)
(***************************************************************************)
EXTENDS PthreadMutex, TLC

Symmetry == Permutations(Thread)
=============================================================================
