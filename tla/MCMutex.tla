------------------------------ MODULE MCMutex -------------------------------
(***************************************************************************)
(* The instance of Mutex that TLC checks.  Threads are model values.       *)
(* There is no symmetry set: the instance checks liveness.                 *)
(***************************************************************************)
EXTENDS Mutex
=============================================================================
