---------------------------- MODULE MCSemaphore -----------------------------
(***************************************************************************)
(* The instance of Semaphore that TLC checks.  Threads are model values.   *)
(* There is no symmetry set: the instance checks liveness.                 *)
(***************************************************************************)
EXTENDS Semaphore
=============================================================================
