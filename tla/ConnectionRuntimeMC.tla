------------------------ MODULE ConnectionRuntimeMC ------------------------
(***************************************************************************)
(* Model-checking instance of ConnectionRuntime with model values.  The    *)
(* two ids differ in what may happen to them, and liveness is checked, so  *)
(* symmetry is not used.                                                   *)
(***************************************************************************)
EXTENDS ConnectionRuntime
=============================================================================
