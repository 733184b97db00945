------------------------ MODULE IntegrationManagerMC ------------------------
(***************************************************************************)
(* Model-checking instance of IntegrationManager: model values for ids,    *)
(* tasks and connectors.  The three ids differ in what may happen to them, *)
(* and liveness is checked, so symmetry is not used.                       *)
(***************************************************************************)
EXTENDS IntegrationManager

(* One status connect accepts, one it accepts as impaired, one it rejects. *)
SomeAnswers == {"connected", "degraded", "error"}
=============================================================================
