------------------------ MODULE ProviderConnectorMC ------------------------
(***************************************************************************)
(* Model-checking instance of ProviderConnector.                           *)
(***************************************************************************)
EXTENDS ProviderConnector
=============================================================================
