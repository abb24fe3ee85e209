------------------------------ MODULE MCRetry -------------------------------
(***************************************************************************)
(* The instances of MCProvider for ProviderRetry.                          *)
(***************************************************************************)
EXTENDS MCProvider, ProviderRetry
=============================================================================
