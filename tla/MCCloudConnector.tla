-------------------------- MODULE MCCloudConnector --------------------------
(* CloudConnector for TLC. *)
EXTENDS CloudConnector, TLC
=============================================================================
