---------------------------- MODULE MCJobLedger ----------------------------
(* JobLedger for TLC. *)
EXTENDS JobLedger, TLC
=============================================================================
