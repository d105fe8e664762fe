----------------------------- MODULE MCPayments -----------------------------
(* Payments for TLC: customers are interchangeable. *)
EXTENDS Payments, TLC

=============================================================================
