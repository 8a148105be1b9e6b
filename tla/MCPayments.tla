----------------------------- MODULE MCPayments ------------------------------
(***************************************************************************)
(* The instance of Payments that TLC checks.                               *)
(***************************************************************************)
EXTENDS Payments
=============================================================================
