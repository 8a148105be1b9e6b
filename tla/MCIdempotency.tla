---------------------------- MODULE MCIdempotency ----------------------------
(***************************************************************************)
(* The instance of Idempotency that TLC checks.                            *)
(***************************************************************************)
EXTENDS Idempotency

=============================================================================
