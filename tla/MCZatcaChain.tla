---------------------------- MODULE MCZatcaChain -----------------------------
(***************************************************************************)
(* The instance of ZatcaChain that TLC checks.                             *)
(***************************************************************************)
EXTENDS ZatcaChain
=============================================================================
