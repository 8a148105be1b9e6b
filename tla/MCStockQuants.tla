---------------------------- MODULE MCStockQuants ----------------------------
(***************************************************************************)
(* The instance of StockQuants that TLC checks.                            *)
(***************************************************************************)
EXTENDS StockQuants
=============================================================================
