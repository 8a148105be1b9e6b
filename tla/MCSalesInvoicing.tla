-------------------------- MODULE MCSalesInvoicing --------------------------
(***************************************************************************)
(* The instance of SalesInvoicing that TLC checks.                         *)
(***************************************************************************)
EXTENDS SalesInvoicing
=============================================================================
