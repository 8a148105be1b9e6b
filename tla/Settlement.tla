----------------------------- MODULE Settlement ------------------------------
(***************************************************************************)
(* What recording payments promises: a payment settles some documents of   *)
(* its series at once, none beyond its total, under the next number of the *)
(* series; only bills, which may be edited, ever change their total.       *)
(***************************************************************************)
EXTENDS Naturals

CONSTANTS Invoices, Bills, Totals

VARIABLES total, paid,
          numbers   \* series -> the numbers of its payments

vars == <<total, paid, numbers>>

Docs == Invoices \cup Bills

Init ==
  /\ total \in [Docs -> Totals]
  /\ paid = [d \in Docs |-> 0]
  /\ numbers = [s \in {"customer", "vendor"} |-> {}]

Pay(s, n) ==
  /\ n \notin numbers[s]
  /\ n = 1 \/ n - 1 \in numbers[s]
  /\ numbers' = [numbers EXCEPT ![s] = @ \cup {n}]
  /\ \A d \in Docs : \/ paid'[d] = paid[d]
                     \/ /\ d \in (IF s = "customer" THEN Invoices ELSE Bills)
                        /\ paid'[d] \in paid[d] .. total[d]
  /\ UNCHANGED total

Edit(b, n) ==
  /\ total' = [total EXCEPT ![b] = n]
  /\ UNCHANGED <<paid, numbers>>

Next ==
  \/ \E s \in {"customer", "vendor"} : \E n \in numbers'[s] :
       paid' \in [Docs -> Nat] /\ Pay(s, n)
  \/ \E b \in Bills, n \in Totals : Edit(b, n)

Spec == Init /\ [][Next]_vars
=============================================================================
