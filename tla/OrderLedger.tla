----------------------------- MODULE OrderLedger -----------------------------
(***************************************************************************)
(* What a sales order promises once it is confirmed: every invoice takes   *)
(* effect in one step, within what its lines still allow, under the number *)
(* that follows one already in use; the order is edited or cancelled only  *)
(* while nothing of it has been invoiced.                                  *)
(***************************************************************************)
EXTENDS Naturals

CONSTANTS LineIds,    \* every line the order may ever have
          Lines,      \* the lines it was confirmed with
          OrderQtys   \* quantities a line may order

VARIABLES status, live, qty, invoiced, invoices

vars == <<status, live, qty, invoiced, invoices>>

Numbers == {i.number : i \in invoices}

Untouched == status = "confirmed" /\ \A l \in live : invoiced[l] = 0

Init ==
  /\ status = "confirmed"
  /\ live = Lines
  /\ qty \in [LineIds -> OrderQtys \cup {0}]
  /\ invoiced = [l \in LineIds |-> 0]
  /\ invoices = {}

\* The invoice i bills i.lines[l] of each line l of the order.  An order that
\* is done has been invoiced in full.
Issue(i) ==
  /\ status \in {"confirmed", "partially_invoiced"}
  /\ \E l \in LineIds : i.lines[l] > 0
  /\ \A l \in LineIds :
       i.lines[l] > 0 => l \in live /\ invoiced[l] + i.lines[l] <= qty[l]
  /\ i.number \notin Numbers
  /\ i.number = 1 \/ \E m \in Numbers : i.number = m + 1
  /\ invoiced' = [l \in LineIds |-> invoiced[l] + i.lines[l]]
  /\ \/ status' = "partially_invoiced"
     \/ status' = "done" /\ \A l \in live : invoiced'[l] = qty[l]
  /\ UNCHANGED <<live, qty>>

\* An edit replaces every line of an order of which nothing is invoiced.
Replace(l, q) ==
  /\ Untouched
  /\ qty[l] = 0
  /\ live' = {l}
  /\ qty' = [qty EXCEPT ![l] = q]
  /\ UNCHANGED <<status, invoiced, invoices>>

Cancel ==
  /\ Untouched
  /\ status' = "cancelled"
  /\ UNCHANGED <<live, qty, invoiced, invoices>>

Next ==
  \/ \E i \in invoices' : invoices' = invoices \cup {i} /\ Issue(i)
  \/ \E l \in LineIds, q \in OrderQtys : Replace(l, q)
  \/ Cancel

Spec == Init /\ [][Next]_vars
=============================================================================
