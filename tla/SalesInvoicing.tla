--------------------------- MODULE SalesInvoicing ---------------------------
(***************************************************************************)
(* One confirmed sales order, and the requests that invoice it, edit it    *)
(* and cancel it concurrently.  Every request is one PostgreSQL            *)
(* transaction at READ COMMITTED: its SELECTs see the committed rows of    *)
(* the moment, its SELECT ... FOR UPDATE, UPDATE and DELETE wait for the   *)
(* row lock of another request, and its writes become visible to others    *)
(* when the route commits.  The session does not autoflush and keeps the   *)
(* objects it has read, so what a request decides on is its own copy of a  *)
(* row (seenStatus, seen) until a query refreshes the copy.                *)
(***************************************************************************)
EXTENDS Naturals, FiniteSetsExt

CONSTANTS
  Txns,          \* requests; each is served at most once
  Lines,         \* the lines the order was confirmed with
  OrderQtys,     \* quantities a line may order
  AskQtys,       \* quantities an invoicing request may ask for
  Kinds,         \* which operations the requests may be
  AllowRepeats,  \* may one request name the same line twice?
  OrderRow,      \* the row of the order itself
  NoTxn, NoRow

\* The one line that stands for the lines an edit by t inserts is named t.
LineIds == Lines \cup Txns
Rows    == LineIds \cup {OrderRow}

AllKinds == {"issue_all", "issue_some", "update", "cancel"}

ASSUME ConstantsAssumption ==
  /\ OrderQtys \subseteq Nat \ {0}
  /\ OrderQtys # {}
  /\ AskQtys \subseteq Nat
  /\ 0 \in AskQtys
  /\ Kinds \subseteq AllKinds
  /\ AllowRepeats \in BOOLEAN
  /\ Lines \cap Txns = {}
  /\ OrderRow \notin LineIds
  /\ NoTxn \notin Txns
  /\ NoRow \notin Rows

VARIABLES
  (* committed rows *)
  status,      \* SalesOrder.status
  live,        \* the SalesOrderLine rows that exist
  qty,         \* SalesOrderLine.qty, 0 for a row never inserted
  invoiced,    \* SalesOrderLine.qty_invoiced
  invoices,    \* SalesInvoice rows with the lines they bill
  (* row locks *)
  lock,        \* row -> the transaction that holds its lock
  want,        \* transaction -> the row it waits for
  (* session of each request *)
  pc, kind,
  seenStatus,  \* its copy of order.status
  rows,        \* the line rows its last line query returned
  seen,        \* its copies of qty_invoiced
  ask,         \* quantity asked for on the line it waits for
  pick,        \* quantity selected so far, per line ("selected")
  number,      \* the invoice number next_number() returned
  (* history *)
  overlapped   \* has an edit or cancellation been open beside a request?

db      == <<status, live, qty, invoiced, invoices>>
session == <<kind, seenStatus, rows, seen, ask, pick, number, overlapped>>
vars    == <<status, live, qty, invoiced, invoices, lock, want, pc, kind,
             seenStatus, rows, seen, ask, pick, number, overlapped>>

Statuses == {"confirmed", "partially_invoiced", "done", "cancelled"}
Ended    == {"idle", "committed", "aborted"}
PCs      == Ended \cup {"lines", "select", "locking", "number", "insert",
                        "delete", "deleting", "flush", "order_row", "commit"}

Issuing(t) == kind[t] \in {"issue_all", "issue_some"}
Zero       == [l \in LineIds |-> 0]
Numbers    == {i.number : i \in invoices}
Open(t)    == pc[t] \notin Ended

Init ==
  /\ status = "confirmed"
  /\ live = Lines
  /\ \E f \in [Lines -> OrderQtys] :
       qty = [l \in LineIds |-> IF l \in Lines THEN f[l] ELSE 0]
  /\ invoiced = Zero
  /\ invoices = {}
  /\ lock = [r \in Rows |-> NoTxn]
  /\ want = [t \in Txns |-> NoRow]
  /\ pc = [t \in Txns |-> "idle"]
  /\ kind \in [Txns -> Kinds]
  /\ seenStatus = [t \in Txns |-> "confirmed"]
  /\ rows = [t \in Txns |-> {}]
  /\ seen = [t \in Txns |-> Zero]
  /\ ask = [t \in Txns |-> 0]
  /\ pick = [t \in Txns |-> Zero]
  /\ number = [t \in Txns |-> 0]
  /\ overlapped = FALSE
-----------------------------------------------------------------------------
(***************************************************************************)
(* Transactions: a step of t moves its pc; ending the transaction, either  *)
(* way, releases every row lock it holds.                                  *)
(***************************************************************************)
Goto(t, label) == pc' = [pc EXCEPT ![t] = label]

Free(t, r) == lock[r] \in {NoTxn, t}

\* Mutant: a rolled back request keeps its row locks.
End_KeepsLocks(t, outcome) ==
  /\ Goto(t, outcome)
  /\ lock' = [r \in Rows |->
                IF lock[r] = t /\ outcome = "committed" THEN NoTxn ELSE lock[r]]
  /\ want' = [want EXCEPT ![t] = NoRow]

End(t, outcome) ==
  /\ Goto(t, outcome)
  /\ lock' = [r \in Rows |-> IF lock[r] = t THEN NoTxn ELSE lock[r]]
  /\ want' = [want EXCEPT ![t] = NoRow]

\* An exception leaves get_db's session to roll back: nothing is written.
Abort(t) == End(t, "aborted") /\ UNCHANGED <<db, session>>

\* Mutant: a cancelled order can still be invoiced.
Gate_Cancelled(k) == IF k \in {"issue_all", "issue_some"}
             THEN {"confirmed", "partially_invoiced", "cancelled"}
             ELSE {"confirmed"}

\* Statuses from which the operation is admitted.
Gate(k) == IF k \in {"issue_all", "issue_some"}
             THEN {"confirmed", "partially_invoiced"}
             ELSE {"confirmed"}

\* Is t, or a request open beside it, an edit or a cancellation?
Overlaps(t) == \E u \in Txns \ {t} : Open(u) /\ ~(Issuing(t) /\ Issuing(u))

\* order_repo.get_by_id: a plain SELECT, then the status check.
ReadOrder(t) ==
  /\ pc[t] = "idle"
  /\ IF status \in Gate(kind[t])
       THEN /\ Goto(t, "lines")
            /\ seenStatus' = [seenStatus EXCEPT ![t] = status]
            /\ overlapped' = (overlapped \/ Overlaps(t))
            /\ UNCHANGED <<db, lock, want, kind, rows, seen, ask, pick,
                           number>>
       ELSE Abort(t)

\* order_repo.get_lines: a plain SELECT; editing and cancelling stop when
\* any line has been invoiced.
ReadLines(t) ==
  /\ pc[t] = "lines"
  /\ IF ~Issuing(t) /\ \E l \in live : invoiced[l] > 0
       THEN Abort(t)
       ELSE /\ rows' = [rows EXCEPT ![t] = live]
            /\ seen' = [seen EXCEPT ![t] = invoiced]
            /\ Goto(t, IF Issuing(t) THEN "select"
                       ELSE IF kind[t] = "update" THEN "delete" ELSE "flush")
            /\ UNCHANGED <<db, lock, want, kind, overlapped,
                           seenStatus, ask, pick, number>>
-----------------------------------------------------------------------------
(***************************************************************************)
(* issue_invoice_from_order: lines are locked one at a time, in the order  *)
(* the request lists them, or in the order get_lines returned them.        *)
(***************************************************************************)
AskLine(t, l, q) ==
  /\ pc[t] = "select"
  /\ Issuing(t)
  /\ l \in rows[t]
  /\ lock[l] = t => AllowRepeats /\ kind[t] = "issue_some"
  /\ kind[t] = "issue_all" => q = 0
  /\ want' = [want EXCEPT ![t] = l]
  /\ ask' = [ask EXCEPT ![t] = q]
  /\ Goto(t, "locking")
  /\ UNCHANGED <<db, lock, kind, overlapped, seenStatus, rows, seen,
                 pick, number>>

\* What the locked line contributes to the invoice, given how much of it is
\* still to be invoiced according to the refreshed copy.
Selected(t, remaining) ==
  IF kind[t] = "issue_some" THEN ask[t]
  ELSE IF remaining > 0 THEN remaining ELSE 0

Excessive(t, remaining) ==
  kind[t] = "issue_some" /\ ask[t] > 0 /\ ask[t] > remaining

\* Mutant: populate_existing is missing, the copy stays as get_lines read it.
LockLine_StaleCopy(t) ==
  /\ pc[t] = "locking"
  /\ Free(t, want[t])
  /\ LET l == want[t]
         remaining == qty[l] - seen[t][l]
     IN IF l \notin live \/ Excessive(t, remaining)
          THEN Abort(t)
          ELSE /\ lock' = [lock EXCEPT ![l] = t]
               /\ want' = [want EXCEPT ![t] = NoRow]
               /\ pick' = [pick EXCEPT ![t][l] = @ + Selected(t, remaining)]
               /\ Goto(t, "select")
               /\ UNCHANGED <<db, kind, overlapped, seenStatus, rows,
                              seen, ask, number>>

\* get_line_by_id_for_update with populate_existing: the copy is refreshed
\* from the row once the lock is granted.  A line an edit has deleted comes
\* back as None and the request fails on it.
LockLine(t) ==
  /\ pc[t] = "locking"
  /\ Free(t, want[t])
  /\ LET l == want[t]
         remaining == qty[l] - invoiced[l]
     IN IF l \notin live \/ Excessive(t, remaining)
          THEN Abort(t)
          ELSE /\ lock' = [lock EXCEPT ![l] = t]
               /\ want' = [want EXCEPT ![t] = NoRow]
               /\ seen' = [seen EXCEPT ![t][l] = invoiced[l]]
               /\ pick' = [pick EXCEPT ![t][l] = @ + Selected(t, remaining)]
               /\ Goto(t, "select")
               /\ UNCHANGED <<db, kind, overlapped, seenStatus, rows,
                              ask, number>>

\* The loop over the lines ends; an empty selection is refused.
EndSelection(t) ==
  /\ pc[t] = "select"
  /\ kind[t] = "issue_all" => \A l \in rows[t] : lock[l] = t
  /\ IF \E l \in LineIds : pick[t][l] > 0
       THEN Goto(t, "number") /\ UNCHANGED <<db, lock, want, session>>
       ELSE Abort(t)

\* invoice_repo.next_number: one more than the highest committed number.
TakeNumber(t) ==
  /\ pc[t] = "number"
  /\ \E n \in Numbers \cup {0} :
       /\ \A m \in Numbers : m <= n
       /\ number' = [number EXCEPT ![t] = n + 1]
  /\ Goto(t, "insert")
  /\ UNCHANGED <<db, lock, want, kind, overlapped, seenStatus, rows,
                 seen, ask, pick>>

\* Transactions whose invoice row is inserted and not yet committed.
Inserted(t) == Issuing(t) /\ pc[t] \in {"flush", "order_row", "commit"}

\* The unique index makes an INSERT of a number another open transaction
\* has inserted wait for that transaction's outcome.
NumberHolders(t) == {u \in Txns \ {t} : Inserted(u) /\ number[u] = number[t]}

\* Mutant: no unique index on the number.
InsertInvoice_NotUnique(t) ==
  /\ pc[t] = "insert"
  /\ Goto(t, "flush")
  /\ UNCHANGED <<db, lock, want, session>>

\* invoice_repo.add: the INSERT either takes the number or is refused as a
\* concurrent duplicate.
InsertInvoice(t) ==
  /\ pc[t] = "insert"
  /\ NumberHolders(t) = {}
  /\ IF number[t] \in Numbers
       THEN Abort(t)
       ELSE Goto(t, "flush") /\ UNCHANGED <<db, lock, want, session>>
-----------------------------------------------------------------------------
(***************************************************************************)
(* update_order: DELETE FROM sales_order_line WHERE sales_order_id = ...   *)
(* meets the rows committed when it starts, and waits for each locked one. *)
(***************************************************************************)
StartDelete(t) ==
  /\ pc[t] = "delete"
  /\ rows' = [rows EXCEPT ![t] = live]
  /\ Goto(t, "deleting")
  /\ UNCHANGED <<db, lock, want, kind, overlapped, seenStatus, seen,
                 ask, pick, number>>

DeleteNext(t, l) ==
  /\ pc[t] = "deleting"
  /\ want[t] = NoRow
  /\ l \in rows[t] \cap live
  /\ lock[l] # t
  /\ want' = [want EXCEPT ![t] = l]
  /\ UNCHANGED <<db, lock, pc, session>>

\* A row another edit deleted meanwhile is skipped.
DeleteLine(t) ==
  /\ pc[t] = "deleting"
  /\ want[t] # NoRow
  /\ Free(t, want[t])
  /\ lock' = IF want[t] \in live THEN [lock EXCEPT ![want[t]] = t] ELSE lock
  /\ want' = [want EXCEPT ![t] = NoRow]
  /\ UNCHANGED <<db, pc, session>>

EndDelete(t) ==
  /\ pc[t] = "deleting"
  /\ want[t] = NoRow
  /\ \A l \in rows[t] \cap live : lock[l] = t
  /\ Goto(t, "flush")
  /\ UNCHANGED <<db, lock, want, session>>
-----------------------------------------------------------------------------
(***************************************************************************)
(* The order row and the commit.                                           *)
(***************************************************************************)
\* Mutant: a status the column does not know.
InvoicedStatus_Unknown(t) ==
  IF \A l \in rows[t] : seen[t][l] + pick[t][l] >= qty[l]
    THEN "invoiced" ELSE "partially_invoiced"

\* The status the invoicing request computes from its copies of the lines:
\* fresh for those it locked, as old as its get_lines for the others.
InvoicedStatus(t) ==
  IF \A l \in rows[t] : seen[t][l] + pick[t][l] >= qty[l]
    THEN "done" ELSE "partially_invoiced"

\* The ORM emits an UPDATE only for an attribute whose value it changed.
TouchesOrder(t) == Issuing(t) => InvoicedStatus(t) # seenStatus[t]

FlushOrder(t) ==
  /\ pc[t] = "flush"
  /\ want' = [want EXCEPT ![t] = IF TouchesOrder(t) THEN OrderRow ELSE NoRow]
  /\ Goto(t, IF TouchesOrder(t) THEN "order_row" ELSE "commit")
  /\ UNCHANGED <<db, lock, session>>

LockOrder(t) ==
  /\ pc[t] = "order_row"
  /\ Free(t, OrderRow)
  /\ lock' = [lock EXCEPT ![OrderRow] = t]
  /\ want' = [want EXCEPT ![t] = NoRow]
  /\ Goto(t, "commit")
  /\ UNCHANGED <<db, session>>

Bill(t) == [number |-> number[t], lines |-> pick[t]]

\* Mutant: qty_invoiced is written from the copies of every line, those the
\* request did not lock included.
CommitIssue_AllLines(t) ==
  /\ pc[t] = "commit"
  /\ Issuing(t)
  /\ invoiced' = [l \in LineIds |->
                    IF l \in rows[t] THEN seen[t][l] + pick[t][l]
                                     ELSE invoiced[l]]
  /\ invoices' = invoices \cup {Bill(t)}
  /\ status' = IF TouchesOrder(t) THEN InvoicedStatus(t) ELSE status
  /\ End(t, "committed")
  /\ UNCHANGED <<live, qty, session>>

\* The absolute values the ORM flushed, made visible by the commit.
CommitIssue(t) ==
  /\ pc[t] = "commit"
  /\ Issuing(t)
  /\ invoiced' = [l \in LineIds |->
                    IF pick[t][l] > 0 THEN seen[t][l] + pick[t][l]
                                      ELSE invoiced[l]]
  /\ invoices' = invoices \cup {Bill(t)}
  /\ status' = IF TouchesOrder(t) THEN InvoicedStatus(t) ELSE status
  /\ End(t, "committed")
  /\ UNCHANGED <<live, qty, session>>

\* The edited order has the new line and none of the deleted ones.
CommitUpdate(t) ==
  /\ pc[t] = "commit"
  /\ kind[t] = "update"
  /\ live' = (live \ {l \in rows[t] : lock[l] = t}) \cup {t}
  /\ \E q \in OrderQtys : qty' = [qty EXCEPT ![t] = q]
  /\ End(t, "committed")
  /\ UNCHANGED <<status, invoiced, invoices, session>>

CommitCancel(t) ==
  /\ pc[t] = "commit"
  /\ kind[t] = "cancel"
  /\ status' = "cancelled"
  /\ End(t, "committed")
  /\ UNCHANGED <<live, qty, invoiced, invoices, session>>
-----------------------------------------------------------------------------
(***************************************************************************)
(* Failures.  A request may fail at any of its later steps (stock short,   *)
(* period closed, clearance gateway down, connection lost); PostgreSQL     *)
(* aborts a transaction of a wait cycle.                                   *)
(***************************************************************************)
Fail(t) == pc[t] \notin Ended /\ Abort(t)

WaitsFor(t, u) ==
  \/ want[t] # NoRow /\ u # t /\ lock[want[t]] = u
  \/ pc[t] = "insert" /\ u \in NumberHolders(t)

Deadlocked(t) ==
  \E D \in SUBSET Txns :
    /\ t \in D
    /\ \A u \in D : \E v \in D : WaitsFor(u, v)

DeadlockVictim(t) == pc[t] \notin Ended /\ Deadlocked(t) /\ Abort(t)

Commit(t) == CommitIssue(t) \/ CommitUpdate(t) \/ CommitCancel(t)

Step(t) ==
  \/ ReadLines(t)
  \/ \E l \in LineIds, q \in AskQtys : AskLine(t, l, q)
  \/ LockLine(t) \/ EndSelection(t) \/ TakeNumber(t) \/ InsertInvoice(t)
  \/ StartDelete(t) \/ (\E l \in LineIds : DeleteNext(t, l))
  \/ DeleteLine(t) \/ EndDelete(t)
  \/ FlushOrder(t) \/ LockOrder(t) \/ Commit(t)
  \/ DeadlockVictim(t)

Next == \E t \in Txns : ReadOrder(t) \/ Step(t) \/ Fail(t)

Spec == Init /\ [][Next]_vars

\* A request being served goes on: asyncio runs its coroutine, PostgreSQL
\* grants a lock that stays free and breaks a wait cycle.
FairSpec == Spec /\ \A t \in Txns : WF_vars(Step(t))
-----------------------------------------------------------------------------
(***************************************************************************)
(* Properties.                                                             *)
(***************************************************************************)
\* The kinds of values the rows and the sessions hold.
TypeOK ==
  /\ status \in Statuses
  /\ live \subseteq LineIds
  /\ qty \in [LineIds -> Nat]
  /\ invoiced \in [LineIds -> Nat]
  /\ invoices \subseteq [number : Nat, lines : [LineIds -> Nat]]
  /\ lock \in [Rows -> Txns \cup {NoTxn}]
  /\ want \in [Txns -> Rows \cup {NoRow}]
  /\ pc \in [Txns -> PCs]
  /\ kind \in [Txns -> AllKinds]
  /\ seenStatus \in [Txns -> Statuses]
  /\ rows \in [Txns -> SUBSET LineIds]
  /\ seen \in [Txns -> [LineIds -> Nat]]
  /\ ask \in [Txns -> Nat]
  /\ pick \in [Txns -> [LineIds -> Nat]]
  /\ number \in [Txns -> Nat]
  /\ overlapped \in BOOLEAN

\* What the issued invoices bill of line l.
Billed(l) == SumFunction([i \in invoices |-> i.lines[l]])

\* However requests interleave, the invoices of a line never add up to more
\* than it orders: the row lock and the refreshed copy it returns are enough.
NotOverInvoiced == \A l \in LineIds : Billed(l) <= qty[l]

\* qty_invoiced is what the issued invoices bill: no increment is lost and
\* none is recorded for an invoice that was rolled back.
InvoicedIsBilled == \A l \in LineIds : invoiced[l] = Billed(l)

\* Invoice numbers are unique and leave no gap, although a number is read
\* long before it is inserted and any request may roll back in between.
NumbersWithoutGap ==
  /\ Numbers = 1 .. Cardinality(invoices)
  /\ \A i, j \in invoices : i.number = j.number => i = j

\* As long as no edit or cancellation is open beside another request, the
\* order, its lines and its invoices evolve as if every request took effect
\* at once, when it commits, or not at all, however the invoicing requests
\* interleave: nothing invoiced is rewritten or cancelled, and an order is
\* done only when every line is invoiced in full.
Ledger == INSTANCE OrderLedger
RefinesLedger ==
  /\ Ledger!Init
  /\ [][overlapped' \/ Ledger!Next]_(Ledger!vars)

\* Every request that is being served ends, committed or rolled back:
\* waiting for rows and numbers never blocks it forever.
EveryRequestEnds == \A t \in Txns : pc[t] \notin Ended ~> pc[t] \in Ended

\* The order says it is partially invoiced only while something remains.
StatusReflectsFulfilment ==
  status = "partially_invoiced" => \E l \in live : invoiced[l] < qty[l]

\* An edit never rewrites what has been invoiced: a line that invoices bill
\* stays a line of the order.
InvoicedLinesStay ==
  [][\A l \in live : invoiced[l] > 0 => l \in live']_vars
=============================================================================
