------------------------------ MODULE Payments -------------------------------
(***************************************************************************)
(* Recording payments against the invoices of a customer or the bills of a *)
(* vendor, beside edits of bills that await approval.  A payment locks the *)
(* documents of its allocations one after the other, in the order they are *)
(* sent, and holds each allocation against what committed payments have    *)
(* allocated to the document: its own allocations are in the database only *)
(* when it inserts the payment.                                            *)
(***************************************************************************)
EXTENDS Naturals

CONSTANTS
  Txns,          \* requests; each is served at most once
  Invoices, Bills,
  Totals,        \* totals a document may have
  Amounts,       \* amounts of payments and allocations
  MaxAllocs,     \* bound on the allocations of a payment
  AllowRepeats,  \* may one payment name a document twice?
  NoTxn

Docs   == Invoices \cup Bills
Series == {"customer", "vendor"}   \* Payment.payment_type

ASSUME PaymentsAssumption ==
  /\ Totals \subseteq Nat
  /\ Amounts \subseteq Nat \ {0}
  /\ MaxAllocs \in Nat
  /\ AllowRepeats \in BOOLEAN
  /\ Invoices \cap Bills = {}
  /\ Docs # {}
  /\ NoTxn \notin Txns

VARIABLES
  (* committed rows *)
  total,     \* total_amount of each document
  paid,      \* sum of the PaymentAllocation rows of each document
  count,     \* number of the Payment rows, per series
  numbers,   \* their numbers
  (* row locks *)
  lock,
  (* each request *)
  pc, kind,
  amount,    \* the payment's amount
  ask,       \* the allocation at hand: [doc, amount]
  alloc,     \* prepared_allocations, summed per document
  used,      \* allocated_total
  made,      \* number of allocations so far
  number

db   == <<total, paid, count, numbers>>
req  == <<kind, amount, ask, alloc, used, made, number>>
vars == <<total, paid, count, numbers, lock, pc, kind, amount, ask, alloc,
          used, made, number>>

Ended == {"idle", "committed", "aborted"}
PCs   == Ended \cup {"next", "lock", "check", "number", "insert", "post", "edit"}
None  == [d \in Docs |-> 0]

\* What a payment of t's type may be allocated to.
Targets(t) == IF kind[t] = "customer" THEN Invoices ELSE Bills

Init ==
  /\ total \in [Docs -> Totals]
  /\ paid = None
  /\ count = [s \in Series |-> 0]
  /\ numbers = [s \in Series |-> {}]
  /\ lock = [d \in Docs |-> NoTxn]
  /\ pc = [t \in Txns |-> "idle"]
  /\ kind \in [Txns -> Series \cup {"edit"}]
  /\ amount \in [Txns -> Amounts]
  /\ ask = [t \in Txns |-> [doc |-> CHOOSE d \in Docs : TRUE, amount |-> 0]]
  /\ alloc = [t \in Txns |-> None]
  /\ used = [t \in Txns |-> 0]
  /\ made = [t \in Txns |-> 0]
  /\ number = [t \in Txns |-> 0]
-----------------------------------------------------------------------------
Goto(t, label) == pc' = [pc EXCEPT ![t] = label]

Free(t, d) == lock[d] \in {NoTxn, t}

\* Mutant: a rolled back payment keeps its locks.
End_KeepsLocks(t, outcome) ==
  /\ Goto(t, outcome)
  /\ lock' = [d \in Docs |->
                IF lock[d] = t /\ outcome = "committed" THEN NoTxn ELSE lock[d]]

End(t, outcome) ==
  /\ Goto(t, outcome)
  /\ lock' = [d \in Docs |-> IF lock[d] = t THEN NoTxn ELSE lock[d]]

Abort(t) == End(t, "aborted") /\ UNCHANGED <<db, req>>

Begin(t) ==
  /\ pc[t] = "idle"
  /\ Goto(t, IF kind[t] = "edit" THEN "edit" ELSE "next")
  /\ UNCHANGED <<db, lock, req>>
-----------------------------------------------------------------------------
(***************************************************************************)
(* record_payment.                                                         *)
(***************************************************************************)
NextAllocation(t, d, n) ==
  /\ pc[t] = "next"
  /\ d \in Targets(t)
  /\ made[t] < MaxAllocs
  /\ AllowRepeats \/ alloc[t][d] = 0
  /\ ask' = [ask EXCEPT ![t] = [doc |-> d, amount |-> n]]
  /\ made' = [made EXCEPT ![t] = @ + 1]
  /\ Goto(t, "lock")
  /\ UNCHANGED <<db, lock, kind, amount, alloc, used, number>>

\* Mutant: the document is read without its lock.
LockDocument_Unlocked(t) ==
  /\ pc[t] = "lock"
  /\ Goto(t, "check")
  /\ UNCHANGED <<db, lock, req>>

\* get_by_id_for_update
LockDocument(t) ==
  LET d == ask[t].doc
  IN /\ pc[t] = "lock"
     /\ Free(t, d)
     /\ lock' = [lock EXCEPT ![d] = t]
     /\ Goto(t, "check")
     /\ UNCHANGED <<db, req>>

\* Mutant: only documents that are already settled are refused.
CheckBalance_Settled(t) ==
  LET d == ask[t].doc
      n == ask[t].amount
  IN /\ pc[t] = "check"
     /\ IF paid[d] >= total[d]
          THEN Abort(t)
          ELSE /\ alloc' = [alloc EXCEPT ![t][d] = @ + n]
               /\ used' = [used EXCEPT ![t] = @ + n]
               /\ Goto(t, "next")
               /\ UNCHANGED <<db, lock, kind, amount, ask, made, number>>

\* sum_allocated_for_...: a SELECT of its own, of the committed allocations.
CheckBalance(t) ==
  LET d == ask[t].doc
      n == ask[t].amount
  IN /\ pc[t] = "check"
     /\ IF paid[d] + n > total[d]
          THEN Abort(t)
          ELSE /\ alloc' = [alloc EXCEPT ![t][d] = @ + n]
               /\ used' = [used EXCEPT ![t] = @ + n]
               /\ Goto(t, "next")
               /\ UNCHANGED <<db, lock, kind, amount, ask, made, number>>

\* A payment need not be allocated in full, or at all.
EndAllocations(t) ==
  /\ pc[t] = "next"
  /\ IF used[t] > amount[t]
       THEN Abort(t)
       ELSE Goto(t, "number") /\ UNCHANGED <<db, lock, req>>

\* next_number: one more than the payments of the series.
TakeNumber(t) ==
  /\ pc[t] = "number"
  /\ number' = [number EXCEPT ![t] = count[kind[t]] + 1]
  /\ Goto(t, "insert")
  /\ UNCHANGED <<db, lock, kind, amount, ask, alloc, used, made>>

\* Requests with an uncommitted Payment row of t's number.
NumberHolders(t) ==
  {u \in Txns \ {t} : /\ pc[u] = "post"
                      /\ kind[u] = kind[t]
                      /\ number[u] = number[t]}

\* Mutant: the number is not unique.
InsertPayment_NotUnique(t) ==
  /\ pc[t] = "insert"
  /\ Goto(t, "post")
  /\ UNCHANGED <<db, lock, req>>

\* payment_repo.add: ux_payment_number makes the insertion wait for another
\* of the number, and refuses a number that is taken.
InsertPayment(t) ==
  /\ pc[t] = "insert"
  /\ NumberHolders(t) = {}
  /\ IF number[t] \in numbers[kind[t]]
       THEN Abort(t)
       ELSE Goto(t, "post") /\ UNCHANGED <<db, lock, req>>

\* The journal entry is posted and the route commits.
Commit(t) ==
  /\ pc[t] = "post"
  /\ paid' = [d \in Docs |-> paid[d] + alloc[t][d]]
  /\ count' = [count EXCEPT ![kind[t]] = @ + 1]
  /\ numbers' = [numbers EXCEPT ![kind[t]] = @ \cup {number[t]}]
  /\ End(t, "committed")
  /\ UNCHANGED <<total, req>>
-----------------------------------------------------------------------------
\* Mutant: the edit stores what is left to pay.
EditBill_Open(t, b, n) ==
  /\ pc[t] = "edit"
  /\ Free(t, b)
  /\ total' = [total EXCEPT ![b] = n - paid[b]]
  /\ End(t, "committed")
  /\ UNCHANGED <<paid, count, numbers, req>>

\* update_bill: new lines and a new total for a bill that awaits approval,
\* whatever has been paid; the UPDATE waits for a payment's lock.
EditBill(t, b, n) ==
  /\ pc[t] = "edit"
  /\ Free(t, b)
  /\ total' = [total EXCEPT ![b] = n]
  /\ End(t, "committed")
  /\ UNCHANGED <<paid, count, numbers, req>>

\* A later part of the request fails: its journal entry, a closed period.
Fail(t) == pc[t] \notin Ended /\ Abort(t)

WaitsFor(t, u) ==
  \/ pc[t] = "lock" /\ u # t /\ lock[ask[t].doc] = u
  \/ pc[t] = "insert" /\ u \in NumberHolders(t)

Deadlocked(t) ==
  \E D \in SUBSET Txns : t \in D /\ \A u \in D : \E v \in D : WaitsFor(u, v)

DeadlockVictim(t) == pc[t] \notin Ended /\ Deadlocked(t) /\ Abort(t)

Step(t) ==
  \/ \E d \in Docs, n \in Amounts : NextAllocation(t, d, n)
  \/ LockDocument(t) \/ CheckBalance(t) \/ EndAllocations(t)
  \/ TakeNumber(t) \/ InsertPayment(t) \/ Commit(t)
  \/ \E b \in Bills, n \in Totals : EditBill(t, b, n)
  \/ DeadlockVictim(t)

Next == \E t \in Txns : Begin(t) \/ Step(t) \/ Fail(t)

Spec == Init /\ [][Next]_vars

\* A request being served goes on: its coroutine runs, PostgreSQL grants what
\* stays free and breaks a wait cycle.
FairSpec == Spec /\ \A t \in Txns : WF_vars(Step(t))
-----------------------------------------------------------------------------
TypeOK ==
  /\ total \in [Docs -> Nat]
  /\ paid \in [Docs -> Nat]
  /\ count \in [Series -> Nat]
  /\ numbers \in [Series -> SUBSET Nat]
  /\ lock \in [Docs -> Txns \cup {NoTxn}]
  /\ pc \in [Txns -> PCs]
  /\ kind \in [Txns -> Series \cup {"edit"}]
  /\ amount \in [Txns -> Nat]
  /\ ask \in [Txns -> [doc : Docs, amount : Nat]]
  /\ alloc \in [Txns -> [Docs -> Nat]]
  /\ used \in [Txns -> Nat]
  /\ made \in [Txns -> Nat]
  /\ number \in [Txns -> Nat]

\* However payments interleave, an invoice is never paid beyond its total.
InvoicesWithinTotal == \A i \in Invoices : paid[i] <= total[i]

\* The payments of a series are numbered 1, 2, 3, ... as they commit, although
\* a number is counted long before it is inserted.
NumbersWithoutGap ==
  \A s \in Series : numbers[s] = 1 .. count[s]

\* Every payment settles its documents at once, within the totals they have
\* at that moment; an edit of a bill waits for it.
Settled == INSTANCE Settlement
RefinesSettlement == Settled!Spec

\* Every request that is being served ends, though payments lock documents
\* in the order they are sent and wait for each other's numbers.
EveryRequestEnds == \A t \in Txns : pc[t] \notin Ended ~> pc[t] \in Ended
=============================================================================
