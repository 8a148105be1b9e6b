-------------------------------- MODULE Trade --------------------------------
(***************************************************************************)
(* The documents of trade from quotation to payment: what QuotationService, *)
(* SalesInvoiceService, PaymentService and the posting half of the vendor  *)
(* bills record, with the amounts they post to the control accounts and    *)
(* the commission they earn.                                               *)
(*                                                                         *)
(* Each request is one step here; how requests on one order, one payment   *)
(* target or one bill interleave is the matter of SalesInvoicing, Payments *)
(* and Purchasing.  Money is in hundredths, prices in ten-thousandths,     *)
(* rates in hundredths of a percent, dates in days.                        *)
(***************************************************************************)
EXTENDS Decimals, SequencesExt

CONSTANTS
  Customers, Vendors, Reps,
  Partner,       \* of a customer: [vat |-> registered?, days |-> credit_days, rep |-> default]
  VendorDays,    \* vendor_credit_days
  Dates,         \* days on which something happens
  Offers,        \* payloads of quotations and orders: [partner, date, lines, rep]
  Returned,      \* lines of returns: a set of sequences
  TaxPercent,    \* of a tax rate
  Rates,         \* commission rates a representative may be given
  BillSubtotals, \* what a vendor bill or a return without a bill may amount to
  VatPercent,    \* of bills
  Receipts,      \* payloads of payments: [date, amount, rep]
  MaxQuotations, MaxDocuments, MaxMixed, MaxInvoices, MaxBills, MaxPayments,   \* bounds
  None

ASSUME TradeAssumption ==
  /\ Dates \subseteq Nat
  /\ \A o \in Offers : o.partner \in Customers /\ o.date \in Dates /\ o.lines # <<>>
                       /\ o.rep \in Reps \cup {None}
  /\ \A r \in Rates : r = None \/ r \in Nat

VARIABLES
  quotations,   \* quotation rows; here and below the index is the identity
  orders,       \* sales_order rows with their lines
  invoices,     \* sales_invoice rows: invoices and credit notes
  bills,        \* vendor_bill rows: bills and debit notes
  payments,     \* payment rows with their allocations
  commissions,  \* commission_transaction rows
  rate,         \* sales_representative.commission_rate
  books,        \* debits minus credits, per control account and date
  today

vars == <<quotations, orders, invoices, bills, payments, commissions, rate, books, today>>

Accounts == {"ar", "ap", "vat", "cash", "revenue", "grni"}

\* Sum of one column of the rows S of a table.
Column(table, S, name) == MapThenSumSet(LAMBDA i : table[i][name], S)

\* A line of an invoice of n units: each amount is rounded before it is used.
Priced(l, n) == LET total == HalfEven(n * l.price, 100)
                IN [product |-> l.product, qty |-> n, total |-> total,
                    vat |-> HalfEven(total * TaxPercent[l.tax], 10000)]

Document(type, partner, original, date, due, lines, rep, status) ==
  LET subtotal == Column(lines, DOMAIN lines, "total")
      vat      == Column(lines, DOMAIN lines, "vat")
  IN [type |-> type, partner |-> partner, original |-> original, date |-> date, due |-> due,
      lines |-> lines, subtotal |-> subtotal, vat |-> vat, total |-> subtotal + vat,
      rep |-> rep, status |-> status, posted |-> TRUE]

\* Entries with the given amounts posted on a date.
Post(date, amount) ==
  [a \in Accounts |-> IF a \in DOMAIN amount THEN [books[a] EXCEPT ![date] = @ + amount[a]]
                      ELSE books[a]]

\* Documents with customers, and with vendors; Room bounds them.
Sides == [customer |-> Len(invoices) + Cardinality({q \in DOMAIN payments : payments[q].type = "customer"}),
          vendor   |-> Len(bills) + Cardinality({q \in DOMAIN payments : payments[q].type = "vendor"})]
Room(type) ==
  /\ Sides[type] < MaxDocuments
  /\ Sides.customer + Sides.vendor < MaxMixed \/ Sides[type] = Sides.customer + Sides.vendor

Init ==
  /\ quotations = <<>> /\ orders = <<>> /\ invoices = <<>> /\ bills = <<>> /\ payments = <<>>
  /\ commissions = {}
  /\ rate \in [Reps -> Rates]
  /\ books = [a \in Accounts |-> [d \in Dates |-> 0]]
  /\ today = Min(Dates)
-----------------------------------------------------------------------------
(***************************************************************************)
(* Quotations and orders.                                                  *)
(***************************************************************************)
CreateQuotation(offer) ==
  /\ Len(quotations) < MaxQuotations
  /\ quotations' = Append(quotations, [offer |-> offer, status |-> "draft"])
  /\ UNCHANGED <<orders, invoices, bills, payments, commissions, rate, books, today>>

UpdateQuotation(q, offer) ==
  /\ quotations[q].status = "draft"
  /\ quotations' = [quotations EXCEPT ![q].offer = offer]
  /\ UNCHANGED <<orders, invoices, bills, payments, commissions, rate, books, today>>

NewOrder(offer) == [partner |-> offer.partner, date |-> offer.date, lines |-> offer.lines, rep |-> offer.rep,
                    invoiced |-> [i \in DOMAIN offer.lines |-> 0], status |-> "confirmed"]

ConfirmQuotation(q) ==
  /\ quotations[q].status = "draft"
  /\ quotations' = [quotations EXCEPT ![q].status = "confirmed"]
  /\ orders' = Append(orders, NewOrder(quotations[q].offer))
  /\ UNCHANGED <<invoices, bills, payments, commissions, rate, books, today>>

Untouched(o) == /\ orders[o].status \in {"draft", "confirmed"}
                /\ \A i \in DOMAIN orders[o].lines : orders[o].invoiced[i] = 0

UpdateOrder(o, offer) ==
  /\ Untouched(o)
  /\ orders' = [orders EXCEPT ![o] = [NewOrder(offer) EXCEPT !.status = orders[o].status]]
  /\ UNCHANGED <<quotations, invoices, bills, payments, commissions, rate, books, today>>

CancelOrder(o) ==
  /\ Untouched(o)
  /\ orders' = [orders EXCEPT ![o].status = "cancelled"]
  /\ UNCHANGED <<quotations, invoices, bills, payments, commissions, rate, books, today>>
-----------------------------------------------------------------------------
(***************************************************************************)
(* Commission.                                                             *)
(***************************************************************************)
Earned(kind, i) == {c \in commissions : c.kind = kind /\ c.source = i}

Commission(kind, i, rep, base, percent, date) ==
  IF percent = None THEN {}
  ELSE {[kind |-> kind, source |-> i, rep |-> rep, base |-> base, rate |-> percent,
         amount |-> HalfEven(base * percent, 10000), date |-> date]}

\* Mutant: the representative's rate of today.
ReversalRate_Today(note) == rate[note.rep]

\* The rate stored for the original invoice; today's only without one.
ReversalRate(note) == LET sale == Earned("sales", note.original)
                      IN IF sale # {} THEN (CHOOSE c \in sale : TRUE).rate ELSE rate[note.rep]

\* _record_sales_commission, for the document that gets identity i
SalesCommission(i, doc) ==
  IF doc.rep = None THEN {}
  ELSE IF doc.type = "credit_note"
    THEN Commission("sales", i, doc.rep, -doc.subtotal, ReversalRate(doc), doc.date)
    ELSE Commission("sales", i, doc.rep, doc.subtotal, rate[doc.rep], doc.date)
-----------------------------------------------------------------------------
(***************************************************************************)
(* Invoices and credit notes.                                              *)
(***************************************************************************)
\* What submission leaves on the document: the gateway's answer, or pending.
Submitted(clearance) == IF clearance THEN {"cleared", "rejected"} ELSE {"pending_submission"}

\* The insert, the entry and the commission that every document makes.
Issue(doc) ==
  LET sign == IF doc.type = "credit_note" THEN -1 ELSE 1
  IN /\ Room("customer") /\ Len(invoices) < MaxInvoices
     /\ invoices' = Append(invoices, doc)
     /\ books' = Post(doc.date, [ar |-> sign * doc.total, revenue |-> -sign * doc.subtotal,
                                 vat |-> -sign * doc.vat])
     /\ commissions' = commissions \cup SalesCommission(Len(invoices) + 1, doc)
     /\ UNCHANGED <<quotations, bills, payments, rate, today>>

Chosen(pick) == {i \in DOMAIN pick : pick[i] > 0}

\* issue_invoice_from_order with pick[i] units of line i
IssueInvoice(o, pick, status) ==
  LET order == orders[o]
      at    == SetToSeq(Chosen(pick))
      done  == [i \in DOMAIN pick |-> order.invoiced[i] + pick[i]]
  IN /\ order.status \in {"confirmed", "partially_invoiced"}
     /\ Chosen(pick) # {}
     /\ \A i \in DOMAIN pick : done[i] <= order.lines[i].qty
     /\ status \in Submitted(Partner[order.partner].vat)
     /\ orders' = [orders EXCEPT ![o].invoiced = done,
          ![o].status = IF \A i \in DOMAIN pick : done[i] >= order.lines[i].qty
                        THEN "done" ELSE "partially_invoiced"]
     /\ Issue(Document(IF Partner[order.partner].vat THEN "tax" ELSE "simplified",
                       order.partner, 0, order.date, order.date + Partner[order.partner].days,
                       [k \in DOMAIN at |-> Priced(order.lines[at[k]], pick[at[k]])],
                       order.rep, status))

\* issue_credit_note: the whole invoice
CreditInvoice(i, status) ==
  LET original == invoices[i]
  IN /\ original.type \in {"tax", "simplified"}
     /\ status \in Submitted(original.type = "tax")
     /\ Issue([original EXCEPT !.type = "credit_note", !.original = i, !.date = today,
                               !.due = today, !.status = status])
     /\ UNCHANGED orders

\* issue_credit_note_for_lines; i is 0 when no invoice is named
CreditLines(c, i, lines, status) ==
  /\ i # 0 => invoices[i].type \in {"tax", "simplified"} /\ invoices[i].partner = c
  /\ status \in Submitted(Partner[c].vat)
  /\ Issue(Document("credit_note", c, i, today, today,
                    [k \in DOMAIN lines |-> Priced(lines[k], lines[k].qty)],
                    IF i # 0 THEN invoices[i].rep ELSE Partner[c].rep, status))
  /\ UNCHANGED orders

\* The worker's report of a pending document.
Report(i, status) ==
  /\ invoices[i].status = "pending_submission"
  /\ status \in {"reported", "rejected"}
  /\ invoices' = [invoices EXCEPT ![i].status = status]
  /\ UNCHANGED <<quotations, orders, bills, payments, commissions, rate, books, today>>
-----------------------------------------------------------------------------
(***************************************************************************)
(* Vendor bills and debit notes, without the orders behind them.           *)
(***************************************************************************)
Bill(type, v, original, subtotal, status) ==
  LET vat == HalfEven(subtotal * VatPercent, 10000)
  IN [type |-> type, partner |-> v, original |-> original, date |-> today,
      due |-> IF type = "standard" THEN today + VendorDays[v] ELSE today,
      subtotal |-> subtotal, vat |-> vat, total |-> subtotal + vat,
      status |-> status, posted |-> status = "posted"]

RegisterBill(v, subtotal, status) ==
  /\ Room("vendor") /\ Len(bills) < MaxBills
  /\ status \in {"matched", "mismatched"}
  /\ bills' = Append(bills, Bill("standard", v, 0, subtotal, status))
  /\ UNCHANGED <<quotations, orders, invoices, payments, commissions, rate, books, today>>

PostBill(b) ==
  /\ bills[b].status = "matched"
  /\ bills' = [bills EXCEPT ![b].status = "posted", ![b].posted = TRUE]
  /\ books' = Post(bills[b].date, [grni |-> bills[b].subtotal, vat |-> bills[b].vat, ap |-> -bills[b].total])
  /\ UNCHANGED <<quotations, orders, invoices, payments, commissions, rate, today>>

Debit(note) ==
  /\ Room("vendor") /\ Len(bills) < MaxBills
  /\ bills' = Append(bills, note)
  /\ books' = Post(today, [ap |-> note.total, grni |-> -note.subtotal, vat |-> -note.vat])
  /\ UNCHANGED <<quotations, orders, invoices, payments, commissions, rate, today>>

\* issue_debit_note: the whole bill
DebitBill(b) ==
  /\ bills[b].type = "standard" /\ bills[b].status = "posted"
  /\ Debit([bills[b] EXCEPT !.type = "debit_note", !.original = b, !.date = today, !.due = today])

\* issue_debit_note_for_lines; a bill it names need not be posted
DebitLines(v, b, subtotal) ==
  /\ b # 0 => bills[b].type = "standard" /\ bills[b].partner = v
  /\ Debit(Bill("debit_note", v, b, subtotal, "posted"))
-----------------------------------------------------------------------------
(***************************************************************************)
(* Payments.  Targets are invoices or bills, in any status.                *)
(***************************************************************************)
Targets(type) == IF type = "customer" THEN invoices ELSE bills

Allocations(type) ==
  UNION {{p} \X DOMAIN payments[p].allocations : p \in {q \in DOMAIN payments : payments[q].type = type}}

AllocatedTo(type, i) ==
  MapThenSumSet(LAMBDA x : payments[x[1]].allocations[x[2]].amount,
    {x \in Allocations(type) : payments[x[1]].allocations[x[2]].target = i})

\* _post_journal_entry
PaymentEntry(type, amount) == IF type = "customer" THEN [cash |-> amount, ar |-> -amount]
                                                   ELSE [ap |-> amount, cash |-> -amount]

RecordPayment(type, p, date, amount, rep, allocations) ==
  /\ Room(type) /\ Len(payments) < MaxPayments
  /\ \A k \in DOMAIN allocations :
       LET a == allocations[k]
       IN /\ Targets(type)[a.target].partner = p
          /\ AllocatedTo(type, a.target) + a.amount <= Targets(type)[a.target].total
  /\ Column(allocations, DOMAIN allocations, "amount") <= amount
  /\ payments' = Append(payments, [type |-> type, partner |-> p, date |-> date, amount |-> amount,
                                   rep |-> rep, allocations |-> allocations])
  /\ books' = Post(date, PaymentEntry(type, amount))
  /\ commissions' = commissions \cup
       (IF type = "customer" /\ rep # None
          THEN Commission("collection", Len(payments) + 1, rep, amount, rate[rep], date) ELSE {})
  /\ UNCHANGED <<quotations, orders, invoices, bills, rate, today>>

SetRate(r, percent) ==
  /\ percent # rate[r]
  /\ rate' = [rate EXCEPT ![r] = percent]
  /\ UNCHANGED <<quotations, orders, invoices, bills, payments, commissions, books, today>>

NextDay ==
  /\ \E d \in Dates : d > today
  /\ today' = Min({d \in Dates : d > today})
  /\ UNCHANGED <<quotations, orders, invoices, bills, payments, commissions, rate, books>>
-----------------------------------------------------------------------------
Picks(o) == [DOMAIN orders[o].lines -> 0 .. 2]

\* A payment settles nothing or some of one document.
Settlements(type, amount) ==
  {<<>>} \cup {<<[target |-> i, amount |-> a]>> : i \in DOMAIN Targets(type), a \in {amount \div 2, amount}}

Quote == \/ \E offer \in Offers : CreateQuotation(offer)
         \/ \E q \in DOMAIN quotations, offer \in Offers : UpdateQuotation(q, offer)
         \/ \E q \in DOMAIN quotations : ConfirmQuotation(q)
         \/ \E o \in DOMAIN orders, offer \in Offers : UpdateOrder(o, offer)
         \/ \E o \in DOMAIN orders : CancelOrder(o)

Statuses == {"cleared", "rejected", "pending_submission"}

Sell == \/ \E o \in DOMAIN orders, s \in Statuses : \E pick \in Picks(o) : IssueInvoice(o, pick, s)
        \/ \E i \in DOMAIN invoices, s \in Statuses : CreditInvoice(i, s)
        \/ \E c \in Customers, i \in {0} \cup DOMAIN invoices, ls \in Returned, s \in Statuses :
             CreditLines(c, i, ls, s)
        \/ \E i \in DOMAIN invoices, s \in {"reported", "rejected"} : Report(i, s)

Buy == \/ \E v \in Vendors, n \in BillSubtotals, s \in {"matched", "mismatched"} : RegisterBill(v, n, s)
       \/ \E b \in DOMAIN bills : PostBill(b)
       \/ \E b \in DOMAIN bills : DebitBill(b)
       \/ \E v \in Vendors, b \in {0} \cup DOMAIN bills, n \in BillSubtotals : DebitLines(v, b, n)

Pay == \E x \in Receipts :
         \/ \E c \in Customers : \E as \in Settlements("customer", x.amount) :
              RecordPayment("customer", c, x.date, x.amount, x.rep, as)
         \/ \E v \in Vendors : \E as \in Settlements("vendor", x.amount) :
              RecordPayment("vendor", v, x.date, x.amount, None, as)

Next == Quote \/ Sell \/ Buy \/ Pay \/ (\E r \in Reps, x \in Rates : SetRate(r, x)) \/ NextDay

Spec == Init /\ [][Next]_vars
-----------------------------------------------------------------------------
Credited(i) == {n \in DOMAIN invoices : invoices[n].type = "credit_note" /\ invoices[n].original = i}

(* A credit note takes back commission at the rate at which the sale it    *)
(* names earned it, from the same representative, whatever the rate has    *)
(* become: crediting a whole invoice offsets its commission to the cent    *)
(* (CommissionService.reverse_sales_commission).                           *)
CommissionsOffset ==
  \A i \in DOMAIN invoices : \A sale \in Earned("sales", i) : \A n \in Credited(i) :
    \E back \in Earned("sales", n) :
      /\ back.rep = sale.rep /\ back.rate = sale.rate
      /\ invoices[n].lines = invoices[i].lines => back.amount = -sale.amount

(* What a credit note takes back had been earned (the same docstring: "the *)
(* reversal exactly offsets what was actually commissioned").              *)
OnlyEarnedIsReversed ==
  \A i \in DOMAIN invoices : \A n \in Credited(i) : Earned("sales", n) # {} => Earned("sales", i) # {}
=============================================================================
