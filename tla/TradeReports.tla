---------------------------- MODULE TradeReports -----------------------------
(***************************************************************************)
(* What the reporting module, the subledgers and the aging derive from the *)
(* documents of trade.  Each figure is its own query with its own filters: *)
(* on the status, on whether the document was posted, on the type; nothing *)
(* is stored, and the figures must agree in every state.                   *)
(***************************************************************************)
EXTENDS Trade

CONSTANT
  MonthLength,    \* days of a month
  ListLimit,      \* rows list_by_company returns; 500 in the code
  Ranges          \* date ranges reports are asked for: [from, to]

Finalized == {"cleared", "reported", "pending_submission"}
Forward   == {"tax", "simplified"}
Within(r) == r.from .. r.to
Month(d)  == d \div MonthLength

\* Rows of a query, with the columns the reports add up.
Sum(table, S) == [count    |-> Cardinality(S),
                  subtotal |-> Column(table, S, "subtotal"),
                  vat      |-> Column(table, S, "vat"),
                  total    |-> Column(table, S, "total")]

\* case((type == negative, -x), else_=x)
Signed(table, S, negative, name) ==
  MapThenSumSet(LAMBDA i : IF table[i].type = negative THEN -table[i][name] ELSE table[i][name], S)

\* A column of the rows of a report added up, as under its exported table.
Added(rows, name) == MapThenSumSet(LAMBDA k : rows[k][name], DOMAIN rows)
SalesTotals(rows) == [n \in {"subtotal", "vat", "total"} |-> Added(rows, n)]

Partners(table, S) == {table[i].partner : i \in S}
Of(table, S, p)    == {i \in S : table[i].partner = p}
-----------------------------------------------------------------------------
(***************************************************************************)
(* SalesReportingService, and the KPI queries of the dashboard.            *)
(***************************************************************************)
FinalizedIn(types, D) ==
  {i \in DOMAIN invoices : invoices[i].status \in Finalized /\ invoices[i].type \in types /\ invoices[i].date \in D}

Sales(r)   == FinalizedIn(Forward, Within(r))
Returns(r) == FinalizedIn({"credit_note"}, Within(r))

\* SalesInvoiceRepository.sum_total_in_range
NetSales(D) == Signed(invoices, FinalizedIn(Forward \cup {"credit_note"}, D), "credit_note", "total")

\* VendorBillRepository.sum_total_in_range
NetPurchases(D) ==
  Signed(bills, {b \in DOMAIN bills : bills[b].status = "posted" /\ bills[b].date \in D}, "debit_note", "total")

Months(r) == {m \in Month(r.from) .. Month(r.to) : m * MonthLength <= r.to}

\* The points of the chart are whole months, whatever day the range starts.
SalesTrend(r) == [m \in Months(r) |-> NetSales(m * MonthLength .. (m + 1) * MonthLength - 1)]

BalanceAt(a, d) == MapThenSumSet(LAMBDA x : books[a][x], {x \in Dates : x <= d})

Summary(r) == [sales |-> NetSales(Within(r)), purchases |-> NetPurchases(Within(r)),
               receivables |-> BalanceAt("ar", r.to), payables |-> -BalanceAt("ap", r.to),
               cash |-> BalanceAt("cash", r.to)]

Paid(type, p, D) ==
  Column(payments, {q \in DOMAIN payments : /\ payments[q].type = type /\ payments[q].partner = p
                                            /\ payments[q].date \in D}, "amount")

PostedBy(table, p, d) == {i \in DOMAIN table : table[i].posted /\ table[i].partner = p /\ table[i].date <= d}

\* _ar_balance_as_of
ReceivableFrom(c, d) == Signed(invoices, PostedBy(invoices, c, d), "credit_note", "total") - Paid("customer", c, 0 .. d)

\* _ap_balance_as_of
PayableTo(v, d) == Signed(bills, PostedBy(bills, v, d), "debit_note", "total") - Paid("vendor", v, 0 .. d)

ByCustomer(r) ==
  [c \in Partners(invoices, Sales(r)) |->
     Sum(invoices, Of(invoices, Sales(r), c))
       @@ [payments |-> Paid("customer", c, Within(r)), balance |-> ReceivableFrom(c, r.to)]]

CustomerTable(r) ==
  LET rows == ByCustomer(r)
  IN [rows |-> rows, totals |-> SalesTotals(rows) @@ [payments |-> Added(rows, "payments"),
                                                      balance  |-> Added(rows, "balance")]]

SoldLines(r) == UNION {{i} \X DOMAIN invoices[i].lines : i \in Sales(r)}
LineSum(L, name) == MapThenSumSet(LAMBDA x : invoices[x[1]].lines[x[2]][name], L)

ByProduct(r) ==
  [p \in {invoices[x[1]].lines[x[2]].product : x \in SoldLines(r)} |->
     LET L == {x \in SoldLines(r) : invoices[x[1]].lines[x[2]].product = p}
     IN [qty |-> LineSum(L, "qty"), subtotal |-> LineSum(L, "total"), vat |-> LineSum(L, "vat"),
         total |-> LineSum(L, "total") + LineSum(L, "vat")]]

ProductTable(r) == [rows |-> ByProduct(r), totals |-> SalesTotals(ByProduct(r))]

ByPeriod(r) ==
  [m \in {Month(invoices[i].date) : i \in Sales(r)} |->
     Sum(invoices, {i \in Sales(r) : Month(invoices[i].date) = m})]

PeriodTable(r) == [rows |-> ByPeriod(r), totals |-> SalesTotals(ByPeriod(r))]
-----------------------------------------------------------------------------
(***************************************************************************)
(* PurchaseReportingService.                                               *)
(***************************************************************************)
BillsIn(r) == {b \in DOMAIN bills : /\ bills[b].status = "posted" /\ bills[b].type = "standard"
                                    /\ bills[b].date \in Within(r)}
DebitNotesIn(r) == {b \in DOMAIN bills : bills[b].type = "debit_note" /\ bills[b].date \in Within(r)}

ByVendor(r) ==
  [v \in Partners(bills, BillsIn(r)) |->
     LET purchases   == Sum(bills, Of(bills, BillsIn(r), v))
         adjustments == Column(bills, Of(bills, DebitNotesIn(r), v), "total")
     IN purchases @@ [adjustments |-> adjustments, net |-> purchases.total - adjustments,
                      payments |-> Paid("vendor", v, Within(r)), balance |-> PayableTo(v, r.to)]]

VendorTable(r) ==
  LET rows == ByVendor(r)
  IN [rows |-> rows, totals |-> SalesTotals(rows) @@
        [n \in {"adjustments", "net", "payments", "balance"} |-> Added(rows, n)]]
-----------------------------------------------------------------------------
(***************************************************************************)
(* CommercialPerformanceReportingService.  None stands for documents that  *)
(* no representative is credited with.                                     *)
(***************************************************************************)
By(rep, S) == {i \in S : invoices[i].rep = rep}

CollectedBy(rep, r) == {p \in DOMAIN payments : /\ payments[p].type = "customer" /\ payments[p].rep = rep
                                                /\ payments[p].date \in Within(r)}

CommissionsOf(rep, r, kind) ==
  MapThenSumSet(LAMBDA c : c.amount,
    {c \in commissions : c.kind = kind /\ c.rep = rep /\ c.date \in Within(r)})

\* _outstanding_balance_by_rep: posted documents less what was allocated to them
OutstandingOf(rep, d) ==
  LET mine == {i \in DOMAIN invoices : invoices[i].rep = rep}
  IN Signed(invoices, {i \in mine : invoices[i].posted /\ invoices[i].date <= d}, "credit_note", "total")
     - MapThenSumSet(LAMBDA x : payments[x[1]].allocations[x[2]].amount,
         {x \in Allocations("customer") : /\ payments[x[1]].date <= d
                                          /\ payments[x[1]].allocations[x[2]].target \in mine})

ByRepresentative(r) ==
  [rep \in Reps \cup {None} |->
     LET gross   == Column(invoices, By(rep, Sales(r)), "subtotal")
         returns == Column(invoices, By(rep, Returns(r)), "subtotal")
     IN [gross |-> gross, returns |-> returns, net |-> gross - returns,
         collections |-> Column(payments, CollectedBy(rep, r), "amount"),
         outstanding |-> OutstandingOf(rep, r.to),
         sales_commission |-> CommissionsOf(rep, r, "sales"),
         collection_commission |-> CommissionsOf(rep, r, "collection")]]

NetSalesTrend(r) ==
  LET S == Sales(r) \cup Returns(r)
  IN [m \in {Month(invoices[i].date) : i \in S} |->
        Signed(invoices, {i \in S : Month(invoices[i].date) = m}, "credit_note", "subtotal")]

\* The returns of the drill-down are of any status.
AllReturnsOf(rep, r) == {i \in DOMAIN invoices : /\ invoices[i].rep = rep /\ invoices[i].type = "credit_note"
                                                 /\ invoices[i].date \in Within(r)}

RepresentativeCustomers(rep, r) ==
  LET S == By(rep, Sales(r))
  IN [c \in Partners(invoices, S) |->
        LET gross   == Column(invoices, Of(invoices, S, c), "subtotal")
            returns == Column(invoices, Of(invoices, AllReturnsOf(rep, r), c), "subtotal")
        IN [gross |-> gross, returns |-> returns, net |-> gross - returns]]

\* A line of a document and the commission found for it, 0 without one.
PerformanceLines(table, S, kind, name) ==
  [i \in S |-> [amount |-> table[i][name], commission |-> MapThenSumSet(LAMBDA c : c.amount, Earned(kind, i))]]

Performance(rep, r) ==
  [sales       |-> PerformanceLines(invoices, By(rep, Sales(r)), "sales", "subtotal"),
   returns     |-> PerformanceLines(invoices, AllReturnsOf(rep, r), "sales", "subtotal"),
   collections |-> PerformanceLines(payments, CollectedBy(rep, r), "collection", "amount")]
-----------------------------------------------------------------------------
(***************************************************************************)
(* VatReportingService.                                                    *)
(***************************************************************************)
PostedIn(table, types, r) ==
  {i \in DOMAIN table : table[i].posted /\ table[i].type \in types /\ table[i].date \in Within(r)}

\* Forward documents less the notes against them.
Netted(table, types, note, r) ==
  LET forward == Sum(table, PostedIn(table, types, r))
      notes   == Sum(table, PostedIn(table, {note}, r))
  IN [subtotal |-> forward.subtotal - notes.subtotal, vat |-> forward.vat - notes.vat,
      total |-> forward.total - notes.total]

\* Mutant: vendor debit notes are left out, as they once were.
VatSummary_NoDebitNotes(r) ==
  LET sales     == Netted(invoices, Forward, "credit_note", r)
      purchases == Sum(bills, PostedIn(bills, {"standard"}, r))
  IN [sales |-> sales, purchases |-> purchases, payable |-> sales.vat - purchases.vat]

VatSummary(r) ==
  LET sales     == Netted(invoices, Forward, "credit_note", r)
      purchases == Netted(bills, {"standard"}, "debit_note", r)
  IN [sales |-> sales, purchases |-> purchases, payable |-> sales.vat - purchases.vat]

DetailRows(table, types, direction, sign, r) ==
  {[direction |-> direction, types |-> types, document |-> i,
    vat |-> sign * table[i].vat, total |-> sign * table[i].total] : i \in PostedIn(table, types, r)}

VatDetail(r) == UNION {DetailRows(invoices, Forward, "output", 1, r),
                       DetailRows(invoices, {"credit_note"}, "output", -1, r),
                       DetailRows(bills, {"standard"}, "input", 1, r),
                       DetailRows(bills, {"debit_note"}, "input", -1, r)}

\* Of the detail table: the net VAT payable.
VatTotal(rows) ==
  MapThenSumSet(LAMBDA x : IF x.direction = "output" THEN x.vat ELSE -x.vat, rows)

\* What the reconciliation shows as the difference to the account.
VatDifference(r) ==
  VatSummary(r).payable + MapThenSumSet(LAMBDA d : books["vat"][d], Dates \cap Within(r))
-----------------------------------------------------------------------------
(***************************************************************************)
(* SubledgerService.  A movement's amount is its debit less its credit.    *)
(***************************************************************************)
Movement(type, document, k, date, amount) ==
  [type |-> type, document |-> document, part |-> k, date |-> date, amount |-> amount]

DocumentMovements(table, listed, note, sign) ==
  {Movement(table[i].type, i, 0, table[i].date, IF table[i].type = note THEN -sign * table[i].total
                                                ELSE sign * table[i].total) :
     i \in {x \in listed : table[x].posted}}

PaymentsOf(type, p) == {q \in DOMAIN payments : payments[q].type = type /\ payments[q].partner = p}

AllocationMovements(type, p, sign) ==
  {Movement("payment", x[1], x[2], payments[x[1]].date, -sign * payments[x[1]].allocations[x[2]].amount) :
     x \in {y \in Allocations(type) : y[1] \in PaymentsOf(type, p)}}

Remainder(q) ==
  payments[q].amount - Column(payments[q].allocations, DOMAIN payments[q].allocations, "amount")

\* Mutant: only payments without any allocation are looked for.
RemainderMovements_Whole(type, p, sign) ==
  {Movement("payment", q, 0, payments[q].date, -sign * Remainder(q)) :
     q \in {x \in PaymentsOf(type, p) : payments[x].allocations = <<>>}}

\* list_unallocated_payments_for_partner
RemainderMovements(type, p, sign) ==
  {Movement("payment", q, 0, payments[q].date, -sign * Remainder(q)) :
     q \in {x \in PaymentsOf(type, p) : Remainder(x) > 0}}

\* The newest rows, up to the limit of list_by_company.
Newest(S) ==
  CHOOSE T \in SUBSET S : /\ Cardinality(T) = IF Cardinality(S) < ListLimit THEN Cardinality(S) ELSE ListLimit
                          /\ \A i \in T, j \in S \ T : invoices[i].date >= invoices[j].date

CustomerInvoices(c) == {i \in DOMAIN invoices : invoices[i].partner = c}

CustomerMovements(c) ==
  UNION {DocumentMovements(invoices, Newest(CustomerInvoices(c)), "credit_note", 1),
         AllocationMovements("customer", c, 1), RemainderMovements("customer", c, 1)}

VendorMovements(v) ==
  UNION {DocumentMovements(bills, {b \in DOMAIN bills : bills[b].partner = v}, "debit_note", -1),
         AllocationMovements("vendor", v, -1), RemainderMovements("vendor", v, -1)}

Amounts(M) == MapThenSumSet(LAMBDA m : m.amount, M)

\* The opening balance, and the balance after each movement of the range.
Subledger(M, r) ==
  LET lines == SetToSortSeq({m \in M : m.date \in Within(r)}, LAMBDA l, m : l.date < m.date)
      running[k \in 0 .. Len(lines)] ==
        IF k = 0 THEN Amounts({m \in M : m.date < r.from}) ELSE running[k - 1] + lines[k].amount
  IN [opening |-> running[0], running |-> [k \in DOMAIN lines |-> running[k]], closing |-> running[Len(lines)]]

\* The balance column of the printed statement
SubledgerTable(s) == <<s.opening>> \o s.running \o <<s.closing>>

CustomerStatement(c, r) == SubledgerTable(Subledger(CustomerMovements(c), r))
VendorStatement(v, r)   == SubledgerTable(Subledger(VendorMovements(v), r))

\* What is open of a posted document that is not a note; notes without an
\* original are nobody's.
Open(table, type, note, i) ==
  table[i].total - AllocatedTo(type, i)
  - Column(table, {n \in DOMAIN table : table[n].type = note /\ table[n].original = i /\ table[n].posted}, "total")

Bucket(overdue) == CASE overdue <= 0  -> "current"
                     [] overdue \in 1 .. 30  -> "1_30"
                     [] overdue \in 31 .. 60 -> "31_60"
                     [] overdue \in 61 .. 90 -> "61_90"
                     [] OTHER -> "over_90"

\* Rows of every document there is, whatever its date.
Aging(table, type, note, date) ==
  {[partner |-> table[i].partner, document |-> i, due |-> Open(table, type, note, i),
    bucket |-> Bucket(date - table[i].due)] :
     i \in {x \in DOMAIN table : /\ table[x].type # note /\ table[x].posted
                                 /\ Open(table, type, note, x) > 0}}

AgingTotal(rows) == MapThenSumSet(LAMBDA x : x.due, rows)

\* ar_aging and ap_aging, as of a date
CustomerAging(date) == Aging(invoices, "customer", "credit_note", date)
VendorAging(date)   == Aging(bills, "vendor", "debit_note", date)

\* get_sales_invoice_balance, get_vendor_bill_balance: they know nothing of
\* credit notes.
DocumentBalance(type, i) == [paid |-> AllocatedTo(type, i), due |-> Targets(type)[i].total - AllocatedTo(type, i)]

PaymentStatus(b) == IF b.paid <= 0 THEN "unpaid" ELSE IF b.due <= 0 THEN "paid" ELSE "partially_paid"
-----------------------------------------------------------------------------
Entire(f) == MapThenSumSet(LAMBDA x : f[x], DOMAIN f)
Unallocated(d) == MapThenSumSet(Remainder, {q \in DOMAIN payments : payments[q].type = "customer" /\ payments[q].date <= d})
DueIn(rows, p) == AgingTotal({x \in rows : x.partner = p})
Horizon == Max({r.to : r \in Ranges})

\* The opening and closing balances of a subledger are the partner's balance
\* at the ends of the range.
Follows(statement, Balance(_), r) ==
  statement[1] = Balance(r.from - 1) /\ statement[Len(statement)] = Balance(r.to)

(* The control accounts, the balances in the sales and purchase reports,   *)
(* the subledgers, the balances per representative and the aging are five  *)
(* different queries on what customers and vendors owe, and tell one       *)
(* story, whatever was paid on account, credited or rejected: all but the  *)
(* aging are equal, the aging shows no less than what is owed, and nothing *)
(* that payments have settled ("a Subledger can never drift", SubledgerService; *)
(* for customers with no more documents than list_by_company returns).     *)
SubledgersAgree ==
  /\ \A r \in Ranges :
       /\ BalanceAt("ar", r.to) = MapThenSumSet(LAMBDA c : ReceivableFrom(c, r.to), Customers)
       /\ -BalanceAt("ap", r.to) = MapThenSumSet(LAMBDA v : PayableTo(v, r.to), Vendors)
       /\ \A c \in Customers : Cardinality(CustomerInvoices(c)) <= ListLimit
                               => Follows(CustomerStatement(c, r), LAMBDA d : ReceivableFrom(c, d), r)
       /\ \A v \in Vendors : Follows(VendorStatement(v, r), LAMBDA d : -PayableTo(v, d), r)
       /\ MapThenSumSet(LAMBDA rep : OutstandingOf(rep, r.to), Reps \cup {None})
            = BalanceAt("ar", r.to) + Unallocated(r.to)
  /\ LET ar == CustomerAging(today)
         ap == VendorAging(today)
     IN /\ \A c \in Customers : DueIn(ar, c) >= ReceivableFrom(c, Horizon)
        /\ \A v \in Vendors : DueIn(ap, v) >= PayableTo(v, Horizon)
        /\ \A x \in ar : PaymentStatus(DocumentBalance("customer", x.document)) # "paid"
        /\ \A x \in ap : PaymentStatus(DocumentBalance("vendor", x.document)) # "paid"

Rejected(r) == {i \in DOMAIN invoices : invoices[i].status = "rejected" /\ invoices[i].date \in Within(r)}
WholeMonths(r) == r.from % MonthLength = 0 /\ (r.to + 1) % MonthLength = 0

(* Sales by customer, by product and by month have one row of totals;      *)
(* representatives' net sales are the net sales of the months; the chart   *)
(* adds up to the KPI beside it when the range is whole months; purchases  *)
(* by vendor, with the debit notes of vendors that are not listed, are the *)
(* purchases KPI.                                                          *)
SalesAgree(r) ==
  LET customers == CustomerTable(r)
      months    == PeriodTable(r).totals
      reps      == ByRepresentative(r)
      vendors   == VendorTable(r)
  IN /\ months = ProductTable(r).totals
     /\ \A n \in DOMAIN months : months[n] = customers.totals[n]
     /\ months.subtotal = Added(reps, "gross")
     /\ Entire(NetSalesTrend(r)) = Added(reps, "net")
     /\ WholeMonths(r) => Entire(SalesTrend(r)) = Summary(r).sales
     /\ customers.totals.payments <= Added(reps, "collections")
     /\ Summary(r).purchases = vendors.totals.net
          - Column(bills, {b \in DebitNotesIn(r) : bills[b].partner \notin DOMAIN vendors.rows}, "total")

(* The drill-down of a representative adds up to its row: sales and        *)
(* collections always, returns and commission but for documents the        *)
(* authority has rejected, which only one of the two leaves out.           *)
DrillDownAgrees(r) ==
  \A rep \in Reps :
    LET row   == ByRepresentative(r)[rep]
        lines == Performance(rep, r)
        byCustomer == RepresentativeCustomers(rep, r)
    IN /\ row.gross = Added(lines.sales, "amount")
       /\ row.gross = Added(byCustomer, "gross")
       /\ row.collections = Added(lines.collections, "amount")
       /\ row.collection_commission = Added(lines.collections, "commission")
       /\ By(rep, Rejected(r)) = {} =>
            /\ row.returns = Added(lines.returns, "amount")
            /\ row.sales_commission = Added(lines.sales, "commission") + Added(lines.returns, "commission")

(* The VAT summary, the sum of its detail and the account agree, also when *)
(* bills are returned and prices round; it differs from the sales KPI by   *)
(* exactly the documents that were rejected after they were posted.        *)
VatAgrees(r) ==
  LET vat  == VatSummary(r)
      rows == VatDetail(r)
  IN /\ VatDifference(r) = 0
     /\ vat.payable = VatTotal(rows)
     /\ vat.sales.total - Summary(r).sales = Signed(invoices, Rejected(r), "credit_note", "total")
     /\ vat.sales.subtotal = -MapThenSumSet(LAMBDA d : books["revenue"][d], Dates \cap Within(r))
     /\ vat.purchases.total = Summary(r).purchases

\* The reports on one range agree with each other and with the books.
ReportsAgree == \A r \in Ranges : SalesAgree(r) /\ DrillDownAgrees(r) /\ VatAgrees(r)
=============================================================================
