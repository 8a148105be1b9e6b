------------------------------- MODULE Inventory -------------------------------
(***************************************************************************)
(* The stock of a company and the books it is entered in: receipts by      *)
(* hand, deliveries to customers and their returns, transfers between      *)
(* warehouses and cycle counts.                                            *)
(*                                                                         *)
(* A request locks every balance it changes before it looks at it, and     *)
(* keeps it until it commits: it is one step here.  (StockQuants has the   *)
(* paths that look before they lock.)  Each warehouse has the one location *)
(* it is created with.                                                     *)
(***************************************************************************)
EXTENDS Valuation

CONSTANTS
  Products,      \* stockable products
  Warehouses,    \* identities of warehouses
  ReorderPoint,  \* by product
  CostPrice,     \* by product: its standard cost
  Qtys, Costs,   \* quantities and unit costs that payloads name
  Invoiced,      \* lines of the invoices that deliver: sequences of [product, qty]
  Sheets,        \* lines of cycle counts: sequences of [product, qty]
  None           \* no warehouse, no invoice

ASSUME InventoryAssumption ==
  /\ IsFiniteSet(Products) /\ IsFiniteSet(Warehouses)
  /\ Qtys \subseteq Nat \ {0} /\ Costs \subseteq Nat
  /\ \A p \in Products : ReorderPoint[p] \in Nat /\ CostPrice[p] \in Nat
  /\ Invoiced \subseteq Seq([product : Products, qty : Nat \ {0}])
  /\ Sheets \subseteq Seq([product : Products, qty : Nat])
  /\ None \notin Warehouses \cup Nat

VARIABLES
  method,      \* "average" or "fifo", for good
  warehouse,   \* by warehouse: "absent", "plain" or "default"
  quants,      \* balances, by product and warehouse
  moves,       \* stock_move rows, in order
  books,       \* by account: debits less credits, in units of money
  counts,      \* cycle_count rows, in order
  alerts,      \* by product: low-stock notifications
  dropped,     \* variances that were returned and posted nowhere  (history)
  ops          \* stock operations that are left  (bound)

stockVars == <<method, warehouse, quants, moves, books, counts, alerts, dropped, ops>>

Accounts == {"inventory", "grni", "payable", "vat", "cogs", "variance", "adjustment"}

Enter(b, debit, credit, n) == [b EXCEPT ![debit] = @ + n, ![credit] = @ - n]

\* _post_inventory_valuation_variance
EnterVariance(b, v) == Enter(b, "variance", "inventory", v)
-----------------------------------------------------------------------------
(***************************************************************************)
(* Moves of stock.  A request that moves several lines works on a copy:    *)
(* the balances and moves so far, the value moved, the variances, and      *)
(* whether every line could be served.                                     *)
(***************************************************************************)
Loaded == [quants |-> quants, moves |-> moves, value |-> 0, variance |-> 0,
           crossed |-> {}, ok |-> TRUE]

Move(p, w, n, unit, type, doc) ==
  [product |-> p, at |-> w, qty |-> n, cost |-> HalfUp(unit, Scale), type |-> type, doc |-> doc]

\* receive_stock: n units of p for value
ReceiveStock(k, p, w, n, value, type, doc) ==
  LET r == Received(k.quants[p][w], n, value, method)
  IN [k EXCEPT !.quants[p][w] = r.quant,
               !.moves = Append(@, Move(p, w, n, HalfUp(value, n), type, doc)),
               !.value = @ + value, !.variance = @ + r.variance]

\* issue_stock
IssueStock(k, p, w, n, type, doc, allowNegative) ==
  LET q == k.quants[p][w]
      c == IssueCost(q, n, method)
  IN [k EXCEPT !.quants[p][w] = Issued(q, n, c, method),
               !.moves = Append(@, Move(p, w, -n, c.unit, type, doc)),
               !.value = @ + c.value, !.ok = @ /\ (c.enough \/ allowNegative)]

OnHand(qs, p) == SumFunction([w \in Warehouses |-> qs[p][w].qty])

\* Mutant: an alert only below the reorder point.
Crosses_Below(k, p, n) == LET after == OnHand(k.quants, p)
                          IN after + n >= ReorderPoint[p] /\ ReorderPoint[p] > after

\* _notify_if_crossed_low_stock
Crosses(k, p, n) == LET after == OnHand(k.quants, p)
                    IN after + n > ReorderPoint[p] /\ ReorderPoint[p] >= after

DefaultWarehouses == {w \in Warehouses : warehouse[w] = "default"}

\* Where a document's stock moves: its warehouse, or the company's default.
\* Empty if there is none; get_default_for_company finds two an error.
Site(w) == IF w # None /\ warehouse[w] # "absent" THEN {w}
           ELSE IF Cardinality(DefaultWarehouses) = 1 THEN DefaultWarehouses ELSE {}

Counted == ops > 0 /\ ops' = ops - 1

Adopt(k) == k.ok /\ quants' = k.quants /\ moves' = k.moves
-----------------------------------------------------------------------------
\* create_warehouse_with_default_location
CreateWarehouse(w, isDefault) ==
  /\ Counted /\ warehouse[w] = "absent"
  /\ warehouse' = [v \in Warehouses |->
       IF v = w THEN IF isDefault THEN "default" ELSE "plain"
       ELSE IF isDefault /\ warehouse[v] = "default" THEN "plain" ELSE warehouse[v]]
  /\ UNCHANGED <<method, quants, moves, books, counts, alerts, dropped>>

SetDefaultWarehouse(w) ==
  /\ Counted /\ warehouse[w] # "absent"
  /\ warehouse' = [v \in Warehouses |->
       IF v = w THEN "default" ELSE IF warehouse[v] = "default" THEN "plain" ELSE warehouse[v]]
  /\ UNCHANGED <<method, quants, moves, books, counts, alerts, dropped>>

\* POST /stock/receive: posts nothing, and discards the variance.
ManualReceive(p, w, n, unit) ==
  LET k == ReceiveStock(Loaded, p, w, n, n * unit * Scale, "receipt", <<"manual", 0>>)
  IN /\ Counted /\ warehouse[w] # "absent"
     /\ Adopt(k)
     /\ dropped' = dropped + k.variance
     /\ UNCHANGED <<method, warehouse, books, counts, alerts>>

\* _deduct_stock_for_lines of one invoice: an entry for each line that cost
\* something.
DeliverLine(k, x, w, doc) ==
  LET j == IssueStock(k, x.product, w, x.qty, "delivery", doc, FALSE)
      c == j.value - k.value
  IN [j EXCEPT !.value = k.value + IF c > 0 THEN c ELSE 0,
               !.crossed = @ \cup IF Crosses(j, x.product, x.qty) THEN {x.product} ELSE {}]

Delivered(w, lines, doc) == FoldLeft(LAMBDA k, x : DeliverLine(k, x, w, doc), Loaded, lines)

Deliver(w, lines) ==
  LET k == Delivered(w, lines, <<"invoice", Len(moves)>>)
  IN /\ Counted
     /\ Adopt(k)
     /\ books' = Enter(books, "cogs", "inventory", HalfUp(k.value, Scale))
     /\ alerts' = [p \in Products |-> alerts[p] + IF p \in k.crossed THEN 1 ELSE 0]
     /\ UNCHANGED <<method, warehouse, counts, dropped>>

Deliveries(doc) == {i \in DOMAIN moves : moves[i].doc = doc /\ moves[i].type = "delivery"}

\* A return to stock and its entries.
Restocked(k) ==
  /\ Adopt(k)
  /\ books' = EnterVariance(Enter(books, "inventory", "cogs", HalfEven(k.value, Scale)), k.variance)
  /\ UNCHANGED <<method, warehouse, counts, alerts, dropped>>

\* _restock_for_credit_note: what the invoice delivered, at the cost it was
\* delivered at.
ReturnMove(k, m, doc, credit) ==
  IF m.doc = doc /\ m.type = "delivery"
  THEN ReceiveStock(k, m.product, m.at, -m.qty, -m.qty * m.cost * Scale, "return", credit)
  ELSE k

Returned(doc, credit) == FoldLeft(LAMBDA k, m : ReturnMove(k, m, doc, credit), Loaded, moves)

RestockInvoice(doc) ==
  /\ Counted /\ Deliveries(doc) # {}
  /\ Restocked(Returned(doc, <<"credit", Len(moves)>>))

\* _restock_for_credit_note_lines: at the cost of the original delivery of the
\* product (the last one) or at the average; nothing for what has no cost.
RestockLine(w, p, n, doc) ==
  LET d    == {i \in Deliveries(doc) : moves[i].product = p}
      unit == IF d # {} THEN moves[Max(d)].cost * Scale ELSE quants[p][w].avg
  IN /\ Counted /\ unit > 0
     /\ Restocked(ReceiveStock(Loaded, p, w, n, n * unit, "return", <<"credit", Len(moves)>>))

\* Mutant: the goods arrive at the destination's average.
Transfer_AtAverage(p, from, to, n) ==
  LET doc == <<"transfer", Len(moves)>>
      out == IssueStock(Loaded, p, from, n, "transfer", doc, FALSE)
      in  == ReceiveStock(out, p, to, n, n * out.quants[p][to].avg, "receipt", doc)
  IN /\ Counted /\ warehouse[from] # "absent" /\ warehouse[to] # "absent"
     /\ Adopt(in)
     /\ dropped' = dropped + in.variance
     /\ UNCHANGED <<method, warehouse, books, counts, alerts>>

\* create_transfer: an issue and a receipt for the same value; no entry, and
\* the variance is discarded.
Transfer(p, from, to, n) ==
  LET doc == <<"transfer", Len(moves)>>
      out == IssueStock(Loaded, p, from, n, "transfer", doc, FALSE)
      in  == ReceiveStock(out, p, to, n, out.value, "receipt", doc)
  IN /\ Counted /\ warehouse[from] # "absent" /\ warehouse[to] # "absent"
     /\ Adopt(in)
     /\ dropped' = dropped + in.variance
     /\ UNCHANGED <<method, warehouse, books, counts, alerts>>

\* create_cycle_count: the balances are copied into the lines.
CreateCycleCount(w, counted) ==
  /\ Counted /\ warehouse[w] # "absent"
  /\ counts' = Append(counts, [at |-> w, status |-> "draft", lines |->
       [i \in DOMAIN counted |-> [product |-> counted[i].product, counted |-> counted[i].qty,
                                  system |-> quants[counted[i].product][w].qty]]])
  /\ UNCHANGED <<method, warehouse, quants, moves, books, alerts, dropped>>

\* approve_cycle_count: the differences to the copies, at the average (or the
\* standard cost of what never was there), and one entry for their net value.
\* Its lines are not in the value if they are issues: they are subtracted.
AdjustLine(k, x, w, doc) ==
  LET q    == k.quants[x.product][w]
      diff == x.counted - x.system
      unit == IF q.row THEN q.avg ELSE CostPrice[x.product] * Scale
      less == IssueStock(k, x.product, w, -diff, "adjustment", doc, FALSE)
  IN IF diff = 0 THEN k
     ELSE IF diff > 0 THEN ReceiveStock(k, x.product, w, diff, diff * unit, "adjustment", doc)
     ELSE [less EXCEPT !.value = 2 * k.value - @]

Adjusted(w, lines, doc) == FoldLeft(LAMBDA k, x : AdjustLine(k, x, w, doc), Loaded, lines)

ApproveCycleCount(c) ==
  LET k == Adjusted(counts[c].at, counts[c].lines, <<"count", c>>)
  IN /\ Counted /\ counts[c].status # "approved"
     /\ Adopt(k)
     /\ books' = EnterVariance(Enter(books, "inventory", "adjustment", HalfUp(k.value, Scale)), k.variance)
     /\ counts' = [counts EXCEPT ![c].status = "approved"]
     /\ UNCHANGED <<method, warehouse, alerts, dropped>>
-----------------------------------------------------------------------------
Invoices == {moves[i].doc : i \in {j \in DOMAIN moves : moves[j].type = "delivery"}}

StockNext ==
  \/ \E w \in Warehouses : \/ \E d \in BOOLEAN : CreateWarehouse(w, d)
                           \/ SetDefaultWarehouse(w)
                           \/ \E s \in Sheets : CreateCycleCount(w, s)
  \/ \E p \in Products, w \in Warehouses, n \in Qtys, u \in Costs : ManualReceive(p, w, n, u)
  \/ \E o \in Warehouses \cup {None} : \E w \in Site(o), x \in Invoiced : Deliver(w, x)
  \/ \E d \in Invoices : RestockInvoice(d)
  \/ \E o \in Warehouses \cup {None} : \E w \in Site(o), p \in Products, n \in Qtys, d \in Invoices \cup {None} :
       RestockLine(w, p, n, d)
  \/ \E p \in Products, v, w \in Warehouses, n \in Qtys : Transfer(p, v, w, n)
  \/ \E c \in DOMAIN counts : ApproveCycleCount(c)
-----------------------------------------------------------------------------
(***************************************************************************)
(* What is read.                                                           *)
(***************************************************************************)
\* product_cardex of all warehouses (None) or of one, from the i-th move on
Cardex(p, w, i) ==
  LET Of(J) == {j \in J : moves[j].product = p /\ (w = None \/ moves[j].at = w)}
      Signed(J) == SumFunction([j \in J |-> moves[j].qty])
      opening == Signed(Of(1 .. i - 1))
      lines   == Of(i .. Len(moves))
  IN [opening |-> opening, lines |-> lines, closing |-> opening + Signed(lines)]

\* /stock/balance and /stock/balance-by-product
BalanceByWarehouse(p) == [w \in Warehouses |-> quants[p][w].qty]

\* /stock/low-stock
LowStock == {p \in Products : OnHand(quants, p) <= ReorderPoint[p]}

\* InventoryValuationReportService.valuation: a row for each balance
ValuationRows(p) == [w \in Warehouses |->
  LET q == quants[p][w]  value == HalfEven(Worth(q, method), Scale)
      n == IF method = "fifo" THEN LayersQty(q) ELSE q.qty
  IN [qty |-> n, value |-> value]]

\* The total of the printed valuation
ValuationTotal == SumFunction([x \in Products \X Warehouses |-> ValuationRows(x[1])[x[2]].value])

\* get_reconciliation
InventoryReconciliation ==
  [gl |-> books["inventory"], valuation |-> ValuationTotal, difference |-> ValuationTotal - books["inventory"]]
-----------------------------------------------------------------------------
(***************************************************************************)
(* Properties.                                                             *)
(***************************************************************************)
QuantRows == [row : BOOLEAN, qty : Int, avg : Int, layers : Seq([qty : Nat, cost : Int])]

MoveTypes == {"receipt", "delivery", "return", "transfer", "adjustment"}
Docs == {"opening", "manual", "invoice", "credit", "transfer", "count", "goods_receipt", "debit_note"} \X Nat
MoveRows == [product : Products, at : Warehouses, qty : Int, cost : Int, type : MoveTypes, doc : Docs]

CountRows == [at : Warehouses, status : {"draft", "approved"},
              lines : Seq([product : Products, counted : Nat, system : Int])]

\* A balance without a row is empty, and a delivery takes something away.
StockTypeOK ==
  /\ method \in {"average", "fifo"}
  /\ warehouse \in [Warehouses -> {"absent", "plain", "default"}]
  /\ quants \in [Products -> [Warehouses -> QuantRows]]
  /\ \A p \in Products, w \in Warehouses : quants[p][w].row \/ quants[p][w] = NoQuant
  /\ moves \in Seq(MoveRows)
  /\ \A i \in DOMAIN moves : moves[i].type = "delivery" => moves[i].qty < 0
  /\ counts \in Seq(CountRows)
  /\ books \in [Accounts -> Int]
  /\ alerts \in [Products -> Nat] /\ dropped \in Int /\ ops \in Nat

\* What came in by hand is in the stock and in no entry.
ByHand == TotalOf([i \in DOMAIN moves |->
            IF moves[i].doc[1] = "manual" THEN moves[i].qty * moves[i].cost ELSE 0])

\* What was on hand, after the i-th move, of what it moved where it moved it
BalanceAfter(i) == TotalOf([j \in 1 .. i |->
  IF moves[j].product = moves[i].product /\ moves[j].at = moves[i].at THEN moves[j].qty ELSE 0])

\* Rounding: a unit for each unit moved, at most, and with the average half a
\* fine unit for each unit on hand after the move.
Tolerance == TotalOf([i \in DOMAIN moves |-> Magnitude(moves[i].qty)])
               + TotalOf([i \in DOMAIN moves |-> Magnitude(BalanceAfter(i))]) \div (2 * Scale)

\* A unit was issued for less than nothing: such an issue is in no entry.
NegativeCost == \E i \in DOMAIN moves : moves[i].qty < 0 /\ moves[i].cost < 0

\* However stock was bought, sold, returned, counted, overdrawn and replenished,
\* the inventory account is what the valuation report says the stock is worth,
\* but for roundings, for what came in by hand and for the variances nobody
\* posts; unless a price fell so far while a location was overdrawn that its
\* average cost became negative.
BooksFollowStock ==
  ~NegativeCost => Magnitude(InventoryReconciliation.difference + dropped - ByHand) <= Tolerance

\* receive_stock's comment: what the register cannot carry is posted, "so the GL
\* keeps matching this register exactly instead of drifting".
BooksMatchStock ==
  ~NegativeCost /\ ByHand = 0 => Magnitude(InventoryReconciliation.difference) <= Tolerance

\* What was on hand of p after the first i moves
OnHandAfter(p, i) == TotalOf([j \in 1 .. i |-> IF moves[j].product = p THEN moves[j].qty ELSE 0])

\* Did the balance of p at w ever go below zero?
EverOverdrawn(p, w) == \E i \in DOMAIN moves :
  TotalOf([j \in 1 .. i |-> IF moves[j].product = p /\ moves[j].at = w THEN moves[j].qty ELSE 0]) < 0

\* The moves that took the total of p to its reorder point or below
Crossings(p) == {i \in DOMAIN moves :
  /\ moves[i].product = p /\ moves[i].type = "delivery"
  /\ OnHandAfter(p, i - 1) > ReorderPoint[p] /\ ReorderPoint[p] >= OnHandAfter(p, i)}

\* The cardex of a product, opened at any time, closes with what the balances
\* say, by warehouse and in all; the layers of a balance add up to it as long as
\* it was never overdrawn; and an alert was sent for each time that a delivery
\* took the total to or below the reorder point.
CardexIsOnHand == \A p \in Products :
  /\ \A i \in 1 .. Len(moves) + 1 :
       /\ Cardex(p, None, i).closing = OnHand(quants, p)
       /\ \A w \in Warehouses : Cardex(p, w, i).closing = BalanceByWarehouse(p)[w]
  /\ method = "fifo" => \A w \in Warehouses :
       EverOverdrawn(p, w) \/ LayersQty(quants[p][w]) = quants[p][w].qty
  /\ alerts[p] = Cardinality(Crossings(p))
=============================================================================
