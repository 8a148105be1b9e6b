------------------------------ MODULE Purchasing ------------------------------
(***************************************************************************)
(* Purchase orders with their approval, goods receipts, vendor bills and   *)
(* debit notes, on the stock and the books of Inventory.                   *)
(*                                                                         *)
(* A request reads the order or the bill without a lock, decides, and      *)
(* writes when it commits; other requests commit in between.  Quantities   *)
(* received and billed alone are read again, and locked, where they are    *)
(* added to.  A failing request leaves no trace.                           *)
(***************************************************************************)
EXTENDS Inventory

CONSTANTS
  Txns,         \* requests that run at the same time
  Services,     \* products that are not stockable
  Baskets,      \* lines of order payloads: sequences of [product, qty, price]
  BillPrices,   \* prices a bill may name
  Returns,      \* lines of returns without a bill: [product, qty, price]
  MaxOrders,    \* bound: orders of a behaviour
  Threshold,    \* po_approval_threshold
  VatPercent,
  Cent,         \* a hundredth, in the unit of prices
  Openings,     \* what a company may have before: see Init
  Idle

OrderPayload == [product : Products \cup Services, qty : Nat \ {0}, price : Nat]

ASSUME PurchasingAssumption ==
  /\ Services \cap Products = {}
  /\ VatPercent \in Nat /\ Threshold \in Nat /\ Cent \in Nat \ {0} /\ BillPrices \subseteq Nat
  /\ Baskets \subseteq Seq(OrderPayload) \ {<<>>}
  /\ Returns \subseteq OrderPayload

VARIABLES
  orders,      \* purchase_order rows with their lines; the index is the number
  receipts,    \* goods_receipt rows with their lines
  bills,       \* vendor_bill rows of both types with their lines
  tx,          \* what each request has read and is about to write
  contended,   \* has a bill ever been written by a request that had read it
               \* before another wrote it?  (history)
  raced,       \* the same of orders  (history)
  left         \* requests that may still begin  (bound)

purchaseVars == <<orders, receipts, bills, tx, contended, raced, left>>
vars == <<stockVars, purchaseVars>>

SumLines(s, F(_)) == TotalOf([i \in DOMAIN s |-> F(s[i])])

\* What the lines ls of a document say of line i of its order
QtyOf(ls, i) == SumLines(ls, LAMBDA l : IF l.line = i THEN l.qty ELSE 0)

\* What the last of them says
LastOf(ls, i) == LET J == {j \in DOMAIN ls : ls[j].line = i} IN IF J = {} THEN 0 ELSE ls[Max(J)].qty

Value(s) == SumLines(s, LAMBDA l : l.qty * l.price)

\* line_total and tax_amount of a bill's line, rounded to hundredths
NetOf(l) == Cent * HalfEven(l.qty * l.price, Cent)
TaxOf(l) == Cent * HalfEven(NetOf(l) * VatPercent, 100 * Cent)
Net(ls)  == SumLines(ls, NetOf)
Tax(ls)  == SumLines(ls, TaxOf)

NewLines(b) == [i \in DOMAIN b |-> [product |-> b[i].product, qty |-> b[i].qty, price |-> b[i].price,
                                    received |-> 0, billed |-> 0, closed |-> FALSE]]

\* edition: its lines are replaced as a whole, and have new identities then.
NewOrder(b, w) == [status |-> "draft", approval |-> "not_required", total |-> Value(b),
                   at |-> w, lines |-> NewLines(b), edition |-> 1]

\* Rows of purchase_order, and what a company may open with
OrderRows ==
  [status : {"draft", "pending_approval", "confirmed", "partially_received", "done", "closed"},
   approval : {"not_required", "pending", "approved", "rejected"}, total : Int, at : Warehouses \cup {None},
   lines : Seq([product : Products \cup Services, qty : Nat \ {0}, price : Nat,
                received : Nat, billed : Int, closed : BOOLEAN]) \ {<<>>},
   edition : Nat]

Untouched(x) ==
  /\ x.status \in {"draft", "pending_approval", "confirmed"}
  /\ x.status = "confirmed" /\ x.total > Threshold => x.approval = "approved"
  /\ \A i \in DOMAIN x.lines : x.lines[i].received = 0 /\ x.lines[i].billed = 0 /\ ~x.lines[i].closed

ASSUME OpeningsAssumption == \A o \in Openings :
  /\ o.methods \subseteq {"average", "fifo"} /\ o.ops \in Nat /\ o.requests \in Nat
  /\ o.warehouse \in [Warehouses -> {"absent", "plain", "default"}]
  /\ o.goods \in Seq([product : Products, at : Warehouses, qty : Int \ {0}, price : Nat])
  /\ o.orders \in Seq(OrderRows) /\ \A i \in DOMAIN o.orders : Untouched(o.orders[i])

\* A bill; line is the number of an order's line, and of is 0 in a return
\* without an order.
NewBill(type, status, o, w, orig, ls) ==
  [type |-> type, status |-> status, of |-> o, at |-> w, original |-> orig, lines |-> ls,
   subtotal |-> Net(ls), tax |-> Tax(ls)]

NextNumber(type) == 1 + Cardinality({b \in DOMAIN bills : bills[b].type = type})

\* check_three_way_match: a bill against the lines of its order
Matches(ls, bl) == \A i \in DOMAIN bl :
  LET l == ls[bl[i].line]
  IN bl[i].qty <= l.received /\ bl[i].qty <= l.qty /\ bl[i].price = l.price

MatchStatus(ls, bl) == IF Matches(ls, bl) THEN "matched" ELSE "mismatched"

\* qty_billed of the lines that bl names, changed by sign * qty.  A line is read
\* from the database each time it is named, and an earlier change of it by the
\* same request is not there yet: the last one is what is written.
AddBilled(ls, bl, sign) == [i \in DOMAIN ls |-> [ls[i] EXCEPT !.billed = @ + sign * LastOf(bl, i)]]

AddReceived(ls, rl) == [i \in DOMAIN ls |-> [ls[i] EXCEPT !.received = @ + LastOf(rl, i)]]
-----------------------------------------------------------------------------
(***************************************************************************)
(* A request begins: it reads and decides.                                 *)
(***************************************************************************)
Request(op, o, b, arg) ==
  [op |-> op, o |-> o, b |-> b, arg |-> arg,
   seen |-> IF b # 0 THEN bills[b] ELSE IF o # 0 THEN orders[o] ELSE None,
   edition |-> IF o # 0 THEN orders[o].edition ELSE 0,
   number |-> IF op = "receive" THEN Len(receipts) + 1
              ELSE IF op = "bill" THEN NextNumber("standard")
              ELSE IF op = "debit" THEN NextNumber("debit_note") ELSE 0]

Begin(t, op, o, b, arg) ==
  /\ tx[t] = Idle /\ left > 0
  /\ left' = left - 1
  /\ tx' = [tx EXCEPT ![t] = Request(op, o, b, arg)]
  /\ UNCHANGED <<stockVars, orders, receipts, bills, contended, raced>>

ReadUpdate(t, o)  == \E b \in Baskets, w \in Warehouses \cup {None} :
  orders[o].status = "draft" /\ Begin(t, "update", o, 0, [basket |-> b, at |-> w])

ReadConfirm(t, o) == orders[o].status = "draft" /\ Begin(t, "confirm", o, 0, None)

ReadApproval(t, o) == \E d \in {"approve", "reject"} :
  orders[o].status = "pending_approval" /\ Begin(t, d, o, 0, None)

Receivable == {"confirmed", "partially_received"}

ShortLines(x) == {i \in DOMAIN x.lines : x.lines[i].received < x.lines[i].qty /\ ~x.lines[i].closed}

ReadShortClose(t, o) ==
  orders[o].status \in Receivable /\ ShortLines(orders[o]) # {} /\ Begin(t, "short_close", o, 0, None)

ReadReopen(t, o) == \E i \in DOMAIN orders[o].lines :
  orders[o].lines[i].closed /\ Begin(t, "reopen", o, 0, i)

\* Payloads of receipts and bills of an order: one line of it, or two.
Picked(o) == {<<i>> : i \in DOMAIN orders[o].lines}
               \cup {<<x[1], x[2]>> : x \in {y \in (DOMAIN orders[o].lines) \X (DOMAIN orders[o].lines) : y[1] <= y[2]}}

ReadReceive(t, o) == \E s \in Picked(o) : \E q \in [DOMAIN s -> Qtys] :
  /\ orders[o].status \in Receivable
  /\ Begin(t, "receive", o, 0, [i \in DOMAIN s |-> [line |-> s[i], qty |-> q[i]]])

\* A line of a bill, for line i of the order o
BillLine(o, i, n, u) == [line |-> i, product |-> orders[o].lines[i].product, qty |-> n, price |-> u]

ReadBill(t, o) == \E i \in DOMAIN orders[o].lines, n \in Qtys, u \in BillPrices :
  Begin(t, "bill", o, 0, <<BillLine(o, i, n, u)>>)

Editable == {"matched", "mismatched"}

ReadEditBill(t, b) ==
  /\ bills[b].type = "standard" /\ bills[b].status \in Editable
  /\ \E i \in DOMAIN orders[bills[b].of].lines, n \in Qtys, u \in BillPrices :
       Begin(t, "edit_bill", bills[b].of, b, <<BillLine(bills[b].of, i, n, u)>>)

ReadPostBill(t, b) ==
  bills[b].status \notin {"mismatched", "posted"} /\ Begin(t, "post_bill", bills[b].of, b, None)

ReadDebitNote(t, b) == \E restock \in BOOLEAN :
  /\ bills[b].type = "standard" /\ bills[b].status = "posted"
  /\ Begin(t, "debit", bills[b].of, b, [lines |-> bills[b].lines, restock |-> restock,
           of |-> bills[b].of, at |-> bills[b].at])

\* issue_debit_note_for_lines: with an original, which need not be posted, or
\* without.
ReadReturn(t) == \E b \in DOMAIN bills \cup {0}, l \in Returns, restock \in BOOLEAN :
  /\ b # 0 => bills[b].type = "standard"
  /\ Begin(t, "debit", 0, b, [restock |-> restock, of |-> 0, at |-> IF b = 0 THEN None ELSE bills[b].at,
           lines |-> <<[line |-> 0, product |-> l.product, qty |-> l.qty, price |-> l.price]>>])
-----------------------------------------------------------------------------
(***************************************************************************)
(* A request writes and commits.                                           *)
(***************************************************************************)
\* The session writes an attribute only if its new value is not the one it read.
Written(read, new, now) == IF new = read THEN now ELSE new

SameLines(t) == orders[tx[t].o].edition = tx[t].edition

Ends(t) == tx' = [tx EXCEPT ![t] = Idle] /\ UNCHANGED left

\* Any failure: a check, a unique number taken, a deadlock, a crash.
Rollback(t) == tx[t] # Idle /\ Ends(t) /\ UNCHANGED <<stockVars, orders, receipts, bills, contended, raced>>

WriteOrder(t, x) ==
  /\ orders' = [orders EXCEPT ![tx[t].o] = x]
  /\ raced' = (raced \/ (tx[t].op \in {"update", "confirm", "approve", "reject"} /\ orders[tx[t].o] # tx[t].seen))
  /\ Ends(t)

OrderOnly == UNCHANGED <<stockVars, receipts, bills, contended>>

CreateOrder == \E b \in Baskets, w \in Warehouses \cup {None} :
  /\ left > 0 /\ left' = left - 1 /\ Len(orders) < MaxOrders
  /\ orders' = Append(orders, NewOrder(b, w))
  /\ UNCHANGED <<stockVars, receipts, bills, tx, contended, raced>>

\* replace_lines deletes the lines: not if a receipt or a bill refers to them.
UpdateOrder(t) == LET x == orders[tx[t].o] IN
  /\ tx[t] # Idle /\ tx[t].op = "update"
  /\ \A r \in DOMAIN receipts : receipts[r].of # tx[t].o
  /\ \A b \in DOMAIN bills : bills[b].of = tx[t].o => \A i \in DOMAIN bills[b].lines : bills[b].lines[i].line = 0
  /\ WriteOrder(t, [x EXCEPT !.edition = @ + 1, !.lines = NewLines(tx[t].arg.basket),
                    !.at = Written(tx[t].seen.at, tx[t].arg.at, @),
                    !.total = Written(tx[t].seen.total, Value(tx[t].arg.basket), @)])
  /\ OrderOnly

ConfirmOrder(t) == LET x == orders[tx[t].o] IN
  /\ tx[t] # Idle /\ tx[t].op = "confirm"
  /\ WriteOrder(t, IF tx[t].seen.total > Threshold
                   THEN [x EXCEPT !.status = "pending_approval", !.approval = "pending"]
                   ELSE [x EXCEPT !.status = "confirmed"])
  /\ OrderOnly

DecideApproval(t) == LET x == orders[tx[t].o] IN
  /\ tx[t] # Idle /\ tx[t].op \in {"approve", "reject"}
  /\ WriteOrder(t, IF tx[t].op = "approve" THEN [x EXCEPT !.status = "confirmed", !.approval = "approved"]
                   ELSE [x EXCEPT !.status = "draft", !.approval = "rejected"])
  /\ OrderOnly

Closed(ls, short) == [i \in DOMAIN ls |-> [ls[i] EXCEPT !.closed = @ \/ i \in short]]

ShortClose(t) == LET x == orders[tx[t].o] IN
  /\ tx[t] # Idle /\ tx[t].op = "short_close" /\ SameLines(t)
  /\ WriteOrder(t, [x EXCEPT !.status = "closed", !.lines = Closed(@, ShortLines(tx[t].seen))])
  /\ OrderOnly

AnyReceived(ls) == \E i \in DOMAIN ls : ls[i].received > 0

ReopenLine(t) == LET x == orders[tx[t].o]  s == tx[t].seen IN
  /\ tx[t] # Idle /\ tx[t].op = "reopen" /\ SameLines(t)
  /\ WriteOrder(t, [x EXCEPT !.lines[tx[t].arg].closed = FALSE,
       !.status = IF s.status # "closed" THEN @
                  ELSE IF AnyReceived(s.lines) THEN "partially_received" ELSE "confirmed"])
  /\ OrderOnly

Stockable(p) == p \in Products

\* Mutant: only the payload's own quantity is compared with the ordered one.
AcceptsReceipt_PerReceipt(ls, rl) == \A i \in DOMAIN rl :
  rl[i].qty <= ls[rl[i].line].qty /\ ~ls[rl[i].line].closed

\* Each line in turn is locked, read from the database and checked against
\* what is left there, which the receipt itself has not changed yet.
AcceptsReceipt(ls, rl) == \A i \in DOMAIN rl :
  LET l == ls[rl[i].line] IN l.received + rl[i].qty <= l.qty /\ ~l.closed

\* What the receipt makes of the order's status.
StatusAfter(status, ls) ==
  IF \A i \in DOMAIN ls : ls[i].received >= ls[i].qty /\ ~ls[i].closed THEN "done"
  ELSE IF AnyReceived(ls) THEN "partially_received" ELSE status

\* The goods of a receipt's lines enter the stock, services do not.
ReceiveLine(k, l, w, doc) ==
  IF Stockable(l.product) THEN ReceiveStock(k, l.product, w, l.qty, l.qty * l.price * Scale, "receipt", doc) ELSE k

Arrived(ls, w, doc) == FoldLeft(LAMBDA k, l : ReceiveLine(k, l, w, doc), Loaded, ls)

\* record_receipt with the bill it registers.
Receive(t) == LET x == orders[tx[t].o]  rl == tx[t].arg IN
  /\ tx[t] # Idle /\ tx[t].op = "receive" /\ SameLines(t)
  /\ tx[t].number = Len(receipts) + 1
  /\ AcceptsReceipt(x.lines, rl)
  /\ \E w \in Site(tx[t].seen.at) :
       LET bl == [i \in DOMAIN rl |-> BillLine(tx[t].o, rl[i].line, rl[i].qty, x.lines[rl[i].line].price)]
           k  == Arrived(bl, w, <<"goods_receipt", tx[t].number>>)
           ls == AddReceived(x.lines, rl)
       IN /\ Adopt(k)
          /\ books' = EnterVariance(Enter(books, "inventory", "grni", HalfUp(k.value, Scale)), k.variance)
          /\ receipts' = Append(receipts, [of |-> tx[t].o, lines |-> bl])
          /\ bills' = Append(bills, NewBill("standard", MatchStatus(ls, bl), tx[t].o, tx[t].seen.at, 0, bl))
          /\ WriteOrder(t, [x EXCEPT !.lines = AddBilled(ls, bl, 1), !.status = Written(tx[t].seen.status, StatusAfter(tx[t].seen.status, ls), @)])
  /\ UNCHANGED <<method, warehouse, counts, alerts, dropped, ops, contended>>

\* register_bill: matched with the lines as they were read.  What other bills
\* bill already is not looked at.
RegisterBill(t) == LET x == orders[tx[t].o]  bl == tx[t].arg IN
  /\ tx[t] # Idle /\ tx[t].op = "bill" /\ SameLines(t)
  /\ tx[t].number = NextNumber("standard")
  /\ bills' = Append(bills, NewBill("standard", MatchStatus(tx[t].seen.lines, bl), tx[t].o, tx[t].seen.at, 0, bl))
  /\ WriteOrder(t, [x EXCEPT !.lines = AddBilled(@, bl, 1)])
  /\ UNCHANGED <<stockVars, receipts, contended>>

Contends(t) == contended' = (contended \/ bills[tx[t].b] # tx[t].seen)

\* update_bill: takes back the lines it has read, adds the new ones.
EditBill(t) == LET x == orders[tx[t].o]  b == tx[t].b  bl == tx[t].arg  s == tx[t].seen IN
  /\ tx[t] # Idle /\ tx[t].op = "edit_bill"
  /\ bills' = [bills EXCEPT ![b].lines = bl,
                            ![b].status = Written(s.status, MatchStatus(x.lines, bl), @),
                            ![b].subtotal = Written(s.subtotal, Net(bl), @),
                            ![b].tax = Written(s.tax, Tax(bl), @)]
  /\ WriteOrder(t, [x EXCEPT !.lines = AddBilled(AddBilled(@, s.lines, -1), bl, 1)])
  /\ Contends(t)
  /\ UNCHANGED <<stockVars, receipts>>

EnterBill(b, x, sign) == Enter(Enter(b, "grni", "payable", sign * x.subtotal), "vat", "payable", sign * x.tax)

\* Mutant: what was accrued at receipt is cleared with the tax.
PostBill_ClearsTotal(t) == LET s == tx[t].seen IN
  /\ tx[t] # Idle /\ tx[t].op = "post_bill"
  /\ books' = Enter(books, "grni", "payable", s.subtotal + s.tax)
  /\ bills' = [bills EXCEPT ![tx[t].b].status = "posted"]
  /\ Contends(t) /\ Ends(t)
  /\ UNCHANGED <<method, warehouse, quants, moves, counts, alerts, dropped, ops, orders, receipts, raced>>

\* approve_and_post
PostBill(t) ==
  /\ tx[t] # Idle /\ tx[t].op = "post_bill"
  /\ books' = EnterBill(books, tx[t].seen, 1)
  /\ bills' = [bills EXCEPT ![tx[t].b].status = "posted"]
  /\ Contends(t) /\ Ends(t)
  /\ UNCHANGED <<method, warehouse, quants, moves, counts, alerts, dropped, ops, orders, receipts, raced>>

\* _restock_for_debit_note
ReturnLine(k, l, w, doc) ==
  IF Stockable(l.product) THEN IssueStock(k, l.product, w, l.qty, "return", doc, TRUE) ELSE k

SentBack(ls, w, doc) == FoldLeft(LAMBDA k, l : ReturnLine(k, l, w, doc), Loaded, ls)

\* A debit note of a whole bill has the bill's amounts, a return its own.
NoteOf(a, orig, s) ==
  LET note == NewBill("debit_note", "posted", a.of, a.at, orig, a.lines)
  IN IF a.of = 0 THEN note ELSE [note EXCEPT !.subtotal = s.subtotal, !.tax = s.tax]

\* issue_debit_note and issue_debit_note_for_lines with _restock_for_debit_note:
\* the bill's entry reversed; then the goods leave, overdrawing if need be, at
\* what they cost now, and that much is entered, if it is more than nothing.
\* Without a place to take them from nothing leaves.
DebitNote(t) ==
  LET a    == tx[t].arg
      note == NoteOf(a, tx[t].b, tx[t].seen)
      home == IF a.of # 0 THEN orders[a.of].at ELSE None
      Left == IF a.restock THEN {SentBack(a.lines, w, <<"debit_note", tx[t].number>>) : w \in Site(home)} ELSE {}
  IN /\ tx[t] # Idle /\ tx[t].op = "debit"
     /\ tx[t].number = NextNumber("debit_note")
     /\ bills' = Append(bills, note)
     /\ \E k \in IF Left = {} THEN {Loaded} ELSE Left :
          /\ quants' = k.quants /\ moves' = k.moves
          /\ books' = Enter(EnterBill(books, note, -1), "grni", "inventory",
                            IF k.value > 0 THEN HalfUp(k.value, Scale) ELSE 0)
     /\ Ends(t)
     /\ UNCHANGED <<method, warehouse, counts, alerts, dropped, ops, orders, receipts, contended, raced>>
-----------------------------------------------------------------------------
PurchaseNext ==
  \/ CreateOrder
  \/ \E t \in Txns :
       \/ \E o \in DOMAIN orders :
            \/ ReadUpdate(t, o) \/ ReadConfirm(t, o) \/ ReadApproval(t, o) \/ ReadShortClose(t, o)
            \/ ReadReopen(t, o) \/ ReadReceive(t, o) \/ ReadBill(t, o)
       \/ \E b \in DOMAIN bills : ReadEditBill(t, b) \/ ReadPostBill(t, b) \/ ReadDebitNote(t, b)
       \/ ReadReturn(t) \/ Rollback(t)
       \/ UpdateOrder(t) \/ ConfirmOrder(t) \/ DecideApproval(t) \/ ShortClose(t) \/ ReopenLine(t)
       \/ Receive(t) \/ RegisterBill(t) \/ EditBill(t) \/ PostBill(t) \/ DebitNote(t)

\* A company opens with warehouses, with goods that were received and returned
\* before (in that order, each at warehouse at), and with orders.
Nothing == [quants |-> [p \in Products |-> [w \in Warehouses |-> NoQuant]], moves |-> <<>>,
            value |-> 0, variance |-> 0, crossed |-> {}, ok |-> TRUE]

OpenLine(k, e) ==
  IF e.qty > 0 THEN ReceiveStock(k, e.product, e.at, e.qty, e.qty * e.price * Scale, "receipt", <<"opening", 0>>)
  ELSE [IssueStock(k, e.product, e.at, -e.qty, "return", <<"opening", 0>>, TRUE) EXCEPT !.value = 2 * k.value - @]

OpenedWith(goods) == FoldLeft(LAMBDA k, e : OpenLine(k, e), Nothing, goods)

Init ==
  /\ \E o \in Openings :
       LET k == OpenedWith(o.goods)
       IN /\ method \in o.methods /\ warehouse = o.warehouse
          /\ quants = k.quants /\ moves = k.moves
          /\ books = EnterVariance(Enter([a \in Accounts |-> 0], "inventory", "grni", HalfUp(k.value, Scale)), k.variance)
          /\ orders = o.orders /\ ops = o.ops /\ left = o.requests
  /\ counts = <<>> /\ alerts = [p \in Products |-> 0] /\ dropped = 0
  /\ receipts = <<>> /\ bills = <<>> /\ tx = [t \in Txns |-> Idle]
  /\ contended = FALSE /\ raced = FALSE

Next == (StockNext /\ UNCHANGED purchaseVars) \/ PurchaseNext

Spec == Init /\ [][Next]_vars
-----------------------------------------------------------------------------
(***************************************************************************)
(* Properties.                                                             *)
(***************************************************************************)
Ordered == UNION {{o} \X DOMAIN orders[o].lines : o \in DOMAIN orders}

\* Quantity of line i of the order o on documents
OnReceipts(o, i) == SumLines(receipts, LAMBDA r : IF r.of = o THEN QtyOf(r.lines, i) ELSE 0)

OnBills(o, i, Of(_)) ==
  SumLines(bills, LAMBDA b : IF b.of = o /\ b.type = "standard" /\ Of(b) THEN QtyOf(b.lines, i) ELSE 0)

\* A payload that names no line twice
Once(ls) == \A j, k \in DOMAIN ls : ls[j].line = ls[k].line => j = k

ReceivedOnce(o) == \A r \in DOMAIN receipts : receipts[r].of = o => Once(receipts[r].lines)

BilledOnce(o) == \A b \in DOMAIN bills : bills[b].of = o /\ bills[b].type = "standard" => Once(bills[b].lines)

\* However receipts, bills, edits, closings and reopenings of an order overlap,
\* its lines never say that more was received than was ordered, an order is done
\* only if they say that all of it was, and what they say was received and billed
\* is what its receipts and bills add up to.  The last is about orders whose
\* documents name a line once, and about bills no two requests changed at a time;
\* and unless two changed the order at a time, one above the threshold is
\* received only after an approval.
OrdersAreHonest ==
  /\ StockTypeOK
  /\ \A o \in DOMAIN orders : \A i \in DOMAIN orders[o].lines : LET l == orders[o].lines[i] IN
       /\ l.received <= l.qty
       /\ orders[o].status = "done" => l.received = l.qty
       /\ ReceivedOnce(o) => l.received = OnReceipts(o, i)
       /\ ~contended /\ BilledOnce(o) => l.billed = OnBills(o, i, LAMBDA b : TRUE)
  /\ ~raced => \A o \in DOMAIN orders :
       orders[o].status \notin {"draft", "pending_approval"} /\ orders[o].total > Threshold
         => orders[o].approval = "approved"

Sums(T, F(_)) == SumFunction([x \in T |-> F(x)])

\* What is accrued for goods received and not billed is just that: the lines'
\* own prices on what the receipts say arrived of stockable products, less what
\* posted bills bill, and less what these bills are off for rounding their lines
\* to hundredths, which is half of one a line at most; and payables and input tax
\* are what posted bills say less the debit notes.  (Unless two requests changed
\* one bill at a time; the accrual, as long as nothing was returned.)
AccrualsAreUnbilled ==
  ~contended =>
    /\ (\A b \in DOMAIN bills : bills[b].type = "standard") /\ (\A i \in DOMAIN moves : moves[i].doc[1] # "opening") =>
         -books["grni"] = Sums(Ordered, LAMBDA x : LET l == orders[x[1]].lines[x[2]] IN
                            l.price * ((IF Stockable(l.product) THEN OnReceipts(x[1], x[2]) ELSE 0)
                                        - OnBills(x[1], x[2], LAMBDA b : b.status = "posted")))
                          - SumLines(bills, LAMBDA b : IF b.status # "posted" THEN 0 ELSE b.subtotal - Value(b.lines))
    /\ \A b \in DOMAIN bills : bills[b].type = "standard" =>
         2 * Magnitude(bills[b].subtotal - Value(bills[b].lines)) <= Cent * Len(bills[b].lines)
    /\ -books["payable"] = SumLines(bills, LAMBDA b : IF b.status # "posted" THEN 0
                             ELSE (IF b.type = "standard" THEN 1 ELSE -1) * (b.subtotal + b.tax))
    /\ books["vat"] = SumLines(bills, LAMBDA b : IF b.status # "posted" THEN 0
                             ELSE (IF b.type = "standard" THEN 1 ELSE -1) * b.tax)

\* get_line_by_id_for_update's docstring: without its lock two receipts "can both
\* pass the not-over-ordered check, over-receiving/over-billing past what was
\* actually ordered".
ReceivedIsOrdered == \A o \in DOMAIN orders : \A i \in DOMAIN orders[o].lines :
  OnReceipts(o, i) <= orders[o].lines[i].qty

\* short_close_purchase_order's docstring: "a short-closed line simply can never
\* be billed for more than what actually arrived".
BilledHasArrived == \A o \in DOMAIN orders : \A i \in DOMAIN orders[o].lines : LET l == orders[o].lines[i] IN
  l.closed => OnBills(o, i, LAMBDA b : b.status \in {"matched", "posted"}) <= l.received
=============================================================================
