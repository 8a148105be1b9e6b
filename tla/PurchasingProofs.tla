---------------------------- MODULE PurchasingProofs --------------------------
(***************************************************************************)
(* What holds of Purchasing for every set of products, warehouses, orders  *)
(* and requests.                                                           *)
(*                                                                         *)
(* OrdersAreHonest: what the lines of an order say was received and billed *)
(* is what receipts and bills that name a line once say, in any overlap.   *)
(*                                                                         *)
(* Stock comes first, because a receipt moves it: the work of a request on *)
(* stock is a fold over the lines of a document, and what each line keeps  *)
(* the document keeps.  Then purchasing is typed, the effect of every      *)
(* operation on its order is stated once (the lemmas ...Is), and the three *)
(* parts of the invariant are shown to be kept by every step: quantities   *)
(* received, quantities billed, approvals.                                 *)
(*                                                                         *)
(* CardexIsOnHand: the running balances of the cardex, the layers and the  *)
(* alerts agree with the balances.  Each is a function of the sequence of  *)
(* moves, and the invariant says so of balances and moves together; it is  *)
(* kept by each line of a document, and by the document as a fold of them. *)
(*                                                                         *)
(* AccrualsAreUnbilled: the accounts of purchasing are sums over the       *)
(* documents that were posted to them, the accrual is also a sum over the  *)
(* lines of orders.  Documents name lines that their orders have           *)
(* (PlacedInv), at their prices (FairInv), and the books follow the        *)
(* documents (BooksInv); the two sums are then those of one table, by its  *)
(* rows and by its columns, but for the rounding of bills (NetsNear).      *)
(***************************************************************************)
EXTENDS Purchasing, SumLemmas, SequenceTheorems

(***************************************************************************)
(* Arithmetic.                                                             *)
(***************************************************************************)
LEMMA MagnitudeType ==
  ASSUME NEW n \in Int
  PROVE  /\ Magnitude(n) \in Nat
         /\ n # 0 => Magnitude(n) > 0
  BY DEF Magnitude

\* Rounding an integer quotient gives an integer.
LEMMA HalfUpType ==
  ASSUME NEW a \in Int, NEW b \in Int, b # 0
  PROVE  HalfUp(a, b) \in Int
  <1> DEFINE d == Magnitude(b)
             n == Magnitude(a)
             q == (2 * n + d) \div (2 * d)
  <1>1. n \in Nat /\ d \in Nat /\ d > 0
    BY MagnitudeType
  <1>2. q \in Int
    <2> HIDE DEF d, n
    <2>. QED BY <1>1
  <1>3. HalfUp(a, b) = IF (a < 0) = (b < 0) THEN q ELSE -q
    BY DEF HalfUp
  <1>. QED BY <1>2, <1>3

\* The same of the other rounding the code uses.
LEMMA HalfEvenType ==
  ASSUME NEW a \in Int, NEW b \in Nat \ {0}
  PROVE  HalfEven(a, b) \in Int
  <1>1. a \div b \in Int
    OBVIOUS
  <1>. QED BY <1>1 DEF HalfEven

\* A product of positive numbers is positive.
LEMMA ProductPositive ==
  ASSUME NEW m \in Nat \ {0}, NEW n \in Nat \ {0}
  PROVE  m * n \in Nat \ {0}
  OBVIOUS

\* The total of integers is an integer.
LEMMA TotalType ==
  ASSUME NEW n \in Nat, NEW s, DOMAIN s = 1 .. n, \A i \in 1 .. n : s[i] \in Int
  PROVE  TotalOf(s) \in Int
  BY SumOfIntegers, FS_Interval DEF TotalOf, SumFunction
-----------------------------------------------------------------------------
(***************************************************************************)
(* The balance of a product.                                               *)
(***************************************************************************)
Layers == Seq([qty : Nat, cost : Int])

\* A balance that receives goods is a row of its table.
LEMMA ReceivedType ==
  ASSUME NEW q \in QuantRows, NEW n \in Nat \ {0}, NEW value \in Int, NEW m
  PROVE  /\ Received(q, n, value, m).quant \in QuantRows
         /\ Received(q, n, value, m).quant.row
         /\ Received(q, n, value, m).variance \in Int
  <1> DEFINE held == q.qty * q.avg + value
             after == q.qty + n
             cost == HalfUp(value, n * Scale)
             r == Received(q, n, value, m)
  <1>1. q.row \in BOOLEAN /\ q.qty \in Int /\ q.avg \in Int /\ q.layers \in Layers
    BY DEF QuantRows, Layers
  <1>2. held \in Int /\ after \in Int
    BY <1>1
  <1>3. cost \in Int
    <2>1. n * Scale \in Nat \ {0}
      BY ProductPositive, ScaleAssumption
    <2>. QED BY <2>1, HalfUpType
  <1>4. after # 0 => HalfUp(held, after) \in Int
    <2> HIDE DEF held, after
    <2>. QED BY <1>2, HalfUpType
  <1>5. HalfUp(held, Scale) \in Int
    <2> HIDE DEF held
    <2>. QED BY <1>2, HalfUpType, ScaleAssumption
  <1>6. Append(q.layers, [qty |-> n, cost |-> cost]) \in Layers
    <2> HIDE DEF cost
    <2>. QED BY <1>1, <1>3 DEF Layers
  <1>7. r = IF m = "fifo"
            THEN [quant |-> [q EXCEPT !.row = TRUE, !.qty = after,
                                      !.layers = Append(q.layers, [qty |-> n, cost |-> cost])],
                  variance |-> 0]
            ELSE IF after # 0
            THEN [quant |-> [q EXCEPT !.row = TRUE, !.qty = after, !.avg = HalfUp(held, after)], variance |-> 0]
            ELSE [quant |-> [q EXCEPT !.row = TRUE, !.qty = after], variance |-> HalfUp(held, Scale)]
    BY DEF Received, QuantRows
  <1> HIDE DEF held, after, cost, r
  <1>8. r.quant \in QuantRows /\ r.quant.row /\ r.variance \in Int
    <2>1. CASE m = "fifo"
      <3>1. r.quant = [row |-> TRUE, qty |-> after, avg |-> q.avg,
                       layers |-> Append(q.layers, [qty |-> n, cost |-> cost])] /\ r.variance = 0
        BY <2>1, <1>7 DEF QuantRows
      <3>. QED BY <3>1, <1>1, <1>2, <1>6 DEF QuantRows, Layers
    <2>2. CASE m # "fifo" /\ after # 0
      <3>1. r.quant = [row |-> TRUE, qty |-> after, avg |-> HalfUp(held, after), layers |-> q.layers]
            /\ r.variance = 0
        BY <2>2, <1>7 DEF QuantRows
      <3>. QED BY <2>2, <3>1, <1>1, <1>2, <1>4 DEF QuantRows, Layers
    <2>3. CASE m # "fifo" /\ after = 0
      <3>1. r.quant = [row |-> TRUE, qty |-> after, avg |-> q.avg, layers |-> q.layers]
            /\ r.variance = HalfUp(held, Scale)
        BY <2>3, <1>7 DEF QuantRows
      <3>. QED BY <3>1, <1>1, <1>2, <1>5 DEF QuantRows, Layers
    <2>. QED BY <2>1, <2>2, <2>3
  <1>. QED BY <1>8 DEF r

\* A layer has a quantity and a cost.
LEMMA LayerAt ==
  ASSUME NEW layers \in Layers
  PROVE  /\ DOMAIN layers = 1 .. Len(layers) /\ Len(layers) \in Nat
         /\ \A i \in 1 .. Len(layers) : /\ layers[i] \in [qty : Nat, cost : Int]
                                       /\ layers[i].qty \in Nat /\ layers[i].cost \in Int
  <1>1. \A i \in 1 .. Len(layers) : layers[i] \in [qty : Nat, cost : Int]
    BY ElementOfSeq DEF Layers
  <1>. QED BY <1>1, LenProperties DEF Layers

\* What an issue takes from each layer is a part of it.
LEMMA TakenType ==
  ASSUME NEW layers \in Layers, NEW n \in Nat
  PROVE  /\ Taken(layers, n) \in [1 .. Len(layers) -> Nat]
         /\ \A i \in 1 .. Len(layers) : Taken(layers, n)[i] <= layers[i].qty
  <1>1. DOMAIN layers = 1 .. Len(layers) /\ Len(layers) \in Nat
    BY LenProperties DEF Layers
  <1>2. \A i \in 1 .. Len(layers) : layers[i].qty \in Nat
    BY LayerAt
  <1> DEFINE before(i) == TotalOf([j \in 1 .. i - 1 |-> layers[j].qty])
  <1>3. \A i \in 1 .. Len(layers) : before(i) \in Int
    <2> TAKE i \in 1 .. Len(layers)
    <2> DEFINE s == [j \in 1 .. i - 1 |-> layers[j].qty]
    <2>1. i - 1 \in Nat /\ DOMAIN s = 1 .. i - 1 /\ \A j \in 1 .. i - 1 : s[j] \in Int
      BY <1>1, <1>2
    <2> HIDE DEF s
    <2>2. TotalOf(s) \in Int
      BY <2>1, TotalType
    <2>. QED BY <2>2 DEF s
  <1> HIDE DEF before
  <1>4. Taken(layers, n) = [i \in 1 .. Len(layers) |->
          IF before(i) >= n THEN 0 ELSE Least(layers[i].qty, n - before(i))]
    BY <1>1 DEF Taken, before
  <1>5. \A i \in 1 .. Len(layers) :
          LET t == IF before(i) >= n THEN 0 ELSE Least(layers[i].qty, n - before(i))
          IN t \in Nat /\ t <= layers[i].qty
    BY <1>2, <1>3 DEF Least
  <1>. QED BY <1>4, <1>5

\* Layers stay layers when a part of each is taken.
LEMMA ConsumeType ==
  ASSUME NEW layers \in Layers, NEW n \in Nat
  PROVE  Consume(layers, Taken(layers, n)) \in Layers
  <1>1. DOMAIN layers = 1 .. Len(layers) /\ Len(layers) \in Nat
    BY LenProperties DEF Layers
  <1>2. \A i \in 1 .. Len(layers) : layers[i] \in [qty : Nat, cost : Int]
    BY ElementOfSeq DEF Layers
  <1> DEFINE t == Taken(layers, n)
             c == [i \in 1 .. Len(layers) |-> [layers[i] EXCEPT !.qty = @ - t[i]]]
  <1>3. \A i \in 1 .. Len(layers) : c[i] \in [qty : Nat, cost : Int]
    <2>1. \A i \in 1 .. Len(layers) : t[i] \in Nat /\ t[i] <= layers[i].qty
      BY TakenType
    <2> HIDE DEF t
    <2>. QED BY <1>2, <2>1
  <1>4. Consume(layers, t) = c
    BY <1>1 DEF Consume
  <1> HIDE DEF c
  <1>5. c \in [1 .. Len(layers) -> [qty : Nat, cost : Int]]
    BY <1>3 DEF c
  <1>6. c \in Seq([qty : Nat, cost : Int])
    BY <1>5, <1>1, FunctionIsSeq
  <1>. QED BY <1>4, <1>6 DEF Layers

\* What an issue is found to cost
Costs4 == [enough : BOOLEAN, value : Int, unit : Int, layers : Layers]

\* What an issue costs is an amount, by either method.
LEMMA IssueCostType ==
  ASSUME NEW q \in QuantRows, NEW n \in Nat \ {0}, NEW m
  PROVE  IssueCost(q, n, m) \in Costs4
  <1> DEFINE t == Taken(q.layers, n)
             s == [i \in DOMAIN q.layers |-> t[i] * q.layers[i].cost]
             fifo == TotalOf(s)
             enough == n <= IF m = "fifo" THEN LayersQty(q) ELSE q.qty
  <1>1. q.qty \in Int /\ q.avg \in Int /\ q.layers \in Layers
    BY DEF QuantRows, Layers
  <1>2. fifo \in Int
    <2>1. DOMAIN q.layers = 1 .. Len(q.layers) /\ Len(q.layers) \in Nat
      BY <1>1, LenProperties DEF Layers
    <2>2. \A i \in 1 .. Len(q.layers) : t[i] \in Int
      BY <1>1, TakenType
    <2>3. \A i \in 1 .. Len(q.layers) : q.layers[i].cost \in Int
      BY <1>1, LayerAt
    <2> HIDE DEF t
    <2>4. \A i \in 1 .. Len(q.layers) : s[i] \in Int
      BY <2>1, <2>2, <2>3
    <2>5. DOMAIN s = 1 .. Len(q.layers)
      BY <2>1
    <2> HIDE DEF s
    <2>. QED BY <2>1, <2>4, <2>5, TotalType
  <1>3. Consume(q.layers, t) \in Layers
    BY <1>1, ConsumeType
  <1>4. HalfEven(fifo, n) \in Int /\ HalfEven(n * q.avg, Scale) \in Int
    <2>1. n * q.avg \in Int
      BY <1>1
    <2> HIDE DEF fifo
    <2>. QED BY <1>2, <2>1, HalfEvenType, ScaleAssumption
  <1>5. Scale * fifo \in Int /\ Scale * HalfEven(fifo, n) \in Int /\ n * q.avg \in Int
        /\ Scale * HalfEven(n * q.avg, Scale) \in Int
    <2>1. n * q.avg \in Int
      BY <1>1
    <2> HIDE DEF fifo
    <2>. QED BY <1>2, <1>4, <2>1, ScaleAssumption
  <1>6. IssueCost(q, n, m) =
          IF ~enough
          THEN [enough |-> FALSE, value |-> n * q.avg, unit |-> q.avg, layers |-> q.layers]
          ELSE IF m = "fifo"
          THEN [enough |-> TRUE, value |-> Scale * fifo, unit |-> Scale * HalfEven(fifo, n),
                layers |-> Consume(q.layers, t)]
          ELSE [enough |-> TRUE, value |-> Scale * HalfEven(n * q.avg, Scale), unit |-> q.avg,
                layers |-> q.layers]
    BY DEF IssueCost
  <1> HIDE DEF fifo, t, enough
  <1>. QED BY <1>1, <1>3, <1>5, <1>6 DEF Costs4

\* A balance that issues goods is a row of its table.
LEMMA IssuedType ==
  ASSUME NEW q \in QuantRows, NEW n \in Nat \ {0}, NEW m, NEW c \in Costs4
  PROVE  Issued(q, n, c, m) \in QuantRows /\ Issued(q, n, c, m).row
  <1> DEFINE after == q.qty - n
             a == HalfUp(q.qty * q.avg - c.value, after)
             avg == IF m # "fifo" /\ after # 0 THEN a ELSE q.avg
  <1>1. q.qty \in Int /\ q.avg \in Int /\ q.layers \in Layers /\ c.layers \in Layers /\ c.value \in Int
    BY DEF QuantRows, Layers, Costs4
  <1>2. avg \in Int
    <2>1. q.qty * q.avg - c.value \in Int /\ after \in Int
      BY <1>1
    <2> HIDE DEF after
    <2>. QED BY <1>1, <2>1, HalfUpType
  <1>3. Issued(q, n, c, m) = [q EXCEPT !.row = TRUE, !.qty = after, !.layers = c.layers, !.avg = avg]
    BY DEF Issued, QuantRows
  <1>4. after \in Int
    BY <1>1
  <1> HIDE DEF after, avg
  <1>. QED BY <1>1, <1>2, <1>3, <1>4 DEF QuantRows, Layers

(***************************************************************************)
(* Stock that is being moved.                                              *)
(***************************************************************************)
Kept(qs) == \A p \in Products, w \in Warehouses : qs[p][w].row \/ qs[p][w] = NoQuant
\* A delivery takes something.
Taking(ms) == \A i \in DOMAIN ms : ms[i].type = "delivery" => ms[i].qty < 0

\* What the work of one request on stock consists of; it keeps the two facts.
WorkRows == [quants : [Products -> [Warehouses -> QuantRows]], moves : Seq(MoveRows),
             value : Int, variance : Int, crossed : SUBSET Products, ok : BOOLEAN]
Works == {k \in WorkRows : Kept(k.quants) /\ Taking(k.moves)}

\* A move is added.
LEMMA NewMove ==
  ASSUME NEW ms \in Seq(MoveRows), Taking(ms), NEW m \in MoveRows, m.type = "delivery" => m.qty < 0
  PROVE  Append(ms, m) \in Seq(MoveRows) /\ Taking(Append(ms, m))
  <1>1. DOMAIN ms = 1 .. Len(ms) /\ Len(ms) \in Nat /\ DOMAIN Append(ms, m) = 1 .. Len(ms) + 1
    BY LenProperties
  <1>2. \A i \in 1 .. Len(ms) + 1 : Append(ms, m)[i] = IF i = Len(ms) + 1 THEN m ELSE ms[i]
    BY <1>1
  <1>. QED BY <1>1, <1>2 DEF Taking

\* A balance is written.
LEMMA NewQuant ==
  ASSUME NEW qs \in [Products -> [Warehouses -> QuantRows]], Kept(qs),
         NEW p \in Products, NEW w \in Warehouses, NEW q \in QuantRows, q.row
  PROVE  /\ [qs EXCEPT ![p][w] = q] \in [Products -> [Warehouses -> QuantRows]]
         /\ Kept([qs EXCEPT ![p][w] = q])
  BY DEF Kept

\* A move is a row of its table.
LEMMA MoveType ==
  ASSUME NEW p \in Products, NEW w \in Warehouses, NEW n \in Int, NEW unit \in Int,
         NEW type \in MoveTypes, NEW doc \in Docs
  PROVE  /\ Move(p, w, n, unit, type, doc) \in MoveRows
         /\ Move(p, w, n, unit, type, doc).type = type
         /\ Move(p, w, n, unit, type, doc).qty = n
  <1>1. HalfUp(unit, Scale) \in Int
    BY HalfUpType, ScaleAssumption
  <1>. QED BY <1>1 DEF Move, MoveRows

\* receive_stock leads from work to work: a receipt is a move and a balance.
LEMMA ReceiveStockType ==
  ASSUME NEW k \in Works, NEW p \in Products, NEW w \in Warehouses, NEW n \in Nat \ {0},
         NEW value \in Int, NEW type \in MoveTypes, type # "delivery", NEW doc \in Docs
  PROVE  ReceiveStock(k, p, w, n, value, type, doc) \in Works
  <1> DEFINE r == Received(k.quants[p][w], n, value, method)
             qs == [k.quants EXCEPT ![p][w] = r.quant]
             m == Move(p, w, n, HalfUp(value, n), type, doc)
             ms == Append(k.moves, m)
             j == ReceiveStock(k, p, w, n, value, type, doc)
  <1>1. /\ k.quants \in [Products -> [Warehouses -> QuantRows]] /\ k.moves \in Seq(MoveRows)
        /\ k.value \in Int /\ k.variance \in Int /\ k.crossed \in SUBSET Products /\ k.ok \in BOOLEAN
        /\ Kept(k.quants) /\ Taking(k.moves)
    BY DEF Works, WorkRows
  <1>2. r.quant \in QuantRows /\ r.quant.row /\ r.variance \in Int
    BY <1>1, ReceivedType
  <1>3. m \in MoveRows /\ m.type = type
    <2>1. HalfUp(value, n) \in Int
      BY HalfUpType
    <2>. QED BY <2>1, MoveType
  <1>4. j = [k EXCEPT !.quants = qs, !.moves = ms, !.value = k.value + value,
                      !.variance = k.variance + r.variance]
    BY DEF ReceiveStock, Works, WorkRows
  <1> HIDE DEF r, m, j
  <1>5. qs \in [Products -> [Warehouses -> QuantRows]] /\ Kept(qs)
    BY <1>1, <1>2, NewQuant
  <1>6. ms \in Seq(MoveRows) /\ Taking(ms)
    BY <1>1, <1>3, NewMove
  <1> HIDE DEF qs, ms
  <1>7. j \in Works
    <2>1. k \in WorkRows /\ k.value + value \in Int /\ k.variance + r.variance \in Int
      BY <1>1, <1>2 DEF Works
    <2>2. j \in WorkRows /\ j.quants = qs /\ j.moves = ms
      BY <2>1, <1>4, <1>5, <1>6 DEF WorkRows
    <2>. QED BY <2>2, <1>5, <1>6 DEF Works
  <1>. QED BY <1>7 DEF j

\* issue_stock leads from work to work: an issue is a move and a balance.
LEMMA IssueStockType ==
  ASSUME NEW k \in Works, NEW p \in Products, NEW w \in Warehouses, NEW n \in Nat \ {0},
         NEW type \in MoveTypes, NEW doc \in Docs, NEW allow \in BOOLEAN
  PROVE  IssueStock(k, p, w, n, type, doc, allow) \in Works
  <1> DEFINE q == k.quants[p][w]
             c == IssueCost(q, n, method)
             x == Issued(q, n, c, method)
             qs == [k.quants EXCEPT ![p][w] = x]
             m == Move(p, w, -n, c.unit, type, doc)
             ms == Append(k.moves, m)
             j == IssueStock(k, p, w, n, type, doc, allow)
  <1>1. /\ k.quants \in [Products -> [Warehouses -> QuantRows]] /\ k.moves \in Seq(MoveRows)
        /\ k.value \in Int /\ k.variance \in Int /\ k.crossed \in SUBSET Products /\ k.ok \in BOOLEAN
        /\ Kept(k.quants) /\ Taking(k.moves)
    BY DEF Works, WorkRows
  <1>2. q \in QuantRows
    BY <1>1
  <1>3. c \in Costs4
    BY <1>2, IssueCostType
  <1>4. x \in QuantRows /\ x.row
    <2> HIDE DEF c, q
    <2>. QED BY <1>2, <1>3, IssuedType
  <1>5. c.value \in Int /\ c.unit \in Int /\ c.enough \in BOOLEAN
    BY <1>3 DEF Costs4
  <1>6. m \in MoveRows /\ m.type = type /\ m.qty < 0
    <2>1. -n \in Int /\ -n < 0
      OBVIOUS
    <2>. QED BY <1>5, <2>1, MoveType
  <1>7. j = [k EXCEPT !.quants = qs, !.moves = ms, !.value = k.value + c.value,
                      !.ok = k.ok /\ (c.enough \/ allow)]
    BY DEF IssueStock, Works, WorkRows
  <1> HIDE DEF c, q, x, m, j
  <1>8. qs \in [Products -> [Warehouses -> QuantRows]] /\ Kept(qs)
    BY <1>1, <1>4, NewQuant
  <1>9. ms \in Seq(MoveRows) /\ Taking(ms)
    BY <1>1, <1>6, NewMove
  <1> HIDE DEF qs, ms
  <1>10. j \in Works
    <2> DEFINE ok == k.ok /\ (c.enough \/ allow)
    <2>1. k \in WorkRows /\ k.value + c.value \in Int /\ ok \in BOOLEAN
      BY <1>1, <1>5 DEF Works
    <2>2. j = [k EXCEPT !.quants = qs, !.moves = ms, !.value = k.value + c.value, !.ok = ok]
      BY <1>7
    <2> HIDE DEF ok
    <2>3. j \in WorkRows /\ j.quants = qs /\ j.moves = ms
      BY <2>1, <2>2, <1>8, <1>9 DEF WorkRows
    <2>. QED BY <2>3, <1>8, <1>9 DEF Works
  <1>. QED BY <1>10 DEF j

\* Work has an amount in money.
LEMMA ValueIs ==
  ASSUME NEW k \in Works
  PROVE  k.value \in Int /\ k.variance \in Int
  BY DEF Works, WorkRows

\* The amount may be another.
LEMMA ValueType ==
  ASSUME NEW k \in Works, NEW v \in Int
  PROVE  [k EXCEPT !.value = v] \in Works
  BY DEF Works, WorkRows

\* A set of works that nothing leads out of which one request does to stock,
\* deliveries aside
Leads(P) ==
  /\ P \in SUBSET Works
  /\ \A k \in P, p \in Products, w \in Warehouses, n \in Nat \ {0}, value \in Int,
        type \in MoveTypes \ {"delivery"}, doc \in Docs : ReceiveStock(k, p, w, n, value, type, doc) \in P
  /\ \A k \in P, p \in Products, w \in Warehouses, n \in Nat \ {0},
        type \in MoveTypes \ {"delivery"}, doc \in Docs, allow \in BOOLEAN :
       IssueStock(k, p, w, n, type, doc, allow) \in P
  /\ \A k \in P, v \in Int : [k EXCEPT !.value = v] \in P

\* What that says, one by one
LEMMA LeadsAreWork ==
  ASSUME NEW P, Leads(P), NEW k \in P
  PROVE  k \in Works
  BY DEF Leads

\* of a receipt,
LEMMA ReceiptLeads ==
  ASSUME NEW P, Leads(P), NEW k \in P, NEW p \in Products, NEW w \in Warehouses, NEW n \in Nat \ {0},
         NEW value \in Int, NEW type \in MoveTypes, type # "delivery", NEW doc \in Docs
  PROVE  ReceiveStock(k, p, w, n, value, type, doc) \in P
  BY DEF Leads

\* of an issue
LEMMA IssueLeads ==
  ASSUME NEW P, Leads(P), NEW k \in P, NEW p \in Products, NEW w \in Warehouses, NEW n \in Nat \ {0},
         NEW type \in MoveTypes, type # "delivery", NEW doc \in Docs, NEW allow \in BOOLEAN
  PROVE  IssueStock(k, p, w, n, type, doc, allow) \in P
  BY DEF Leads

\* and of the amount.
LEMMA ValueLeads ==
  ASSUME NEW P, Leads(P), NEW k \in P, NEW v \in Int
  PROVE  [k EXCEPT !.value = v] \in P
  BY DEF Leads

\* Works is such a set.
LEMMA WorksLead == Leads(Works)
  BY ReceiveStockType, IssueStockType, ValueType DEF Leads

\* A line that is delivered leads from work to work.
LEMMA DeliverLineType ==
  ASSUME NEW k \in Works, NEW x \in [product : Products, qty : Nat \ {0}], NEW w \in Warehouses, NEW doc \in Docs
  PROVE  DeliverLine(k, x, w, doc) \in Works
  <1> DEFINE j == IssueStock(k, x.product, w, x.qty, "delivery", doc, FALSE)
             v == k.value + IF j.value - k.value > 0 THEN j.value - k.value ELSE 0
             s == j.crossed \cup IF Crosses(j, x.product, x.qty) THEN {x.product} ELSE {}
  <1>1. x.product \in Products /\ x.qty \in Nat \ {0}
    OBVIOUS
  <1>2. j \in Works
    BY <1>1, IssueStockType DEF MoveTypes
  <1>3. v \in Int /\ s \in SUBSET Products
    <2> HIDE DEF j
    <2>. QED BY <1>1, <1>2 DEF Works, WorkRows
  <1>4. DeliverLine(k, x, w, doc) = [j EXCEPT !.value = v, !.crossed = s]
    BY <1>2 DEF DeliverLine, Works, WorkRows
  <1> HIDE DEF j, v, s
  <1>. QED BY <1>2, <1>3, <1>4 DEF Works, WorkRows

\* A delivery that is put back stays in such a set,
LEMMA ReturnMoveType ==
  ASSUME NEW P, Leads(P), NEW k \in P, NEW m \in MoveRows, m.type = "delivery" => m.qty < 0, NEW doc, NEW credit \in Docs
  PROVE  ReturnMove(k, m, doc, credit) \in P
  <1>1. CASE m.doc = doc /\ m.type = "delivery"
    <2>1. /\ m.product \in Products /\ m.at \in Warehouses /\ m.qty \in Int /\ m.cost \in Int
          /\ -m.qty \in Nat \ {0}
      BY <1>1 DEF MoveRows
    <2>2. -m.qty * m.cost * Scale \in Int
      <3>1. -m.qty \in Int /\ m.cost \in Int /\ Scale \in Int
        BY <2>1, ScaleAssumption
      <3>2. m.qty * m.cost \in Int
        BY <2>1
      <3>3. m.qty * m.cost * Scale \in Int
        BY <3>1, <3>2
      <3>. QED BY <3>3
    <2>3. ReceiveStock(k, m.product, m.at, -m.qty, -m.qty * m.cost * Scale, "return", credit) \in P
      BY <2>1, <2>2, ReceiptLeads DEF MoveTypes
    <2>. QED BY <1>1, <2>3 DEF ReturnMove
  <1>2. CASE ~(m.doc = doc /\ m.type = "delivery")
    BY <1>2 DEF ReturnMove
  <1>. QED BY <1>1, <1>2

\* a counted line that is posted,
LEMMA AdjustLineType ==
  ASSUME NEW P, Leads(P), NEW k \in P, NEW x \in [product : Products, counted : Nat, system : Int],
         NEW w \in Warehouses, NEW doc \in Docs
  PROVE  AdjustLine(k, x, w, doc) \in P
  <1> DEFINE q == k.quants[x.product][w]
             diff == x.counted - x.system
             unit == IF q.row THEN q.avg ELSE CostPrice[x.product] * Scale
             less == IssueStock(k, x.product, w, -diff, "adjustment", doc, FALSE)
  <1>1. x.product \in Products /\ diff \in Int
    OBVIOUS
  <1>2. unit \in Int
    <2>1. q \in QuantRows
      BY <1>1, LeadsAreWork DEF Works, WorkRows
    <2>2. q.avg \in Int
      BY <2>1 DEF QuantRows
    <2> HIDE DEF q
    <2>. QED BY <1>1, <2>2, InventoryAssumption, ScaleAssumption
  <1>3. AdjustLine(k, x, w, doc) =
          IF diff = 0 THEN k
          ELSE IF diff > 0 THEN ReceiveStock(k, x.product, w, diff, diff * unit, "adjustment", doc)
          ELSE [less EXCEPT !.value = 2 * k.value - less.value]
    BY DEF AdjustLine
  <1>4. ASSUME diff > 0
        PROVE  ReceiveStock(k, x.product, w, diff, diff * unit, "adjustment", doc) \in P
    <2> HIDE DEF unit, diff
    <2>1. diff \in Nat \ {0} /\ diff * unit \in Int
      BY <1>1, <1>2, <1>4
    <2>. QED BY <1>1, <2>1, ReceiptLeads DEF MoveTypes
  <1>5. ASSUME diff < 0
        PROVE  [less EXCEPT !.value = 2 * k.value - less.value] \in P
    <2>1. less \in P
      <3> HIDE DEF diff
      <3>1. -diff \in Nat \ {0}
        BY <1>1, <1>5
      <3>. QED BY <1>1, <3>1, IssueLeads DEF MoveTypes
    <2> HIDE DEF less
    <2>2. 2 * k.value - less.value \in Int
      <3>1. k.value \in Int /\ less.value \in Int
        BY <2>1, LeadsAreWork, ValueIs
      <3>. QED BY <3>1
    <2>. QED BY <2>1, <2>2, ValueLeads
  <1> HIDE DEF diff, less, unit
  <1>. QED BY <1>1, <1>3, <1>4, <1>5

\* a line of a goods receipt,
LEMMA ReceiveLineType ==
  ASSUME NEW P, Leads(P), NEW k \in P, NEW l, l.qty \in Nat \ {0}, l.price \in Nat, NEW w \in Warehouses, NEW doc \in Docs
  PROVE  ReceiveLine(k, l, w, doc) \in P
  <1>1. l.qty * l.price * Scale \in Int
    <2>1. l.qty * l.price \in Int
      OBVIOUS
    <2>. QED BY <2>1, ScaleAssumption
  <1>2. CASE Stockable(l.product)
    BY <1>1, <1>2, ReceiptLeads DEF ReceiveLine, Stockable, MoveTypes
  <1>3. CASE ~Stockable(l.product)
    BY <1>3 DEF ReceiveLine
  <1>. QED BY <1>2, <1>3

\* a line that goes back to the vendor,
LEMMA ReturnLineType ==
  ASSUME NEW P, Leads(P), NEW k \in P, NEW l, l.qty \in Nat \ {0}, NEW w \in Warehouses, NEW doc \in Docs
  PROVE  ReturnLine(k, l, w, doc) \in P
  <1>1. CASE Stockable(l.product)
    BY <1>1, IssueLeads DEF ReturnLine, Stockable, MoveTypes
  <1>2. CASE ~Stockable(l.product)
    BY <1>2 DEF ReturnLine
  <1>. QED BY <1>1, <1>2

\* What is in the warehouses when a behaviour begins
OpeningLines == [product : Products, at : Warehouses, qty : Int \ {0}, price : Nat]

\* and a line of the opening stock.
LEMMA OpenLineType ==
  ASSUME NEW P, Leads(P), NEW k \in P, NEW e \in OpeningLines
  PROVE  OpenLine(k, e) \in P
  <1> DEFINE doc == <<"opening", 0>>
             less == IssueStock(k, e.product, e.at, -e.qty, "return", doc, TRUE)
  <1>1. e.product \in Products /\ e.at \in Warehouses /\ e.qty \in Int \ {0} /\ e.price \in Nat
    BY DEF OpeningLines
  <1>2. doc \in Docs
    BY Zenon DEF Docs
  <1>3. CASE e.qty > 0
    <2>1. e.qty * e.price * Scale \in Int
      <3>1. e.qty * e.price \in Int
        BY <1>1
      <3>. QED BY <3>1, ScaleAssumption
    <2>2. ReceiveStock(k, e.product, e.at, e.qty, e.qty * e.price * Scale, "receipt", doc) \in P
      <3> HIDE DEF doc
      <3>. QED BY <1>1, <1>2, <1>3, <2>1, ReceiptLeads DEF MoveTypes
    <2>. QED BY <1>3, <2>2 DEF OpenLine
  <1>4. CASE ~(e.qty > 0)
    <2>1. less \in P
      <3>1. -e.qty \in Nat \ {0}
        BY <1>1, <1>4
      <3> HIDE DEF doc
      <3>. QED BY <1>1, <1>2, <3>1, IssueLeads DEF MoveTypes
    <2>2. OpenLine(k, e) = [less EXCEPT !.value = 2 * k.value - less.value]
      BY <1>4 DEF OpenLine
    <2> HIDE DEF less
    <2>3. 2 * k.value - less.value \in Int
      <3>1. k.value \in Int /\ less.value \in Int
        BY <2>1, LeadsAreWork, ValueIs
      <3>. QED BY <3>1
    <2>. QED BY <2>1, <2>2, <2>3, ValueLeads
  <1>. QED BY <1>3, <1>4

(***************************************************************************)
(* Folds over the lines of a document.  What each line leads from K[T] to  *)
(* K[T with its number], the document leads from K[{}] to K[its lines].    *)
(***************************************************************************)
LEMMA DeliveredStays ==
  ASSUME NEW w, NEW lines, NEW doc, NEW K,
         IsFiniteSet(DOMAIN lines), DOMAIN lines \subseteq Int,
         Loaded \in K[{}],
         \A T \in SUBSET DOMAIN lines : T # {} =>
           \A k \in K[T \ {Max(T)}] : DeliverLine(k, lines[Max(T)], w, doc) \in K[T]
  PROVE  Delivered(w, lines, doc) \in K[DOMAIN lines]
  <1> DEFINE D == DOMAIN lines
             F == [T \in SUBSET D |-> [k \in K[T \ {Max(T)}] |-> DeliverLine(k, lines[Max(T)], w, doc)]]
             Is(g) == g = [T \in SUBSET D |->
                        IF T = {} THEN Loaded ELSE DeliverLine(g[T \ {Max(T)}], lines[Max(T)], w, doc)]
             h == CHOOSE g : Is(g)
  <1>0. IsFiniteSet(D) /\ D \subseteq Int /\ Loaded \in K[{}]
    OBVIOUS
  <1>1. \E g : Is(g)
    <2>1. \A T \in SUBSET D : T # {} =>
            \A k \in K[T \ {Max(T)}] : F[T][k] = DeliverLine(k, lines[Max(T)], w, doc) /\ F[T][k] \in K[T]
      OBVIOUS
    <2> HIDE DEF F
    <2>2. PICK g : IsFold(g, F, Loaded, D) /\ \A T \in SUBSET D : g[T] \in K[T]
      <3> HIDE DEF D
      <3>. QED BY <1>0, <2>1, FoldStays
    <2>3. \A T \in SUBSET D : T # {} => F[T][g[T \ {Max(T)}]] = DeliverLine(g[T \ {Max(T)}], lines[Max(T)], w, doc)
      <3> TAKE T \in SUBSET D
      <3>1. T \ {Max(T)} \in SUBSET D
        OBVIOUS
      <3>. QED BY <2>1, <2>2, <3>1
    <2>4. Is(g)
      BY <2>2, <2>3 DEF IsFold
    <2>. QED BY <2>4
  <1>2. Is(h)
    <2> HIDE DEF Is
    <2>. QED BY <1>1
  <1>3. Delivered(w, lines, doc) = h[D]
    BY DEF Delivered, FoldLeft, MapThenFoldSet
  <1> HIDE DEF h
  <1>4. h[D] \in K[D]
    <2>1. h[{}] \in K[{}]
      BY <1>2
    <2>2. \A T \in SUBSET D : T # {} /\ h[T \ {Max(T)}] \in K[T \ {Max(T)}] => h[T] \in K[T]
      BY <1>2
    <2> HIDE DEF Is, D
    <2>. QED BY <1>0, <2>1, <2>2, FoldInduction
  <1>. QED BY <1>3, <1>4

\* The same of the deliveries that a credit note puts back,
LEMMA ReturnedStays ==
  ASSUME NEW doc, NEW credit, NEW K,
         IsFiniteSet(DOMAIN moves), DOMAIN moves \subseteq Int,
         Loaded \in K[{}],
         \A T \in SUBSET DOMAIN moves : T # {} =>
           \A k \in K[T \ {Max(T)}] : ReturnMove(k, moves[Max(T)], doc, credit) \in K[T]
  PROVE  Returned(doc, credit) \in K[DOMAIN moves]
  <1> DEFINE D == DOMAIN moves
             F == [T \in SUBSET D |-> [k \in K[T \ {Max(T)}] |-> ReturnMove(k, moves[Max(T)], doc, credit)]]
             Is(g) == g = [T \in SUBSET D |->
                        IF T = {} THEN Loaded ELSE ReturnMove(g[T \ {Max(T)}], moves[Max(T)], doc, credit)]
             h == CHOOSE g : Is(g)
  <1>0. IsFiniteSet(D) /\ D \subseteq Int /\ Loaded \in K[{}]
    OBVIOUS
  <1>1. \E g : Is(g)
    <2>1. \A T \in SUBSET D : T # {} =>
            \A k \in K[T \ {Max(T)}] : F[T][k] = ReturnMove(k, moves[Max(T)], doc, credit) /\ F[T][k] \in K[T]
      OBVIOUS
    <2> HIDE DEF F
    <2>2. PICK g : IsFold(g, F, Loaded, D) /\ \A T \in SUBSET D : g[T] \in K[T]
      <3> HIDE DEF D
      <3>. QED BY <1>0, <2>1, FoldStays
    <2>3. \A T \in SUBSET D : T # {} => F[T][g[T \ {Max(T)}]] = ReturnMove(g[T \ {Max(T)}], moves[Max(T)], doc, credit)
      <3> TAKE T \in SUBSET D
      <3>1. T \ {Max(T)} \in SUBSET D
        OBVIOUS
      <3>. QED BY <2>1, <2>2, <3>1
    <2>4. Is(g)
      BY <2>2, <2>3 DEF IsFold
    <2>. QED BY <2>4
  <1>2. Is(h)
    <2> HIDE DEF Is
    <2>. QED BY <1>1
  <1>3. Returned(doc, credit) = h[D]
    BY DEF Returned, FoldLeft, MapThenFoldSet
  <1> HIDE DEF h
  <1>4. h[D] \in K[D]
    <2>1. h[{}] \in K[{}]
      BY <1>2
    <2>2. \A T \in SUBSET D : T # {} /\ h[T \ {Max(T)}] \in K[T \ {Max(T)}] => h[T] \in K[T]
      BY <1>2
    <2> HIDE DEF Is, D
    <2>. QED BY <1>0, <2>1, <2>2, FoldInduction
  <1>. QED BY <1>3, <1>4

\* of the lines of a count,
LEMMA AdjustedStays ==
  ASSUME NEW w, NEW lines, NEW doc, NEW K,
         IsFiniteSet(DOMAIN lines), DOMAIN lines \subseteq Int,
         Loaded \in K[{}],
         \A T \in SUBSET DOMAIN lines : T # {} =>
           \A k \in K[T \ {Max(T)}] : AdjustLine(k, lines[Max(T)], w, doc) \in K[T]
  PROVE  Adjusted(w, lines, doc) \in K[DOMAIN lines]
  <1> DEFINE D == DOMAIN lines
             F == [T \in SUBSET D |-> [k \in K[T \ {Max(T)}] |-> AdjustLine(k, lines[Max(T)], w, doc)]]
             Is(g) == g = [T \in SUBSET D |->
                        IF T = {} THEN Loaded ELSE AdjustLine(g[T \ {Max(T)}], lines[Max(T)], w, doc)]
             h == CHOOSE g : Is(g)
  <1>0. IsFiniteSet(D) /\ D \subseteq Int /\ Loaded \in K[{}]
    OBVIOUS
  <1>1. \E g : Is(g)
    <2>1. \A T \in SUBSET D : T # {} =>
            \A k \in K[T \ {Max(T)}] : F[T][k] = AdjustLine(k, lines[Max(T)], w, doc) /\ F[T][k] \in K[T]
      OBVIOUS
    <2> HIDE DEF F
    <2>2. PICK g : IsFold(g, F, Loaded, D) /\ \A T \in SUBSET D : g[T] \in K[T]
      <3> HIDE DEF D
      <3>. QED BY <1>0, <2>1, FoldStays
    <2>3. \A T \in SUBSET D : T # {} => F[T][g[T \ {Max(T)}]] = AdjustLine(g[T \ {Max(T)}], lines[Max(T)], w, doc)
      <3> TAKE T \in SUBSET D
      <3>1. T \ {Max(T)} \in SUBSET D
        OBVIOUS
      <3>. QED BY <2>1, <2>2, <3>1
    <2>4. Is(g)
      BY <2>2, <2>3 DEF IsFold
    <2>. QED BY <2>4
  <1>2. Is(h)
    <2> HIDE DEF Is
    <2>. QED BY <1>1
  <1>3. Adjusted(w, lines, doc) = h[D]
    BY DEF Adjusted, FoldLeft, MapThenFoldSet
  <1> HIDE DEF h
  <1>4. h[D] \in K[D]
    <2>1. h[{}] \in K[{}]
      BY <1>2
    <2>2. \A T \in SUBSET D : T # {} /\ h[T \ {Max(T)}] \in K[T \ {Max(T)}] => h[T] \in K[T]
      BY <1>2
    <2> HIDE DEF Is, D
    <2>. QED BY <1>0, <2>1, <2>2, FoldInduction
  <1>. QED BY <1>3, <1>4

\* of the lines of a goods receipt,
LEMMA ArrivedStays ==
  ASSUME NEW ls, NEW w, NEW doc, NEW K,
         IsFiniteSet(DOMAIN ls), DOMAIN ls \subseteq Int,
         Loaded \in K[{}],
         \A T \in SUBSET DOMAIN ls : T # {} =>
           \A k \in K[T \ {Max(T)}] : ReceiveLine(k, ls[Max(T)], w, doc) \in K[T]
  PROVE  Arrived(ls, w, doc) \in K[DOMAIN ls]
  <1> DEFINE D == DOMAIN ls
             F == [T \in SUBSET D |-> [k \in K[T \ {Max(T)}] |-> ReceiveLine(k, ls[Max(T)], w, doc)]]
             Is(g) == g = [T \in SUBSET D |->
                        IF T = {} THEN Loaded ELSE ReceiveLine(g[T \ {Max(T)}], ls[Max(T)], w, doc)]
             h == CHOOSE g : Is(g)
  <1>0. IsFiniteSet(D) /\ D \subseteq Int /\ Loaded \in K[{}]
    OBVIOUS
  <1>1. \E g : Is(g)
    <2>1. \A T \in SUBSET D : T # {} =>
            \A k \in K[T \ {Max(T)}] : F[T][k] = ReceiveLine(k, ls[Max(T)], w, doc) /\ F[T][k] \in K[T]
      OBVIOUS
    <2> HIDE DEF F
    <2>2. PICK g : IsFold(g, F, Loaded, D) /\ \A T \in SUBSET D : g[T] \in K[T]
      <3> HIDE DEF D
      <3>. QED BY <1>0, <2>1, FoldStays
    <2>3. \A T \in SUBSET D : T # {} => F[T][g[T \ {Max(T)}]] = ReceiveLine(g[T \ {Max(T)}], ls[Max(T)], w, doc)
      <3> TAKE T \in SUBSET D
      <3>1. T \ {Max(T)} \in SUBSET D
        OBVIOUS
      <3>. QED BY <2>1, <2>2, <3>1
    <2>4. Is(g)
      BY <2>2, <2>3 DEF IsFold
    <2>. QED BY <2>4
  <1>2. Is(h)
    <2> HIDE DEF Is
    <2>. QED BY <1>1
  <1>3. Arrived(ls, w, doc) = h[D]
    BY DEF Arrived, FoldLeft, MapThenFoldSet
  <1> HIDE DEF h
  <1>4. h[D] \in K[D]
    <2>1. h[{}] \in K[{}]
      BY <1>2
    <2>2. \A T \in SUBSET D : T # {} /\ h[T \ {Max(T)}] \in K[T \ {Max(T)}] => h[T] \in K[T]
      BY <1>2
    <2> HIDE DEF Is, D
    <2>. QED BY <1>0, <2>1, <2>2, FoldInduction
  <1>. QED BY <1>3, <1>4

\* of the lines that go back to a vendor,
LEMMA SentBackStays ==
  ASSUME NEW ls, NEW w, NEW doc, NEW K,
         IsFiniteSet(DOMAIN ls), DOMAIN ls \subseteq Int,
         Loaded \in K[{}],
         \A T \in SUBSET DOMAIN ls : T # {} =>
           \A k \in K[T \ {Max(T)}] : ReturnLine(k, ls[Max(T)], w, doc) \in K[T]
  PROVE  SentBack(ls, w, doc) \in K[DOMAIN ls]
  <1> DEFINE D == DOMAIN ls
             F == [T \in SUBSET D |-> [k \in K[T \ {Max(T)}] |-> ReturnLine(k, ls[Max(T)], w, doc)]]
             Is(g) == g = [T \in SUBSET D |->
                        IF T = {} THEN Loaded ELSE ReturnLine(g[T \ {Max(T)}], ls[Max(T)], w, doc)]
             h == CHOOSE g : Is(g)
  <1>0. IsFiniteSet(D) /\ D \subseteq Int /\ Loaded \in K[{}]
    OBVIOUS
  <1>1. \E g : Is(g)
    <2>1. \A T \in SUBSET D : T # {} =>
            \A k \in K[T \ {Max(T)}] : F[T][k] = ReturnLine(k, ls[Max(T)], w, doc) /\ F[T][k] \in K[T]
      OBVIOUS
    <2> HIDE DEF F
    <2>2. PICK g : IsFold(g, F, Loaded, D) /\ \A T \in SUBSET D : g[T] \in K[T]
      <3> HIDE DEF D
      <3>. QED BY <1>0, <2>1, FoldStays
    <2>3. \A T \in SUBSET D : T # {} => F[T][g[T \ {Max(T)}]] = ReturnLine(g[T \ {Max(T)}], ls[Max(T)], w, doc)
      <3> TAKE T \in SUBSET D
      <3>1. T \ {Max(T)} \in SUBSET D
        OBVIOUS
      <3>. QED BY <2>1, <2>2, <3>1
    <2>4. Is(g)
      BY <2>2, <2>3 DEF IsFold
    <2>. QED BY <2>4
  <1>2. Is(h)
    <2> HIDE DEF Is
    <2>. QED BY <1>1
  <1>3. SentBack(ls, w, doc) = h[D]
    BY DEF SentBack, FoldLeft, MapThenFoldSet
  <1> HIDE DEF h
  <1>4. h[D] \in K[D]
    <2>1. h[{}] \in K[{}]
      BY <1>2
    <2>2. \A T \in SUBSET D : T # {} /\ h[T \ {Max(T)}] \in K[T \ {Max(T)}] => h[T] \in K[T]
      BY <1>2
    <2> HIDE DEF Is, D
    <2>. QED BY <1>0, <2>1, <2>2, FoldInduction
  <1>. QED BY <1>3, <1>4

\* and of the opening stock.
LEMMA OpenedWithStays ==
  ASSUME NEW goods, NEW K,
         IsFiniteSet(DOMAIN goods), DOMAIN goods \subseteq Int,
         Nothing \in K[{}],
         \A T \in SUBSET DOMAIN goods : T # {} =>
           \A k \in K[T \ {Max(T)}] : OpenLine(k, goods[Max(T)]) \in K[T]
  PROVE  OpenedWith(goods) \in K[DOMAIN goods]
  <1> DEFINE D == DOMAIN goods
             F == [T \in SUBSET D |-> [k \in K[T \ {Max(T)}] |-> OpenLine(k, goods[Max(T)])]]
             Is(g) == g = [T \in SUBSET D |->
                        IF T = {} THEN Nothing ELSE OpenLine(g[T \ {Max(T)}], goods[Max(T)])]
             h == CHOOSE g : Is(g)
  <1>0. IsFiniteSet(D) /\ D \subseteq Int /\ Nothing \in K[{}]
    OBVIOUS
  <1>1. \E g : Is(g)
    <2>1. \A T \in SUBSET D : T # {} =>
            \A k \in K[T \ {Max(T)}] : F[T][k] = OpenLine(k, goods[Max(T)]) /\ F[T][k] \in K[T]
      OBVIOUS
    <2> HIDE DEF F
    <2>2. PICK g : IsFold(g, F, Nothing, D) /\ \A T \in SUBSET D : g[T] \in K[T]
      <3> HIDE DEF D
      <3>. QED BY <1>0, <2>1, FoldStays
    <2>3. \A T \in SUBSET D : T # {} => F[T][g[T \ {Max(T)}]] = OpenLine(g[T \ {Max(T)}], goods[Max(T)])
      <3> TAKE T \in SUBSET D
      <3>1. T \ {Max(T)} \in SUBSET D
        OBVIOUS
      <3>. QED BY <2>1, <2>2, <3>1
    <2>4. Is(g)
      BY <2>2, <2>3 DEF IsFold
    <2>. QED BY <2>4
  <1>2. Is(h)
    <2> HIDE DEF Is
    <2>. QED BY <1>1
  <1>3. OpenedWith(goods) = h[D]
    BY DEF OpenedWith, FoldLeft, MapThenFoldSet
  <1> HIDE DEF h
  <1>4. h[D] \in K[D]
    <2>1. h[{}] \in K[{}]
      BY <1>2
    <2>2. \A T \in SUBSET D : T # {} /\ h[T \ {Max(T)}] \in K[T \ {Max(T)}] => h[T] \in K[T]
      BY <1>2
    <2> HIDE DEF Is, D
    <2>. QED BY <1>0, <2>1, <2>2, FoldInduction
  <1>. QED BY <1>3, <1>4

\* The work that a request begins with is the stock it finds.
LEMMA LoadedType ==
  ASSUME StockTypeOK
  PROVE  Loaded \in Works
  BY DEF StockTypeOK, Loaded, Works, WorkRows, Kept, Taking

\* A database without stock is work too.
LEMMA NothingType == Nothing \in Works
  <1>1. NoQuant \in QuantRows
    BY DEF NoQuant, QuantRows
  <1>2. <<>> \in Seq(MoveRows) /\ Taking(<<>>)
    BY DEF Taking
  <1>. QED BY <1>1, <1>2 DEF Nothing, Works, WorkRows, Kept

\* What may stand on a line, and a line of a receipt or a bill
Goods == Products \cup Services
BillLines == [line : Nat, product : Goods, qty : Nat \ {0}, price : Nat]

\* The work of a delivery is work: the first of the documents of stock.
LEMMA DeliveredType ==
  ASSUME StockTypeOK, NEW w \in Warehouses, NEW lines \in Seq([product : Products, qty : Nat \ {0}]), NEW doc \in Docs
  PROVE  Delivered(w, lines, doc) \in Works
  <1> DEFINE K == [T \in SUBSET DOMAIN lines |-> Works]
  <1>1. Loaded \in K[{}]
    BY LoadedType
  <1>2. \A T \in SUBSET DOMAIN lines : T # {} =>
          \A k \in K[T \ {Max(T)}] : DeliverLine(k, lines[Max(T)], w, doc) \in K[T]
    <2>1. ASSUME NEW T \in SUBSET DOMAIN lines, T # {}, NEW k \in Works
          PROVE  DeliverLine(k, lines[Max(T)], w, doc) \in Works
      <3>1. lines[Max(T)] \in [product : Products, qty : Nat \ {0}]
        BY <2>1, LinesOf
      <3>. QED BY <3>1, DeliverLineType
    <2>. QED BY <2>1
  <1>3. IsFiniteSet(DOMAIN lines) /\ DOMAIN lines \subseteq Int
    BY LinesOf
  <1> HIDE DEF K
  <1>4. Delivered(w, lines, doc) \in K[DOMAIN lines]
    BY <1>1, <1>2, <1>3, DeliveredStays
  <1>. QED BY <1>4 DEF K

\* The work of a credit note for a whole invoice is work,
LEMMA ReturnedType ==
  ASSUME StockTypeOK, NEW P, Leads(P), Loaded \in P, NEW doc, NEW credit \in Docs
  PROVE  Returned(doc, credit) \in P
  <1> DEFINE K == [T \in SUBSET DOMAIN moves |-> P]
  <1>1. Loaded \in K[{}]
    OBVIOUS
  <1>2. \A T \in SUBSET DOMAIN moves : T # {} =>
          \A k \in K[T \ {Max(T)}] : ReturnMove(k, moves[Max(T)], doc, credit) \in K[T]
    <2>1. ASSUME NEW T \in SUBSET DOMAIN moves, T # {}, NEW k \in P
          PROVE  ReturnMove(k, moves[Max(T)], doc, credit) \in P
      <3>1. moves[Max(T)] \in MoveRows /\ Max(T) \in DOMAIN moves
        BY <2>1, LinesOf DEF StockTypeOK
      <3>2. moves[Max(T)].type = "delivery" => moves[Max(T)].qty < 0
        BY <3>1 DEF StockTypeOK
      <3>. QED BY <3>1, <3>2, ReturnMoveType
    <2>. QED BY <2>1
  <1>3. IsFiniteSet(DOMAIN moves) /\ DOMAIN moves \subseteq Int
    BY LinesOf DEF StockTypeOK
  <1> HIDE DEF K
  <1>4. Returned(doc, credit) \in K[DOMAIN moves]
    BY <1>1, <1>2, <1>3, ReturnedStays
  <1>. QED BY <1>4 DEF K

\* that of a count,
LEMMA AdjustedType ==
  ASSUME StockTypeOK, NEW P, Leads(P), Loaded \in P, NEW w \in Warehouses, NEW lines \in Seq([product : Products, counted : Nat, system : Int]), NEW doc \in Docs
  PROVE  Adjusted(w, lines, doc) \in P
  <1> DEFINE K == [T \in SUBSET DOMAIN lines |-> P]
  <1>1. Loaded \in K[{}]
    OBVIOUS
  <1>2. \A T \in SUBSET DOMAIN lines : T # {} =>
          \A k \in K[T \ {Max(T)}] : AdjustLine(k, lines[Max(T)], w, doc) \in K[T]
    <2>1. ASSUME NEW T \in SUBSET DOMAIN lines, T # {}, NEW k \in P
          PROVE  AdjustLine(k, lines[Max(T)], w, doc) \in P
      <3>1. lines[Max(T)] \in [product : Products, counted : Nat, system : Int]
        BY <2>1, LinesOf
      <3>. QED BY <3>1, AdjustLineType
    <2>. QED BY <2>1
  <1>3. IsFiniteSet(DOMAIN lines) /\ DOMAIN lines \subseteq Int
    BY LinesOf
  <1> HIDE DEF K
  <1>4. Adjusted(w, lines, doc) \in K[DOMAIN lines]
    BY <1>1, <1>2, <1>3, AdjustedStays
  <1>. QED BY <1>4 DEF K

\* that of a goods receipt,
LEMMA ArrivedType ==
  ASSUME StockTypeOK, NEW P, Leads(P), Loaded \in P, NEW w \in Warehouses, NEW ls \in Seq(BillLines), NEW doc \in Docs
  PROVE  Arrived(ls, w, doc) \in P
  <1> DEFINE K == [T \in SUBSET DOMAIN ls |-> P]
  <1>1. Loaded \in K[{}]
    OBVIOUS
  <1>2. \A T \in SUBSET DOMAIN ls : T # {} =>
          \A k \in K[T \ {Max(T)}] : ReceiveLine(k, ls[Max(T)], w, doc) \in K[T]
    <2>1. ASSUME NEW T \in SUBSET DOMAIN ls, T # {}, NEW k \in P
          PROVE  ReceiveLine(k, ls[Max(T)], w, doc) \in P
      <3>1. ls[Max(T)] \in BillLines
        BY <2>1, LinesOf
      <3>2. ls[Max(T)].qty \in Nat \ {0} /\ ls[Max(T)].price \in Nat
        BY <3>1 DEF BillLines
      <3>. QED BY <3>2, ReceiveLineType
    <2>. QED BY <2>1
  <1>3. IsFiniteSet(DOMAIN ls) /\ DOMAIN ls \subseteq Int
    BY LinesOf
  <1> HIDE DEF K
  <1>4. Arrived(ls, w, doc) \in K[DOMAIN ls]
    BY <1>1, <1>2, <1>3, ArrivedStays
  <1>. QED BY <1>4 DEF K

\* that of a return to the vendor,
LEMMA SentBackType ==
  ASSUME StockTypeOK, NEW P, Leads(P), Loaded \in P, NEW w \in Warehouses, NEW ls \in Seq(BillLines), NEW doc \in Docs
  PROVE  SentBack(ls, w, doc) \in P
  <1> DEFINE K == [T \in SUBSET DOMAIN ls |-> P]
  <1>1. Loaded \in K[{}]
    OBVIOUS
  <1>2. \A T \in SUBSET DOMAIN ls : T # {} =>
          \A k \in K[T \ {Max(T)}] : ReturnLine(k, ls[Max(T)], w, doc) \in K[T]
    <2>1. ASSUME NEW T \in SUBSET DOMAIN ls, T # {}, NEW k \in P
          PROVE  ReturnLine(k, ls[Max(T)], w, doc) \in P
      <3>1. ls[Max(T)] \in BillLines
        BY <2>1, LinesOf
      <3>2. ls[Max(T)].qty \in Nat \ {0}
        BY <3>1 DEF BillLines
      <3>. QED BY <3>2, ReturnLineType
    <2>. QED BY <2>1
  <1>3. IsFiniteSet(DOMAIN ls) /\ DOMAIN ls \subseteq Int
    BY LinesOf
  <1> HIDE DEF K
  <1>4. SentBack(ls, w, doc) \in K[DOMAIN ls]
    BY <1>1, <1>2, <1>3, SentBackStays
  <1>. QED BY <1>4 DEF K

\* and the opening stock.
LEMMA OpenedWithType ==
  ASSUME NEW P, Leads(P), Nothing \in P, NEW goods \in Seq(OpeningLines)
  PROVE  OpenedWith(goods) \in P
  <1> DEFINE K == [T \in SUBSET DOMAIN goods |-> P]
  <1>1. Nothing \in K[{}]
    OBVIOUS
  <1>2. \A T \in SUBSET DOMAIN goods : T # {} =>
          \A k \in K[T \ {Max(T)}] : OpenLine(k, goods[Max(T)]) \in K[T]
    <2>1. ASSUME NEW T \in SUBSET DOMAIN goods, T # {}, NEW k \in P
          PROVE  OpenLine(k, goods[Max(T)]) \in P
      <3>1. goods[Max(T)] \in OpeningLines
        BY <2>1, LinesOf
      <3>. QED BY <3>1, OpenLineType
    <2>. QED BY <2>1
  <1>3. IsFiniteSet(DOMAIN goods) /\ DOMAIN goods \subseteq Int
    BY LinesOf
  <1> HIDE DEF K
  <1>4. OpenedWith(goods) \in K[DOMAIN goods]
    BY <1>1, <1>2, <1>3, OpenedWithStays
  <1>. QED BY <1>4 DEF K

(***************************************************************************)
(* The operations of stock keep its rows well formed.                      *)
(***************************************************************************)
LEMMA EnterType ==
  ASSUME NEW b \in [Accounts -> Int], NEW d \in Accounts, NEW c \in Accounts, NEW n \in Int
  PROVE  Enter(b, d, c, n) \in [Accounts -> Int]
  BY DEF Enter

\* Nor does the entry of a variance.
LEMMA VarianceType ==
  ASSUME NEW b \in [Accounts -> Int], NEW n \in Int
  PROVE  EnterVariance(b, n) \in [Accounts -> Int]
  BY EnterType DEF EnterVariance, Accounts

\* An amount rounded to money is an integer.
LEMMA MoneyType ==
  ASSUME NEW n \in Int
  PROVE  HalfUp(n, Scale) \in Int /\ HalfEven(n, Scale) \in Int
  BY HalfUpType, HalfEvenType, ScaleAssumption

\* A document is delivered from a warehouse there is.
LEMMA SiteType ==
  ASSUME NEW o \in Warehouses \cup {None}, NEW w \in Site(o)
  PROVE  w \in Warehouses
  BY DEF Site, DefaultWarehouses

\* The rows of stock that the documents are about
StockRows(qs, ms) ==
  /\ qs \in [Products -> [Warehouses -> QuantRows]] /\ Kept(qs)
  /\ ms \in Seq(MoveRows) /\ Taking(ms)

\* What the type of the state of stock says, part by part.
LEMMA StockParts ==
  StockTypeOK <=>
    /\ method \in {"average", "fifo"}
    /\ warehouse \in [Warehouses -> {"absent", "plain", "default"}]
    /\ StockRows(quants, moves) /\ counts \in Seq(CountRows)
    /\ books \in [Accounts -> Int]
    /\ alerts \in [Products -> Nat] /\ dropped \in Int /\ ops \in Nat
  BY DEF StockTypeOK, StockRows, Kept, Taking

\* The rows of a piece of work are rows of stock.
LEMMA WorkParts ==
  ASSUME NEW k \in Works
  PROVE  /\ StockRows(k.quants, k.moves)
         /\ k.value \in Int /\ k.variance \in Int /\ k.crossed \in SUBSET Products /\ k.ok \in BOOLEAN
  BY DEF Works, WorkRows, StockRows

\* A step that leaves stock alone keeps its type.
LEMMA StockUnchanged ==
  ASSUME StockTypeOK, UNCHANGED stockVars
  PROVE  StockTypeOK'
  BY DEF StockTypeOK, stockVars

\* The bound on the operations stays a number.
LEMMA CountedType ==
  ASSUME ops \in Nat, Counted
  PROVE  ops' \in Nat
  BY DEF Counted

\* An operation of stock takes over a piece of work of P, and touches no account
\* of purchasing.
Adopts(P) ==
  /\ \E k \in P : quants' = k.quants /\ moves' = k.moves
  /\ UNCHANGED <<method, alerts>>
  /\ \A a \in {"grni", "payable", "vat"} : books'[a] = books[a]

\* What moves nothing takes over what it found.
LEMMA LoadedAdopts ==
  ASSUME NEW P, Loaded \in P, UNCHANGED <<method, quants, moves, books, alerts>>
  PROVE  Adopts(P)
  BY DEF Adopts, Loaded

\* create_warehouse and set_default_warehouse keep the type of stock.
LEMMA WarehousesStay ==
  ASSUME StockTypeOK, NEW P, Loaded \in P, NEW w \in Warehouses,
         (\E d \in BOOLEAN : CreateWarehouse(w, d)) \/ SetDefaultWarehouse(w)
  PROVE  StockTypeOK' /\ Adopts(P)
  <1>1. /\ warehouse' \in [Warehouses -> {"absent", "plain", "default"}]
        /\ UNCHANGED <<method, quants, moves, books, counts, alerts, dropped>> /\ Counted
    BY StockParts DEF CreateWarehouse, SetDefaultWarehouse
  <1>. QED BY <1>1, CountedType, LoadedAdopts DEF StockTypeOK

\* So does create_cycle_count,
LEMMA CreateCycleCountStays ==
  ASSUME StockTypeOK, NEW P, Loaded \in P, NEW w \in Warehouses, NEW s \in Sheets, CreateCycleCount(w, s)
  PROVE  StockTypeOK' /\ Adopts(P)
  <1> DEFINE ls == [i \in DOMAIN s |-> [product |-> s[i].product, counted |-> s[i].qty,
                                        system |-> quants[s[i].product][w].qty]]
             c == [at |-> w, status |-> "draft", lines |-> ls]
  <1>1. s \in Seq([product : Products, qty : Nat])
    BY InventoryAssumption
  <1>2. DOMAIN s = 1 .. Len(s) /\ Len(s) \in Nat
    BY <1>1, LenProperties
  <1>3. \A i \in 1 .. Len(s) : s[i] \in [product : Products, qty : Nat]
    BY <1>1, ElementOfSeq
  <1>4. \A p \in Products : quants[p][w].qty \in Int
    BY DEF StockTypeOK, QuantRows
  <1>5. ls \in [1 .. Len(s) -> [product : Products, counted : Nat, system : Int]]
    BY <1>2, <1>3, <1>4
  <1>6. ls \in Seq([product : Products, counted : Nat, system : Int])
    <2> HIDE DEF ls
    <2>. QED BY <1>2, <1>5, FunctionIsSeq
  <1>7. counts' = Append(counts, c) /\ Counted
        /\ UNCHANGED <<method, warehouse, quants, moves, books, alerts, dropped>>
    BY DEF CreateCycleCount
  <1> HIDE DEF ls
  <1>8. c \in CountRows
    BY <1>6 DEF CountRows
  <1> HIDE DEF c
  <1>9. counts' \in Seq(CountRows)
    BY <1>7, <1>8, AppendProperties, StockParts
  <1>. QED BY <1>7, <1>9, CountedType, LoadedAdopts DEF StockTypeOK

\* A request that works on a copy and takes it over
LEMMA AdoptStays ==
  ASSUME StockTypeOK, NEW k \in Works, quants' = k.quants, moves' = k.moves,
         books' \in [Accounts -> Int], alerts' \in [Products -> Nat], dropped' \in Int, ops' \in Nat,
         counts' \in Seq(CountRows), UNCHANGED <<method, warehouse>>
  PROVE  StockTypeOK'
  <1>1. StockRows(quants', moves')
    BY WorkParts
  <1>. QED BY <1>1, StockParts DEF StockTypeOK, StockRows, Kept, Taking

\* receive_stock of the routes,
LEMMA ManualReceiveStays ==
  ASSUME StockTypeOK, NEW P, Leads(P), Loaded \in P, NEW p \in Products, NEW w \in Warehouses, NEW n \in Qtys, NEW u \in Costs,
         ManualReceive(p, w, n, u)
  PROVE  StockTypeOK' /\ Adopts(P)
  <1> DEFINE doc == <<"manual", 0>>
             k == ReceiveStock(Loaded, p, w, n, n * u * Scale, "receipt", doc)
  <1>1. n \in Nat \ {0} /\ n * u * Scale \in Int
    <2>1. n \in Nat \ {0} /\ u \in Nat
      BY InventoryAssumption
    <2>2. n * u \in Int
      BY <2>1
    <2>. QED BY <2>1, <2>2, ScaleAssumption
  <1>2. doc \in Docs
    BY Zenon DEF Docs
  <1>3. k \in P
    <2> HIDE DEF doc
    <2>. QED BY <1>1, <1>2, ReceiptLeads DEF MoveTypes
  <1>4. /\ Counted /\ quants' = k.quants /\ moves' = k.moves /\ dropped' = dropped + k.variance
        /\ UNCHANGED <<method, warehouse, books, counts, alerts>>
    BY DEF ManualReceive, Adopt
  <1> HIDE DEF k
  <1>5. dropped' \in Int
    BY <1>3, <1>4, LeadsAreWork, StockParts, WorkParts
  <1>. QED BY <1>3, <1>4, <1>5, LeadsAreWork, AdoptStays, CountedType, StockParts DEF Adopts

\* the delivery of an invoice,
LEMMA DeliverStays ==
  ASSUME StockTypeOK, NEW w \in Warehouses, NEW x \in Invoiced, Deliver(w, x)
  PROVE  /\ StockTypeOK' /\ UNCHANGED method
         /\ \A a \in {"grni", "payable", "vat"} : books'[a] = books[a]
  <1> DEFINE doc == <<"invoice", Len(moves)>>
             k == Delivered(w, x, doc)
  <1>1. doc \in Docs
    <2>1. Len(moves) \in Nat
      BY LenProperties DEF StockTypeOK
    <2>. QED BY <2>1, Zenon DEF Docs
  <1>2. k \in Works
    <2>1. x \in Seq([product : Products, qty : Nat \ {0}])
      BY InventoryAssumption
    <2> HIDE DEF doc
    <2>. QED BY <1>1, <2>1, DeliveredType
  <1>3. /\ Counted /\ quants' = k.quants /\ moves' = k.moves
        /\ books' = Enter(books, "cogs", "inventory", HalfUp(k.value, Scale))
        /\ alerts' = [p \in Products |-> alerts[p] + IF p \in k.crossed THEN 1 ELSE 0]
        /\ UNCHANGED <<method, warehouse, counts, dropped>>
    BY DEF Deliver, Adopt
  <1> HIDE DEF k
  <1>4. books' \in [Accounts -> Int]
    BY <1>2, <1>3, EnterType, MoneyType, WorkParts, StockParts DEF Accounts
  <1>5. alerts' \in [Products -> Nat]
    BY <1>3, StockParts
  <1>6. \A a \in {"grni", "payable", "vat"} : books'[a] = books[a]
    BY <1>3, StockParts DEF Enter, Accounts
  <1>. QED BY <1>2, <1>3, <1>4, <1>5, <1>6, AdoptStays, CountedType, StockParts

\* what a credit note puts back,
LEMMA RestockedStays ==
  ASSUME StockTypeOK, Counted, NEW P, Leads(P), NEW k \in P, Restocked(k)
  PROVE  StockTypeOK' /\ Adopts(P)
  <1>0. k \in Works
    BY LeadsAreWork
  <1>1. /\ quants' = k.quants /\ moves' = k.moves
        /\ books' = EnterVariance(Enter(books, "inventory", "cogs", HalfEven(k.value, Scale)), k.variance)
        /\ UNCHANGED <<method, warehouse, counts, alerts, dropped>>
    BY DEF Restocked, Adopt
  <1>2. Enter(books, "inventory", "cogs", HalfEven(k.value, Scale)) \in [Accounts -> Int]
    BY <1>0, EnterType, MoneyType, WorkParts, StockParts DEF Accounts
  <1>3. books' \in [Accounts -> Int]
    BY <1>0, <1>1, <1>2, VarianceType, WorkParts
  <1>4. StockTypeOK'
    BY <1>0, <1>1, <1>3, AdoptStays, CountedType, StockParts
  <1>5. \A a \in {"grni", "payable", "vat"} : books'[a] = books[a]
    BY <1>1, StockParts DEF Enter, EnterVariance, Accounts
  <1>. QED BY <1>1, <1>4, <1>5 DEF Adopts

\* in whole
LEMMA RestockInvoiceStays ==
  ASSUME StockTypeOK, NEW P, Leads(P), Loaded \in P, NEW doc, RestockInvoice(doc)
  PROVE  StockTypeOK' /\ Adopts(P)
  <1> DEFINE credit == <<"credit", Len(moves)>>
  <1>1. credit \in Docs
    <2>1. Len(moves) \in Nat
      BY LenProperties DEF StockTypeOK
    <2>. QED BY <2>1, Zenon DEF Docs
  <1>2. Counted /\ Restocked(Returned(doc, credit))
    BY DEF RestockInvoice
  <1> HIDE DEF credit
  <1>. QED BY <1>1, <1>2, ReturnedType, RestockedStays

\* or line by line,
LEMMA RestockLineStays ==
  ASSUME StockTypeOK, NEW P, Leads(P), Loaded \in P, NEW w \in Warehouses, NEW p \in Products, NEW n \in Qtys, NEW doc, RestockLine(w, p, n, doc)
  PROVE  StockTypeOK' /\ Adopts(P)
  <1> DEFINE credit == <<"credit", Len(moves)>>
             d == {i \in Deliveries(doc) : moves[i].product = p}
             unit == IF d # {} THEN moves[Max(d)].cost * Scale ELSE quants[p][w].avg
             k == ReceiveStock(Loaded, p, w, n, n * unit, "return", credit)
  <1>1. credit \in Docs
    <2>1. Len(moves) \in Nat
      BY LenProperties DEF StockTypeOK
    <2>. QED BY <2>1, Zenon DEF Docs
  <1>2. unit \in Int
    <2>1. CASE d # {}
      <3>1. d \in SUBSET DOMAIN moves
        BY DEF Deliveries
      <3> HIDE DEF d
      <3>2. moves[Max(d)] \in MoveRows
        BY <2>1, <3>1, LinesOf DEF StockTypeOK
      <3>3. moves[Max(d)].cost \in Int
        BY <3>2 DEF MoveRows
      <3>. QED BY <2>1, <3>3, ScaleAssumption
    <2>2. CASE d = {}
      <3>1. quants[p][w] \in QuantRows
        BY DEF StockTypeOK
      <3>2. quants[p][w].avg \in Int
        BY <3>1 DEF QuantRows
      <3>. QED BY <2>2, <3>2
    <2>. QED BY <2>1, <2>2
  <1>3. Counted /\ Restocked(k)
    BY DEF RestockLine
  <1> HIDE DEF unit, credit
  <1>4. k \in P
    <2>1. n \in Nat \ {0} /\ n * unit \in Int
      BY <1>2, InventoryAssumption
    <2>. QED BY <1>1, <2>1, ReceiptLeads DEF MoveTypes
  <1> HIDE DEF k
  <1>. QED BY <1>3, <1>4, RestockedStays

\* create_transfer
LEMMA TransferStays ==
  ASSUME StockTypeOK, NEW P, Leads(P), Loaded \in P, NEW p \in Products, NEW v \in Warehouses, NEW w \in Warehouses, NEW n \in Qtys,
         Transfer(p, v, w, n)
  PROVE  StockTypeOK' /\ Adopts(P)
  <1> DEFINE doc == <<"transfer", Len(moves)>>
             out == IssueStock(Loaded, p, v, n, "transfer", doc, FALSE)
             k == ReceiveStock(out, p, w, n, out.value, "receipt", doc)
  <1>1. doc \in Docs
    <2>1. Len(moves) \in Nat
      BY LenProperties DEF StockTypeOK
    <2>. QED BY <2>1, Zenon DEF Docs
  <1>2. n \in Nat \ {0}
    BY InventoryAssumption
  <1>3. out \in P
    <2> HIDE DEF doc
    <2>. QED BY <1>1, <1>2, IssueLeads DEF MoveTypes
  <1>4. /\ Counted /\ quants' = k.quants /\ moves' = k.moves /\ dropped' = dropped + k.variance
        /\ UNCHANGED <<method, warehouse, books, counts, alerts>>
    BY DEF Transfer, Adopt
  <1>5. k \in P
    <2> HIDE DEF out, doc
    <2>. QED BY <1>1, <1>2, <1>3, LeadsAreWork, ValueIs, ReceiptLeads DEF MoveTypes
  <1> HIDE DEF k
  <1>6. dropped' \in Int
    BY <1>4, <1>5, LeadsAreWork, StockParts, WorkParts
  <1>. QED BY <1>4, <1>5, <1>6, LeadsAreWork, AdoptStays, CountedType, StockParts DEF Adopts

\* and approve_cycle_count.
LEMMA ApproveCycleCountStays ==
  ASSUME StockTypeOK, NEW P, Leads(P), Loaded \in P, NEW c \in DOMAIN counts, ApproveCycleCount(c)
  PROVE  StockTypeOK' /\ Adopts(P)
  <1> DEFINE doc == <<"count", c>>
             k == Adjusted(counts[c].at, counts[c].lines, doc)
  <1>1. DOMAIN counts = 1 .. Len(counts) /\ Len(counts) \in Nat
    BY LenProperties DEF StockTypeOK
  <1>2. counts[c] \in CountRows
    BY <1>1, ElementOfSeq DEF StockTypeOK
  <1>3. counts[c].at \in Warehouses /\ counts[c].lines \in Seq([product : Products, counted : Nat, system : Int])
    BY <1>2 DEF CountRows
  <1>4. doc \in Docs
    <2>1. c \in Nat
      BY <1>1
    <2>. QED BY <2>1, Zenon DEF Docs
  <1>5. k \in P
    <2> HIDE DEF doc
    <2>. QED BY <1>3, <1>4, AdjustedType
  <1>6. /\ Counted /\ quants' = k.quants /\ moves' = k.moves
        /\ books' = EnterVariance(Enter(books, "inventory", "adjustment", HalfUp(k.value, Scale)), k.variance)
        /\ counts' = [counts EXCEPT ![c].status = "approved"]
        /\ UNCHANGED <<method, warehouse, alerts, dropped>>
    BY DEF ApproveCycleCount, Adopt
  <1> HIDE DEF k
  <1>7. Enter(books, "inventory", "adjustment", HalfUp(k.value, Scale)) \in [Accounts -> Int]
    BY <1>5, LeadsAreWork, EnterType, MoneyType, WorkParts, StockParts DEF Accounts
  <1>8. books' \in [Accounts -> Int]
    BY <1>5, <1>6, <1>7, LeadsAreWork, VarianceType, WorkParts
  <1>9. counts' \in Seq(CountRows)
    <2>1. [counts[c] EXCEPT !.status = "approved"] \in CountRows
      BY <1>2 DEF CountRows
    <2>. QED BY <2>1, <1>6, StockParts, ExceptSeq
  <1>10. StockTypeOK'
    BY <1>5, <1>6, <1>8, <1>9, LeadsAreWork, AdoptStays, CountedType, StockParts
  <1>11. \A a \in {"grni", "payable", "vat"} : books'[a] = books[a]
    BY <1>6, StockParts DEF Enter, EnterVariance, Accounts
  <1>. QED BY <1>5, <1>6, <1>10, <1>11 DEF Adopts

\* The operations of stock keep its type.
LEMMA StockStep ==
  ASSUME StockTypeOK, NEW P, Leads(P), Loaded \in P, StockNext
  PROVE  /\ StockTypeOK'
         /\ Adopts(P) \/ \E w \in Warehouses, x \in Invoiced : Deliver(w, x)
  <1>1. CASE \E w \in Warehouses : (\E d \in BOOLEAN : CreateWarehouse(w, d)) \/ SetDefaultWarehouse(w)
    BY <1>1, WarehousesStay
  <1>2. CASE \E w \in Warehouses, s \in Sheets : CreateCycleCount(w, s)
    BY <1>2, CreateCycleCountStays
  <1>3. CASE \E p \in Products, w \in Warehouses, n \in Qtys, u \in Costs : ManualReceive(p, w, n, u)
    BY <1>3, ManualReceiveStays
  <1>4. CASE \E o \in Warehouses \cup {None} : \E w \in Site(o), x \in Invoiced : Deliver(w, x)
    BY <1>4, DeliverStays, SiteType
  <1>5. CASE \E d \in Invoices : RestockInvoice(d)
    BY <1>5, RestockInvoiceStays
  <1>6. CASE \E o \in Warehouses \cup {None} : \E w \in Site(o), p \in Products, n \in Qtys, d \in Invoices \cup {None} :
               RestockLine(w, p, n, d)
    BY <1>6, RestockLineStays, SiteType
  <1>7. CASE \E p \in Products, v, w \in Warehouses, n \in Qtys : Transfer(p, v, w, n)
    BY <1>7, TransferStays
  <1>8. CASE \E c \in DOMAIN counts : ApproveCycleCount(c)
    BY <1>8, ApproveCycleCountStays
  <1>. QED BY <1>1, <1>2, <1>3, <1>4, <1>5, <1>6, <1>7, <1>8, Zenon DEF StockNext

\* The rows of purchasing, and the payloads of its requests
OrderLines == [product : Goods, qty : Nat \ {0}, price : Nat, received : Nat, billed : Int, closed : BOOLEAN]
Payloads == [line : Nat, qty : Nat \ {0}]
ReceiptRows == [of : Nat, lines : Seq(BillLines)]
BillRows == [type : {"standard", "debit_note"}, status : {"matched", "mismatched", "posted"}, of : Nat,
             at : Warehouses \cup {None}, original : Nat, lines : Seq(BillLines), subtotal : Int, tax : Int]

\* The operations that are about one order
OfOrders == {"update", "confirm", "approve", "reject", "short_close", "reopen", "receive", "bill"}

\* What a request has read and is about to write
RequestOK(r, os, bs) ==
  /\ r.number \in Nat /\ r.edition \in Nat
  /\ r.op \in OfOrders =>
       r.o \in DOMAIN os /\ r.seen \in OrderRows /\ r.edition <= os[r.o].edition
  /\ r.op = "update" => r.arg.basket \in Baskets /\ r.arg.at \in Warehouses \cup {None}
  /\ r.op = "receive" =>
       /\ r.arg \in Seq(Payloads)
       /\ r.edition = os[r.o].edition => \A i \in DOMAIN r.arg : r.arg[i].line \in DOMAIN os[r.o].lines
  /\ r.op = "bill" => r.arg \in Seq(BillLines)
  /\ r.op = "edit_bill" =>
       /\ r.b \in DOMAIN bs /\ bs[r.b].type = "standard" /\ r.o = bs[r.b].of
       /\ r.seen \in BillRows /\ r.arg \in Seq(BillLines)
  /\ r.op = "post_bill" => r.b \in DOMAIN bs /\ r.seen \in BillRows
  /\ r.op = "debit" =>
       /\ r.b \in Nat /\ r.arg.lines \in Seq(BillLines) /\ r.arg.restock \in BOOLEAN
       /\ r.arg.of \in DOMAIN os \cup {0} /\ r.arg.at \in Warehouses \cup {None}
       /\ r.arg.of # 0 => r.seen \in BillRows

\* Every receipt is of an order, and so is every bill but a free debit note.
DocumentsOK(os, rs, bs) ==
  /\ os \in Seq(OrderRows) /\ rs \in Seq(ReceiptRows) /\ bs \in Seq(BillRows)
  /\ \A r \in DOMAIN rs : rs[r].of \in DOMAIN os
  /\ \A b \in DOMAIN bs : bs[b].of \in DOMAIN os \cup {0} /\ (bs[b].type = "standard" => bs[b].of # 0)

\* The type of the state of purchasing. That a request still refers to rows that
\* there are, and to lines that there are while the edition is the one it read,
\* is the part that needs proof.
PurchaseTypeOK ==
  /\ DocumentsOK(orders, receipts, bills)
  /\ DOMAIN tx = Txns /\ \A t \in Txns : tx[t] = Idle \/ RequestOK(tx[t], orders, bills)
  /\ contended \in BOOLEAN /\ raced \in BOOLEAN /\ left \in Nat

\* The statuses before an order is placed
Open == {"draft", "pending_approval"}

\* What may have happened to orders and bills when a request comes to write
Later(os, os2, bs, bs2) ==
  /\ \A o \in DOMAIN os :
       /\ o \in DOMAIN os2 /\ os[o].edition <= os2[o].edition
       /\ os2[o].edition = os[o].edition => DOMAIN os2[o].lines = DOMAIN os[o].lines
  /\ \A b \in DOMAIN bs : b \in DOMAIN bs2 /\ bs2[b].type = bs[b].type /\ bs2[b].of = bs[b].of
-----------------------------------------------------------------------------
(***************************************************************************)
(* Rows.                                                                   *)
(***************************************************************************)
\* The rows of orders once more, by the sets of their columns
Statuses == {"draft", "pending_approval", "confirmed", "partially_received", "done", "closed"}
Approvals == {"not_required", "pending", "approved", "rejected"}

OrderRec ==
  [status : Statuses, approval : Approvals, total : Int, at : Warehouses \cup {None},
   lines : Seq(OrderLines) \ {<<>>}, edition : Nat]

\* They are the same rows.
LEMMA OrderRowsAre == OrderRows = OrderRec
  BY DEF OrderRows, OrderRec, OrderLines, Goods, Statuses, Approvals

\* The columns of an order.
LEMMA OrderParts ==
  ASSUME NEW x \in OrderRows
  PROVE  /\ x.total \in Int /\ x.at \in Warehouses \cup {None} /\ x.edition \in Nat
         /\ x.status \in Statuses /\ x.approval \in Approvals
         /\ x.lines \in Seq(OrderLines) /\ x.lines # <<>>
  BY OrderRowsAre DEF OrderRec

\* The columns of a line of an order.
LEMMA LineParts ==
  ASSUME NEW ls \in Seq(OrderLines), NEW i \in DOMAIN ls
  PROVE  /\ ls[i] \in OrderLines
         /\ ls[i].product \in Goods /\ ls[i].qty \in Nat \ {0} /\ ls[i].price \in Nat
         /\ ls[i].received \in Nat /\ ls[i].billed \in Int /\ ls[i].closed \in BOOLEAN
  <1>1. ls[i] \in OrderLines
    BY RowsOf
  <1>. QED BY <1>1 DEF OrderLines

\* The columns of a bill.
LEMMA BillParts ==
  ASSUME NEW b \in BillRows
  PROVE  /\ b.type \in {"standard", "debit_note"} /\ b.status \in {"matched", "mismatched", "posted"}
         /\ b.of \in Nat /\ b.at \in Warehouses \cup {None} /\ b.lines \in Seq(BillLines)
         /\ b.subtotal \in Int /\ b.tax \in Int /\ b.original \in Nat
  BY DEF BillRows

\* The columns of a line of a bill.
LEMMA BillLineParts ==
  ASSUME NEW ls \in Seq(BillLines), NEW i \in DOMAIN ls
  PROVE  /\ ls[i] \in BillLines
         /\ ls[i].line \in Nat /\ ls[i].product \in Goods /\ ls[i].qty \in Nat \ {0} /\ ls[i].price \in Nat
  <1>1. ls[i] \in BillLines
    BY RowsOf
  <1>. QED BY <1>1 DEF BillLines

\* The fields of a line of a payload.
LEMMA PayloadParts ==
  ASSUME NEW ls \in Seq(Payloads), NEW i \in DOMAIN ls
  PROVE  ls[i].line \in Nat /\ ls[i].qty \in Nat \ {0}
  <1>1. ls[i] \in Payloads
    BY RowsOf
  <1>. QED BY <1>1 DEF Payloads

\* The quantities of lines, as a function that is summed up
Named(ls, i) == [j \in DOMAIN ls |-> IF ls[j].line = i THEN ls[j].qty ELSE 0]

\* It is the sum that QtyOf takes.
LEMMA QtyOfIs ==
  ASSUME NEW ls, NEW i
  PROVE  QtyOf(ls, i) = SumFunctionOnSet(Named(ls, i), DOMAIN ls)
  BY DEF QtyOf, SumLines, TotalOf, SumFunction, Named

\* The quantity on lines is a number.
LEMMA QtyOfType ==
  ASSUME NEW R, NEW ls \in Seq(R), \A j \in DOMAIN ls : ls[j].qty \in Nat, NEW i
  PROVE  QtyOf(ls, i) \in Nat
  <1>1. IsFiniteSet(DOMAIN ls)
    BY LinesOf
  <1>2. \A j \in DOMAIN ls : Named(ls, i)[j] \in Nat
    BY DEF Named
  <1>. QED BY <1>1, <1>2, QtyOfIs, NatSum

\* What the last of the lines that name i says: nothing, or what that line says.
LEMMA LastOfIs ==
  ASSUME NEW R, NEW ls \in Seq(R), NEW i
  PROVE  \/ LastOf(ls, i) = 0 /\ \A j \in DOMAIN ls : ls[j].line # i
         \/ \E j \in DOMAIN ls : ls[j].line = i /\ LastOf(ls, i) = ls[j].qty
  <1> DEFINE J == {j \in DOMAIN ls : ls[j].line = i}
  <1>1. LastOf(ls, i) = IF J = {} THEN 0 ELSE ls[Max(J)].qty
    BY DEF LastOf
  <1>2. CASE J = {}
    BY <1>1, <1>2
  <1>3. CASE J # {}
    <2>1. IsFiniteSet(DOMAIN ls) /\ DOMAIN ls \subseteq Int
      BY LinesOf
    <2>2. J \in SUBSET DOMAIN ls
      OBVIOUS
    <2>3. Max(J) \in J
      <3> HIDE DEF J
      <3>. QED BY <1>3, <2>1, <2>2, MaxIs
    <2>. QED BY <1>1, <1>3, <2>3
  <1>. QED BY <1>2, <1>3

\* It is a number,
LEMMA LastOfType ==
  ASSUME NEW R, NEW ls \in Seq(R), \A j \in DOMAIN ls : ls[j].qty \in Nat, NEW i
  PROVE  LastOf(ls, i) \in Nat
  BY LastOfIs

\* and all that the lines say of i if one of them at most names it.
LEMMA LastOfOnce ==
  ASSUME NEW R, NEW ls \in Seq(R), \A j \in DOMAIN ls : ls[j].qty \in Nat, Once(ls), NEW i
  PROVE  LastOf(ls, i) = QtyOf(ls, i)
  <1> DEFINE f == Named(ls, i)
  <1>1. IsFiniteSet(DOMAIN ls)
    BY LinesOf
  <1>2. CASE LastOf(ls, i) = 0 /\ \A j \in DOMAIN ls : ls[j].line # i
    <2>1. \A j \in DOMAIN ls : f[j] = 0
      BY <1>2 DEF Named
    <2>. QED BY <1>1, <1>2, <2>1, SumOfZeros, QtyOfIs
  <1>3. CASE \E j \in DOMAIN ls : ls[j].line = i /\ LastOf(ls, i) = ls[j].qty
    <2>1. PICK j \in DOMAIN ls : ls[j].line = i /\ LastOf(ls, i) = ls[j].qty
      BY <1>3
    <2>2. f[j] = ls[j].qty /\ f[j] \in Int /\ \A k \in DOMAIN ls \ {j} : f[k] = 0
      BY <2>1 DEF Named, Once
    <2> HIDE DEF f
    <2>3. SumFunctionOnSet(f, DOMAIN ls) = f[j]
      BY <1>1, <2>2, SumOfPoint
    <2>. QED BY <2>1, <2>2, <2>3, QtyOfIs DEF f
  <1>. QED BY <1>2, <1>3, LastOfIs

\* Lines that were billed are lines, the same but for what was billed.
LEMMA AddBilledType ==
  ASSUME NEW ls \in Seq(OrderLines), NEW bl \in Seq(BillLines), NEW sign \in Int
  PROVE  /\ AddBilled(ls, bl, sign) \in Seq(OrderLines)
         /\ DOMAIN AddBilled(ls, bl, sign) = DOMAIN ls
         /\ ls # <<>> => AddBilled(ls, bl, sign) # <<>>
         /\ \A i \in DOMAIN ls :
              /\ AddBilled(ls, bl, sign)[i].received = ls[i].received
              /\ AddBilled(ls, bl, sign)[i].qty = ls[i].qty
              /\ AddBilled(ls, bl, sign)[i].closed = ls[i].closed
              /\ AddBilled(ls, bl, sign)[i].billed = ls[i].billed + sign * LastOf(bl, i)
  <1> DEFINE f == AddBilled(ls, bl, sign)
  <1>1. \A i \in DOMAIN ls : ls[i] \in OrderLines
    BY LineParts
  <1>2. \A i \in DOMAIN ls : LastOf(bl, i) \in Int
    BY BillLineParts, LastOfType
  <1>3. \A i \in DOMAIN ls : ls[i].billed + sign * LastOf(bl, i) \in Int
    <2>1. \A i \in DOMAIN ls : sign * LastOf(bl, i) \in Int
      BY <1>2
    <2>. QED BY <1>1, <2>1 DEF OrderLines
  <1>4. \A i \in DOMAIN ls : f[i] = [ls[i] EXCEPT !.billed = ls[i].billed + sign * LastOf(bl, i)]
    BY DEF AddBilled
  <1>5. f = [i \in DOMAIN ls |-> f[i]]
    BY DEF AddBilled
  <1> HIDE DEF f
  <1>6. \A i \in DOMAIN ls : /\ f[i] \in OrderLines
                             /\ f[i].received = ls[i].received /\ f[i].qty = ls[i].qty /\ f[i].closed = ls[i].closed
                             /\ f[i].billed = ls[i].billed + sign * LastOf(bl, i)
    <2> TAKE i \in DOMAIN ls
    <2> DEFINE n == ls[i].billed + sign * LastOf(bl, i)
    <2>1. f[i] = [ls[i] EXCEPT !.billed = n] /\ n \in Int /\ ls[i] \in OrderLines
      BY <1>1, <1>3, <1>4
    <2>2. f[i].billed = n
      BY <2>1 DEF OrderLines
    <2> HIDE DEF n
    <2>3. f[i] \in OrderLines /\ f[i].received = ls[i].received /\ f[i].qty = ls[i].qty /\ f[i].closed = ls[i].closed
      BY <2>1 DEF OrderLines
    <2>. QED BY <2>2, <2>3 DEF n
  <1>7. f \in [DOMAIN ls -> OrderLines]
    BY <1>5, <1>6
  <1>8. f \in Seq(OrderLines) /\ DOMAIN f = DOMAIN ls /\ (ls # <<>> => f # <<>>)
    BY <1>7, MappedRows
  <1>. QED BY <1>6, <1>8 DEF f

\* Lines that received goods are lines, the same but for what was received.
LEMMA AddReceivedType ==
  ASSUME NEW ls \in Seq(OrderLines), NEW bl \in Seq(Payloads)
  PROVE  /\ AddReceived(ls, bl) \in Seq(OrderLines)
         /\ DOMAIN AddReceived(ls, bl) = DOMAIN ls
         /\ ls # <<>> => AddReceived(ls, bl) # <<>>
         /\ \A i \in DOMAIN ls :
              /\ AddReceived(ls, bl)[i].received = ls[i].received + LastOf(bl, i)
              /\ AddReceived(ls, bl)[i].qty = ls[i].qty
              /\ AddReceived(ls, bl)[i].closed = ls[i].closed
              /\ AddReceived(ls, bl)[i].billed = ls[i].billed
  <1> DEFINE f == AddReceived(ls, bl)
  <1>1. \A i \in DOMAIN ls : ls[i] \in OrderLines
    BY LineParts
  <1>2. \A i \in DOMAIN ls : LastOf(bl, i) \in Nat
    <2>1. \A j \in DOMAIN bl : bl[j].qty \in Nat
      BY PayloadParts
    <2>. QED BY <2>1, LastOfType
  <1>3. \A i \in DOMAIN ls : ls[i].received + LastOf(bl, i) \in Nat
    BY <1>1, <1>2, SMTT(30) DEF OrderLines
  <1>4. \A i \in DOMAIN ls : f[i] = [ls[i] EXCEPT !.received = ls[i].received + LastOf(bl, i)]
    BY DEF AddReceived
  <1>5. f = [i \in DOMAIN ls |-> f[i]]
    BY DEF AddReceived
  <1> HIDE DEF f
  <1>6. \A i \in DOMAIN ls : /\ f[i] \in OrderLines
                             /\ f[i].billed = ls[i].billed /\ f[i].qty = ls[i].qty /\ f[i].closed = ls[i].closed
                             /\ f[i].received = ls[i].received + LastOf(bl, i)
    <2> TAKE i \in DOMAIN ls
    <2> DEFINE n == ls[i].received + LastOf(bl, i)
    <2>1. f[i] = [ls[i] EXCEPT !.received = n] /\ n \in Nat /\ ls[i] \in OrderLines
      BY <1>1, <1>3, <1>4
    <2>2. f[i].received = n
      BY <2>1 DEF OrderLines
    <2> HIDE DEF n
    <2>3. f[i] \in OrderLines /\ f[i].billed = ls[i].billed /\ f[i].qty = ls[i].qty /\ f[i].closed = ls[i].closed
      BY <2>1 DEF OrderLines
    <2>. QED BY <2>2, <2>3 DEF n
  <1>7. f \in [DOMAIN ls -> OrderLines]
    BY <1>5, <1>6
  <1>8. f \in Seq(OrderLines) /\ DOMAIN f = DOMAIN ls /\ (ls # <<>> => f # <<>>)
    BY <1>7, MappedRows
  <1>. QED BY <1>6, <1>8 DEF f

\* The amounts of lines are integers.
LEMMA ValueOfType ==
  ASSUME NEW R, NEW ls \in Seq(R), \A j \in DOMAIN ls : ls[j].qty \in Nat /\ ls[j].price \in Nat
  PROVE  Value(ls) \in Int /\ Net(ls) \in Int /\ Tax(ls) \in Int
  <1> DEFINE f == [j \in DOMAIN ls |-> ls[j].qty * ls[j].price]
             g == [j \in DOMAIN ls |-> NetOf(ls[j])]
             h == [j \in DOMAIN ls |-> TaxOf(ls[j])]
  <1>1. \A j \in DOMAIN ls : f[j] \in Int
    OBVIOUS
  <1>2. DOMAIN ls = 1 .. Len(ls) /\ Len(ls) \in Nat
    BY RowsOf
  <1>3. Value(ls) = TotalOf(f) /\ Net(ls) = TotalOf(g) /\ Tax(ls) = TotalOf(h)
    BY DEF Value, Net, Tax, SumLines
  <1>4. \A j \in DOMAIN ls : g[j] \in Int
    <2> TAKE j \in DOMAIN ls
    <2>1. HalfEven(f[j], Cent) \in Int
      BY <1>1, HalfEvenType, PurchasingAssumption
    <2>. QED BY <2>1, PurchasingAssumption DEF NetOf
  <1>5. \A j \in DOMAIN ls : h[j] \in Int
    <2> TAKE j \in DOMAIN ls
    <2> DEFINE n == NetOf(ls[j]) * VatPercent
    <2>1. n \in Int
      BY <1>4, PurchasingAssumption
    <2>2. 100 * Cent \in Nat \ {0}
      BY PurchasingAssumption
    <2>3. h[j] = Cent * HalfEven(n, 100 * Cent)
      BY DEF TaxOf
    <2> HIDE DEF n, h
    <2>4. HalfEven(n, 100 * Cent) \in Int
      BY <2>1, <2>2, HalfEvenType
    <2>. QED BY <2>3, <2>4, PurchasingAssumption
  <1>6. DOMAIN f = DOMAIN ls /\ DOMAIN g = DOMAIN ls /\ DOMAIN h = DOMAIN ls
    OBVIOUS
  <1> HIDE DEF f, g, h
  <1>. QED BY <1>1, <1>2, <1>3, <1>4, <1>5, <1>6, TotalType

\* A new bill is a row of its table,
LEMMA BillType ==
  ASSUME NEW ls \in Seq(BillLines), NEW status \in {"matched", "mismatched"}, NEW o \in Nat, NEW w \in Warehouses \cup {None},
         NEW b, b = NewBill("standard", status, o, w, 0, ls)
  PROVE  b \in BillRows /\ b.of = o /\ b.type = "standard" /\ b.lines = ls /\ b.status = status
  <1>1. Net(ls) \in Int /\ Tax(ls) \in Int
    BY BillLineParts, ValueOfType
  <1>. QED BY <1>1 DEF NewBill, BillRows

\* a debit note is one,
LEMMA NoteType ==
  ASSUME NEW a, a.lines \in Seq(BillLines), a.of \in Nat, a.at \in Warehouses \cup {None}, NEW orig \in Nat,
         NEW s, a.of # 0 => s \in BillRows, NEW b, b = NoteOf(a, orig, s)
  PROVE  b \in BillRows /\ b.of = a.of /\ b.type = "debit_note" /\ b.status = "posted"
  <1> DEFINE n == NewBill("debit_note", "posted", a.of, a.at, orig, a.lines)
  <1>1. Net(a.lines) \in Int /\ Tax(a.lines) \in Int
    BY BillLineParts, ValueOfType
  <1>2. n \in BillRows /\ n.of = a.of /\ n.type = "debit_note" /\ n.status = "posted"
    BY <1>1 DEF NewBill, BillRows
  <1>3. a.of # 0 => s.subtotal \in Int /\ s.tax \in Int
    BY BillParts
  <1>4. b = IF a.of = 0 THEN n ELSE [n EXCEPT !.subtotal = s.subtotal, !.tax = s.tax]
    BY DEF NoteOf
  <1> HIDE DEF n
  <1>. QED BY <1>2, <1>3, <1>4 DEF BillRows

\* and the lines of a basket are lines of an order nothing happened to.
LEMMA NewLinesType ==
  ASSUME NEW b \in Baskets
  PROVE  /\ NewLines(b) \in Seq(OrderLines) \ {<<>>} /\ Value(b) \in Int
         /\ \A i \in DOMAIN NewLines(b) :
              /\ NewLines(b)[i].received = 0 /\ NewLines(b)[i].billed = 0 /\ ~NewLines(b)[i].closed
              /\ NewLines(b)[i].qty \in Nat \ {0}
  <1>1. b \in Seq(OrderPayload) /\ b # <<>>
    BY PurchasingAssumption
  <1>2. \A i \in DOMAIN b : b[i] \in OrderPayload
    BY <1>1, RowsOf
  <1>3. \A i \in DOMAIN b : b[i].product \in Goods /\ b[i].qty \in Nat \ {0} /\ b[i].price \in Nat
    BY <1>2 DEF OrderPayload, Goods
  <1>4. NewLines(b) \in [DOMAIN b -> OrderLines]
    BY <1>3 DEF NewLines, OrderLines
  <1>5. NewLines(b) \in Seq(OrderLines) /\ DOMAIN NewLines(b) = DOMAIN b /\ NewLines(b) # <<>>
    BY <1>1, <1>4, MappedRows
  <1>6. Value(b) \in Int
    BY <1>1, <1>3, ValueOfType
  <1>. QED BY <1>3, <1>5, <1>6 DEF NewLines

(***************************************************************************)
(* The operations of purchasing keep its rows well formed.                 *)
(***************************************************************************)
LEMMA RequestKept ==
  ASSUME NEW os, NEW os2, NEW bs, NEW bs2, NEW r, RequestOK(r, os, bs), Later(os, os2, bs, bs2),
         os \in Seq(OrderRows), os2 \in Seq(OrderRows)
  PROVE  RequestOK(r, os2, bs2)
  <1>1. r.edition \in Nat /\ r.number \in Nat
    BY DEF RequestOK
  <1>2. ASSUME r.o \in DOMAIN os
        PROVE  os[r.o].edition \in Nat /\ os2[r.o].edition \in Nat
    <2>1. os[r.o] \in OrderRows /\ os2[r.o] \in OrderRows
      BY <1>2, RowsOf DEF Later
    <2>. QED BY <2>1, OrderParts
  <1>3. r.op \in OfOrders => r.o \in DOMAIN os2 /\ r.seen \in OrderRows /\ r.edition <= os2[r.o].edition
    BY <1>1, <1>2 DEF RequestOK, Later
  <1>4. r.op = "receive" =>
          /\ r.arg \in Seq(Payloads)
          /\ r.edition = os2[r.o].edition => \A i \in DOMAIN r.arg : r.arg[i].line \in DOMAIN os2[r.o].lines
    <2> HAVE r.op = "receive"
    <2>1. /\ r.o \in DOMAIN os /\ r.edition <= os[r.o].edition
          /\ r.arg \in Seq(Payloads)
          /\ r.edition = os[r.o].edition => \A i \in DOMAIN r.arg : r.arg[i].line \in DOMAIN os[r.o].lines
      BY DEF RequestOK, OfOrders
    <2>2. r.edition = os2[r.o].edition =>
            r.edition = os[r.o].edition /\ DOMAIN os2[r.o].lines = DOMAIN os[r.o].lines
      BY <1>1, <1>2, <2>1 DEF Later
    <2>. QED BY <2>1, <2>2
  <1>5. r.op = "edit_bill" => r.b \in DOMAIN bs2 /\ bs2[r.b].type = "standard" /\ r.o = bs2[r.b].of
    BY DEF RequestOK, Later
  <1>. QED BY <1>1, <1>3, <1>4, <1>5 DEF RequestOK, Later

\* A request begins or ends, with what it has written
LEMMA TypeOfStep ==
  ASSUME PurchaseTypeOK, DocumentsOK(orders', receipts', bills'), Later(orders, orders', bills, bills'),
         NEW t \in Txns, NEW r, tx' = [tx EXCEPT ![t] = r], r = Idle \/ RequestOK(r, orders', bills'),
         contended' \in BOOLEAN, raced' \in BOOLEAN, left' \in Nat
  PROVE  PurchaseTypeOK'
  <1>1. DOMAIN tx' = Txns /\ tx'[t] = r /\ \A u \in Txns : u # t => tx'[u] = tx[u]
    BY DEF PurchaseTypeOK
  <1>2. \A u \in Txns : tx'[u] = Idle \/ RequestOK(tx'[u], orders', bills')
    <2> TAKE u \in Txns
    <2>1. CASE u = t
      BY <1>1, <2>1
    <2>2. CASE u # t
      <3>1. tx[u] = Idle \/ RequestOK(tx[u], orders, bills)
        BY DEF PurchaseTypeOK
      <3>2. orders \in Seq(OrderRows) /\ orders' \in Seq(OrderRows)
        BY DEF PurchaseTypeOK, DocumentsOK
      <3>. QED BY <1>1, <2>2, <3>1, <3>2, RequestKept
    <2>. QED BY <2>1, <2>2
  <1>. QED BY <1>1, <1>2 DEF PurchaseTypeOK

\* Documents that nobody wrote are later documents.
LEMMA SameIsLater ==
  ASSUME DocumentsOK(orders, receipts, bills), UNCHANGED <<orders, receipts, bills>>
  PROVE  DocumentsOK(orders', receipts', bills') /\ Later(orders, orders', bills, bills')
  <1>1. \A o \in DOMAIN orders : orders[o].edition \in Nat
    BY RowsOf, OrderParts DEF DocumentsOK
  <1>. QED BY <1>1 DEF Later, DocumentsOK

\* The numbers that documents are given are numbers.
LEMMA NumberType ==
  ASSUME NEW type, DocumentsOK(orders, receipts, bills)
  PROVE  NextNumber(type) \in Nat /\ Len(receipts) + 1 \in Nat
  <1>1. IsFiniteSet(DOMAIN bills) /\ Len(receipts) \in Nat
    BY LinesOf, LenProperties DEF DocumentsOK
  <1>2. IsFiniteSet({b \in DOMAIN bills : bills[b].type = type})
    BY <1>1, FS_Subset
  <1>. QED BY <1>1, <1>2, FS_CardinalityType DEF NextNumber

\* What a request holds when it has read.
LEMMA RequestParts ==
  ASSUME NEW op, NEW o, NEW b, NEW arg, DocumentsOK(orders, receipts, bills), o = 0 \/ o \in DOMAIN orders
  PROVE  LET r == Request(op, o, b, arg) IN
         /\ r.op = op /\ r.o = o /\ r.b = b /\ r.arg = arg /\ r.number \in Nat /\ r.edition \in Nat
         /\ b = 0 /\ o # 0 => r.seen = orders[o] /\ r.seen \in OrderRows /\ r.edition = orders[o].edition
         /\ b # 0 => r.seen = bills[b]
  <1> DEFINE n == IF op = "receive" THEN Len(receipts) + 1
                  ELSE IF op = "bill" THEN NextNumber("standard")
                  ELSE IF op = "debit" THEN NextNumber("debit_note") ELSE 0
             s == IF b # 0 THEN bills[b] ELSE IF o # 0 THEN orders[o] ELSE None
             e == IF o # 0 THEN orders[o].edition ELSE 0
  <1>1. n \in Nat
    BY NumberType
  <1>2. o # 0 => orders[o] \in OrderRows
    BY RowsOf DEF DocumentsOK
  <1>3. e \in Nat
    BY <1>2, OrderParts
  <1>4. Request(op, o, b, arg) = [op |-> op, o |-> o, b |-> b, arg |-> arg, seen |-> s, edition |-> e, number |-> n]
    BY DEF Request
  <1> HIDE DEF n
  <1>. QED BY <1>1, <1>2, <1>3, <1>4

\* A request that has read keeps the type of the state.
LEMMA BeginType ==
  ASSUME PurchaseTypeOK, NEW t \in Txns, NEW op, NEW o, NEW b, NEW arg, Begin(t, op, o, b, arg),
         RequestOK(Request(op, o, b, arg), orders, bills)
  PROVE  PurchaseTypeOK'
  <1> DEFINE r == Request(op, o, b, arg)
  <1>1. /\ tx' = [tx EXCEPT ![t] = r] /\ left' = left - 1 /\ left > 0
        /\ UNCHANGED <<orders, receipts, bills, contended, raced>>
    BY DEF Begin
  <1>2. RequestOK(r, orders', bills')
    BY <1>1
  <1> HIDE DEF r
  <1>3. DocumentsOK(orders, receipts, bills) /\ contended' \in BOOLEAN /\ raced' \in BOOLEAN /\ left' \in Nat
    BY <1>1 DEF PurchaseTypeOK
  <1>4. DocumentsOK(orders', receipts', bills') /\ Later(orders, orders', bills, bills')
    BY <1>1, <1>3, SameIsLater
  <1>. QED BY <1>1, <1>2, <1>3, <1>4, TypeOfStep

\* Requests that read an order
LEMMA ReadsOrderType ==
  ASSUME PurchaseTypeOK, NEW t \in Txns, NEW o \in DOMAIN orders,
         \/ ReadUpdate(t, o) \/ ReadConfirm(t, o) \/ ReadApproval(t, o) \/ ReadShortClose(t, o)
         \/ ReadReopen(t, o) \/ ReadReceive(t, o) \/ ReadBill(t, o)
  PROVE  PurchaseTypeOK'
  <1>1. DocumentsOK(orders, receipts, bills)
    BY DEF PurchaseTypeOK
  <1>2. orders[o] \in OrderRows /\ o \in Nat \ {0} /\ orders[o].edition \in Nat
    BY <1>1, RowsOf, OrderParts DEF DocumentsOK
  <1>3. ASSUME NEW op, NEW arg, op \in OfOrders \ {"update", "receive", "bill"}
        PROVE  RequestOK(Request(op, o, 0, arg), orders, bills)
    BY <1>1, <1>2, <1>3, RequestParts DEF RequestOK, OfOrders
  <1>4. CASE ReadUpdate(t, o)
    <2>1. PICK b \in Baskets, w \in Warehouses \cup {None} : Begin(t, "update", o, 0, [basket |-> b, at |-> w])
      BY <1>4 DEF ReadUpdate
    <2>2. RequestOK(Request("update", o, 0, [basket |-> b, at |-> w]), orders, bills)
      BY <1>1, <1>2, RequestParts DEF RequestOK, OfOrders
    <2>. QED BY <2>1, <2>2, BeginType
  <1>5. CASE ReadConfirm(t, o)
    BY <1>3, <1>5, BeginType DEF ReadConfirm, OfOrders
  <1>6. CASE ReadApproval(t, o)
    BY <1>3, <1>6, BeginType DEF ReadApproval, OfOrders
  <1>7. CASE ReadShortClose(t, o)
    BY <1>3, <1>7, BeginType DEF ReadShortClose, OfOrders
  <1>8. CASE ReadReopen(t, o)
    BY <1>3, <1>8, BeginType DEF ReadReopen, OfOrders
  <1>9. CASE ReadReceive(t, o)
    <2>1. PICK s \in Picked(o) : \E q \in [DOMAIN s -> Qtys] :
            Begin(t, "receive", o, 0, [i \in DOMAIN s |-> [line |-> s[i], qty |-> q[i]]])
      BY <1>9 DEF ReadReceive
    <2>2. PICK q \in [DOMAIN s -> Qtys] :
            Begin(t, "receive", o, 0, [i \in DOMAIN s |-> [line |-> s[i], qty |-> q[i]]])
      BY <2>1
    <2> DEFINE arg == [i \in DOMAIN s |-> [line |-> s[i], qty |-> q[i]]]
    <2>3. s \in Seq(DOMAIN orders[o].lines)
      <3> DEFINE D == DOMAIN orders[o].lines
      <3>1. (\E i \in D : s = <<i>>) \/ (\E i, j \in D : s = <<i, j>>)
        BY <2>1 DEF Picked
      <3> HIDE DEF D
      <3>2. \A i \in D : <<i>> \in Seq(D)
        OBVIOUS
      <3>3. \A i, j \in D : <<i, j>> \in Seq(D)
        OBVIOUS
      <3>4. s \in Seq(D)
        BY <3>1, <3>2, <3>3, Zenon
      <3>. QED BY <3>4 DEF D
    <2>4. DOMAIN orders[o].lines \subseteq Nat
      <3>1. orders[o].lines \in Seq(OrderLines)
        BY <1>2, OrderParts
      <3>. QED BY <3>1, RowsOf
    <2>5. \A i \in DOMAIN s : s[i] \in DOMAIN orders[o].lines
      BY <2>3, RowsOf
    <2>6. arg \in [DOMAIN s -> Payloads]
      BY <2>2, <2>4, <2>5, InventoryAssumption DEF Payloads
    <2>7. \A i \in DOMAIN arg : arg[i].line \in DOMAIN orders[o].lines
      BY <2>5
    <2> HIDE DEF arg
    <2>8. arg \in Seq(Payloads)
      BY <2>3, <2>6, MappedRows
    <2>9. RequestOK(Request("receive", o, 0, arg), orders, bills)
      BY <1>1, <1>2, <2>7, <2>8, RequestParts DEF RequestOK, OfOrders
    <2>. QED BY <2>2, <2>9, BeginType DEF arg
  <1>10. CASE ReadBill(t, o)
    <2>1. PICK i \in DOMAIN orders[o].lines, n \in Qtys, u \in BillPrices :
            Begin(t, "bill", o, 0, <<BillLine(o, i, n, u)>>)
      BY <1>10 DEF ReadBill
    <2>2. BillLine(o, i, n, u) \in BillLines
      <3>1. orders[o].lines \in Seq(OrderLines)
        BY <1>2, OrderParts
      <3>2. i \in Nat /\ orders[o].lines[i].product \in Goods
        BY <3>1, RowsOf, LineParts
      <3>3. n \in Nat \ {0} /\ u \in Nat
        BY InventoryAssumption, PurchasingAssumption
      <3>. QED BY <3>2, <3>3 DEF BillLine, BillLines
    <2>3. <<BillLine(o, i, n, u)>> \in Seq(BillLines)
      BY <2>2
    <2> DEFINE arg == <<BillLine(o, i, n, u)>>
    <2>4. RequestOK(Request("bill", o, 0, arg), orders, bills)
      <3>1. arg \in Seq(BillLines)
        BY <2>3
      <3> HIDE DEF arg
      <3>. QED BY <3>1, <1>1, <1>2, <2>3, RequestParts DEF RequestOK, OfOrders
    <2>. QED BY <2>1, <2>4, BeginType
  <1>. QED BY <1>4, <1>5, <1>6, <1>7, <1>8, <1>9, <1>10

\* Requests that read a bill
LEMMA ReadsBillType ==
  ASSUME PurchaseTypeOK, NEW t \in Txns, NEW b \in DOMAIN bills,
         ReadEditBill(t, b) \/ ReadPostBill(t, b) \/ ReadDebitNote(t, b)
  PROVE  PurchaseTypeOK'
  <1> DEFINE o == bills[b].of
  <1>1. DocumentsOK(orders, receipts, bills)
    BY DEF PurchaseTypeOK
  <1>2. bills[b] \in BillRows /\ b \in Nat \ {0}
    BY <1>1, RowsOf DEF DocumentsOK
  <1>3. o \in DOMAIN orders \cup {0} /\ (bills[b].type = "standard" => o \in DOMAIN orders)
    BY <1>1 DEF DocumentsOK
  <1>4. CASE ReadEditBill(t, b)
    <2>1. PICK i \in DOMAIN orders[o].lines, n \in Qtys, u \in BillPrices :
            Begin(t, "edit_bill", o, b, <<BillLine(o, i, n, u)>>)
      BY <1>4 DEF ReadEditBill
    <2>2. bills[b].type = "standard"
      BY <1>4 DEF ReadEditBill
    <2> HIDE DEF o
    <2>3. BillLine(o, i, n, u) \in BillLines
      <3>1. orders[o] \in OrderRows
        BY <1>1, <1>3, <2>2, RowsOf DEF DocumentsOK
      <3>2. orders[o].lines \in Seq(OrderLines)
        BY <3>1, OrderParts
      <3>3. i \in Nat /\ orders[o].lines[i].product \in Goods
        BY <3>2, RowsOf, LineParts
      <3>4. n \in Nat \ {0} /\ u \in Nat
        BY InventoryAssumption, PurchasingAssumption
      <3>. QED BY <3>3, <3>4 DEF BillLine, BillLines
    <2>4. <<BillLine(o, i, n, u)>> \in Seq(BillLines)
      BY <2>3
    <2> DEFINE arg == <<BillLine(o, i, n, u)>>
    <2>5. RequestOK(Request("edit_bill", o, b, arg), orders, bills)
      <3>1. arg \in Seq(BillLines)
        BY <2>4
      <3> HIDE DEF arg
      <3>. QED BY <3>1, <1>1, <1>2, <1>3, <2>2, <2>4, RequestParts DEF RequestOK, OfOrders, o
    <2>. QED BY <2>1, <2>5, BeginType
  <1>5. CASE ReadPostBill(t, b)
    <2>1. RequestOK(Request("post_bill", o, b, None), orders, bills)
      BY <1>1, <1>2, <1>3, RequestParts DEF RequestOK, OfOrders
    <2>. QED BY <1>5, <2>1, BeginType DEF ReadPostBill
  <1>6. CASE ReadDebitNote(t, b)
    <2>1. PICK restock \in BOOLEAN :
            Begin(t, "debit", o, b, [lines |-> bills[b].lines, restock |-> restock, of |-> o, at |-> bills[b].at])
      BY <1>6 DEF ReadDebitNote
    <2>2. bills[b].lines \in Seq(BillLines) /\ bills[b].at \in Warehouses \cup {None}
      BY <1>2, BillParts
    <2>3. RequestOK(Request("debit", o, b, [lines |-> bills[b].lines, restock |-> restock, of |-> o, at |-> bills[b].at]),
                    orders, bills)
      BY <1>1, <1>2, <1>3, <2>2, RequestParts DEF RequestOK, OfOrders
    <2>. QED BY <2>1, <2>3, BeginType
  <1>. QED BY <1>4, <1>5, <1>6

\* So do the reads of a return without a bill.
LEMMA ReadReturnType ==
  ASSUME PurchaseTypeOK, NEW t \in Txns, ReadReturn(t)
  PROVE  PurchaseTypeOK'
  <1>1. DocumentsOK(orders, receipts, bills)
    BY DEF PurchaseTypeOK
  <1>2. PICK b \in DOMAIN bills \cup {0}, l \in Returns, restock \in BOOLEAN :
          Begin(t, "debit", 0, b, [restock |-> restock, of |-> 0, at |-> IF b = 0 THEN None ELSE bills[b].at,
            lines |-> <<[line |-> 0, product |-> l.product, qty |-> l.qty, price |-> l.price]>>])
    BY DEF ReadReturn
  <1> DEFINE x == [line |-> 0, product |-> l.product, qty |-> l.qty, price |-> l.price]
             w == IF b = 0 THEN None ELSE bills[b].at
             ls == <<x>>
             arg == [restock |-> restock, of |-> 0, at |-> w, lines |-> ls]
  <1>3. x \in BillLines
    BY PurchasingAssumption DEF OrderPayload, BillLines, Goods
  <1>4. b \in Nat /\ w \in Warehouses \cup {None}
    BY <1>1, RowsOf, BillParts DEF DocumentsOK
  <1> HIDE DEF x, w
  <1>5. ls \in Seq(BillLines)
    BY <1>3
  <1> HIDE DEF ls
  <1>6. RequestOK(Request("debit", 0, b, arg), orders, bills)
    BY <1>1, <1>4, <1>5, RequestParts DEF RequestOK, OfOrders
  <1>. QED BY <1>2, <1>6, BeginType DEF x, w, ls

(***************************************************************************)
(* What the operations of purchasing write.                                *)
(***************************************************************************)
LEMMA OpenRequest ==
  ASSUME PurchaseTypeOK, NEW t \in Txns, tx[t] # Idle
  PROVE  /\ RequestOK(tx[t], orders, bills) /\ tx[t].number \in Nat
         /\ tx[t].op \in OfOrders \cup {"edit_bill"} => tx[t].o \in DOMAIN orders /\ tx[t].o \in Nat \ {0}
         /\ tx[t].op \in OfOrders => tx[t].seen \in OrderRows
  <1>1. RequestOK(tx[t], orders, bills) /\ DocumentsOK(orders, receipts, bills)
    BY DEF PurchaseTypeOK
  <1>2. tx[t].op \in OfOrders \cup {"edit_bill"} => tx[t].o \in DOMAIN orders
    BY <1>1 DEF RequestOK, DocumentsOK, OfOrders
  <1>3. \A o \in DOMAIN orders : o \in Nat \ {0}
    BY <1>1, RowsOf DEF DocumentsOK
  <1>. QED BY <1>1, <1>2, <1>3 DEF RequestOK

\* Any request that writes an order
LEMMA Wrote ==
  ASSUME PurchaseTypeOK, NEW t \in Txns, tx[t].o \in DOMAIN orders, NEW x \in OrderRows, WriteOrder(t, x)
  PROVE  /\ orders' \in Seq(OrderRows) /\ DOMAIN orders' = DOMAIN orders
         /\ \A o \in DOMAIN orders : orders'[o] = IF o = tx[t].o THEN x ELSE orders[o]
         /\ raced' \in BOOLEAN /\ (raced => raced') /\ tx' = [tx EXCEPT ![t] = Idle] /\ left' = left
         /\ ~raced' /\ tx[t].op \in {"update", "confirm", "approve", "reject"} => orders[tx[t].o] = tx[t].seen
  <1>1. orders \in Seq(OrderRows)
    BY DEF PurchaseTypeOK, DocumentsOK
  <1>2. orders' = [orders EXCEPT ![tx[t].o] = x]
    BY DEF WriteOrder
  <1>3. orders' \in Seq(OrderRows) /\ DOMAIN orders' = DOMAIN orders
        /\ \A o \in DOMAIN orders : orders'[o] = IF o = tx[t].o THEN x ELSE orders[o]
    BY <1>1, <1>2, WrittenRows
  <1>. QED BY <1>3 DEF WriteOrder, Ends, PurchaseTypeOK

\* A request writes one order, the one it was read for, and ends.
Writes(t) == LET o == tx[t].o IN
  /\ tx[t] # Idle /\ o \in DOMAIN orders /\ o \in Nat \ {0}
  /\ DOMAIN orders' = DOMAIN orders /\ \A p \in DOMAIN orders : p # o => orders'[p] = orders[p]
  /\ tx' = [tx EXCEPT ![t] = Idle] /\ (raced => raced')
  /\ ~raced' /\ tx[t].op \in {"update", "confirm", "approve", "reject"} => orders[o] = tx[t].seen

\* Bills after a step: those there were are of the same order and kind.
BillsLater ==
  /\ bills' \in Seq(BillRows)
  /\ \A b \in DOMAIN bills' : bills'[b].of \in DOMAIN orders \cup {0} /\ (bills'[b].type = "standard" => bills'[b].of # 0)
  /\ \A b \in DOMAIN bills : b \in DOMAIN bills' /\ bills'[b].type = bills[b].type /\ bills'[b].of = bills[b].of

\* Receipts after a step
ReceiptsLater == receipts' \in Seq(ReceiptRows) /\ \A r \in DOMAIN receipts' : receipts'[r].of \in DOMAIN orders

\* Unchanged documents are such documents.
LEMMA DocumentsSame ==
  ASSUME PurchaseTypeOK
  PROVE  (UNCHANGED bills => BillsLater) /\ (UNCHANGED receipts => ReceiptsLater)
  BY DEF PurchaseTypeOK, DocumentsOK, BillsLater, ReceiptsLater

\* So are the bills when one is added.
LEMMA BillAppended ==
  ASSUME PurchaseTypeOK, NEW b \in BillRows, bills' = Append(bills, b), b.of \in DOMAIN orders \cup {0},
         b.type = "standard" => b.of # 0
  PROVE  BillsLater
  <1>1. bills \in Seq(BillRows)
    BY DEF PurchaseTypeOK, DocumentsOK
  <1>. QED BY <1>1, AppendedRows DEF PurchaseTypeOK, DocumentsOK, BillsLater

\* A request that writes its order keeps the type of the state, if the edition
\* grows whenever the lines are others.
LEMMA WriterType ==
  ASSUME PurchaseTypeOK, NEW t \in Txns, tx[t].o \in DOMAIN orders, NEW x \in OrderRows, WriteOrder(t, x),
         orders[tx[t].o].edition <= x.edition,
         x.edition = orders[tx[t].o].edition => DOMAIN x.lines = DOMAIN orders[tx[t].o].lines,
         BillsLater, ReceiptsLater, contended' \in BOOLEAN
  PROVE  PurchaseTypeOK'
  <1>1. /\ orders' \in Seq(OrderRows) /\ DOMAIN orders' = DOMAIN orders
        /\ \A o \in DOMAIN orders : orders'[o] = IF o = tx[t].o THEN x ELSE orders[o]
        /\ raced' \in BOOLEAN /\ tx' = [tx EXCEPT ![t] = Idle] /\ left' = left
    BY Wrote
  <1>2. \A o \in DOMAIN orders : orders[o].edition \in Nat
    BY RowsOf, OrderParts DEF PurchaseTypeOK, DocumentsOK
  <1>3. Later(orders, orders', bills, bills')
    <2>1. \A o \in DOMAIN orders :
            /\ o \in DOMAIN orders' /\ orders[o].edition <= orders'[o].edition
            /\ orders'[o].edition = orders[o].edition => DOMAIN orders'[o].lines = DOMAIN orders[o].lines
      <3> TAKE o \in DOMAIN orders
      <3>1. CASE o = tx[t].o
        BY <1>1, <3>1
      <3>2. CASE o # tx[t].o
        BY <1>1, <1>2, <3>2
      <3>. QED BY <3>1, <3>2
    <2>. QED BY <2>1 DEF Later, BillsLater
  <1>4. DocumentsOK(orders', receipts', bills')
    BY <1>1 DEF DocumentsOK, BillsLater, ReceiptsLater
  <1>5. left' \in Nat
    BY <1>1 DEF PurchaseTypeOK
  <1>. QED BY <1>1, <1>3, <1>4, <1>5, TypeOfStep

\* A write of the order alone that keeps the identities of its lines
LEMMA OrderOnlyType ==
  ASSUME PurchaseTypeOK, NEW t \in Txns, tx[t].o \in DOMAIN orders, NEW x \in OrderRows, WriteOrder(t, x), OrderOnly,
         x.edition = orders[tx[t].o].edition, DOMAIN x.lines = DOMAIN orders[tx[t].o].lines
  PROVE  PurchaseTypeOK'
  <1>1. orders[tx[t].o] \in OrderRows
    BY RowsOf DEF PurchaseTypeOK, DocumentsOK
  <1>2. orders[tx[t].o].edition <= x.edition
    BY <1>1, OrderParts
  <1>3. BillsLater /\ ReceiptsLater /\ contended' \in BOOLEAN
    BY DocumentsSame DEF OrderOnly, PurchaseTypeOK
  <1>. QED BY <1>2, <1>3, WriterType
-----------------------------------------------------------------------------
\* create_purchase_order adds a draft that nothing was received or billed of.
LEMMA CreateOrderIs ==
  ASSUME PurchaseTypeOK, CreateOrder
  PROVE  /\ PurchaseTypeOK'
         /\ UNCHANGED <<receipts, bills, tx, contended, raced>>
         /\ \E n \in Nat \ {0} :
              /\ n \notin DOMAIN orders /\ DOMAIN orders' = DOMAIN orders \cup {n}
              /\ \A o \in DOMAIN orders : orders'[o] = orders[o]
              /\ orders'[n].status = "draft"
              /\ \A i \in DOMAIN orders'[n].lines :
                   /\ orders'[n].lines[i].received = 0 /\ orders'[n].lines[i].billed = 0
                   /\ ~orders'[n].lines[i].closed /\ orders'[n].lines[i].qty \in Nat \ {0}
  <1>1. PICK b \in Baskets, w \in Warehouses \cup {None} : orders' = Append(orders, NewOrder(b, w))
    BY DEF CreateOrder
  <1>2. /\ left > 0 /\ left' = left - 1 /\ UNCHANGED <<receipts, bills, tx, contended, raced>>
    BY DEF CreateOrder
  <1> DEFINE x == NewOrder(b, w)
             n == Len(orders) + 1
  <1>3. /\ x \in OrderRows /\ x.status = "draft" /\ x.lines = NewLines(b)
    <2>1. NewLines(b) \in Seq(OrderLines) \ {<<>>} /\ Value(b) \in Int
      BY NewLinesType
    <2>2. x = [status |-> "draft", approval |-> "not_required", total |-> Value(b), at |-> w,
               lines |-> NewLines(b), edition |-> 1]
      BY DEF NewOrder
    <2> HIDE DEF x
    <2>. QED BY <2>1, <2>2, OrderRowsAre DEF OrderRec, Statuses, Approvals
  <1> HIDE DEF x
  <1>4. DocumentsOK(orders, receipts, bills)
    BY DEF PurchaseTypeOK
  <1>5. /\ orders' \in Seq(OrderRows) /\ n \in Nat \ {0} /\ n \notin DOMAIN orders
        /\ DOMAIN orders' = DOMAIN orders \cup {n}
        /\ \A o \in DOMAIN orders : orders'[o] = orders[o]
        /\ orders'[n] = x
    BY <1>1, <1>3, <1>4, AppendedRows DEF DocumentsOK, x
  <1> HIDE DEF n
  <1>6. \A o \in DOMAIN orders : orders[o].edition \in Nat
    BY <1>4, RowsOf, OrderParts DEF DocumentsOK
  <1>7. DocumentsOK(orders', receipts', bills') /\ Later(orders, orders', bills, bills')
    BY <1>2, <1>4, <1>5, <1>6 DEF DocumentsOK, Later
  <1>8. \A u \in Txns : tx'[u] = Idle \/ RequestOK(tx'[u], orders', bills')
    <2> TAKE u \in Txns
    <2>1. tx'[u] = tx[u] /\ (tx[u] = Idle \/ RequestOK(tx[u], orders, bills))
      BY <1>2 DEF PurchaseTypeOK
    <2>2. orders \in Seq(OrderRows) /\ orders' \in Seq(OrderRows)
      BY <1>4, <1>5 DEF DocumentsOK
    <2>. QED BY <1>7, <2>1, <2>2, RequestKept
  <1>9. PurchaseTypeOK'
    BY <1>2, <1>7, <1>8 DEF PurchaseTypeOK
  <1>. QED BY <1>2, <1>3, <1>5, <1>9, NewLinesType

\* update_purchase_order replaces the lines, and the edition with them.
LEMMA UpdateOrderIs ==
  ASSUME PurchaseTypeOK, NEW t \in Txns, UpdateOrder(t), NEW o, o = tx[t].o
  PROVE  /\ PurchaseTypeOK'
         /\ UNCHANGED <<receipts, bills, contended>> /\ tx' = [tx EXCEPT ![t] = Idle] /\ (raced => raced')
         /\ o \in DOMAIN orders /\ DOMAIN orders' = DOMAIN orders /\ o \in Nat \ {0}
         /\ \A p \in DOMAIN orders : p # o => orders'[p] = orders[p]
         /\ orders'[o].status = orders[o].status
         /\ \A i \in DOMAIN orders'[o].lines :
              /\ orders'[o].lines[i].received = 0 /\ orders'[o].lines[i].billed = 0
              /\ ~orders'[o].lines[i].closed /\ orders'[o].lines[i].qty \in Nat \ {0}
         /\ ~raced' => orders[o] = tx[t].seen
         /\ \A r \in DOMAIN receipts : receipts[r].of # o
         /\ \A b \in DOMAIN bills : bills[b].of = o => \A i \in DOMAIN bills[b].lines : bills[b].lines[i].line = 0
  <1> DEFINE y == orders[o]
             basket == tx[t].arg.basket
             w == Written(tx[t].seen.at, tx[t].arg.at, y.at)
             n == Written(tx[t].seen.total, Value(basket), y.total)
             x == [y EXCEPT !.edition = y.edition + 1, !.lines = NewLines(basket), !.at = w, !.total = n]
  <1>1. tx[t] # Idle /\ tx[t].op = "update" /\ WriteOrder(t, x) /\ OrderOnly
    BY DEF UpdateOrder
  <1>2. o \in DOMAIN orders /\ o \in Nat \ {0} /\ tx[t].seen \in OrderRows
        /\ basket \in Baskets /\ tx[t].arg.at \in Warehouses \cup {None}
    BY <1>1, OpenRequest DEF RequestOK, OfOrders
  <1>3. y \in OrderRows /\ y.edition \in Nat /\ y.at \in Warehouses \cup {None} /\ y.total \in Int
    BY <1>2, RowsOf, OrderParts DEF PurchaseTypeOK, DocumentsOK
  <1>4. w \in Warehouses \cup {None} /\ n \in Int /\ NewLines(basket) \in Seq(OrderLines) \ {<<>>}
    BY <1>2, <1>3, NewLinesType, OrderParts DEF Written
  <1> HIDE DEF y, w, n, basket
  <1>5. /\ x \in OrderRows /\ x.status = y.status /\ x.lines = NewLines(basket) /\ x.edition = y.edition + 1
    <2>1. y.edition + 1 \in Nat
      BY <1>3
    <2> DEFINE ls == NewLines(basket)
               e == y.edition + 1
    <2> HIDE DEF ls, e
    <2>2. x = [y EXCEPT !.edition = e, !.lines = ls, !.at = w, !.total = n]
      BY DEF ls, e
    <2> HIDE DEF x
    <2>3. /\ y \in OrderRows /\ e \in Nat /\ ls \in Seq(OrderLines) \ {<<>>}
      BY <1>3, <1>4, <2>1 DEF ls, e
    <2>4. x \in OrderRows /\ x.status = y.status /\ x.lines = ls /\ x.edition = e
      BY <1>4, <2>2, <2>3, OrderRowsAre DEF OrderRec
    <2>. QED BY <2>4 DEF ls, e
  <1> HIDE DEF x
  <1>6. /\ DOMAIN orders' = DOMAIN orders
        /\ \A p \in DOMAIN orders : orders'[p] = IF p = o THEN x ELSE orders[p]
        /\ (raced => raced') /\ tx' = [tx EXCEPT ![t] = Idle]
        /\ ~raced' => orders[o] = tx[t].seen
    BY <1>1, <1>2, <1>5, Wrote
  <1>7. UNCHANGED <<receipts, bills, contended>>
    BY <1>1 DEF OrderOnly
  <1>8. BillsLater /\ ReceiptsLater /\ contended' \in BOOLEAN
    BY <1>7, DocumentsSame DEF PurchaseTypeOK
  <1>9. PurchaseTypeOK'
    <2>1. orders[tx[t].o].edition <= x.edition /\ x.edition # orders[tx[t].o].edition
      BY <1>3, <1>5 DEF y
    <2>. QED BY <1>1, <1>2, <1>5, <1>8, <2>1, WriterType
  <1>10. /\ \A r \in DOMAIN receipts : receipts[r].of # o
         /\ \A b \in DOMAIN bills : bills[b].of = o => \A i \in DOMAIN bills[b].lines : bills[b].lines[i].line = 0
    BY DEF UpdateOrder
  <1>11. orders'[o].status = orders[o].status /\ orders'[o].lines = NewLines(basket)
    BY <1>2, <1>5, <1>6 DEF y
  <1>12. \A i \in DOMAIN orders'[o].lines :
              /\ orders'[o].lines[i].received = 0 /\ orders'[o].lines[i].billed = 0
              /\ ~orders'[o].lines[i].closed /\ orders'[o].lines[i].qty \in Nat \ {0}
    BY <1>2, <1>11, NewLinesType
  <1>. QED BY <1>2, <1>6, <1>7, <1>9, <1>10, <1>11, <1>12

\* Lines that nothing was received or billed of
Emptied(ls) == \A i \in DOMAIN ls :
  /\ ls[i].received = 0 /\ ls[i].billed = 0
  /\ ~ls[i].closed /\ ls[i].qty \in Nat \ {0}

\* The lines that an update writes are such lines.
LEMMA UpdateEmpties ==
  ASSUME PurchaseTypeOK, NEW t \in Txns, UpdateOrder(t)
  PROVE  Emptied(orders'[tx[t].o].lines)
  <1>1. PICK o : o = tx[t].o
    OBVIOUS
  <1>2. \A i \in DOMAIN orders'[o].lines :
              /\ orders'[o].lines[i].received = 0 /\ orders'[o].lines[i].billed = 0
              /\ ~orders'[o].lines[i].closed /\ orders'[o].lines[i].qty \in Nat \ {0}
    BY <1>1, UpdateOrderIs
  <1>. QED BY <1>1, <1>2 DEF Emptied

\* What lines say of quantities
SameFigures(ls2, ls) ==
  /\ DOMAIN ls2 = DOMAIN ls
  /\ \A i \in DOMAIN ls : ls2[i].received = ls[i].received /\ ls2[i].qty = ls[i].qty /\ ls2[i].billed = ls[i].billed

\* confirm_purchase_order writes status and approval.
LEMMA ConfirmOrderIs ==
  ASSUME PurchaseTypeOK, NEW t \in Txns, ConfirmOrder(t), NEW o, o = tx[t].o
  PROVE  /\ PurchaseTypeOK' /\ Writes(t) /\ UNCHANGED <<receipts, bills, contended>> /\ tx[t].op = "confirm"
         /\ orders'[o].lines = orders[o].lines /\ orders'[o].total = orders[o].total
         /\ orders'[o].status # "done"
         /\ orders'[o].status # "pending_approval" => tx[t].seen.total <= Threshold
  <1> DEFINE y == orders[o]
             x == IF tx[t].seen.total > Threshold
                  THEN [y EXCEPT !.status = "pending_approval", !.approval = "pending"]
                  ELSE [y EXCEPT !.status = "confirmed"]
  <1>1. tx[t] # Idle /\ tx[t].op = "confirm" /\ WriteOrder(t, x) /\ OrderOnly
    BY DEF ConfirmOrder
  <1>2. o \in DOMAIN orders /\ o \in Nat \ {0} /\ tx[t].seen \in OrderRows
    BY <1>1, OpenRequest DEF OfOrders
  <1>3. y \in OrderRows
    BY <1>2, RowsOf DEF PurchaseTypeOK, DocumentsOK
  <1>4. tx[t].seen.total \in Int /\ Threshold \in Int
    BY <1>2, OrderParts, PurchasingAssumption
  <1> HIDE DEF y
  <1>5. /\ x \in OrderRows /\ x.edition = y.edition /\ x.lines = y.lines /\ x.total = y.total /\ x.status # "done"
        /\ x.status # "pending_approval" => tx[t].seen.total <= Threshold
    <2>1. CASE tx[t].seen.total > Threshold
      <3>1. x = [y EXCEPT !.status = "pending_approval", !.approval = "pending"]
        BY <2>1
      <3> HIDE DEF x
      <3>. QED BY <1>3, <3>1, OrderRowsAre DEF OrderRec, Statuses, Approvals
    <2>2. CASE ~(tx[t].seen.total > Threshold)
      <3>1. x = [y EXCEPT !.status = "confirmed"]
        BY <2>2
      <3> HIDE DEF x
      <3>. QED BY <1>3, <1>4, <2>2, <3>1, OrderRowsAre DEF OrderRec, Statuses, Approvals
    <2>. QED BY <2>1, <2>2
  <1> HIDE DEF x
  <1>6. /\ DOMAIN orders' = DOMAIN orders
        /\ \A p \in DOMAIN orders : orders'[p] = IF p = o THEN x ELSE orders[p]
        /\ Writes(t)
    BY <1>1, <1>2, <1>5, Wrote DEF Writes
  <1>7. PurchaseTypeOK'
    BY <1>1, <1>2, <1>5, OrderOnlyType DEF y
  <1>. QED BY <1>1, <1>2, <1>5, <1>6, <1>7 DEF OrderOnly, y

\* approve and reject write status and approval.
LEMMA DecideApprovalIs ==
  ASSUME PurchaseTypeOK, NEW t \in Txns, DecideApproval(t), NEW o, o = tx[t].o
  PROVE  /\ PurchaseTypeOK' /\ Writes(t) /\ UNCHANGED <<receipts, bills, contended>>
         /\ tx[t].op \in {"approve", "reject"}
         /\ orders'[o].lines = orders[o].lines /\ orders'[o].status # "done"
         /\ orders'[o].status \notin Open => orders'[o].approval = "approved"
  <1> DEFINE y == orders[o]
             x == IF tx[t].op = "approve" THEN [y EXCEPT !.status = "confirmed", !.approval = "approved"]
                  ELSE [y EXCEPT !.status = "draft", !.approval = "rejected"]
  <1>1. tx[t] # Idle /\ tx[t].op \in {"approve", "reject"} /\ WriteOrder(t, x) /\ OrderOnly
    BY DEF DecideApproval
  <1>2. o \in DOMAIN orders /\ o \in Nat \ {0}
    BY <1>1, OpenRequest DEF OfOrders
  <1>3. y \in OrderRows
    BY <1>2, RowsOf DEF PurchaseTypeOK, DocumentsOK
  <1> HIDE DEF y
  <1>5. /\ x \in OrderRows /\ x.edition = y.edition /\ x.lines = y.lines /\ x.status # "done"
        /\ x.status \notin Open => x.approval = "approved"
    <2>1. CASE tx[t].op = "approve"
      <3>1. x = [y EXCEPT !.status = "confirmed", !.approval = "approved"]
        BY <2>1
      <3> HIDE DEF x
      <3>. QED BY <1>3, <3>1, OrderRowsAre DEF OrderRec, Statuses, Approvals, Open
    <2>2. CASE tx[t].op # "approve"
      <3>1. x = [y EXCEPT !.status = "draft", !.approval = "rejected"]
        BY <2>2
      <3> HIDE DEF x
      <3>. QED BY <1>3, <3>1, OrderRowsAre DEF OrderRec, Statuses, Approvals, Open
    <2>. QED BY <2>1, <2>2
  <1> HIDE DEF x
  <1>6. /\ DOMAIN orders' = DOMAIN orders
        /\ \A p \in DOMAIN orders : orders'[p] = IF p = o THEN x ELSE orders[p]
        /\ Writes(t)
    BY <1>1, <1>2, <1>5, Wrote DEF Writes
  <1>7. PurchaseTypeOK'
    BY <1>1, <1>2, <1>5, OrderOnlyType DEF y
  <1>. QED BY <1>1, <1>2, <1>5, <1>6, <1>7 DEF OrderOnly, y

\* short_close_purchase_order closes lines and the order.
LEMMA ShortCloseIs ==
  ASSUME PurchaseTypeOK, NEW t \in Txns, ShortClose(t), NEW o, o = tx[t].o
  PROVE  /\ PurchaseTypeOK' /\ Writes(t) /\ UNCHANGED <<receipts, bills, contended>> /\ tx[t].op = "short_close"
         /\ SameFigures(orders'[o].lines, orders[o].lines)
         /\ orders'[o].total = orders[o].total /\ orders'[o].approval = orders[o].approval
         /\ orders'[o].status = "closed"
  <1> DEFINE y == orders[o]
             S == ShortLines(tx[t].seen)
             ls == Closed(y.lines, S)
             x == [y EXCEPT !.status = "closed", !.lines = ls]
  <1>1. tx[t] # Idle /\ tx[t].op = "short_close" /\ WriteOrder(t, x) /\ OrderOnly
    BY DEF ShortClose
  <1>2. o \in DOMAIN orders /\ o \in Nat \ {0}
    BY <1>1, OpenRequest DEF OfOrders
  <1>3. y \in OrderRows
    BY <1>2, RowsOf DEF PurchaseTypeOK, DocumentsOK
  <1> HIDE DEF y, S
  <1>4. /\ ls \in Seq(OrderLines) /\ ls # <<>> /\ SameFigures(ls, y.lines)
    <2>1. y.lines \in Seq(OrderLines) /\ y.lines # <<>>
      BY <1>3, OrderParts
    <2>2. \A i \in DOMAIN y.lines : y.lines[i] \in OrderLines
      BY <2>1, LineParts
    <2>3. ASSUME NEW l \in OrderLines, NEW b \in BOOLEAN
          PROVE  LET m == [l EXCEPT !.closed = b] IN
                 m \in OrderLines /\ m.received = l.received /\ m.qty = l.qty /\ m.billed = l.billed
      BY DEF OrderLines
    <2>4. \A i \in DOMAIN y.lines : (y.lines[i].closed \/ i \in S) \in BOOLEAN
      OBVIOUS
    <2>5. \A i \in DOMAIN y.lines : /\ ls[i] \in OrderLines /\ ls[i].received = y.lines[i].received
                                    /\ ls[i].qty = y.lines[i].qty /\ ls[i].billed = y.lines[i].billed
      BY <2>2, <2>3, <2>4 DEF Closed
    <2>6. ls \in [DOMAIN y.lines -> OrderLines]
      BY <2>5 DEF Closed
    <2> HIDE DEF ls
    <2>7. ls \in Seq(OrderLines) /\ ls # <<>> /\ DOMAIN ls = DOMAIN y.lines
      BY <2>1, <2>6, MappedRows
    <2>. QED BY <2>5, <2>7 DEF SameFigures
  <1> HIDE DEF ls
  <1>5. /\ x \in OrderRows /\ x.edition = y.edition /\ x.lines = ls /\ x.status = "closed"
        /\ x.total = y.total /\ x.approval = y.approval
    BY <1>3, <1>4, OrderRowsAre DEF OrderRec, Statuses
  <1> HIDE DEF x
  <1>6. /\ DOMAIN orders' = DOMAIN orders
        /\ \A p \in DOMAIN orders : orders'[p] = IF p = o THEN x ELSE orders[p]
        /\ Writes(t)
    BY <1>1, <1>2, <1>5, Wrote DEF Writes
  <1>7. PurchaseTypeOK'
    <2>1. DOMAIN x.lines = DOMAIN y.lines
      BY <1>4, <1>5 DEF SameFigures
    <2>. QED BY <1>1, <1>2, <1>5, <2>1, OrderOnlyType DEF y
  <1>. QED BY <1>1, <1>2, <1>4, <1>5, <1>6, <1>7 DEF OrderOnly, y

\* reopen_purchase_order_line opens one line again, and the order with it.
LEMMA ReopenLineIs ==
  ASSUME PurchaseTypeOK, NEW t \in Txns, ReopenLine(t), NEW o, o = tx[t].o
  PROVE  /\ PurchaseTypeOK' /\ Writes(t) /\ UNCHANGED <<receipts, bills, contended>> /\ tx[t].op = "reopen"
         /\ SameFigures(orders'[o].lines, orders[o].lines)
         /\ orders'[o].total = orders[o].total /\ orders'[o].approval = orders[o].approval
         /\ orders'[o].status = orders[o].status \/ orders'[o].status \in {"partially_received", "confirmed"}
         /\ \A i \in DOMAIN orders[o].lines : orders'[o].lines[i].closed => orders[o].lines[i].closed
  <1> DEFINE y == orders[o]
             n == tx[t].arg
             s == IF tx[t].seen.status # "closed" THEN y.status
                  ELSE IF AnyReceived(tx[t].seen.lines) THEN "partially_received" ELSE "confirmed"
             ls == [y.lines EXCEPT ![n].closed = FALSE]
             x == [y EXCEPT !.lines[n].closed = FALSE, !.status = s]
  <1>1. tx[t] # Idle /\ tx[t].op = "reopen" /\ WriteOrder(t, x) /\ OrderOnly
    BY DEF ReopenLine
  <1>2. o \in DOMAIN orders /\ o \in Nat \ {0}
    BY <1>1, OpenRequest DEF OfOrders
  <1>3. y \in OrderRows
    BY <1>2, RowsOf DEF PurchaseTypeOK, DocumentsOK
  <1>4. s \in Statuses /\ (s = y.status \/ s \in {"partially_received", "confirmed"})
    BY <1>3, OrderParts DEF Statuses
  <1>0. x = [y EXCEPT !.lines = ls, !.status = s]
    OBVIOUS
  <1> HIDE DEF y, n, s
  <1>5. /\ ls \in Seq(OrderLines) /\ ls # <<>> /\ SameFigures(ls, y.lines)
        /\ \A i \in DOMAIN y.lines : ls[i].closed => y.lines[i].closed
    <2>1. y.lines \in Seq(OrderLines) /\ y.lines # <<>>
      BY <1>3, OrderParts
    <2>2. \A i \in DOMAIN y.lines : y.lines[i] \in OrderLines
      BY <2>1, LineParts
    <2>3. ASSUME NEW l \in OrderLines
          PROVE  LET m == [l EXCEPT !.closed = FALSE] IN
                 /\ m \in OrderLines /\ m.received = l.received /\ m.qty = l.qty /\ m.billed = l.billed
                 /\ m.closed = FALSE
      BY DEF OrderLines
    <2>4. \A i \in DOMAIN y.lines : ls[i] = IF i = n THEN [y.lines[i] EXCEPT !.closed = FALSE] ELSE y.lines[i]
      OBVIOUS
    <2>5. \A i \in DOMAIN y.lines : /\ ls[i] \in OrderLines /\ ls[i].received = y.lines[i].received
                                    /\ ls[i].qty = y.lines[i].qty /\ ls[i].billed = y.lines[i].billed
                                    /\ ls[i].closed => y.lines[i].closed
      <3> TAKE i \in DOMAIN y.lines
      <3>1. CASE i = n
        BY <2>2, <2>3, <2>4, <3>1
      <3>2. CASE i # n
        BY <2>2, <2>4, <3>2
      <3>. QED BY <3>1, <3>2
    <2>6. ls = [i \in DOMAIN y.lines |-> ls[i]]
      OBVIOUS
    <2> HIDE DEF ls
    <2>7. ls \in [DOMAIN y.lines -> OrderLines]
      BY <2>5, <2>6
    <2>8. ls \in Seq(OrderLines) /\ ls # <<>> /\ DOMAIN ls = DOMAIN y.lines
      BY <2>1, <2>7, MappedRows
    <2>. QED BY <2>5, <2>8 DEF SameFigures
  <1> HIDE DEF ls, x
  <1>6. /\ x \in OrderRows /\ x.edition = y.edition /\ x.lines = ls /\ x.status = s
        /\ x.total = y.total /\ x.approval = y.approval
    BY <1>0, <1>3, <1>4, <1>5, OrderRowsAre DEF OrderRec
  <1>7. /\ DOMAIN orders' = DOMAIN orders
        /\ \A p \in DOMAIN orders : orders'[p] = IF p = o THEN x ELSE orders[p]
        /\ Writes(t)
    BY <1>1, <1>2, <1>6, Wrote DEF Writes
  <1>8. PurchaseTypeOK'
    <2>1. DOMAIN x.lines = DOMAIN y.lines
      BY <1>5, <1>6 DEF SameFigures
    <2>. QED BY <1>1, <1>2, <1>6, <2>1, OrderOnlyType DEF y
  <1>. QED BY <1>1, <1>2, <1>4, <1>5, <1>6, <1>7, <1>8 DEF OrderOnly, y

\* A bill that is registered and added to what the lines of its order say is billed
LEMMA RegisterBillIs ==
  ASSUME PurchaseTypeOK, NEW t \in Txns, RegisterBill(t), NEW o, o = tx[t].o, NEW bl, bl = tx[t].arg
  PROVE  /\ PurchaseTypeOK' /\ Writes(t) /\ UNCHANGED <<stockVars, receipts, contended>> /\ tx[t].op = "bill"
         /\ bl \in Seq(BillLines)
         /\ \E b \in BillRows : /\ bills' = Append(bills, b) /\ b.of = o /\ b.type = "standard" /\ b.lines = bl
                               /\ b.status # "posted"
         /\ orders'[o] = [orders[o] EXCEPT !.lines = AddBilled(orders[o].lines, bl, 1)]
  <1> DEFINE y == orders[o]
             ls == AddBilled(y.lines, bl, 1)
             x == [y EXCEPT !.lines = ls]
             st == MatchStatus(tx[t].seen.lines, bl)
             w == tx[t].seen.at
             b == NewBill("standard", st, o, w, 0, bl)
  <1>1. tx[t] # Idle /\ tx[t].op = "bill" /\ WriteOrder(t, x) /\ UNCHANGED <<stockVars, receipts, contended>>
        /\ bills' = Append(bills, b)
    BY DEF RegisterBill
  <1>2. /\ o \in DOMAIN orders /\ o \in Nat \ {0} /\ tx[t].seen \in OrderRows /\ bl \in Seq(BillLines)
    BY <1>1, OpenRequest DEF OfOrders, RequestOK
  <1>3. y \in OrderRows
    BY <1>2, RowsOf DEF PurchaseTypeOK, DocumentsOK
  <1>4. st \in {"matched", "mismatched"}
    BY DEF MatchStatus
  <1>5. w \in Warehouses \cup {None}
    BY <1>2, OrderParts
  <1> HIDE DEF y, st, w
  <1>6. b \in BillRows /\ b.of = o /\ b.type = "standard" /\ b.lines = bl /\ b.status # "posted"
    <2>1. o \in Nat
      BY <1>2
    <2>2. b \in BillRows /\ b.of = o /\ b.type = "standard" /\ b.lines = bl /\ b.status = st
      BY <1>2, <1>4, <1>5, <2>1, BillType
    <2>. QED BY <1>4, <2>2
  <1>7. ls \in Seq(OrderLines) /\ DOMAIN ls = DOMAIN y.lines /\ ls # <<>>
    <2>1. y.lines \in Seq(OrderLines) /\ y.lines # <<>>
      BY <1>3, OrderParts
    <2>2. 1 \in Int
      OBVIOUS
    <2>. QED BY <1>2, <2>1, <2>2, AddBilledType
  <1> HIDE DEF ls, b
  <1>8. x \in OrderRows /\ x.edition = y.edition /\ x.lines = ls
    BY <1>3, <1>7, OrderRowsAre DEF OrderRec
  <1> HIDE DEF x
  <1>9. /\ DOMAIN orders' = DOMAIN orders
        /\ \A p \in DOMAIN orders : orders'[p] = IF p = o THEN x ELSE orders[p]
        /\ Writes(t)
    BY <1>1, <1>2, <1>8, Wrote DEF Writes
  <1>10. BillsLater /\ ReceiptsLater /\ contended' \in BOOLEAN
    BY <1>1, <1>2, <1>6, BillAppended, DocumentsSame DEF PurchaseTypeOK
  <1>11. PurchaseTypeOK'
    <2>1. orders[tx[t].o].edition <= x.edition /\ DOMAIN x.lines = DOMAIN orders[tx[t].o].lines
      BY <1>3, <1>7, <1>8, OrderParts DEF y
    <2>. QED BY <1>1, <1>2, <1>8, <1>10, <2>1, WriterType
  <1>12. orders'[o] = x
    BY <1>2, <1>9
  <1>. QED BY <1>1, <1>2, <1>6, <1>9, <1>11, <1>12 DEF x, y, ls

\* update_bill writes the bill, and bills the difference to the order.
LEMMA EditBillIs ==
  ASSUME PurchaseTypeOK, NEW t \in Txns, EditBill(t), NEW o, o = tx[t].o, NEW b, b = tx[t].b, NEW bl, bl = tx[t].arg,
         NEW s, s = tx[t].seen
  PROVE  /\ PurchaseTypeOK' /\ Writes(t) /\ UNCHANGED <<stockVars, receipts>> /\ tx[t].op = "edit_bill"
         /\ bl \in Seq(BillLines) /\ s.lines \in Seq(BillLines)
         /\ b \in DOMAIN bills /\ bills[b].of = o /\ bills[b].type = "standard"
         /\ DOMAIN bills' = DOMAIN bills /\ (\A c \in DOMAIN bills : c # b => bills'[c] = bills[c])
         /\ bills'[b].of = o /\ bills'[b].type = "standard" /\ bills'[b].lines = bl
         /\ orders'[o] = [orders[o] EXCEPT !.lines = AddBilled(AddBilled(orders[o].lines, s.lines, -1), bl, 1)]
         /\ (contended => contended') /\ (~contended' => bills[b] = s)
  <1> DEFINE y == orders[o]
             ls == AddBilled(AddBilled(y.lines, s.lines, -1), bl, 1)
             x == [y EXCEPT !.lines = ls]
             z == bills[b]
             st == Written(s.status, MatchStatus(y.lines, bl), z.status)
             sub == Written(s.subtotal, Net(bl), z.subtotal)
             tax == Written(s.tax, Tax(bl), z.tax)
             c == [z EXCEPT !.lines = bl, !.status = st, !.subtotal = sub, !.tax = tax]
  <1>1. /\ tx[t] # Idle /\ tx[t].op = "edit_bill" /\ WriteOrder(t, x) /\ UNCHANGED <<stockVars, receipts>>
        /\ Contends(t)
    BY DEF EditBill
  <1>2. /\ o \in DOMAIN orders /\ o \in Nat \ {0} /\ s \in BillRows /\ bl \in Seq(BillLines)
        /\ b \in DOMAIN bills /\ z.type = "standard" /\ o = z.of
    BY <1>1, OpenRequest DEF OfOrders, RequestOK
  <1>3. y \in OrderRows /\ z \in BillRows /\ bills \in Seq(BillRows)
    BY <1>2, RowsOf DEF PurchaseTypeOK, DocumentsOK
  <1>4. bills' = [bills EXCEPT ![b] = c]
    <2>1. bills' = [bills EXCEPT ![b].lines = bl, ![b].status = st, ![b].subtotal = sub, ![b].tax = tax]
      BY DEF EditBill
    <2> HIDE DEF st, sub, tax
    <2>. QED BY <1>2, <2>1
  <1>5. st \in {"matched", "mismatched", "posted"} /\ sub \in Int /\ tax \in Int
    <2>1. Net(bl) \in Int /\ Tax(bl) \in Int
      BY <1>2, BillLineParts, ValueOfType
    <2>2. z.status \in {"matched", "mismatched", "posted"} /\ z.subtotal \in Int /\ z.tax \in Int
      BY <1>3, BillParts
    <2> HIDE DEF z, y
    <2>. QED BY <2>1, <2>2 DEF Written, MatchStatus
  <1>6. s.lines \in Seq(BillLines)
    BY <1>2, BillParts
  <1> HIDE DEF y, st, sub, tax, z
  <1>7. c \in BillRows /\ c.of = z.of /\ c.type = z.type /\ c.lines = bl
    BY <1>2, <1>3, <1>5 DEF BillRows
  <1> HIDE DEF c
  <1>8. /\ bills' \in Seq(BillRows) /\ DOMAIN bills' = DOMAIN bills
        /\ \A d \in DOMAIN bills : bills'[d] = IF d = b THEN c ELSE bills[d]
    BY <1>2, <1>3, <1>4, <1>7, WrittenRows
  <1>9. ls \in Seq(OrderLines) /\ DOMAIN ls = DOMAIN y.lines /\ ls # <<>>
    <2>1. y.lines \in Seq(OrderLines) /\ y.lines # <<>>
      BY <1>3, OrderParts
    <2>2. 1 \in Int /\ -1 \in Int
      OBVIOUS
    <2> DEFINE m == AddBilled(y.lines, s.lines, -1)
    <2>3. m \in Seq(OrderLines) /\ DOMAIN m = DOMAIN y.lines /\ m # <<>>
      BY <1>6, <2>1, <2>2, AddBilledType
    <2> HIDE DEF m
    <2>4. AddBilled(m, bl, 1) \in Seq(OrderLines) /\ DOMAIN AddBilled(m, bl, 1) = DOMAIN m /\ AddBilled(m, bl, 1) # <<>>
      BY <1>2, <2>2, <2>3, AddBilledType
    <2>. QED BY <2>3, <2>4 DEF m
  <1> HIDE DEF ls
  <1>10. x \in OrderRows /\ x.edition = y.edition /\ x.lines = ls
    BY <1>3, <1>9, OrderRowsAre DEF OrderRec
  <1> HIDE DEF x
  <1>11. /\ DOMAIN orders' = DOMAIN orders
         /\ \A p \in DOMAIN orders : orders'[p] = IF p = o THEN x ELSE orders[p]
         /\ Writes(t)
    <2>1. /\ DOMAIN orders' = DOMAIN orders
          /\ \A p \in DOMAIN orders : orders'[p] = IF p = tx[t].o THEN x ELSE orders[p]
          /\ (raced => raced') /\ tx' = [tx EXCEPT ![t] = Idle]
          /\ ~raced' /\ tx[t].op \in {"update", "confirm", "approve", "reject"} => orders[tx[t].o] = tx[t].seen
      BY <1>1, <1>2, <1>10, Wrote
    <2>. QED BY <1>1, <1>2, <2>1 DEF Writes
  <1>12. BillsLater /\ ReceiptsLater
    <2>1. ReceiptsLater
      BY <1>1, DocumentsSame
    <2>. QED BY <1>2, <1>7, <1>8, <2>1, ZenonT(30) DEF BillsLater, PurchaseTypeOK, DocumentsOK, z
  <1>13. contended' \in BOOLEAN /\ (contended => contended') /\ (~contended' => z = s)
    BY <1>1 DEF Contends, PurchaseTypeOK, z
  <1>14. PurchaseTypeOK'
    <2>1. orders[tx[t].o].edition <= x.edition /\ DOMAIN x.lines = DOMAIN orders[tx[t].o].lines
      BY <1>3, <1>9, <1>10, OrderParts DEF y
    <2>. QED BY <1>1, <1>2, <1>10, <1>12, <1>13, <2>1, WriterType
  <1>15. orders'[o] = x
    BY <1>2, <1>11
  <1>. QED BY <1>1, <1>2, <1>6, <1>7, <1>8, <1>11, <1>13, <1>14, <1>15 DEF x, y, z, ls

\* What a receipt's payload becomes
ReceiptLines(o, rl) ==
  [i \in DOMAIN rl |-> BillLine(o, rl[i].line, rl[i].qty, orders[o].lines[rl[i].line].price)]

\* They are lines of a bill with the quantities of the payload.
LEMMA ReceiptLinesAre ==
  ASSUME NEW o \in DOMAIN orders, orders[o].lines \in Seq(OrderLines), NEW rl \in Seq(Payloads),
         \A i \in DOMAIN rl : rl[i].line \in DOMAIN orders[o].lines
  PROVE  /\ ReceiptLines(o, rl) \in Seq(BillLines) /\ DOMAIN ReceiptLines(o, rl) = DOMAIN rl
         /\ \A i \in DOMAIN rl : LET l == ReceiptLines(o, rl)[i]  m == orders[o].lines[rl[i].line] IN
              /\ l.line = rl[i].line /\ l.qty = rl[i].qty /\ l.product = m.product /\ l.price = m.price
         /\ \A n : LastOf(ReceiptLines(o, rl), n) = LastOf(rl, n)
  <1> DEFINE bl == ReceiptLines(o, rl)
  <1>1. \A i \in DOMAIN rl : rl[i].line \in Nat /\ rl[i].qty \in Nat \ {0}
    BY PayloadParts
  <1>2. \A i \in DOMAIN rl : /\ orders[o].lines[rl[i].line].product \in Goods
                             /\ orders[o].lines[rl[i].line].price \in Nat
    BY LineParts
  <1>3. bl \in [DOMAIN rl -> BillLines]
    BY <1>1, <1>2 DEF ReceiptLines, BillLine, BillLines
  <1>4. \A i \in DOMAIN rl : LET l == bl[i]  m == orders[o].lines[rl[i].line] IN
              /\ l.line = rl[i].line /\ l.qty = rl[i].qty /\ l.product = m.product /\ l.price = m.price
    BY DEF ReceiptLines, BillLine
  <1> HIDE DEF bl
  <1>5. bl \in Seq(BillLines) /\ DOMAIN bl = DOMAIN rl
    BY <1>3, MappedRows
  <1>6. \A n : LastOf(bl, n) = LastOf(rl, n)
    <2> TAKE n
    <2> DEFINE J == {i \in DOMAIN rl : rl[i].line = n}
    <2>1. {i \in DOMAIN bl : bl[i].line = n} = J
      BY <1>4, <1>5
    <2>2. J # {} => Max(J) \in DOMAIN rl
      BY LinesOf
    <2> HIDE DEF J
    <2>3. J # {} => bl[Max(J)].qty = rl[Max(J)].qty
      BY <1>4, <2>2
    <2>4. LastOf(rl, n) = IF J = {} THEN 0 ELSE rl[Max(J)].qty
      BY DEF LastOf, J
    <2>5. LastOf(bl, n) = IF J = {} THEN 0 ELSE bl[Max(J)].qty
      BY <2>1 DEF LastOf
    <2>. QED BY <2>3, <2>4, <2>5
  <1>. QED BY <1>4, <1>5, <1>6 DEF bl

\* What Receive writes of documents, and of stock
ReceiveWrites(t, o, rl, bl, ls) ==
  /\ tx[t].op = "receive" /\ orders[o] \in OrderRows
  /\ rl \in Seq(Payloads) /\ \A i \in DOMAIN rl : rl[i].line \in DOMAIN orders[o].lines
  /\ AcceptsReceipt(orders[o].lines, rl)
  /\ ls \in Seq(OrderLines) /\ DOMAIN ls = DOMAIN orders[o].lines
  /\ receipts' = Append(receipts, [of |-> o, lines |-> bl])
  /\ \E b \in BillRows : /\ bills' = Append(bills, b) /\ b.of = o /\ b.type = "standard" /\ b.lines = bl
                         /\ b.status # "posted"
  /\ orders'[o].lines = AddBilled(ls, bl, 1)
  /\ orders'[o].status = Written(tx[t].seen.status, StatusAfter(tx[t].seen.status, ls), orders[o].status)
  /\ orders'[o].total = orders[o].total /\ orders'[o].approval = orders[o].approval

\* What Receive writes of stock and of the books
ReceiveStocks(t, bl) == tx[t].number \in Nat /\ \E w \in Warehouses : \E k \in Works :
  /\ k = Arrived(bl, w, <<"goods_receipt", tx[t].number>>)
  /\ quants' = k.quants /\ moves' = k.moves
  /\ books' = EnterVariance(Enter(books, "inventory", "grni", HalfUp(k.value, Scale)), k.variance)

\* record_receipt writes both.
LEMMA ReceiveIs ==
  ASSUME StockTypeOK, PurchaseTypeOK, NEW t \in Txns, Receive(t)
  PROVE  /\ PurchaseTypeOK' /\ Writes(t) /\ UNCHANGED <<method, warehouse, counts, alerts, dropped, ops, contended>>
         /\ ReceiveWrites(t, tx[t].o, tx[t].arg, ReceiptLines(tx[t].o, tx[t].arg),
                          AddReceived(orders[tx[t].o].lines, tx[t].arg))
         /\ ReceiveStocks(t, ReceiptLines(tx[t].o, tx[t].arg))
  <1>o. PICK o : o = tx[t].o
    OBVIOUS
  <1>p. PICK rl : rl = tx[t].arg
    OBVIOUS
  <1>q. PICK bl : bl = ReceiptLines(o, rl)
    OBVIOUS
  <1>s. PICK ls : ls = AddReceived(orders[o].lines, rl)
    OBVIOUS
  <1> USE <1>o, <1>p, <1>q, <1>s
  <1> DEFINE y == orders[o]
             seen == tx[t].seen
             st == Written(seen.status, StatusAfter(seen.status, ls), y.status)
             ls2 == AddBilled(ls, bl, 1)
             x == [y EXCEPT !.lines = ls2, !.status = st]
             doc == <<"goods_receipt", tx[t].number>>
             at == seen.at
             ms == MatchStatus(ls, bl)
             b == NewBill("standard", ms, o, at, 0, bl)
             r == [of |-> o, lines |-> bl]
  <1>1. /\ tx[t] # Idle /\ tx[t].op = "receive" /\ SameLines(t) /\ AcceptsReceipt(y.lines, rl)
        /\ UNCHANGED <<method, warehouse, counts, alerts, dropped, ops, contended>>
    BY DEF Receive
  <1>2. PICK w \in Site(at) : LET k == Arrived(bl, w, doc) IN
          /\ Adopt(k)
          /\ books' = EnterVariance(Enter(books, "inventory", "grni", HalfUp(k.value, Scale)), k.variance)
          /\ receipts' = Append(receipts, r) /\ bills' = Append(bills, b)
          /\ WriteOrder(t, x)
    BY DEF Receive, ReceiptLines
  <1> DEFINE k == Arrived(bl, w, doc)
  <1>3. /\ o \in DOMAIN orders /\ o \in Nat \ {0} /\ seen \in OrderRows /\ tx[t].number \in Nat
        /\ RequestOK(tx[t], orders, bills)
    BY <1>1, OpenRequest DEF OfOrders
  <1>4. rl \in Seq(Payloads) /\ \A i \in DOMAIN rl : rl[i].line \in DOMAIN y.lines
    BY <1>1, <1>3 DEF RequestOK, SameLines
  <1>5. y \in OrderRows /\ receipts \in Seq(ReceiptRows)
    BY <1>3, RowsOf DEF PurchaseTypeOK, DocumentsOK
  <1>6. y.lines \in Seq(OrderLines) /\ y.lines # <<>> /\ y.status \in Statuses /\ seen.status \in Statuses
        /\ at \in Warehouses \cup {None}
    BY <1>3, <1>5, OrderParts
  <1>7. bl \in Seq(BillLines)
    BY <1>3, <1>4, <1>6, ReceiptLinesAre
  <1>8. ls \in Seq(OrderLines) /\ DOMAIN ls = DOMAIN y.lines /\ ls # <<>>
    BY <1>4, <1>6, AddReceivedType
  <1>9. ls2 \in Seq(OrderLines) /\ DOMAIN ls2 = DOMAIN ls /\ ls2 # <<>>
    <2>1. 1 \in Int
      OBVIOUS
    <2>. QED BY <1>7, <1>8, <2>1, AddBilledType
  <1>10. st \in Statuses
    BY <1>6 DEF Written, StatusAfter, Statuses
  <1>11. ms \in {"matched", "mismatched"}
    BY DEF MatchStatus
  <1> HIDE DEF y, st, ls2, at, ms, seen
  <1>12. x \in OrderRows /\ x.edition = y.edition /\ x.lines = ls2 /\ x.status = st
         /\ x.total = y.total /\ x.approval = y.approval
    BY <1>5, <1>9, <1>10, OrderRowsAre DEF OrderRec
  <1> HIDE DEF x
  <1>13. b \in BillRows /\ b.of = o /\ b.type = "standard" /\ b.lines = bl /\ b.status # "posted"
    <2>1. o \in Nat
      BY <1>3
    <2>2. b \in BillRows /\ b.of = o /\ b.type = "standard" /\ b.lines = bl /\ b.status = ms
      BY <1>6, <1>7, <1>11, <2>1, BillType
    <2>. QED BY <1>11, <2>2
  <1> HIDE DEF b
  <1>14. r \in ReceiptRows /\ r.of = o
    BY <1>3, <1>7 DEF ReceiptRows
  <1> HIDE DEF r
  <1>15. doc \in Docs
    BY <1>3, Zenon DEF Docs
  <1> HIDE DEF doc
  <1>16. w \in Warehouses /\ k \in Works
    <2>1. w \in Warehouses
      BY <1>6, SiteType
    <2>. QED BY <1>7, <1>15, <2>1, WorksLead, LoadedType, ArrivedType
  <1>17. /\ quants' = k.quants /\ moves' = k.moves
         /\ books' = EnterVariance(Enter(books, "inventory", "grni", HalfUp(k.value, Scale)), k.variance)
         /\ receipts' = Append(receipts, r) /\ bills' = Append(bills, b)
         /\ WriteOrder(t, x)
    BY <1>2 DEF Adopt
  <1> HIDE DEF k
  <1>18. /\ DOMAIN orders' = DOMAIN orders
         /\ \A p \in DOMAIN orders : orders'[p] = IF p = o THEN x ELSE orders[p]
         /\ Writes(t)
    <2>1. /\ DOMAIN orders' = DOMAIN orders
          /\ \A p \in DOMAIN orders : orders'[p] = IF p = tx[t].o THEN x ELSE orders[p]
          /\ (raced => raced') /\ tx' = [tx EXCEPT ![t] = Idle]
          /\ ~raced' /\ tx[t].op \in {"update", "confirm", "approve", "reject"} => orders[tx[t].o] = tx[t].seen
      BY <1>3, <1>12, <1>17, Wrote
    <2>. QED BY <1>1, <1>3, <2>1 DEF Writes
  <1>19. BillsLater
    BY <1>3, <1>13, <1>17, BillAppended
  <1>20. ReceiptsLater
    BY <1>3, <1>5, <1>14, <1>17, AppendedRows DEF ReceiptsLater, PurchaseTypeOK, DocumentsOK
  <1>21. PurchaseTypeOK'
    <2>1. orders[tx[t].o].edition <= x.edition /\ DOMAIN x.lines = DOMAIN orders[tx[t].o].lines
          /\ contended' \in BOOLEAN
      BY <1>1, <1>5, <1>8, <1>9, <1>12, OrderParts DEF y, PurchaseTypeOK
    <2>. QED BY <1>3, <1>12, <1>17, <1>19, <1>20, <2>1, WriterType
  <1>22. orders'[o] = x
    BY <1>3, <1>18
  <1>23. \E v \in Warehouses : \E j \in Works :
              /\ j = Arrived(bl, v, <<"goods_receipt", tx[t].number>>)
              /\ quants' = j.quants /\ moves' = j.moves
              /\ books' = EnterVariance(Enter(books, "inventory", "grni", HalfUp(j.value, Scale)), j.variance)
    BY <1>16, <1>17 DEF k, doc
  <1>24. \E c \in BillRows : /\ bills' = Append(bills, c) /\ c.of = o /\ c.type = "standard" /\ c.lines = bl
                            /\ c.status # "posted"
    BY <1>13, <1>17
  <1>25. receipts' = Append(receipts, [of |-> o, lines |-> bl])
    BY <1>17 DEF r
  <1>26. /\ orders'[o].lines = AddBilled(ls, bl, 1)
         /\ orders'[o].status = Written(tx[t].seen.status, StatusAfter(tx[t].seen.status, ls), orders[o].status)
         /\ orders'[o].total = orders[o].total /\ orders'[o].approval = orders[o].approval
    BY <1>12, <1>22 DEF y, st, ls2, seen
  <1>27. /\ orders[o] \in OrderRows /\ AcceptsReceipt(orders[o].lines, rl)
         /\ \A i \in DOMAIN rl : rl[i].line \in DOMAIN orders[o].lines
         /\ DOMAIN ls = DOMAIN orders[o].lines
    BY <1>1, <1>4, <1>5, <1>8 DEF y
  <1>28. ReceiveWrites(t, o, rl, bl, ls) /\ ReceiveStocks(t, bl)
    BY <1>1, <1>3, <1>4, <1>8, <1>23, <1>24, <1>25, <1>26, <1>27 DEF ReceiveWrites, ReceiveStocks
  <1>. QED BY <1>1, <1>18, <1>21, <1>28

\* approve_and_post: the bill's amounts as they were read are entered.
LEMMA PostBillIs ==
  ASSUME StockTypeOK, PurchaseTypeOK, NEW t \in Txns, PostBill(t), NEW b, b = tx[t].b, NEW s, s = tx[t].seen
  PROVE  /\ PurchaseTypeOK' /\ tx' = [tx EXCEPT ![t] = Idle] /\ tx[t].op = "post_bill"
         /\ UNCHANGED <<method, warehouse, quants, moves, counts, alerts, dropped, ops, orders, receipts, raced>>
         /\ b \in DOMAIN bills /\ s \in BillRows
         /\ DOMAIN bills' = DOMAIN bills /\ (\A c \in DOMAIN bills : c # b => bills'[c] = bills[c])
         /\ bills'[b] = [bills[b] EXCEPT !.status = "posted"]
         /\ (contended => contended') /\ (~contended' => bills[b] = s)
         /\ books' = EnterBill(books, s, 1) /\ books' \in [Accounts -> Int]
  <1> DEFINE z == bills[b]
             c == [z EXCEPT !.status = "posted"]
  <1>1. /\ tx[t] # Idle /\ tx[t].op = "post_bill" /\ Contends(t) /\ Ends(t)
        /\ books' = EnterBill(books, s, 1)
        /\ UNCHANGED <<method, warehouse, quants, moves, counts, alerts, dropped, ops, orders, receipts, raced>>
        /\ bills' = [bills EXCEPT ![b] = c]
    BY DEF PostBill
  <1>2. b \in DOMAIN bills /\ s \in BillRows
    BY <1>1, OpenRequest DEF RequestOK
  <1>3. z \in BillRows /\ bills \in Seq(BillRows)
    BY <1>2, RowsOf DEF PurchaseTypeOK, DocumentsOK
  <1> HIDE DEF z
  <1>4. c \in BillRows /\ c.of = z.of /\ c.type = z.type
    BY <1>3 DEF BillRows
  <1> HIDE DEF c
  <1>5. /\ bills' \in Seq(BillRows) /\ DOMAIN bills' = DOMAIN bills
        /\ \A d \in DOMAIN bills : bills'[d] = IF d = b THEN c ELSE bills[d]
    BY <1>1, <1>2, <1>3, <1>4, WrittenRows
  <1>6. contended' \in BOOLEAN /\ (contended => contended') /\ (~contended' => z = s)
    BY <1>1 DEF Contends, PurchaseTypeOK, z
  <1>7. PurchaseTypeOK'
    <2>1. DocumentsOK(orders, receipts, bills)
      BY DEF PurchaseTypeOK
    <2>2. \A o \in DOMAIN orders : orders[o].edition \in Nat
      BY <2>1, RowsOf, OrderParts DEF DocumentsOK
    <2>3. \A d \in DOMAIN bills : bills'[d].of = bills[d].of /\ bills'[d].type = bills[d].type
      BY <1>4, <1>5 DEF z
    <2>4. DocumentsOK(orders', receipts', bills')
      BY <1>1, <1>5, <2>1, <2>3 DEF DocumentsOK
    <2>5. Later(orders, orders', bills, bills')
      BY <1>1, <1>5, <2>2, <2>3 DEF Later
    <2>6. tx' = [tx EXCEPT ![t] = Idle] /\ raced' \in BOOLEAN /\ left' \in Nat
      BY <1>1 DEF Ends, PurchaseTypeOK
    <2>. QED BY <1>6, <2>4, <2>5, <2>6, TypeOfStep
  <1>8. books' \in [Accounts -> Int]
    <2>1. s.subtotal \in Int /\ s.tax \in Int
      BY <1>2, BillParts
    <2>2. 1 * s.subtotal \in Int /\ 1 * s.tax \in Int
      BY <2>1
    <2>3. Enter(books, "grni", "payable", 1 * s.subtotal) \in [Accounts -> Int]
      BY <2>2, EnterType, StockParts DEF Accounts
    <2>4. Enter(Enter(books, "grni", "payable", 1 * s.subtotal), "vat", "payable", 1 * s.tax) \in [Accounts -> Int]
      BY <2>2, <2>3, EnterType DEF Accounts
    <2>. QED BY <1>1, <2>4 DEF EnterBill
  <1>9. bills'[b] = [bills[b] EXCEPT !.status = "posted"]
    BY <1>2, <1>5 DEF c, z
  <1>. QED BY <1>1, <1>2, <1>5, <1>6, <1>7, <1>8, <1>9 DEF Ends, z

\* issue_debit_note and issue_debit_note_for_lines
LEMMA DebitNoteIs ==
  ASSUME StockTypeOK, PurchaseTypeOK, NEW t \in Txns, DebitNote(t)
  PROVE  /\ PurchaseTypeOK' /\ tx' = [tx EXCEPT ![t] = Idle] /\ tx[t].op = "debit"
         /\ UNCHANGED <<method, warehouse, counts, alerts, dropped, ops, orders, receipts, contended, raced>>
         /\ \E note \in BillRows : \E k \in Works :
              /\ note.type = "debit_note" /\ note.status = "posted" /\ bills' = Append(bills, note)
              /\ quants' = k.quants /\ moves' = k.moves
              /\ books' = Enter(EnterBill(books, note, -1), "grni", "inventory",
                                IF k.value > 0 THEN HalfUp(k.value, Scale) ELSE 0)
              /\ books' \in [Accounts -> Int]
  <1> DEFINE a == tx[t].arg
             o == a.of
             w0 == a.at
             orig == tx[t].b
             al == a.lines
             note == NoteOf(a, orig, tx[t].seen)
             home == IF o # 0 THEN orders[o].at ELSE None
             doc == <<"debit_note", tx[t].number>>
             Left == IF a.restock THEN {SentBack(al, w, doc) : w \in Site(home)} ELSE {}
  <1>1. /\ tx[t] # Idle /\ tx[t].op = "debit" /\ Ends(t) /\ bills' = Append(bills, note)
        /\ UNCHANGED <<method, warehouse, counts, alerts, dropped, ops, orders, receipts, contended, raced>>
    BY DEF DebitNote
  <1>2. PICK k \in IF Left = {} THEN {Loaded} ELSE Left :
          /\ quants' = k.quants /\ moves' = k.moves
          /\ books' = Enter(EnterBill(books, note, -1), "grni", "inventory",
                            IF k.value > 0 THEN HalfUp(k.value, Scale) ELSE 0)
    BY DEF DebitNote
  <1>3. /\ orig \in Nat /\ al \in Seq(BillLines) /\ o \in DOMAIN orders \cup {0}
        /\ w0 \in Warehouses \cup {None} /\ tx[t].number \in Nat /\ (o # 0 => tx[t].seen \in BillRows)
    BY <1>1, OpenRequest DEF RequestOK
  <1>4. o \in Nat /\ home \in Warehouses \cup {None}
    <2>1. o # 0 => o \in Nat /\ orders[o] \in OrderRows
      BY <1>3, RowsOf DEF PurchaseTypeOK, DocumentsOK
    <2>. QED BY <2>1, OrderParts
  <1>5. doc \in Docs
    BY <1>3, Zenon DEF Docs
  <1>6. k \in Works
    <2>1. \A w \in Site(home) : SentBack(al, w, doc) \in Works
      <3> HIDE DEF home, doc, al
      <3>. QED BY <1>3, <1>4, <1>5, WorksLead, LoadedType, SiteType, SentBackType
    <2>2. CASE Left = {}
      BY <2>2, LoadedType
    <2>3. CASE Left # {}
      BY <2>1, <2>3
    <2>. QED BY <2>2, <2>3
  <1>7. note \in BillRows /\ note.of = o /\ note.type = "debit_note" /\ note.status = "posted"
    <2> HIDE DEF a, note, orig
    <2>. QED BY <1>3, <1>4, NoteType DEF note
  <1> HIDE DEF Left, doc, home, o, w0, orig, al
  <1> HIDE DEF note
  <1>8. books' \in [Accounts -> Int]
    <2> DEFINE e == Enter(books, "grni", "payable", (-1) * note.subtotal)
               v == IF k.value > 0 THEN HalfUp(k.value, Scale) ELSE 0
    <2>1. note.subtotal \in Int /\ note.tax \in Int
      BY <1>7, BillParts
    <2>2. (-1) * note.subtotal \in Int /\ (-1) * note.tax \in Int
      BY <2>1
    <2>3. e \in [Accounts -> Int]
      BY <2>2, EnterType, StockParts DEF Accounts
    <2>4. v \in Int
      BY <1>6, WorkParts, MoneyType
    <2> HIDE DEF v, e
    <2>5. Enter(e, "vat", "payable", (-1) * note.tax) \in [Accounts -> Int]
      BY <2>2, <2>3, EnterType DEF Accounts
    <2>6. Enter(Enter(e, "vat", "payable", (-1) * note.tax), "grni", "inventory", v) \in [Accounts -> Int]
      BY <2>4, <2>5, EnterType DEF Accounts
    <2>7. EnterBill(books, note, -1) = Enter(e, "vat", "payable", (-1) * note.tax)
      BY DEF EnterBill, e
    <2>8. books' = Enter(Enter(e, "vat", "payable", (-1) * note.tax), "grni", "inventory", v)
      BY <1>2, <2>7 DEF v
    <2>. QED BY <2>6, <2>8
  <1>9. PurchaseTypeOK'
    <2>1. DocumentsOK(orders, receipts, bills)
      BY DEF PurchaseTypeOK
    <2>2. \A p \in DOMAIN orders : orders[p].edition \in Nat
      BY <2>1, RowsOf, OrderParts DEF DocumentsOK
    <2>3. BillsLater
      BY <1>1, <1>3, <1>7, BillAppended
    <2>4. DocumentsOK(orders', receipts', bills')
      BY <1>1, <2>1, <2>3 DEF DocumentsOK, BillsLater
    <2>5. Later(orders, orders', bills, bills')
      BY <1>1, <2>2, <2>3 DEF Later, BillsLater
    <2>6. tx' = [tx EXCEPT ![t] = Idle] /\ raced' \in BOOLEAN /\ contended' \in BOOLEAN /\ left' \in Nat
      BY <1>1 DEF Ends, PurchaseTypeOK
    <2>. QED BY <2>4, <2>5, <2>6, TypeOfStep
  <1>. QED BY <1>1, <1>2, <1>6, <1>7, <1>8, <1>9 DEF Ends

\* Stock and purchasing are typed.
TypeInv == StockTypeOK /\ PurchaseTypeOK

\* Every database that a behaviour begins with is well formed.
LEMMA TypeOfInit == Init => TypeInv
  <1> SUFFICES ASSUME Init PROVE TypeInv
    OBVIOUS
  <1>1. PICK o \in Openings :
          LET k == OpenedWith(o.goods)
          IN /\ method \in o.methods /\ warehouse = o.warehouse
             /\ quants = k.quants /\ moves = k.moves
             /\ books = EnterVariance(Enter([a \in Accounts |-> 0], "inventory", "grni", HalfUp(k.value, Scale)), k.variance)
             /\ orders = o.orders /\ ops = o.ops /\ left = o.requests
    BY DEF Init
  <1> DEFINE k == OpenedWith(o.goods)
             b == Enter([a \in Accounts |-> 0], "inventory", "grni", HalfUp(k.value, Scale))
  <1>2. /\ o.methods \subseteq {"average", "fifo"} /\ o.ops \in Nat /\ o.requests \in Nat
        /\ o.warehouse \in [Warehouses -> {"absent", "plain", "default"}]
        /\ o.goods \in Seq(OpeningLines) /\ o.orders \in Seq(OrderRows)
    BY OpeningsAssumption DEF OpeningLines
  <1>3. k \in Works
    BY <1>2, WorksLead, NothingType, OpenedWithType
  <1>4. books = EnterVariance(b, k.variance) /\ quants = k.quants /\ moves = k.moves
    BY <1>1
  <1> HIDE DEF k
  <1>5. books \in [Accounts -> Int]
    <2>1. HalfUp(k.value, Scale) \in Int
      BY <1>3, ValueIs, MoneyType
    <2>2. [a \in Accounts |-> 0] \in [Accounts -> Int]
      OBVIOUS
    <2>3. b \in [Accounts -> Int]
      BY <2>1, <2>2, EnterType DEF Accounts
    <2> HIDE DEF b
    <2>. QED BY <1>3, <1>4, <2>3, ValueIs, VarianceType
  <1>6. StockRows(quants, moves)
    BY <1>3, <1>4, WorkParts
  <1>7. /\ counts = <<>> /\ alerts = [p \in Products |-> 0] /\ dropped = 0
        /\ receipts = <<>> /\ bills = <<>> /\ tx = [t \in Txns |-> Idle]
        /\ contended = FALSE /\ raced = FALSE
    BY DEF Init
  <1>8. \A R : <<>> \in Seq(R) /\ DOMAIN <<>> = {}
    OBVIOUS
  <1>9. StockTypeOK
    <2>1. counts \in Seq(CountRows) /\ alerts \in [Products -> Nat] /\ dropped \in Int
      BY <1>7, <1>8
    <2>2. method \in {"average", "fifo"} /\ warehouse \in [Warehouses -> {"absent", "plain", "default"}] /\ ops \in Nat
      BY <1>1, <1>2
    <2>. QED BY <1>5, <1>6, <2>1, <2>2, StockParts
  <1>10. PurchaseTypeOK
    <2>1. orders \in Seq(OrderRows) /\ left \in Nat
      BY <1>1, <1>2
    <2>2. DOMAIN receipts = {} /\ DOMAIN bills = {} /\ receipts \in Seq(ReceiptRows) /\ bills \in Seq(BillRows)
      BY <1>7, <1>8
    <2>. QED BY <1>7, <2>1, <2>2 DEF PurchaseTypeOK, DocumentsOK
  <1>. QED BY <1>9, <1>10 DEF TypeInv

\* A request that is rolled back writes nothing.
LEMMA RollbackIs ==
  ASSUME PurchaseTypeOK, NEW t \in Txns, Rollback(t)
  PROVE  /\ PurchaseTypeOK' /\ UNCHANGED <<stockVars, orders, receipts, bills, contended, raced>>
         /\ tx' = [tx EXCEPT ![t] = Idle]
  <1>1. /\ UNCHANGED <<stockVars, orders, receipts, bills, contended, raced>> /\ UNCHANGED left
        /\ tx' = [tx EXCEPT ![t] = Idle]
    BY DEF Rollback, Ends
  <1>2. DocumentsOK(orders, receipts, bills) /\ contended' \in BOOLEAN /\ raced' \in BOOLEAN /\ left' \in Nat
    BY <1>1 DEF PurchaseTypeOK
  <1>3. DocumentsOK(orders', receipts', bills') /\ Later(orders, orders', bills, bills')
    BY <1>1, <1>2, SameIsLater
  <1>. QED BY <1>1, <1>2, <1>3, TypeOfStep

\* A step of stock keeps the type of purchasing.
LEMMA PurchaseUnchanged ==
  ASSUME PurchaseTypeOK, UNCHANGED purchaseVars
  PROVE  PurchaseTypeOK'
  BY DEF PurchaseTypeOK, purchaseVars, DocumentsOK, RequestOK

\* A request that reads changes nothing but itself.
Reads(t) ==
  \/ \E o \in DOMAIN orders :
       \/ ReadUpdate(t, o) \/ ReadConfirm(t, o) \/ ReadApproval(t, o) \/ ReadShortClose(t, o)
       \/ ReadReopen(t, o) \/ ReadReceive(t, o) \/ ReadBill(t, o)
  \/ \E b \in DOMAIN bills : ReadEditBill(t, b) \/ ReadPostBill(t, b) \/ ReadDebitNote(t, b)
  \/ ReadReturn(t)

\* A request that reads writes nothing.
LEMMA ReadsAre ==
  ASSUME PurchaseTypeOK, NEW t \in Txns, Reads(t)
  PROVE  PurchaseTypeOK' /\ UNCHANGED <<stockVars, orders, receipts, bills, contended, raced>>
  <1>1. PurchaseTypeOK'
    BY ReadsOrderType, ReadsBillType, ReadReturnType DEF Reads
  <1>2. UNCHANGED <<stockVars, orders, receipts, bills, contended, raced>>
    BY DEF Reads, ReadUpdate, ReadConfirm, ReadApproval, ReadShortClose, ReadReopen, ReadReceive, ReadBill,
           ReadEditBill, ReadPostBill, ReadDebitNote, ReadReturn, Begin
  <1>. QED BY <1>1, <1>2

\* The steps by what they write.
LEMMA NextIs ==
  ASSUME [Next]_vars
  PROVE  \/ StockNext /\ UNCHANGED purchaseVars
         \/ UNCHANGED vars
         \/ CreateOrder
         \/ \E t \in Txns : \/ Reads(t) \/ Rollback(t)
                            \/ UpdateOrder(t) \/ ConfirmOrder(t) \/ DecideApproval(t) \/ ShortClose(t) \/ ReopenLine(t)
                            \/ Receive(t) \/ RegisterBill(t) \/ EditBill(t) \/ PostBill(t) \/ DebitNote(t)
  BY DEF Next, PurchaseNext, Reads

\* A step that adopts work on stock keeps the type of stock.
LEMMA TypeOfStock ==
  ASSUME StockTypeOK, UNCHANGED <<method, warehouse, counts, alerts, dropped, ops>>,
         NEW k \in Works, quants' = k.quants, moves' = k.moves, books' \in [Accounts -> Int]
  PROVE  StockTypeOK'
  BY AdoptStays, StockParts

\* Every step keeps the types of stock and purchasing.
LEMMA TypeOfNext == TypeInv /\ [Next]_vars => TypeInv'
  <1> SUFFICES ASSUME TypeInv, [Next]_vars PROVE TypeInv'
    OBVIOUS
  <1>0. StockTypeOK /\ PurchaseTypeOK
    BY DEF TypeInv
  <1>1. CASE StockNext /\ UNCHANGED purchaseVars
    BY <1>0, <1>1, WorksLead, LoadedType, StockStep, PurchaseUnchanged DEF TypeInv
  <1>2. CASE UNCHANGED vars
    <2>1. UNCHANGED stockVars /\ UNCHANGED purchaseVars
      BY <1>2 DEF vars
    <2>. QED BY <1>0, <2>1, StockUnchanged, PurchaseUnchanged DEF TypeInv
  <1>3. CASE CreateOrder
    <2>1. UNCHANGED stockVars
      BY <1>3 DEF CreateOrder
    <2>. QED BY <1>0, <1>3, <2>1, StockUnchanged, CreateOrderIs DEF TypeInv
  <1>4. ASSUME NEW t \in Txns, Reads(t) PROVE TypeInv'
    BY <1>0, <1>4, ReadsAre, StockUnchanged DEF TypeInv
  <1>5. ASSUME NEW t \in Txns, Rollback(t) PROVE TypeInv'
    BY <1>0, <1>5, RollbackIs, StockUnchanged DEF TypeInv
  <1>6. ASSUME NEW t \in Txns,
               UpdateOrder(t) \/ ConfirmOrder(t) \/ DecideApproval(t) \/ ShortClose(t) \/ ReopenLine(t)
        PROVE  TypeInv'
    <2>1. UNCHANGED stockVars
      BY <1>6 DEF UpdateOrder, ConfirmOrder, DecideApproval, ShortClose, ReopenLine, OrderOnly
    <2>2. PurchaseTypeOK'
      BY <1>0, <1>6, UpdateOrderIs, ConfirmOrderIs, DecideApprovalIs, ShortCloseIs, ReopenLineIs
    <2>. QED BY <1>0, <2>1, <2>2, StockUnchanged DEF TypeInv
  <1>7. ASSUME NEW t \in Txns, Receive(t) PROVE TypeInv'
    <2>1. PurchaseTypeOK' /\ UNCHANGED <<method, warehouse, counts, alerts, dropped, ops>>
      BY <1>0, <1>7, ReceiveIs
    <2>2. PICK k \in Works :
            /\ quants' = k.quants /\ moves' = k.moves
            /\ books' = EnterVariance(Enter(books, "inventory", "grni", HalfUp(k.value, Scale)), k.variance)
      BY <1>0, <1>7, ReceiveIs DEF ReceiveStocks
    <2>3. Enter(books, "inventory", "grni", HalfUp(k.value, Scale)) \in [Accounts -> Int]
      BY <1>0, EnterType, MoneyType, ValueIs, StockParts DEF Accounts
    <2>4. books' \in [Accounts -> Int]
      BY <2>2, <2>3, VarianceType, ValueIs
    <2>. QED BY <1>0, <2>1, <2>2, <2>4, TypeOfStock DEF TypeInv
  <1>8. ASSUME NEW t \in Txns, RegisterBill(t) \/ EditBill(t) PROVE TypeInv'
    <2>1. PurchaseTypeOK' /\ UNCHANGED stockVars
      BY <1>0, <1>8, RegisterBillIs, EditBillIs
    <2>. QED BY <1>0, <2>1, StockUnchanged DEF TypeInv
  <1>9. ASSUME NEW t \in Txns, PostBill(t) PROVE TypeInv'
    <2>1. /\ PurchaseTypeOK' /\ books' \in [Accounts -> Int]
          /\ UNCHANGED <<method, warehouse, quants, moves, counts, alerts, dropped, ops>>
      BY <1>0, <1>9, PostBillIs
    <2>2. StockTypeOK'
      BY <1>0, <2>1 DEF StockTypeOK
    <2>. QED BY <2>1, <2>2 DEF TypeInv
  <1>10. ASSUME NEW t \in Txns, DebitNote(t) PROVE TypeInv'
    <2>1. PurchaseTypeOK' /\ UNCHANGED <<method, warehouse, counts, alerts, dropped, ops>>
      BY <1>0, <1>10, DebitNoteIs
    <2>2. PICK k \in Works : quants' = k.quants /\ moves' = k.moves /\ books' \in [Accounts -> Int]
      BY <1>0, <1>10, DebitNoteIs
    <2>. QED BY <1>0, <2>1, <2>2, TypeOfStock DEF TypeInv
  <1>. QED BY <1>1, <1>2, <1>3, <1>4, <1>5, <1>6, <1>7, <1>8, <1>9, <1>10, NextIs

(***************************************************************************)
(* Quantities on documents.                                                *)
(***************************************************************************)
\* What receipts and bills count for line i of the order o, as functions
ReceiptsOf(rs, o, i) == [r \in DOMAIN rs |-> IF rs[r].of = o THEN LastOf(rs[r].lines, i) ELSE 0]
BillsOf(bs, o, i) == [b \in DOMAIN bs |-> IF bs[b].of = o /\ bs[b].type = "standard" THEN LastOf(bs[b].lines, i) ELSE 0]
InReceipts(rs, o, i) == SumFunctionOnSet(ReceiptsOf(rs, o, i), DOMAIN rs)
InBills(bs, o, i) == SumFunctionOnSet(BillsOf(bs, o, i), DOMAIN bs)

\* Where documents name a line once, these are the sums of the invariant that TLC
\* checks.
LEMMA OnDocuments ==
  ASSUME receipts \in Seq(ReceiptRows), bills \in Seq(BillRows), NEW o, NEW i
  PROVE  /\ ReceivedOnce(o) => OnReceipts(o, i) = InReceipts(receipts, o, i)
         /\ BilledOnce(o) => OnBills(o, i, LAMBDA b : TRUE) = InBills(bills, o, i)
  <1>1. ASSUME ReceivedOnce(o) PROVE OnReceipts(o, i) = InReceipts(receipts, o, i)
    <2> DEFINE f == [r \in DOMAIN receipts |-> IF receipts[r].of = o THEN QtyOf(receipts[r].lines, i) ELSE 0]
    <2>1. OnReceipts(o, i) = SumFunctionOnSet(f, DOMAIN receipts)
      BY DEF OnReceipts, SumLines, TotalOf, SumFunction
    <2>2. ASSUME NEW r \in DOMAIN receipts, receipts[r].of = o
          PROVE  LastOf(receipts[r].lines, i) = QtyOf(receipts[r].lines, i)
      <3>1. receipts[r] \in ReceiptRows /\ Once(receipts[r].lines)
        BY <1>1, <2>2, RowsOf DEF ReceivedOnce
      <3>2. receipts[r].lines \in Seq(BillLines)
        BY <3>1 DEF ReceiptRows
      <3>. QED BY <3>1, <3>2, BillLineParts, LastOfOnce
    <2>3. \A r \in DOMAIN receipts : f[r] = ReceiptsOf(receipts, o, i)[r]
      BY <2>2 DEF ReceiptsOf
    <2> HIDE DEF f
    <2>. QED BY <2>1, <2>3, LinesOf, SumOfSame DEF InReceipts
  <1>2. ASSUME BilledOnce(o) PROVE OnBills(o, i, LAMBDA b : TRUE) = InBills(bills, o, i)
    <2> DEFINE f == [b \in DOMAIN bills |-> IF bills[b].of = o /\ bills[b].type = "standard"
                                           THEN QtyOf(bills[b].lines, i) ELSE 0]
    <2>1. OnBills(o, i, LAMBDA b : TRUE) = SumFunctionOnSet(f, DOMAIN bills)
      BY DEF OnBills, SumLines, TotalOf, SumFunction
    <2>2. ASSUME NEW b \in DOMAIN bills, bills[b].of = o, bills[b].type = "standard"
          PROVE  LastOf(bills[b].lines, i) = QtyOf(bills[b].lines, i)
      <3>1. bills[b].lines \in Seq(BillLines) /\ Once(bills[b].lines)
        BY <1>2, <2>2, RowsOf, BillParts DEF BilledOnce
      <3>. QED BY <3>1, BillLineParts, LastOfOnce
    <2>3. \A b \in DOMAIN bills : f[b] = BillsOf(bills, o, i)[b]
      BY <2>2 DEF BillsOf
    <2> HIDE DEF f
    <2>. QED BY <2>1, <2>3, LinesOf, SumOfSame DEF InBills
  <1>. QED BY <1>1, <1>2

\* The quantity of a line on a document is a number.
LEMMA BillLinesSum ==
  ASSUME NEW ls \in Seq(BillLines), NEW i
  PROVE  QtyOf(ls, i) \in Nat /\ LastOf(ls, i) \in Nat
  BY BillLineParts, QtyOfType, LastOfType

\* What receipts say of a line is a number on each of them.
LEMMA ReceiptsOfType ==
  ASSUME NEW rs \in Seq(ReceiptRows), NEW o, NEW i
  PROVE  IsFiniteSet(DOMAIN rs) /\ \A r \in DOMAIN rs : ReceiptsOf(rs, o, i)[r] \in Nat
  <1>1. \A r \in DOMAIN rs : rs[r] \in ReceiptRows
    BY RowsOf
  <1>2. \A r \in DOMAIN rs : rs[r].lines \in Seq(BillLines)
    BY <1>1 DEF ReceiptRows
  <1>3. \A r \in DOMAIN rs : LastOf(rs[r].lines, i) \in Nat
    BY <1>2, BillLinesSum
  <1>. QED BY <1>3, LinesOf DEF ReceiptsOf

\* The same of bills.
LEMMA BillsOfType ==
  ASSUME NEW bs \in Seq(BillRows), NEW o, NEW i
  PROVE  IsFiniteSet(DOMAIN bs) /\ \A b \in DOMAIN bs : BillsOf(bs, o, i)[b] \in Nat
  <1>1. \A b \in DOMAIN bs : bs[b] \in BillRows
    BY RowsOf
  <1>2. \A b \in DOMAIN bs : bs[b].lines \in Seq(BillLines)
    BY <1>1, BillParts
  <1>3. \A b \in DOMAIN bs : LastOf(bs[b].lines, i) \in Nat
    BY <1>2, BillLinesSum
  <1>. QED BY <1>3, LinesOf DEF BillsOf

\* A receipt is added: what was received grows by what it says.
LEMMA ReceiptAdded ==
  ASSUME NEW rs \in Seq(ReceiptRows), NEW r \in ReceiptRows, NEW o, NEW i
  PROVE  /\ InReceipts(Append(rs, r), o, i) = InReceipts(rs, o, i) + IF r.of = o THEN LastOf(r.lines, i) ELSE 0
         /\ InReceipts(rs, o, i) \in Nat
  <1> DEFINE n == Len(rs) + 1
             f == ReceiptsOf(rs, o, i)
             g == ReceiptsOf(Append(rs, r), o, i)
  <1>1. /\ Append(rs, r) \in Seq(ReceiptRows) /\ n \notin DOMAIN rs /\ DOMAIN Append(rs, r) = DOMAIN rs \cup {n}
        /\ \A k \in DOMAIN rs : Append(rs, r)[k] = rs[k]
        /\ Append(rs, r)[n] = r
    BY AppendedRows
  <1>2. IsFiniteSet(DOMAIN rs) /\ (\A k \in DOMAIN rs : f[k] \in Nat) /\ g[n] \in Nat
    BY <1>1, ReceiptsOfType
  <1>3. (\A k \in DOMAIN rs : g[k] = f[k]) /\ g[n] = IF r.of = o THEN LastOf(r.lines, i) ELSE 0
    BY <1>1 DEF ReceiptsOf
  <1> HIDE DEF f, g, n
  <1>4. SumFunctionOnSet(g, DOMAIN rs \cup {n}) = SumFunctionOnSet(f, DOMAIN rs) + g[n]
    <2>1. g[n] \in Int /\ n \notin DOMAIN rs /\ \A k \in DOMAIN rs : f[k] \in Int /\ g[k] = f[k]
      BY <1>1, <1>2, <1>3
    <2>. QED BY <1>2, <2>1, SumAppended, ZenonT(30)
  <1>5. SumFunctionOnSet(f, DOMAIN rs) \in Nat
    BY <1>2, NatSum
  <1>. QED BY <1>1, <1>3, <1>4, <1>5 DEF InReceipts, f, g

\* A bill is added: what was billed grows by what it says, unless it is a note.
LEMMA BillAdded ==
  ASSUME NEW bs \in Seq(BillRows), NEW b \in BillRows, NEW o, NEW i
  PROVE  /\ InBills(Append(bs, b), o, i) =
              InBills(bs, o, i) + IF b.of = o /\ b.type = "standard" THEN LastOf(b.lines, i) ELSE 0
         /\ InBills(bs, o, i) \in Nat
  <1> DEFINE n == Len(bs) + 1
             f == BillsOf(bs, o, i)
             g == BillsOf(Append(bs, b), o, i)
  <1>1. /\ Append(bs, b) \in Seq(BillRows) /\ n \notin DOMAIN bs /\ DOMAIN Append(bs, b) = DOMAIN bs \cup {n}
        /\ \A k \in DOMAIN bs : Append(bs, b)[k] = bs[k]
        /\ Append(bs, b)[n] = b
    BY AppendedRows
  <1>2. IsFiniteSet(DOMAIN bs) /\ (\A k \in DOMAIN bs : f[k] \in Nat) /\ g[n] \in Nat
    BY <1>1, BillsOfType
  <1>3. (\A k \in DOMAIN bs : g[k] = f[k])
        /\ g[n] = IF b.of = o /\ b.type = "standard" THEN LastOf(b.lines, i) ELSE 0
    BY <1>1 DEF BillsOf
  <1> HIDE DEF f, g, n
  <1>4. SumFunctionOnSet(g, DOMAIN bs \cup {n}) = SumFunctionOnSet(f, DOMAIN bs) + g[n]
    <2>1. g[n] \in Int /\ n \notin DOMAIN bs /\ \A k \in DOMAIN bs : f[k] \in Int /\ g[k] = f[k]
      BY <1>1, <1>2, <1>3
    <2>. QED BY <1>2, <2>1, SumAppended, ZenonT(30)
  <1>5. SumFunctionOnSet(f, DOMAIN bs) \in Nat
    BY <1>2, NatSum
  <1>. QED BY <1>1, <1>3, <1>4, <1>5 DEF InBills, f, g

\* A bill is written: what it bills is exchanged.
LEMMA BillChanged ==
  ASSUME NEW bs \in Seq(BillRows), NEW bs2 \in Seq(BillRows), NEW b \in DOMAIN bs, DOMAIN bs2 = DOMAIN bs,
         \A c \in DOMAIN bs : c # b => bs2[c] = bs[c], NEW o, NEW i
  PROVE  /\ InBills(bs2, o, i) = InBills(bs, o, i) + BillsOf(bs2, o, i)[b] - BillsOf(bs, o, i)[b]
         /\ InBills(bs, o, i) \in Nat
  <1> DEFINE f == BillsOf(bs, o, i)
             g == BillsOf(bs2, o, i)
  <1>1. IsFiniteSet(DOMAIN bs) /\ (\A k \in DOMAIN bs : f[k] \in Nat) /\ (\A k \in DOMAIN bs : g[k] \in Nat)
    BY BillsOfType
  <1>2. \A k \in DOMAIN bs \ {b} : g[k] = f[k]
    BY DEF BillsOf
  <1> HIDE DEF f, g
  <1>3. \A k \in DOMAIN bs : f[k] \in Int /\ g[k] \in Int
    BY <1>1
  <1>4. SumFunctionOnSet(g, DOMAIN bs) = SumFunctionOnSet(f, DOMAIN bs) + g[b] - f[b]
    BY <1>1, <1>2, <1>3, SumOfOneChange
  <1>5. SumFunctionOnSet(f, DOMAIN bs) \in Nat
    BY <1>1, NatSum
  <1>. QED BY <1>4, <1>5 DEF InBills, f, g

\* What no document is of is on none.
LEMMA NoDocument ==
  ASSUME NEW o, NEW i
  PROVE  /\ receipts \in Seq(ReceiptRows) /\ (\A r \in DOMAIN receipts : receipts[r].of # o) => InReceipts(receipts, o, i) = 0
         /\ bills \in Seq(BillRows)
            /\ (\A b \in DOMAIN bills : bills[b].of = o => \A j \in DOMAIN bills[b].lines : bills[b].lines[j].line # i)
              => InBills(bills, o, i) = 0
  <1>1. ASSUME receipts \in Seq(ReceiptRows), \A r \in DOMAIN receipts : receipts[r].of # o
        PROVE  InReceipts(receipts, o, i) = 0
    <2>1. \A r \in DOMAIN receipts : ReceiptsOf(receipts, o, i)[r] = 0
      BY <1>1 DEF ReceiptsOf
    <2>2. IsFiniteSet(DOMAIN receipts)
      BY <1>1, LinesOf
    <2>. QED BY <2>1, <2>2, SumOfZeros DEF InReceipts
  <1>2. ASSUME bills \in Seq(BillRows),
               \A b \in DOMAIN bills : bills[b].of = o => \A j \in DOMAIN bills[b].lines : bills[b].lines[j].line # i
        PROVE  InBills(bills, o, i) = 0
    <2>1. ASSUME NEW b \in DOMAIN bills, bills[b].of = o PROVE LastOf(bills[b].lines, i) = 0
      <3>1. bills[b].lines \in Seq(BillLines)
        BY <1>2, RowsOf, BillParts
      <3>. QED BY <1>2, <2>1, <3>1, LastOfIs
    <2>2. \A b \in DOMAIN bills : BillsOf(bills, o, i)[b] = 0
      BY <2>1 DEF BillsOf
    <2>3. IsFiniteSet(DOMAIN bills)
      BY <1>2, LinesOf
    <2>. QED BY <2>2, <2>3, SumOfZeros DEF InBills
  <1>. QED BY <1>1, <1>2

(***************************************************************************)
(* What lines say was received and billed is on the documents.             *)
(***************************************************************************)
LineReceived(x, rs, o) == \A i \in DOMAIN x.lines :
  /\ x.lines[i].received = InReceipts(rs, o, i) /\ x.lines[i].received <= x.lines[i].qty
  /\ x.status = "done" => x.lines[i].received = x.lines[i].qty

\* Every line says what the bills of its order bill of it.
LineBilled(x, bs, o) == \A i \in DOMAIN x.lines : x.lines[i].billed = InBills(bs, o, i)

\* The two facts of all orders; the second is not about two requests that
\* bill the same order at once.
ReceivedInv == \A o \in DOMAIN orders : LineReceived(orders[o], receipts, o)
BilledInv == ~contended => \A o \in DOMAIN orders : LineBilled(orders[o], bills, o)

\* What an order of the present has been typed as
LEMMA OrderNow ==
  ASSUME PurchaseTypeOK
  PROVE  /\ receipts \in Seq(ReceiptRows) /\ bills \in Seq(BillRows)
         /\ \A o \in DOMAIN orders : /\ o \in Nat \ {0} /\ orders[o] \in OrderRows
                                     /\ orders[o].lines \in Seq(OrderLines) /\ orders[o].lines # <<>>
                                     /\ orders[o].status \in Statuses
  <1>1. orders \in Seq(OrderRows) /\ receipts \in Seq(ReceiptRows) /\ bills \in Seq(BillRows)
    BY DEF PurchaseTypeOK, DocumentsOK
  <1>2. \A o \in DOMAIN orders : o \in Nat \ {0} /\ orders[o] \in OrderRows
    BY <1>1, RowsOf
  <1>. QED BY <1>1, <1>2, OrderParts

\* A write that leaves the figures of the lines alone
LEMMA SameReceived ==
  ASSUME NEW x, NEW y, NEW rs, NEW o, SameFigures(y.lines, x.lines), y.status = "done" => x.status = "done",
         LineReceived(x, rs, o)
  PROVE  LineReceived(y, rs, o)
  BY DEF SameFigures, LineReceived

\* The same of what was billed.
LEMMA SameBilled ==
  ASSUME NEW x, NEW y, NEW bs, NEW o, SameFigures(y.lines, x.lines), LineBilled(x, bs, o)
  PROVE  LineBilled(y, bs, o)
  BY DEF SameFigures, LineBilled

\* Any step that writes no quantity
LEMMA QuietStep ==
  ASSUME PurchaseTypeOK, [Next]_vars, UNCHANGED <<receipts, bills, contended>>,
         \/ UNCHANGED orders
         \/ \E t \in Txns : ConfirmOrder(t) \/ DecideApproval(t) \/ ShortClose(t) \/ ReopenLine(t)
  PROVE  /\ DOMAIN orders' = DOMAIN orders
         /\ \A o \in DOMAIN orders : /\ SameFigures(orders'[o].lines, orders[o].lines)
                                     /\ orders'[o].status = "done" => orders[o].status = "done"
  <1>0. \A o \in DOMAIN orders : SameFigures(orders[o].lines, orders[o].lines)
    BY DEF SameFigures
  <1>1. CASE UNCHANGED orders
    BY <1>0, <1>1
  <1>2. ASSUME NEW t \in Txns, ConfirmOrder(t) \/ DecideApproval(t) \/ ShortClose(t) \/ ReopenLine(t)
        PROVE  /\ DOMAIN orders' = DOMAIN orders
               /\ \A o \in DOMAIN orders : /\ SameFigures(orders'[o].lines, orders[o].lines)
                                           /\ orders'[o].status = "done" => orders[o].status = "done"
    <2> DEFINE o == tx[t].o
    <2>1. Writes(t)
      BY <1>2, ConfirmOrderIs, DecideApprovalIs, ShortCloseIs, ReopenLineIs
    <2>2. o \in DOMAIN orders /\ DOMAIN orders' = DOMAIN orders /\ \A p \in DOMAIN orders : p # o => orders'[p] = orders[p]
      BY <2>1 DEF Writes
    <2>3. SameFigures(orders'[o].lines, orders[o].lines) /\ (orders'[o].status = "done" => orders[o].status = "done")
      <3>1. CASE ConfirmOrder(t)
        <4>1. orders'[o].lines = orders[o].lines /\ orders'[o].status # "done"
          BY <3>1, ConfirmOrderIs
        <4>. QED BY <1>0, <2>2, <4>1
      <3>2. CASE DecideApproval(t)
        <4>1. orders'[o].lines = orders[o].lines /\ orders'[o].status # "done"
          BY <3>2, DecideApprovalIs
        <4>. QED BY <1>0, <2>2, <4>1
      <3>3. CASE ShortClose(t)
        <4>1. SameFigures(orders'[o].lines, orders[o].lines) /\ orders'[o].status = "closed"
          BY <3>3, ShortCloseIs
        <4>. QED BY <4>1
      <3>4. CASE ReopenLine(t)
        <4>1. SameFigures(orders'[o].lines, orders[o].lines)
              /\ (orders'[o].status = orders[o].status \/ orders'[o].status \in {"partially_received", "confirmed"})
          BY <3>4, ReopenLineIs
        <4>. QED BY <4>1
      <3>. QED BY <1>2, <3>1, <3>2, <3>3, <3>4
    <2> HIDE DEF o
    <2>. QED BY <1>0, <2>2, <2>3
  <1>. QED BY <1>1, <1>2

\* The steps that are left
LEMMA OrderSteps ==
  ASSUME PurchaseTypeOK, [Next]_vars
  PROVE  \/ UNCHANGED <<receipts, bills, contended>>
            /\ (\/ UNCHANGED orders
                \/ \E t \in Txns : ConfirmOrder(t) \/ DecideApproval(t) \/ ShortClose(t) \/ ReopenLine(t))
         \/ CreateOrder
         \/ \E t \in Txns : UpdateOrder(t) \/ Receive(t) \/ RegisterBill(t) \/ EditBill(t) \/ PostBill(t) \/ DebitNote(t)
  <1>1. CASE StockNext /\ UNCHANGED purchaseVars
    BY <1>1 DEF purchaseVars
  <1>2. CASE UNCHANGED vars
    BY <1>2 DEF vars, purchaseVars
  <1>3. ASSUME NEW t \in Txns, Reads(t) \/ Rollback(t) PROVE UNCHANGED <<receipts, bills, contended, orders>>
    BY <1>3, ReadsAre, RollbackIs
  <1>4. ASSUME NEW t \in Txns, ConfirmOrder(t) \/ DecideApproval(t) \/ ShortClose(t) \/ ReopenLine(t)
        PROVE  UNCHANGED <<receipts, bills, contended>>
    BY <1>4 DEF ConfirmOrder, DecideApproval, ShortClose, ReopenLine, OrderOnly
  <1>. QED BY <1>1, <1>2, <1>3, <1>4, NextIs

\* A receipt that is accepted leaves every line within what was ordered.
LEMMA AcceptedFits ==
  ASSUME NEW ls \in Seq(OrderLines), NEW rl \in Seq(Payloads), AcceptsReceipt(ls, rl), NEW i \in DOMAIN ls,
         ls[i].received <= ls[i].qty
  PROVE  /\ LastOf(rl, i) \in Nat
         /\ ls[i].received + LastOf(rl, i) <= ls[i].qty
  <1>1. ls[i].received \in Nat /\ ls[i].qty \in Nat
    BY LineParts
  <1>2. \A j \in DOMAIN rl : rl[j].line = i => ls[i].received + rl[j].qty <= ls[i].qty
    BY DEF AcceptsReceipt
  <1>3. LastOf(rl, i) \in Nat
    BY PayloadParts, LastOfType
  <1>. QED BY <1>1, <1>2, <1>3, LastOfIs
-----------------------------------------------------------------------------
\* record_receipt adds to the lines what it puts on the receipt.
LEMMA ReceivedByReceive ==
  ASSUME TypeInv, ReceivedInv, NEW t \in Txns, Receive(t)
  PROVE  ReceivedInv'
  <1> DEFINE o == tx[t].o
             rl == tx[t].arg
             y == orders[o]
             bl == ReceiptLines(o, rl)
             ls == AddReceived(y.lines, rl)
             r == [of |-> o, lines |-> bl]
  <1>1. /\ Writes(t) /\ y \in OrderRows /\ rl \in Seq(Payloads) /\ AcceptsReceipt(y.lines, rl)
        /\ \A i \in DOMAIN rl : rl[i].line \in DOMAIN y.lines
        /\ receipts' = Append(receipts, r)
        /\ orders'[o].lines = AddBilled(ls, bl, 1)
        /\ orders'[o].status = Written(tx[t].seen.status, StatusAfter(tx[t].seen.status, ls), y.status)
    <2>1. StockTypeOK /\ PurchaseTypeOK
      BY DEF TypeInv
    <2>2. o = tx[t].o /\ rl = tx[t].arg /\ bl = ReceiptLines(o, rl) /\ ls = AddReceived(orders[o].lines, rl) /\ y = orders[o]
          /\ r = [of |-> o, lines |-> bl]
      OBVIOUS
    <2> HIDE DEF o, rl, bl, ls, y, r
    <2>3. Writes(t) /\ ReceiveWrites(t, o, rl, bl, ls)
      BY <2>1, <2>2, ReceiveIs
    <2>. QED BY <2>2, <2>3 DEF ReceiveWrites
  <1>2. /\ o \in DOMAIN orders /\ o \in Nat
        /\ DOMAIN orders' = DOMAIN orders /\ \A p \in DOMAIN orders : p # o => orders'[p] = orders[p]
    BY <1>1 DEF Writes
  <1>3. receipts \in Seq(ReceiptRows) /\ y.lines \in Seq(OrderLines) /\ LineReceived(y, receipts, o)
    BY <1>2, OrderNow DEF TypeInv, ReceivedInv
  <1> HIDE DEF o, rl, y
  <1>4. bl \in Seq(BillLines) /\ \A i : LastOf(bl, i) = LastOf(rl, i)
    BY <1>1, <1>2, <1>3, ReceiptLinesAre DEF y
  <1>5. /\ ls \in Seq(OrderLines) /\ DOMAIN ls = DOMAIN y.lines
        /\ \A i \in DOMAIN y.lines : ls[i].received = y.lines[i].received + LastOf(rl, i) /\ ls[i].qty = y.lines[i].qty
    BY <1>1, <1>3, AddReceivedType
  <1>6. r \in ReceiptRows /\ r.of = o /\ r.lines = bl
    BY <1>2, <1>4 DEF ReceiptRows
  <1> HIDE DEF bl, ls, r
  <1>7. /\ DOMAIN orders'[o].lines = DOMAIN y.lines
        /\ \A i \in DOMAIN y.lines : /\ orders'[o].lines[i].received = y.lines[i].received + LastOf(rl, i)
                                     /\ orders'[o].lines[i].qty = y.lines[i].qty
    <2>1. 1 \in Int
      OBVIOUS
    <2>. QED BY <1>1, <1>4, <1>5, <2>1, AddBilledType
  <1>8. \A p, i : /\ InReceipts(receipts', p, i) = InReceipts(receipts, p, i) + IF p = o THEN LastOf(rl, i) ELSE 0
                  /\ InReceipts(receipts, p, i) \in Nat
    <2> TAKE p, i
    <2>1. /\ InReceipts(receipts', p, i) = InReceipts(receipts, p, i) + IF r.of = p THEN LastOf(r.lines, i) ELSE 0
          /\ InReceipts(receipts, p, i) \in Nat
      BY <1>1, <1>3, <1>6, ReceiptAdded
    <2>. QED BY <1>4, <1>6, <2>1
  <1>9. LineReceived(orders'[o], receipts', o)
    <2>1. SUFFICES ASSUME NEW i \in DOMAIN y.lines
                   PROVE  LET l == orders'[o].lines[i] IN
                          /\ l.received = InReceipts(receipts', o, i) /\ l.received <= l.qty
                          /\ orders'[o].status = "done" => l.received = l.qty
      BY <1>7 DEF LineReceived
    <2> DEFINE m == y.lines[i]
               q == LastOf(rl, i)
    <2>2. /\ m.received = InReceipts(receipts, o, i) /\ m.received <= m.qty
          /\ y.status = "done" => m.received = m.qty
      BY <1>3 DEF LineReceived
    <2>3. q \in Nat /\ m.received + q <= m.qty /\ m.received \in Nat /\ m.qty \in Nat
      BY <1>1, <1>3, <2>2, AcceptedFits, LineParts
    <2>4. orders'[o].status = "done" => y.status = "done" \/ ls[i].received >= ls[i].qty
      BY <1>1, <1>5 DEF Written, StatusAfter
    <2>5. orders'[o].lines[i].received = m.received + q /\ orders'[o].lines[i].qty = m.qty
          /\ ls[i].received = m.received + q /\ ls[i].qty = m.qty
      BY <1>5, <1>7
    <2>6. InReceipts(receipts', o, i) = InReceipts(receipts, o, i) + q
      BY <1>8
    <2> HIDE DEF m, q
    <2>7. orders'[o].status = "done" => m.received + q = m.qty
      BY <2>2, <2>3, <2>4, <2>5
    <2>. QED BY <2>2, <2>3, <2>5, <2>6, <2>7
  <1>10. \A p \in DOMAIN orders : p # o => LineReceived(orders'[p], receipts', p)
    <2> TAKE p \in DOMAIN orders
    <2> HAVE p # o
    <2>1. orders'[p] = orders[p] /\ LineReceived(orders[p], receipts, p)
      BY <1>2 DEF ReceivedInv
    <2>2. \A i : InReceipts(receipts', p, i) = InReceipts(receipts, p, i)
      BY <1>8
    <2>. QED BY <2>1, <2>2 DEF LineReceived
  <1>. QED BY <1>2, <1>9, <1>10 DEF ReceivedInv

\* Every step keeps what lines say was received on the receipts.
LEMMA ReceivedStep == TypeInv /\ ReceivedInv /\ [Next]_vars => ReceivedInv'
  <1> SUFFICES ASSUME TypeInv, ReceivedInv, [Next]_vars PROVE ReceivedInv'
    OBVIOUS
  <1>0. StockTypeOK /\ PurchaseTypeOK /\ receipts \in Seq(ReceiptRows)
    BY OrderNow DEF TypeInv
  <1>1. CASE UNCHANGED <<receipts, bills, contended>>
             /\ (\/ UNCHANGED orders
                 \/ \E t \in Txns : ConfirmOrder(t) \/ DecideApproval(t) \/ ShortClose(t) \/ ReopenLine(t))
    <2>1. /\ DOMAIN orders' = DOMAIN orders
          /\ \A o \in DOMAIN orders : /\ SameFigures(orders'[o].lines, orders[o].lines)
                                      /\ orders'[o].status = "done" => orders[o].status = "done"
      BY <1>0, <1>1, QuietStep
    <2>2. \A o \in DOMAIN orders : LineReceived(orders'[o], receipts, o)
      BY <2>1, SameReceived DEF ReceivedInv
    <2>. QED BY <1>1, <2>1, <2>2 DEF ReceivedInv
  <1>2. CASE CreateOrder
    <2>1. PICK n \in Nat \ {0} :
              /\ n \notin DOMAIN orders /\ DOMAIN orders' = DOMAIN orders \cup {n}
              /\ \A o \in DOMAIN orders : orders'[o] = orders[o]
              /\ orders'[n].status = "draft"
              /\ \A i \in DOMAIN orders'[n].lines :
                   /\ orders'[n].lines[i].received = 0 /\ orders'[n].lines[i].billed = 0
                   /\ ~orders'[n].lines[i].closed /\ orders'[n].lines[i].qty \in Nat \ {0}
      BY <1>0, <1>2, CreateOrderIs
    <2>2. receipts' = receipts
      BY <1>2 DEF CreateOrder
    <2>3. \A r \in DOMAIN receipts : receipts[r].of # n
      BY <1>0, <2>1 DEF PurchaseTypeOK, DocumentsOK
    <2>4. \A i : InReceipts(receipts, n, i) = 0
      BY <1>0, <2>3, NoDocument
    <2>5. LineReceived(orders'[n], receipts, n)
      BY <2>1, <2>4 DEF LineReceived
    <2>. QED BY <2>1, <2>2, <2>5 DEF ReceivedInv
  <1>3. ASSUME NEW t \in Txns, UpdateOrder(t) PROVE ReceivedInv'
    <2> DEFINE o == tx[t].o
    <2>1. /\ PurchaseTypeOK' /\ UNCHANGED <<receipts, bills, contended>>
          /\ o \in DOMAIN orders /\ DOMAIN orders' = DOMAIN orders
          /\ \A p \in DOMAIN orders : p # o => orders'[p] = orders[p]
          /\ orders'[o].status = orders[o].status
          /\ \A i \in DOMAIN orders'[o].lines :
               orders'[o].lines[i].received = 0 /\ orders'[o].lines[i].qty \in Nat \ {0}
          /\ \A r \in DOMAIN receipts : receipts[r].of # o
      BY <1>0, <1>3, UpdateOrderIs
    <2>2. \A i : InReceipts(receipts, o, i) = 0
      BY <1>0, <2>1, NoDocument
    <2>3. orders[o].status # "done"
      <3>1. LineReceived(orders[o], receipts, o) /\ orders[o].lines \in Seq(OrderLines) /\ orders[o].lines # <<>>
        BY <1>0, <2>1, OrderNow DEF ReceivedInv
      <3>2. 1 \in DOMAIN orders[o].lines
        BY <3>1, RowsOf, EmptySeq
      <3>3. orders[o].lines[1].qty \in Nat \ {0} /\ orders[o].lines[1].received = 0
        BY <2>2, <3>1, <3>2, LineParts DEF LineReceived
      <3>. QED BY <3>1, <3>2, <3>3 DEF LineReceived
    <2>4. LineReceived(orders'[o], receipts, o)
      BY <2>1, <2>2, <2>3 DEF LineReceived
    <2> HIDE DEF o
    <2>. QED BY <2>1, <2>4 DEF ReceivedInv
  <1>4. ASSUME NEW t \in Txns, RegisterBill(t) \/ EditBill(t) PROVE ReceivedInv'
    <2> DEFINE o == tx[t].o
    <2>1. Writes(t) /\ UNCHANGED receipts
      BY <1>0, <1>4, RegisterBillIs, EditBillIs
    <2>2. /\ o \in DOMAIN orders /\ DOMAIN orders' = DOMAIN orders
          /\ \A p \in DOMAIN orders : p # o => orders'[p] = orders[p]
      BY <2>1 DEF Writes
    <2>3. orders[o] \in OrderRows /\ orders[o].lines \in Seq(OrderLines) /\ LineReceived(orders[o], receipts, o)
      BY <1>0, <2>2, OrderNow DEF ReceivedInv
    <2>4. \E ls : /\ orders'[o] = [orders[o] EXCEPT !.lines = ls]
                  /\ DOMAIN ls = DOMAIN orders[o].lines
                  /\ \A i \in DOMAIN ls : ls[i].received = orders[o].lines[i].received /\ ls[i].qty = orders[o].lines[i].qty
      <3> HIDE DEF o
      <3>0. 1 \in Int /\ -1 \in Int
        OBVIOUS
      <3>1. CASE RegisterBill(t)
        <4> DEFINE bl == tx[t].arg
        <4>1. bl \in Seq(BillLines) /\ orders'[o] = [orders[o] EXCEPT !.lines = AddBilled(orders[o].lines, bl, 1)]
          BY <1>0, <3>1, RegisterBillIs DEF o
        <4> HIDE DEF bl
        <4> DEFINE ls == AddBilled(orders[o].lines, bl, 1)
        <4>2. /\ DOMAIN ls = DOMAIN orders[o].lines
              /\ \A i \in DOMAIN ls : ls[i].received = orders[o].lines[i].received /\ ls[i].qty = orders[o].lines[i].qty
          BY <2>3, <3>0, <4>1, AddBilledType
        <4>3. orders'[o] = [orders[o] EXCEPT !.lines = ls]
          BY <4>1
        <4> HIDE DEF ls
        <4>. QED BY <4>2, <4>3
      <3>2. CASE EditBill(t)
        <4> DEFINE bl == tx[t].arg
                   sl == tx[t].seen.lines
                   m == AddBilled(orders[o].lines, sl, -1)
        <4>1. bl \in Seq(BillLines) /\ sl \in Seq(BillLines)
              /\ orders'[o] = [orders[o] EXCEPT !.lines = AddBilled(m, bl, 1)]
          BY <1>0, <3>2, EditBillIs DEF o
        <4> HIDE DEF bl, sl
        <4>2. m \in Seq(OrderLines) /\ DOMAIN m = DOMAIN orders[o].lines
              /\ \A i \in DOMAIN m : m[i].received = orders[o].lines[i].received /\ m[i].qty = orders[o].lines[i].qty
          BY <2>3, <3>0, <4>1, AddBilledType
        <4> HIDE DEF m
        <4> DEFINE ls == AddBilled(m, bl, 1)
        <4>3. /\ DOMAIN ls = DOMAIN m
              /\ \A i \in DOMAIN ls : ls[i].received = m[i].received /\ ls[i].qty = m[i].qty
          BY <3>0, <4>1, <4>2, AddBilledType
        <4>4. orders'[o] = [orders[o] EXCEPT !.lines = ls]
          BY <4>1
        <4>5. /\ DOMAIN ls = DOMAIN orders[o].lines
              /\ \A i \in DOMAIN ls : ls[i].received = orders[o].lines[i].received /\ ls[i].qty = orders[o].lines[i].qty
          <5> HIDE DEF ls
          <5>. QED BY <4>2, <4>3
        <4> HIDE DEF ls
        <4>. QED BY <4>4, <4>5
      <3>. QED BY <1>4, <3>1, <3>2
    <2>5. LineReceived(orders'[o], receipts, o)
      <3> HIDE DEF o
      <3>1. PICK ls : /\ orders'[o] = [orders[o] EXCEPT !.lines = ls]
                  /\ DOMAIN ls = DOMAIN orders[o].lines
                  /\ \A i \in DOMAIN ls : ls[i].received = orders[o].lines[i].received /\ ls[i].qty = orders[o].lines[i].qty
        BY <2>4
      <3>2. orders'[o].lines = ls /\ orders'[o].status = orders[o].status
        BY <2>3, <3>1, OrderRowsAre DEF OrderRec
      <3>. QED BY <2>3, <3>1, <3>2 DEF LineReceived
    <2> HIDE DEF o
    <2>. QED BY <2>1, <2>2, <2>5 DEF ReceivedInv
  <1>5. ASSUME NEW t \in Txns, PostBill(t) \/ DebitNote(t) PROVE ReceivedInv'
    <2>1. UNCHANGED <<orders, receipts>>
      BY <1>5 DEF PostBill, DebitNote
    <2>. QED BY <2>1 DEF ReceivedInv
  <1>. QED BY <1>0, <1>1, <1>2, <1>3, <1>4, <1>5, ReceivedByReceive, OrderSteps

\* What registers a bill adds what it bills to the lines of its order.
LEMMA BilledByNewBill ==
  ASSUME PurchaseTypeOK, BilledInv, NEW o \in DOMAIN orders, NEW bl \in Seq(BillLines), NEW b \in BillRows,
         bills' = Append(bills, b), b.of = o, b.type = "standard", b.lines = bl, contended' = contended,
         DOMAIN orders' = DOMAIN orders, \A p \in DOMAIN orders : p # o => orders'[p] = orders[p],
         DOMAIN orders'[o].lines = DOMAIN orders[o].lines,
         \A i \in DOMAIN orders[o].lines : orders'[o].lines[i].billed = orders[o].lines[i].billed + LastOf(bl, i)
  PROVE  BilledInv'
  <1> SUFFICES ASSUME ~contended PROVE \A p \in DOMAIN orders : LineBilled(orders'[p], bills', p)
    BY DEF BilledInv
  <1>1. bills \in Seq(BillRows) /\ \A p \in DOMAIN orders : LineBilled(orders[p], bills, p)
    BY OrderNow DEF BilledInv
  <1>2. \A p, i : /\ InBills(bills', p, i) = InBills(bills, p, i) + IF p = o THEN LastOf(bl, i) ELSE 0
                  /\ InBills(bills, p, i) \in Nat
    <2> TAKE p, i
    <2>1. /\ InBills(bills', p, i) =
                InBills(bills, p, i) + IF b.of = p /\ b.type = "standard" THEN LastOf(b.lines, i) ELSE 0
          /\ InBills(bills, p, i) \in Nat
      BY <1>1, BillAdded
    <2>. QED BY <2>1
  <1>3. LineBilled(orders'[o], bills', o)
    BY <1>1, <1>2 DEF LineBilled
  <1>4. \A p \in DOMAIN orders : p # o => LineBilled(orders'[p], bills', p)
    <2> TAKE p \in DOMAIN orders
    <2> HAVE p # o
    <2>1. orders'[p] = orders[p] /\ LineBilled(orders[p], bills, p)
      BY <1>1
    <2>2. \A i : InBills(bills', p, i) = InBills(bills, p, i)
      BY <1>2
    <2>. QED BY <2>1, <2>2 DEF LineBilled
  <1>. QED BY <1>3, <1>4

\* register_bill bills the order what stands on its new bill.
LEMMA BilledByRegister ==
  ASSUME PurchaseTypeOK, BilledInv, NEW t \in Txns, RegisterBill(t)
  PROVE  BilledInv'
  <1>1. PICK o : o = tx[t].o
    OBVIOUS
  <1>2. PICK bl : bl = tx[t].arg
    OBVIOUS
  <1>3. /\ Writes(t) /\ contended' = contended /\ bl \in Seq(BillLines)
        /\ \E b \in BillRows : /\ bills' = Append(bills, b) /\ b.of = o /\ b.type = "standard" /\ b.lines = bl
        /\ orders'[o] = [orders[o] EXCEPT !.lines = AddBilled(orders[o].lines, bl, 1)]
    BY <1>1, <1>2, RegisterBillIs
  <1>4. /\ o \in DOMAIN orders /\ DOMAIN orders' = DOMAIN orders
        /\ \A p \in DOMAIN orders : p # o => orders'[p] = orders[p]
    BY <1>1, <1>3 DEF Writes
  <1>5. orders[o] \in OrderRows /\ orders[o].lines \in Seq(OrderLines)
    BY <1>4, OrderNow
  <1> DEFINE ls == AddBilled(orders[o].lines, bl, 1)
  <1>6. DOMAIN ls = DOMAIN orders[o].lines
        /\ \A i \in DOMAIN orders[o].lines : ls[i].billed = orders[o].lines[i].billed + 1 * LastOf(bl, i)
    <2>1. 1 \in Int
      OBVIOUS
    <2>. QED BY <1>3, <1>5, <2>1, AddBilledType
  <1>7. \A i \in DOMAIN orders[o].lines : ls[i].billed = orders[o].lines[i].billed + LastOf(bl, i)
    <2>1. \A i : LastOf(bl, i) \in Nat
      BY <1>3, BillLinesSum
    <2> HIDE DEF ls
    <2>. QED BY <1>6, <2>1
  <1>8. orders'[o].lines = ls
    <2>1. orders'[o] = [orders[o] EXCEPT !.lines = ls]
      BY <1>3
    <2> HIDE DEF ls
    <2>. QED BY <1>5, <2>1, OrderRowsAre DEF OrderRec
  <1> HIDE DEF ls
  <1>9. PICK b \in BillRows : bills' = Append(bills, b) /\ b.of = o /\ b.type = "standard" /\ b.lines = bl
    BY <1>3
  <1>10. DOMAIN orders'[o].lines = DOMAIN orders[o].lines
         /\ \A i \in DOMAIN orders[o].lines : orders'[o].lines[i].billed = orders[o].lines[i].billed + LastOf(bl, i)
    BY <1>6, <1>7, <1>8
  <1>11. bl \in Seq(BillLines) /\ contended' = contended
    BY <1>3
  <1>. QED BY <1>4, <1>9, <1>10, <1>11, BilledByNewBill

\* record_receipt bills the order what stands on the bill it drafts.
LEMMA BilledByReceive ==
  ASSUME TypeInv, BilledInv, NEW t \in Txns, Receive(t)
  PROVE  BilledInv'
  <1>0. StockTypeOK /\ PurchaseTypeOK
    BY DEF TypeInv
  <1>1. PICK o : o = tx[t].o
    OBVIOUS
  <1>2. PICK rl : rl = tx[t].arg
    OBVIOUS
  <1>3. PICK bl : bl = ReceiptLines(o, rl)
    OBVIOUS
  <1>4. PICK ls : ls = AddReceived(orders[o].lines, rl)
    OBVIOUS
  <1>5. Writes(t) /\ contended' = contended /\ ReceiveWrites(t, o, rl, bl, ls)
    BY <1>0, <1>1, <1>2, <1>3, <1>4, ReceiveIs
  <1>6. /\ o \in DOMAIN orders /\ DOMAIN orders' = DOMAIN orders
        /\ \A p \in DOMAIN orders : p # o => orders'[p] = orders[p]
    BY <1>1, <1>5 DEF Writes
  <1>7. /\ rl \in Seq(Payloads) /\ (\A i \in DOMAIN rl : rl[i].line \in DOMAIN orders[o].lines)
        /\ ls \in Seq(OrderLines) /\ DOMAIN ls = DOMAIN orders[o].lines /\ orders'[o].lines = AddBilled(ls, bl, 1)
    BY <1>5 DEF ReceiveWrites
  <1>8. orders[o].lines \in Seq(OrderLines)
    BY <1>0, <1>6, OrderNow
  <1>9. bl \in Seq(BillLines)
    BY <1>3, <1>6, <1>7, <1>8, ReceiptLinesAre
  <1>10. \A i \in DOMAIN ls : ls[i].billed = orders[o].lines[i].billed
    BY <1>4, <1>7, <1>8, AddReceivedType
  <1>11. DOMAIN orders'[o].lines = DOMAIN ls
         /\ \A i \in DOMAIN ls : orders'[o].lines[i].billed = ls[i].billed + 1 * LastOf(bl, i)
    <2>1. 1 \in Int
      OBVIOUS
    <2>. QED BY <1>7, <1>9, <2>1, AddBilledType
  <1>12. \A i \in DOMAIN orders[o].lines : orders'[o].lines[i].billed = orders[o].lines[i].billed + LastOf(bl, i)
    <2>1. \A i : LastOf(bl, i) \in Nat
      BY <1>9, BillLinesSum
    <2>. QED BY <1>7, <1>10, <1>11, <2>1
  <1>13. PICK b \in BillRows : bills' = Append(bills, b) /\ b.of = o /\ b.type = "standard" /\ b.lines = bl
    BY <1>5 DEF ReceiveWrites
  <1>. QED BY <1>0, <1>5, <1>6, <1>7, <1>9, <1>11, <1>12, <1>13, BilledByNewBill

\* An edit takes back what the bill it has read billed: what the bill still
\* bills, unless another request wrote it.
LEMMA BilledByEdit ==
  ASSUME PurchaseTypeOK, BilledInv, NEW t \in Txns, EditBill(t)
  PROVE  BilledInv'
  <1>1. PICK o : o = tx[t].o
    OBVIOUS
  <1>2. PICK bl : bl = tx[t].arg
    OBVIOUS
  <1>3. PICK b : b = tx[t].b
    OBVIOUS
  <1>4. PICK s : s = tx[t].seen
    OBVIOUS
  <1>5. /\ PurchaseTypeOK' /\ Writes(t) /\ bl \in Seq(BillLines) /\ s.lines \in Seq(BillLines)
        /\ b \in DOMAIN bills /\ bills[b].of = o /\ bills[b].type = "standard"
        /\ DOMAIN bills' = DOMAIN bills /\ (\A c \in DOMAIN bills : c # b => bills'[c] = bills[c])
        /\ bills'[b].of = o /\ bills'[b].type = "standard" /\ bills'[b].lines = bl
        /\ orders'[o] = [orders[o] EXCEPT !.lines = AddBilled(AddBilled(orders[o].lines, s.lines, -1), bl, 1)]
        /\ (contended => contended') /\ (~contended' => bills[b] = s)
    BY <1>1, <1>2, <1>3, <1>4, EditBillIs
  <1>6. /\ o \in DOMAIN orders /\ DOMAIN orders' = DOMAIN orders
        /\ \A p \in DOMAIN orders : p # o => orders'[p] = orders[p]
    BY <1>1, <1>5 DEF Writes
  <1>7. orders[o] \in OrderRows /\ orders[o].lines \in Seq(OrderLines) /\ bills \in Seq(BillRows)
    BY <1>6, OrderNow
  <1>8. bills' \in Seq(BillRows)
    BY <1>5 DEF PurchaseTypeOK, DocumentsOK
  <1> SUFFICES ASSUME ~contended' PROVE \A p \in DOMAIN orders' : LineBilled(orders'[p], bills', p)
    BY DEF BilledInv
  <1>9. bills[b].lines = s.lines /\ \A p \in DOMAIN orders : LineBilled(orders[p], bills, p)
    BY <1>5 DEF BilledInv
  <1> DEFINE m == AddBilled(orders[o].lines, s.lines, -1)
             ls == AddBilled(m, bl, 1)
  <1>10. 1 \in Int /\ -1 \in Int
    OBVIOUS
  <1>11. /\ m \in Seq(OrderLines) /\ DOMAIN m = DOMAIN orders[o].lines
         /\ \A i \in DOMAIN orders[o].lines : m[i].billed = orders[o].lines[i].billed + (-1) * LastOf(s.lines, i)
    BY <1>5, <1>7, <1>10, AddBilledType
  <1> HIDE DEF m
  <1>12. DOMAIN ls = DOMAIN m /\ \A i \in DOMAIN m : ls[i].billed = m[i].billed + 1 * LastOf(bl, i)
    BY <1>5, <1>10, <1>11, AddBilledType
  <1>13. orders'[o].lines = ls
    <2>1. orders'[o] = [orders[o] EXCEPT !.lines = ls]
      BY <1>5 DEF m
    <2> HIDE DEF ls
    <2>. QED BY <1>7, <2>1, OrderRowsAre DEF OrderRec
  <1> HIDE DEF ls
  <1>14. \A p, i : /\ InBills(bills', p, i) = InBills(bills, p, i)
                                             + IF p = o THEN LastOf(bl, i) - LastOf(s.lines, i) ELSE 0
                   /\ InBills(bills, p, i) \in Nat /\ LastOf(bl, i) \in Nat /\ LastOf(s.lines, i) \in Nat
    <2> TAKE p, i
    <2>1. /\ InBills(bills', p, i) = InBills(bills, p, i) + BillsOf(bills', p, i)[b] - BillsOf(bills, p, i)[b]
          /\ InBills(bills, p, i) \in Nat
      <3>1. b \in DOMAIN bills /\ DOMAIN bills' = DOMAIN bills /\ \A c \in DOMAIN bills : c # b => bills'[c] = bills[c]
        BY <1>5
      <3>. QED BY <1>7, <1>8, <3>1, BillChanged
    <2>2. /\ BillsOf(bills', p, i)[b] = IF p = o THEN LastOf(bl, i) ELSE 0
          /\ BillsOf(bills, p, i)[b] = IF p = o THEN LastOf(s.lines, i) ELSE 0
      BY <1>5, <1>9 DEF BillsOf
    <2>3. LastOf(bl, i) \in Nat /\ LastOf(s.lines, i) \in Nat
      BY <1>5, BillLinesSum
    <2>. QED BY <2>1, <2>2, <2>3
  <1>15. LineBilled(orders'[o], bills', o)
    <2>1. SUFFICES ASSUME NEW i \in DOMAIN orders[o].lines
                   PROVE  orders'[o].lines[i].billed = InBills(bills', o, i)
      BY <1>11, <1>12, <1>13 DEF LineBilled
    <2>2. orders[o].lines[i].billed = InBills(bills, o, i)
      BY <1>6, <1>9 DEF LineBilled
    <2>3. orders'[o].lines[i].billed = InBills(bills, o, i) + (-1) * LastOf(s.lines, i) + 1 * LastOf(bl, i)
      BY <1>11, <1>12, <1>13, <2>2
    <2>4. InBills(bills', o, i) = InBills(bills, o, i) + (LastOf(bl, i) - LastOf(s.lines, i))
      BY <1>14
    <2> DEFINE A == InBills(bills, o, i)
               B == LastOf(bl, i)
               C == LastOf(s.lines, i)
    <2>5. A \in Nat /\ B \in Nat /\ C \in Nat
      BY <1>14
    <2>6. A + (-1) * C + 1 * B = A + (B - C)
      <3> HIDE DEF A, B, C
      <3>. QED BY <2>5
    <2>. QED BY <2>3, <2>4, <2>6
  <1>16. \A p \in DOMAIN orders : p # o => LineBilled(orders'[p], bills', p)
    <2> TAKE p \in DOMAIN orders
    <2> HAVE p # o
    <2>1. orders'[p] = orders[p] /\ LineBilled(orders[p], bills, p)
      BY <1>6, <1>9
    <2>2. \A i : InBills(bills', p, i) = InBills(bills, p, i)
      BY <1>14
    <2>. QED BY <2>1, <2>2 DEF LineBilled
  <1>. QED BY <1>6, <1>15, <1>16

\* What is on bills stays when a bill is posted or a note is issued.
LEMMA BilledSame ==
  ASSUME PurchaseTypeOK, BilledInv, contended => contended', UNCHANGED orders,
         \A o, i : InBills(bills', o, i) = InBills(bills, o, i)
  PROVE  BilledInv'
  BY DEF BilledInv, LineBilled

\* approve_and_post writes no line of a bill.
LEMMA BilledByPost ==
  ASSUME StockTypeOK, PurchaseTypeOK, BilledInv, NEW t \in Txns, PostBill(t)
  PROVE  BilledInv'
  <1>1. PICK b : b = tx[t].b
    OBVIOUS
  <1>2. /\ UNCHANGED orders /\ b \in DOMAIN bills
        /\ DOMAIN bills' = DOMAIN bills /\ (\A c \in DOMAIN bills : c # b => bills'[c] = bills[c])
        /\ bills'[b] = [bills[b] EXCEPT !.status = "posted"]
        /\ (contended => contended')
    BY <1>1, PostBillIs
  <1>3. bills[b] \in BillRows
    BY <1>2, RowsOf DEF PurchaseTypeOK, DocumentsOK
  <1>4. bills'[b].of = bills[b].of /\ bills'[b].type = bills[b].type /\ bills'[b].lines = bills[b].lines
    BY <1>2, <1>3 DEF BillRows
  <1>5. \A c \in DOMAIN bills : /\ bills'[c].of = bills[c].of /\ bills'[c].type = bills[c].type
                                /\ bills'[c].lines = bills[c].lines
    BY <1>2, <1>4
  <1>6. \A o, i : InBills(bills', o, i) = InBills(bills, o, i)
    <2> TAKE o, i
    <2>1. BillsOf(bills', o, i) = BillsOf(bills, o, i)
      BY <1>2, <1>5 DEF BillsOf
    <2>. QED BY <1>2, <2>1 DEF InBills
  <1>. QED BY <1>2, <1>6, BilledSame

\* A debit note is not a standard bill and bills nothing.
LEMMA BilledByNote ==
  ASSUME StockTypeOK, PurchaseTypeOK, BilledInv, NEW t \in Txns, DebitNote(t)
  PROVE  BilledInv'
  <1>1. /\ UNCHANGED <<orders, contended>>
        /\ \E note \in BillRows : note.type = "debit_note" /\ bills' = Append(bills, note)
    BY DebitNoteIs
  <1>2. PICK note \in BillRows : note.type = "debit_note" /\ bills' = Append(bills, note)
    BY <1>1
  <1>3. bills \in Seq(BillRows)
    BY OrderNow
  <1>4. \A o, i : InBills(bills', o, i) = InBills(bills, o, i)
    <2> TAKE o, i
    <2>1. /\ InBills(bills', o, i) =
                InBills(bills, o, i) + IF note.of = o /\ note.type = "standard" THEN LastOf(note.lines, i) ELSE 0
          /\ InBills(bills, o, i) \in Nat
      BY <1>2, <1>3, BillAdded
    <2>. QED BY <1>2, <2>1
  <1>. QED BY <1>1, <1>4, BilledSame

\* Every step keeps what lines say is billed on the bills.
LEMMA BilledStep == TypeInv /\ BilledInv /\ [Next]_vars => BilledInv'
  <1> SUFFICES ASSUME TypeInv, BilledInv, [Next]_vars PROVE BilledInv'
    OBVIOUS
  <1>0. StockTypeOK /\ PurchaseTypeOK /\ bills \in Seq(BillRows)
    BY OrderNow DEF TypeInv
  <1>1. CASE UNCHANGED <<receipts, bills, contended>>
             /\ (\/ UNCHANGED orders
                 \/ \E t \in Txns : ConfirmOrder(t) \/ DecideApproval(t) \/ ShortClose(t) \/ ReopenLine(t))
    <2>1. DOMAIN orders' = DOMAIN orders /\ \A o \in DOMAIN orders : SameFigures(orders'[o].lines, orders[o].lines)
      BY <1>0, <1>1, QuietStep
    <2>2. ~contended => \A o \in DOMAIN orders : LineBilled(orders'[o], bills, o)
      BY <2>1, SameBilled DEF BilledInv
    <2>. QED BY <1>1, <2>1, <2>2 DEF BilledInv
  <1>2. CASE CreateOrder
    <2>1. PICK n \in Nat \ {0} :
              /\ n \notin DOMAIN orders /\ DOMAIN orders' = DOMAIN orders \cup {n}
              /\ \A o \in DOMAIN orders : orders'[o] = orders[o]
              /\ orders'[n].status = "draft"
              /\ \A i \in DOMAIN orders'[n].lines :
                   /\ orders'[n].lines[i].received = 0 /\ orders'[n].lines[i].billed = 0
                   /\ ~orders'[n].lines[i].closed /\ orders'[n].lines[i].qty \in Nat \ {0}
      BY <1>0, <1>2, CreateOrderIs
    <2>2. bills' = bills /\ contended' = contended
      BY <1>2 DEF CreateOrder
    <2>3. \A b \in DOMAIN bills : bills[b].of # n
      BY <1>0, <2>1 DEF PurchaseTypeOK, DocumentsOK
    <2>4. \A i : InBills(bills, n, i) = 0
      BY <1>0, <2>3, NoDocument
    <2>5. LineBilled(orders'[n], bills, n)
      BY <2>1, <2>4 DEF LineBilled
    <2>. QED BY <2>1, <2>2, <2>5 DEF BilledInv
  <1>3. ASSUME NEW t \in Txns, UpdateOrder(t) PROVE BilledInv'
    <2>o. PICK o : o = tx[t].o
      OBVIOUS
    <2>a. /\ PurchaseTypeOK' /\ UNCHANGED <<receipts, bills, contended>>
          /\ o \in DOMAIN orders /\ DOMAIN orders' = DOMAIN orders
          /\ \A p \in DOMAIN orders : p # o => orders'[p] = orders[p]
      BY <1>0, <1>3, <2>o, UpdateOrderIs
    <2>b. \A i \in DOMAIN orders'[o].lines : orders'[o].lines[i].billed = 0
      BY <1>0, <1>3, <2>o, UpdateEmpties DEF Emptied
    <2>c. \A b \in DOMAIN bills : bills[b].of = o => \A i \in DOMAIN bills[b].lines : bills[b].lines[i].line = 0
      BY <1>3, <2>o DEF UpdateOrder
    <2>1. /\ PurchaseTypeOK' /\ UNCHANGED <<receipts, bills, contended>>
          /\ o \in DOMAIN orders /\ DOMAIN orders' = DOMAIN orders
          /\ \A p \in DOMAIN orders : p # o => orders'[p] = orders[p]
          /\ \A i \in DOMAIN orders'[o].lines : orders'[o].lines[i].billed = 0
          /\ \A b \in DOMAIN bills : bills[b].of = o => \A i \in DOMAIN bills[b].lines : bills[b].lines[i].line = 0
      BY <2>a, <2>b, <2>c
    <2>2. \A i \in DOMAIN orders'[o].lines : i # 0
      <3>1. orders'[o].lines \in Seq(OrderLines)
        <4>1. orders' \in Seq(OrderRows) /\ o \in DOMAIN orders'
          BY <2>1 DEF PurchaseTypeOK, DocumentsOK
        <4>. QED BY <4>1, RowsOf, OrderParts
      <3>. QED BY <3>1, RowsOf
    <2>3. \A i \in DOMAIN orders'[o].lines : InBills(bills, o, i) = 0
      <3> TAKE i \in DOMAIN orders'[o].lines
      <3>1. \A b \in DOMAIN bills : bills[b].of = o => \A j \in DOMAIN bills[b].lines : bills[b].lines[j].line # i
        BY <2>1, <2>2
      <3>. QED BY <1>0, <3>1, NoDocument
    <2>4. LineBilled(orders'[o], bills, o)
      BY <2>1, <2>3 DEF LineBilled
    <2>. QED BY <2>1, <2>4 DEF BilledInv
  <1>. QED BY <1>0, <1>1, <1>2, <1>3, BilledByRegister, BilledByReceive, BilledByEdit, BilledByPost, BilledByNote, OrderSteps

(***************************************************************************)
(* Approvals.                                                              *)
(***************************************************************************)
\* Above the threshold nothing but an approval opens an order; and no line of
\* an order that is not open is closed.
SoundOrder(x) ==
  /\ x.status \notin Open /\ x.total > Threshold => x.approval = "approved"
  /\ (\E i \in DOMAIN x.lines : x.lines[i].closed) => x.status \notin Open

\* What a request has read forbids it to place an order that is not approved.
RequestSound(r, os) ==
  /\ r.op \in {"short_close", "reopen", "receive"} => os[r.o].status \notin Open
  /\ r.op \in {"update", "confirm"} => r.seen.status = "draft"
  /\ r.op \in {"approve", "reject"} => r.seen.status = "pending_approval"
  /\ r.op = "receive" => r.seen.status \in Receivable

\* Both, as long as no two requests overlapped on one order.
ApprovedInv == ~raced =>
  /\ \A o \in DOMAIN orders : SoundOrder(orders[o])
  /\ \A t \in Txns : tx[t] # Idle => RequestSound(tx[t], orders)

\* A request writes its order.
LEMMA ApprovedByWriter ==
  ASSUME PurchaseTypeOK, ApprovedInv, NEW t \in Txns, Writes(t), NEW o, o = tx[t].o,
         ~raced' => SoundOrder(orders'[o]) /\ (orders[o].status \notin Open => orders'[o].status \notin Open)
  PROVE  ApprovedInv'
  <1>1. /\ o \in DOMAIN orders /\ DOMAIN orders' = DOMAIN orders /\ (\A p \in DOMAIN orders : p # o => orders'[p] = orders[p])
        /\ tx' = [tx EXCEPT ![t] = Idle] /\ (raced => raced') /\ DOMAIN tx = Txns
    BY DEF Writes, PurchaseTypeOK
  <1> SUFFICES ASSUME ~raced'
               PROVE  /\ \A p \in DOMAIN orders : SoundOrder(orders'[p])
                      /\ \A u \in Txns : tx'[u] # Idle => RequestSound(tx'[u], orders')
    BY <1>1 DEF ApprovedInv
  <1>2. /\ \A p \in DOMAIN orders : SoundOrder(orders[p])
        /\ \A u \in Txns : tx[u] # Idle => RequestSound(tx[u], orders)
    BY <1>1 DEF ApprovedInv
  <1>3. \A p \in DOMAIN orders : SoundOrder(orders'[p])
    BY <1>1, <1>2
  <1>4. \A p \in DOMAIN orders : orders[p].status \notin Open => orders'[p].status \notin Open
    BY <1>1
  <1>5. ASSUME NEW u \in Txns, tx'[u] # Idle PROVE RequestSound(tx'[u], orders')
    <2>1. tx'[u] = tx[u] /\ tx[u] # Idle
      BY <1>1, <1>5
    <2>2. tx[u].op \in OfOrders => tx[u].o \in DOMAIN orders
      BY <2>1, OpenRequest
    <2>3. RequestSound(tx[u], orders)
      BY <1>2, <2>1
    <2>. QED BY <1>4, <2>1, <2>2, <2>3 DEF RequestSound, OfOrders
  <1>. QED BY <1>3, <1>5

\* A step that writes no order ends at most a request.
LEMMA ApprovedSame ==
  ASSUME PurchaseTypeOK, ApprovedInv, UNCHANGED <<orders, raced>>,
         tx' = tx \/ \E t \in Txns : tx' = [tx EXCEPT ![t] = Idle]
  PROVE  ApprovedInv'
  <1>1. DOMAIN tx = Txns
    BY DEF PurchaseTypeOK
  <1>2. \A u \in Txns : tx'[u] # Idle => tx'[u] = tx[u]
    BY <1>1
  <1>. QED BY <1>1, <1>2 DEF ApprovedInv

\* A request begins.
LEMMA ApprovedByRead ==
  ASSUME PurchaseTypeOK, ApprovedInv, NEW t \in Txns, Reads(t)
  PROVE  ApprovedInv'
  <1>0. DOMAIN tx = Txns /\ \A o \in DOMAIN orders : o # 0
    BY OrderNow DEF PurchaseTypeOK
  <1>1. UNCHANGED <<orders, raced>>
    BY ReadsAre
  <1>2. ASSUME ~raced
        PROVE  \E r : tx' = [tx EXCEPT ![t] = r] /\ RequestSound(r, orders)
    <2>0. \A o \in DOMAIN orders : SoundOrder(orders[o])
      BY <1>2 DEF ApprovedInv
    <2>1. ASSUME NEW o \in DOMAIN orders, ReadUpdate(t, o) \/ ReadConfirm(t, o)
          PROVE  \E r : tx' = [tx EXCEPT ![t] = r] /\ RequestSound(r, orders)
      <3>1. PICK op, arg :
              op \in {"update", "confirm"} /\ tx' = [tx EXCEPT ![t] = Request(op, o, 0, arg)] /\ orders[o].status = "draft"
        BY <2>1 DEF ReadUpdate, ReadConfirm, Begin
      <3>2. RequestSound(Request(op, o, 0, arg), orders)
        BY <1>0, <3>1 DEF RequestSound, Request
      <3>. QED BY <3>1, <3>2
    <2>2. ASSUME NEW o \in DOMAIN orders, ReadApproval(t, o)
          PROVE  \E r : tx' = [tx EXCEPT ![t] = r] /\ RequestSound(r, orders)
      <3>1. PICK op \in {"approve", "reject"} :
              tx' = [tx EXCEPT ![t] = Request(op, o, 0, None)] /\ orders[o].status = "pending_approval"
        BY <2>2 DEF ReadApproval, Begin
      <3>2. RequestSound(Request(op, o, 0, None), orders)
        BY <1>0, <3>1 DEF RequestSound, Request
      <3>. QED BY <3>1, <3>2
    <2>3. ASSUME NEW o \in DOMAIN orders, ReadShortClose(t, o) \/ ReadReopen(t, o)
          PROVE  \E r : tx' = [tx EXCEPT ![t] = r] /\ RequestSound(r, orders)
      <3>1. PICK op, arg :
              op \in {"short_close", "reopen"} /\ tx' = [tx EXCEPT ![t] = Request(op, o, 0, arg)]
              /\ (orders[o].status \in Receivable \/ \E i \in DOMAIN orders[o].lines : orders[o].lines[i].closed)
        BY <2>3 DEF ReadShortClose, ReadReopen, Begin
      <3>2. orders[o].status \notin Open
        BY <2>0, <3>1 DEF SoundOrder, Receivable, Open
      <3>3. RequestSound(Request(op, o, 0, arg), orders)
        BY <3>1, <3>2 DEF RequestSound, Request
      <3>. QED BY <3>1, <3>3
    <2>4. ASSUME NEW o \in DOMAIN orders, ReadReceive(t, o)
          PROVE  \E r : tx' = [tx EXCEPT ![t] = r] /\ RequestSound(r, orders)
      <3>1. PICK arg : tx' = [tx EXCEPT ![t] = Request("receive", o, 0, arg)] /\ orders[o].status \in Receivable
        BY <2>4 DEF ReadReceive, Begin
      <3>2. RequestSound(Request("receive", o, 0, arg), orders)
        BY <1>0, <3>1 DEF RequestSound, Request, Receivable, Open
      <3>. QED BY <3>1, <3>2
    <2>5. ASSUME \/ \E o \in DOMAIN orders : ReadBill(t, o)
                 \/ \E b \in DOMAIN bills : ReadEditBill(t, b) \/ ReadPostBill(t, b) \/ ReadDebitNote(t, b)
                 \/ ReadReturn(t)
          PROVE  \E r : tx' = [tx EXCEPT ![t] = r] /\ RequestSound(r, orders)
      <3>0. ASSUME NEW op \in {"bill", "edit_bill", "post_bill", "debit"}, NEW o, NEW b, NEW arg, Begin(t, op, o, b, arg)
            PROVE  \E r : tx' = [tx EXCEPT ![t] = r] /\ RequestSound(r, orders)
        <4>1. tx' = [tx EXCEPT ![t] = Request(op, o, b, arg)]
          BY <3>0 DEF Begin
        <4>2. RequestSound(Request(op, o, b, arg), orders)
          BY DEF RequestSound, Request
        <4>. QED BY <4>1, <4>2
      <3>1. ASSUME NEW o \in DOMAIN orders, ReadBill(t, o) PROVE \E arg : Begin(t, "bill", o, 0, arg)
        BY <3>1 DEF ReadBill
      <3>2. ASSUME NEW b \in DOMAIN bills, ReadEditBill(t, b) PROVE \E arg : Begin(t, "edit_bill", bills[b].of, b, arg)
        BY <3>2 DEF ReadEditBill
      <3>3. ASSUME NEW b \in DOMAIN bills, ReadPostBill(t, b) PROVE \E arg : Begin(t, "post_bill", bills[b].of, b, arg)
        BY <3>3 DEF ReadPostBill
      <3>4. ASSUME NEW b \in DOMAIN bills, ReadDebitNote(t, b) PROVE \E arg : Begin(t, "debit", bills[b].of, b, arg)
        BY <3>4 DEF ReadDebitNote
      <3>5. ASSUME ReadReturn(t) PROVE \E b, arg : Begin(t, "debit", 0, b, arg)
        BY <3>5 DEF ReadReturn
      <3>6. \E op \in {"bill", "edit_bill", "post_bill", "debit"} : \E o, b, arg : Begin(t, op, o, b, arg)
          BY <2>5, <3>1, <3>2, <3>3, <3>4, <3>5
      <3>. QED BY <3>0, <3>6
    <2>. QED BY <2>1, <2>2, <2>3, <2>4, <2>5 DEF Reads
  <1> SUFFICES ASSUME ~raced
               PROVE  /\ \A p \in DOMAIN orders : SoundOrder(orders[p])
                      /\ \A u \in Txns : tx'[u] # Idle => RequestSound(tx'[u], orders)
    BY <1>1 DEF ApprovedInv
  <1>3. /\ \A p \in DOMAIN orders : SoundOrder(orders[p])
        /\ \A u \in Txns : tx[u] # Idle => RequestSound(tx[u], orders)
    BY DEF ApprovedInv
  <1>4. PICK r : tx' = [tx EXCEPT ![t] = r] /\ RequestSound(r, orders)
    BY <1>2
  <1>. QED BY <1>0, <1>3, <1>4

\* What a request that has read an order of this status meets
LEMMA ReadBefore ==
  ASSUME ApprovedInv, NEW t \in Txns, tx[t] # Idle, NEW o, o = tx[t].o, o \in DOMAIN orders, ~raced
  PROVE  SoundOrder(orders[o]) /\ RequestSound(tx[t], orders)
  BY DEF ApprovedInv

\* The requests that write the order alone place only approved orders.
LEMMA ApprovedByOrderOnly ==
  ASSUME PurchaseTypeOK, ApprovedInv, NEW t \in Txns,
         UpdateOrder(t) \/ ConfirmOrder(t) \/ DecideApproval(t) \/ ShortClose(t) \/ ReopenLine(t)
  PROVE  ApprovedInv'
  <1>1. PICK o : o = tx[t].o
    OBVIOUS
  <1>2. CASE UpdateOrder(t)
    <2>1. tx[t] # Idle /\ tx[t].op = "update"
      BY <1>2 DEF UpdateOrder
    <2>2. /\ tx' = [tx EXCEPT ![t] = Idle] /\ (raced => raced')
          /\ o \in DOMAIN orders /\ DOMAIN orders' = DOMAIN orders /\ o \in Nat \ {0}
          /\ \A p \in DOMAIN orders : p # o => orders'[p] = orders[p]
      BY <1>1, <1>2, UpdateOrderIs
    <2>3. /\ orders'[o].status = orders[o].status
          /\ \A i \in DOMAIN orders'[o].lines : ~orders'[o].lines[i].closed
          /\ ~raced' => orders[o] = tx[t].seen
      BY <1>1, <1>2, UpdateOrderIs
    <2>4. Writes(t)
      BY <1>1, <2>1, <2>2, <2>3 DEF Writes
    <2>5. ~raced' => orders[o].status = "draft"
      BY <1>1, <2>1, <2>2, <2>3, ReadBefore DEF RequestSound
    <2>6. ~raced' => SoundOrder(orders'[o]) /\ (orders[o].status \notin Open => orders'[o].status \notin Open)
      BY <2>3, <2>5 DEF SoundOrder, Open
    <2>. QED BY <1>1, <2>4, <2>6, ApprovedByWriter
  <1>3. CASE ConfirmOrder(t)
    <2>1. /\ Writes(t) /\ tx[t].op = "confirm"
          /\ orders'[o].lines = orders[o].lines /\ orders'[o].total = orders[o].total
          /\ orders'[o].status # "pending_approval" => tx[t].seen.total <= Threshold
      BY <1>1, <1>3, ConfirmOrderIs
    <2>2. /\ tx[t] # Idle /\ o \in DOMAIN orders /\ (raced => raced') /\ (~raced' => orders[o] = tx[t].seen)
      BY <1>1, <2>1 DEF Writes
    <2>3. ~raced' => SoundOrder(orders[o]) /\ orders[o].status = "draft"
      BY <1>1, <2>1, <2>2, ReadBefore DEF RequestSound
    <2>4. tx[t].seen.total \in Int /\ Threshold \in Int
      <3>1. tx[t].seen \in OrderRows
        BY <2>1, <2>2, OpenRequest DEF OfOrders
      <3>. QED BY <3>1, OrderParts, PurchasingAssumption
    <2>5. ~raced' => /\ orders'[o].status # "pending_approval" => ~(orders'[o].total > Threshold)
                     /\ ~ \E i \in DOMAIN orders'[o].lines : orders'[o].lines[i].closed
      BY <2>1, <2>2, <2>3, <2>4 DEF SoundOrder, Open
    <2>6. ~raced' => SoundOrder(orders'[o]) /\ (orders[o].status \notin Open => orders'[o].status \notin Open)
      BY <2>3, <2>5 DEF SoundOrder, Open
    <2>. QED BY <1>1, <2>1, <2>6, ApprovedByWriter
  <1>4. CASE DecideApproval(t)
    <2>1. /\ Writes(t) /\ tx[t].op \in {"approve", "reject"}
          /\ orders'[o].lines = orders[o].lines
          /\ orders'[o].status \notin Open => orders'[o].approval = "approved"
      BY <1>1, <1>4, DecideApprovalIs
    <2>2. /\ tx[t] # Idle /\ o \in DOMAIN orders /\ (raced => raced') /\ (~raced' => orders[o] = tx[t].seen)
      BY <1>1, <2>1 DEF Writes
    <2>3. ~raced' => SoundOrder(orders[o]) /\ orders[o].status = "pending_approval"
      BY <1>1, <2>1, <2>2, ReadBefore DEF RequestSound
    <2>4. ~raced' => SoundOrder(orders'[o]) /\ (orders[o].status \notin Open => orders'[o].status \notin Open)
      BY <2>1, <2>3 DEF SoundOrder, Open
    <2>. QED BY <1>1, <2>1, <2>4, ApprovedByWriter
  <1>5. CASE ShortClose(t)
    <2>1. /\ Writes(t) /\ tx[t].op = "short_close"
          /\ orders'[o].total = orders[o].total /\ orders'[o].approval = orders[o].approval
          /\ orders'[o].status = "closed"
      BY <1>1, <1>5, ShortCloseIs
    <2>2. tx[t] # Idle /\ o \in DOMAIN orders /\ (raced => raced')
      BY <1>1, <2>1 DEF Writes
    <2>3. ~raced' => SoundOrder(orders[o]) /\ orders[o].status \notin Open
      BY <1>1, <2>1, <2>2, ReadBefore DEF RequestSound
    <2>4. ~raced' => SoundOrder(orders'[o]) /\ (orders[o].status \notin Open => orders'[o].status \notin Open)
      BY <2>1, <2>3 DEF SoundOrder, Open
    <2>. QED BY <1>1, <2>1, <2>4, ApprovedByWriter
  <1>6. CASE ReopenLine(t)
    <2>1. /\ Writes(t) /\ tx[t].op = "reopen"
          /\ orders'[o].total = orders[o].total /\ orders'[o].approval = orders[o].approval
          /\ orders'[o].status = orders[o].status \/ orders'[o].status \in {"partially_received", "confirmed"}
      BY <1>1, <1>6, ReopenLineIs
    <2>2. tx[t] # Idle /\ o \in DOMAIN orders /\ (raced => raced')
      BY <1>1, <2>1 DEF Writes
    <2>3. ~raced' => SoundOrder(orders[o]) /\ orders[o].status \notin Open
      BY <1>1, <2>1, <2>2, ReadBefore DEF RequestSound
    <2>4. ~raced' => SoundOrder(orders'[o]) /\ (orders[o].status \notin Open => orders'[o].status \notin Open)
      BY <2>1, <2>3 DEF SoundOrder, Open
    <2>. QED BY <1>1, <2>1, <2>4, ApprovedByWriter
  <1>. QED BY <1>2, <1>3, <1>4, <1>5, <1>6

\* Bills leave everything of an order but what it says is billed.
LEMMA ApprovedByBill ==
  ASSUME PurchaseTypeOK, ApprovedInv, NEW t \in Txns, RegisterBill(t) \/ EditBill(t)
  PROVE  ApprovedInv'
  <1>1. PICK o : o = tx[t].o
    OBVIOUS
  <1>2. Writes(t)
    BY RegisterBillIs, EditBillIs
  <1>3. tx[t] # Idle /\ o \in DOMAIN orders /\ (raced => raced')
    BY <1>1, <1>2 DEF Writes
  <1>4. orders[o] \in OrderRows /\ orders[o].lines \in Seq(OrderLines)
    BY <1>3, OrderNow
  <1>5. 1 \in Int /\ -1 \in Int
    OBVIOUS
  <1>6. PICK ls : /\ orders'[o] = [orders[o] EXCEPT !.lines = ls]
                  /\ DOMAIN ls = DOMAIN orders[o].lines
                  /\ \A i \in DOMAIN ls : ls[i].closed = orders[o].lines[i].closed
    <2>1. CASE RegisterBill(t)
      <3>1. PICK bl : bl = tx[t].arg
        OBVIOUS
      <3>2. bl \in Seq(BillLines) /\ orders'[o] = [orders[o] EXCEPT !.lines = AddBilled(orders[o].lines, bl, 1)]
        BY <1>1, <2>1, <3>1, RegisterBillIs
      <3> DEFINE l == AddBilled(orders[o].lines, bl, 1)
      <3>3. DOMAIN l = DOMAIN orders[o].lines /\ \A i \in DOMAIN l : l[i].closed = orders[o].lines[i].closed
        BY <1>4, <1>5, <3>2, AddBilledType
      <3>4. orders'[o] = [orders[o] EXCEPT !.lines = l]
        BY <3>2
      <3> HIDE DEF l
      <3>. QED BY <3>3, <3>4
    <2>2. CASE EditBill(t)
      <3>1. PICK bl : bl = tx[t].arg
        OBVIOUS
      <3>2. PICK s : s = tx[t].seen
        OBVIOUS
      <3> DEFINE m == AddBilled(orders[o].lines, s.lines, -1)
                 l == AddBilled(m, bl, 1)
      <3>3. bl \in Seq(BillLines) /\ s.lines \in Seq(BillLines) /\ orders'[o] = [orders[o] EXCEPT !.lines = l]
        BY <1>1, <2>2, <3>1, <3>2, EditBillIs
      <3>4. m \in Seq(OrderLines) /\ DOMAIN m = DOMAIN orders[o].lines
            /\ \A i \in DOMAIN m : m[i].closed = orders[o].lines[i].closed
        BY <1>4, <1>5, <3>3, AddBilledType
      <3> HIDE DEF m
      <3>5. DOMAIN l = DOMAIN m /\ \A i \in DOMAIN m : l[i].closed = m[i].closed
        BY <1>5, <3>3, <3>4, AddBilledType
      <3>6. DOMAIN l = DOMAIN orders[o].lines /\ \A i \in DOMAIN l : l[i].closed = orders[o].lines[i].closed
        <4> HIDE DEF l
        <4>. QED BY <3>4, <3>5
      <3>7. orders'[o] = [orders[o] EXCEPT !.lines = l]
        BY <3>3
      <3> HIDE DEF l
      <3>. QED BY <3>6, <3>7
    <2>. QED BY <2>1, <2>2
  <1>7. /\ orders'[o].status = orders[o].status /\ orders'[o].total = orders[o].total
        /\ orders'[o].approval = orders[o].approval /\ orders'[o].lines = ls
    BY <1>4, <1>6, OrderRowsAre DEF OrderRec
  <1>8. ~raced' => SoundOrder(orders[o])
    BY <1>1, <1>3, ReadBefore
  <1>9. ~raced' => SoundOrder(orders'[o]) /\ (orders[o].status \notin Open => orders'[o].status \notin Open)
    BY <1>6, <1>7, <1>8 DEF SoundOrder
  <1>. QED BY <1>1, <1>2, <1>9, ApprovedByWriter

\* A receipt of an order that was placed leaves it placed.
LEMMA ApprovedByReceive ==
  ASSUME TypeInv, ApprovedInv, NEW t \in Txns, Receive(t)
  PROVE  ApprovedInv'
  <1>0. StockTypeOK /\ PurchaseTypeOK
    BY DEF TypeInv
  <1>1. PICK o : o = tx[t].o
    OBVIOUS
  <1>2. PICK rl : rl = tx[t].arg
    OBVIOUS
  <1>3. PICK bl : bl = ReceiptLines(o, rl)
    OBVIOUS
  <1>4. PICK ls : ls = AddReceived(orders[o].lines, rl)
    OBVIOUS
  <1>5. Writes(t) /\ ReceiveWrites(t, o, rl, bl, ls)
    BY <1>0, <1>1, <1>2, <1>3, <1>4, ReceiveIs
  <1>6. tx[t] # Idle /\ o \in DOMAIN orders /\ (raced => raced')
    BY <1>1, <1>5 DEF Writes
  <1>7. /\ tx[t].op = "receive"
        /\ orders'[o].status = Written(tx[t].seen.status, StatusAfter(tx[t].seen.status, ls), orders[o].status)
        /\ orders'[o].total = orders[o].total /\ orders'[o].approval = orders[o].approval
    BY <1>5 DEF ReceiveWrites
  <1>8. ~raced' => SoundOrder(orders[o]) /\ orders[o].status \notin Open /\ tx[t].seen.status \in Receivable
    BY <1>1, <1>6, <1>7, ReadBefore DEF RequestSound
  <1>9. ~raced' => orders'[o].status \notin Open
    BY <1>7, <1>8 DEF Written, StatusAfter, Receivable, Open
  <1>10. ~raced' => SoundOrder(orders'[o]) /\ (orders[o].status \notin Open => orders'[o].status \notin Open)
    BY <1>7, <1>8, <1>9 DEF SoundOrder
  <1>. QED BY <1>0, <1>1, <1>5, <1>10, ApprovedByWriter

\* Every step keeps approvals sound.
LEMMA ApprovedStep == TypeInv /\ ApprovedInv /\ [Next]_vars => ApprovedInv'
  <1> SUFFICES ASSUME TypeInv, ApprovedInv, [Next]_vars PROVE ApprovedInv'
    OBVIOUS
  <1>0. StockTypeOK /\ PurchaseTypeOK
    BY DEF TypeInv
  <1>1. CASE StockNext /\ UNCHANGED purchaseVars
    BY <1>0, <1>1, ApprovedSame DEF purchaseVars
  <1>2. CASE UNCHANGED vars
    BY <1>0, <1>2, ApprovedSame DEF vars, purchaseVars
  <1>3. CASE CreateOrder
    <2>1. PICK n \in Nat \ {0} :
              /\ n \notin DOMAIN orders /\ DOMAIN orders' = DOMAIN orders \cup {n}
              /\ \A o \in DOMAIN orders : orders'[o] = orders[o]
              /\ orders'[n].status = "draft"
              /\ \A i \in DOMAIN orders'[n].lines :
                   /\ orders'[n].lines[i].received = 0 /\ orders'[n].lines[i].billed = 0
                   /\ ~orders'[n].lines[i].closed /\ orders'[n].lines[i].qty \in Nat \ {0}
      BY <1>0, <1>3, CreateOrderIs
    <2>2. UNCHANGED <<tx, raced>>
      BY <1>3 DEF CreateOrder
    <2>3. SoundOrder(orders'[n])
      BY <2>1 DEF SoundOrder, Open
    <2>4. ~raced => \A u \in Txns : tx[u] # Idle => RequestSound(tx[u], orders')
      <3> SUFFICES ASSUME ~raced, NEW u \in Txns, tx[u] # Idle PROVE RequestSound(tx[u], orders')
        OBVIOUS
      <3>1. RequestSound(tx[u], orders) /\ (tx[u].op \in OfOrders => tx[u].o \in DOMAIN orders)
        BY <1>0, OpenRequest DEF ApprovedInv
      <3>. QED BY <2>1, <3>1 DEF RequestSound, OfOrders
    <2>. QED BY <2>1, <2>2, <2>3, <2>4 DEF ApprovedInv
  <1>4. ASSUME NEW t \in Txns, Rollback(t) PROVE ApprovedInv'
    <2>1. UNCHANGED <<orders, raced>> /\ tx' = [tx EXCEPT ![t] = Idle]
      BY <1>0, <1>4, RollbackIs
    <2>. QED BY <1>0, <2>1, ApprovedSame
  <1>5. ASSUME NEW t \in Txns, PostBill(t) \/ DebitNote(t) PROVE ApprovedInv'
    <2>1. UNCHANGED <<orders, raced>> /\ tx' = [tx EXCEPT ![t] = Idle]
      BY <1>5 DEF PostBill, DebitNote, Ends
    <2>. QED BY <1>0, <2>1, ApprovedSame
  <1>. QED BY <1>0, <1>1, <1>2, <1>3, <1>4, <1>5, ApprovedByRead, ApprovedByOrderOnly, ApprovedByBill,
              ApprovedByReceive, NextIs
-----------------------------------------------------------------------------
(***************************************************************************)
(* The theorem.                                                            *)
(***************************************************************************)
\* The inductive invariant. The types are part of it because what a request read
\* is written back later; receipts and bills are there because the lines are
\* compared with them; the approvals need what the requests have read.
OrderInv == TypeInv /\ ReceivedInv /\ BilledInv /\ ApprovedInv

\* It holds at first, since nothing has happened to the orders there are.
LEMMA OrderInit == Init => OrderInv
  <1> SUFFICES ASSUME Init PROVE OrderInv
    OBVIOUS
  <1>1. TypeInv
    BY TypeOfInit
  <1>2. PICK d \in Openings : orders = d.orders
    BY DEF Init
  <1>3. receipts = <<>> /\ bills = <<>> /\ tx = [t \in Txns |-> Idle]
    BY DEF Init
  <1>4. \A o \in DOMAIN orders : Untouched(orders[o])
    BY <1>2, OpeningsAssumption
  <1>5. \A o, i : InReceipts(receipts, o, i) = 0 /\ InBills(bills, o, i) = 0
    <2>1. PurchaseTypeOK /\ receipts \in Seq(ReceiptRows) /\ bills \in Seq(BillRows)
      BY <1>1, OrderNow DEF TypeInv
    <2>2. DOMAIN receipts = {} /\ DOMAIN bills = {}
      BY <1>3
    <2>. QED BY <2>1, <2>2, NoDocument
  <1>6. \A o \in DOMAIN orders : \A i \in DOMAIN orders[o].lines : orders[o].lines[i].qty \in Nat \ {0}
    <2>1. \A o \in DOMAIN orders : orders[o].lines \in Seq(OrderLines)
      BY <1>1, OrderNow DEF TypeInv
    <2>. QED BY <2>1, LineParts
  <1>7. ReceivedInv
    BY <1>4, <1>5, <1>6 DEF ReceivedInv, LineReceived, Untouched
  <1>8. BilledInv
    BY <1>4, <1>5 DEF BilledInv, LineBilled, Untouched
  <1>9. ApprovedInv
    <2>1. \A o \in DOMAIN orders : SoundOrder(orders[o])
      BY <1>4 DEF SoundOrder, Untouched, Open
    <2>2. \A t \in Txns : tx[t] = Idle
      BY <1>3
    <2>. QED BY <2>1, <2>2 DEF ApprovedInv
  <1>. QED BY <1>1, <1>7, <1>8, <1>9 DEF OrderInv

\* It implies the invariant that TLC checks.
LEMMA OrderHonest == OrderInv => OrdersAreHonest
  <1> SUFFICES ASSUME OrderInv PROVE OrdersAreHonest
    OBVIOUS
  <1>1. StockTypeOK /\ ReceivedInv /\ BilledInv /\ ApprovedInv
    BY DEF OrderInv, TypeInv
  <1>2. \A o \in DOMAIN orders : \A i \in DOMAIN orders[o].lines :
          /\ orders[o].lines[i].received <= orders[o].lines[i].qty
          /\ orders[o].status = "done" => orders[o].lines[i].received = orders[o].lines[i].qty
          /\ ReceivedOnce(o) => orders[o].lines[i].received = OnReceipts(o, i)
          /\ ~contended /\ BilledOnce(o) => orders[o].lines[i].billed = OnBills(o, i, LAMBDA b : TRUE)
    <2>1. receipts \in Seq(ReceiptRows) /\ bills \in Seq(BillRows)
      BY OrderNow DEF OrderInv, TypeInv
    <2>. QED BY <1>1, <2>1, OnDocuments DEF ReceivedInv, LineReceived, BilledInv, LineBilled
  <1>3. ~raced => \A o \in DOMAIN orders :
          orders[o].status \notin {"draft", "pending_approval"} /\ orders[o].total > Threshold
            => orders[o].approval = "approved"
    BY <1>1 DEF ApprovedInv, SoundOrder, Open
  <1>. QED BY <1>1, <1>2, <1>3 DEF OrdersAreHonest

\* However the requests of purchasing overlap: the lines of an order never say
\* that more was received than was ordered, and an order is done only when they
\* say that everything was; where receipts and bills name a line once, what lines
\* say was received and billed is what these add up to; and above the threshold
\* nothing is received without an approval.
THEOREM OrdersHonest == Spec => []OrdersAreHonest
  <1>1. Init => OrderInv
    BY OrderInit
  <1>2. OrderInv /\ [Next]_vars => OrderInv'
    BY TypeOfNext, ReceivedStep, BilledStep, ApprovedStep DEF OrderInv
  <1>3. OrderInv => OrdersAreHonest
    BY OrderHonest
  <1>. QED BY <1>1, <1>2, <1>3, PTL DEF Spec

-----------------------------------------------------------------------------
(***************************************************************************)
(* What the cardex of a product shows.                                     *)
(***************************************************************************)
\* A sum over some of a set: the others count nothing.
LEMMA SumOfSome ==
  ASSUME NEW S, IsFiniteSet(S), NEW T \in SUBSET S, NEW f, NEW g,
         \A x \in T : g[x] = f[x] /\ f[x] \in Int, \A x \in S \ T : g[x] = 0
  PROVE  SumFunctionOnSet(f, T) = SumFunctionOnSet(g, S)
  <1>1. IsFiniteSet(T) /\ \A x \in S : g[x] \in Int
    BY FS_Subset
  <1>2. SumFunctionOnSet(g, S) = SumFunctionOnSet(g, T)
    BY <1>1, SumBeyond
  <1>. QED BY <1>1, <1>2, SumOfSame

\* What the moves ms moved of p, and at one warehouse, as functions of the move
MovedOf(ms, p) == [j \in DOMAIN ms |-> IF ms[j].product = p THEN ms[j].qty ELSE 0]
MovedAt(ms, p, w) == [j \in DOMAIN ms |-> IF ms[j].product = p /\ ms[j].at = w THEN ms[j].qty ELSE 0]

\* What was there after the first i of them
After(ms, p, i) == SumFunctionOnSet(MovedOf(ms, p), 1 .. i)
AfterAt(ms, p, w, i) == SumFunctionOnSet(MovedAt(ms, p, w), 1 .. i)

\* Moves are numbers of units.
LEMMA MovedType ==
  ASSUME NEW ms \in Seq(MoveRows), NEW p, NEW w
  PROVE  /\ DOMAIN ms = 1 .. Len(ms) /\ Len(ms) \in Nat
         /\ \A j \in 1 .. Len(ms) : ms[j] \in MoveRows /\ MovedOf(ms, p)[j] \in Int /\ MovedAt(ms, p, w)[j] \in Int
         /\ \A i \in 0 .. Len(ms) : After(ms, p, i) \in Int /\ AfterAt(ms, p, w, i) \in Int
  <1>1. DOMAIN ms = 1 .. Len(ms) /\ Len(ms) \in Nat
    BY LenProperties
  <1>2. \A j \in 1 .. Len(ms) : ms[j] \in MoveRows /\ ms[j].qty \in Int
    <2>1. \A j \in 1 .. Len(ms) : ms[j] \in MoveRows
      BY ElementOfSeq
    <2>. QED BY <2>1 DEF MoveRows
  <1>3. \A j \in 1 .. Len(ms) : MovedOf(ms, p)[j] \in Int /\ MovedAt(ms, p, w)[j] \in Int
    BY <1>1, <1>2 DEF MovedOf, MovedAt
  <1>4. \A i \in 0 .. Len(ms) : After(ms, p, i) \in Int /\ AfterAt(ms, p, w, i) \in Int
    <2> TAKE i \in 0 .. Len(ms)
    <2>1. IsFiniteSet(1 .. i) /\ 1 .. i \subseteq 1 .. Len(ms)
      BY <1>1, FS_Interval
    <2>2. \A j \in 1 .. i : MovedOf(ms, p)[j] \in Int /\ MovedAt(ms, p, w)[j] \in Int
      BY <1>3, <2>1
    <2>. QED BY <2>1, <2>2, SumOfIntegers DEF After, AfterAt
  <1>. QED BY <1>1, <1>2, <1>3, <1>4

\* One move more
LEMMA MovesLonger ==
  ASSUME NEW ms \in Seq(MoveRows), NEW m \in MoveRows
  PROVE  /\ Append(ms, m) \in Seq(MoveRows) /\ Len(Append(ms, m)) = Len(ms) + 1
         /\ Append(ms, m)[Len(ms) + 1] = m
         /\ \A j \in 1 .. Len(ms) : Append(ms, m)[j] = ms[j]
  BY AppendProperties

\* moves so much more.
LEMMA MoveAdded ==
  ASSUME NEW ms \in Seq(MoveRows), NEW m \in MoveRows, NEW p, NEW w
  PROVE  /\ \A i \in 0 .. Len(ms) : /\ After(Append(ms, m), p, i) = After(ms, p, i)
                                    /\ AfterAt(Append(ms, m), p, w, i) = AfterAt(ms, p, w, i)
         /\ After(Append(ms, m), p, Len(ms) + 1) = After(ms, p, Len(ms)) + IF m.product = p THEN m.qty ELSE 0
         /\ AfterAt(Append(ms, m), p, w, Len(ms) + 1)
              = AfterAt(ms, p, w, Len(ms)) + IF m.product = p /\ m.at = w THEN m.qty ELSE 0
  <1> DEFINE ns == Append(ms, m)
             n == Len(ms)
             f == MovedOf(ms, p)
             g == MovedOf(ns, p)
             fa == MovedAt(ms, p, w)
             ga == MovedAt(ns, p, w)
  <1>1. DOMAIN ms = 1 .. n /\ n \in Nat /\ \A j \in 1 .. n : f[j] \in Int /\ fa[j] \in Int
    BY MovedType
  <1>2. /\ ns \in Seq(MoveRows) /\ Len(ns) = n + 1 /\ ns[n + 1] = m
        /\ \A j \in 1 .. n : ns[j] = ms[j]
    BY MovesLonger
  <1>3. DOMAIN ns = 1 .. n + 1 /\ m.qty \in Int
    BY <1>2, LenProperties DEF MoveRows
  <1> HIDE DEF ns, n
  <1>4. /\ \A j \in 1 .. n : g[j] = f[j] /\ ga[j] = fa[j]
        /\ g[n + 1] = (IF m.product = p THEN m.qty ELSE 0)
        /\ ga[n + 1] = (IF m.product = p /\ m.at = w THEN m.qty ELSE 0)
    BY <1>1, <1>2, <1>3 DEF MovedOf, MovedAt
  <1>5. g[n + 1] \in Int /\ ga[n + 1] \in Int
    BY <1>3, <1>4
  <1> HIDE DEF f, g, fa, ga
  <1>6. \A i \in 0 .. n : SumFunctionOnSet(g, 1 .. i) = SumFunctionOnSet(f, 1 .. i)
                          /\ SumFunctionOnSet(ga, 1 .. i) = SumFunctionOnSet(fa, 1 .. i)
    <2> TAKE i \in 0 .. n
    <2>1. IsFiniteSet(1 .. i) /\ 1 .. i \subseteq 1 .. n
      BY <1>1, FS_Interval
    <2>. QED BY <1>4, <2>1, SumOfSame
  <1>7. /\ SumFunctionOnSet(g, 1 .. n + 1) = SumFunctionOnSet(f, 1 .. n) + g[n + 1]
        /\ SumFunctionOnSet(ga, 1 .. n + 1) = SumFunctionOnSet(fa, 1 .. n) + ga[n + 1]
    <2> DEFINE N == 1 .. n
    <2>0. IsFiniteSet(N) /\ n + 1 \notin N
      BY <1>1, FS_Interval
    <2>1. N \cup {n + 1} = 1 .. n + 1
      BY <1>1
    <2>a. \A j \in N : f[j] \in Int /\ g[j] = f[j]
      BY <1>1, <1>4
    <2>b. \A j \in N : fa[j] \in Int /\ ga[j] = fa[j]
      BY <1>1, <1>4
    <2> HIDE DEF N
    <2>2. SumFunctionOnSet(g, N \cup {n + 1}) = SumFunctionOnSet(f, N) + g[n + 1]
      <3>1. PICK x : x = n + 1
        OBVIOUS
      <3>2. g[x] \in Int /\ x \notin N /\ \A y \in N : f[y] \in Int /\ g[y] = f[y]
        BY <1>5, <2>0, <2>a, <3>1
      <3>3. IsFiniteSet(N)
        BY <2>0
      <3>4. SumFunctionOnSet(g, N \cup {x}) = SumFunctionOnSet(f, N) + g[x]
        BY <3>2, <3>3, SumAppended, ZenonT(30)
      <3>. QED BY <3>1, <3>4
    <2>3. SumFunctionOnSet(ga, N \cup {n + 1}) = SumFunctionOnSet(fa, N) + ga[n + 1]
      <3>1. PICK x : x = n + 1
        OBVIOUS
      <3>2. ga[x] \in Int /\ x \notin N /\ \A y \in N : fa[y] \in Int /\ ga[y] = fa[y]
        BY <1>5, <2>0, <2>b, <3>1
      <3>3. IsFiniteSet(N)
        BY <2>0
      <3>4. SumFunctionOnSet(ga, N \cup {x}) = SumFunctionOnSet(fa, N) + ga[x]
        BY <3>2, <3>3, SumAppended, ZenonT(30)
      <3>. QED BY <3>1, <3>4
    <2>. QED BY <2>1, <2>2, <2>3 DEF N
  <1>8. \A i \in 0 .. n : After(ns, p, i) = After(ms, p, i) /\ AfterAt(ns, p, w, i) = AfterAt(ms, p, w, i)
    BY <1>6 DEF After, AfterAt, f, g, fa, ga
  <1>9. /\ After(ns, p, n + 1) = After(ms, p, n) + IF m.product = p THEN m.qty ELSE 0
        /\ AfterAt(ns, p, w, n + 1) = AfterAt(ms, p, w, n) + IF m.product = p /\ m.at = w THEN m.qty ELSE 0
    <2>1. /\ After(ns, p, n + 1) = After(ms, p, n) + g[n + 1]
          /\ AfterAt(ns, p, w, n + 1) = AfterAt(ms, p, w, n) + ga[n + 1]
      BY <1>7 DEF After, AfterAt, f, g, fa, ga
    <2>. QED BY <2>1, <1>4
  <1>. QED BY <1>8, <1>9 DEF ns, n

\* Was there ever less than nothing of p at w?
Below(ms, p, w) == \E i \in DOMAIN ms : AfterAt(ms, p, w, i) < 0

\* The deliveries that took p to its reorder point or below
CrossingsIn(ms, p) == {i \in DOMAIN ms :
  /\ ms[i].product = p /\ ms[i].type = "delivery"
  /\ After(ms, p, i - 1) > ReorderPoint[p] /\ ReorderPoint[p] >= After(ms, p, i)}

\* A balance has been below zero after a move more, if it had been before or
\* is so by that move.
LEMMA BelowAdded ==
  ASSUME NEW ms \in Seq(MoveRows), NEW m \in MoveRows, NEW p, NEW w
  PROVE  Below(Append(ms, m), p, w)
           <=> Below(ms, p, w) \/ AfterAt(Append(ms, m), p, w, Len(ms) + 1) < 0
  <1> DEFINE ns == Append(ms, m)
             n == Len(ms)
  <1>1. DOMAIN ms = 1 .. n /\ n \in Nat
    BY MovedType
  <1>2. ns \in Seq(MoveRows) /\ Len(ns) = n + 1 /\ \A i \in 0 .. n : AfterAt(ns, p, w, i) = AfterAt(ms, p, w, i)
    BY MovesLonger, MoveAdded
  <1>3. DOMAIN ns = 1 .. n + 1
    BY <1>2, MovedType
  <1> HIDE DEF ns, n
  <1>4. \A i : i \in 1 .. n + 1 <=> i \in 1 .. n \/ i = n + 1
    BY <1>1
  <1>5. 1 .. n \subseteq 0 .. n
    BY <1>1
  <1>6. Below(ns, p, w) <=> Below(ms, p, w) \/ AfterAt(ns, p, w, n + 1) < 0
    BY <1>1, <1>2, <1>3, <1>4, <1>5 DEF Below
  <1>. QED BY <1>6 DEF ns, n

\* A move more is a crossing more exactly when it takes its product down to the
\* reorder point.
LEMMA CrossingsAdded ==
  ASSUME NEW ms \in Seq(MoveRows), NEW m \in MoveRows, NEW p
  PROVE  LET n == Len(ms)
             crosses == /\ m.product = p /\ m.type = "delivery"
                        /\ After(ms, p, n) > ReorderPoint[p] /\ ReorderPoint[p] >= After(ms, p, n) + m.qty
         IN /\ IsFiniteSet(CrossingsIn(ms, p))
            /\ Cardinality(CrossingsIn(ms, p)) \in Nat
            /\ Cardinality(CrossingsIn(Append(ms, m), p)) = Cardinality(CrossingsIn(ms, p)) + IF crosses THEN 1 ELSE 0
  <1> DEFINE ns == Append(ms, m)
             n == Len(ms)
             C == CrossingsIn(ms, p)
             crosses == /\ m.product = p /\ m.type = "delivery"
                        /\ After(ms, p, n) > ReorderPoint[p] /\ ReorderPoint[p] >= After(ms, p, n) + m.qty
  <1>1. DOMAIN ms = 1 .. n /\ n \in Nat
    BY MovedType
  <1>2. /\ ns \in Seq(MoveRows) /\ Len(ns) = n + 1 /\ ns[n + 1] = m
        /\ \A j \in 1 .. n : ns[j] = ms[j]
        /\ \A i \in 0 .. n : After(ns, p, i) = After(ms, p, i)
        /\ After(ns, p, n + 1) = After(ms, p, n) + IF m.product = p THEN m.qty ELSE 0
    <2>1. PICK w : w = None
      OBVIOUS
    <2>. QED BY MovesLonger, MoveAdded
  <1>3. DOMAIN ns = 1 .. n + 1
    BY <1>2, MovedType
  <1>4. C \in SUBSET (1 .. n)
    BY <1>1 DEF CrossingsIn
  <1>5. IsFiniteSet(C) /\ Cardinality(C) \in Nat
    <2>1. IsFiniteSet(1 .. n)
      BY <1>1, FS_Interval
    <2> HIDE DEF C, n
    <2>. QED BY <1>4, <2>1, FS_Subset, FS_CardinalityType
  <1> HIDE DEF ns, n
  <1>6. \A i \in 1 .. n : i \in CrossingsIn(ns, p) <=> i \in C
    <2> TAKE i \in 1 .. n
    <2>1. i - 1 \in 0 .. n /\ i \in 0 .. n /\ i \in 1 .. n + 1
      BY <1>1
    <2>. QED BY <1>1, <1>2, <1>3, <2>1 DEF CrossingsIn
  <1>7. n + 1 \in CrossingsIn(ns, p) <=> crosses
    <2>1. n + 1 \in 1 .. n + 1 /\ (n + 1) - 1 = n /\ n \in 0 .. n
      BY <1>1
    <2>. QED BY <1>2, <1>3, <2>1 DEF CrossingsIn
  <1>8. CrossingsIn(ns, p) = C \cup IF crosses THEN {n + 1} ELSE {}
    <2>1. CrossingsIn(ns, p) \subseteq 1 .. n + 1
      BY <1>3 DEF CrossingsIn
    <2>2. \A i : i \in 1 .. n + 1 <=> i \in 1 .. n \/ i = n + 1
      BY <1>1
    <2> HIDE DEF C, crosses
    <2>. QED BY <1>4, <1>6, <1>7, <2>1, <2>2
  <1>9. n + 1 \notin C
    BY <1>1, <1>4
  <1> HIDE DEF C, crosses
  <1>10. Cardinality(CrossingsIn(ns, p)) = Cardinality(C) + IF crosses THEN 1 ELSE 0
    <2>1. CASE crosses
      BY <1>5, <1>8, <1>9, <2>1, FS_AddElement
    <2>2. CASE ~crosses
      BY <1>5, <1>8, <2>2
    <2>. QED BY <2>1, <2>2
  <1>. QED BY <1>5, <1>10 DEF ns, n, C, crosses

\* The total, whatever the warehouse
LEMMA TotalAdded ==
  ASSUME NEW ms \in Seq(MoveRows), NEW m \in MoveRows, NEW p
  PROVE  After(Append(ms, m), p, Len(ms) + 1) = After(ms, p, Len(ms)) + IF m.product = p THEN m.qty ELSE 0
  <1>1. PICK w : w = None
    OBVIOUS
  <1>2. /\ \A i \in 0 .. Len(ms) : /\ After(Append(ms, m), p, i) = After(ms, p, i)
                                    /\ AfterAt(Append(ms, m), p, w, i) = AfterAt(ms, p, w, i)
        /\ After(Append(ms, m), p, Len(ms) + 1) = After(ms, p, Len(ms)) + IF m.product = p THEN m.qty ELSE 0
        /\ AfterAt(Append(ms, m), p, w, Len(ms) + 1)
              = AfterAt(ms, p, w, Len(ms)) + IF m.product = p /\ m.at = w THEN m.qty ELSE 0
    BY MoveAdded
  <1>. QED BY <1>2

\* What is on hand of p at a warehouse
QtyAt(qs, p) == [w \in Warehouses |-> qs[p][w].qty]

\* The total of a product is that sum over the warehouses.
LEMMA OnHandIs ==
  ASSUME NEW qs \in [Products -> [Warehouses -> QuantRows]], NEW p \in Products
  PROVE  /\ OnHand(qs, p) = SumFunctionOnSet(QtyAt(qs, p), Warehouses)
         /\ OnHand(qs, p) \in Int
         /\ \A w \in Warehouses : QtyAt(qs, p)[w] = qs[p][w].qty /\ qs[p][w].qty \in Int
  <1>1. \A w \in Warehouses : QtyAt(qs, p)[w] = qs[p][w].qty /\ qs[p][w].qty \in Int
    BY DEF QtyAt, QuantRows
  <1>2. OnHand(qs, p) = SumFunctionOnSet(QtyAt(qs, p), Warehouses)
    BY DEF OnHand, SumFunction, QtyAt
  <1>3. IsFiniteSet(Warehouses)
    BY InventoryAssumption
  <1>4. SumFunctionOnSet(QtyAt(qs, p), Warehouses) \in Int
    BY <1>1, <1>3, SumOfIntegers
  <1>. QED BY <1>1, <1>2, <1>4

\* A balance is written: the total changes by as much as the balance.
LEMMA OnHandWritten ==
  ASSUME NEW qs \in [Products -> [Warehouses -> QuantRows]],
         NEW p \in Products, NEW w \in Warehouses, NEW q \in QuantRows
  PROVE  OnHand([qs EXCEPT ![p][w] = q], p) = OnHand(qs, p) + q.qty - qs[p][w].qty
  <1> DEFINE qs2 == [qs EXCEPT ![p][w] = q]
             f == QtyAt(qs, p)
             g == QtyAt(qs2, p)
  <1>1. /\ qs2 \in [Products -> [Warehouses -> QuantRows]]
        /\ \A r \in Products \ {p} : qs2[r] = qs[r]
        /\ qs2[p][w] = q /\ \A v \in Warehouses \ {w} : qs2[p][v] = qs[p][v]
    OBVIOUS
  <1> HIDE DEF qs2
  <1>2. \A v \in Warehouses : f[v] = qs[p][v].qty /\ g[v] = qs2[p][v].qty /\ f[v] \in Int /\ g[v] \in Int
    BY <1>1, OnHandIs
  <1>3. OnHand(qs2, p) = SumFunctionOnSet(g, Warehouses) /\ OnHand(qs, p) = SumFunctionOnSet(f, Warehouses)
    BY <1>1, OnHandIs
  <1> HIDE DEF f, g
  <1>4. SumFunctionOnSet(g, Warehouses) = SumFunctionOnSet(f, Warehouses) + g[w] - f[w]
    <2>1. /\ \A v \in Warehouses : f[v] \in Int /\ g[v] \in Int
          /\ \A v \in Warehouses \ {w} : g[v] = f[v]
          /\ IsFiniteSet(Warehouses)
      BY <1>1, <1>2, InventoryAssumption
    <2>. QED BY <2>1, SumOfOneChange
  <1>6. OnHand(qs2, p) = OnHand(qs, p) + q.qty - qs[p][w].qty
    BY <1>1, <1>2, <1>3, <1>4
  <1>. QED BY <1>6 DEF qs2

\* Moves and balances say the same,
Even(qs, ms) == \A p \in Products :
  /\ After(ms, p, Len(ms)) = OnHand(qs, p)
  /\ \A w \in Warehouses : AfterAt(ms, p, w, Len(ms)) = qs[p][w].qty

\* and the layers of a balance add up to it, if it never was overdrawn.
Layered(qs, ms) == method = "fifo" =>
  \A p \in Products, w \in Warehouses : Below(ms, p, w) \/ LayersQty(qs[p][w]) = qs[p][w].qty

\* They still do when a move is added to both.
LEMMA EvenAdded ==
  ASSUME NEW qs \in [Products -> [Warehouses -> QuantRows]], NEW ms \in Seq(MoveRows), Even(qs, ms),
         NEW p \in Products, NEW w \in Warehouses,
         NEW q \in QuantRows, NEW m \in MoveRows, m.product = p, m.at = w, q.qty = qs[p][w].qty + m.qty
  PROVE  Even([qs EXCEPT ![p][w] = q], Append(ms, m))
  <1>4. PICK qs2 : qs2 = [qs EXCEPT ![p][w] = q]
    OBVIOUS
  <1>a. OnHand(qs2, p) = OnHand(qs, p) + q.qty - qs[p][w].qty
    <2>1. OnHand([qs EXCEPT ![p][w] = q], p) = OnHand(qs, p) + q.qty - qs[p][w].qty
      BY OnHandWritten
    <2>. QED BY <2>1, <1>4
  <1>b. \A r \in Products \ {p} : OnHand(qs2, r) = OnHand(qs, r)
    <2>1. ASSUME NEW r \in Products \ {p} PROVE OnHand(qs2, r) = OnHand(qs, r)
      <3>1. qs2[r] = qs[r]
        BY <1>4
      <3>. QED BY <3>1 DEF OnHand
    <2>. QED BY <2>1
  <1>c. \A r \in Products : OnHand(qs, r) \in Int
    BY OnHandIs
  <1>3. /\ \A r \in Products \ {p} : qs2[r] = qs[r]
        /\ qs2[p][w] = q /\ \A v \in Warehouses \ {w} : qs2[p][v] = qs[p][v]
    BY <1>4
  <1>1. m.qty \in Int /\ \A r \in Products, v \in Warehouses : qs[r][v].qty \in Int
    BY DEF MoveRows, QuantRows
  <1>2. PICK ns : ns = Append(ms, m)
    OBVIOUS
  <1>d. Len(ns) = Len(ms) + 1
    BY <1>2, MovesLonger
  <1>5. ASSUME NEW r \in Products, NEW v \in Warehouses
        PROVE  /\ After(ns, r, Len(ns)) = After(ms, r, Len(ms)) + IF m.product = r THEN m.qty ELSE 0
               /\ AfterAt(ns, r, v, Len(ns)) = AfterAt(ms, r, v, Len(ms)) + IF m.product = r /\ m.at = v THEN m.qty ELSE 0
    <2>1. After(Append(ms, m), r, Len(ms) + 1) = After(ms, r, Len(ms)) + IF m.product = r THEN m.qty ELSE 0
      BY TotalAdded
    <2>2. AfterAt(Append(ms, m), r, v, Len(ms) + 1)
              = AfterAt(ms, r, v, Len(ms)) + IF m.product = r /\ m.at = v THEN m.qty ELSE 0
      BY MoveAdded
    <2>. QED BY <2>1, <2>2, <1>2, <1>d
  <1>6. ASSUME NEW r \in Products PROVE After(ns, r, Len(ns)) = OnHand(qs2, r)
    <2>1. After(ms, r, Len(ms)) = OnHand(qs, r)
      BY DEF Even
    <2>4. After(ns, r, Len(ns)) = After(ms, r, Len(ms)) + IF m.product = r THEN m.qty ELSE 0
      <3>1. w \in Warehouses
        OBVIOUS
      <3>. QED BY <1>5, <3>1
    <2>2. CASE r = p
      BY <1>1, <1>a, <1>c, <2>1, <2>2, <2>4
    <2>3. CASE r # p
      <3>1. OnHand(qs2, r) = OnHand(qs, r) /\ OnHand(qs, r) \in Int
        BY <1>b, <1>c, <2>3
      <3>. QED BY <3>1, <2>1, <2>3, <2>4
    <2>. QED BY <2>2, <2>3
  <1>7. ASSUME NEW r \in Products, NEW v \in Warehouses PROVE AfterAt(ns, r, v, Len(ns)) = qs2[r][v].qty
    <2>1. AfterAt(ms, r, v, Len(ms)) = qs[r][v].qty
      BY DEF Even
    <2>2. CASE r = p /\ v = w
      BY <1>1, <1>3, <1>5, <2>1, <2>2
    <2>3. CASE ~(r = p /\ v = w)
      <3>1. qs2[r][v] = qs[r][v]
        BY <1>3, <2>3
      <3>2. AfterAt(ns, r, v, Len(ns)) = AfterAt(ms, r, v, Len(ms)) + 0
        BY <1>5, <2>3
      <3>. QED BY <1>1, <2>1, <3>1, <3>2
    <2>. QED BY <2>2, <2>3
  <1>8. Even(qs2, ns)
    BY <1>6, <1>7 DEF Even
  <1>. QED BY <1>8, <1>2, <1>4

\* So it is with the layers, if those of the balance written are right whenever
\* they were right before and it is not below zero.
LEMMA LayeredAdded ==
  ASSUME NEW qs \in [Products -> [Warehouses -> QuantRows]], NEW ms \in Seq(MoveRows),
         Even(qs, ms), Layered(qs, ms), NEW p \in Products, NEW w \in Warehouses,
         NEW q \in QuantRows, NEW m \in MoveRows, m.product = p, m.at = w, q.qty = qs[p][w].qty + m.qty,
         method = "fifo" /\ LayersQty(qs[p][w]) = qs[p][w].qty /\ q.qty >= 0 => LayersQty(q) = q.qty
  PROVE  Layered([qs EXCEPT ![p][w] = q], Append(ms, m))
  <1> DEFINE qs2 == [qs EXCEPT ![p][w] = q]
             ns == Append(ms, m)
             n == Len(ms)
  <1>2. /\ \A r \in Products \ {p} : qs2[r] = qs[r]
        /\ qs2[p][w] = q /\ \A v \in Warehouses \ {w} : qs2[p][v] = qs[p][v]
    OBVIOUS
  <1>3. Even(qs2, ns) /\ Len(ns) = n + 1
    BY EvenAdded, MovesLonger
  <1> HIDE DEF qs2
  <1>4. AfterAt(ns, p, w, n + 1) = q.qty
    BY <1>2, <1>3 DEF Even
  <1>5. \A r \in Products, v \in Warehouses :
          Below(ns, r, v) <=> Below(ms, r, v) \/ AfterAt(ns, r, v, n + 1) < 0
    BY BelowAdded
  <1> HIDE DEF ns, n
  <1>6. ASSUME method = "fifo", NEW r \in Products, NEW v \in Warehouses
        PROVE  Below(ns, r, v) \/ LayersQty(qs2[r][v]) = qs2[r][v].qty
    <2>1. Below(ms, r, v) \/ LayersQty(qs[r][v]) = qs[r][v].qty
      BY <1>6 DEF Layered
    <2>2. CASE Below(ms, r, v)
      BY <1>5, <2>2
    <2>3. CASE LayersQty(qs[r][v]) = qs[r][v].qty /\ r = p /\ v = w
      <3>1. q.qty \in Int
        BY DEF QuantRows
      <3>2. CASE q.qty >= 0
        BY <1>2, <1>6, <2>3, <3>2
      <3>3. CASE q.qty < 0
        BY <1>4, <1>5, <2>3, <3>3
      <3>. QED BY <3>1, <3>2, <3>3
    <2>4. CASE LayersQty(qs[r][v]) = qs[r][v].qty /\ ~(r = p /\ v = w)
      <3>1. qs2[r][v] = qs[r][v]
        BY <1>2, <2>4
      <3>. QED BY <2>4, <3>1
    <2>. QED BY <2>1, <2>2, <2>3, <2>4
  <1>7. Layered(qs2, ns)
    BY <1>6 DEF Layered
  <1>. QED BY <1>7 DEF qs2, ns

\* A sum over the first numbers: one more.
LEMMA SumOfNext ==
  ASSUME NEW n \in Nat, NEW f, \A j \in 1 .. n + 1 : f[j] \in Int
  PROVE  /\ SumFunctionOnSet(f, 1 .. n) \in Int
         /\ SumFunctionOnSet(f, 1 .. n + 1) = SumFunctionOnSet(f, 1 .. n) + f[n + 1]
  <1> DEFINE N == 1 .. n
  <1>1. IsFiniteSet(N) /\ n + 1 \notin N /\ N \cup {n + 1} = 1 .. n + 1
    BY FS_Interval
  <1>2. PICK x : x = n + 1
    OBVIOUS
  <1>3. \A j \in N \cup {x} : f[j] \in Int
    BY <1>1, <1>2
  <1> HIDE DEF N
  <1>4. x \notin N /\ f[x] \in Int /\ \A j \in N : f[j] \in Int
    BY <1>1, <1>2, <1>3
  <1>5. IsFiniteSet(N)
    BY <1>1
  <1>6. SumFunctionOnSet(f, N \cup {x}) = f[x] + SumFunctionOnSet(f, N)
    BY <1>3, <1>4, <1>5, SumWithOne, ZenonT(30)
  <1>7. SumFunctionOnSet(f, N) \in Int
    BY <1>4, <1>5, SumOfIntegers
  <1>8. SumFunctionOnSet(f, 1 .. n + 1) = f[x] + SumFunctionOnSet(f, N)
    BY <1>1, <1>2, <1>6
  <1>9. SumFunctionOnSet(f, 1 .. n + 1) = SumFunctionOnSet(f, N) + f[n + 1]
    BY <1>2, <1>4, <1>7, <1>8
  <1>. QED BY <1>7, <1>9 DEF N

\* The quantities of layers
Units(layers) == [i \in DOMAIN layers |-> layers[i].qty]

\* They are natural numbers, and so is their sum.
LEMMA UnitsAre ==
  ASSUME NEW layers \in Layers
  PROVE  /\ \A i \in 1 .. Len(layers) : Units(layers)[i] = layers[i].qty /\ layers[i].qty \in Nat
         /\ SumFunctionOnSet(Units(layers), 1 .. Len(layers)) \in Nat
         /\ Len(layers) \in Nat
  <1>1. /\ DOMAIN layers = 1 .. Len(layers) /\ Len(layers) \in Nat
        /\ \A i \in 1 .. Len(layers) : layers[i].qty \in Nat
    BY LayerAt
  <1>2. \A i \in 1 .. Len(layers) : Units(layers)[i] = layers[i].qty
    BY <1>1 DEF Units
  <1>3. \A i \in 1 .. Len(layers) : Units(layers)[i] \in Nat
    BY <1>1, <1>2
  <1>4. SumFunctionOnSet(Units(layers), 1 .. Len(layers)) \in Nat
    <2>1. Len(layers) \in Int
      BY <1>1
    <2>2. IsFiniteSet(1 .. Len(layers))
      BY <2>1, FS_Interval
    <2>. QED BY <1>3, <2>2, NatSum
  <1>. QED BY <1>1, <1>2, <1>4

\* What the layers of a balance hold is that sum.
LEMMA LayersQtyIs ==
  ASSUME NEW q, q.layers \in Layers
  PROVE  LayersQty(q) = SumFunctionOnSet(Units(q.layers), 1 .. Len(q.layers))
  <1>1. DOMAIN q.layers = 1 .. Len(q.layers)
    BY LayerAt
  <1>2. DOMAIN Units(q.layers) = 1 .. Len(q.layers)
    BY <1>1 DEF Units
  <1>3. LayersQty(q) = SumFunctionOnSet(Units(q.layers), DOMAIN Units(q.layers))
    BY DEF LayersQty, TotalOf, SumFunction, Units
  <1>. QED BY <1>2, <1>3

\* A receipt is a layer more.
LEMMA ReceivedLayers ==
  ASSUME NEW q \in QuantRows, NEW n \in Nat \ {0}, NEW value \in Int
  PROVE  LayersQty(Received(q, n, value, "fifo").quant) = LayersQty(q) + n
  <1> DEFINE r == Received(q, n, value, "fifo").quant
             cost == HalfUp(value, n * Scale)
             x == [qty |-> n, cost |-> cost]
             L == Len(q.layers)
  <1>1. q.layers \in Layers
    BY DEF QuantRows, Layers
  <1>2. r.layers = Append(q.layers, x)
    BY DEF Received, QuantRows
  <1>3. x \in [qty : Nat, cost : Int] /\ x.qty = n
    <2>1. n * Scale \in Nat \ {0}
      BY ProductPositive, ScaleAssumption
    <2>2. cost \in Int
      BY <2>1, HalfUpType
    <2> HIDE DEF cost
    <2>. QED BY <2>2
  <1> HIDE DEF r, x
  <1>4. /\ r.layers \in Layers /\ Len(r.layers) = L + 1 /\ r.layers[L + 1] = x
        /\ \A j \in 1 .. L : r.layers[j] = q.layers[j]
    BY <1>1, <1>2, <1>3, AppendProperties DEF Layers
  <1> DEFINE f == Units(q.layers)
             g == Units(r.layers)
  <1>5. /\ L \in Nat
        /\ \A j \in 1 .. L : f[j] = q.layers[j].qty /\ q.layers[j].qty \in Nat
    BY <1>1, UnitsAre
  <1>6. \A j \in 1 .. L + 1 : g[j] = r.layers[j].qty /\ r.layers[j].qty \in Nat
    BY <1>4, UnitsAre
  <1>7. LayersQty(q) = SumFunctionOnSet(f, 1 .. L) /\ LayersQty(r) = SumFunctionOnSet(g, 1 .. L + 1)
    BY <1>1, <1>4, LayersQtyIs
  <1> HIDE DEF f, g, L
  <1>8. SumFunctionOnSet(g, 1 .. L + 1) = SumFunctionOnSet(g, 1 .. L) + g[L + 1]
    <2>1. \A j \in 1 .. L + 1 : g[j] \in Int
      BY <1>6
    <2>. QED BY <1>5, <2>1, SumOfNext
  <1>9. SumFunctionOnSet(g, 1 .. L) = SumFunctionOnSet(f, 1 .. L)
    <2>1. IsFiniteSet(1 .. L)
      BY <1>5, FS_Interval
    <2>2. \A j \in 1 .. L : g[j] = f[j]
      BY <1>4, <1>5, <1>6
    <2>. QED BY <2>1, <2>2, SumOfSame
  <1>10. g[L + 1] = n
    <2>1. L + 1 \in 1 .. L + 1
      BY <1>5
    <2>. QED BY <1>3, <1>4, <1>6, <2>1
  <1>11. LayersQty(r) = LayersQty(q) + n
    BY <1>7, <1>8, <1>9, <1>10
  <1>. QED BY <1>11 DEF r

\* What is taken from the first layers: n, or all of them.
LEMMA TakenSum ==
  ASSUME NEW layers \in Layers, NEW n \in Nat,
         n <= SumFunctionOnSet(Units(layers), 1 .. Len(layers))
  PROVE  SumFunctionOnSet(Taken(layers, n), 1 .. Len(layers)) = n
  <1> DEFINE L == Len(layers)
             f == Units(layers)
             t == Taken(layers, n)
             U(i) == SumFunctionOnSet(f, 1 .. i)
             T(i) == SumFunctionOnSet(t, 1 .. i)
  <1>1. L \in Nat /\ DOMAIN layers = 1 .. L /\ \A j \in 1 .. L : f[j] = layers[j].qty /\ f[j] \in Nat
    BY UnitsAre, LayerAt
  <1>2. \A j \in 1 .. L : t[j] \in Nat
    BY TakenType
  <1>3. ASSUME NEW i \in 1 .. L
        PROVE  t[i] = IF U(i - 1) >= n THEN 0 ELSE Least(f[i], n - U(i - 1))
    <2> DEFINE g == [j \in 1 .. i - 1 |-> layers[j].qty]
    <2>1. \A j \in 1 .. i - 1 : g[j] = f[j]
      BY <1>1
    <2>2. DOMAIN g = 1 .. i - 1 /\ IsFiniteSet(1 .. i - 1)
      BY <1>1, FS_Interval
    <2>3. TotalOf(g) = SumFunctionOnSet(g, 1 .. i - 1)
      BY <2>2 DEF TotalOf, SumFunction
    <2>4. t[i] = IF TotalOf(g) >= n THEN 0 ELSE Least(layers[i].qty, n - TotalOf(g))
      BY <1>1 DEF Taken
    <2> HIDE DEF g, f, t
    <2>5. SumFunctionOnSet(g, 1 .. i - 1) = U(i - 1)
      BY <2>1, <2>2, SumOfSame
    <2>. QED BY <1>1, <2>3, <2>4, <2>5
  <1> HIDE DEF f, t, L
  <1>4. \A i \in 0 .. L : U(i) \in Nat
    <2> TAKE i \in 0 .. L
    <2>1. i \in Int /\ \A j \in 1 .. i : f[j] \in Nat
      BY <1>1
    <2>2. IsFiniteSet(1 .. i)
      BY <2>1, FS_Interval
    <2>. QED BY <2>1, <2>2, NatSum
  <1>5. ASSUME NEW i \in 0 .. L, i + 1 \in 1 .. L
        PROVE  U(i + 1) = U(i) + f[i + 1] /\ T(i + 1) = T(i) + t[i + 1]
    <2>1. i \in Nat /\ (\A j \in 1 .. i + 1 : f[j] \in Int) /\ \A j \in 1 .. i + 1 : t[j] \in Int
      BY <1>1, <1>2, <1>5
    <2>. QED BY <2>1, SumOfNext
  <1>6. T(0) = 0 /\ U(0) = 0
    <2>1. 1 .. 0 = {}
      OBVIOUS
    <2>. QED BY <2>1, SumOfEmpty
  <1> HIDE DEF U, T
  <1> DEFINE Right(i) == T(i) = Least(n, U(i))
             Wrong == {i \in 0 .. L : ~Right(i)}
  <1>7. Wrong = {}
    <2>1. SUFFICES ASSUME Wrong # {} PROVE FALSE
      OBVIOUS
    <2>2. Wrong \in SUBSET Nat
      BY <1>1
    <2> HIDE DEF Wrong
    <2>3. PICK m \in Wrong : \A k \in Wrong : m <= k
      BY <2>1, <2>2, LeastElement
    <2> USE DEF Wrong
    <2>4. m # 0
      BY <1>6, <2>3 DEF Least
    <2>5. PICK i : i = m - 1
      OBVIOUS
    <2>6. i \in 0 .. L /\ i + 1 = m /\ i + 1 \in 1 .. L
      BY <1>1, <2>3, <2>4, <2>5
    <2>7. Right(i)
      BY <1>1, <2>3, <2>6
    <2>8. U(m) = U(i) + f[m] /\ T(m) = T(i) + t[m]
      BY <1>5, <2>6
    <2>9. t[m] = IF U(i) >= n THEN 0 ELSE Least(f[m], n - U(i))
      BY <1>3, <2>5, <2>6
    <2>10. U(i) \in Nat /\ f[m] \in Nat
      BY <1>1, <1>4, <2>6
    <2>11. Right(m)
      BY <2>7, <2>8, <2>9, <2>10 DEF Least
    <2>. QED BY <2>3, <2>11
  <1>8. Right(L) /\ n <= U(L) /\ U(L) \in Nat
    BY <1>1, <1>4, <1>7 DEF U, f, L
  <1>9. T(L) = n
    BY <1>8 DEF Least
  <1>. QED BY <1>9 DEF T, t, L

\* An issue that the layers have enough for takes that much from them.
LEMMA IssuedLayers ==
  ASSUME NEW q \in QuantRows, NEW n \in Nat \ {0}, n <= LayersQty(q)
  PROVE  LayersQty(Issued(q, n, IssueCost(q, n, "fifo"), "fifo")) = LayersQty(q) - n
  <1> DEFINE t == Taken(q.layers, n)
             r == Issued(q, n, IssueCost(q, n, "fifo"), "fifo")
             L == Len(q.layers)
             f == Units(q.layers)
             g == Units(r.layers)
  <1>1. q.layers \in Layers
    BY DEF QuantRows, Layers
  <1>2. IssueCost(q, n, "fifo").layers = Consume(q.layers, t)
    BY DEF IssueCost
  <1>3. r.layers = Consume(q.layers, t)
    BY <1>2 DEF Issued, QuantRows
  <1>4. Consume(q.layers, t) \in Layers
    BY <1>1, ConsumeType
  <1>5. /\ DOMAIN q.layers = 1 .. L /\ L \in Nat
        /\ \A j \in 1 .. L : f[j] = q.layers[j].qty /\ f[j] \in Nat /\ q.layers[j] \in [qty : Nat, cost : Int]
    BY <1>1, LayerAt, UnitsAre
  <1>6. t \in [1 .. L -> Nat]
    BY <1>1, TakenType
  <1>7. DOMAIN Consume(q.layers, t) = 1 .. L /\ \A j \in 1 .. L : Consume(q.layers, t)[j].qty = f[j] - t[j]
    BY <1>5 DEF Consume
  <1>8. Len(r.layers) = L
    <2>1. DOMAIN r.layers = 1 .. Len(r.layers) /\ Len(r.layers) \in Nat
      BY <1>3, <1>4, LayerAt
    <2> HIDE DEF r, t, L
    <2>2. 1 .. Len(r.layers) = 1 .. L
      BY <1>3, <1>7, <2>1
    <2>. QED BY <1>5, <2>1, <2>2
  <1> HIDE DEF r, t, L, f
  <1>9. \A j \in 1 .. L : g[j] = f[j] - t[j] /\ g[j] \in Nat
    BY <1>3, <1>4, <1>7, <1>8, UnitsAre
  <1>10. LayersQty(q) = SumFunctionOnSet(f, 1 .. L) /\ LayersQty(r) = SumFunctionOnSet(g, 1 .. L)
    BY <1>1, <1>3, <1>4, <1>8, LayersQtyIs DEF f, L
  <1>11. SumFunctionOnSet(t, 1 .. L) = n
    <2>1. n <= SumFunctionOnSet(Units(q.layers), 1 .. Len(q.layers)) /\ n \in Nat
      BY <1>10 DEF f, L
    <2>. QED BY <1>1, <2>1, TakenSum DEF t, L
  <1> HIDE DEF g
  <1>12. SumFunctionOnSet(f, 1 .. L) = SumFunctionOnSet(g, 1 .. L) + SumFunctionOnSet(t, 1 .. L)
         /\ SumFunctionOnSet(g, 1 .. L) \in Int
    <2>0. L \in Int
      BY <1>5
    <2>1. IsFiniteSet(1 .. L)
      BY <2>0, FS_Interval
    <2>2. \A j \in 1 .. L : g[j] \in Int /\ t[j] \in Int /\ f[j] = g[j] + t[j]
      <3> TAKE j \in 1 .. L
      <3>1. f[j] \in Nat
        BY <1>5
      <3>2. t[j] \in Nat
        BY <1>6
      <3>3. g[j] = f[j] - t[j]
        BY <1>9
      <3>. QED BY <3>1, <3>2, <3>3
    <2>3. \A j \in 1 .. L : g[j] \in Int
      BY <2>2
    <2>. QED BY <2>1, <2>2, <2>3, SumOfSums, SumOfIntegers
  <1>13. LayersQty(r) = LayersQty(q) - n
    BY <1>10, <1>11, <1>12
  <1>. QED BY <1>13 DEF r

\* The work j is the work k, one move of n units of p at w later.
Moved(k, j, p, w, n, type) == \E q \in QuantRows, m \in MoveRows :
  /\ j.quants = [k.quants EXCEPT ![p][w] = q] /\ j.moves = Append(k.moves, m) /\ j.crossed = k.crossed
  /\ m.product = p /\ m.at = w /\ m.qty = n /\ m.type = type /\ q.qty = k.quants[p][w].qty + n
  /\ method = "fifo" /\ LayersQty(k.quants[p][w]) = k.quants[p][w].qty /\ q.qty >= 0 => LayersQty(q) = q.qty

\* So it is with a receipt
LEMMA ReceiptMoves ==
  ASSUME NEW k \in Works, NEW p \in Products, NEW w \in Warehouses, NEW n \in Nat \ {0},
         NEW value \in Int, NEW type \in MoveTypes, NEW doc \in Docs
  PROVE  Moved(k, ReceiveStock(k, p, w, n, value, type, doc), p, w, n, type)
  <1> DEFINE r == Received(k.quants[p][w], n, value, method)
             m == Move(p, w, n, HalfUp(value, n), type, doc)
             j == ReceiveStock(k, p, w, n, value, type, doc)
             q == k.quants[p][w]
  <1>1. k.quants \in [Products -> [Warehouses -> QuantRows]] /\ k.moves \in Seq(MoveRows)
    BY DEF Works, WorkRows
  <1>2. q \in QuantRows /\ q.qty \in Int
    BY <1>1 DEF QuantRows
  <1>3. r.quant \in QuantRows /\ r.quant.qty = q.qty + n
    <2>1. r.quant \in QuantRows
      BY <1>2, ReceivedType
    <2>2. r.quant.qty = q.qty + n
      BY <1>2 DEF Received, QuantRows
    <2>. QED BY <2>1, <2>2
  <1>4. m \in MoveRows /\ m.product = p /\ m.at = w /\ m.qty = n /\ m.type = type
    <2>1. HalfUp(value, n) \in Int
      BY HalfUpType
    <2>2. m \in MoveRows
      BY <2>1, MoveType
    <2>3. m.product = p /\ m.at = w /\ m.qty = n /\ m.type = type
      BY DEF Move
    <2>. QED BY <2>2, <2>3
  <1>5. /\ j.quants = [k.quants EXCEPT ![p][w] = r.quant] /\ j.moves = Append(k.moves, m)
        /\ j.crossed = k.crossed
    BY DEF ReceiveStock, Works, WorkRows
  <1>6. ASSUME method = "fifo", LayersQty(q) = q.qty PROVE LayersQty(r.quant) = r.quant.qty
    <2>1. r = Received(q, n, value, "fifo")
      BY <1>6
    <2>2. LayersQty(r.quant) = LayersQty(q) + n
      BY <1>2, <2>1, ReceivedLayers
    <2>. QED BY <1>3, <1>6, <2>2
  <1> HIDE DEF r, m, j, q
  <1>7. /\ r.quant \in QuantRows /\ m \in MoveRows
        /\ method = "fifo" /\ LayersQty(q) = q.qty /\ r.quant.qty >= 0 => LayersQty(r.quant) = r.quant.qty
    BY <1>3, <1>4, <1>6
  <1>8. Moved(k, j, p, w, n, type)
    BY <1>3, <1>4, <1>5, <1>7 DEF Moved, q
  <1>. QED BY <1>8 DEF j

\* and with an issue.
LEMMA IssueMoves ==
  ASSUME NEW k \in Works, NEW p \in Products, NEW w \in Warehouses, NEW n \in Nat \ {0},
         NEW type \in MoveTypes, NEW doc \in Docs, NEW allow \in BOOLEAN
  PROVE  Moved(k, IssueStock(k, p, w, n, type, doc, allow), p, w, -n, type)
  <1> DEFINE q == k.quants[p][w]
             c == IssueCost(q, n, method)
             x == Issued(q, n, c, method)
             m == Move(p, w, -n, c.unit, type, doc)
             j == IssueStock(k, p, w, n, type, doc, allow)
  <1>1. k.quants \in [Products -> [Warehouses -> QuantRows]] /\ k.moves \in Seq(MoveRows)
    BY DEF Works, WorkRows
  <1>2. q \in QuantRows /\ q.qty \in Int
    BY <1>1 DEF QuantRows
  <1>3. c \in Costs4
    BY <1>2, IssueCostType
  <1>4. x \in QuantRows /\ x.qty = q.qty + (-n)
    <2>1. x \in QuantRows
      <3> HIDE DEF c, q
      <3>. QED BY <1>2, <1>3, IssuedType
    <2>2. x.qty = q.qty - n
      <3> HIDE DEF c
      <3>. QED BY <1>2 DEF Issued, QuantRows
    <2>. QED BY <1>2, <2>1, <2>2
  <1>5. m \in MoveRows /\ m.product = p /\ m.at = w /\ m.qty = -n /\ m.type = type
    <2>1. c.unit \in Int /\ -n \in Int
      BY <1>3 DEF Costs4
    <2>2. m \in MoveRows
      <3> HIDE DEF c
      <3>. QED BY <2>1, MoveType
    <2>3. m.product = p /\ m.at = w /\ m.qty = -n /\ m.type = type
      BY DEF Move
    <2>. QED BY <2>2, <2>3
  <1>6. j.quants = [k.quants EXCEPT ![p][w] = x] /\ j.moves = Append(k.moves, m) /\ j.crossed = k.crossed
    BY DEF IssueStock, Works, WorkRows
  <1>7. ASSUME method = "fifo", LayersQty(q) = q.qty, x.qty >= 0 PROVE LayersQty(x) = x.qty
    <2>1. x = Issued(q, n, IssueCost(q, n, "fifo"), "fifo")
      BY <1>7
    <2>2. n <= LayersQty(q)
      BY <1>2, <1>4, <1>7
    <2>3. LayersQty(x) = LayersQty(q) - n
      BY <1>2, <2>1, <2>2, IssuedLayers
    <2>. QED BY <1>2, <1>4, <1>7, <2>3
  <1> HIDE DEF c, x, m, j, q
  <1>8. Moved(k, j, p, w, -n, type)
    BY <1>4, <1>5, <1>6, <1>7 DEF Moved, q
  <1>. QED BY <1>8 DEF j

\* Work in which moves, balances and layers agree
EvenWorks == {k \in Works : Even(k.quants, k.moves) /\ Layered(k.quants, k.moves)}

\* A move keeps it so.
LEMMA EvenMoved ==
  ASSUME NEW k \in EvenWorks, NEW j \in Works, NEW p \in Products, NEW w \in Warehouses, NEW n \in Int, NEW type,
         Moved(k, j, p, w, n, type)
  PROVE  j \in EvenWorks
  <1>1. PICK q \in QuantRows, m \in MoveRows :
          /\ j.quants = [k.quants EXCEPT ![p][w] = q] /\ j.moves = Append(k.moves, m)
          /\ m.product = p /\ m.at = w /\ q.qty = k.quants[p][w].qty + m.qty
          /\ method = "fifo" /\ LayersQty(k.quants[p][w]) = k.quants[p][w].qty /\ q.qty >= 0 => LayersQty(q) = q.qty
    BY DEF Moved
  <1>2. PICK qs \in [Products -> [Warehouses -> QuantRows]], ms \in Seq(MoveRows) :
          qs = k.quants /\ ms = k.moves /\ Even(qs, ms) /\ Layered(qs, ms)
    BY DEF EvenWorks, Works, WorkRows
  <1>3. /\ m.product = p /\ m.at = w /\ q.qty = qs[p][w].qty + m.qty
        /\ method = "fifo" /\ LayersQty(qs[p][w]) = qs[p][w].qty /\ q.qty >= 0 => LayersQty(q) = q.qty
    BY <1>1, <1>2
  <1>4. Even([qs EXCEPT ![p][w] = q], Append(ms, m))
    BY <1>2, <1>3, EvenAdded
  <1>5. Layered([qs EXCEPT ![p][w] = q], Append(ms, m))
    BY <1>2, <1>3, LayeredAdded
  <1>6. j.quants = [qs EXCEPT ![p][w] = q] /\ j.moves = Append(ms, m)
    BY <1>1, <1>2
  <1>7. Even(j.quants, j.moves) /\ Layered(j.quants, j.moves)
    BY <1>4, <1>5, <1>6
  <1>. QED BY <1>7 DEF EvenWorks

\* What is on hand, and how many deliveries took it to the reorder point, after
\* a move
LEMMA CrossedMoved ==
  ASSUME NEW k \in EvenWorks, NEW j \in EvenWorks, NEW p \in Products, NEW w \in Warehouses, NEW n \in Int, NEW type,
         Moved(k, j, p, w, n, type), NEW r \in Products
  PROVE  /\ OnHand(j.quants, r) = OnHand(k.quants, r) + IF r = p THEN n ELSE 0
         /\ OnHand(j.quants, r) \in Int /\ OnHand(k.quants, r) \in Int
         /\ Cardinality(CrossingsIn(k.moves, r)) \in Nat
         /\ Cardinality(CrossingsIn(j.moves, r)) = Cardinality(CrossingsIn(k.moves, r))
              + IF /\ r = p /\ type = "delivery"
                   /\ OnHand(k.quants, r) > ReorderPoint[r] /\ ReorderPoint[r] >= OnHand(j.quants, r)
                THEN 1 ELSE 0
  <1>1. PICK m \in MoveRows : j.moves = Append(k.moves, m) /\ m.product = p /\ m.qty = n /\ m.type = type
    BY DEF Moved
  <1>2. PICK ms \in Seq(MoveRows) : ms = k.moves
    BY DEF EvenWorks, Works, WorkRows
  <1>3. /\ k.quants \in [Products -> [Warehouses -> QuantRows]] /\ j.quants \in [Products -> [Warehouses -> QuantRows]]
        /\ Even(k.quants, k.moves) /\ Even(j.quants, j.moves)
    BY DEF EvenWorks, Works, WorkRows
  <1>4. j.moves = Append(ms, m)
    BY <1>1, <1>2
  <1>5. Len(Append(ms, m)) = Len(ms) + 1
    BY MovesLonger
  <1>6. After(ms, r, Len(ms)) = OnHand(k.quants, r)
    BY <1>2, <1>3 DEF Even
  <1>7. After(Append(ms, m), r, Len(ms) + 1) = OnHand(j.quants, r)
    BY <1>3, <1>4, <1>5 DEF Even
  <1>8. After(Append(ms, m), r, Len(ms) + 1) = After(ms, r, Len(ms)) + IF m.product = r THEN m.qty ELSE 0
    BY TotalAdded
  <1>9. OnHand(j.quants, r) \in Int /\ OnHand(k.quants, r) \in Int
    BY <1>3, OnHandIs
  <1>10. OnHand(j.quants, r) = OnHand(k.quants, r) + IF r = p THEN n ELSE 0
    <2>1. CASE r = p
      BY <1>1, <1>6, <1>7, <1>8, <2>1
    <2>2. CASE r # p
      BY <1>1, <1>6, <1>7, <1>8, <2>2
    <2>. QED BY <2>1, <2>2
  <1> DEFINE crosses == /\ m.product = r /\ m.type = "delivery"
                        /\ After(ms, r, Len(ms)) > ReorderPoint[r]
                        /\ ReorderPoint[r] >= After(ms, r, Len(ms)) + m.qty
  <1>11. /\ Cardinality(CrossingsIn(ms, r)) \in Nat
         /\ Cardinality(CrossingsIn(Append(ms, m), r)) = Cardinality(CrossingsIn(ms, r)) + IF crosses THEN 1 ELSE 0
    BY CrossingsAdded
  <1>12. crosses <=> /\ r = p /\ type = "delivery"
                     /\ OnHand(k.quants, r) > ReorderPoint[r] /\ ReorderPoint[r] >= OnHand(j.quants, r)
    <2>1. CASE r = p
      BY <1>1, <1>6, <1>10, <2>1
    <2>2. CASE r # p
      BY <1>1, <2>2
    <2>. QED BY <2>1, <2>2
  <1> HIDE DEF crosses
  <1>13. Cardinality(CrossingsIn(k.moves, r)) = Cardinality(CrossingsIn(ms, r))
         /\ Cardinality(CrossingsIn(j.moves, r)) = Cardinality(CrossingsIn(Append(ms, m), r))
    BY <1>2, <1>4
  <1>14. Cardinality(CrossingsIn(j.moves, r)) = Cardinality(CrossingsIn(k.moves, r)) + IF crosses THEN 1 ELSE 0
    BY <1>11, <1>13
  <1>. QED BY <1>9, <1>10, <1>11, <1>12, <1>13, <1>14

\* Such work, of which every alert was sent
CardexWorks == {k \in EvenWorks : \A p \in Products : Cardinality(CrossingsIn(k.moves, p)) = alerts[p]}

\* A move that is no delivery keeps it so,
LEMMA CardexMoved ==
  ASSUME NEW k \in CardexWorks, NEW j \in Works, NEW p \in Products, NEW w \in Warehouses, NEW n \in Int, NEW type,
         Moved(k, j, p, w, n, type), type # "delivery"
  PROVE  j \in CardexWorks
  <1>1. k \in EvenWorks
    BY DEF CardexWorks
  <1>2. j \in EvenWorks
    BY <1>1, EvenMoved
  <1>3. ASSUME NEW r \in Products PROVE Cardinality(CrossingsIn(j.moves, r)) = alerts[r]
    <2>1. Cardinality(CrossingsIn(k.moves, r)) = alerts[r]
      BY DEF CardexWorks
    <2>2. Cardinality(CrossingsIn(k.moves, r)) \in Nat
      BY <1>1, <1>2, CrossedMoved
    <2>3. Cardinality(CrossingsIn(j.moves, r)) = Cardinality(CrossingsIn(k.moves, r))
              + IF /\ r = p /\ type = "delivery"
                   /\ OnHand(k.quants, r) > ReorderPoint[r] /\ ReorderPoint[r] >= OnHand(j.quants, r)
                THEN 1 ELSE 0
      BY <1>1, <1>2, CrossedMoved
    <2>. QED BY <2>1, <2>2, <2>3
  <1>. QED BY <1>2, <1>3 DEF CardexWorks

\* so that nothing but deliveries leads out of it.
LEMMA CardexLeads == Leads(CardexWorks)
  <1>1. CardexWorks \in SUBSET Works
    BY DEF CardexWorks, EvenWorks
  <1>2. ASSUME NEW k \in CardexWorks, NEW p \in Products, NEW w \in Warehouses, NEW n \in Nat \ {0}, NEW value \in Int,
               NEW type \in MoveTypes \ {"delivery"}, NEW doc \in Docs
        PROVE  ReceiveStock(k, p, w, n, value, type, doc) \in CardexWorks
    <2>1. k \in Works /\ type \in MoveTypes /\ type # "delivery" /\ n \in Int
      BY <1>1
    <2>2. ReceiveStock(k, p, w, n, value, type, doc) \in Works
      BY <2>1, ReceiveStockType
    <2>3. Moved(k, ReceiveStock(k, p, w, n, value, type, doc), p, w, n, type)
      BY <2>1, ReceiptMoves
    <2>. QED BY <2>1, <2>2, <2>3, CardexMoved
  <1>3. ASSUME NEW k \in CardexWorks, NEW p \in Products, NEW w \in Warehouses, NEW n \in Nat \ {0},
               NEW type \in MoveTypes \ {"delivery"}, NEW doc \in Docs, NEW allow \in BOOLEAN
        PROVE  IssueStock(k, p, w, n, type, doc, allow) \in CardexWorks
    <2>1. k \in Works /\ type \in MoveTypes /\ type # "delivery" /\ -n \in Int
      BY <1>1
    <2>2. IssueStock(k, p, w, n, type, doc, allow) \in Works
      BY <2>1, IssueStockType
    <2>3. Moved(k, IssueStock(k, p, w, n, type, doc, allow), p, w, -n, type)
      BY <2>1, IssueMoves
    <2>. QED BY <2>1, <2>2, <2>3, CardexMoved
  <1>4. ASSUME NEW k \in CardexWorks, NEW v \in Int PROVE [k EXCEPT !.value = v] \in CardexWorks
    <2>1. k \in Works
      BY <1>1
    <2>2. [k EXCEPT !.value = v] \in Works
      BY <2>1, ValueType
    <2>3. [k EXCEPT !.value = v].moves = k.moves /\ [k EXCEPT !.value = v].quants = k.quants
      BY <2>1 DEF Works, WorkRows
    <2>. QED BY <2>2, <2>3 DEF CardexWorks, EvenWorks
  <1>. QED BY <1>1, <1>2, <1>3, <1>4 DEF Leads

\* The work of a delivery: the products that crossed their reorder points did
\* so once, and are there still; their alerts are not sent yet.
DeliveryWorks == {k \in EvenWorks : \A p \in Products :
  /\ Cardinality(CrossingsIn(k.moves, p)) = alerts[p] + IF p \in k.crossed THEN 1 ELSE 0
  /\ p \in k.crossed => OnHand(k.quants, p) <= ReorderPoint[p]}

\* A line that is delivered keeps it so,
LEMMA DeliveryLine ==
  ASSUME StockTypeOK, NEW k \in DeliveryWorks, NEW x \in [product : Products, qty : Nat \ {0}],
         NEW w \in Warehouses, NEW doc \in Docs
  PROVE  DeliverLine(k, x, w, doc) \in DeliveryWorks
  <1> DEFINE i == IssueStock(k, x.product, w, x.qty, "delivery", doc, FALSE)
             j == DeliverLine(k, x, w, doc)
             p == x.product
             n == x.qty
  <1>1. k \in EvenWorks /\ k \in Works /\ p \in Products /\ n \in Nat \ {0} /\ -n \in Int /\ "delivery" \in MoveTypes
    BY DEF DeliveryWorks, EvenWorks, MoveTypes
  <1>2. i \in Works /\ j \in Works
    BY <1>1, IssueStockType, DeliverLineType
  <1>3. Moved(k, i, p, w, -n, "delivery")
    BY <1>1, IssueMoves
  <1>4. i \in EvenWorks
    <2> HIDE DEF i, n, p
    <2>. QED BY <1>1, <1>2, <1>3, EvenMoved
  <1>5. /\ j.quants = i.quants /\ j.moves = i.moves /\ i.crossed = k.crossed
        /\ j.crossed = i.crossed \cup IF Crosses(i, p, n) THEN {p} ELSE {}
    <2>1. i.crossed = k.crossed
      BY <1>3 DEF Moved
    <2> HIDE DEF i
    <2>2. j.quants = i.quants /\ j.moves = i.moves /\ j.crossed = i.crossed \cup IF Crosses(i, p, n) THEN {p} ELSE {}
      BY <1>2 DEF DeliverLine, Works, WorkRows, i
    <2>. QED BY <2>1, <2>2
  <1> HIDE DEF i, j, n, p
  <1>6. j \in EvenWorks
    BY <1>2, <1>4, <1>5 DEF EvenWorks
  <1>7. ASSUME NEW r \in Products
        PROVE  /\ Cardinality(CrossingsIn(j.moves, r)) = alerts[r] + IF r \in j.crossed THEN 1 ELSE 0
               /\ r \in j.crossed => OnHand(j.quants, r) <= ReorderPoint[r]
    <2>1. /\ Cardinality(CrossingsIn(k.moves, r)) = alerts[r] + IF r \in k.crossed THEN 1 ELSE 0
          /\ r \in k.crossed => OnHand(k.quants, r) <= ReorderPoint[r]
      BY DEF DeliveryWorks
    <2>2. /\ OnHand(i.quants, r) = OnHand(k.quants, r) + IF r = p THEN -n ELSE 0
          /\ OnHand(i.quants, r) \in Int /\ OnHand(k.quants, r) \in Int
          /\ Cardinality(CrossingsIn(k.moves, r)) \in Nat
          /\ Cardinality(CrossingsIn(i.moves, r)) = Cardinality(CrossingsIn(k.moves, r))
              + IF /\ r = p /\ "delivery" = "delivery"
                   /\ OnHand(k.quants, r) > ReorderPoint[r] /\ ReorderPoint[r] >= OnHand(i.quants, r)
                THEN 1 ELSE 0
      BY <1>1, <1>3, <1>4, CrossedMoved
    <2>3. r = p => (Crosses(i, p, n) <=> OnHand(k.quants, r) > ReorderPoint[r] /\ ReorderPoint[r] >= OnHand(i.quants, r))
      <3>1. r = p => OnHand(i.quants, r) + n = OnHand(k.quants, r)
        BY <1>1, <2>2
      <3>. QED BY <3>1 DEF Crosses
    <2>4. alerts[r] \in Nat /\ ReorderPoint[r] \in Nat
      BY InventoryAssumption DEF StockTypeOK
    <2>5. CASE r = p /\ Crosses(i, p, n)
      <3>1. OnHand(k.quants, r) > ReorderPoint[r] /\ ReorderPoint[r] >= OnHand(i.quants, r)
        BY <2>3, <2>5
      <3>2. r \notin k.crossed
        BY <2>1, <2>2, <2>4, <3>1
      <3>3. r \in j.crossed
        BY <1>5, <2>5
      <3>4. Cardinality(CrossingsIn(i.moves, r)) = Cardinality(CrossingsIn(k.moves, r)) + 1
        BY <2>2, <2>5, <3>1
      <3>. QED BY <1>5, <2>1, <2>4, <3>1, <3>2, <3>3, <3>4
    <2>6. CASE ~(r = p /\ Crosses(i, p, n))
      <3>1. r \in j.crossed <=> r \in k.crossed
        BY <1>5, <2>6
      <3>2. Cardinality(CrossingsIn(i.moves, r)) = Cardinality(CrossingsIn(k.moves, r))
        BY <2>2, <2>3, <2>6
      <3>3. OnHand(i.quants, r) <= OnHand(k.quants, r)
        BY <1>1, <2>2
      <3>4. r \in j.crossed => OnHand(i.quants, r) <= ReorderPoint[r]
        BY <2>1, <2>2, <2>4, <3>1, <3>3
      <3>. QED BY <1>5, <2>1, <3>1, <3>2, <3>4
    <2>. QED BY <2>5, <2>6
  <1>8. j \in DeliveryWorks
    BY <1>6, <1>7 DEF DeliveryWorks
  <1>. QED BY <1>8 DEF j

\* and so does a delivery.
LEMMA DeliveryKeeps ==
  ASSUME StockTypeOK, Loaded \in DeliveryWorks, NEW w \in Warehouses,
         NEW lines \in Seq([product : Products, qty : Nat \ {0}]), NEW doc \in Docs
  PROVE  Delivered(w, lines, doc) \in DeliveryWorks
  <1> DEFINE K == [T \in SUBSET DOMAIN lines |-> DeliveryWorks]
  <1>1. Loaded \in K[{}]
    OBVIOUS
  <1>2. \A T \in SUBSET DOMAIN lines : T # {} =>
          \A k \in K[T \ {Max(T)}] : DeliverLine(k, lines[Max(T)], w, doc) \in K[T]
    <2>1. ASSUME NEW T \in SUBSET DOMAIN lines, T # {}, NEW k \in DeliveryWorks
          PROVE  DeliverLine(k, lines[Max(T)], w, doc) \in DeliveryWorks
      <3>1. lines[Max(T)] \in [product : Products, qty : Nat \ {0}]
        BY <2>1, LinesOf
      <3>. QED BY <3>1, DeliveryLine
    <2>. QED BY <2>1
  <1>3. IsFiniteSet(DOMAIN lines) /\ DOMAIN lines \subseteq Int
    BY LinesOf
  <1> HIDE DEF K
  <1>4. Delivered(w, lines, doc) \in K[DOMAIN lines]
    BY <1>1, <1>2, <1>3, DeliveredStays
  <1>. QED BY <1>4 DEF K

(***************************************************************************)
(* The stock that a behaviour is in.                                       *)
(***************************************************************************)
\* The inductive invariant: moves, balances, layers and alerts agree.
CardexInv ==
  /\ Even(quants, moves) /\ Layered(quants, moves)
  /\ \A p \in Products : Cardinality(CrossingsIn(moves, p)) = alerts[p]

\* It is what the work of a request begins with,
LEMMA LoadedCardex ==
  ASSUME StockTypeOK
  PROVE  /\ CardexInv <=> Loaded \in CardexWorks
         /\ CardexInv => Loaded \in DeliveryWorks
  <1>1. Loaded \in Works /\ Loaded.quants = quants /\ Loaded.moves = moves /\ Loaded.crossed = {}
    BY LoadedType DEF Loaded
  <1>2. CardexInv <=> Loaded \in CardexWorks
    BY <1>1 DEF CardexInv, CardexWorks, EvenWorks
  <1>3. CardexInv => Loaded \in DeliveryWorks
    <2>1. \A p \in Products : alerts[p] \in Nat
      BY DEF StockTypeOK
    <2>. QED BY <1>1, <2>1 DEF CardexInv, DeliveryWorks, EvenWorks
  <1>. QED BY <1>2, <1>3

\* and what is true when the work is taken over.
LEMMA CardexAdopted ==
  ASSUME NEW k \in CardexWorks, quants' = k.quants, moves' = k.moves, method' = method, alerts' = alerts
  PROVE  CardexInv'
  <1>1. Even(quants', moves')
    BY DEF CardexWorks, EvenWorks
  <1>2. Layered(quants', moves')
    BY DEF CardexWorks, EvenWorks
  <1>3. \A p \in Products : Cardinality(CrossingsIn(moves', p)) = alerts'[p]
    BY DEF CardexWorks
  <1>4. Layered(quants, moves)'
    BY <1>2 DEF Layered, Below, AfterAt, MovedAt
  <1>5. Even(quants, moves)'
    BY <1>1 DEF Even, After, AfterAt, MovedOf, MovedAt, OnHand
  <1>6. (\A p \in Products : Cardinality(CrossingsIn(moves, p)) = alerts[p])'
    BY <1>3 DEF CrossingsIn, After, MovedOf
  <1>. QED BY <1>4, <1>5, <1>6 DEF CardexInv

\* A delivery to a customer keeps it.
LEMMA CardexByDelivery ==
  ASSUME StockTypeOK, CardexInv, NEW w \in Warehouses, NEW x \in Invoiced, Deliver(w, x)
  PROVE  CardexInv'
  <1> DEFINE doc == <<"invoice", Len(moves)>>
             k == Delivered(w, x, doc)
  <1>1. doc \in Docs
    <2>1. Len(moves) \in Nat
      BY LenProperties DEF StockTypeOK
    <2>. QED BY <2>1, Zenon DEF Docs
  <1>2. k \in DeliveryWorks
    <2>1. x \in Seq([product : Products, qty : Nat \ {0}])
      BY InventoryAssumption
    <2> HIDE DEF doc
    <2>. QED BY <1>1, <2>1, DeliveryKeeps, LoadedCardex
  <1>3. /\ quants' = k.quants /\ moves' = k.moves /\ method' = method
        /\ alerts' = [p \in Products |-> alerts[p] + IF p \in k.crossed THEN 1 ELSE 0]
    BY DEF Deliver, Adopt
  <1> HIDE DEF k
  <1>4. Even(quants', moves') /\ Layered(quants', moves')
    BY <1>2, <1>3 DEF DeliveryWorks, EvenWorks
  <1>5. \A p \in Products : Cardinality(CrossingsIn(moves', p)) = alerts'[p]
    BY <1>2, <1>3 DEF DeliveryWorks
  <1>6. Layered(quants, moves)'
    BY <1>3, <1>4 DEF Layered, Below, AfterAt, MovedAt
  <1>7. Even(quants, moves)'
    BY <1>4 DEF Even, After, AfterAt, MovedOf, MovedAt, OnHand
  <1>8. (\A p \in Products : Cardinality(CrossingsIn(moves, p)) = alerts[p])'
    BY <1>5 DEF CrossingsIn, After, MovedOf
  <1>. QED BY <1>6, <1>7, <1>8 DEF CardexInv

\* A database without stock agrees with its moves: there are none.
LEMMA NothingCardex ==
  ASSUME \A p \in Products : alerts[p] = 0
  PROVE  Nothing \in CardexWorks
  <1> DEFINE qs == [p \in Products |-> [w \in Warehouses |-> NoQuant]]
  <1>1. Nothing \in Works /\ Nothing.quants = qs /\ Nothing.moves = <<>>
    BY NothingType DEF Nothing
  <1>2. qs \in [Products -> [Warehouses -> QuantRows]]
    BY <1>1 DEF Works, WorkRows
  <1>3. Len(<<>>) = 0 /\ 1 .. 0 = {} /\ DOMAIN <<>> = {}
    OBVIOUS
  <1>4. \A p, w : After(<<>>, p, Len(<<>>)) = 0 /\ AfterAt(<<>>, p, w, Len(<<>>)) = 0
    BY <1>3, SumOfEmpty DEF After, AfterAt
  <1>5. ASSUME NEW p \in Products PROVE OnHand(qs, p) = 0
    <2>1. OnHand(qs, p) = SumFunctionOnSet(QtyAt(qs, p), Warehouses)
      BY <1>2, OnHandIs
    <2>2. \A w \in Warehouses : QtyAt(qs, p)[w] = 0
      BY DEF QtyAt, NoQuant
    <2>3. IsFiniteSet(Warehouses)
      BY InventoryAssumption
    <2> HIDE DEF qs
    <2>4. SumFunctionOnSet(QtyAt(qs, p), Warehouses) = 0
      BY <2>2, <2>3, SumOfZeros
    <2>. QED BY <2>1, <2>4
  <1>6. LayersQty(NoQuant) = 0
    <2>1. NoQuant.layers = <<>> /\ <<>> \in Layers
      BY DEF NoQuant, Layers
    <2>2. LayersQty(NoQuant) = SumFunctionOnSet(Units(<<>>), 1 .. Len(<<>>))
      BY <2>1, LayersQtyIs
    <2>. QED BY <1>3, <2>2, SumOfEmpty
  <1>7. \A p \in Products, w \in Warehouses : qs[p][w] = NoQuant /\ NoQuant.qty = 0
    BY DEF NoQuant
  <1> HIDE DEF qs
  <1>8. Even(qs, <<>>)
    BY <1>4, <1>5, <1>7 DEF Even
  <1>9. Layered(qs, <<>>)
    BY <1>6, <1>7 DEF Layered
  <1>10. \A p \in Products : Cardinality(CrossingsIn(<<>>, p)) = 0
    <2>1. \A p : CrossingsIn(<<>>, p) = {}
      BY <1>3 DEF CrossingsIn
    <2>. QED BY <2>1, FS_EmptySet
  <1>11. Nothing \in EvenWorks
    BY <1>1, <1>8, <1>9 DEF EvenWorks
  <1>. QED BY <1>1, <1>10, <1>11 DEF CardexWorks

\* Every database that a behaviour begins with agrees with its moves.
LEMMA CardexInit == Init => CardexInv
  <1> SUFFICES ASSUME Init PROVE CardexInv
    OBVIOUS
  <1>1. PICK o \in Openings : quants = OpenedWith(o.goods).quants /\ moves = OpenedWith(o.goods).moves
    BY DEF Init
  <1>2. o.goods \in Seq(OpeningLines)
    BY OpeningsAssumption DEF OpeningLines
  <1>3. \A p \in Products : alerts[p] = 0
    BY DEF Init
  <1>4. OpenedWith(o.goods) \in CardexWorks
    BY <1>2, <1>3, NothingCardex, CardexLeads, OpenedWithType
  <1>. QED BY <1>1, <1>4 DEF CardexInv, CardexWorks, EvenWorks

\* Nothing moves: nothing changes.
LEMMA CardexSame ==
  ASSUME StockTypeOK, CardexInv, UNCHANGED <<method, quants, moves, alerts>>
  PROVE  CardexInv'
  <1>1. Loaded \in CardexWorks /\ quants' = Loaded.quants /\ moves' = Loaded.moves
    BY LoadedCardex DEF Loaded
  <1>. QED BY <1>1, CardexAdopted

\* A receipt keeps it
LEMMA CardexByReceive ==
  ASSUME TypeInv, CardexInv, NEW t \in Txns, Receive(t)
  PROVE  CardexInv'
  <1>0. StockTypeOK /\ PurchaseTypeOK
    BY DEF TypeInv
  <1> DEFINE o == tx[t].o
             rl == tx[t].arg
             bl == ReceiptLines(o, rl)
  <1>1. /\ UNCHANGED <<method, alerts>> /\ ReceiveStocks(t, bl)
        /\ ReceiveWrites(t, o, rl, bl, AddReceived(orders[o].lines, rl))
    BY <1>0, ReceiveIs
  <1>2. bl \in Seq(BillLines)
    <2>1. /\ tx[t].op = "receive" /\ orders[o] \in OrderRows
          /\ rl \in Seq(Payloads) /\ \A i \in DOMAIN rl : rl[i].line \in DOMAIN orders[o].lines
      BY <1>1 DEF ReceiveWrites
    <2>2. tx[t] # Idle
      BY DEF Receive
    <2>3. o \in DOMAIN orders
      BY <1>0, <2>1, <2>2, OpenRequest DEF OfOrders
    <2>4. orders[o].lines \in Seq(OrderLines)
      BY <2>1, OrderParts
    <2>. QED BY <2>1, <2>3, <2>4, ReceiptLinesAre
  <1>3. PICK w \in Warehouses : \E k \in Works :
            /\ k = Arrived(bl, w, <<"goods_receipt", tx[t].number>>)
            /\ quants' = k.quants /\ moves' = k.moves
    BY <1>1 DEF ReceiveStocks
  <1>4. <<"goods_receipt", tx[t].number>> \in Docs
    <2>1. tx[t].number \in Nat
      BY <1>1 DEF ReceiveStocks
    <2>. QED BY <2>1, Zenon DEF Docs
  <1> HIDE DEF bl, rl, o
  <1>5. Arrived(bl, w, <<"goods_receipt", tx[t].number>>) \in CardexWorks
    BY <1>0, <1>2, <1>4, LoadedCardex, CardexLeads, ArrivedType
  <1>. QED BY <1>1, <1>3, <1>5, CardexAdopted

\* and so does a debit note: its goods leave.
LEMMA CardexByNote ==
  ASSUME TypeInv, CardexInv, NEW t \in Txns, DebitNote(t)
  PROVE  CardexInv'
  <1>0. StockTypeOK /\ PurchaseTypeOK
    BY DEF TypeInv
  <1> DEFINE a == tx[t].arg
             home == IF a.of # 0 THEN orders[a.of].at ELSE None
             doc == <<"debit_note", tx[t].number>>
             Left == IF a.restock THEN {SentBack(a.lines, w, doc) : w \in Site(home)} ELSE {}
  <1>1. tx[t] # Idle /\ tx[t].op = "debit" /\ UNCHANGED <<method, alerts>>
    BY DEF DebitNote
  <1>2. PICK k \in IF Left = {} THEN {Loaded} ELSE Left : quants' = k.quants /\ moves' = k.moves
    BY DEF DebitNote
  <1>3. a.lines \in Seq(BillLines) /\ a.of \in DOMAIN orders \cup {0} /\ tx[t].number \in Nat
    BY <1>0, <1>1, OpenRequest DEF RequestOK
  <1>4. home \in Warehouses \cup {None}
    <2>1. a.of # 0 => orders[a.of] \in OrderRows
      BY <1>0, <1>3, RowsOf DEF PurchaseTypeOK, DocumentsOK
    <2>. QED BY <2>1, OrderParts
  <1>5. doc \in Docs
    BY <1>3, Zenon DEF Docs
  <1>6. Loaded \in CardexWorks
    BY <1>0, LoadedCardex
  <1>7. k \in CardexWorks
    <2>1. ASSUME NEW w \in Site(home) PROVE SentBack(a.lines, w, doc) \in CardexWorks
      <3>1. w \in Warehouses
        <4> HIDE DEF home
        <4>. QED BY <1>4, SiteType
      <3> HIDE DEF home, doc, a
      <3>. QED BY <1>0, <1>3, <1>5, <1>6, <3>1, CardexLeads, SentBackType
    <2>2. CASE Left = {}
      BY <1>2, <1>6, <2>2
    <2>3. CASE Left # {}
      <3>1. a.restock /\ k \in {SentBack(a.lines, w, doc) : w \in Site(home)}
        BY <1>2, <2>3
      <3> HIDE DEF home, doc, a
      <3>. QED BY <2>1, <3>1
    <2>. QED BY <2>2, <2>3
  <1> HIDE DEF Left
  <1>. QED BY <1>1, <1>2, <1>7, CardexAdopted

\* Every step keeps it.
LEMMA CardexStep == TypeInv /\ CardexInv /\ [Next]_vars => CardexInv'
  <1> SUFFICES ASSUME TypeInv, CardexInv, [Next]_vars PROVE CardexInv'
    OBVIOUS
  <1>0. StockTypeOK /\ PurchaseTypeOK
    BY DEF TypeInv
  <1>1. CASE StockNext
    <2>1. Loaded \in CardexWorks
      BY <1>0, LoadedCardex
    <2>2. Adopts(CardexWorks) \/ \E w \in Warehouses, x \in Invoiced : Deliver(w, x)
      BY <1>0, <1>1, <2>1, CardexLeads, StockStep
    <2>3. CASE Adopts(CardexWorks)
      BY <2>3, CardexAdopted DEF Adopts
    <2>4. CASE \E w \in Warehouses, x \in Invoiced : Deliver(w, x)
      BY <1>0, <2>4, CardexByDelivery
    <2>. QED BY <2>2, <2>3, <2>4
  <1>2. CASE UNCHANGED <<method, quants, moves, alerts>>
    BY <1>0, <1>2, CardexSame
  <1>3. CASE UNCHANGED vars
    BY <1>2, <1>3 DEF vars, stockVars
  <1>4. CASE CreateOrder
    BY <1>2, <1>4 DEF CreateOrder, stockVars
  <1>5. ASSUME NEW t \in Txns, Reads(t) \/ Rollback(t) PROVE CardexInv'
    <2>1. UNCHANGED stockVars
      BY <1>0, <1>5, ReadsAre, RollbackIs
    <2>. QED BY <1>2, <2>1 DEF stockVars
  <1>6. ASSUME NEW t \in Txns,
               UpdateOrder(t) \/ ConfirmOrder(t) \/ DecideApproval(t) \/ ShortClose(t) \/ ReopenLine(t)
        PROVE  CardexInv'
    <2>1. UNCHANGED stockVars
      BY <1>6 DEF UpdateOrder, ConfirmOrder, DecideApproval, ShortClose, ReopenLine, OrderOnly
    <2>. QED BY <1>2, <2>1 DEF stockVars
  <1>7. ASSUME NEW t \in Txns, Receive(t) PROVE CardexInv'
    BY <1>7, CardexByReceive
  <1>8. ASSUME NEW t \in Txns, RegisterBill(t) \/ EditBill(t) PROVE CardexInv'
    <2>1. UNCHANGED stockVars
      BY <1>8 DEF RegisterBill, EditBill
    <2>. QED BY <1>2, <2>1 DEF stockVars
  <1>9. ASSUME NEW t \in Txns, PostBill(t) PROVE CardexInv'
    <2>1. UNCHANGED <<method, quants, moves, alerts>>
      BY <1>9 DEF PostBill
    <2>. QED BY <1>2, <2>1
  <1>10. ASSUME NEW t \in Txns, DebitNote(t) PROVE CardexInv'
    BY <1>10, CardexByNote
  <1>. QED BY <1>1, <1>3, <1>4, <1>5, <1>6, <1>7, <1>8, <1>9, <1>10, NextIs

(***************************************************************************)
(* The cardex                                                              *)
(***************************************************************************)
\* f is a on a's domain, and nothing on the rest of S.
Fills(f, a, S) == DOMAIN a \in SUBSET S /\ \A j \in S : IF j \in DOMAIN a THEN f[j] = a[j] ELSE f[j] = 0

\* A sum in two parts, of those that count
LEMMA TwoParts ==
  ASSUME NEW n \in Nat, NEW i \in 1 .. n + 1, NEW f, \A j \in 1 .. n : f[j] \in Int,
         NEW a, Fills(f, a, 1 .. i - 1), NEW b, Fills(f, b, i .. n)
  PROVE  SumFunction(a) + SumFunction(b) = SumFunctionOnSet(f, 1 .. n)
  <1>1. PICK S : S = 1 .. i - 1
    OBVIOUS
  <1>2. PICK T : T = i .. n
    OBVIOUS
  <1>3. PICK A : A = DOMAIN a
    OBVIOUS
  <1>4. PICK B : B = DOMAIN b
    OBVIOUS
  <1>5. IsFiniteSet(S)
    <2>1. i - 1 \in Int /\ 1 \in Int
      OBVIOUS
    <2>. QED BY <1>1, <2>1, FS_Interval
  <1>6. IsFiniteSet(T)
    <2>1. i \in Int /\ n \in Int
      OBVIOUS
    <2>. QED BY <1>2, <2>1, FS_Interval
  <1>7. S \cap T = {} /\ S \cup T = 1 .. n
    BY <1>1, <1>2
  <1>8. A \in SUBSET S /\ B \in SUBSET T
    BY <1>1, <1>2, <1>3, <1>4 DEF Fills
  <1>9. \A j \in S \cup T : f[j] \in Int
    BY <1>7
  <1>10. \A j \in A : f[j] = a[j] /\ a[j] \in Int
    BY <1>1, <1>3, <1>8, <1>9 DEF Fills
  <1>11. \A j \in S \ A : f[j] = 0
    BY <1>1, <1>3 DEF Fills
  <1>12. \A j \in B : f[j] = b[j] /\ b[j] \in Int
    BY <1>2, <1>4, <1>8, <1>9 DEF Fills
  <1>13. \A j \in T \ B : f[j] = 0
    BY <1>2, <1>4 DEF Fills
  <1>14. SumFunctionOnSet(a, A) = SumFunctionOnSet(f, S)
    <2>1. A \in SUBSET S
      BY <1>8
    <2>. QED BY <1>5, <1>10, <1>11, <2>1, SumOfSome, ZenonT(30)
  <1>15. SumFunctionOnSet(b, B) = SumFunctionOnSet(f, T)
    <2>1. B \in SUBSET T
      BY <1>8
    <2>. QED BY <1>6, <1>12, <1>13, <2>1, SumOfSome, ZenonT(30)
  <1>16. SumFunctionOnSet(f, S \cup T) = SumFunctionOnSet(f, S) + SumFunctionOnSet(f, T)
    <2>1. S \cap T = {}
      BY <1>7
    <2>. QED BY <1>5, <1>6, <1>9, <2>1, SumOfParts
  <1>17. SumFunction(a) = SumFunctionOnSet(a, A) /\ SumFunction(b) = SumFunctionOnSet(b, B)
    BY <1>3, <1>4 DEF SumFunction
  <1>. QED BY <1>7, <1>14, <1>15, <1>16, <1>17

\* What the cardex closes with, wherever it is opened, is what was moved in all,
LEMMA CardexOfAll ==
  ASSUME moves \in Seq(MoveRows), NEW p \in Products, NEW i \in 1 .. Len(moves) + 1
  PROVE  Cardex(p, None, i).closing = After(moves, p, Len(moves))
  <1> DEFINE n == Len(moves)
             A == {j \in 1 .. i - 1 : moves[j].product = p}
             B == {j \in i .. n : moves[j].product = p}
             f == MovedOf(moves, p)
             a == [j \in A |-> moves[j].qty]
             b == [j \in B |-> moves[j].qty]
  <1>1. DOMAIN moves = 1 .. n /\ n \in Nat /\ \A j \in 1 .. n : f[j] \in Int
    BY MovedType
  <1>2. Cardex(p, None, i).closing = SumFunction(a) + SumFunction(b)
    BY DEF Cardex
  <1>3. DOMAIN a \in SUBSET (1 .. i - 1) /\ DOMAIN b \in SUBSET (i .. n)
    OBVIOUS
  <1>4. \A j \in 1 .. i - 1 : j \in 1 .. n
    BY <1>1
  <1>5. \A j \in i .. n : j \in 1 .. n
    BY <1>1
  <1>6. \A j \in 1 .. i - 1 : IF j \in DOMAIN a THEN f[j] = a[j] ELSE f[j] = 0
    BY <1>1, <1>4 DEF MovedOf
  <1>7. \A j \in i .. n : IF j \in DOMAIN b THEN f[j] = b[j] ELSE f[j] = 0
    BY <1>1, <1>5 DEF MovedOf
  <1>8. n \in Nat /\ i \in 1 .. n + 1 /\ \A j \in 1 .. n : f[j] \in Int
    BY <1>1
  <1> HIDE DEF n, f, a, b
  <1>9. SumFunction(a) + SumFunction(b) = SumFunctionOnSet(f, 1 .. n)
    <2>1. n \in Nat
      BY <1>8
    <2>2. i \in 1 .. n + 1
      BY <1>8
    <2>3. \A j \in 1 .. n : f[j] \in Int
      BY <1>8
    <2>4. Fills(f, a, 1 .. i - 1)
      BY <1>3, <1>6 DEF Fills
    <2>5. Fills(f, b, i .. n)
      BY <1>3, <1>7 DEF Fills
    <2>. QED BY <2>1, <2>2, <2>3, <2>4, <2>5, TwoParts
  <1>10. After(moves, p, Len(moves)) = SumFunctionOnSet(f, 1 .. n)
    BY DEF After, f, n
  <1>. QED BY <1>2, <1>9, <1>10

\* and at one warehouse.
LEMMA CardexOfOne ==
  ASSUME moves \in Seq(MoveRows), NEW p \in Products, NEW w \in Warehouses, NEW i \in 1 .. Len(moves) + 1
  PROVE  Cardex(p, w, i).closing = AfterAt(moves, p, w, Len(moves))
  <1> DEFINE n == Len(moves)
             A == {j \in 1 .. i - 1 : moves[j].product = p /\ moves[j].at = w}
             B == {j \in i .. n : moves[j].product = p /\ moves[j].at = w}
             f == MovedAt(moves, p, w)
             a == [j \in A |-> moves[j].qty]
             b == [j \in B |-> moves[j].qty]
  <1>0. w # None
    BY InventoryAssumption
  <1>1. DOMAIN moves = 1 .. n /\ n \in Nat /\ \A j \in 1 .. n : f[j] \in Int
    BY MovedType
  <1>2. Cardex(p, w, i).closing = SumFunction(a) + SumFunction(b)
    BY <1>0 DEF Cardex
  <1>3. DOMAIN a \in SUBSET (1 .. i - 1) /\ DOMAIN b \in SUBSET (i .. n)
    OBVIOUS
  <1>4. \A j \in 1 .. i - 1 : j \in 1 .. n
    BY <1>1
  <1>5. \A j \in i .. n : j \in 1 .. n
    BY <1>1
  <1>6. \A j \in 1 .. i - 1 : IF j \in DOMAIN a THEN f[j] = a[j] ELSE f[j] = 0
    BY <1>1, <1>4 DEF MovedAt
  <1>7. \A j \in i .. n : IF j \in DOMAIN b THEN f[j] = b[j] ELSE f[j] = 0
    BY <1>1, <1>5 DEF MovedAt
  <1>8. n \in Nat /\ i \in 1 .. n + 1 /\ \A j \in 1 .. n : f[j] \in Int
    BY <1>1
  <1> HIDE DEF n, f, a, b
  <1>9. SumFunction(a) + SumFunction(b) = SumFunctionOnSet(f, 1 .. n)
    <2>1. n \in Nat
      BY <1>8
    <2>2. i \in 1 .. n + 1
      BY <1>8
    <2>3. \A j \in 1 .. n : f[j] \in Int
      BY <1>8
    <2>4. Fills(f, a, 1 .. i - 1)
      BY <1>3, <1>6 DEF Fills
    <2>5. Fills(f, b, i .. n)
      BY <1>3, <1>7 DEF Fills
    <2>. QED BY <2>1, <2>2, <2>3, <2>4, <2>5, TwoParts
  <1>10. AfterAt(moves, p, w, Len(moves)) = SumFunctionOnSet(f, 1 .. n)
    BY DEF AfterAt, f, n
  <1>. QED BY <1>2, <1>9, <1>10

\* The sums of the invariant that TLC checks are these.
LEMMA MovedSums ==
  ASSUME moves \in Seq(MoveRows), NEW p \in Products
  PROVE  /\ \A i \in 0 .. Len(moves) : OnHandAfter(p, i) = After(moves, p, i)
         /\ \A w : EverOverdrawn(p, w) <=> Below(moves, p, w)
         /\ Crossings(p) = CrossingsIn(moves, p)
  <1>1. DOMAIN moves = 1 .. Len(moves) /\ Len(moves) \in Nat
    BY LenProperties
  <1>2. ASSUME NEW i \in 0 .. Len(moves) PROVE OnHandAfter(p, i) = After(moves, p, i)
    <2> DEFINE g == [j \in 1 .. i |-> IF moves[j].product = p THEN moves[j].qty ELSE 0]
               f == MovedOf(moves, p)
    <2>1. DOMAIN g = 1 .. i /\ \A j \in 1 .. i : g[j] = f[j]
      BY <1>1 DEF MovedOf
    <2>2. i \in Int
      BY <1>1
    <2>3. IsFiniteSet(1 .. i)
      BY <2>2, FS_Interval
    <2>4. OnHandAfter(p, i) = SumFunctionOnSet(g, 1 .. i)
      BY <2>1 DEF OnHandAfter, TotalOf, SumFunction
    <2>5. After(moves, p, i) = SumFunctionOnSet(f, 1 .. i)
      BY DEF After
    <2> HIDE DEF f, g
    <2>6. SumFunctionOnSet(g, 1 .. i) = SumFunctionOnSet(f, 1 .. i)
      BY <2>1, <2>3, SumOfSame
    <2>. QED BY <2>4, <2>5, <2>6
  <1>3. ASSUME NEW w PROVE EverOverdrawn(p, w) <=> Below(moves, p, w)
    <2>1. ASSUME NEW i \in DOMAIN moves
          PROVE  TotalOf([j \in 1 .. i |-> IF moves[j].product = p /\ moves[j].at = w THEN moves[j].qty ELSE 0])
                   = AfterAt(moves, p, w, i)
      <3> DEFINE g == [j \in 1 .. i |-> IF moves[j].product = p /\ moves[j].at = w THEN moves[j].qty ELSE 0]
                 f == MovedAt(moves, p, w)
      <3>1. DOMAIN g = 1 .. i /\ \A j \in 1 .. i : g[j] = f[j]
        BY <1>1 DEF MovedAt
      <3>2. i \in Int
        BY <1>1
      <3>3. IsFiniteSet(1 .. i)
        BY <3>2, FS_Interval
      <3>4. TotalOf(g) = SumFunctionOnSet(g, 1 .. i)
        BY <3>1 DEF TotalOf, SumFunction
      <3>5. AfterAt(moves, p, w, i) = SumFunctionOnSet(f, 1 .. i)
        BY DEF AfterAt
      <3> HIDE DEF f, g
      <3>6. SumFunctionOnSet(g, 1 .. i) = SumFunctionOnSet(f, 1 .. i)
        BY <3>1, <3>3, SumOfSame
      <3>7. TotalOf(g) = AfterAt(moves, p, w, i)
        BY <3>4, <3>5, <3>6
      <3>. QED BY <3>7 DEF g
    <2>. QED BY <2>1 DEF EverOverdrawn, Below
  <1>4. Crossings(p) = CrossingsIn(moves, p)
    <2>1. \A i \in DOMAIN moves : i - 1 \in 0 .. Len(moves) /\ i \in 0 .. Len(moves)
      BY <1>1
    <2>2. \A i \in DOMAIN moves : OnHandAfter(p, i - 1) = After(moves, p, i - 1) /\ OnHandAfter(p, i) = After(moves, p, i)
      BY <1>2, <2>1
    <2>. QED BY <2>2 DEF Crossings, CrossingsIn
  <1>. QED BY <1>2, <1>3, <1>4

\* The inductive invariant implies the one that TLC checks.
LEMMA CardexShows == TypeInv /\ CardexInv => CardexIsOnHand
  <1> SUFFICES ASSUME TypeInv, CardexInv PROVE CardexIsOnHand
    OBVIOUS
  <1>1. StockTypeOK /\ moves \in Seq(MoveRows)
    BY DEF TypeInv, StockTypeOK
  <1> SUFFICES ASSUME NEW p \in Products
               PROVE  /\ \A i \in 1 .. Len(moves) + 1 :
                           /\ Cardex(p, None, i).closing = OnHand(quants, p)
                           /\ \A w \in Warehouses : Cardex(p, w, i).closing = BalanceByWarehouse(p)[w]
                      /\ method = "fifo" => \A w \in Warehouses :
                           EverOverdrawn(p, w) \/ LayersQty(quants[p][w]) = quants[p][w].qty
                      /\ alerts[p] = Cardinality(Crossings(p))
    BY DEF CardexIsOnHand
  <1>2. ASSUME NEW i \in 1 .. Len(moves) + 1 PROVE Cardex(p, None, i).closing = OnHand(quants, p)
    <2>1. Cardex(p, None, i).closing = After(moves, p, Len(moves))
      BY <1>1, CardexOfAll
    <2>. QED BY <2>1 DEF CardexInv, Even
  <1>3. ASSUME NEW i \in 1 .. Len(moves) + 1, NEW w \in Warehouses
        PROVE  Cardex(p, w, i).closing = BalanceByWarehouse(p)[w]
    <2>1. Cardex(p, w, i).closing = AfterAt(moves, p, w, Len(moves))
      BY <1>1, CardexOfOne
    <2>2. BalanceByWarehouse(p)[w] = quants[p][w].qty
      BY DEF BalanceByWarehouse
    <2>. QED BY <2>1, <2>2 DEF CardexInv, Even
  <1>4. ASSUME method = "fifo", NEW w \in Warehouses
        PROVE  EverOverdrawn(p, w) \/ LayersQty(quants[p][w]) = quants[p][w].qty
    <2>1. EverOverdrawn(p, w) <=> Below(moves, p, w)
      BY <1>1, MovedSums
    <2>. QED BY <1>4, <2>1 DEF CardexInv, Layered
  <1>5. alerts[p] = Cardinality(Crossings(p))
    <2>1. Crossings(p) = CrossingsIn(moves, p)
      BY <1>1, MovedSums
    <2>. QED BY <2>1 DEF CardexInv
  <1>. QED BY <1>2, <1>3, <1>4, <1>5

\* However stock is bought, sold, returned, moved and counted: the cardex of a
\* product closes with its balances from wherever it is opened, the layers of a
\* balance that never was overdrawn add up to it, and there was an alert for
\* each delivery that took the total to the reorder point.
THEOREM CardexHolds == Spec => []CardexIsOnHand
  <1>1. Init => TypeInv /\ CardexInv
    BY TypeOfInit, CardexInit
  <1>2. TypeInv /\ CardexInv /\ [Next]_vars => TypeInv' /\ CardexInv'
    BY TypeOfNext, CardexStep
  <1>3. TypeInv /\ CardexInv => CardexIsOnHand
    BY CardexShows
  <1>. QED BY <1>1, <1>2, <1>3, PTL DEF Spec

-----------------------------------------------------------------------------
(***************************************************************************)
(* What is in the books of purchasing.                                     *)
(***************************************************************************)
\* The terms of lines: what is ordered, and at which price
SameTerms(ls2, ls) ==
  /\ DOMAIN ls2 = DOMAIN ls
  /\ \A i \in DOMAIN ls : ls2[i].price = ls[i].price /\ ls2[i].product = ls[i].product

\* Billing changes no terms,
LEMMA BilledTerms ==
  ASSUME NEW ls \in Seq(OrderLines), NEW bl, NEW sign
  PROVE  SameTerms(AddBilled(ls, bl, sign), ls)
  <1>1. \A i \in DOMAIN ls : ls[i] \in OrderLines
    BY LineParts
  <1>2. ASSUME NEW x \in OrderLines, NEW n
        PROVE  [x EXCEPT !.billed = n].price = x.price /\ [x EXCEPT !.billed = n].product = x.product
    BY DEF OrderLines
  <1>3. /\ DOMAIN AddBilled(ls, bl, sign) = DOMAIN ls
        /\ \A i \in DOMAIN ls : AddBilled(ls, bl, sign)[i] = [ls[i] EXCEPT !.billed = ls[i].billed + sign * LastOf(bl, i)]
    BY DEF AddBilled
  <1>4. ASSUME NEW i \in DOMAIN ls
        PROVE  AddBilled(ls, bl, sign)[i].price = ls[i].price /\ AddBilled(ls, bl, sign)[i].product = ls[i].product
    <2> DEFINE x == ls[i]
               n == ls[i].billed + sign * LastOf(bl, i)
    <2>1. x \in OrderLines /\ AddBilled(ls, bl, sign)[i] = [x EXCEPT !.billed = n]
      BY <1>1, <1>3, <1>4
    <2> HIDE DEF x, n
    <2>2. [x EXCEPT !.billed = n].price = x.price /\ [x EXCEPT !.billed = n].product = x.product
      BY <1>2, <2>1
    <2>. QED BY <2>1, <2>2 DEF x
  <1>. QED BY <1>3, <1>4 DEF SameTerms

\* receiving changes none,
LEMMA ReceivedTerms ==
  ASSUME NEW ls \in Seq(OrderLines), NEW rl
  PROVE  SameTerms(AddReceived(ls, rl), ls)
  <1>1. \A i \in DOMAIN ls : ls[i] \in OrderLines
    BY LineParts
  <1>2. ASSUME NEW x \in OrderLines, NEW n
        PROVE  [x EXCEPT !.received = n].price = x.price /\ [x EXCEPT !.received = n].product = x.product
    BY DEF OrderLines
  <1>3. /\ DOMAIN AddReceived(ls, rl) = DOMAIN ls
        /\ \A i \in DOMAIN ls : AddReceived(ls, rl)[i] = [ls[i] EXCEPT !.received = ls[i].received + LastOf(rl, i)]
    BY DEF AddReceived
  <1>4. ASSUME NEW i \in DOMAIN ls
        PROVE  AddReceived(ls, rl)[i].price = ls[i].price /\ AddReceived(ls, rl)[i].product = ls[i].product
    <2> DEFINE x == ls[i]
               n == ls[i].received + LastOf(rl, i)
    <2>1. x \in OrderLines /\ AddReceived(ls, rl)[i] = [x EXCEPT !.received = n]
      BY <1>1, <1>3, <1>4
    <2> HIDE DEF x, n
    <2>2. [x EXCEPT !.received = n].price = x.price /\ [x EXCEPT !.received = n].product = x.product
      BY <1>2, <2>1
    <2>. QED BY <2>1, <2>2 DEF x
  <1>. QED BY <1>3, <1>4 DEF SameTerms

\* and neither does closing.
LEMMA ClosedTerms ==
  ASSUME NEW ls \in Seq(OrderLines), NEW short
  PROVE  SameTerms(Closed(ls, short), ls)
  <1>1. \A i \in DOMAIN ls : ls[i] \in OrderLines
    BY LineParts
  <1>2. ASSUME NEW x \in OrderLines, NEW n
        PROVE  [x EXCEPT !.closed = n].price = x.price /\ [x EXCEPT !.closed = n].product = x.product
    BY DEF OrderLines
  <1>3. /\ DOMAIN Closed(ls, short) = DOMAIN ls
        /\ \A i \in DOMAIN ls : Closed(ls, short)[i] = [ls[i] EXCEPT !.closed = (ls[i].closed \/ i \in short)]
    BY DEF Closed
  <1>4. ASSUME NEW i \in DOMAIN ls
        PROVE  Closed(ls, short)[i].price = ls[i].price /\ Closed(ls, short)[i].product = ls[i].product
    <2> DEFINE x == ls[i]
               n == (ls[i].closed \/ i \in short)
    <2>1. x \in OrderLines /\ Closed(ls, short)[i] = [x EXCEPT !.closed = n]
      BY <1>1, <1>3, <1>4
    <2> HIDE DEF x, n
    <2>2. [x EXCEPT !.closed = n].price = x.price /\ [x EXCEPT !.closed = n].product = x.product
      BY <1>2, <2>1
    <2>. QED BY <2>1, <2>2 DEF x
  <1>. QED BY <1>3, <1>4 DEF SameTerms

\* Lines that were compared with lines that were compared
LEMMA TermsCompose ==
  ASSUME NEW a, NEW b, NEW c, SameTerms(a, b), SameTerms(b, c)
  PROVE  SameTerms(a, c)
  BY DEF SameTerms

\* A write that changes no terms of its order
KeepsTerms(x, y) == x.edition = y.edition /\ SameTerms(x.lines, y.lines)

\* Every write of an order but an update is one.
LEMMA WritesKeepTerms ==
  ASSUME PurchaseTypeOK, NEW t \in Txns,
         \/ ConfirmOrder(t) \/ DecideApproval(t) \/ ShortClose(t) \/ ReopenLine(t)
         \/ RegisterBill(t) \/ EditBill(t) \/ Receive(t),
         NEW o, o = tx[t].o, o \in DOMAIN orders
  PROVE  KeepsTerms(orders'[o], orders[o])
  <1> DEFINE y == orders[o]
             ls == y.lines
  <1>0. y \in OrderRows /\ ls \in Seq(OrderLines) /\ DOMAIN orders = 1 .. Len(orders) /\ SameTerms(ls, ls)
    BY OrderNow, RowsOf DEF PurchaseTypeOK, DocumentsOK, SameTerms
  <1>1. ASSUME NEW x, orders' = [orders EXCEPT ![o] = x] PROVE orders'[o] = x
    BY <1>1
  <1>2. ASSUME NEW z, NEW st, KeepsTerms(z, y), z \in OrderRows
        PROVE  KeepsTerms([z EXCEPT !.status = st], y)
    BY <1>2, OrderRowsAre DEF OrderRec, KeepsTerms
  <1>3. CASE ConfirmOrder(t)
    <2>1. orders'[o] \in {[y EXCEPT !.status = "pending_approval", !.approval = "pending"], [y EXCEPT !.status = "confirmed"]}
      BY <1>1, <1>3 DEF ConfirmOrder, WriteOrder
    <2> HIDE DEF y
    <2>. QED BY <1>0, <2>1, OrderRowsAre DEF OrderRec, KeepsTerms, y
  <1>4. CASE DecideApproval(t)
    <2>1. orders'[o] \in {[y EXCEPT !.status = "confirmed", !.approval = "approved"],
                          [y EXCEPT !.status = "draft", !.approval = "rejected"]}
      BY <1>1, <1>4 DEF DecideApproval, WriteOrder
    <2> HIDE DEF y
    <2>. QED BY <1>0, <2>1, OrderRowsAre DEF OrderRec, KeepsTerms, y
  <1>5. ASSUME NEW ls2, SameTerms(ls2, ls), NEW st
        PROVE  /\ KeepsTerms([y EXCEPT !.lines = ls2], y)
               /\ KeepsTerms([y EXCEPT !.lines = ls2, !.status = st], y)
               /\ KeepsTerms([y EXCEPT !.status = st, !.lines = ls2], y)
    <2>1. y \in OrderRec
      BY <1>0, OrderRowsAre
    <2> HIDE DEF y
    <2>2. /\ [y EXCEPT !.lines = ls2].edition = y.edition /\ [y EXCEPT !.lines = ls2].lines = ls2
          /\ [y EXCEPT !.lines = ls2, !.status = st].edition = y.edition
          /\ [y EXCEPT !.lines = ls2, !.status = st].lines = ls2
          /\ [y EXCEPT !.status = st, !.lines = ls2].edition = y.edition
          /\ [y EXCEPT !.status = st, !.lines = ls2].lines = ls2
      BY <2>1 DEF OrderRec
    <2>. QED BY <1>5, <2>2 DEF KeepsTerms
  <1>6. CASE ShortClose(t)
    <2>1. orders'[o] = [y EXCEPT !.status = "closed", !.lines = Closed(ls, ShortLines(tx[t].seen))]
      BY <1>1, <1>6 DEF ShortClose, WriteOrder
    <2>2. KeepsTerms([y EXCEPT !.status = "closed", !.lines = Closed(ls, ShortLines(tx[t].seen))], y)
      <3> HIDE DEF y, ls
      <3>. QED BY <1>0, <1>5, ClosedTerms
    <2>. QED BY <2>1, <2>2
  <1>7. CASE ReopenLine(t)
    <2>1. PICK i : i = tx[t].arg
      OBVIOUS
    <2>2. PICK st : orders'[o] = [y EXCEPT !.lines[i].closed = FALSE, !.status = st]
      BY <1>1, <1>7, <2>1 DEF ReopenLine, WriteOrder
    <2> DEFINE ls2 == [ls EXCEPT ![i].closed = FALSE]
    <2>3. orders'[o] = [y EXCEPT !.lines = ls2, !.status = st]
      <3>1. y \in OrderRec
        BY <1>0, OrderRowsAre
      <3> HIDE DEF y
      <3>. QED BY <2>2, <3>1 DEF OrderRec, y
    <2>4. SameTerms(ls2, ls)
      <3>1. \A j \in DOMAIN ls : ls[j] \in OrderLines
        BY <1>0, LineParts
      <3> HIDE DEF ls
      <3>2. DOMAIN ls2 = DOMAIN ls /\ \A j \in DOMAIN ls : ls2[j] = IF j = i THEN [ls[j] EXCEPT !.closed = FALSE] ELSE ls[j]
        OBVIOUS
      <3> HIDE DEF ls2
      <3>3. ASSUME NEW x \in OrderLines
            PROVE  [x EXCEPT !.closed = FALSE].price = x.price /\ [x EXCEPT !.closed = FALSE].product = x.product
        BY DEF OrderLines
      <3>. QED BY <3>1, <3>2, <3>3 DEF SameTerms
    <2>5. KeepsTerms([y EXCEPT !.lines = ls2, !.status = st], y)
      <3> HIDE DEF ls2, y, ls
      <3>. QED BY <1>5, <2>4
    <2>. QED BY <2>3, <2>5
  <1>8. CASE RegisterBill(t)
    <2>1. orders'[o] = [y EXCEPT !.lines = AddBilled(ls, tx[t].arg, 1)]
      BY <1>1, <1>8 DEF RegisterBill, WriteOrder
    <2> HIDE DEF y, ls
    <2>. QED BY <1>0, <1>5, <2>1, BilledTerms DEF y
  <1>9. CASE EditBill(t)
    <2>0. PICK s : s = tx[t].seen.lines
      OBVIOUS
    <2>1. orders'[o] = [y EXCEPT !.lines = AddBilled(AddBilled(ls, s, -1), tx[t].arg, 1)] /\ s \in Seq(BillLines)
      BY <1>1, <1>9, <2>0, EditBillIs DEF EditBill, WriteOrder
    <2> DEFINE m == AddBilled(ls, s, -1)
    <2> HIDE DEF y, ls
    <2>2. SameTerms(m, ls) /\ m \in Seq(OrderLines)
      <3>1. -1 \in Int
        OBVIOUS
      <3>. QED BY <1>0, <2>1, <3>1, BilledTerms, AddBilledType
    <2>3. orders'[o] = [y EXCEPT !.lines = AddBilled(m, tx[t].arg, 1)]
      BY <2>1
    <2> HIDE DEF m
    <2>4. SameTerms(AddBilled(m, tx[t].arg, 1), m)
      BY <2>2, BilledTerms
    <2>5. SameTerms(AddBilled(m, tx[t].arg, 1), ls)
      BY <2>2, <2>4, TermsCompose
    <2>. QED BY <1>5, <2>3, <2>5 DEF y
  <1>10. CASE Receive(t)
    <2>0. PICK rl : rl = tx[t].arg
      OBVIOUS
    <2> DEFINE bl == ReceiptLines(o, rl)
               st == Written(tx[t].seen.status, StatusAfter(tx[t].seen.status, AddReceived(ls, rl)), y.status)
    <2>1. orders'[o] = [y EXCEPT !.lines = AddBilled(AddReceived(ls, rl), bl, 1), !.status = st]
      <3>1. WriteOrder(t, [y EXCEPT !.lines = AddBilled(AddReceived(ls, rl), bl, 1), !.status = st])
        BY <1>10, <2>0 DEF Receive, ReceiptLines
      <3>. QED BY <1>1, <3>1 DEF WriteOrder
    <2>2. rl \in Seq(Payloads)
      BY <1>10, <2>0, OpenRequest DEF Receive, RequestOK
    <2> DEFINE m == AddReceived(ls, rl)
    <2> HIDE DEF y, ls, bl, st
    <2>3. SameTerms(m, ls) /\ m \in Seq(OrderLines)
      BY <1>0, <2>2, ReceivedTerms, AddReceivedType
    <2>4. orders'[o] = [y EXCEPT !.lines = AddBilled(m, bl, 1), !.status = st]
      BY <2>1
    <2> HIDE DEF m
    <2>5. SameTerms(AddBilled(m, bl, 1), ls)
      BY <2>3, BilledTerms, TermsCompose
    <2>6. KeepsTerms([y EXCEPT !.lines = AddBilled(m, bl, 1), !.status = st], y)
      BY <1>5, <2>5
    <2>. QED BY <2>4, <2>6 DEF y
  <1>. QED BY <1>3, <1>4, <1>6, <1>7, <1>8, <1>9, <1>10

\* An update replaces the lines of an order that no document refers to.
Replaces(o) ==
  /\ orders[o].edition < orders'[o].edition
  /\ \A r \in DOMAIN receipts : receipts[r].of # o
  /\ \A b \in DOMAIN bills : bills[b].of = o => \A i \in DOMAIN bills[b].lines : bills[b].lines[i].line = 0

\* It may, because the order had no document when the update wrote it.
LEMMA UpdateReplaces ==
  ASSUME PurchaseTypeOK, NEW t \in Txns, UpdateOrder(t)
  PROVE  Replaces(tx[t].o)
  <1> DEFINE o == tx[t].o
             y == orders[o]
             basket == tx[t].arg.basket
             w == Written(tx[t].seen.at, tx[t].arg.at, y.at)
             n == Written(tx[t].seen.total, Value(basket), y.total)
             ls == NewLines(basket)
  <1>1. orders' = [orders EXCEPT ![o] = [y EXCEPT !.edition = y.edition + 1, !.lines = ls, !.at = w, !.total = n]]
    BY DEF UpdateOrder, WriteOrder
  <1>2. o \in DOMAIN orders
    BY UpdateOrderIs
  <1>3. y \in OrderRec /\ y.edition \in Nat
    BY <1>2, OrderNow, OrderParts, OrderRowsAre
  <1>4. y.edition < orders'[o].edition
    <2>1. orders'[o] = [y EXCEPT !.edition = y.edition + 1, !.lines = ls, !.at = w, !.total = n]
      BY <1>1, <1>2
    <2> HIDE DEF y, w, n, ls
    <2>2. orders'[o].edition = y.edition + 1
      BY <1>3, <2>1 DEF OrderRec
    <2>. QED BY <1>3, <2>2
  <1>5. /\ \A r \in DOMAIN receipts : receipts[r].of # o
        /\ \A b \in DOMAIN bills : bills[b].of = o => \A i \in DOMAIN bills[b].lines : bills[b].lines[i].line = 0
    BY DEF UpdateOrder
  <1>. QED BY <1>4, <1>5 DEF Replaces

\* What a step may do to the terms of an order there is
LEMMA TermsStep ==
  ASSUME TypeInv, [Next]_vars, NEW o \in DOMAIN orders
  PROVE  o \in DOMAIN orders' /\ (KeepsTerms(orders'[o], orders[o]) \/ Replaces(o))
  <1>1. StockTypeOK /\ PurchaseTypeOK
    BY DEF TypeInv
  <1>2. KeepsTerms(orders[o], orders[o])
    BY DEF KeepsTerms, SameTerms
  <1>3. ASSUME NEW t \in Txns, Writes(t), tx[t].o \in DOMAIN orders => KeepsTerms(orders'[tx[t].o], orders[tx[t].o])
        PROVE  o \in DOMAIN orders' /\ KeepsTerms(orders'[o], orders[o])
    BY <1>2, <1>3 DEF Writes
  <1>4. ASSUME NEW t \in Txns,
               \/ ConfirmOrder(t) \/ DecideApproval(t) \/ ShortClose(t) \/ ReopenLine(t)
               \/ RegisterBill(t) \/ EditBill(t) \/ Receive(t)
        PROVE  o \in DOMAIN orders' /\ KeepsTerms(orders'[o], orders[o])
    <2>1. Writes(t)
      BY <1>1, <1>4, ConfirmOrderIs, DecideApprovalIs, ShortCloseIs, ReopenLineIs, RegisterBillIs, EditBillIs, ReceiveIs
    <2>2. tx[t].o \in DOMAIN orders => KeepsTerms(orders'[tx[t].o], orders[tx[t].o])
      BY <1>1, <1>4, WritesKeepTerms
    <2>. QED BY <1>3, <2>1, <2>2
  <1>5. CASE UNCHANGED orders
    BY <1>2, <1>5
  <1>6. CASE CreateOrder
    BY <1>1, <1>2, <1>6, CreateOrderIs
  <1>7. ASSUME NEW t \in Txns, UpdateOrder(t)
        PROVE  o \in DOMAIN orders' /\ (KeepsTerms(orders'[o], orders[o]) \/ Replaces(o))
    <2>1. CASE o = tx[t].o
      BY <1>1, <1>7, <2>1, UpdateOrderIs, UpdateReplaces
    <2>2. CASE o # tx[t].o
      BY <1>1, <1>2, <1>7, <2>2, UpdateOrderIs
    <2>. QED BY <2>1, <2>2
  <1>8. ASSUME NEW t \in Txns, PostBill(t) \/ DebitNote(t) PROVE UNCHANGED orders
    BY <1>8 DEF PostBill, DebitNote
  <1>. QED BY <1>1, <1>4, <1>5, <1>6, <1>7, <1>8, OrderSteps

\* The lines ls of a document name lines of the order x.
Names(ls, x) == \A i \in DOMAIN ls : ls[i].line \in DOMAIN x.lines

\* A bill of an order names lines of it, and a debit note is posted.
BillPlaced(b, os) ==
  IF b.type = "standard" THEN b.lines # <<>> /\ Names(b.lines, os[b.of]) ELSE b.status = "posted"

\* A receipt says of its order's lines what they say of themselves.
ReceiptPlaced(r, os) == \A i \in DOMAIN r.lines :
  LET l == r.lines[i]  m == os[r.of].lines[l.line]
  IN l.line \in DOMAIN os[r.of].lines /\ l.product = m.product /\ l.price = m.price

\* A request writes at least one line, of lines that its order has when it
\* writes them, and has read a bill that it may change.
RequestPlaced(r, os) ==
  /\ r.op = "receive" => r.arg # <<>>
  /\ r.op = "bill" => /\ r.arg # <<>>
                      /\ r.edition = os[r.o].edition => SameTerms(os[r.o].lines, r.seen.lines) /\ Names(r.arg, os[r.o])
  /\ r.op = "edit_bill" => r.arg # <<>> /\ Names(r.arg, os[r.o]) /\ r.seen.status \in Editable
  /\ r.op = "post_bill" => r.seen.status \notin {"mismatched", "posted"}

\* What every document and every request names of its order is there.
PlacedInv ==
  /\ \A b \in DOMAIN bills : BillPlaced(bills[b], orders)
  /\ \A r \in DOMAIN receipts : ReceiptPlaced(receipts[r], orders)
  /\ \A t \in Txns : tx[t] # Idle => RequestPlaced(tx[t], orders)

\* Names do not depend on more than terms.
LEMMA NamesKept ==
  ASSUME NEW ls, NEW x, NEW y, KeepsTerms(y, x), Names(ls, x)
  PROVE  Names(ls, y)
  BY DEF Names, KeepsTerms, SameTerms

\* An order with a bill is not replaced.
LEMMA BilledStays ==
  ASSUME PurchaseTypeOK, NEW b \in DOMAIN bills, bills[b].type = "standard", BillPlaced(bills[b], orders)
  PROVE  bills[b].of \in DOMAIN orders /\ ~Replaces(bills[b].of)
  <1>1. /\ bills[b] \in BillRows /\ bills[b].of \in DOMAIN orders /\ bills \in Seq(BillRows)
    BY RowsOf DEF PurchaseTypeOK, DocumentsOK
  <1>2. bills[b].lines \in Seq(BillLines)
    BY <1>1, BillParts
  <1>3. orders[bills[b].of].lines \in Seq(OrderLines)
    BY <1>1, OrderNow
  <1>4. 0 \notin DOMAIN orders[bills[b].of].lines
    BY <1>3, RowsOf
  <1>5. PICK i \in DOMAIN bills[b].lines : TRUE
    <2>1. bills[b].lines # <<>>
      BY DEF BillPlaced
    <2>2. DOMAIN bills[b].lines = 1 .. Len(bills[b].lines) /\ Len(bills[b].lines) \in Nat
      BY <1>2, RowsOf
    <2>3. Len(bills[b].lines) # 0
      BY <1>2, <2>1, EmptySeq
    <2>4. 1 \in DOMAIN bills[b].lines
      BY <2>2, <2>3
    <2>. QED BY <2>4
  <1>6. bills[b].lines[i].line # 0
    BY <1>4, <1>5 DEF BillPlaced, Names
  <1>. QED BY <1>1, <1>5, <1>6 DEF Replaces

\* What there was of documents and requests is right after the step.
StillPlaced ==
  /\ \A b \in DOMAIN bills : BillPlaced(bills[b], orders')
  /\ \A r \in DOMAIN receipts : ReceiptPlaced(receipts[r], orders')
  /\ \A t \in Txns : tx[t] # Idle => RequestPlaced(tx[t], orders')

\* It is, whatever the step.
LEMMA PlacedStays ==
  ASSUME TypeInv, PlacedInv, [Next]_vars
  PROVE  StillPlaced
  <1>1. StockTypeOK /\ PurchaseTypeOK
    BY DEF TypeInv
  <1>2. ASSUME NEW b \in DOMAIN bills PROVE BillPlaced(bills[b], orders')
    <2>1. BillPlaced(bills[b], orders)
      BY DEF PlacedInv
    <2>2. CASE bills[b].type = "standard"
      <3>1. KeepsTerms(orders'[bills[b].of], orders[bills[b].of])
        BY <1>1, <2>1, <2>2, BilledStays, TermsStep
      <3>2. bills[b].lines # <<>> /\ Names(bills[b].lines, orders[bills[b].of])
        BY <2>1, <2>2 DEF BillPlaced
      <3>3. Names(bills[b].lines, orders'[bills[b].of])
        BY <3>1, <3>2, NamesKept
      <3>. QED BY <2>2, <3>2, <3>3 DEF BillPlaced
    <2>3. CASE bills[b].type # "standard"
      BY <2>1, <2>3 DEF BillPlaced
    <2>. QED BY <2>2, <2>3
  <1>3. ASSUME NEW r \in DOMAIN receipts PROVE ReceiptPlaced(receipts[r], orders')
    <2>1. receipts[r].of \in DOMAIN orders /\ ~Replaces(receipts[r].of)
      BY <1>1 DEF PurchaseTypeOK, DocumentsOK, Replaces
    <2>2. KeepsTerms(orders'[receipts[r].of], orders[receipts[r].of])
      BY <2>1, TermsStep
    <2>3. ReceiptPlaced(receipts[r], orders)
      BY DEF PlacedInv
    <2>. QED BY <2>2, <2>3 DEF ReceiptPlaced, KeepsTerms, SameTerms
  <1>4. ASSUME NEW t \in Txns, tx[t] # Idle PROVE RequestPlaced(tx[t], orders')
    <2>1. RequestPlaced(tx[t], orders) /\ RequestOK(tx[t], orders, bills)
      BY <1>1, <1>4 DEF PlacedInv, PurchaseTypeOK
    <2>2. CASE tx[t].op = "bill"
      <3>1. tx[t].o \in DOMAIN orders /\ tx[t].edition <= orders[tx[t].o].edition /\ tx[t].edition \in Nat
        BY <2>1, <2>2 DEF RequestOK, OfOrders
      <3>2. orders[tx[t].o].edition \in Nat
        BY <1>1, <3>1, OrderNow, OrderParts
      <3>3. CASE KeepsTerms(orders'[tx[t].o], orders[tx[t].o])
        <4>1. tx[t].edition = orders'[tx[t].o].edition => tx[t].edition = orders[tx[t].o].edition
          BY <3>3 DEF KeepsTerms
        <4>2. tx[t].edition = orders[tx[t].o].edition =>
                SameTerms(orders[tx[t].o].lines, tx[t].seen.lines) /\ Names(tx[t].arg, orders[tx[t].o])
          BY <2>1, <2>2 DEF RequestPlaced
        <4>3. SameTerms(orders'[tx[t].o].lines, orders[tx[t].o].lines)
          BY <3>3 DEF KeepsTerms
        <4>4. tx[t].edition = orders'[tx[t].o].edition =>
                SameTerms(orders'[tx[t].o].lines, tx[t].seen.lines) /\ Names(tx[t].arg, orders'[tx[t].o])
          BY <3>3, <4>1, <4>2, <4>3, TermsCompose, NamesKept
        <4>. QED BY <2>1, <2>2, <4>4 DEF RequestPlaced
      <3>4. CASE orders[tx[t].o].edition < orders'[tx[t].o].edition
        <4>1. tx[t].edition # orders'[tx[t].o].edition
          BY <3>1, <3>2, <3>4
        <4>. QED BY <2>1, <2>2, <4>1 DEF RequestPlaced
      <3>. QED BY <3>1, <3>3, <3>4, TermsStep DEF Replaces
    <2>3. CASE tx[t].op = "edit_bill"
      <3>1. tx[t].b \in DOMAIN bills /\ bills[tx[t].b].type = "standard" /\ tx[t].o = bills[tx[t].b].of
        BY <2>1, <2>3 DEF RequestOK
      <3>2. BillPlaced(bills[tx[t].b], orders)
        BY <3>1 DEF PlacedInv
      <3>3. tx[t].o \in DOMAIN orders /\ ~Replaces(tx[t].o)
        BY <1>1, <3>1, <3>2, BilledStays
      <3>4. KeepsTerms(orders'[tx[t].o], orders[tx[t].o])
        BY <3>3, TermsStep
      <3>5. Names(tx[t].arg, orders'[tx[t].o])
        BY <2>1, <2>3, <3>4, NamesKept DEF RequestPlaced
      <3>. QED BY <2>1, <2>3, <3>5 DEF RequestPlaced
    <2>4. CASE tx[t].op \notin {"bill", "edit_bill"}
      BY <2>1, <2>4 DEF RequestPlaced
    <2>. QED BY <2>2, <2>3, <2>4
  <1>. QED BY <1>2, <1>3, <1>4 DEF StillPlaced

\* What a step writes is right if each row is one there was or one that is right.
LEMMA PlacedAfter ==
  ASSUME StillPlaced,
         \A b \in DOMAIN bills' : (b \in DOMAIN bills /\ bills'[b] = bills[b]) \/ BillPlaced(bills'[b], orders'),
         \A r \in DOMAIN receipts' : (r \in DOMAIN receipts /\ receipts'[r] = receipts[r]) \/ ReceiptPlaced(receipts'[r], orders'),
         \A t \in Txns : tx'[t] # Idle => tx'[t] = tx[t] \/ RequestPlaced(tx'[t], orders')
  PROVE  PlacedInv'
  <1>1. \A b \in DOMAIN bills' : BillPlaced(bills'[b], orders')
    BY DEF StillPlaced
  <1>2. \A r \in DOMAIN receipts' : ReceiptPlaced(receipts'[r], orders')
    BY DEF StillPlaced
  <1>3. \A t \in Txns : tx'[t] # Idle => RequestPlaced(tx'[t], orders')
    BY DEF StillPlaced
  <1>. QED BY <1>1, <1>2, <1>3 DEF PlacedInv

\* A request that has read is right too.
LEMMA ReadsPlaced ==
  ASSUME TypeInv, PlacedInv, NEW t \in Txns, Reads(t)
  PROVE  \E r : tx' = [tx EXCEPT ![t] = r] /\ RequestPlaced(r, orders)
  <1>1. PurchaseTypeOK /\ DocumentsOK(orders, receipts, bills)
    BY DEF TypeInv, PurchaseTypeOK
  <1>2. \A ls : SameTerms(ls, ls)
    BY DEF SameTerms
  <1>3. ASSUME NEW op, NEW o, NEW b, NEW arg, Begin(t, op, o, b, arg), RequestPlaced(Request(op, o, b, arg), orders)
        PROVE  \E r : tx' = [tx EXCEPT ![t] = r] /\ RequestPlaced(r, orders)
    BY <1>3 DEF Begin
  <1>4. ASSUME NEW op, NEW o, NEW b, NEW arg, o = 0 \/ o \in DOMAIN orders, op \notin {"receive", "bill", "edit_bill", "post_bill"}
        PROVE  RequestPlaced(Request(op, o, b, arg), orders)
    BY <1>1, <1>4, RequestParts DEF RequestPlaced
  <1>5. \A o \in DOMAIN orders : o \in Nat \ {0}
    BY <1>1, OrderNow
  <1>6. ASSUME NEW o \in DOMAIN orders,
               ReadUpdate(t, o) \/ ReadConfirm(t, o) \/ ReadApproval(t, o) \/ ReadShortClose(t, o) \/ ReadReopen(t, o)
        PROVE  \E r : tx' = [tx EXCEPT ![t] = r] /\ RequestPlaced(r, orders)
    <2>1. \E op, arg : Begin(t, op, o, 0, arg) /\ op \notin {"receive", "bill", "edit_bill", "post_bill"}
      <3>1. CASE ReadUpdate(t, o)
        BY <3>1 DEF ReadUpdate
      <3>2. CASE ReadConfirm(t, o)
        BY <3>2 DEF ReadConfirm
      <3>3. CASE ReadApproval(t, o)
        BY <3>3 DEF ReadApproval
      <3>4. CASE ReadShortClose(t, o)
        BY <3>4 DEF ReadShortClose
      <3>5. CASE ReadReopen(t, o)
        BY <3>5 DEF ReadReopen
      <3>. QED BY <1>6, <3>1, <3>2, <3>3, <3>4, <3>5
    <2>. QED BY <1>3, <1>4, <2>1
  <1>7. ASSUME NEW o \in DOMAIN orders, ReadReceive(t, o)
        PROVE  \E r : tx' = [tx EXCEPT ![t] = r] /\ RequestPlaced(r, orders)
    <2>0. PICK s \in Picked(o) : \E q \in [DOMAIN s -> Qtys] :
            Begin(t, "receive", o, 0, [i \in DOMAIN s |-> [line |-> s[i], qty |-> q[i]]])
      BY <1>7 DEF ReadReceive
    <2>1. PICK q \in [DOMAIN s -> Qtys] :
            Begin(t, "receive", o, 0, [i \in DOMAIN s |-> [line |-> s[i], qty |-> q[i]]])
      BY <2>0
    <2> DEFINE arg == [i \in DOMAIN s |-> [line |-> s[i], qty |-> q[i]]]
    <2>2. 1 \in DOMAIN s
      <3> DEFINE D == DOMAIN orders[o].lines
      <3>1. (\E i \in D : s = <<i>>) \/ (\E i, j \in D : s = <<i, j>>)
        BY <2>1 DEF Picked
      <3> HIDE DEF D
      <3>. QED BY <3>1
    <2>3. arg # <<>>
      <3>1. DOMAIN arg = DOMAIN s /\ DOMAIN <<>> = {}
        OBVIOUS
      <3> HIDE DEF arg
      <3>. QED BY <2>2, <3>1
    <2> HIDE DEF arg
    <2>4. RequestPlaced(Request("receive", o, 0, arg), orders)
      BY <1>1, <2>3, RequestParts DEF RequestPlaced
    <2>. QED BY <1>3, <2>1, <2>4 DEF arg
  <1>8. ASSUME NEW o \in DOMAIN orders, ReadBill(t, o)
        PROVE  \E r : tx' = [tx EXCEPT ![t] = r] /\ RequestPlaced(r, orders)
    <2>1. PICK i \in DOMAIN orders[o].lines, n \in Qtys, u \in BillPrices :
            Begin(t, "bill", o, 0, <<BillLine(o, i, n, u)>>)
      BY <1>8 DEF ReadBill
    <2>2. PICK arg : arg = <<BillLine(o, i, n, u)>>
      OBVIOUS
    <2>3. arg # <<>> /\ Names(arg, orders[o])
      BY <2>2 DEF Names, BillLine
    <2>4. RequestPlaced(Request("bill", o, 0, arg), orders)
      <3>1. PICK r : r = Request("bill", o, 0, arg)
        OBVIOUS
      <3>2. r.op = "bill" /\ r.o = o /\ r.arg = arg /\ r.seen = orders[o]
        BY <1>1, <1>5, <3>1, RequestParts
      <3>3. SameTerms(orders[o].lines, r.seen.lines)
        BY <1>2, <3>2
      <3>4. RequestPlaced(r, orders)
        BY <2>3, <3>2, <3>3 DEF RequestPlaced
      <3>. QED BY <3>1, <3>4
    <2>. QED BY <1>3, <2>1, <2>2, <2>4
  <1>9. ASSUME NEW b \in DOMAIN bills, ReadEditBill(t, b)
        PROVE  \E r : tx' = [tx EXCEPT ![t] = r] /\ RequestPlaced(r, orders)
    <2>1. PICK o : o = bills[b].of
      OBVIOUS
    <2>2. /\ bills[b].type = "standard" /\ bills[b].status \in Editable
          /\ \E i \in DOMAIN orders[o].lines, n \in Qtys, u \in BillPrices :
               Begin(t, "edit_bill", o, b, <<BillLine(o, i, n, u)>>)
      BY <1>9, <2>1 DEF ReadEditBill
    <2>3. o \in DOMAIN orders /\ b # 0
      <3>1. bills \in Seq(BillRows)
        BY <1>1 DEF DocumentsOK
      <3>2. b # 0
        BY <3>1, RowsOf
      <3>. QED BY <1>1, <2>1, <2>2, <3>2 DEF DocumentsOK
    <2>4. PICK i \in DOMAIN orders[o].lines, n \in Qtys, u \in BillPrices :
            Begin(t, "edit_bill", o, b, <<BillLine(o, i, n, u)>>)
      BY <2>2
    <2>5. PICK arg : arg = <<BillLine(o, i, n, u)>>
      OBVIOUS
    <2>6. arg # <<>> /\ Names(arg, orders[o])
      BY <2>5 DEF Names, BillLine
    <2>7. RequestPlaced(Request("edit_bill", o, b, arg), orders)
      <3>1. PICK r : r = Request("edit_bill", o, b, arg)
        OBVIOUS
      <3>2. r.op = "edit_bill" /\ r.o = o /\ r.arg = arg /\ r.seen = bills[b]
        BY <1>1, <2>3, <3>1, RequestParts
      <3>4. RequestPlaced(r, orders)
        BY <2>2, <2>6, <3>2 DEF RequestPlaced
      <3>. QED BY <3>1, <3>4
    <2>. QED BY <1>3, <2>4, <2>5, <2>7
  <1>10. ASSUME NEW b \in DOMAIN bills, ReadPostBill(t, b)
        PROVE  \E r : tx' = [tx EXCEPT ![t] = r] /\ RequestPlaced(r, orders)
    <2>1. bills[b].status \notin {"mismatched", "posted"} /\ Begin(t, "post_bill", bills[b].of, b, None)
      BY <1>10 DEF ReadPostBill
    <2>3. (bills[b].of = 0 \/ bills[b].of \in DOMAIN orders) /\ b # 0
      <3>1. bills \in Seq(BillRows)
        BY <1>1 DEF DocumentsOK
      <3>2. b # 0
        BY <3>1, RowsOf
      <3>. QED BY <1>1, <3>2 DEF DocumentsOK
    <2>4. PICK r : r = Request("post_bill", bills[b].of, b, None)
      OBVIOUS
    <2>5. r.op = "post_bill" /\ r.seen = bills[b]
      BY <1>1, <2>3, <2>4, RequestParts
    <2>6. RequestPlaced(r, orders)
      BY <2>1, <2>5 DEF RequestPlaced
    <2>. QED BY <1>3, <2>1, <2>4, <2>6
  <1>11. ASSUME NEW b \in DOMAIN bills, ReadDebitNote(t, b)
        PROVE  \E r : tx' = [tx EXCEPT ![t] = r] /\ RequestPlaced(r, orders)
    <2>1. bills[b].of = 0 \/ bills[b].of \in DOMAIN orders
      BY <1>1 DEF DocumentsOK
    <2>2. \E arg : Begin(t, "debit", bills[b].of, b, arg)
      BY <1>11 DEF ReadDebitNote
    <2>. QED BY <1>3, <1>4, <2>1, <2>2
  <1>12. ASSUME ReadReturn(t)
        PROVE  \E r : tx' = [tx EXCEPT ![t] = r] /\ RequestPlaced(r, orders)
    <2>2. \E b, arg : Begin(t, "debit", 0, b, arg)
      BY <1>12 DEF ReadReturn
    <2>. QED BY <1>3, <1>4, <2>2
  <1>. QED BY <1>6, <1>7, <1>8, <1>9, <1>10, <1>11, <1>12 DEF Reads

\* What the requests that write documents have to write names lines there are:
\* a bill's,
LEMMA RegisterPlaced ==
  ASSUME TypeInv, PlacedInv, NEW t \in Txns, RegisterBill(t), NEW o, o = tx[t].o, NEW bl, bl = tx[t].arg
  PROVE  /\ bl # <<>> /\ Names(bl, orders'[o]) /\ Names(bl, orders[o])
         /\ SameTerms(orders[o].lines, tx[t].seen.lines)
         /\ KeepsTerms(orders'[o], orders[o])
  <1>1. PurchaseTypeOK /\ o \in DOMAIN orders /\ tx[t] # Idle /\ tx[t].op = "bill" /\ SameLines(t)
    BY RegisterBillIs DEF TypeInv, Writes, RegisterBill
  <1>2. bl # <<>> /\ Names(bl, orders[o]) /\ SameTerms(orders[o].lines, tx[t].seen.lines)
    BY <1>1 DEF PlacedInv, RequestPlaced, SameLines
  <1>3. KeepsTerms(orders'[o], orders[o])
    BY <1>1, WritesKeepTerms
  <1>. QED BY <1>2, <1>3, NamesKept

\* a receipt's,
ReceiptFits(o, bl) ==
  /\ bl # <<>> /\ Names(bl, orders'[o]) /\ Names(bl, orders[o]) /\ KeepsTerms(orders'[o], orders[o])
  /\ bl \in Seq(BillLines)
  /\ \A i \in DOMAIN bl : bl[i].product = orders[o].lines[bl[i].line].product
                          /\ bl[i].price = orders[o].lines[bl[i].line].price

\* which is what Receive writes,
LEMMA ReceivePlaced ==
  ASSUME TypeInv, PlacedInv, NEW t \in Txns, Receive(t)
  PROVE  ReceiptFits(tx[t].o, ReceiptLines(tx[t].o, tx[t].arg))
  <1>o. PICK o : o = tx[t].o
    OBVIOUS
  <1>b. PICK bl : bl = ReceiptLines(o, tx[t].arg)
    OBVIOUS
  <1>0. PICK rl : rl = tx[t].arg
    OBVIOUS
  <1>1. PurchaseTypeOK /\ o \in DOMAIN orders /\ tx[t] # Idle /\ tx[t].op = "receive"
        /\ rl \in Seq(Payloads) /\ (\A i \in DOMAIN rl : rl[i].line \in DOMAIN orders[o].lines)
    BY <1>o, <1>0, ReceiveIs DEF TypeInv, Writes, ReceiveWrites
  <1>2. rl # <<>>
    BY <1>o, <1>0, <1>1 DEF PlacedInv, RequestPlaced
  <1>3. orders[o].lines \in Seq(OrderLines)
    BY <1>1, OrderNow
  <1>4. /\ bl \in Seq(BillLines) /\ DOMAIN bl = DOMAIN rl
        /\ \A i \in DOMAIN rl : LET l == bl[i]  m == orders[o].lines[rl[i].line] IN
             /\ l.line = rl[i].line /\ l.qty = rl[i].qty /\ l.product = m.product /\ l.price = m.price
    BY <1>b, <1>0, <1>1, <1>3, ReceiptLinesAre
  <1>5. bl # <<>>
    <2>1. 1 \in DOMAIN rl
      <3>1. DOMAIN rl = 1 .. Len(rl) /\ Len(rl) \in Nat
        BY <1>1, RowsOf
      <3>2. Len(rl) # 0
        BY <1>1, <1>2, EmptySeq
      <3>. QED BY <3>1, <3>2
    <2>. QED BY <1>4, <2>1
  <1>6. Names(bl, orders[o])
    BY <1>1, <1>4 DEF Names
  <1>7. KeepsTerms(orders'[o], orders[o])
    BY <1>o, <1>1, WritesKeepTerms
  <1>8. Names(bl, orders'[o])
    BY <1>6, <1>7, NamesKept
  <1>9. \A i \in DOMAIN bl : bl[i].product = orders[o].lines[bl[i].line].product
                            /\ bl[i].price = orders[o].lines[bl[i].line].price
    BY <1>4
  <1>10. ReceiptFits(o, bl)
    BY <1>4, <1>5, <1>6, <1>7, <1>8, <1>9 DEF ReceiptFits
  <1>. QED BY <1>o, <1>b, <1>10

\* and an edited bill's.
LEMMA EditPlaced ==
  ASSUME TypeInv, PlacedInv, NEW t \in Txns, EditBill(t), NEW o, o = tx[t].o, NEW bl, bl = tx[t].arg
  PROVE  bl # <<>> /\ Names(bl, orders'[o]) /\ Names(bl, orders[o]) /\ KeepsTerms(orders'[o], orders[o])
         /\ tx[t].seen.status \in Editable
  <1>1. PurchaseTypeOK /\ o \in DOMAIN orders /\ tx[t] # Idle /\ tx[t].op = "edit_bill"
    BY EditBillIs DEF TypeInv, Writes, EditBill
  <1>2. bl # <<>> /\ Names(bl, orders[o]) /\ tx[t].seen.status \in Editable
    BY <1>1 DEF PlacedInv, RequestPlaced
  <1>3. KeepsTerms(orders'[o], orders[o])
    BY <1>1, WritesKeepTerms
  <1>. QED BY <1>2, <1>3, NamesKept

\* A bill that is added is right if it names lines of its order.
LEMMA PlacedByAppend ==
  ASSUME TypeInv, PlacedInv, StillPlaced, NEW t \in Txns, NEW b \in BillRows, bills' = Append(bills, b),
         BillPlaced(b, orders'), tx' = [tx EXCEPT ![t] = Idle],
         \A r \in DOMAIN receipts' : (r \in DOMAIN receipts /\ receipts'[r] = receipts[r]) \/ ReceiptPlaced(receipts'[r], orders')
  PROVE  PlacedInv'
  <1>1. bills \in Seq(BillRows) /\ DOMAIN tx = Txns
    BY DEF TypeInv, PurchaseTypeOK, DocumentsOK
  <1>2. \A c \in DOMAIN bills' : (c \in DOMAIN bills /\ bills'[c] = bills[c]) \/ BillPlaced(bills'[c], orders')
    BY <1>1, AppendedRows
  <1>3. \A s \in Txns : tx'[s] # Idle => tx'[s] = tx[s] \/ RequestPlaced(tx'[s], orders')
    BY <1>1
  <1>. QED BY <1>2, <1>3, PlacedAfter

\* So is one that is written again.
LEMMA PlacedByWrite ==
  ASSUME TypeInv, PlacedInv, StillPlaced, NEW t \in Txns, NEW b \in DOMAIN bills, tx' = [tx EXCEPT ![t] = Idle],
         UNCHANGED receipts, DOMAIN bills' = DOMAIN bills, \A c \in DOMAIN bills : c # b => bills'[c] = bills[c],
         BillPlaced(bills'[b], orders')
  PROVE  PlacedInv'
  <1>1. DOMAIN tx = Txns
    BY DEF TypeInv, PurchaseTypeOK
  <1>2. \A c \in DOMAIN bills' : (c \in DOMAIN bills /\ bills'[c] = bills[c]) \/ BillPlaced(bills'[c], orders')
    OBVIOUS
  <1>3. \A s \in Txns : tx'[s] # Idle => tx'[s] = tx[s] \/ RequestPlaced(tx'[s], orders')
    BY <1>1
  <1>. QED BY <1>2, <1>3, PlacedAfter

\* register_bill,
LEMMA PlacedByRegister ==
  ASSUME TypeInv, PlacedInv, StillPlaced, NEW t \in Txns, RegisterBill(t)
  PROVE  PlacedInv'
  <1>1. PICK o : o = tx[t].o
    OBVIOUS
  <1>2. PICK bl : bl = tx[t].arg
    OBVIOUS
  <1>3. PurchaseTypeOK
    BY DEF TypeInv
  <1>4. /\ Writes(t) /\ contended' = contended /\ bl \in Seq(BillLines)
        /\ \E b \in BillRows : /\ bills' = Append(bills, b) /\ b.of = o /\ b.type = "standard" /\ b.lines = bl
        /\ orders'[o] = [orders[o] EXCEPT !.lines = AddBilled(orders[o].lines, bl, 1)]
    BY <1>1, <1>2, <1>3, RegisterBillIs
  <1>5. PICK b \in BillRows : bills' = Append(bills, b) /\ b.of = o /\ b.type = "standard" /\ b.lines = bl
    BY <1>4
  <1>6. bl # <<>> /\ Names(bl, orders'[o])
    BY <1>1, <1>2, RegisterPlaced
  <1>7. BillPlaced(b, orders')
    BY <1>5, <1>6 DEF BillPlaced
  <1>8. UNCHANGED receipts /\ tx' = [tx EXCEPT ![t] = Idle]
    BY DEF RegisterBill, WriteOrder, Ends
  <1>. QED BY <1>5, <1>7, <1>8, PlacedByAppend

\* record_receipt,
LEMMA PlacedByReceive ==
  ASSUME TypeInv, PlacedInv, StillPlaced, NEW t \in Txns, Receive(t)
  PROVE  PlacedInv'
  <1>1. PICK o : o = tx[t].o
    OBVIOUS
  <1>2. PICK bl : bl = ReceiptLines(o, tx[t].arg)
    OBVIOUS
  <1>3. StockTypeOK /\ PurchaseTypeOK
    BY DEF TypeInv
  <1>4. /\ Writes(t)
        /\ ReceiveWrites(t, tx[t].o, tx[t].arg, ReceiptLines(tx[t].o, tx[t].arg), AddReceived(orders[tx[t].o].lines, tx[t].arg))
    BY <1>3, ReceiveIs
  <1>5. /\ \E b \in BillRows : bills' = Append(bills, b) /\ b.of = o /\ b.type = "standard" /\ b.lines = bl
        /\ receipts' = Append(receipts, [of |-> o, lines |-> bl])
    BY <1>1, <1>2, <1>4 DEF ReceiveWrites
  <1>6. tx' = [tx EXCEPT ![t] = Idle] /\ o \in DOMAIN orders /\ o \in Nat
    BY <1>1, <1>4 DEF Writes
  <1>7. PICK b \in BillRows : bills' = Append(bills, b) /\ b.of = o /\ b.type = "standard" /\ b.lines = bl
    BY <1>5
  <1>8. /\ bl # <<>> /\ Names(bl, orders'[o]) /\ Names(bl, orders[o]) /\ KeepsTerms(orders'[o], orders[o])
        /\ bl \in Seq(BillLines)
        /\ \A i \in DOMAIN bl : bl[i].product = orders[o].lines[bl[i].line].product
                                /\ bl[i].price = orders[o].lines[bl[i].line].price
    BY <1>1, <1>2, ReceivePlaced DEF ReceiptFits
  <1>9. BillPlaced(b, orders')
    BY <1>7, <1>8 DEF BillPlaced
  <1>10. PICK r : r = [of |-> o, lines |-> bl]
    OBVIOUS
  <1>11. r \in ReceiptRows /\ r.of = o /\ r.lines = bl
    BY <1>6, <1>8, <1>10 DEF ReceiptRows
  <1>12. ReceiptPlaced(r, orders')
    <2> SUFFICES ASSUME NEW i \in DOMAIN bl
                 PROVE  /\ bl[i].line \in DOMAIN orders'[o].lines
                        /\ bl[i].product = orders'[o].lines[bl[i].line].product
                        /\ bl[i].price = orders'[o].lines[bl[i].line].price
      BY <1>11 DEF ReceiptPlaced
    <2>1. bl[i].line \in DOMAIN orders'[o].lines /\ bl[i].line \in DOMAIN orders[o].lines
      BY <1>8 DEF Names
    <2>. QED BY <1>8, <2>1 DEF KeepsTerms, SameTerms
  <1>13. receipts \in Seq(ReceiptRows) /\ receipts' = Append(receipts, r)
    BY <1>3, <1>5, <1>10 DEF PurchaseTypeOK, DocumentsOK
  <1>14. \A q \in DOMAIN receipts' : (q \in DOMAIN receipts /\ receipts'[q] = receipts[q]) \/ ReceiptPlaced(receipts'[q], orders')
    BY <1>11, <1>12, <1>13, AppendedRows
  <1>. QED BY <1>6, <1>7, <1>9, <1>14, PlacedByAppend

\* update_bill,
LEMMA PlacedByEdit ==
  ASSUME TypeInv, PlacedInv, StillPlaced, NEW t \in Txns, EditBill(t)
  PROVE  PlacedInv'
  <1>1. PICK o : o = tx[t].o
    OBVIOUS
  <1>2. PICK bl : bl = tx[t].arg
    OBVIOUS
  <1>3. PICK b : b = tx[t].b
    OBVIOUS
  <1>4. PICK s : s = tx[t].seen
    OBVIOUS
  <1>5. PurchaseTypeOK
    BY DEF TypeInv
  <1>6. /\ PurchaseTypeOK' /\ Writes(t) /\ bl \in Seq(BillLines) /\ s.lines \in Seq(BillLines)
        /\ b \in DOMAIN bills /\ bills[b].of = o /\ bills[b].type = "standard"
        /\ DOMAIN bills' = DOMAIN bills /\ (\A c \in DOMAIN bills : c # b => bills'[c] = bills[c])
        /\ bills'[b].of = o /\ bills'[b].type = "standard" /\ bills'[b].lines = bl
        /\ orders'[o] = [orders[o] EXCEPT !.lines = AddBilled(AddBilled(orders[o].lines, s.lines, -1), bl, 1)]
        /\ (contended => contended') /\ (~contended' => bills[b] = s)
    BY <1>1, <1>2, <1>3, <1>4, <1>5, EditBillIs
  <1>7. bl # <<>> /\ Names(bl, orders'[o])
    BY <1>1, <1>2, EditPlaced
  <1>8. BillPlaced(bills'[b], orders')
    BY <1>6, <1>7 DEF BillPlaced
  <1>9. UNCHANGED receipts /\ tx' = [tx EXCEPT ![t] = Idle]
    BY DEF EditBill, WriteOrder, Ends
  <1>. QED BY <1>6, <1>8, <1>9, PlacedByWrite

\* approve_and_post
LEMMA PlacedByPost ==
  ASSUME TypeInv, PlacedInv, StillPlaced, NEW t \in Txns, PostBill(t)
  PROVE  PlacedInv'
  <1>1. PICK b : b = tx[t].b
    OBVIOUS
  <1>2. PICK s : s = tx[t].seen
    OBVIOUS
  <1>3. StockTypeOK /\ PurchaseTypeOK
    BY DEF TypeInv
  <1>4. /\ b \in DOMAIN bills /\ DOMAIN bills' = DOMAIN bills /\ (\A c \in DOMAIN bills : c # b => bills'[c] = bills[c])
        /\ bills'[b] = [bills[b] EXCEPT !.status = "posted"]
        /\ UNCHANGED receipts /\ tx' = [tx EXCEPT ![t] = Idle]
    BY <1>1, <1>2, <1>3, PostBillIs
  <1>5. bills[b] \in BillRows
    BY <1>3, <1>4, RowsOf DEF PurchaseTypeOK, DocumentsOK
  <1>6. /\ bills'[b].type = bills[b].type /\ bills'[b].of = bills[b].of /\ bills'[b].lines = bills[b].lines
        /\ bills'[b].status = "posted"
    BY <1>4, <1>5 DEF BillRows
  <1>7. BillPlaced(bills[b], orders')
    BY <1>4 DEF StillPlaced
  <1>8. BillPlaced(bills'[b], orders')
    BY <1>6, <1>7 DEF BillPlaced
  <1>. QED BY <1>4, <1>8, PlacedByWrite

\* and the debit notes keep all of this right.
LEMMA PlacedByNote ==
  ASSUME TypeInv, PlacedInv, StillPlaced, NEW t \in Txns, DebitNote(t)
  PROVE  PlacedInv'
  <1>1. StockTypeOK /\ PurchaseTypeOK
    BY DEF TypeInv
  <1>2. /\ UNCHANGED receipts /\ tx' = [tx EXCEPT ![t] = Idle]
        /\ \E note \in BillRows : note.type = "debit_note" /\ note.status = "posted" /\ bills' = Append(bills, note)
    BY <1>1, DebitNoteIs
  <1>3. PICK note \in BillRows : note.type = "debit_note" /\ note.status = "posted" /\ bills' = Append(bills, note)
    BY <1>2
  <1>4. BillPlaced(note, orders')
    BY <1>3 DEF BillPlaced
  <1>. QED BY <1>2, <1>3, <1>4, PlacedByAppend

\* At first there is no document.
LEMMA PlacedInit == Init => PlacedInv
  BY DEF Init, PlacedInv

\* and every step keeps it.
LEMMA PlacedStep == TypeInv /\ PlacedInv /\ [Next]_vars => PlacedInv'
  <1> SUFFICES ASSUME TypeInv, PlacedInv, [Next]_vars PROVE PlacedInv'
    OBVIOUS
  <1>1. PurchaseTypeOK /\ DOMAIN tx = Txns
    BY DEF TypeInv, PurchaseTypeOK
  <1>2. /\ \A b \in DOMAIN bills : BillPlaced(bills[b], orders')
        /\ \A r \in DOMAIN receipts : ReceiptPlaced(receipts[r], orders')
        /\ \A t \in Txns : tx[t] # Idle => RequestPlaced(tx[t], orders')
    BY PlacedStays DEF StillPlaced
  <1>3. ASSUME UNCHANGED <<receipts, bills>>,
               tx' = tx \/ \E t \in Txns : tx' = [tx EXCEPT ![t] = Idle]
        PROVE  PlacedInv'
    BY <1>1, <1>2, <1>3 DEF PlacedInv
  <1>4. ASSUME NEW t \in Txns, Reads(t) PROVE PlacedInv'
    <2>1. PICK r : tx' = [tx EXCEPT ![t] = r] /\ RequestPlaced(r, orders)
      BY <1>4, ReadsPlaced
    <2>2. UNCHANGED <<orders, receipts, bills>>
      BY <1>1, <1>4, ReadsAre
    <2>3. RequestPlaced(r, orders')
      BY <2>1, <2>2
    <2>4. \A s \in Txns : tx'[s] # Idle => RequestPlaced(tx'[s], orders')
      BY <1>1, <1>2, <2>1, <2>3
    <2>. QED BY <1>2, <2>2, <2>4 DEF PlacedInv
  <1>5. ASSUME NEW t \in Txns,
               \/ Rollback(t) \/ UpdateOrder(t) \/ ConfirmOrder(t) \/ DecideApproval(t) \/ ShortClose(t) \/ ReopenLine(t)
        PROVE  PlacedInv'
    <2>1. UNCHANGED <<receipts, bills>> /\ tx' = [tx EXCEPT ![t] = Idle]
      BY <1>5 DEF Rollback, UpdateOrder, ConfirmOrder, DecideApproval, ShortClose, ReopenLine, OrderOnly, WriteOrder, Ends
    <2>. QED BY <1>3, <2>1
  <1>6. CASE CreateOrder
    BY <1>1, <1>3, <1>6, CreateOrderIs
  <1>7. CASE StockNext /\ UNCHANGED purchaseVars
    BY <1>3, <1>7 DEF purchaseVars
  <1>8. CASE UNCHANGED vars
    BY <1>3, <1>8 DEF vars, purchaseVars
  <1>9. ASSUME NEW t \in Txns, RegisterBill(t) \/ Receive(t) \/ EditBill(t) \/ PostBill(t) \/ DebitNote(t)
        PROVE  PlacedInv'
    BY <1>9, PlacedStays, PlacedByRegister, PlacedByReceive, PlacedByEdit, PlacedByPost, PlacedByNote
  <1>. QED BY <1>4, <1>5, <1>6, <1>7, <1>8, <1>9, NextIs

\* The lines ls name the prices of the order x.
Priced(ls, x) == \A i \in DOMAIN ls : ls[i].price = x.lines[ls[i].line].price

\* A bill's subtotal is that of its lines, and unless it is mismatched they have
\* the prices of its order.
FairBill(b, os) == b.type = "standard" =>
  b.subtotal = Net(b.lines) /\ (b.status # "mismatched" => Priced(b.lines, os[b.of]))

\* So are all bills, unless two requests changed one at a time.
FairInv == ~contended => \A b \in DOMAIN bills : FairBill(bills[b], orders)

\* The bills there were are fair after the step.
StillFair == ~contended => \A b \in DOMAIN bills : FairBill(bills[b], orders')

\* They are, whatever the step.
LEMMA FairStays ==
  ASSUME TypeInv, PlacedInv, FairInv, [Next]_vars
  PROVE  StillFair
  <1> SUFFICES ASSUME ~contended, NEW b \in DOMAIN bills, bills[b].type = "standard"
               PROVE  FairBill(bills[b], orders')
    BY DEF StillFair, FairBill
  <1>1. PurchaseTypeOK /\ BillPlaced(bills[b], orders) /\ FairBill(bills[b], orders)
    BY DEF TypeInv, PlacedInv, FairInv
  <1>2. bills[b].of \in DOMAIN orders /\ ~Replaces(bills[b].of)
    BY <1>1, BilledStays
  <1>3. KeepsTerms(orders'[bills[b].of], orders[bills[b].of])
    BY <1>2, TermsStep
  <1>4. Names(bills[b].lines, orders[bills[b].of])
    BY <1>1 DEF BillPlaced
  <1>5. Priced(bills[b].lines, orders[bills[b].of]) => Priced(bills[b].lines, orders'[bills[b].of])
    BY <1>3, <1>4 DEF Priced, Names, KeepsTerms, SameTerms
  <1>. QED BY <1>1, <1>5 DEF FairBill

\* A bill that is added is fair, or not a vendor's.
LEMMA FairByAppend ==
  ASSUME TypeInv, StillFair, contended => contended', NEW b, bills' = Append(bills, b), b \in BillRows,
         ~contended => FairBill(b, orders')
  PROVE  FairInv'
  <1>1. bills \in Seq(BillRows)
    BY DEF TypeInv, PurchaseTypeOK, DocumentsOK
  <1>2. \A c \in DOMAIN bills' : (c \in DOMAIN bills /\ bills'[c] = bills[c]) \/ bills'[c] = b
    BY <1>1, AppendedRows
  <1>. QED BY <1>2 DEF FairInv, StillFair

\* Lines that match are priced as the order was when they were compared.
LEMMA MatchedPriced ==
  ASSUME NEW ls, NEW bl, MatchStatus(ls, bl) # "mismatched", NEW x, SameTerms(x.lines, ls), Names(bl, x)
  PROVE  Priced(bl, x)
  <1>1. \A i \in DOMAIN bl : bl[i].price = ls[bl[i].line].price
    BY DEF MatchStatus, Matches
  <1>. QED BY <1>1 DEF Priced, Names, SameTerms

\* register_bill matches with an order that has the same terms still.
LEMMA FairByRegister ==
  ASSUME TypeInv, PlacedInv, StillFair, NEW t \in Txns, RegisterBill(t)
  PROVE  FairInv'
  <1>1. PICK o : o = tx[t].o
    OBVIOUS
  <1>2. PICK bl : bl = tx[t].arg
    OBVIOUS
  <1>3. PurchaseTypeOK
    BY DEF TypeInv
  <1>4. /\ Writes(t) /\ contended' = contended /\ bl \in Seq(BillLines)
        /\ \E b \in BillRows : /\ bills' = Append(bills, b) /\ b.of = o /\ b.type = "standard" /\ b.lines = bl
        /\ orders'[o] = [orders[o] EXCEPT !.lines = AddBilled(orders[o].lines, bl, 1)]
    BY <1>1, <1>2, <1>3, RegisterBillIs
  <1>5. PICK st, b : /\ st = MatchStatus(tx[t].seen.lines, bl) /\ bills' = Append(bills, b)
                     /\ b = NewBill("standard", st, o, tx[t].seen.at, 0, bl)
    BY <1>1, <1>2 DEF RegisterBill
  <1>6. b.status = st /\ b.subtotal = Net(bl) /\ b.lines = bl /\ b.of = o
    BY <1>5 DEF NewBill
  <1>7. b \in BillRows
    <2>1. PICK c \in BillRows : bills' = Append(bills, c)
      BY <1>4
    <2>2. bills \in Seq(BillRows)
      BY <1>3 DEF PurchaseTypeOK, DocumentsOK
    <2>3. bills'[Len(bills) + 1] = c
      BY <2>1, <2>2, AppendedRows
    <2>4. bills'[Len(bills) + 1] = b
      <3>1. Append(bills, b)[Len(bills) + 1] = b
        BY <2>2, RowsOf DEF Append
      <3>. QED BY <1>5, <3>1
    <2>. QED BY <2>3, <2>4
  <1>8. /\ Names(bl, orders'[o]) /\ SameTerms(orders[o].lines, tx[t].seen.lines) /\ KeepsTerms(orders'[o], orders[o])
    BY <1>1, <1>2, RegisterPlaced
  <1>9. SameTerms(orders'[o].lines, tx[t].seen.lines)
    BY <1>8, TermsCompose DEF KeepsTerms
  <1>10. st # "mismatched" => Priced(bl, orders'[o])
    BY <1>5, <1>8, <1>9, MatchedPriced
  <1>11. FairBill(b, orders')
    BY <1>6, <1>10 DEF FairBill
  <1>. QED BY <1>4, <1>5, <1>7, <1>11, FairByAppend

\* record_receipt's bill has the order's prices.
LEMMA FairByReceive ==
  ASSUME TypeInv, PlacedInv, StillFair, NEW t \in Txns, Receive(t)
  PROVE  FairInv'
  <1>1. PICK o : o = tx[t].o
    OBVIOUS
  <1>2. PICK bl : bl = ReceiptLines(o, tx[t].arg)
    OBVIOUS
  <1>3. StockTypeOK /\ PurchaseTypeOK
    BY DEF TypeInv
  <1>4. /\ ReceiveWrites(t, tx[t].o, tx[t].arg, ReceiptLines(tx[t].o, tx[t].arg), AddReceived(orders[tx[t].o].lines, tx[t].arg))
        /\ contended' = contended
    BY <1>3, ReceiveIs
  <1>5. PICK c \in BillRows : bills' = Append(bills, c)
    BY <1>4 DEF ReceiveWrites
  <1>6. PICK st, w, b : bills' = Append(bills, b) /\ b = NewBill("standard", st, o, w, 0, bl)
    BY <1>1, <1>2 DEF Receive, ReceiptLines
  <1>7. b.subtotal = Net(bl) /\ b.lines = bl /\ b.of = o
    BY <1>6 DEF NewBill
  <1>8. b \in BillRows
    <2>2. bills \in Seq(BillRows)
      BY <1>3 DEF PurchaseTypeOK, DocumentsOK
    <2>3. bills'[Len(bills) + 1] = c
      BY <1>5, <2>2, AppendedRows
    <2>4. bills'[Len(bills) + 1] = b
      <3>1. Append(bills, b)[Len(bills) + 1] = b
        BY <2>2, RowsOf DEF Append
      <3>. QED BY <1>6, <3>1
    <2>. QED BY <2>3, <2>4
  <1>9. /\ Names(bl, orders[o]) /\ KeepsTerms(orders'[o], orders[o])
        /\ \A i \in DOMAIN bl : bl[i].price = orders[o].lines[bl[i].line].price
    BY <1>1, <1>2, ReceivePlaced DEF ReceiptFits
  <1>10. Priced(bl, orders'[o])
    BY <1>9 DEF Priced, Names, KeepsTerms, SameTerms
  <1>11. FairBill(b, orders')
    BY <1>7, <1>10 DEF FairBill
  <1>. QED BY <1>4, <1>6, <1>8, <1>11, FairByAppend

\* update_bill, if nobody came in between, matches with the order as it is.
LEMMA EditIsFair ==
  ASSUME TypeInv, NEW t \in Txns, EditBill(t), ~contended', NEW o, o = tx[t].o, NEW b, b = tx[t].b, NEW bl, bl = tx[t].arg
  PROVE  /\ bills'[b].lines = bl /\ bills'[b].subtotal = Net(bl)
         /\ bills'[b].status = MatchStatus(orders[o].lines, bl)
         /\ bills[b] = tx[t].seen /\ bills'[b].tax = Tax(bl)
  <1> DEFINE s == tx[t].seen
             z == bills[b]
             M == MatchStatus(orders[o].lines, bl)
             V == Net(bl)
             T == Tax(bl)
             st == Written(s.status, M, z.status)
             sub == Written(s.subtotal, V, z.subtotal)
             tax == Written(s.tax, T, z.tax)
  <1>1. z = s
    BY DEF EditBill, Contends
  <1>2. bills' = [bills EXCEPT ![b].lines = bl, ![b].status = st, ![b].subtotal = sub, ![b].tax = tax]
    BY DEF EditBill
  <1>3. st = M /\ sub = V /\ tax = T
    BY <1>1 DEF Written
  <1>4. b \in DOMAIN bills /\ z \in BillRows
    <2>1. tx[t] # Idle /\ tx[t].op = "edit_bill" /\ PurchaseTypeOK
      BY DEF EditBill, TypeInv
    <2>2. b \in DOMAIN bills
      BY <2>1, OpenRequest DEF RequestOK
    <2>. QED BY <2>1, <2>2, RowsOf DEF PurchaseTypeOK, DocumentsOK
  <1> HIDE DEF st, sub, tax, s, M, V, T
  <1>5. bills'[b] = [z EXCEPT !.lines = bl, !.status = st, !.subtotal = sub, !.tax = tax]
    BY <1>2, <1>4
  <1>6. bills'[b].lines = bl /\ bills'[b].status = st /\ bills'[b].subtotal = sub /\ bills'[b].tax = tax
    <2> HIDE DEF z
    <2>. QED BY <1>4, <1>5 DEF BillRows
  <1>. QED BY <1>1, <1>3, <1>6 DEF s, M, V, T

\* an edited bill is priced by the order it was compared with,
LEMMA FairByEdit ==
  ASSUME TypeInv, PlacedInv, StillFair, NEW t \in Txns, EditBill(t)
  PROVE  FairInv'
  <1> SUFFICES ASSUME ~contended' PROVE \A c \in DOMAIN bills' : FairBill(bills'[c], orders')
    BY DEF FairInv
  <1>1. PICK o : o = tx[t].o
    OBVIOUS
  <1>2. PICK bl : bl = tx[t].arg
    OBVIOUS
  <1>3. PICK b : b = tx[t].b
    OBVIOUS
  <1>4. PICK s : s = tx[t].seen
    OBVIOUS
  <1>5. PurchaseTypeOK
    BY DEF TypeInv
  <1>6. /\ PurchaseTypeOK' /\ Writes(t) /\ bl \in Seq(BillLines) /\ s.lines \in Seq(BillLines)
        /\ b \in DOMAIN bills /\ bills[b].of = o /\ bills[b].type = "standard"
        /\ DOMAIN bills' = DOMAIN bills /\ (\A c \in DOMAIN bills : c # b => bills'[c] = bills[c])
        /\ bills'[b].of = o /\ bills'[b].type = "standard" /\ bills'[b].lines = bl
        /\ orders'[o] = [orders[o] EXCEPT !.lines = AddBilled(AddBilled(orders[o].lines, s.lines, -1), bl, 1)]
        /\ (contended => contended') /\ (~contended' => bills[b] = s)
    BY <1>1, <1>2, <1>3, <1>4, <1>5, EditBillIs
  <1>7. /\ bills'[b].lines = bl /\ bills'[b].subtotal = Net(bl)
        /\ bills'[b].status = MatchStatus(orders[o].lines, bl)
    BY <1>1, <1>2, <1>3, EditIsFair
  <1>8. Names(bl, orders'[o]) /\ KeepsTerms(orders'[o], orders[o])
    BY <1>1, <1>2, EditPlaced
  <1>9. SameTerms(orders'[o].lines, orders[o].lines)
    BY <1>8 DEF KeepsTerms
  <1>10. MatchStatus(orders[o].lines, bl) # "mismatched" => Priced(bl, orders'[o])
    BY <1>8, <1>9, MatchedPriced
  <1>11. FairBill(bills'[b], orders')
    BY <1>6, <1>7, <1>10 DEF FairBill
  <1>. QED BY <1>6, <1>11 DEF StillFair

\* What approve_and_post posts is what it has read, if nobody came in between.
LEMMA PostIsFair ==
  ASSUME TypeInv, PlacedInv, NEW t \in Txns, PostBill(t), ~contended', NEW b, b = tx[t].b
  PROVE  /\ bills[b] = tx[t].seen /\ bills[b].status = "matched" /\ bills[b].type = "standard"
  <1>1. tx[t] # Idle /\ tx[t].op = "post_bill" /\ bills[b] = tx[t].seen
    BY DEF PostBill, Contends
  <1>2. b \in DOMAIN bills
    BY <1>1, OpenRequest DEF RequestOK, TypeInv
  <1>3. bills[b].status \notin {"mismatched", "posted"} /\ BillPlaced(bills[b], orders)
    BY <1>1, <1>2 DEF PlacedInv, RequestPlaced
  <1>4. bills[b] \in BillRows
    BY <1>2, RowsOf DEF TypeInv, PurchaseTypeOK, DocumentsOK
  <1>. QED BY <1>1, <1>3, <1>4, BillParts DEF BillPlaced

\* and posting writes the lines it read, which were matched.
LEMMA FairByPost ==
  ASSUME TypeInv, PlacedInv, StillFair, NEW t \in Txns, PostBill(t)
  PROVE  FairInv'
  <1> SUFFICES ASSUME ~contended' PROVE \A c \in DOMAIN bills' : FairBill(bills'[c], orders')
    BY DEF FairInv
  <1>1. PICK b : b = tx[t].b
    OBVIOUS
  <1>2. PICK s : s = tx[t].seen
    OBVIOUS
  <1>3. StockTypeOK /\ PurchaseTypeOK
    BY DEF TypeInv
  <1>4. /\ b \in DOMAIN bills /\ DOMAIN bills' = DOMAIN bills /\ (\A c \in DOMAIN bills : c # b => bills'[c] = bills[c])
        /\ bills'[b] = [bills[b] EXCEPT !.status = "posted"] /\ (contended => contended')
    BY <1>1, <1>2, <1>3, PostBillIs
  <1>5. bills[b].status = "matched"
    BY <1>1, PostIsFair
  <1>6. bills[b] \in BillRows
    BY <1>3, <1>4, RowsOf DEF PurchaseTypeOK, DocumentsOK
  <1>7. /\ bills'[b].type = bills[b].type /\ bills'[b].of = bills[b].of /\ bills'[b].lines = bills[b].lines
        /\ bills'[b].subtotal = bills[b].subtotal
    BY <1>4, <1>6 DEF BillRows
  <1>8. FairBill(bills[b], orders')
    BY <1>4 DEF StillFair
  <1>9. FairBill(bills'[b], orders')
    BY <1>5, <1>7, <1>8 DEF FairBill
  <1>. QED BY <1>4, <1>9 DEF StillFair

\* A debit note says nothing of a vendor's bill.
LEMMA FairByNote ==
  ASSUME TypeInv, StillFair, NEW t \in Txns, DebitNote(t)
  PROVE  FairInv'
  <1>1. StockTypeOK /\ PurchaseTypeOK
    BY DEF TypeInv
  <1>2. /\ UNCHANGED contended
        /\ \E note \in BillRows : note.type = "debit_note" /\ note.status = "posted" /\ bills' = Append(bills, note)
    BY <1>1, DebitNoteIs
  <1>3. PICK note \in BillRows : note.type = "debit_note" /\ note.status = "posted" /\ bills' = Append(bills, note)
    BY <1>2
  <1>4. FairBill(note, orders')
    BY <1>3 DEF FairBill
  <1>. QED BY <1>2, <1>3, <1>4, FairByAppend

\* At first there is no bill.
LEMMA FairInit == Init => FairInv
  BY DEF Init, FairInv

\* and every step keeps it.
LEMMA FairStep == TypeInv /\ PlacedInv /\ FairInv /\ [Next]_vars => FairInv'
  <1> SUFFICES ASSUME TypeInv, PlacedInv, FairInv, [Next]_vars PROVE FairInv'
    OBVIOUS
  <1>1. PurchaseTypeOK /\ StillFair
    BY FairStays DEF TypeInv
  <1>2. CASE UNCHANGED <<receipts, bills, contended>>
    BY <1>1, <1>2 DEF FairInv, StillFair
  <1>3. CASE CreateOrder
    BY <1>1, <1>2, <1>3, CreateOrderIs
  <1>4. ASSUME NEW t \in Txns, UpdateOrder(t) PROVE FairInv'
    BY <1>1, <1>2, <1>4, UpdateOrderIs
  <1>5. ASSUME NEW t \in Txns, RegisterBill(t) \/ Receive(t) \/ EditBill(t) \/ PostBill(t) \/ DebitNote(t)
        PROVE  FairInv'
    BY <1>1, <1>5, FairByRegister, FairByReceive, FairByEdit, FairByPost, FairByNote
  <1>. QED BY <1>1, <1>2, <1>3, <1>4, <1>5, OrderSteps

(***************************************************************************)
(* What documents are worth in the books.                                  *)
(***************************************************************************)
PayableIn == [b \in BillRows |->
  IF b.status # "posted" THEN 0 ELSE (IF b.type = "standard" THEN 1 ELSE -1) * (b.subtotal + b.tax)]
VatIn     == [b \in BillRows |->
  IF b.status # "posted" THEN 0 ELSE (IF b.type = "standard" THEN 1 ELSE -1) * b.tax]
ClearedIn == [b \in BillRows |-> IF b.status # "posted" THEN 0 ELSE b.subtotal]

\* What posted lines are worth, and what their rounding adds to it
WorthIn   == [b \in BillRows |-> IF b.status # "posted" THEN 0 ELSE Value(b.lines)]
OffIn     == [b \in BillRows |-> IF b.status # "posted" THEN 0 ELSE b.subtotal - Value(b.lines)]

\* What stockable lines cost
LineCost(l)     == IF Stockable(l.product) THEN l.qty * l.price ELSE 0
StockCost(ls) == SumFunctionOnSet([i \in DOMAIN ls |-> LineCost(ls[i])], DOMAIN ls)
AccruedIn     == [r \in ReceiptRows |-> StockCost(r.lines)]

\* These are amounts.
LEMMA BillAmounts ==
  /\ \A b \in BillRows : PayableIn[b] \in Int
  /\ \A b \in BillRows : VatIn[b] \in Int
  /\ \A b \in BillRows : ClearedIn[b] \in Int
  <1> SUFFICES ASSUME NEW b \in BillRows PROVE PayableIn[b] \in Int /\ VatIn[b] \in Int /\ ClearedIn[b] \in Int
    OBVIOUS
  <1>1. b.subtotal \in Int /\ b.tax \in Int
    BY BillParts
  <1>2. PayableIn[b] \in Int
    BY <1>1 DEF PayableIn
  <1>3. VatIn[b] \in Int
    BY <1>1 DEF VatIn
  <1>4. ClearedIn[b] \in Int
    BY <1>1 DEF ClearedIn
  <1>. QED BY <1>2, <1>3, <1>4

\* A line costs a whole amount, not less than nothing.
LEMMA CostOfLine ==
  ASSUME NEW ls \in Seq(BillLines), NEW i \in DOMAIN ls
  PROVE  LineCost(ls[i]) \in Nat
  <1>1. ls[i].qty \in Nat /\ ls[i].price \in Nat
    BY BillLineParts
  <1>2. ls[i].qty * ls[i].price \in Nat
    BY <1>1
  <1>. QED BY <1>2 DEF LineCost

\* So do the lines of a receipt.
LEMMA CostType ==
  ASSUME NEW ls \in Seq(BillLines)
  PROVE  StockCost(ls) \in Nat
  <1> DEFINE f == [i \in DOMAIN ls |-> LineCost(ls[i])]
  <1>1. \A i \in DOMAIN ls : f[i] \in Nat
    BY CostOfLine
  <1>2. IsFiniteSet(DOMAIN ls)
    BY LinesOf
  <1> HIDE DEF f
  <1>3. SumFunctionOnSet(f, DOMAIN ls) \in Nat
    BY <1>1, <1>2, NatSum
  <1>. QED BY <1>3 DEF StockCost, f

\* And so do receipts.
LEMMA ReceiptAmounts == \A r \in ReceiptRows : AccruedIn[r] \in Int
  <1> TAKE r \in ReceiptRows
  <1>1. r.lines \in Seq(BillLines)
    BY DEF ReceiptRows
  <1>2. StockCost(r.lines) \in Nat
    BY <1>1, CostType
  <1>. QED BY <1>2 DEF AccruedIn

(***************************************************************************)
(* Goods that a company opened with.                                       *)
(***************************************************************************)
Opened(ms) == \E i \in DOMAIN ms : ms[i].doc[1] = "opening"

\* A move more does not undo it.
LEMMA OpenedStays ==
  ASSUME NEW ms \in Seq(MoveRows), NEW m \in MoveRows
  PROVE  /\ Opened(ms) => Opened(Append(ms, m))
         /\ m.doc[1] = "opening" => Opened(Append(ms, m))
  BY AppendedRows DEF Opened

\* Work that keeps it
OpenedWorks == {k \in Works : Opened(moves) => Opened(k.moves)}

\* A move keeps it so,
LEMMA OpenedMoved ==
  ASSUME NEW k \in OpenedWorks, NEW j \in Works, NEW p, NEW w, NEW n, NEW type, Moved(k, j, p, w, n, type)
  PROVE  j \in OpenedWorks
  <1>1. PICK m \in MoveRows : j.moves = Append(k.moves, m)
    BY DEF Moved
  <1>2. k.moves \in Seq(MoveRows) /\ (Opened(moves) => Opened(k.moves))
    BY DEF OpenedWorks, Works, WorkRows
  <1>3. Opened(k.moves) => Opened(j.moves)
    BY <1>1, <1>2, OpenedStays
  <1>. QED BY <1>2, <1>3 DEF OpenedWorks

\* so that nothing leads out of it,
LEMMA OpenedLeads == Leads(OpenedWorks)
  <1>1. OpenedWorks \in SUBSET Works
    BY DEF OpenedWorks
  <1>2. ASSUME NEW k \in OpenedWorks, NEW p \in Products, NEW w \in Warehouses, NEW n \in Nat \ {0}, NEW value \in Int,
               NEW type \in MoveTypes \ {"delivery"}, NEW doc \in Docs
        PROVE  ReceiveStock(k, p, w, n, value, type, doc) \in OpenedWorks
    <2>1. k \in Works /\ type \in MoveTypes /\ n \in Int
      BY <1>1
    <2>2. ReceiveStock(k, p, w, n, value, type, doc) \in Works
      BY <2>1, ReceiveStockType
    <2>3. Moved(k, ReceiveStock(k, p, w, n, value, type, doc), p, w, n, type)
      BY <2>1, ReceiptMoves
    <2>. QED BY <2>2, <2>3, OpenedMoved
  <1>3. ASSUME NEW k \in OpenedWorks, NEW p \in Products, NEW w \in Warehouses, NEW n \in Nat \ {0},
               NEW type \in MoveTypes, NEW doc \in Docs, NEW allow \in BOOLEAN
        PROVE  IssueStock(k, p, w, n, type, doc, allow) \in OpenedWorks
    <2>1. k \in Works /\ -n \in Int
      BY <1>1
    <2>2. IssueStock(k, p, w, n, type, doc, allow) \in Works
      BY <2>1, IssueStockType
    <2>3. Moved(k, IssueStock(k, p, w, n, type, doc, allow), p, w, -n, type)
      BY <2>1, IssueMoves
    <2>. QED BY <2>2, <2>3, OpenedMoved
  <1>4. ASSUME NEW k \in OpenedWorks, NEW v \in Int PROVE [k EXCEPT !.value = v] \in OpenedWorks
    <2>1. k \in Works
      BY <1>1
    <2>2. [k EXCEPT !.value = v] \in Works
      BY <2>1, ValueType
    <2>3. [k EXCEPT !.value = v].moves = k.moves
      BY <2>1 DEF Works, WorkRows
    <2>. QED BY <2>2, <2>3 DEF OpenedWorks
  <1>. QED BY <1>1, <1>2, <1>3, <1>4 DEF Leads

\* not a line that is delivered either,
LEMMA OpenedDelivery ==
  ASSUME NEW k \in OpenedWorks, NEW x \in [product : Products, qty : Nat \ {0}], NEW w \in Warehouses, NEW doc \in Docs
  PROVE  DeliverLine(k, x, w, doc) \in OpenedWorks
  <1> DEFINE j == IssueStock(k, x.product, w, x.qty, "delivery", doc, FALSE)
             d == DeliverLine(k, x, w, doc)
  <1>1. x.product \in Products /\ x.qty \in Nat \ {0} /\ -x.qty \in Int /\ k \in Works
    BY DEF OpenedWorks
  <1>2. j \in Works /\ d \in Works
    BY <1>1, IssueStockType, DeliverLineType DEF MoveTypes
  <1>3. Moved(k, j, x.product, w, -x.qty, "delivery")
    BY <1>1, IssueMoves DEF MoveTypes
  <1>4. d.moves = j.moves
    <2>1. DeliverLine(k, x, w, doc).moves = j.moves
      BY <1>2 DEF DeliverLine, Works, WorkRows
    <2>. QED BY <2>1
  <1> HIDE DEF j, d
  <1>5. j \in OpenedWorks
    BY <1>2, <1>3, OpenedMoved
  <1>6. d \in OpenedWorks
    BY <1>2, <1>4, <1>5 DEF OpenedWorks
  <1>. QED BY <1>6 DEF d

\* and what a request begins with has it.
LEMMA LoadedOpened ==
  ASSUME StockTypeOK
  PROVE  Loaded \in OpenedWorks
  <1>1. Loaded \in Works /\ Loaded.moves = moves
    BY LoadedType DEF Loaded
  <1>. QED BY <1>1 DEF OpenedWorks

\* So a delivery keeps it.
LEMMA DeliverOpened ==
  ASSUME StockTypeOK, NEW w \in Warehouses, NEW x \in Invoiced, Deliver(w, x), Opened(moves)
  PROVE  Opened(moves')
  <1> DEFINE doc == <<"invoice", Len(moves)>>
             K == [T \in SUBSET DOMAIN x |-> OpenedWorks]
  <1>1. doc \in Docs
    <2>1. Len(moves) \in Nat
      BY LenProperties DEF StockTypeOK
    <2>. QED BY <2>1, Zenon DEF Docs
  <1>2. x \in Seq([product : Products, qty : Nat \ {0}])
    BY InventoryAssumption
  <1>3. moves' = Delivered(w, x, doc).moves
    BY DEF Deliver, Adopt
  <1> HIDE DEF doc
  <1>4. Loaded \in K[{}]
    BY LoadedOpened
  <1>5. \A T \in SUBSET DOMAIN x : T # {} =>
          \A k \in K[T \ {Max(T)}] : DeliverLine(k, x[Max(T)], w, doc) \in K[T]
    <2>1. ASSUME NEW T \in SUBSET DOMAIN x, T # {}, NEW k \in OpenedWorks
          PROVE  DeliverLine(k, x[Max(T)], w, doc) \in OpenedWorks
      <3>1. x[Max(T)] \in [product : Products, qty : Nat \ {0}]
        BY <1>2, <2>1, LinesOf
      <3>. QED BY <1>1, <3>1, OpenedDelivery
    <2>. QED BY <2>1
  <1>6. IsFiniteSet(DOMAIN x) /\ DOMAIN x \subseteq Int
    BY <1>2, LinesOf
  <1> HIDE DEF K
  <1>7. Delivered(w, x, doc) \in K[DOMAIN x]
    BY <1>4, <1>5, <1>6, DeliveredStays
  <1>8. Delivered(w, x, doc) \in OpenedWorks
    BY <1>7 DEF K
  <1>. QED BY <1>3, <1>8 DEF OpenedWorks

\* Every bill is a vendor's: nothing was returned.
NoReturns(bs) == \A b \in DOMAIN bs : bs[b].type = "standard"

\* The books say of each account what the documents that were posted to it do.
BooksInv == ~contended =>
  /\ -books["payable"] = Over(PayableIn, bills)
  /\ books["vat"] = Over(VatIn, bills)
  /\ NoReturns(bills) /\ ~Opened(moves) =>
       -books["grni"] = Over(AccruedIn, receipts) - Over(ClearedIn, bills)

\* The sums are numbers, and so are the accounts.
LEMMA BooksType ==
  ASSUME TypeInv
  PROVE  /\ Over(PayableIn, bills) \in Int /\ Over(VatIn, bills) \in Int /\ Over(ClearedIn, bills) \in Int
         /\ Over(AccruedIn, receipts) \in Int
         /\ books["payable"] \in Int /\ books["vat"] \in Int /\ books["grni"] \in Int
  <1>1. bills \in Seq(BillRows) /\ receipts \in Seq(ReceiptRows)
    BY DEF TypeInv, PurchaseTypeOK, DocumentsOK
  <1>2. Over(PayableIn, bills) \in Int /\ Over(VatIn, bills) \in Int /\ Over(ClearedIn, bills) \in Int
    BY <1>1, BillAmounts, OverType
  <1>3. Over(AccruedIn, receipts) \in Int
    BY <1>1, ReceiptAmounts, OverType
  <1>4. books["payable"] \in Int /\ books["vat"] \in Int /\ books["grni"] \in Int
    BY DEF TypeInv, StockTypeOK, Accounts
  <1>. QED BY <1>2, <1>3, <1>4

\* What a step adds to an account, it adds to what the documents say.
BooksMove(p, v, c, r) ==
  /\ contended => contended'
  /\ ~contended' => /\ Over(PayableIn, bills') = Over(PayableIn, bills) + p /\ books'["payable"] = books["payable"] - p
                    /\ Over(VatIn, bills') = Over(VatIn, bills) + v /\ books'["vat"] = books["vat"] + v
  /\ ~contended' /\ NoReturns(bills') /\ ~Opened(moves') =>
       /\ NoReturns(bills) /\ ~Opened(moves)
       /\ Over(ClearedIn, bills') = Over(ClearedIn, bills) + c
       /\ Over(AccruedIn, receipts') = Over(AccruedIn, receipts) + r
       /\ books'["grni"] = books["grni"] - r + c

\* Then they still agree.
LEMMA BooksByMove ==
  ASSUME TypeInv, BooksInv, NEW p \in Int, NEW v \in Int, NEW c \in Int, NEW r \in Int, BooksMove(p, v, c, r)
  PROVE  BooksInv'
  <1> SUFFICES ASSUME ~contended'
               PROVE  /\ -books'["payable"] = Over(PayableIn, bills')
                      /\ books'["vat"] = Over(VatIn, bills')
                      /\ NoReturns(bills') /\ ~Opened(moves') =>
                           -books'["grni"] = Over(AccruedIn, receipts') - Over(ClearedIn, bills')
    BY DEF BooksInv
  <1>1. ~contended
    BY DEF BooksMove
  <1>2. -books'["payable"] = Over(PayableIn, bills')
    <2>1. -books["payable"] = Over(PayableIn, bills)
      BY <1>1 DEF BooksInv
    <2>2. Over(PayableIn, bills') = Over(PayableIn, bills) + p /\ books'["payable"] = books["payable"] - p
      BY DEF BooksMove
    <2>. QED BY <2>1, <2>2, BooksType
  <1>3. books'["vat"] = Over(VatIn, bills')
    <2>1. books["vat"] = Over(VatIn, bills)
      BY <1>1 DEF BooksInv
    <2>2. Over(VatIn, bills') = Over(VatIn, bills) + v /\ books'["vat"] = books["vat"] + v
      BY DEF BooksMove
    <2>. QED BY <2>1, <2>2, BooksType
  <1>4. ASSUME NoReturns(bills'), ~Opened(moves')
        PROVE  -books'["grni"] = Over(AccruedIn, receipts') - Over(ClearedIn, bills')
    <2>1. -books["grni"] = Over(AccruedIn, receipts) - Over(ClearedIn, bills)
      BY <1>1, <1>4 DEF BooksInv, BooksMove
    <2>2. /\ Over(ClearedIn, bills') = Over(ClearedIn, bills) + c
          /\ Over(AccruedIn, receipts') = Over(AccruedIn, receipts) + r
          /\ books'["grni"] = books["grni"] - r + c
      BY <1>4 DEF BooksMove
    <2>. QED BY <2>1, <2>2, BooksType
  <1>. QED BY <1>2, <1>3, <1>4

\* A step that enters nothing in these accounts
LEMMA BooksSame ==
  ASSUME TypeInv, BooksInv, UNCHANGED <<receipts, bills, contended>>, Opened(moves) => Opened(moves'),
         \A a \in {"grni", "payable", "vat"} : books'[a] = books[a]
  PROVE  BooksInv'
  <1>1. BooksMove(0, 0, 0, 0)
    BY BooksType DEF BooksMove
  <1>. QED BY <1>1, BooksByMove

\* A bill that is added adds what it is worth.
LEMMA BillOver ==
  ASSUME TypeInv, NEW b \in BillRows, bills' = Append(bills, b)
  PROVE  /\ Over(PayableIn, bills') = Over(PayableIn, bills) + PayableIn[b]
         /\ Over(VatIn, bills') = Over(VatIn, bills) + VatIn[b]
         /\ Over(ClearedIn, bills') = Over(ClearedIn, bills) + ClearedIn[b]
         /\ NoReturns(bills') => NoReturns(bills) /\ b.type = "standard"
  <1>1. bills \in Seq(BillRows)
    BY DEF TypeInv, PurchaseTypeOK, DocumentsOK
  <1>2. Over(PayableIn, bills') = Over(PayableIn, bills) + PayableIn[b]
    BY <1>1, BillAmounts, OverAppended
  <1>3. Over(VatIn, bills') = Over(VatIn, bills) + VatIn[b]
    BY <1>1, BillAmounts, OverAppended
  <1>4. Over(ClearedIn, bills') = Over(ClearedIn, bills) + ClearedIn[b]
    BY <1>1, BillAmounts, OverAppended
  <1>5. NoReturns(bills') => NoReturns(bills) /\ b.type = "standard"
    <2>1. /\ DOMAIN bills' = DOMAIN bills \cup {Len(bills) + 1} /\ bills'[Len(bills) + 1] = b
          /\ \A i \in DOMAIN bills : bills'[i] = bills[i]
      BY <1>1, AppendedRows
    <2>. QED BY <2>1 DEF NoReturns
  <1>. QED BY <1>2, <1>3, <1>4, <1>5

\* One that is written adds the difference.
LEMMA BillRewritten ==
  ASSUME TypeInv, bills' \in Seq(BillRows), NEW b \in DOMAIN bills, DOMAIN bills' = DOMAIN bills,
         \A c \in DOMAIN bills : c # b => bills'[c] = bills[c], bills'[b].type = bills[b].type
  PROVE  /\ Over(PayableIn, bills') = Over(PayableIn, bills) + PayableIn[bills'[b]] - PayableIn[bills[b]]
         /\ Over(VatIn, bills') = Over(VatIn, bills) + VatIn[bills'[b]] - VatIn[bills[b]]
         /\ Over(ClearedIn, bills') = Over(ClearedIn, bills) + ClearedIn[bills'[b]] - ClearedIn[bills[b]]
         /\ NoReturns(bills') => NoReturns(bills)
  <1>1. bills \in Seq(BillRows)
    BY DEF TypeInv, PurchaseTypeOK, DocumentsOK
  <1>2. PICK z : z = bills'
    OBVIOUS
  <1>3. z \in Seq(BillRows) /\ DOMAIN z = DOMAIN bills /\ \A c \in DOMAIN bills : c # b => z[c] = bills[c]
    BY <1>2
  <1>4. ASSUME NEW w, \A y \in BillRows : w[y] \in Int
        PROVE  Over(w, bills') = Over(w, bills) + w[bills'[b]] - w[bills[b]]
    <2>1. Over(w, z) = Over(w, bills) + w[z[b]] - w[bills[b]]
      BY <1>1, <1>3, <1>4, OverWritten
    <2>. QED BY <1>2, <2>1
  <1>5. NoReturns(bills') => NoReturns(bills)
    BY DEF NoReturns
  <1>. QED BY <1>4, <1>5, BillAmounts

\* A bill that is not posted is worth nothing.
LEMMA Unposted ==
  ASSUME NEW b \in BillRows, b.status # "posted"
  PROVE  PayableIn[b] = 0 /\ VatIn[b] = 0 /\ ClearedIn[b] = 0
  BY DEF PayableIn, VatIn, ClearedIn

\* register_bill enters nothing.
LEMMA BooksByRegister ==
  ASSUME TypeInv, BooksInv, NEW t \in Txns, RegisterBill(t)
  PROVE  BooksInv'
  <1>1. PICK o : o = tx[t].o
    OBVIOUS
  <1>2. PICK bl : bl = tx[t].arg
    OBVIOUS
  <1>3. PurchaseTypeOK
    BY DEF TypeInv
  <1>4. /\ PurchaseTypeOK' /\ Writes(t) /\ UNCHANGED <<stockVars, receipts, contended>> /\ tx[t].op = "bill"
        /\ bl \in Seq(BillLines)
        /\ \E b \in BillRows : /\ bills' = Append(bills, b) /\ b.of = o /\ b.type = "standard" /\ b.lines = bl
                               /\ b.status # "posted"
        /\ orders'[o] = [orders[o] EXCEPT !.lines = AddBilled(orders[o].lines, bl, 1)]
    BY <1>1, <1>2, <1>3, RegisterBillIs
  <1>5. PICK b \in BillRows : bills' = Append(bills, b) /\ b.status # "posted"
    BY <1>4
  <1>6. UNCHANGED <<moves, books, receipts, contended>>
    BY <1>4 DEF stockVars
  <1>7. BooksMove(0, 0, 0, 0)
    BY <1>5, <1>6, BillOver, Unposted, BooksType DEF BooksMove
  <1>. QED BY <1>7, BooksByMove

\* A change of a bill that is not posted enters nothing.
LEMMA BooksByEdit ==
  ASSUME TypeInv, TypeInv', PlacedInv, BooksInv, NEW t \in Txns, EditBill(t)
  PROVE  BooksInv'
  <1>1. PICK o : o = tx[t].o
    OBVIOUS
  <1>2. PICK bl : bl = tx[t].arg
    OBVIOUS
  <1>3. PICK b : b = tx[t].b
    OBVIOUS
  <1>4. PICK s : s = tx[t].seen
    OBVIOUS
  <1>5. PurchaseTypeOK
    BY DEF TypeInv
  <1>6. /\ PurchaseTypeOK' /\ Writes(t) /\ UNCHANGED <<stockVars, receipts>> /\ tx[t].op = "edit_bill"
        /\ bl \in Seq(BillLines) /\ s.lines \in Seq(BillLines)
        /\ b \in DOMAIN bills /\ bills[b].of = o /\ bills[b].type = "standard"
        /\ DOMAIN bills' = DOMAIN bills /\ (\A c \in DOMAIN bills : c # b => bills'[c] = bills[c])
        /\ bills'[b].of = o /\ bills'[b].type = "standard" /\ bills'[b].lines = bl
        /\ orders'[o] = [orders[o] EXCEPT !.lines = AddBilled(AddBilled(orders[o].lines, s.lines, -1), bl, 1)]
        /\ (contended => contended') /\ (~contended' => bills[b] = s)
    BY <1>1, <1>2, <1>3, <1>4, <1>5, EditBillIs
  <1>7. CASE contended'
    BY <1>7 DEF BooksInv
  <1>8. CASE ~contended'
    <2>1. bills'[b].status = MatchStatus(orders[o].lines, bl) /\ bills[b] = s
      BY <1>1, <1>2, <1>3, <1>4, <1>8, EditIsFair
    <2>2. bills'[b].status # "posted"
      BY <2>1 DEF MatchStatus
    <2>3. tx[t] # Idle /\ tx[t].op = "edit_bill"
      BY DEF EditBill
    <2>4. s.status \in Editable
      BY <1>4, <2>3 DEF PlacedInv, RequestPlaced
    <2>5. bills[b].status # "posted"
      BY <2>1, <2>4 DEF Editable
    <2>6. bills' \in Seq(BillRows) /\ bills \in Seq(BillRows)
      BY <1>5, <1>6 DEF PurchaseTypeOK, DocumentsOK
    <2>7. bills'[b] \in BillRows /\ bills[b] \in BillRows
      BY <1>6, <2>6, RowsOf
    <2>8. /\ PayableIn[bills'[b]] = 0 /\ VatIn[bills'[b]] = 0 /\ ClearedIn[bills'[b]] = 0
          /\ PayableIn[bills[b]] = 0 /\ VatIn[bills[b]] = 0 /\ ClearedIn[bills[b]] = 0
      BY <2>2, <2>5, <2>7, Unposted
    <2>9. UNCHANGED <<moves, books, receipts>>
      BY <1>6 DEF stockVars
    <2>10. /\ Over(PayableIn, bills') = Over(PayableIn, bills) + PayableIn[bills'[b]] - PayableIn[bills[b]]
           /\ Over(VatIn, bills') = Over(VatIn, bills) + VatIn[bills'[b]] - VatIn[bills[b]]
           /\ Over(ClearedIn, bills') = Over(ClearedIn, bills) + ClearedIn[bills'[b]] - ClearedIn[bills[b]]
           /\ NoReturns(bills') => NoReturns(bills)
      BY <1>6, <2>6, BillRewritten
    <2>11. BooksMove(0, 0, 0, 0)
      BY <1>6, <2>8, <2>9, <2>10, BooksType DEF BooksMove
    <2>. QED BY <2>11, BooksByMove
  <1>. QED BY <1>7, <1>8

\* What the entry of a bill does to each of the accounts
LEMMA EnteredBill ==
  ASSUME NEW b \in [Accounts -> Int], NEW x, x.subtotal \in Int, x.tax \in Int, NEW sign \in {1, -1}
  PROVE  /\ EnterBill(b, x, sign)["grni"] = b["grni"] + sign * x.subtotal
         /\ EnterBill(b, x, sign)["payable"] = b["payable"] - sign * (x.subtotal + x.tax)
         /\ EnterBill(b, x, sign)["vat"] = b["vat"] + sign * x.tax
         /\ DOMAIN EnterBill(b, x, sign) = Accounts
  <1>1. PICK s \in Int : s = sign * x.subtotal
    OBVIOUS
  <1>2. PICK v \in Int : v = sign * x.tax
    OBVIOUS
  <1>3. sign * (x.subtotal + x.tax) = s + v
    BY <1>1, <1>2
  <1>4. EnterBill(b, x, sign) = Enter(Enter(b, "grni", "payable", s), "vat", "payable", v)
    BY <1>1, <1>2 DEF EnterBill
  <1>5. PICK c \in [Accounts -> Int] : c = Enter(b, "grni", "payable", s)
    BY EnterType DEF Accounts
  <1>6. c["grni"] = b["grni"] + s /\ c["payable"] = b["payable"] - s /\ c["vat"] = b["vat"]
    BY <1>5 DEF Enter, Accounts
  <1>7. PICK d : d = Enter(c, "vat", "payable", v)
    OBVIOUS
  <1>8. d["grni"] = c["grni"] /\ d["payable"] = c["payable"] - v /\ d["vat"] = c["vat"] + v /\ DOMAIN d = Accounts
    BY <1>7 DEF Enter, Accounts
  <1>9. b["payable"] \in Int
    BY DEF Accounts
  <1>10. d["payable"] = b["payable"] - (s + v)
    BY <1>6, <1>8, <1>9
  <1>11. EnterBill(b, x, sign) = d
    BY <1>4, <1>5, <1>7
  <1>. QED BY <1>1, <1>2, <1>3, <1>6, <1>8, <1>10, <1>11

\* approve_and_post enters the bill, which was worth nothing.
LEMMA BooksByPost ==
  ASSUME TypeInv, PlacedInv, BooksInv, NEW t \in Txns, PostBill(t)
  PROVE  BooksInv'
  <1>1. PICK b : b = tx[t].b
    OBVIOUS
  <1>2. PICK s : s = tx[t].seen
    OBVIOUS
  <1>3. StockTypeOK /\ PurchaseTypeOK
    BY DEF TypeInv
  <1>4. /\ PurchaseTypeOK' /\ tx' = [tx EXCEPT ![t] = Idle] /\ tx[t].op = "post_bill"
        /\ UNCHANGED <<method, warehouse, quants, moves, counts, alerts, dropped, ops, orders, receipts, raced>>
        /\ b \in DOMAIN bills /\ s \in BillRows
        /\ DOMAIN bills' = DOMAIN bills /\ (\A c \in DOMAIN bills : c # b => bills'[c] = bills[c])
        /\ bills'[b] = [bills[b] EXCEPT !.status = "posted"]
        /\ (contended => contended') /\ (~contended' => bills[b] = s)
        /\ books' = EnterBill(books, s, 1) /\ books' \in [Accounts -> Int]
    BY <1>1, <1>2, <1>3, PostBillIs
  <1>5. CASE contended'
    BY <1>5 DEF BooksInv
  <1>6. CASE ~contended'
    <2>1. bills[b] = s /\ bills[b].status = "matched" /\ bills[b].type = "standard"
      BY <1>1, <1>4, <1>6, PostIsFair
    <2>2. s.subtotal \in Int /\ s.tax \in Int
      BY <1>4, BillParts
    <2>3. books'["grni"] = books["grni"] + s.subtotal /\ books'["payable"] = books["payable"] - (s.subtotal + s.tax)
          /\ books'["vat"] = books["vat"] + s.tax
      <3>1. books \in [Accounts -> Int]
        BY <1>3 DEF StockTypeOK
      <3>2. /\ EnterBill(books, s, 1)["grni"] = books["grni"] + 1 * s.subtotal
            /\ EnterBill(books, s, 1)["payable"] = books["payable"] - 1 * (s.subtotal + s.tax)
            /\ EnterBill(books, s, 1)["vat"] = books["vat"] + 1 * s.tax
        BY <2>2, <3>1, EnteredBill
      <3>. QED BY <1>4, <2>2, <3>2
    <2>4. PICK z : z = bills'[b]
      OBVIOUS
    <2>5. bills' \in Seq(BillRows)
      BY <1>4 DEF PurchaseTypeOK, DocumentsOK
    <2>6. z \in BillRows
      BY <1>4, <2>4, <2>5, RowsOf
    <2>7. z.status = "posted" /\ z.type = "standard" /\ z.subtotal = s.subtotal /\ z.tax = s.tax
      BY <1>4, <2>1, <2>4 DEF BillRows
    <2>8. PayableIn[z] = s.subtotal + s.tax /\ VatIn[z] = s.tax /\ ClearedIn[z] = s.subtotal
      BY <2>2, <2>6, <2>7 DEF PayableIn, VatIn, ClearedIn
    <2>9. PayableIn[bills[b]] = 0 /\ VatIn[bills[b]] = 0 /\ ClearedIn[bills[b]] = 0
      BY <1>4, <2>1, Unposted
    <2>10. /\ Over(PayableIn, bills') = Over(PayableIn, bills) + PayableIn[bills'[b]] - PayableIn[bills[b]]
           /\ Over(VatIn, bills') = Over(VatIn, bills) + VatIn[bills'[b]] - VatIn[bills[b]]
           /\ Over(ClearedIn, bills') = Over(ClearedIn, bills) + ClearedIn[bills'[b]] - ClearedIn[bills[b]]
           /\ NoReturns(bills') => NoReturns(bills)
      BY <1>4, <2>1, <2>4, <2>5, <2>7, BillRewritten
    <2>11. /\ Over(PayableIn, bills') = Over(PayableIn, bills) + (s.subtotal + s.tax)
           /\ Over(VatIn, bills') = Over(VatIn, bills) + s.tax
           /\ Over(ClearedIn, bills') = Over(ClearedIn, bills) + s.subtotal
      BY <2>2, <2>4, <2>8, <2>9, <2>10, BooksType
    <2>12. /\ Over(AccruedIn, receipts') = Over(AccruedIn, receipts) + 0
           /\ books'["grni"] = books["grni"] - 0 + s.subtotal
      BY <1>4, <2>2, <2>3, BooksType
    <2>13. BooksMove(s.subtotal + s.tax, s.tax, s.subtotal, 0)
      BY <1>4, <2>3, <2>10, <2>11, <2>12 DEF BooksMove
    <2>14. s.subtotal + s.tax \in Int /\ 0 \in Int
      BY <2>2
    <2>. QED BY <2>2, <2>13, <2>14, BooksByMove
  <1>. QED BY <1>5, <1>6

\* A debit note reverses its own amounts.
LEMMA BooksByNote ==
  ASSUME TypeInv, BooksInv, NEW t \in Txns, DebitNote(t)
  PROVE  BooksInv'
  <1>1. StockTypeOK /\ PurchaseTypeOK
    BY DEF TypeInv
  <1>2. UNCHANGED contended
    BY <1>1, DebitNoteIs
  <1>3. PICK note \in BillRows : \E k \in Works :
              /\ note.type = "debit_note" /\ note.status = "posted" /\ bills' = Append(bills, note)
              /\ books' = Enter(EnterBill(books, note, -1), "grni", "inventory",
                                IF k.value > 0 THEN HalfUp(k.value, Scale) ELSE 0)
    BY <1>1, DebitNoteIs
  <1>4. PICK n : /\ note.type = "debit_note" /\ note.status = "posted" /\ bills' = Append(bills, note)
                 /\ books' = Enter(EnterBill(books, note, -1), "grni", "inventory", n)
    BY <1>3
  <1>5. note.subtotal \in Int /\ note.tax \in Int /\ books \in [Accounts -> Int]
    BY <1>1, BillParts DEF StockTypeOK
  <1>6. PICK e : e = EnterBill(books, note, -1)
    OBVIOUS
  <1>7. /\ e["payable"] = books["payable"] - (-1) * (note.subtotal + note.tax)
        /\ e["vat"] = books["vat"] + (-1) * note.tax
        /\ DOMAIN e = Accounts
    BY <1>5, <1>6, EnteredBill
  <1>8. books'["payable"] = e["payable"] /\ books'["vat"] = e["vat"]
    BY <1>4, <1>6, <1>7 DEF Enter, Accounts
  <1>9. PayableIn[note] = (-1) * (note.subtotal + note.tax) /\ VatIn[note] = (-1) * note.tax
    BY <1>4 DEF PayableIn, VatIn
  <1>10. PayableIn[note] \in Int /\ VatIn[note] \in Int /\ 0 \in Int
    BY BillAmounts
  <1>11. /\ Over(PayableIn, bills') = Over(PayableIn, bills) + PayableIn[note]
         /\ Over(VatIn, bills') = Over(VatIn, bills) + VatIn[note]
         /\ ~NoReturns(bills')
    BY <1>4, BillOver
  <1>12. BooksMove(PayableIn[note], VatIn[note], 0, 0)
    BY <1>2, <1>7, <1>8, <1>9, <1>11 DEF BooksMove
  <1>. QED BY <1>10, <1>12, BooksByMove

\* A whole number of fine units is rounded to itself.
LEMMA RoundExact ==
  ASSUME NEW v \in Nat
  PROVE  HalfUp(Scale * v, Scale) = v
  <1>1. PICK d \in Nat \ {0} : d = Scale
    BY ScaleAssumption
  <1>2. d * v \in Nat
    BY <1>1
  <1>3. Magnitude(d) = d /\ Magnitude(d * v) = d * v
    BY <1>1, <1>2 DEF Magnitude
  <1>4. HalfUp(d * v, d) = (2 * (d * v) + d) \div (2 * d)
    BY <1>1, <1>2, <1>3 DEF HalfUp
  <1>5. PICK q \in Int : q = (2 * (d * v) + d) \div (2 * d)
    BY <1>1, <1>2
  <1>6. (2 * d) * q <= 2 * (d * v) + d /\ 2 * (d * v) + d < (2 * d) * q + 2 * d
    BY <1>1, <1>2, <1>5
  <1>7. (2 * d) * q = 2 * (d * q)
    OBVIOUS
  <1>8. 2 * (d * q) <= 2 * (d * v) + d /\ 2 * (d * v) < 2 * (d * q) + d
    BY <1>1, <1>2, <1>6, <1>7
  <1>9. ~(q >= v + 1)
    <2> SUFFICES ASSUME q >= v + 1 PROVE FALSE
      OBVIOUS
    <2>1. d * q >= d * (v + 1)
      BY <1>1
    <2>2. d * (v + 1) = d * v + d
      BY <1>1
    <2>. QED BY <1>1, <1>2, <1>8, <2>1, <2>2
  <1>10. ~(q + 1 <= v)
    <2> SUFFICES ASSUME q + 1 <= v PROVE FALSE
      OBVIOUS
    <2>1. d * (q + 1) <= d * v
      BY <1>1
    <2>2. d * (q + 1) = d * q + d
      BY <1>1
    <2>. QED BY <1>1, <1>2, <1>8, <2>1, <2>2
  <1>11. q = v
    BY <1>9, <1>10
  <1>. QED BY <1>1, <1>4, <1>5, <1>11

\* The work of a receipt after the lines in T: it is worth what they cost.
CostWorks(ls, T) == {k \in OpenedWorks : k.value = Scale * SumFunctionOnSet([i \in DOMAIN ls |-> LineCost(ls[i])], T)}

\* A line adds its cost.
LEMMA CostAdded ==
  ASSUME NEW ls \in Seq(BillLines), NEW T \in SUBSET DOMAIN ls, NEW m \in T, NEW k \in CostWorks(ls, T \ {m}),
         NEW w \in Warehouses, NEW doc \in Docs
  PROVE  ReceiveLine(k, ls[m], w, doc) \in CostWorks(ls, T)
  <1> DEFINE f == [i \in DOMAIN ls |-> LineCost(ls[i])]
             l == ls[m]
             n == l.qty * l.price * Scale
             j == ReceiveLine(k, l, w, doc)
  <1>1. l.qty \in Nat \ {0} /\ l.price \in Nat
    BY BillLineParts
  <1>2. k \in OpenedWorks /\ k \in Works /\ k.value = Scale * SumFunctionOnSet(f, T \ {m})
    BY DEF CostWorks, OpenedWorks
  <1>3. j \in OpenedWorks
    BY <1>1, <1>2, OpenedLeads, ReceiveLineType
  <1>4. \A i \in DOMAIN ls : f[i] \in Int
    BY CostOfLine
  <1>5. f[m] = LineCost(l) /\ f[m] \in Int
    BY <1>4
  <1>6. IsFiniteSet(T)
    <2>1. IsFiniteSet(DOMAIN ls)
      BY LinesOf
    <2>. QED BY <2>1, FS_Subset
  <1>7. j.value = k.value + Scale * LineCost(l)
    <2>1. CASE Stockable(l.product)
      <3>1. j = ReceiveStock(k, l.product, w, l.qty, n, "receipt", doc)
        BY <2>1 DEF ReceiveLine
      <3>2. j.value = k.value + n
        <4> HIDE DEF n, j
        <4>. QED BY <1>2, <3>1 DEF ReceiveStock, Works, WorkRows
      <3>3. LineCost(l) = l.qty * l.price
        BY <2>1 DEF LineCost
      <3>4. n = Scale * (l.qty * l.price)
        BY <1>1, ScaleAssumption
      <3>. QED BY <3>2, <3>3, <3>4
    <2>2. CASE ~Stockable(l.product)
      <3>1. j = k /\ LineCost(l) = 0
        BY <2>2 DEF ReceiveLine, LineCost
      <3>2. k.value \in Int
        BY <1>2, ValueIs
      <3>. QED BY <3>1, <3>2, ScaleAssumption
    <2>. QED BY <2>1, <2>2
  <1> HIDE DEF f, j
  <1>8. SumFunctionOnSet(f, T) = f[m] + SumFunctionOnSet(f, T \ {m})
    <2>1. \A i \in T : f[i] \in Int
      BY <1>4
    <2>. QED BY <1>6, <2>1, SumOfOthers
  <1>9. SumFunctionOnSet(f, T \ {m}) \in Int
    <2>1. \A i \in T \ {m} : f[i] \in Int
      BY <1>4
    <2>2. IsFiniteSet(T \ {m})
      BY <1>6, FS_Subset
    <2>. QED BY <2>1, <2>2, SumOfIntegers
  <1>10. j.value = Scale * SumFunctionOnSet(f, T)
    <2>1. PICK a \in Int : a = SumFunctionOnSet(f, T \ {m})
      BY <1>9
    <2>2. PICK c \in Int : c = LineCost(l)
      BY <1>5
    <2>3. SumFunctionOnSet(f, T) = c + a
      BY <1>5, <1>8, <2>1, <2>2
    <2>4. j.value = Scale * a + Scale * c
      BY <1>2, <1>7, <2>1, <2>2
    <2>5. Scale * a + Scale * c = Scale * (c + a)
      BY ScaleAssumption
    <2>. QED BY <2>3, <2>4, <2>5
  <1>. QED BY <1>3, <1>10 DEF CostWorks, f, j

\* A receipt is worth what its stockable lines cost.
LEMMA ArrivedCost ==
  ASSUME StockTypeOK, NEW ls \in Seq(BillLines), NEW w \in Warehouses, NEW doc \in Docs
  PROVE  Arrived(ls, w, doc) \in OpenedWorks /\ HalfUp(Arrived(ls, w, doc).value, Scale) = StockCost(ls)
  <1> DEFINE K == [T \in SUBSET DOMAIN ls |-> CostWorks(ls, T)]
  <1>1. Loaded \in K[{}]
    <2>1. Loaded.value = 0
      BY DEF Loaded
    <2>2. SumFunctionOnSet([i \in DOMAIN ls |-> LineCost(ls[i])], {}) = 0
      BY SumOfEmpty
    <2>. QED BY <2>1, <2>2, LoadedOpened, ScaleAssumption DEF CostWorks
  <1>2. IsFiniteSet(DOMAIN ls) /\ DOMAIN ls \subseteq Int
    BY LinesOf
  <1>3. \A T \in SUBSET DOMAIN ls : T # {} =>
          \A k \in K[T \ {Max(T)}] : ReceiveLine(k, ls[Max(T)], w, doc) \in K[T]
    <2>1. ASSUME NEW T \in SUBSET DOMAIN ls, T # {}, NEW k \in CostWorks(ls, T \ {Max(T)})
          PROVE  ReceiveLine(k, ls[Max(T)], w, doc) \in CostWorks(ls, T)
      <3>1. Max(T) \in T
        BY <1>2, <2>1, MaxIs
      <3>. QED BY <3>1, CostAdded
    <2>. QED BY <2>1
  <1> HIDE DEF K
  <1>4. Arrived(ls, w, doc) \in K[DOMAIN ls]
    BY <1>1, <1>2, <1>3, ArrivedStays
  <1>5. Arrived(ls, w, doc) \in CostWorks(ls, DOMAIN ls)
    BY <1>4 DEF K
  <1>6. Arrived(ls, w, doc).value = Scale * StockCost(ls) /\ Arrived(ls, w, doc) \in OpenedWorks
    BY <1>5 DEF CostWorks, StockCost
  <1>. QED BY <1>6, CostType, RoundExact

\* record_receipt accrues what it received.
LEMMA BooksByReceive ==
  ASSUME TypeInv, BooksInv, NEW t \in Txns, Receive(t)
  PROVE  BooksInv'
  <1>0. StockTypeOK /\ PurchaseTypeOK
    BY DEF TypeInv
  <1> DEFINE o == tx[t].o
             rl == tx[t].arg
             bl == ReceiptLines(o, rl)
  <1>1. /\ UNCHANGED contended /\ ReceiveStocks(t, bl)
        /\ ReceiveWrites(t, o, rl, bl, AddReceived(orders[o].lines, rl))
    BY <1>0, ReceiveIs
  <1>2. /\ bl \in Seq(BillLines) /\ o \in DOMAIN orders
    <2>1. /\ tx[t].op = "receive" /\ orders[o] \in OrderRows
          /\ rl \in Seq(Payloads) /\ \A i \in DOMAIN rl : rl[i].line \in DOMAIN orders[o].lines
      BY <1>1 DEF ReceiveWrites
    <2>2. tx[t] # Idle
      BY DEF Receive
    <2>3. o \in DOMAIN orders
      BY <1>0, <2>1, <2>2, OpenRequest DEF OfOrders
    <2>4. orders[o].lines \in Seq(OrderLines)
      BY <2>1, OrderParts
    <2>. QED BY <2>1, <2>3, <2>4, ReceiptLinesAre
  <1>3. PICK w \in Warehouses : \E k \in Works :
            /\ k = Arrived(bl, w, <<"goods_receipt", tx[t].number>>)
            /\ moves' = k.moves
            /\ books' = EnterVariance(Enter(books, "inventory", "grni", HalfUp(k.value, Scale)), k.variance)
    BY <1>1 DEF ReceiveStocks
  <1>4. <<"goods_receipt", tx[t].number>> \in Docs
    <2>1. tx[t].number \in Nat
      BY <1>1 DEF ReceiveStocks
    <2>. QED BY <2>1, Zenon DEF Docs
  <1>5. /\ receipts' = Append(receipts, [of |-> o, lines |-> bl])
        /\ \E b \in BillRows : bills' = Append(bills, b) /\ b.status # "posted"
    BY <1>1 DEF ReceiveWrites
  <1> HIDE DEF bl, rl, o
  <1>6. PICK k \in OpenedWorks : /\ HalfUp(k.value, Scale) = StockCost(bl) /\ moves' = k.moves
            /\ books' = EnterVariance(Enter(books, "inventory", "grni", StockCost(bl)), k.variance)
    BY <1>0, <1>2, <1>3, <1>4, ArrivedCost
  <1>7. StockCost(bl) \in Int
    BY <1>2, CostType
  <1>8. /\ books'["grni"] = books["grni"] - StockCost(bl)
        /\ books'["payable"] = books["payable"] /\ books'["vat"] = books["vat"]
    <2>1. books \in [Accounts -> Int]
      BY <1>0 DEF StockTypeOK
    <2>. QED BY <1>6, <1>7, <2>1 DEF EnterVariance, Enter, Accounts
  <1>9. Opened(moves) => Opened(moves')
    BY <1>6 DEF OpenedWorks
  <1>10. Over(AccruedIn, receipts') = Over(AccruedIn, receipts) + StockCost(bl)
    <2>1. PICK r : r = [of |-> o, lines |-> bl]
      OBVIOUS
    <2>2. r \in ReceiptRows /\ r.lines = bl
      <3>1. o \in Nat
        BY <1>0, <1>2, RowsOf DEF PurchaseTypeOK, DocumentsOK
      <3>. QED BY <1>2, <2>1, <3>1 DEF ReceiptRows
    <2>3. receipts \in Seq(ReceiptRows) /\ receipts' = Append(receipts, r)
      BY <1>0, <1>5, <2>1 DEF PurchaseTypeOK, DocumentsOK
    <2>4. Over(AccruedIn, Append(receipts, r)) = Over(AccruedIn, receipts) + AccruedIn[r]
      BY <2>2, <2>3, ReceiptAmounts, OverAppended
    <2>5. AccruedIn[r] = StockCost(bl)
      BY <2>2 DEF AccruedIn
    <2>. QED BY <2>3, <2>4, <2>5
  <1>11. PICK b \in BillRows : bills' = Append(bills, b) /\ b.status # "posted"
    BY <1>5
  <1>12. /\ Over(PayableIn, bills') = Over(PayableIn, bills) + 0
         /\ Over(VatIn, bills') = Over(VatIn, bills) + 0
         /\ Over(ClearedIn, bills') = Over(ClearedIn, bills) + 0
         /\ NoReturns(bills') => NoReturns(bills)
    BY <1>11, BillOver, Unposted
  <1>13. /\ books'["payable"] = books["payable"] - 0 /\ books'["vat"] = books["vat"] + 0
         /\ books'["grni"] = books["grni"] - StockCost(bl) + 0
    BY <1>7, <1>8, BooksType
  <1>14. BooksMove(0, 0, 0, StockCost(bl))
    BY <1>1, <1>9, <1>10, <1>12, <1>13 DEF BooksMove
  <1>15. 0 \in Int
    OBVIOUS
  <1>. QED BY <1>7, <1>14, <1>15, BooksByMove

\* What a company opens with leaves a move that says so.
LEMMA OpenLineOpens ==
  ASSUME NEW k \in Works, NEW e \in OpeningLines
  PROVE  OpenLine(k, e) \in Works /\ Opened(OpenLine(k, e).moves)
  <1>1. PICK doc : doc = <<"opening", 0>>
    OBVIOUS
  <1>2. doc \in Docs /\ doc[1] = "opening"
    BY <1>1, Zenon DEF Docs
  <1>3. OpenLine(k, e) \in Works
    BY WorksLead, OpenLineType
  <1>4. k.moves \in Seq(MoveRows)
    BY DEF Works, WorkRows
  <1>5. e.product \in Products /\ e.at \in Warehouses /\ e.qty \in Int \ {0} /\ e.price \in Nat
    BY DEF OpeningLines
  <1>6. PICK m : m.doc = doc /\ OpenLine(k, e).moves = Append(k.moves, m)
    <2>1. CASE e.qty > 0
      <3> DEFINE m == Move(e.product, e.at, e.qty, HalfUp(e.qty * e.price * Scale, e.qty), "receipt", doc)
      <3>1. OpenLine(k, e) = ReceiveStock(k, e.product, e.at, e.qty, e.qty * e.price * Scale, "receipt", doc)
        BY <1>1, <2>1 DEF OpenLine
      <3>2. m.doc = doc
        BY DEF Move
      <3>3. OpenLine(k, e).moves = Append(k.moves, m)
        <4> HIDE DEF m
        <4>1. ReceiveStock(k, e.product, e.at, e.qty, e.qty * e.price * Scale, "receipt", doc).moves = Append(k.moves, m)
          BY DEF ReceiveStock, Works, WorkRows, m
        <4>. QED BY <3>1, <4>1
      <3>. QED BY <3>2, <3>3
    <2>2. CASE ~(e.qty > 0)
      <3> DEFINE c == IssueCost(k.quants[e.product][e.at], -e.qty, method)
                 m == Move(e.product, e.at, -(-e.qty), c.unit, "return", doc)
                 less == IssueStock(k, e.product, e.at, -e.qty, "return", doc, TRUE)
      <3>1. OpenLine(k, e) = [less EXCEPT !.value = 2 * k.value - less.value]
        BY <1>1, <2>2 DEF OpenLine
      <3>2. m.doc = doc
        BY DEF Move
      <3>3. less.moves = Append(k.moves, m)
        BY DEF IssueStock, Works, WorkRows
      <3>4. less \in Works
        <4>1. -e.qty \in Nat \ {0}
          BY <1>5, <2>2
        <4>. QED BY <1>2, <1>5, <4>1, IssueStockType DEF MoveTypes
      <3> HIDE DEF less, m
      <3>5. OpenLine(k, e).moves = less.moves
        BY <3>1, <3>4 DEF Works, WorkRows
      <3>. QED BY <3>2, <3>3, <3>5
    <2>. QED BY <2>1, <2>2
  <1>7. Opened(OpenLine(k, e).moves)
    <2>1. OpenLine(k, e).moves = [i \in 1 .. Len(k.moves) + 1 |-> IF i \in 1 .. Len(k.moves) THEN k.moves[i] ELSE m]
      BY <1>4, <1>6 DEF Append
    <2>2. Len(k.moves) \in Nat
      BY <1>4, LenProperties
    <2>3. Len(k.moves) + 1 \in DOMAIN OpenLine(k, e).moves /\ OpenLine(k, e).moves[Len(k.moves) + 1] = m
      BY <2>1, <2>2
    <2>. QED BY <1>2, <1>6, <2>3 DEF Opened
  <1>. QED BY <1>3, <1>7

\* A company that opens without such a move opens without goods.
LEMMA OpenedWithGoods ==
  ASSUME NEW goods \in Seq(OpeningLines)
  PROVE  OpenedWith(goods) \in Works /\ (~Opened(OpenedWith(goods).moves) => OpenedWith(goods).value = 0)
  <1> DEFINE P(T) == {k \in Works : IF T = {} THEN k.value = 0 ELSE Opened(k.moves)}
             K == [T \in SUBSET DOMAIN goods |-> P(T)]
  <1>1. Nothing \in K[{}]
    BY NothingType DEF Nothing
  <1>2. \A T \in SUBSET DOMAIN goods : T # {} =>
          \A k \in K[T \ {Max(T)}] : OpenLine(k, goods[Max(T)]) \in K[T]
    <2>1. ASSUME NEW T \in SUBSET DOMAIN goods, T # {}, NEW k \in P(T \ {Max(T)})
          PROVE  OpenLine(k, goods[Max(T)]) \in P(T)
      <3>1. goods[Max(T)] \in OpeningLines
        BY <2>1, LinesOf
      <3>. QED BY <2>1, <3>1, OpenLineOpens
    <2>. QED BY <2>1
  <1>3. IsFiniteSet(DOMAIN goods) /\ DOMAIN goods \subseteq Int
    BY LinesOf
  <1> HIDE DEF K
  <1>4. OpenedWith(goods) \in K[DOMAIN goods]
    BY <1>1, <1>2, <1>3, OpenedWithStays
  <1>. QED BY <1>4 DEF K

\* What has to be added to come to nothing
LEMMA Negated ==
  ASSUME NEW z \in Int, NEW a \in Int, a + z = 0
  PROVE  -z = a
  OBVIOUS

\* The books of a company that has no documents yet
LEMMA BooksInit == Init => BooksInv
  <1> SUFFICES ASSUME Init PROVE BooksInv
    OBVIOUS
  <1>1. PICK o \in Openings :
          /\ moves = OpenedWith(o.goods).moves
          /\ books = EnterVariance(Enter([a \in Accounts |-> 0], "inventory", "grni",
                                         HalfUp(OpenedWith(o.goods).value, Scale)), OpenedWith(o.goods).variance)
    BY DEF Init
  <1>2. o.goods \in Seq(OpeningLines)
    BY OpeningsAssumption DEF OpeningLines
  <1>3. PICK k \in Works : k = OpenedWith(o.goods) /\ (~Opened(moves) => k.value = 0)
    BY <1>1, <1>2, OpenedWithGoods
  <1>4. HalfUp(k.value, Scale) \in Int /\ k.variance \in Int
    BY ValueIs, MoneyType
  <1>5. PICK n \in Int : n = HalfUp(k.value, Scale) /\ books = EnterVariance(Enter([a \in Accounts |-> 0], "inventory", "grni", n), k.variance)
    BY <1>1, <1>3, <1>4
  <1>6. books["payable"] = 0 /\ books["vat"] = 0 /\ books["grni"] = -n
    BY <1>4, <1>5 DEF EnterVariance, Enter, Accounts
  <1>7. ~Opened(moves) => n = 0
    <2>1. HalfUp(Scale * 0, Scale) = 0
      BY RoundExact
    <2>2. Scale * 0 = 0
      BY ScaleAssumption
    <2>. QED BY <1>3, <1>5, <2>1, <2>2
  <1>8. bills = <<>> /\ receipts = <<>>
    BY DEF Init
  <1>9. Over(PayableIn, bills) = 0 /\ Over(VatIn, bills) = 0 /\ Over(ClearedIn, bills) = 0 /\ Over(AccruedIn, receipts) = 0
    BY <1>8, OverNone
  <1>10. -books["payable"] = Over(PayableIn, bills) /\ books["vat"] = Over(VatIn, bills)
    <2>1. /\ books["payable"] \in Int /\ Over(PayableIn, bills) \in Int
          /\ Over(PayableIn, bills) + books["payable"] = 0
      BY <1>6, <1>9
    <2>2. -books["payable"] = Over(PayableIn, bills)
      BY <2>1, Negated
    <2>. QED BY <1>6, <1>9, <2>2
  <1>11. ~Opened(moves) => -books["grni"] = Over(AccruedIn, receipts) - Over(ClearedIn, bills)
    <2> SUFFICES ASSUME ~Opened(moves) PROVE -books["grni"] = Over(AccruedIn, receipts) - Over(ClearedIn, bills)
      OBVIOUS
    <2>1. books["grni"] \in Int /\ n = 0
      BY <1>6, <1>7
    <2>2. Over(AccruedIn, receipts) - Over(ClearedIn, bills) = n
      BY <1>9, <2>1
    <2>3. n + books["grni"] = 0
      BY <1>6
    <2>. QED BY <2>1, <2>2, <2>3, Negated
  <1>. QED BY <1>10, <1>11 DEF BooksInv

\* Every step keeps the books.
LEMMA BooksStep == TypeInv /\ TypeInv' /\ PlacedInv /\ BooksInv /\ [Next]_vars => BooksInv'
  <1> SUFFICES ASSUME TypeInv, TypeInv', PlacedInv, BooksInv, [Next]_vars PROVE BooksInv'
    OBVIOUS
  <1>0. StockTypeOK /\ PurchaseTypeOK
    BY DEF TypeInv
  <1>1. CASE StockNext /\ UNCHANGED purchaseVars
    <2>1. UNCHANGED <<receipts, bills, contended>>
      BY <1>1 DEF purchaseVars
    <2>2. Loaded \in OpenedWorks
      BY <1>0, LoadedOpened
    <2>3. Adopts(OpenedWorks) \/ \E w \in Warehouses, x \in Invoiced : Deliver(w, x)
      BY <1>0, <1>1, <2>2, OpenedLeads, StockStep
    <2>4. CASE Adopts(OpenedWorks)
      BY <2>1, <2>4, BooksSame DEF Adopts, OpenedWorks
    <2>5. CASE \E w \in Warehouses, x \in Invoiced : Deliver(w, x)
      BY <1>0, <2>1, <2>5, DeliverStays, DeliverOpened, BooksSame
    <2>. QED BY <2>3, <2>4, <2>5
  <1>2. ASSUME UNCHANGED <<stockVars, receipts, bills, contended>> PROVE BooksInv'
    BY <1>2, BooksSame DEF stockVars
  <1>3. CASE UNCHANGED vars
    BY <1>2, <1>3 DEF vars, purchaseVars
  <1>4. CASE CreateOrder
    BY <1>2, <1>4 DEF CreateOrder
  <1>5. ASSUME NEW t \in Txns, Reads(t) \/ Rollback(t) PROVE BooksInv'
    <2>1. UNCHANGED <<stockVars, receipts, bills, contended>>
      BY <1>0, <1>5, ReadsAre, RollbackIs
    <2>. QED BY <1>2, <2>1
  <1>6. ASSUME NEW t \in Txns,
               UpdateOrder(t) \/ ConfirmOrder(t) \/ DecideApproval(t) \/ ShortClose(t) \/ ReopenLine(t)
        PROVE  BooksInv'
    <2>1. UNCHANGED <<stockVars, receipts, bills, contended>>
      BY <1>6 DEF UpdateOrder, ConfirmOrder, DecideApproval, ShortClose, ReopenLine, OrderOnly
    <2>. QED BY <1>2, <2>1
  <1>7. ASSUME NEW t \in Txns, Receive(t) \/ RegisterBill(t) \/ EditBill(t) \/ PostBill(t) \/ DebitNote(t)
        PROVE  BooksInv'
    BY <1>7, BooksByReceive, BooksByRegister, BooksByEdit, BooksByPost, BooksByNote
  <1>. QED BY <1>1, <1>3, <1>4, <1>5, <1>6, <1>7, NextIs

(***************************************************************************)
(* The lines of orders and the documents say the same.                     *)
(***************************************************************************)
\* f and g are a document's lines, each at the weight w of the line of the order o
\* that it names: by the lines X of orders, and by its own.
Weighed(ls, o, w, X, f, g) ==
  /\ IsFiniteSet(X) /\ (\A x \in X : w[x] \in Int) /\ (\A x \in X : x = <<x[1], x[2]>>)
  /\ \A j \in DOMAIN ls : <<o, ls[j].line>> \in X
  /\ \A x \in X : f[x] = w[x] * (IF o = x[1] THEN QtyOf(ls, x[2]) ELSE 0)
  /\ \A j \in DOMAIN ls : g[j] = w[<<o, ls[j].line>>] * ls[j].qty

\* Their sums are one.
LEMMA WeighedLines ==
  ASSUME NEW ls \in Seq(BillLines), NEW o, NEW w, NEW X, NEW f, NEW g, Weighed(ls, o, w, X, f, g)
  PROVE  SumFunctionOnSet(f, X) = SumFunctionOnSet(g, DOMAIN ls)
  <1> SUFFICES ASSUME IsFiniteSet(X), \A x \in X : w[x] \in Int, \A x \in X : x = <<x[1], x[2]>>,
                      \A j \in DOMAIN ls : <<o, ls[j].line>> \in X,
                      \A x \in X : f[x] = w[x] * (IF o = x[1] THEN QtyOf(ls, x[2]) ELSE 0),
                      \A j \in DOMAIN ls : g[j] = w[<<o, ls[j].line>>] * ls[j].qty
               PROVE  SumFunctionOnSet(f, X) = SumFunctionOnSet(g, DOMAIN ls)
    BY DEF Weighed
  <1> DEFINE D == DOMAIN ls
             A == [j \in D |-> [x \in X |-> IF x = <<o, ls[j].line>> THEN w[x] * ls[j].qty ELSE 0]]
  <1>1. IsFiniteSet(D)
    BY LinesOf
  <1>2. \A j \in D : ls[j].qty \in Nat
    BY BillLineParts
  <1>3. \A j \in D : \A x \in X : A[j][x] \in Int
    <2> TAKE j \in D
    <2> TAKE x \in X
    <2>1. w[x] \in Int /\ ls[j].qty \in Int
      BY <1>2
    <2>2. w[x] * ls[j].qty \in Int
      BY <2>1
    <2>. QED BY <2>2
  <1>4. \A x \in X : f[x] = SumFunctionOnSet([j \in D |-> A[j][x]], D)
    <2> TAKE x \in X
    <2> DEFINE h == [j \in D |-> A[j][x]]
    <2>1. CASE o = x[1]
      <3>1. \A j \in D : Named(ls, x[2])[j] \in Int
        BY <1>2 DEF Named
      <3>2. \A j \in D : h[j] = w[x] * Named(ls, x[2])[j]
        <4> TAKE j \in D
        <4>1. h[j] = IF x = <<o, ls[j].line>> THEN w[x] * ls[j].qty ELSE 0
          OBVIOUS
        <4>2. x = <<o, ls[j].line>> <=> ls[j].line = x[2]
          <5>1. x = <<o, x[2]>>
            BY <2>1
          <5>. QED BY <5>1
        <4>3. Named(ls, x[2])[j] = IF ls[j].line = x[2] THEN ls[j].qty ELSE 0
          BY DEF Named
        <4>4. w[x] \in Int
          OBVIOUS
        <4> HIDE DEF h
        <4>. QED BY <4>1, <4>2, <4>3, <4>4
      <3>3. w[x] \in Int
        OBVIOUS
      <3> HIDE DEF h, D
      <3>4. SumFunctionOnSet(h, D) = w[x] * SumFunctionOnSet(Named(ls, x[2]), D)
        BY <1>1, <3>1, <3>2, <3>3, SumScaled
      <3>5. f[x] = w[x] * QtyOf(ls, x[2])
        BY <2>1
      <3>. QED BY <3>4, <3>5, QtyOfIs DEF h, D
    <2>2. CASE o # x[1]
      <3>1. \A j \in D : h[j] = 0
        <4> TAKE j \in D
        <4>1. x # <<o, ls[j].line>>
          BY <2>2
        <4>. QED BY <4>1
      <3>2. f[x] = w[x] * 0 /\ w[x] \in Int
        BY <2>2
      <3> HIDE DEF h
      <3>3. SumFunctionOnSet(h, D) = 0
        BY <1>1, <3>1, SumOfZeros
      <3>. QED BY <3>2, <3>3 DEF h
    <2>. QED BY <2>1, <2>2
  <1>5. \A j \in D : g[j] = SumFunctionOnSet(A[j], X)
    <2> TAKE j \in D
    <2> DEFINE a == <<o, ls[j].line>>
               h == A[j]
    <2>1. a \in X
      OBVIOUS
    <2>2. h[a] = w[a] * ls[j].qty
      BY <2>1
    <2>3. \A x \in X \ {a} : h[x] = 0
      OBVIOUS
    <2>4. h[a] \in Int
      BY <1>3, <2>1
    <2>5. g[j] = w[a] * ls[j].qty
      OBVIOUS
    <2> HIDE DEF a, h, A
    <2>6. SumFunctionOnSet(h, X) = h[a]
      BY <2>1, <2>3, <2>4, SumOfPoint
    <2>. QED BY <2>2, <2>5, <2>6 DEF h
  <1> HIDE DEF A, D
  <1>6. Totals(A, D, X, f, g)
    BY <1>1, <1>3, <1>4, <1>5 DEF Totals
  <1>7. SumFunctionOnSet(f, X) = SumFunctionOnSet(g, D)
    BY <1>6, SumExchange
  <1>. QED BY <1>7 DEF D

\* The lines of orders are finitely many.
LEMMA OrderedIs ==
  ASSUME PurchaseTypeOK
  PROVE  /\ IsFiniteSet(Ordered)
         /\ \A x \in Ordered : /\ x = <<x[1], x[2]>> /\ x[1] \in DOMAIN orders
                               /\ x[2] \in DOMAIN orders[x[1]].lines
         /\ \A o \in DOMAIN orders : \A i \in DOMAIN orders[o].lines : <<o, i>> \in Ordered
  <1>1. IsFiniteSet(DOMAIN orders)
    BY LinesOf DEF PurchaseTypeOK, DocumentsOK
  <1> DEFINE F == [o \in DOMAIN orders |-> {o} \X DOMAIN orders[o].lines]
             U == {F[o] : o \in DOMAIN orders}
  <1>2. \A o \in DOMAIN orders : IsFiniteSet(F[o])
    <2> TAKE o \in DOMAIN orders
    <2>1. orders[o].lines \in Seq(OrderLines)
      BY OrderNow
    <2>2. IsFiniteSet(DOMAIN orders[o].lines) /\ IsFiniteSet({o})
      BY <2>1, LinesOf, FS_Singleton
    <2>3. IsFiniteSet({o} \X DOMAIN orders[o].lines)
      BY <2>2, FS_Product
    <2>. QED BY <2>3
  <1>3. Ordered = UNION U
    BY DEF Ordered
  <1>4. IsFiniteSet(U)
    <2> DEFINE f == [o \in DOMAIN orders |-> F[o]]
    <2>1. f \in Surjection(DOMAIN orders, U)
      BY DEF Surjection
    <2> HIDE DEF f, U, F
    <2>. QED BY <1>1, <2>1, FS_Surjection
  <1>5. IsFiniteSet(UNION U)
    <2>1. \A T \in U : IsFiniteSet(T)
      BY <1>2
    <2> HIDE DEF U
    <2>. QED BY <1>4, <2>1, FS_UNION
  <1>6. \A x \in Ordered : /\ x = <<x[1], x[2]>> /\ x[1] \in DOMAIN orders
                           /\ x[2] \in DOMAIN orders[x[1]].lines
    BY DEF Ordered
  <1>7. \A o \in DOMAIN orders : \A i \in DOMAIN orders[o].lines : <<o, i>> \in Ordered
    BY DEF Ordered
  <1>. QED BY <1>3, <1>5, <1>6, <1>7

\* What receipts say of line i of the order o, and what posted bills bill of it
GoodsOf(rs, o, i) == [r \in DOMAIN rs |-> IF rs[r].of = o THEN QtyOf(rs[r].lines, i) ELSE 0]
InGoods(rs, o, i) == SumFunctionOnSet(GoodsOf(rs, o, i), DOMAIN rs)
PostedOf(bs, o, i) ==
  [b \in DOMAIN bs |-> IF bs[b].of = o /\ bs[b].type = "standard" /\ bs[b].status = "posted" THEN QtyOf(bs[b].lines, i) ELSE 0]
InPosted(bs, o, i) == SumFunctionOnSet(PostedOf(bs, o, i), DOMAIN bs)

\* The price of a line of an order, and the price of its goods
LinePrice(x)  == orders[x[1]].lines[x[2]].price
GoodsPrice(x) == IF Stockable(orders[x[1]].lines[x[2]].product) THEN LinePrice(x) ELSE 0

\* The quantity of a line on a receipt is a number.
LEMMA GoodsOfType ==
  ASSUME NEW rs \in Seq(ReceiptRows), NEW o, NEW i
  PROVE  IsFiniteSet(DOMAIN rs) /\ \A r \in DOMAIN rs : GoodsOf(rs, o, i)[r] \in Nat
  <1>1. \A r \in DOMAIN rs : rs[r] \in ReceiptRows
    BY RowsOf
  <1>2. \A r \in DOMAIN rs : QtyOf(rs[r].lines, i) \in Nat
    BY <1>1, BillLinesSum DEF ReceiptRows
  <1>. QED BY <1>2, LinesOf DEF GoodsOf

\* Prices are amounts.
LEMMA PricesAre ==
  ASSUME PurchaseTypeOK, NEW x \in Ordered
  PROVE  LinePrice(x) \in Int /\ GoodsPrice(x) \in Int
  <1>1. x[1] \in DOMAIN orders /\ x[2] \in DOMAIN orders[x[1]].lines
    BY OrderedIs
  <1>2. orders[x[1]].lines \in Seq(OrderLines)
    BY <1>1, OrderNow
  <1>3. orders[x[1]].lines[x[2]].price \in Nat
    BY <1>1, <1>2, LineParts
  <1>. QED BY <1>3 DEF LinePrice, GoodsPrice

\* A receipt says of the lines of orders, at the price of goods, what it accrues.
LEMMA ReceiptWeighed ==
  ASSUME PurchaseTypeOK, PlacedInv, NEW r \in DOMAIN receipts
  PROVE  AccruedIn[receipts[r]]
           = SumFunctionOnSet([x \in Ordered |-> GoodsPrice(x) * GoodsOf(receipts, x[1], x[2])[r]], Ordered)
  <1>1. PICK ls : ls = receipts[r].lines
    OBVIOUS
  <1>2. PICK o : o = receipts[r].of
    OBVIOUS
  <1>3. receipts[r] \in ReceiptRows /\ o \in DOMAIN orders
    BY <1>2, RowsOf DEF PurchaseTypeOK, DocumentsOK
  <1>4. ls \in Seq(BillLines)
    BY <1>1, <1>3 DEF ReceiptRows
  <1>5. \A j \in DOMAIN ls : /\ ls[j].line \in DOMAIN orders[o].lines
                             /\ ls[j].product = orders[o].lines[ls[j].line].product
                             /\ ls[j].price = orders[o].lines[ls[j].line].price
    BY <1>1, <1>2 DEF PlacedInv, ReceiptPlaced
  <1> DEFINE w == [x \in Ordered |-> GoodsPrice(x)]
             f == [x \in Ordered |-> GoodsPrice(x) * GoodsOf(receipts, x[1], x[2])[r]]
             g == [j \in DOMAIN ls |-> LineCost(ls[j])]
  <1>6. \A j \in DOMAIN ls : <<o, ls[j].line>> \in Ordered
    BY <1>3, <1>5, OrderedIs
  <1>7. \A x \in Ordered : w[x] \in Int
    BY PricesAre
  <1>8. \A x \in Ordered : x = <<x[1], x[2]>>
    BY OrderedIs
  <1>9. \A x \in Ordered : f[x] = w[x] * (IF o = x[1] THEN QtyOf(ls, x[2]) ELSE 0)
    BY <1>1, <1>2 DEF GoodsOf
  <1>10. \A j \in DOMAIN ls : g[j] = w[<<o, ls[j].line>>] * ls[j].qty
    <2> TAKE j \in DOMAIN ls
    <2>1. w[<<o, ls[j].line>>] = IF Stockable(ls[j].product) THEN ls[j].price ELSE 0
      BY <1>5, <1>6 DEF GoodsPrice, LinePrice
    <2>2. g[j] = IF Stockable(ls[j].product) THEN ls[j].qty * ls[j].price ELSE 0
      BY DEF LineCost
    <2>3. ls[j].qty \in Nat /\ ls[j].price \in Nat
      BY <1>4, BillLineParts
    <2> HIDE DEF w, g
    <2>4. ls[j].qty * ls[j].price = ls[j].price * ls[j].qty
      BY <2>3
    <2>5. 0 = 0 * ls[j].qty
      BY <2>3
    <2>. QED BY <2>1, <2>2, <2>4, <2>5
  <1>11. IsFiniteSet(Ordered)
    BY OrderedIs
  <1>12. AccruedIn[receipts[r]] = SumFunctionOnSet(g, DOMAIN ls)
    BY <1>1, <1>3 DEF AccruedIn, StockCost
  <1> HIDE DEF f, g, w
  <1>13. Weighed(ls, o, w, Ordered, f, g)
    BY <1>6, <1>7, <1>8, <1>9, <1>10, <1>11 DEF Weighed
  <1>14. SumFunctionOnSet(f, Ordered) = SumFunctionOnSet(g, DOMAIN ls)
    BY <1>4, <1>13, WeighedLines
  <1>. QED BY <1>12, <1>14 DEF f

\* A bill says of them, at their prices, what it is worth, if it is posted.
LEMMA BillWeighed ==
  ASSUME PurchaseTypeOK, PlacedInv, FairInv, ~contended, NoReturns(bills), NEW b \in DOMAIN bills
  PROVE  WorthIn[bills[b]]
           = SumFunctionOnSet([x \in Ordered |-> LinePrice(x) * PostedOf(bills, x[1], x[2])[b]], Ordered)
  <1>1. PICK ls : ls = bills[b].lines
    OBVIOUS
  <1>2. PICK o : o = bills[b].of
    OBVIOUS
  <1>3. bills[b] \in BillRows /\ bills[b].type = "standard" /\ o \in DOMAIN orders
    BY <1>2, RowsOf DEF PurchaseTypeOK, DocumentsOK, NoReturns
  <1> DEFINE f == [x \in Ordered |-> LinePrice(x) * PostedOf(bills, x[1], x[2])[b]]
  <1>4. IsFiniteSet(Ordered)
    BY OrderedIs
  <1>5. CASE bills[b].status # "posted"
    <2>1. \A x \in Ordered : f[x] = 0
      <3> TAKE x \in Ordered
      <3>1. PostedOf(bills, x[1], x[2])[b] = 0
        BY <1>5 DEF PostedOf
      <3>2. LinePrice(x) \in Int
        BY PricesAre
      <3>. QED BY <3>1, <3>2
    <2>2. WorthIn[bills[b]] = 0
      BY <1>3, <1>5 DEF WorthIn
    <2> HIDE DEF f
    <2>3. SumFunctionOnSet(f, Ordered) = 0
      BY <1>4, <2>1, SumOfZeros
    <2>. QED BY <2>2, <2>3 DEF f
  <1>6. CASE bills[b].status = "posted"
    <2>1. ls \in Seq(BillLines)
      BY <1>1, <1>3, BillParts
    <2>2. \A j \in DOMAIN ls : ls[j].line \in DOMAIN orders[o].lines
      BY <1>1, <1>2, <1>3 DEF PlacedInv, BillPlaced, Names
    <2>3. \A j \in DOMAIN ls : ls[j].price = orders[o].lines[ls[j].line].price
      BY <1>1, <1>2, <1>3, <1>6 DEF FairInv, FairBill, Priced
    <2> DEFINE w == [x \in Ordered |-> LinePrice(x)]
               g == [j \in DOMAIN ls |-> ls[j].qty * ls[j].price]
    <2>4. \A j \in DOMAIN ls : <<o, ls[j].line>> \in Ordered
      BY <1>3, <2>2, OrderedIs
    <2>5. \A x \in Ordered : w[x] \in Int
      BY PricesAre
    <2>6. \A x \in Ordered : x = <<x[1], x[2]>>
      BY OrderedIs
    <2>7. \A x \in Ordered : f[x] = w[x] * (IF o = x[1] THEN QtyOf(ls, x[2]) ELSE 0)
      BY <1>1, <1>2, <1>3, <1>6 DEF PostedOf
    <2>8. \A j \in DOMAIN ls : g[j] = w[<<o, ls[j].line>>] * ls[j].qty
      <3> TAKE j \in DOMAIN ls
      <3>1. w[<<o, ls[j].line>>] = ls[j].price
        BY <2>3, <2>4 DEF LinePrice
      <3>2. ls[j].qty \in Nat /\ ls[j].price \in Nat
        BY <2>1, BillLineParts
      <3>3. ls[j].qty * ls[j].price = ls[j].price * ls[j].qty
        BY <3>2
      <3>. QED BY <3>1, <3>3
    <2>9. WorthIn[bills[b]] = SumFunctionOnSet(g, DOMAIN ls)
      <3>1. Value(ls) = SumFunctionOnSet(g, DOMAIN ls)
        BY DEF Value, SumLines, TotalOf, SumFunction
      <3>. QED BY <1>1, <1>3, <1>6, <3>1 DEF WorthIn
    <2> HIDE DEF f, g, w
    <2>10. Weighed(ls, o, w, Ordered, f, g)
      BY <1>4, <2>4, <2>5, <2>6, <2>7, <2>8 DEF Weighed
    <2>11. SumFunctionOnSet(f, Ordered) = SumFunctionOnSet(g, DOMAIN ls)
      BY <2>1, <2>10, WeighedLines
    <2>. QED BY <2>9, <2>11 DEF f
  <1>. QED BY <1>5, <1>6

\* What receipts say of lines of orders, at the price of goods, is what they
\* accrue.
LEMMA ReceivedWorth ==
  ASSUME PurchaseTypeOK, PlacedInv
  PROVE  SumFunctionOnSet([x \in Ordered |-> GoodsPrice(x) * InGoods(receipts, x[1], x[2])], Ordered)
           = Over(AccruedIn, receipts)
  <1> DEFINE D == DOMAIN receipts
             w == [x \in Ordered |-> GoodsPrice(x)]
             Q == [r \in D |-> [x \in Ordered |-> GoodsOf(receipts, x[1], x[2])[r]]]
             cols == [x \in Ordered |-> GoodsPrice(x) * InGoods(receipts, x[1], x[2])]
             rows == [r \in D |-> AccruedIn[receipts[r]]]
  <1>1. IsFiniteSet(D) /\ IsFiniteSet(Ordered) /\ receipts \in Seq(ReceiptRows)
    BY OrderNow, LinesOf, OrderedIs
  <1>2. \A x \in Ordered : w[x] \in Int
    BY PricesAre
  <1>3. \A r \in D : \A x \in Ordered : Q[r][x] \in Int
    <2>1. \A x \in Ordered : \A r \in D : GoodsOf(receipts, x[1], x[2])[r] \in Nat
      BY <1>1, GoodsOfType
    <2>. QED BY <2>1
  <1>4. \A x \in Ordered : cols[x] = w[x] * SumFunctionOnSet([r \in D |-> Q[r][x]], D)
    <2> TAKE x \in Ordered
    <2>1. [r \in D |-> Q[r][x]] = GoodsOf(receipts, x[1], x[2])
      BY DEF GoodsOf
    <2>2. cols[x] = w[x] * SumFunctionOnSet(GoodsOf(receipts, x[1], x[2]), D)
      BY DEF InGoods
    <2>. QED BY <2>1, <2>2
  <1>5. \A r \in D : rows[r] = SumFunctionOnSet([x \in Ordered |-> w[x] * Q[r][x]], Ordered)
    <2> TAKE r \in D
    <2>1. rows[r] = SumFunctionOnSet([x \in Ordered |-> GoodsPrice(x) * GoodsOf(receipts, x[1], x[2])[r]], Ordered)
      BY ReceiptWeighed
    <2>2. [x \in Ordered |-> GoodsPrice(x) * GoodsOf(receipts, x[1], x[2])[r]] = [x \in Ordered |-> w[x] * Q[r][x]]
      OBVIOUS
    <2>. QED BY <2>1, <2>2
  <1>6. Over(AccruedIn, receipts) = SumFunctionOnSet(rows, D)
    BY DEF Over
  <1> HIDE DEF D, w, Q, cols, rows
  <1>7. WeighedAll(Q, D, Ordered, w, cols, rows)
    BY <1>1, <1>2, <1>3, <1>4, <1>5 DEF WeighedAll
  <1>8. SumFunctionOnSet(cols, Ordered) = SumFunctionOnSet(rows, D)
    BY <1>7, WeighedTable
  <1>. QED BY <1>6, <1>8 DEF cols

\* The quantity of a line on a posted bill is a number.
LEMMA PostedOfType ==
  ASSUME NEW bs \in Seq(BillRows), NEW o, NEW i
  PROVE  IsFiniteSet(DOMAIN bs) /\ \A b \in DOMAIN bs : PostedOf(bs, o, i)[b] \in Nat
  <1>1. \A b \in DOMAIN bs : bs[b] \in BillRows
    BY RowsOf
  <1>2. \A b \in DOMAIN bs : bs[b].lines \in Seq(BillLines)
    BY <1>1, BillParts
  <1>3. \A b \in DOMAIN bs : QtyOf(bs[b].lines, i) \in Nat
    BY <1>2, BillLinesSum
  <1>. QED BY <1>3, LinesOf DEF PostedOf

\* What posted bills bill of lines of orders, at their prices, is what they are worth.
LEMMA PostedWorth ==
  ASSUME PurchaseTypeOK, PlacedInv, FairInv, ~contended, NoReturns(bills)
  PROVE  SumFunctionOnSet([x \in Ordered |-> LinePrice(x) * InPosted(bills, x[1], x[2])], Ordered)
           = Over(WorthIn, bills)
  <1> DEFINE D == DOMAIN bills
             w == [x \in Ordered |-> LinePrice(x)]
             Q == [b \in D |-> [x \in Ordered |-> PostedOf(bills, x[1], x[2])[b]]]
             cols == [x \in Ordered |-> LinePrice(x) * InPosted(bills, x[1], x[2])]
             rows == [b \in D |-> WorthIn[bills[b]]]
  <1>1. IsFiniteSet(D) /\ IsFiniteSet(Ordered) /\ bills \in Seq(BillRows)
    BY OrderNow, LinesOf, OrderedIs
  <1>2. \A x \in Ordered : w[x] \in Int
    BY PricesAre
  <1>3. \A b \in D : \A x \in Ordered : Q[b][x] \in Int
    <2>1. \A x \in Ordered : \A b \in D : PostedOf(bills, x[1], x[2])[b] \in Nat
      BY <1>1, PostedOfType
    <2>. QED BY <2>1
  <1>4. \A x \in Ordered : cols[x] = w[x] * SumFunctionOnSet([b \in D |-> Q[b][x]], D)
    <2> TAKE x \in Ordered
    <2>1. [b \in D |-> Q[b][x]] = PostedOf(bills, x[1], x[2])
      BY DEF PostedOf
    <2>2. cols[x] = w[x] * SumFunctionOnSet(PostedOf(bills, x[1], x[2]), D)
      BY DEF InPosted
    <2>. QED BY <2>1, <2>2
  <1>5. \A b \in D : rows[b] = SumFunctionOnSet([x \in Ordered |-> w[x] * Q[b][x]], Ordered)
    <2> TAKE b \in D
    <2>1. rows[b] = SumFunctionOnSet([x \in Ordered |-> LinePrice(x) * PostedOf(bills, x[1], x[2])[b]], Ordered)
      BY BillWeighed
    <2>2. [x \in Ordered |-> LinePrice(x) * PostedOf(bills, x[1], x[2])[b]] = [x \in Ordered |-> w[x] * Q[b][x]]
      OBVIOUS
    <2>. QED BY <2>1, <2>2
  <1>6. Over(WorthIn, bills) = SumFunctionOnSet(rows, D)
    BY DEF Over
  <1> HIDE DEF D, w, Q, cols, rows
  <1>7. WeighedAll(Q, D, Ordered, w, cols, rows)
    BY <1>1, <1>2, <1>3, <1>4, <1>5 DEF WeighedAll
  <1>8. SumFunctionOnSet(cols, Ordered) = SumFunctionOnSet(rows, D)
    BY <1>7, WeighedTable
  <1>. QED BY <1>6, <1>8 DEF cols

\* What is open on a line, received or billed, in the words of the invariant and
\* in those of the documents
OpenOn(x) == LET l == orders[x[1]].lines[x[2]] IN
  l.price * ((IF Stockable(l.product) THEN OnReceipts(x[1], x[2]) ELSE 0)
              - OnBills(x[1], x[2], LAMBDA b : b.status = "posted"))

\* They say the same.
LEMMA OpenOnIs ==
  ASSUME PurchaseTypeOK, NEW x \in Ordered
  PROVE  /\ GoodsPrice(x) * InGoods(receipts, x[1], x[2]) \in Int
         /\ LinePrice(x) * InPosted(bills, x[1], x[2]) \in Int
         /\ OpenOn(x) = GoodsPrice(x) * InGoods(receipts, x[1], x[2]) - LinePrice(x) * InPosted(bills, x[1], x[2])
  <1> DEFINE l == orders[x[1]].lines[x[2]]
             a == InGoods(receipts, x[1], x[2])
             c == InPosted(bills, x[1], x[2])
             q == LinePrice(x)
             g == GoodsPrice(x)
  <1>1. x[1] \in DOMAIN orders /\ x[2] \in DOMAIN orders[x[1]].lines
    BY OrderedIs
  <1>2. OnReceipts(x[1], x[2]) = a
    BY DEF OnReceipts, SumLines, TotalOf, SumFunction, InGoods, GoodsOf
  <1>3. OnBills(x[1], x[2], LAMBDA b : b.status = "posted") = c
    BY DEF OnBills, SumLines, TotalOf, SumFunction, InPosted, PostedOf
  <1>4. receipts \in Seq(ReceiptRows) /\ bills \in Seq(BillRows)
    BY OrderNow
  <1>5. a \in Nat
    <2>1. IsFiniteSet(DOMAIN receipts) /\ \A r \in DOMAIN receipts : GoodsOf(receipts, x[1], x[2])[r] \in Nat
      BY <1>4, GoodsOfType
    <2>. QED BY <2>1, NatSum DEF InGoods
  <1>6. c \in Nat
    <2>1. IsFiniteSet(DOMAIN bills) /\ \A b \in DOMAIN bills : PostedOf(bills, x[1], x[2])[b] \in Nat
      BY <1>4, PostedOfType
    <2>. QED BY <2>1, NatSum DEF InPosted
  <1>7. q \in Int /\ g \in Int
    BY PricesAre
  <1>8. g = (IF Stockable(l.product) THEN q ELSE 0)
    BY DEF GoodsPrice
  <1>9. OpenOn(x) = q * ((IF Stockable(l.product) THEN a ELSE 0) - c)
    BY <1>2, <1>3 DEF OpenOn, LinePrice
  <1> DEFINE s == Stockable(l.product)
  <1> HIDE DEF s, a, c, q, g
  <1>10. OpenOn(x) = q * ((IF s THEN a ELSE 0) - c) /\ g = (IF s THEN q ELSE 0)
    BY <1>8, <1>9 DEF s
  <1>11. q * ((IF s THEN a ELSE 0) - c) = g * a - q * c
    <2>1. CASE s
      <3>1. q * (a - c) = q * a - q * c
        BY <1>5, <1>6, <1>7
      <3>. QED BY <1>10, <2>1, <3>1
    <2>2. CASE ~s
      <3>1. q * (0 - c) = 0 * a - q * c
        BY <1>5, <1>6, <1>7
      <3>. QED BY <1>10, <2>2, <3>1
    <2>. QED BY <2>1, <2>2
  <1>12. g * a \in Int /\ q * c \in Int
    BY <1>5, <1>6, <1>7
  <1>. QED BY <1>10, <1>11, <1>12 DEF a, c, q, g

\* The accounts of the invariant are sums over documents.
LEMMA AccountsAre ==
  /\ SumLines(bills, LAMBDA b : IF b.status # "posted" THEN 0
                                ELSE (IF b.type = "standard" THEN 1 ELSE -1) * (b.subtotal + b.tax))
       = SumFunctionOnSet([i \in DOMAIN bills |-> IF bills[i].status # "posted" THEN 0
             ELSE (IF bills[i].type = "standard" THEN 1 ELSE -1) * (bills[i].subtotal + bills[i].tax)], DOMAIN bills)
  /\ SumLines(bills, LAMBDA b : IF b.status # "posted" THEN 0
                                ELSE (IF b.type = "standard" THEN 1 ELSE -1) * b.tax)
       = SumFunctionOnSet([i \in DOMAIN bills |-> IF bills[i].status # "posted" THEN 0
             ELSE (IF bills[i].type = "standard" THEN 1 ELSE -1) * bills[i].tax], DOMAIN bills)
  BY DEF SumLines, TotalOf, SumFunction

\* Those over bills are what the books are compared with.
LEMMA BillsOver ==
  ASSUME bills \in Seq(BillRows)
  PROVE  /\ SumFunctionOnSet([i \in DOMAIN bills |-> IF bills[i].status # "posted" THEN 0
             ELSE (IF bills[i].type = "standard" THEN 1 ELSE -1) * (bills[i].subtotal + bills[i].tax)], DOMAIN bills)
             = Over(PayableIn, bills)
         /\ SumFunctionOnSet([i \in DOMAIN bills |-> IF bills[i].status # "posted" THEN 0
             ELSE (IF bills[i].type = "standard" THEN 1 ELSE -1) * bills[i].tax], DOMAIN bills)
             = Over(VatIn, bills)
  <1>1. \A i \in DOMAIN bills : bills[i] \in BillRows
    BY RowsOf
  <1>2. [i \in DOMAIN bills |-> IF bills[i].status # "posted" THEN 0
             ELSE (IF bills[i].type = "standard" THEN 1 ELSE -1) * (bills[i].subtotal + bills[i].tax)]
          = [i \in DOMAIN bills |-> PayableIn[bills[i]]]
    BY <1>1 DEF PayableIn
  <1>3. [i \in DOMAIN bills |-> IF bills[i].status # "posted" THEN 0
             ELSE (IF bills[i].type = "standard" THEN 1 ELSE -1) * bills[i].tax]
          = [i \in DOMAIN bills |-> VatIn[bills[i]]]
    BY <1>1 DEF VatIn
  <1>. QED BY <1>2, <1>3 DEF Over

\* The inductive invariant of the accounts: what documents name of their orders
\* and cost is what the sums are made of.
AccrualsInv == TypeInv /\ PlacedInv /\ FairInv /\ BooksInv

\* What is open on the lines of orders is what was accrued less what posted
\* lines are worth.
LEMMA OpenWorth ==
  ASSUME PurchaseTypeOK, PlacedInv, FairInv, ~contended, NoReturns(bills)
  PROVE  Sums(Ordered, OpenOn) = Over(AccruedIn, receipts) - Over(WorthIn, bills)
  <1> DEFINE f == [x \in Ordered |-> GoodsPrice(x) * InGoods(receipts, x[1], x[2])]
             g == [x \in Ordered |-> LinePrice(x) * InPosted(bills, x[1], x[2])]
             h == [x \in Ordered |-> OpenOn(x)]
  <1>1. \A x \in Ordered : f[x] \in Int /\ g[x] \in Int /\ h[x] = f[x] - g[x]
    BY OpenOnIs
  <1>2. IsFiniteSet(Ordered)
    BY OrderedIs
  <1>3. SumFunctionOnSet(f, Ordered) = Over(AccruedIn, receipts)
    BY ReceivedWorth
  <1>4. SumFunctionOnSet(g, Ordered) = Over(WorthIn, bills)
    BY PostedWorth
  <1>5. Sums(Ordered, OpenOn) = SumFunctionOnSet(h, Ordered)
    BY DEF Sums, SumFunction
  <1> HIDE DEF f, g, h
  <1>6. SumFunctionOnSet(h, Ordered) = SumFunctionOnSet(f, Ordered) - SumFunctionOnSet(g, Ordered)
    BY <1>1, <1>2, SumOfDifferences
  <1>. QED BY <1>3, <1>4, <1>5, <1>6

\* What posted bills clear is what their lines are worth and what rounding adds.
LEMMA ClearedParts ==
  ASSUME bills \in Seq(BillRows)
  PROVE  /\ Over(WorthIn, bills) \in Int /\ Over(OffIn, bills) \in Int
         /\ Over(ClearedIn, bills) = Over(WorthIn, bills) + Over(OffIn, bills)
  <1> DEFINE D == DOMAIN bills
             f == [i \in D |-> WorthIn[bills[i]]]
             g == [i \in D |-> OffIn[bills[i]]]
             h == [i \in D |-> ClearedIn[bills[i]]]
  <1>1. \A b \in BillRows : /\ WorthIn[b] \in Int /\ OffIn[b] \in Int
                             /\ ClearedIn[b] = WorthIn[b] + OffIn[b]
    <2> TAKE b \in BillRows
    <2>1. b.subtotal \in Int /\ Value(b.lines) \in Int
      BY BillParts, BillLineParts, ValueOfType
    <2>. QED BY <2>1 DEF WorthIn, OffIn, ClearedIn
  <1>2. \A i \in D : f[i] \in Int /\ g[i] \in Int /\ h[i] = f[i] + g[i]
    BY <1>1, RowsOf
  <1>3. IsFiniteSet(D)
    BY LinesOf
  <1>4. Over(WorthIn, bills) = SumFunctionOnSet(f, D) /\ Over(OffIn, bills) = SumFunctionOnSet(g, D)
        /\ Over(ClearedIn, bills) = SumFunctionOnSet(h, D)
    BY DEF Over
  <1> HIDE DEF D, f, g, h
  <1>. QED BY <1>2, <1>3, <1>4, SumOfSums, SumOfIntegers

\* A line is rounded by half a hundredth at most,
LEMMA NetNear ==
  ASSUME NEW a \in Int
  PROVE  HalfEven(a, Cent) \in Int /\ -Cent <= 2 * (Cent * HalfEven(a, Cent) - a) /\ 2 * (Cent * HalfEven(a, Cent) - a) <= Cent
  <1> DEFINE q == a \div Cent  r == a % Cent
  <1>1. q \in Int /\ r \in 0 .. Cent - 1 /\ a = Cent * q + r
    BY PurchasingAssumption
  <1>2. HalfEven(a, Cent) = IF 2 * r < Cent \/ (2 * r = Cent /\ q % 2 = 0) THEN q ELSE q + 1
    BY PurchasingAssumption, <1>1 DEF HalfEven
  <1>3. Cent * (q + 1) = Cent * q + Cent
    BY PurchasingAssumption, <1>1
  <1> HIDE DEF q, r
  <1>. QED BY PurchasingAssumption, <1>1, <1>2, <1>3

\* and so are all of a document's.
LEMMA NetsNear ==
  ASSUME NEW ls \in Seq(BillLines)
  PROVE  2 * Magnitude(Net(ls) - Value(ls)) <= Cent * Len(ls)
  <1> DEFINE D == DOMAIN ls
             f == [j \in D |-> NetOf(ls[j])]
             g == [j \in D |-> ls[j].qty * ls[j].price]
  <1>1. D = 1 .. Len(ls) /\ Len(ls) \in Nat /\ IsFiniteSet(D)
    BY RowsOf, LinesOf
  <1>2. Cardinality(D) = Len(ls)
    BY <1>1, FS_Interval
  <1>3. \A j \in D : g[j] \in Int
    BY BillLineParts
  <1>4. \A j \in D : f[j] = Cent * HalfEven(g[j], Cent)
    BY DEF NetOf
  <1>5. Net(ls) = SumFunctionOnSet(f, D) /\ Value(ls) = SumFunctionOnSet(g, D)
    BY DEF Net, Value, SumLines, TotalOf, SumFunction
  <1> HIDE DEF D, f, g
  <1>6. \A j \in D : f[j] \in Int /\ g[j] \in Int /\ -Cent <= 2 * (f[j] - g[j]) /\ 2 * (f[j] - g[j]) <= Cent
    <2> TAKE j \in D
    <2>1. /\ HalfEven(g[j], Cent) \in Int
          /\ -Cent <= 2 * (Cent * HalfEven(g[j], Cent) - g[j]) /\ 2 * (Cent * HalfEven(g[j], Cent) - g[j]) <= Cent
      BY <1>3, NetNear
    <2>. QED BY <1>3, <1>4, <2>1, PurchasingAssumption
  <1>7. Cent \in Nat
    BY PurchasingAssumption
  <1>8. LET x == SumFunctionOnSet(f, D)  y == SumFunctionOnSet(g, D) IN
        /\ x \in Int /\ y \in Int
        /\ -(Cent * Len(ls)) <= 2 * (x - y) /\ 2 * (x - y) <= Cent * Len(ls)
    BY <1>1, <1>2, <1>6, <1>7, SumsNear
  <1>9. Cent * Len(ls) \in Int
    BY <1>1, <1>7
  <1>. QED BY <1>5, <1>8, <1>9 DEF Magnitude

\* The inductive invariant implies the one that TLC checks.
LEMMA AccrualsShow == AccrualsInv => AccrualsAreUnbilled
  <1> SUFFICES ASSUME AccrualsInv, ~contended PROVE AccrualsAreUnbilled
    BY DEF AccrualsAreUnbilled
  <1>1. PurchaseTypeOK /\ PlacedInv /\ FairInv /\ bills \in Seq(BillRows)
    BY DEF AccrualsInv, TypeInv, PurchaseTypeOK, DocumentsOK
  <1>2. /\ -books["payable"] = Over(PayableIn, bills)
        /\ books["vat"] = Over(VatIn, bills)
        /\ NoReturns(bills) /\ ~Opened(moves) =>
             -books["grni"] = Over(AccruedIn, receipts) - Over(ClearedIn, bills)
    BY DEF AccrualsInv, BooksInv
  <1>3. -books["payable"] = SumLines(bills, LAMBDA b : IF b.status # "posted" THEN 0
                              ELSE (IF b.type = "standard" THEN 1 ELSE -1) * (b.subtotal + b.tax))
    BY <1>1, <1>2, BillsOver, AccountsAre
  <1>4. books["vat"] = SumLines(bills, LAMBDA b : IF b.status # "posted" THEN 0
                              ELSE (IF b.type = "standard" THEN 1 ELSE -1) * b.tax)
    BY <1>1, <1>2, BillsOver, AccountsAre
  <1>5. (\A b \in DOMAIN bills : bills[b].type = "standard") /\ (\A i \in DOMAIN moves : moves[i].doc[1] # "opening") =>
          -books["grni"] = Sums(Ordered, OpenOn) - Over(OffIn, bills)
    <2> SUFFICES ASSUME \A b \in DOMAIN bills : bills[b].type = "standard",
                        \A i \in DOMAIN moves : moves[i].doc[1] # "opening"
                 PROVE  -books["grni"] = Sums(Ordered, OpenOn) - Over(OffIn, bills)
      OBVIOUS
    <2>1. NoReturns(bills) /\ ~Opened(moves)
      BY DEF NoReturns, Opened
    <2>2. Sums(Ordered, OpenOn) = Over(AccruedIn, receipts) - Over(WorthIn, bills)
      BY <1>1, <2>1, OpenWorth
    <2>3. -books["grni"] = Over(AccruedIn, receipts) - Over(ClearedIn, bills)
      BY <1>2, <2>1
    <2>4. /\ Over(WorthIn, bills) \in Int /\ Over(OffIn, bills) \in Int
          /\ Over(ClearedIn, bills) = Over(WorthIn, bills) + Over(OffIn, bills)
      BY <1>1, ClearedParts
    <2>5. Over(AccruedIn, receipts) \in Int
      BY BooksType DEF AccrualsInv
    <2>. QED BY <2>2, <2>3, <2>4, <2>5
  <1>6. Sums(Ordered, OpenOn) = Sums(Ordered, LAMBDA x : LET l == orders[x[1]].lines[x[2]] IN
            l.price * ((IF Stockable(l.product) THEN OnReceipts(x[1], x[2]) ELSE 0)
                        - OnBills(x[1], x[2], LAMBDA b : b.status = "posted")))
    BY DEF Sums, OpenOn
  <1>7. SumLines(bills, LAMBDA b : IF b.status # "posted" THEN 0 ELSE b.subtotal - Value(b.lines)) = Over(OffIn, bills)
    <2>1. \A i \in DOMAIN bills : bills[i] \in BillRows
      BY <1>1, RowsOf
    <2>2. [i \in DOMAIN bills |-> IF bills[i].status # "posted" THEN 0 ELSE bills[i].subtotal - Value(bills[i].lines)]
            = [i \in DOMAIN bills |-> OffIn[bills[i]]]
      BY <2>1 DEF OffIn
    <2>. QED BY <2>2 DEF Over, SumLines, TotalOf, SumFunction
  <1>8. \A b \in DOMAIN bills : bills[b].type = "standard" =>
          2 * Magnitude(bills[b].subtotal - Value(bills[b].lines)) <= Cent * Len(bills[b].lines)
    <2> TAKE b \in DOMAIN bills
    <2> HAVE bills[b].type = "standard"
    <2>1. bills[b].lines \in Seq(BillLines)
      BY <1>1, RowsOf, BillParts
    <2>2. bills[b].subtotal = Net(bills[b].lines)
      BY <1>1 DEF FairInv, FairBill
    <2>. QED BY <2>1, <2>2, NetsNear
  <1>. QED BY <1>3, <1>4, <1>5, <1>6, <1>7, <1>8 DEF AccrualsAreUnbilled

\* However orders are received, billed, edited, posted, noted and closed, alone
\* or at once: unless two requests changed one bill at a time, the payable and
\* the tax are those of the posted bills, and what is accrued for goods received
\* and not billed is, before goods go back or come without an order, what the
\* lines of the orders have open at their prices, but for the rounding of posted
\* bills, which is half a hundredth a line at most.
THEOREM AccrualsHold == Spec => []AccrualsAreUnbilled
  <1>1. Init => AccrualsInv
    BY OrderInit, PlacedInit, FairInit, BooksInit DEF AccrualsInv, OrderInv
  <1>2. AccrualsInv /\ [Next]_vars => AccrualsInv'
    <2> SUFFICES ASSUME AccrualsInv, [Next]_vars PROVE AccrualsInv'
      OBVIOUS
    <2>1. TypeInv /\ PlacedInv /\ FairInv /\ BooksInv
      BY DEF AccrualsInv
    <2>2. TypeInv'
      BY <2>1, TypeOfNext
    <2>3. PlacedInv' /\ FairInv'
      BY <2>1, PlacedStep, FairStep
    <2>4. BooksInv'
      BY <2>1, <2>2, BooksStep
    <2>. QED BY <2>2, <2>3, <2>4 DEF AccrualsInv
  <1>3. AccrualsInv => AccrualsAreUnbilled
    BY AccrualsShow
  <1>. QED BY <1>1, <1>2, <1>3, PTL DEF Spec
=============================================================================
