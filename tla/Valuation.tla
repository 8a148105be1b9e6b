------------------------------ MODULE Valuation -------------------------------
(***************************************************************************)
(* The two ways a company values its stock, on the balance of one product  *)
(* at one location.                                                        *)
(*                                                                         *)
(* Money is an integer, in units of the fourth decimal that entries carry. *)
(* Averages are kept with more decimals: in units of 1/Scale.  A "value"   *)
(* below is in those finer units too.                                      *)
(***************************************************************************)
EXTENDS Decimals, SequencesExt

CONSTANT Scale     \* fine units in a unit of money; 100 in the code

ASSUME ScaleAssumption == Scale \in Nat \ {0}

TotalOf(s) == SumFunction(s)
Least(a, b) == IF a < b THEN a ELSE b

\* A stock_quant row and the stock_layer rows of its product and location,
\* oldest first.  row is FALSE until there is one.
NoQuant == [row |-> FALSE, qty |-> 0, avg |-> 0, layers |-> <<>>]

LayersQty(q)  == TotalOf([i \in DOMAIN q.layers |-> q.layers[i].qty])
LayersCost(q) == TotalOf([i \in DOMAIN q.layers |-> q.layers[i].qty * q.layers[i].cost])

\* What a quant is worth: what reports read
Worth(q, method) == IF method = "fifo" THEN Scale * LayersCost(q) ELSE q.qty * q.avg
-----------------------------------------------------------------------------
\* receive_stock: n units that cost value in all.  At a balance of exactly zero
\* no average can carry what was held: it is returned as the variance.
Received(q, n, value, method) ==
  LET held  == q.qty * q.avg + value
      after == q.qty + n
      in    == [q EXCEPT !.row = TRUE, !.qty = after]
  IN IF method = "fifo"
     THEN [quant |-> [in EXCEPT !.layers = Append(@, [qty |-> n, cost |-> HalfUp(value, n * Scale)])],
           variance |-> 0]
     ELSE IF after # 0
     THEN [quant |-> [in EXCEPT !.avg = HalfUp(held, after)], variance |-> 0]
     ELSE [quant |-> in, variance |-> HalfUp(held, Scale)]

\* What an issue of n takes from each layer: the oldest first
Taken(layers, n) ==
  [i \in DOMAIN layers |->
     LET before == TotalOf([j \in 1 .. i - 1 |-> layers[j].qty])
     IN IF before >= n THEN 0 ELSE Least(layers[i].qty, n - before)]

Consume(layers, taken) == [i \in DOMAIN layers |-> [layers[i] EXCEPT !.qty = @ - taken[i]]]

\* compute_issue_cost: availability, and the value and the unit cost (in fine
\* units) of n units.  With less stock than n, what issue_stock does instead.
IssueCost(q, n, method) ==
  LET t    == Taken(q.layers, n)
      fifo == TotalOf([i \in DOMAIN q.layers |-> t[i] * q.layers[i].cost])
      enough == n <= IF method = "fifo" THEN LayersQty(q) ELSE q.qty
  IN IF ~enough
     THEN [enough |-> FALSE, value |-> n * q.avg, unit |-> q.avg, layers |-> q.layers]
     ELSE IF method = "fifo"
     THEN [enough |-> TRUE, value |-> Scale * fifo, unit |-> Scale * HalfEven(fifo, n),
           layers |-> Consume(q.layers, t)]
     ELSE [enough |-> TRUE, value |-> Scale * HalfEven(n * q.avg, Scale), unit |-> q.avg,
           layers |-> q.layers]

\* issue_stock's change of the balance: the average keeps what remains worth
\* what was held less what is booked.
Issued(q, n, c, method) ==
  LET after == q.qty - n
  IN [q EXCEPT !.row = TRUE, !.qty = after, !.layers = c.layers,
               !.avg = IF method # "fifo" /\ after # 0
                       THEN HalfUp(q.qty * @ - c.value, after) ELSE @]
=============================================================================
