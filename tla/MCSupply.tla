------------------------------- MODULE MCSupply -------------------------------
(***************************************************************************)
(* The instance of stock and purchasing that TLC checks.  Each opening has *)
(* its own share of stock operations and of purchasing requests.           *)
(***************************************************************************)
EXTENDS Purchasing, TLC

CONSTANTS bolt, labour, w1, w2

Of(p, n) == [product |-> p, qty |-> n]
At(p, n, u) == [product |-> p, qty |-> n, price |-> u]
Event(w, n, u) == [product |-> bolt, at |-> w, qty |-> n, price |-> u]

TheReorderPoint == (bolt :> 2)
TheCostPrice    == (bolt :> 700)
TheInvoiced     == {<<Of(bolt, 1)>>, <<Of(bolt, 2), Of(bolt, 1)>>}
TheSheets       == {<<Of(bolt, 1)>>, <<Of(bolt, 4)>>}

Small  == <<At(bolt, 2, 1050), At(labour, 1, 300)>>
Large  == <<At(bolt, 4, 1001)>>

TheBaskets == {Small, Large}
TheReturns == {At(bolt, 2, 1000)}

Confirmed(b, w) == [NewOrder(b, w) EXCEPT !.status = "confirmed",
                       !.approval = IF Value(b) > Threshold THEN "approved" ELSE @]

Opening(ms, d1, d2, goods, os, n, r) ==
  [methods |-> ms, warehouse |-> (w1 :> d1) @@ (w2 :> d2), goods |-> goods, orders |-> os, ops |-> n, requests |-> r]

Both == {"average", "fifo"}

Stocked2  == <<Event(w1, 3, 1000), Event(w1, 2, 401), Event(w2, 1, 500)>>
Overdrawn == <<Event(w1, 1, 1000), Event(w1, -3, 0)>>

TheOpenings == {
  Opening(Both, "default", "plain",  Stocked2,  <<>>, 3, 0),
  Opening(Both, "default", "absent", Overdrawn, <<Confirmed(<<At(bolt, 2, 300)>>, w1)>>, 1, 2),
  Opening(Both, "default", "plain",  Overdrawn \o <<Event(w2, 2, 601)>>, <<>>, 3, 0),
  Opening({"average"}, "default", "absent", <<>>, <<>>, 0, 2),
  Opening({"average"}, "default", "absent", <<>>, <<NewOrder(Large, w1)>>, 0, 3),
  Opening({"average"}, "default", "absent", <<>>, <<Confirmed(Small, w1)>>, 0, 3)}

RequestsAreAlike == Permutations(Txns)
=============================================================================
