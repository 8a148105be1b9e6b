------------------------------- MODULE MCTrade --------------------------------
(***************************************************************************)
(* The instance of trade that TLC checks: a customer with a VAT number, a  *)
(* period of credit and a representative, and one without; prices that     *)
(* round; a range of whole months and one that is not.                     *)
(***************************************************************************)
EXTENDS TradeReports, TLC

CONSTANTS c1, c2, v1, r1, bolt, nut, standard, zero

ThePartner == (c1 :> [vat |-> TRUE, days |-> 30, rep |-> r1]) @@ (c2 :> [vat |-> FALSE, days |-> 0, rep |-> None])
TheVendorDays == (v1 :> 20)
TheTax == (standard :> 1500) @@ (zero :> 0)

Line(p, n, price, tax) == [product |-> p, qty |-> n, price |-> price, tax |-> tax]
Mixed == <<Line(bolt, 1, 33330, standard), Line(nut, 1, 12350, zero)>>
Plain == <<Line(bolt, 1, 33350, standard)>>

TheOffers == {[partner |-> c1, date |-> 32, lines |-> Mixed, rep |-> r1],
              [partner |-> c2, date |-> 70, lines |-> Plain, rep |-> None]}
TheReturned == {Plain}
TheReceipts == {[date |-> 70, amount |-> 301, rep |-> r1]}
TheRanges == {[from |-> 0, to |-> 61], [from |-> 40, to |-> 92]}
=============================================================================
