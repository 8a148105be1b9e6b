------------------------------- MODULE MCAssets -------------------------------
(***************************************************************************)
(* The instance of the asset register that TLC checks: a company without   *)
(* assets, or with one or two whose residues differ.                       *)
(***************************************************************************)
EXTENDS AssetReports, TLC

CONSTANTS a1, a2, k1, k2

Offer(d, c, s, n, k) == [acquired |-> d, cost |-> c, salvage |-> s, life |-> n, category |-> k]
Pump == Offer(Start(1), 4, 1, 2, Nil)        \* depreciated by 2, then by 1
Van  == Offer(Start(1) + 1, 4, 0, 3, k1)     \* by 1 four times

TheOffers == {Pump, Van}

Empty == [asset |-> [a \in Assets |-> NoAsset], dep |-> [a \in Assets |-> [m \in Months |-> 0]], gl |-> EmptyBag]
With(r, a, n, o) == [r EXCEPT !.asset[a] = Acquired(n, o), !.gl = @ (+) SetToBag({Acquisition(a, o)})]
Worn(r, a, m, n) == [r EXCEPT !.dep[a][m] = n, !.gl = @ (+) SetToBag({Depreciation(a, m, n)})]

One == With(Empty, a1, 1, Pump)
Two == With(One, a2, 2, [Van EXCEPT !.category = Nil])

TheRegisters == {Empty, One, Worn(Two, a1, 1, 2)}

RequestsAlike == Permutations(Txns)
=============================================================================
