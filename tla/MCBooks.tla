------------------------------- MODULE MCBooks -------------------------------
(***************************************************************************)
(* The instance of the chart, the journal and the statements that TLC      *)
(* checks: a short template with one spare account, and books that are     *)
(* empty, or hold one entry, an open period, a cost centre and the account *)
(* of adjustments.                                                         *)
(***************************************************************************)
EXTENDS Financials, TLC

CONSTANTS assets, cash, plant, payable, shares, sales, wear, spare, x1, x2, n1

Row(a, p, ty, k) == [account |-> a, parent |-> p, type |-> ty, cash |-> k]

\* Requests are alike.
Requests == Permutations(Txns)

TheTemplate == <<
  Row(assets, Nil, "asset", FALSE), Row(cash, assets, "asset", TRUE),
  Row(plant, assets, "asset", FALSE), Row(payable, Nil, "liability", FALSE),
  Row(shares, Nil, "equity", FALSE), Row(sales, Nil, "revenue", FALSE),
  Row(wear, Nil, "expense", FALSE)>>

TheNews == {[parent |-> p, group |-> FALSE, cash |-> FALSE, type |-> "expense"] :
              p \in {plant, wear}}

Keep(a) == [account |-> a, parent |-> Unset, group |-> Unset, active |-> Unset,
            cash |-> Unset, type |-> Unset]
Under1(a, p) == [Keep(a) EXCEPT !.parent = p]

TheUpdates ==
  {[Keep(a) EXCEPT !.group = FALSE] : a \in {plant, spare}}
    \cup {[Keep(payable) EXCEPT !.type = "asset", !.cash = TRUE]}
    \cup {Under1(assets, spare), Under1(assets, wear), Under1(wear, assets), Under1(wear, spare),
          Under1(plant, spare), Under1(plant, Nil), Under1(spare, plant), Under1(spare, wear)}

Pair(d, c, n, x) == <<[account |-> d, debit |-> n, credit |-> 0, centre |-> x],
                      [account |-> c, debit |-> 0, credit |-> n, centre |-> Nil]>>

TheShapes == {Pair(cash, sales, 2, Nil), Pair(plant, payable, 1, Nil), Pair(wear, plant, 1, x1)}

TheRanges == {<<1, 1>>, <<1, 2>>}

Blank == [e \in Entries |-> NoEntry]
Held(st, s) == [NoEntry EXCEPT !.status = st, !.date = 1, !.lines = s]

Periods(st) == [r \in TheRanges |-> IF r = <<1, 2>> THEN st ELSE "none"]

TheOpenings ==
  {[entry |-> Blank, period |-> Periods("none"), adjust |-> Nil,
    centre |-> [x \in Centres |-> [name |-> Nil, active |-> TRUE]]]} \cup
  {[entry |-> [Blank EXCEPT ![Min(Entries)] = Held(st, s)], period |-> Periods("open"),
    adjust |-> wear,
    centre |-> [x \in Centres |-> [name |-> IF x = x1 THEN n1 ELSE Nil, active |-> TRUE]]] :
     st \in {"draft", "posted"}, s \in TheShapes}
==============================================================================
