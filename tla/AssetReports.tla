----------------------------- MODULE AssetReports -----------------------------
(***************************************************************************)
(* What the register of fixed assets reports, and that it agrees with the  *)
(* ledger.                                                                 *)
(***************************************************************************)
EXTENDS FixedAssets, TLC

FirstDate == Min(Dates)
LastDate  == Max(Dates)

PostedIn(a, m) == IF m \in Months THEN dep[a][m] ELSE 0

\* What list_assets tells of an asset.
Row(a) ==
  [cost |-> asset[a].cost, accum |-> Depreciated(a), value |-> asset[a].cost - Depreciated(a),
   full |-> Depreciated(a) >= Base(asset[a]), status |-> IF Held(a) THEN asset[a].status ELSE "disposed"]

\* The totals of the printed register, of a category and a status (Nil: all).
RegisterTable(c, s) ==
  LET A == {a \in Assets : Exists(a) /\ (c = Nil \/ asset[a].category = c) /\ (s = Nil \/ Row(a).status = s)}
  IN [n \in {"cost", "accum", "value"} |-> MapThenSumSet(LAMBDA a : Row(a)[n], A)]

\* get_projected_schedule: accumulated depreciation after each of its lines
Projected(a) ==
  LET r == asset[a]
      after[i \in 0 .. r.life + 2] ==
        IF i = 0 THEN 0
        ELSE LET n == after[i - 1]  posted == PostedIn(a, MonthOf(r.acquired) + i - 1)
             IN IF n >= Base(r) THEN n
                ELSE n + (IF posted # 0 THEN posted ELSE Min({Monthly(r), Base(r) - n}))
  IN after[r.life + 2]

\* get_asset_card: the asset's movements, as [date, cost, accumulated]
Events(a) == LET r == asset[a] IN
  {[date |-> r.acquired, kind |-> "acquisition", cost |-> r.cost, accum |-> 0]}
    \cup {[date |-> Start(m), kind |-> "depreciation", cost |-> 0, accum |-> dep[a][m]] :
            m \in {x \in Months : dep[a][x] # 0}}
    \cup {[date |-> d, kind |-> "disposal", cost |-> -r.cost, accum |-> -Depreciated(a)] :
            d \in {r.disposed} \ {Nil}}

Card(a, from, to) ==
  LET before == {e \in Events(a) : e.date < from}
      during == {e \in Events(a) : e.date \in from .. to}
      Cost(E)  == MapThenSumSet(LAMBDA e : e.cost, E)
      Accum(E) == MapThenSumSet(LAMBDA e : e.accum, E)
  IN [opening |-> <<Cost(before), Accum(before)>>,
      closing |-> <<Cost(before) + Cost(during), Accum(before) + Accum(during)>>]

\* _asset_card_table: cost, accumulated depreciation, net book value
CardTable(a, from, to) ==
  LET With(x) == [cost |-> x[1], accum |-> x[2], value |-> x[1] - x[2]]
      card    == Card(a, from, to)
  IN [opening |-> With(card.opening), closing |-> With(card.closing)]

\* get_depreciation_schedule: what has been depreciated from .. to
ScheduleTotal(from, to, c) ==
  MapThenSumSet(LAMBDA x : dep[x[1]][x[2]],
    {x \in Assets \X Months : /\ Start(x[2]) \in from .. to
                              /\ c # Nil => asset[x[1]].category = c})

\* The lines of the printed schedule, by asset
ScheduleTable(from, to) ==
  [a \in {x \in Assets : \E m \in Months : dep[x][m] # 0 /\ Start(m) \in from .. to} |->
     MapThenSumSet(LAMBDA m : dep[a][m], {m \in Months : Start(m) \in from .. to})]

\* account_balance_by_id of the three kinds of accounts, all assets sharing them
Total(n, E) == MapThenSumSet(LAMBDA e : gl[e] * e[n], E)
Booked(to)  == LET E == {e \in BagToSet(gl) : e.date <= to}
               IN [n \in {"cost", "accum", "expense"} |-> Total(n, E)]

\* get_reconciliation: the register's totals less the ledger's
Reconciliation(to) ==
  LET A == {a \in Assets : /\ Exists(a) /\ asset[a].acquired <= to
                           /\ asset[a].disposed = Nil \/ asset[a].disposed > to}
      cost  == MapThenSumSet(LAMBDA a : asset[a].cost, A)
      accum == MapThenSumSet(LAMBDA x : dep[x[1]][x[2]],
                 {x \in A \X Months : Start(x[2]) <= to})
      ledger == Booked(to)
      totals == [cost |-> cost, accum |-> accum, value |-> cost - accum]
  IN totals @@ [differences |->
       IF A = {} THEN [cost |-> 0, accum |-> 0, expense |-> 0]
       ELSE [cost |-> cost - ledger.cost, accum |-> accum + ledger.accum, expense |-> accum - ledger.expense]]

\* The footer of the printed reconciliation
ReconciliationTable(to) == [n \in {"cost", "value"} |-> Reconciliation(to)[n]]
-----------------------------------------------------------------------------
Rows == [code : Nat, acquired : Dates \cup {0}, cost : Nat, salvage : Nat, life : Nat \ {0},
         category : Cats \cup {Nil}, disposed : Dates \cup {Nil}, status : Labels]

TypeOK ==
  /\ asset \in [Assets -> Rows]
  /\ dep \in [Assets -> [Months -> Nat]]
  /\ cat \in [Cats -> C!Rows]
  /\ closed \subseteq Months
  /\ \A t \in Txns : tx[t].pc \in PCs
  /\ sharing \in [Assets -> SUBSET Txns] /\ updating \in [Assets -> Txns \cup {Nil}]
  /\ \A a, b \in Assets : Exists(a) /\ asset[a].code = asset[b].code => a = b

\* The register, the cards, the schedule and the reconciliation are four
\* queries with filters of their own: they show the same values, a card
\* shows none of an asset disposed of, and the parts by category and by
\* status are the whole.
ReportsAgree ==
  LET all == RegisterTable(Nil, Nil)
  IN /\ \A n \in DOMAIN all :
          /\ all[n] = MapThenSumSet(LAMBDA s : RegisterTable(Nil, s)[n], Labels \cup {"disposed"})
          /\ n # "accum" => ReconciliationTable(LastDate)[n]
                              = all[n] - RegisterTable(Nil, "disposed")[n]
     /\ \A a \in {x \in Assets : Exists(x)} :
          LET shown == CardTable(a, FirstDate, LastDate).closing
          IN \A n \in DOMAIN shown : shown[n] = IF Held(a) THEN Row(a)[n] ELSE 0
     /\ \A d \in Dates :
          LET lines == ScheduleTable(d, LastDate)
          IN /\ MapThenSumSet(LAMBDA a : lines[a], DOMAIN lines) = ScheduleTotal(d, LastDate, Nil)
             /\ \A a \in {x \in Assets : Held(x)} :
                  LET card == CardTable(a, d, LastDate)
                  IN card.closing.accum - card.opening.accum = IF a \in DOMAIN lines THEN lines[a] ELSE 0

\* Entries of an asset.
Of(a) == {e \in BagToSet(gl) : e.of = a}

\* What was depreciated and is not written off although the asset is gone.
Late(a) == IF Held(a) THEN 0
           ELSE Depreciated(a) - Total("accum", {e \in Of(a) : e.accum > 0})

Gone(a, d)     == asset[a].disposed # Nil /\ asset[a].disposed <= d
Outside(d)     == {a \in Assets : Exists(a) /\ (asset[a].acquired > d \/ Gone(a, d))}
Expensed(a, d) == MapThenSumSet(LAMBDA m : dep[a][m], {m \in Months : Start(m) <= d})

\* What the accounts carry on a date of an asset that the register of that
\* date leaves out: its expense; the depreciation booked before it was
\* acquired, on the first of that month, or after the date it was disposed of.
Stray(a, d) ==
  [cost    |-> IF Gone(a, d) /\ asset[a].acquired > d THEN -asset[a].cost ELSE 0,
   accum   |-> (IF Gone(a, d) THEN Depreciated(a) - Late(a) ELSE 0) - Expensed(a, d),
   expense |-> Expensed(a, d)]

Strays(n, d) == MapThenSumSet(LAMBDA a : Stray(a, d)[n], Outside(d))

\* However runs, disposals and acquisitions interleave, every entry balances,
\* the cost on the accounts of an asset is its cost until it is disposed of,
\* what the depreciation schedule reports is what was expensed, and on every
\* date an asset's card shows what is on its accounts and the reconciliation
\* differs by exactly what the accounts carry of assets outside the register.
\* Only a run beside a disposal leaves depreciation on the accounts of an
\* asset that is gone, which its card then does not show.
LedgerFollowsRegister ==
  /\ \A e \in BagToSet(gl) : e.cost + e.accum + e.expense + e.funds + e.result = 0
  /\ \A a \in Assets : Total("cost", Of(a)) = IF Held(a) THEN asset[a].cost ELSE 0
  /\ \A d \in Dates :
       /\ ScheduleTotal(d, LastDate, Nil)
            = Total("expense", {e \in BagToSet(gl) : e.date >= d})
       /\ \A a \in Assets : Exists(a) =>
            LET E    == {e \in Of(a) : e.date <= d}
                left == IF Gone(a, d) THEN Late(a) ELSE 0
            IN Card(a, FirstDate, d).closing = <<Total("cost", E), -Total("accum", E) - left>>
       /\ (\E a \in Assets : Exists(a) /\ a \notin Outside(d)) =>
            Reconciliation(d).differences =
              [cost |-> -Strays("cost", d), accum |-> Strays("accum", d), expense |-> -Strays("expense", d)]
  /\ "run_disposal" \notin overlapped => \A a \in Assets : Exists(a) => Late(a) = 0
  /\ ReportsAgree

\* The register is well typed however requests interleave.  Unless two runs
\* overlap, no asset is depreciated below its salvage value, and one that has
\* been depreciated month after month is projected to reach exactly that
\* value; unless two changes of categories overlap, categories form a tree.
RegisterSound ==
  /\ TypeOK
  /\ "runs" \notin overlapped => \A a \in Assets : Exists(a) =>
       /\ Depreciated(a) <= Base(asset[a])
       /\ (\A m, n \in Months : dep[a][n] # 0 /\ m \in MonthOf(asset[a].acquired) .. n => dep[a][m] # 0)
            => Projected(a) = Base(asset[a])
  /\ "categories" \notin overlapped => C!Tree(cat)

\* "Two concurrent requests against the same asset must not both compute the
\* same stale accumulated-depreciation total" (repositories.py:30-33), so that
\* an asset is not depreciated below its salvage value nor after it is gone.
\* It fails: run_depreciation does not take the lock that text gives it.
TotalsAreFresh == \A a \in Assets : Exists(a) => Depreciated(a) <= Base(asset[a]) /\ Late(a) = 0
=============================================================================
