----------------------------- MODULE Financials ------------------------------
(***************************************************************************)
(* The financial statements: what ReportingService derives from the        *)
(* entries in the books.  Nothing here is stored, so the statements must   *)
(* agree with each other in every state of the journal.                    *)
(***************************************************************************)
EXTENDS Journal, SequencesExt, Integers

CONSTANTS
  CogsRoot, FixedAssetRoot, DepreciationRoot, CapitalRoot,  \* accounts of the template
  Inception   \* a date before every other

ASSUME StatementsAssumption ==
  /\ IsFiniteSet(Accounts) /\ IsFiniteSet(Centres) /\ IsFiniteSet(Entries)
  /\ IsFiniteSet(Dates) /\ Dates \subseteq Int
  /\ Inception \in Int /\ \A d \in Dates : Inception < d

\* Lines in the books, of the dates from .. to: [entry, line number].
Lines(from, to) ==
  UNION {{e} \X DOMAIN entry[e].lines :
           e \in {x \in Entries : Booked(entry[x]) /\ entry[x].date \in from .. to}}

At(l)      == entry[l[1]].lines[l[2]]
On(L, a)   == {l \in L : At(l).account = a}
Debits(L)  == SumFunction([l \in L |-> At(l).debit])
Credits(L) == SumFunction([l \in L |-> At(l).credit])
Net(L)     == SumFunction([l \in L |-> At(l).debit - At(l).credit])

Total(f) == SumFunction(f)

\* list_by_company leaves deleted accounts out, the sums of the ledger do not.
Listed(a)   == acct[a].state = "live"
TypeOf(a)   == acct[a].type
OfTypes(T)  == {a \in Accounts : acct[a].state # "none" /\ TypeOf(a) \in T}
-----------------------------------------------------------------------------
(***************************************************************************)
(* Rows of a report, per account with activity.                            *)
(***************************************************************************)
TrialBalance(from, to) ==
  LET before == Lines(Inception, from - 1)
      during == Lines(from, to)
  IN [a \in {At(l).account : l \in before \cup during} |->
        [opening |-> Net(On(before, a)),
         debit   |-> Debits(On(during, a)),
         credit  |-> Credits(On(during, a)),
         closing |-> Net(On(before, a)) + Net(On(during, a))]]

\* Mutant: deleted and group accounts are left out.
BalancesByType_Postable(from, to, T) ==
  LET L == Lines(from, to)
  IN [a \in {x \in {At(l).account : l \in L} \cap OfTypes(T) : ~acct[x].group} |->
        IF TypeOf(a) \in {"revenue", "liability", "equity"}
          THEN -Net(On(L, a)) ELSE Net(On(L, a))]

\* balances_by_type, with amounts of the side that is normal for the type
BalancesByType(from, to, T) ==
  LET L == Lines(from, to)
  IN [a \in {At(l).account : l \in L} \cap OfTypes(T) |->
        IF TypeOf(a) \in {"revenue", "liability", "equity"}
          THEN -Net(On(L, a)) ELSE Net(On(L, a))]

\* general_ledger: the running balance after each of the account's lines
GeneralLedger(a, from, to) ==
  LET lines   == CHOOSE s \in SetToSeqs(On(Lines(from, to), a)) :
                   \A i, j \in DOMAIN s : i < j => entry[s[i][1]].date <= entry[s[j][1]].date
      opening == Net(On(Lines(Inception, from - 1), a))
      running[i \in 0 .. Len(lines)] ==
        IF i = 0 THEN opening ELSE running[i - 1] + At(lines[i]).debit - At(lines[i]).credit
  IN [opening |-> opening, running |-> [i \in DOMAIN lines |-> running[i]], closing |-> running[Len(lines)]]

\* The balance column of the printed ledger; a deleted account is not found.
GeneralLedgerTable(a, from, to) ==
  LET g == GeneralLedger(a, from, to)
  IN IF Listed(a) THEN <<g.opening>> \o g.running ELSE <<>>

\* root and what hangs under it among the accounts of A
Hanging(root, A) ==
  LET grown[n \in 0 .. Cardinality(A)] ==
        IF n = 0 THEN {root} \cap A
        ELSE LET S == grown[n - 1] IN S \cup {a \in A : acct[a].parent \in S}
  IN grown[Cardinality(A)]

\* _account_subtree_ids
Subtree(root) == Hanging(root, {a \in Accounts : Listed(a)})

\* account_balance_by_root_code, whose subtree keeps the deleted accounts
BalanceUnder(root, date) ==
  LET S == Hanging(root, {a \in Accounts : acct[a].state # "none"})
  IN Net({l \in Lines(Inception, date) : At(l).account \in S})

\* _rollup_ancestor: up to the wanted level
Rollup(a, level) ==
  LET above[n \in 0 .. MaxLevel] ==
        IF n = 0 THEN a
        ELSE LET x == above[n - 1]
             IN IF acct[x].level > level /\ acct[x].parent # Nil /\ Listed(acct[x].parent)
                  THEN acct[x].parent ELSE x
  IN IF Listed(a) THEN above[MaxLevel] ELSE a

RollupRows(rows, level) ==
  [x \in {Rollup(a, level) : a \in DOMAIN rows} |->
     SumFunctionOnSet(rows, {a \in DOMAIN rows : Rollup(a, level) = x})]

Column(rows, name) == [a \in DOMAIN rows |-> rows[a][name]]
Section(rows, S)   == [a \in DOMAIN rows \cap S |-> rows[a]]

\* trial_balance with a level of detail
DetailedTrialBalance(from, to, level) ==
  LET rows == TrialBalance(from, to)
  IN [x \in {Rollup(a, level) : a \in DOMAIN rows} |->
        [f \in {"opening", "debit", "credit", "closing"} |-> RollupRows(Column(rows, f), level)[x]]]
-----------------------------------------------------------------------------
(***************************************************************************)
(* Statements.                                                             *)
(***************************************************************************)
IncomeStatement(from, to) ==
  LET rows    == BalancesByType(from, to, {"revenue", "expense"})
      cogs    == Subtree(CogsRoot)
      Sum(S)  == SumFunctionOnSet(rows, S)
      revenue == Sum({a \in DOMAIN rows : TypeOf(a) = "revenue"})
      costs   == Sum({a \in DOMAIN rows : TypeOf(a) = "expense"} \cap cogs)
      opex    == Sum({a \in DOMAIN rows : TypeOf(a) = "expense"} \ cogs)
  IN [revenue |-> revenue, cogs |-> costs, opex |-> opex, net |-> revenue - costs - opex]

\* The sections of the printed statement, at a level of detail.
IncomeTable(from, to, level) ==
  LET rows    == BalancesByType(from, to, {"revenue", "expense"})
      revenue == {a \in DOMAIN rows : TypeOf(a) = "revenue"}
      costs   == Subtree(CogsRoot) \ revenue
  IN [revenue |-> RollupRows(Section(rows, revenue), level),
      cogs    |-> RollupRows(Section(rows, costs), level),
      opex    |-> RollupRows(Section(rows, DOMAIN rows \ (revenue \cup costs)), level)]

BalanceSheet(date) ==
  LET earnings  == IncomeStatement(Inception, date).net
      Of(ty)    == Total(BalancesByType(Inception, date, {ty}))
  IN [assets |-> Of("asset"), liabilities |-> Of("liability"), earnings |-> earnings,
      equity |-> Of("equity") + earnings]

BalanceTable(date, level) ==
  LET Shown(ty) == RollupRows(BalancesByType(Inception, date, {ty}), level)
  IN [assets |-> Shown("asset"), liabilities |-> Shown("liability"), equity |-> Shown("equity")]

\* The printed trial balance: closing balances in two columns, and a mark on
\* accounts whose balance is not on the side of their type.
TrialBalanceTable(rows) ==
  LET Positive(x) == IF x > 0 THEN x ELSE 0
  IN [closingDebit  |-> Total([a \in DOMAIN rows |-> Positive(rows[a].closing)]),
      closingCredit |-> Total([a \in DOMAIN rows |-> Positive(-rows[a].closing)]),
      debit  |-> Total(Column(rows, "debit")),
      credit |-> Total(Column(rows, "credit")),
      marked |-> {a \in DOMAIN rows : IF TypeOf(a) \in {"asset", "expense"}
                                      THEN rows[a].closing < 0 ELSE rows[a].closing > 0}]

\* Accounts a cost centre touched, but for those that net to nothing.
CentreTable(x, from, to) ==
  LET L == {l \in Lines(from, to) : At(l).centre = x}
  IN [a \in {b \in {At(l).account : l \in L} : Net(On(L, b)) # 0} |-> Net(On(L, a))]

\* What one cost centre earned and spent.
CentreReport(x, from, to) ==
  LET L      == {l \in Lines(from, to) : At(l).centre = x}
      Of(ty) == {l \in L : TypeOf(At(l).account) = ty}
  IN [revenue |-> -Net(Of("revenue")), expense |-> Net(Of("expense")),
      net |-> -Net(Of("revenue")) - Net(Of("expense"))]

CashBalance(date) == Net({l \in Lines(Inception, date) : acct[At(l).account].cash})

\* cash_flow_line_movements: the other lines of the entries with a cash line
HasCash(e) == \E i \in DOMAIN entry[e].lines : acct[entry[e].lines[i].account].cash
Movements(from, to) ==
  {l \in Lines(from, to) : HasCash(l[1]) /\ ~acct[At(l).account].cash}

CashFlow(from, to) ==
  LET fixed     == Subtree(FixedAssetRoot)
      L         == Lines(from, to)
      addback   == Net({l \in L : TypeOf(At(l).account) = "expense"
                                   /\ At(l).account \in Subtree(DepreciationRoot)})
      working   == -Net({l \in L : LET a == At(l).account IN
                      /\ Listed(a) /\ ~acct[a].cash /\ a \notin fixed
                      /\ TypeOf(a) \in {"asset", "liability"}})
      investing == -Net({l \in Movements(from, to) :
                      TypeOf(At(l).account) # "equity" /\ At(l).account \in fixed})
      financing == -Net({l \in Movements(from, to) : TypeOf(At(l).account) = "equity"})
  IN [opening |-> CashBalance(from - 1), closing |-> CashBalance(to),
      change  |-> IncomeStatement(from, to).net + addback + working + investing + financing]

ChangesInEquity(from, to) ==
  LET capital == Subtree(CapitalRoot)
      L       == {l \in Lines(from, to) : TypeOf(At(l).account) = "equity"}
      own     == {l \in L : At(l).account \in capital}
  IN [opening |-> BalanceSheet(from - 1).equity, closing |-> BalanceSheet(to).equity,
      profit  |-> IncomeStatement(from, to).net, contributions |-> Credits(own),
      withdrawals |-> Debits(own), other |-> -Net(L \ own)]
-----------------------------------------------------------------------------
FirstDate == Min(Dates)
LastDate  == Max(Dates)

BalancesZero == \A d \in Dates : LET rows == TrialBalance(d, LastDate)
                                     Col(f) == Total(Column(rows, f))
  IN Col("opening") = 0 /\ Col("debit") = Col("credit") /\ Col("closing") = 0

SheetBalances == \A d \in Dates : LET b == BalanceSheet(d)
  IN b.assets = b.liabilities + b.equity

EquityExplained == \A d \in Dates : LET q == ChangesInEquity(d, LastDate)
  IN q.closing = q.opening + q.profit + q.contributions - q.withdrawals + q.other

LedgersAgree == \A d \in Dates : LET rows == TrialBalance(d, LastDate)
  IN \A a \in DOMAIN rows : LET g == GeneralLedger(a, d, LastDate)
           shown == GeneralLedgerTable(a, d, LastDate)
       IN /\ g.opening = rows[a].opening /\ g.closing = rows[a].closing
          /\ Listed(a) => shown[1] = g.opening /\ shown[Len(shown)] = rows[a].closing

RootsAgree == LET rows == TrialBalance(FirstDate, LastDate) IN
  \A a \in {x \in Accounts : Listed(x) /\ ~overlapped} : BalanceUnder(a, LastDate)
    = SumFunctionOnSet(Column(rows, "closing"), DOMAIN rows \cap Subtree(a))

CentresExplain == \A d \in Dates :
  IncomeStatement(d, LastDate).net
    = SumFunction([x \in Centres \cup {Nil} |-> CentreReport(x, d, LastDate).net])

\* The tables add up to the statements at every level that hides something, marks are on
\* the accounts whose balance by type is negative, and the rows of a cost
\* centre are what it earned and spent.
TablesAddUp ==
  LET income   == IncomeStatement(FirstDate, LastDate)
      sheet    == BalanceSheet(LastDate)
      balances == BalancesByType(Inception, LastDate, Types)
      deepest  == Max({1} \cup {acct[a].level : a \in DOMAIN balances})
  IN /\ ~overlapped => \A k \in 1 .. deepest - 1 :
          LET shown == IncomeTable(FirstDate, LastDate, k)
              owned == BalanceTable(LastDate, k)
              trial == TrialBalanceTable(DetailedTrialBalance(FirstDate, LastDate, k))
          IN /\ \A n \in DOMAIN shown : Total(shown[n]) = income[n]
             /\ Total(owned.assets) = sheet.assets
             /\ Total(owned.equity) + sheet.earnings = sheet.equity
             /\ trial.debit = trial.credit /\ trial.closingDebit = trial.closingCredit
             /\ \A a \in DOMAIN owned.assets : Listed(a) => acct[a].level <= k
     /\ TrialBalanceTable(TrialBalance(FirstDate, LastDate)).marked
          = {a \in DOMAIN balances : balances[a] < 0}
     /\ \A x \in Centres \cup {Nil} :
          LET rows == CentreTable(x, FirstDate, LastDate)
          IN Total(Section(rows, OfTypes({"revenue", "expense"}))) = -CentreReport(x, FirstDate, LastDate).net

\* Entries whose cash effect the indirect method can tell: depreciation of
\* fixed assets, or with a cash line and no depreciation, or with neither
\* cash nor equity nor fixed assets.
Plain(e) ==
  LET on    == Uses(entry[e].lines)
      fixed == Subtree(FixedAssetRoot)
      spent == {a \in Subtree(DepreciationRoot) : TypeOf(a) = "expense"}
  IN \/ HasCash(e) /\ on \cap spent = {}
     \/ ~HasCash(e) /\ on \subseteq fixed \cup spent /\ \A a \in on : TypeOf(a) # "equity"
     \/ ~HasCash(e) /\ on \cap (fixed \cup spent) = {} /\ \A a \in on : TypeOf(a) # "equity"

\* The cash flow statement explains the change in cash, for entries of plain
\* shapes on accounts that are listed, when fixed assets and cash accounts
\* are assets and no account is both.
CashExplained ==
  /\ \A a \in Accounts :
       /\ acct[a].cash \/ a \in Subtree(FixedAssetRoot) => TypeOf(a) = "asset"
       /\ acct[a].cash => a \notin Subtree(FixedAssetRoot)
  /\ \A e \in Entries : Booked(entry[e]) =>
       Plain(e) /\ \A a \in Uses(entry[e].lines) : Listed(a)
  => \A d \in Dates : LET c == CashFlow(d, LastDate) IN c.closing = c.opening + c.change

\* Whatever the requests do to the chart and the journal, on every date the
\* trial balance is zero, the balance sheet balances, the changes in equity
\* are explained, and an account's ledger, the trial balance, the sums under
\* a root and the reports by cost centre agree; the printed tables add up to
\* them, at every level of detail as long as requests come one at a time; and
\* the change in cash is explained for entries of plain shapes.
StatementsAgree ==
  /\ BalancesZero /\ SheetBalances /\ EquityExplained
  /\ LedgersAgree /\ RootsAgree /\ CentresExplain
  /\ TablesAddUp
  /\ CashExplained
=============================================================================
