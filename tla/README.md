# Verification of the Alfahd ERP back end

TLA+ models of the parts of this repository that decide whether the books are right:
what concurrent requests, retries, crashes and rollbacks do to orders, stock,
payments, the tax authority's chain and the journal, and what the services then
compute from them: valuation, depreciation, commission, statements and subledgers.
With the TLC configurations that check them on small instances, and TLAPS proofs of
what matters most for every size.

Contents: [the system](#1-the-system) · [conventions](#2-conventions) ·
[modules](#3-modules) · [runs](#4-runs) · [proofs](#5-proofs) ·
[disagreements](#6-where-code-and-documentation-disagree) ·
[not modelled](#7-not-modelled) · [plan](#8-plan)

## 1. The system

A multi-company ERP: a FastAPI application over PostgreSQL (SQLAlchemy async ORM), a
Celery worker, and a Next.js client. All rules live in
`src/backend/src/modules/*/application/services.py`; routes parse, call one service
method and commit.

| Component | State | Operations | Interacts with | Hard behaviour | What makes it correct |
|---|---|---|---|---|---|
| Sales orders, invoicing (`sales`) | `SalesOrder.status`, lines with `qty`, `qty_invoiced`; `SalesInvoice` with its number | issue invoice (all lines or some), update, cancel | stock, ZATCA chain, journal, commission | two requests on one order; number read long before insert; session copies of rows | no line billed twice, quantities match invoices, numbers without gap |
| Idempotency keys (`shared/idempotency`) | one row per company, key, endpoint: request hash, status, response | begin, mark completed | credit notes, returns, debit notes | retry beside the first request, two first requests, crash and rollback | the work of a key at most once, the answer is that of the work |
| ZATCA chain (`sales`, `zatca`, `workers`) | `ZatcaSubmission` rows (icv, previous hash, status) | clear in the request, enqueue, report in the worker | gateway of the tax authority, Celery | company lock, gateway call inside the transaction, crash between commit and enqueue, retries | one hash chain per company; recorded verdicts are true |
| Stock balances (`inventory`) | `StockQuant`, `StockMove`, `CycleCount`, `StockTransfer` | receive, issue, return, transfer, count, approve | sales, purchasing | row locks taken after a first look, locks of two rows, failure between two legs | balances are the sum of the moves, only returns overdraw, transfers conserve |
| Valuation (`inventory`) | moving average of each quant, FIFO layers, unit cost of each move | at each receipt and issue | journal, alerts | rounding of averages and of the last layer, overdrawn balances, the variance where a receipt crosses zero | the inventory account is what the stock is worth |
| Payments (`payments`) | `Payment`, `PaymentAllocation` | record payment | invoices, bills, journal, commission | lock per invoice, sums of committed allocations | no document paid beyond its total |
| Chart and settings (`accounting`) | `Account` tree with levels and group marks, `CostCenter`, the adjustment account | seed, create, edit, move, delete | every posting module | nothing is locked: a move beside a deletion or another move; levels of a whole subtree | a forest whose levels are depths; postings keep their accounts |
| Journal and periods (`accounting`) | `JournalEntry` (draft, posted, cancelled, reversed), `FiscalPeriod.is_closed` | create, post, cancel, reverse, close | every posting module | statuses read without locks, only a trigger looks again | balanced entries, nothing posted in a closed period, one reversal |
| Statements (`reporting`, `accounting`) | none: queries on journal lines | trial balance, ledgers, income statement, balance sheet, cash flow, equity, by account, level or cost centre | chart, journal | each query has filters of its own; accounts deleted, moved or retyped after they were posted to | the statements agree |
| Purchasing (`purchasing`) | orders with approval, receipts, bills, debit notes | create, edit, confirm, approve, reject, receive, close short, reopen, bill, edit, post, return | stock, valuation, journal, payments | receipt beside short closing or edit, two postings of one bill | received within ordered; the accrual is what is received and not billed |
| Fixed assets (`fixed_assets`) | asset, depreciation rows, categories | acquire, run depreciation, dispose, label | journal, periods | a run over an unlocked list beside disposal or another run; the last month's remainder | depreciation stops at the salvage value, the ledger follows the register |
| Quotations, trade documents (`sales`, `payments`, `purchasing`) | quotation, order, invoice, credit note, bill, payment, with amounts | create, update, confirm, invoice, credit, return, pay | journal, commission | rounding of lines, rejected clearances, notes beside payments | control accounts, subledgers and reports agree |
| Commission (`commission`) | rate by representative, commission entries | earn on sale or collection, reverse | invoices, credit notes, payments | the rate changes in between | a reversal takes back what was earned |

Master data, identity, company profile, attachments, notifications, document
rendering, mail, scripts, migrations, front end and infrastructure keep no state
that several actors argue about; `PROJECT.json` lists each with the reason it is
left out, and lists under `hazards` what is hard to test, at its line.

How the parts interact: one HTTP request is one database transaction. Issuing an
invoice runs, inside that transaction, the line locks and number (SalesInvoicing),
the company lock and chain (ZatcaChain), and the issue of each line's stock
(StockQuants); only the commit makes any of it visible, and only then is the
worker's task enqueued. Each model contains that part of the request it is about,
and an environment step that fails and rolls back stands for the others. Nearly
every one of these requests also posts a journal entry: `Journal` has the posting
with its gates, and the modules `Inventory`, `Purchasing`, `FixedAssets` and `Trade`
have, next to the document, what it adds to the accounts they are about. Credit
notes and debit notes put the idempotency key's row into the same transaction.

## 2. Conventions

*Transactions.* `shared/infrastructure/db/session.py` gives each request one
session: READ COMMITTED, no autoflush, objects not expired, commit only in the
route, rollback when the request fails. The models follow it:

- A plain `SELECT` reads the committed variables at that step. What it returned is
  kept in a session variable of the request (`seen`, `copy`), and later guards use
  that copy.
- `SELECT ... FOR UPDATE` is a step enabled when the row's `lock` is free; it sets
  `lock`. If the session already has the row's object, the copy stays as it was,
  unless the query says `populate_existing` (only the order-line locks do).
- Writes stay in the session; the step named `Commit...` writes them all, as the ORM
  flushes them (absolute values), and releases the locks.
- `Fail` may end any open request with a rollback: a later part of the request, the
  connection or the process fails. It is never fair.
- PostgreSQL's deadlock detector is the step `DeadlockVictim`, enabled in a wait
  cycle.
- Where the code takes no lock at all (chart, journal, orders and bills of
  purchasing, the register of assets), a request is two steps: one reads and
  decides, and puts what it is going to write into `plan`, `want` or `tx`; the other
  writes it, and only the attributes it changed, since the ORM's UPDATE names those
  only. A refused request changes nothing and is not a step. `Rollback` ends an open
  request.
- Where a request locks all it changes before it looks (`Inventory`), or where
  interleaving is another module's subject (`Trade`), it is one step.

*One at a time.* `overlapped` is a history variable: have two requests ever been open
together? In the chart and the journal any two count; in `SalesInvoicing` an edit or a
cancellation beside another request; in `FixedAssets` it is the set of the kinds that
have met (two runs, a run and a disposal, two changes of categories), so that each
property excuses only the kind it must. The finer `contended` and `raced` (purchasing)
say whether a bill, or an order, was ever written by a request that had read it before
another wrote it. Nothing in a guard depends on them. A property with `~overlapped =>`
states what the services keep by their own checks; the parts without it hold however
requests interleave. The code has no lock to promise more. Where the repository claims
more all the same, the claim is a property of its own that a configuration refutes
(`sales_edit.cfg`, `asset_stale.cfg`, section 6).

*Data.* Quantities are small naturals, documents, keys, hashes and bodies are model
values; texts are left out. Amounts of money are small naturals in the models of
interleavings. Where arithmetic is the point (`Valuation`, `Inventory`, `Purchasing`,
`FixedAssets`, `Trade`) they are integers in the unit the code quantizes to, and
`Decimals` has the roundings: `HalfUp` and `HalfEven` at the places where the code, or
the column, has them. `Cent` (Purchasing) is how many units of the books make a
hundredth, to which the lines of bills are rounded. Averages have `Scale` finer units,
as the six digits of the column have against the four of an amount.

*Bounds.* `MaxLines` (StockQuants), `MaxAllocs` (Payments), `MaxRetries` (the code's
value is 5), `MaxCrashes` (ZatcaChain), `MaxOrders` and the operations and requests
of an opening (`ops`, `left`, Inventory and Purchasing), `MaxQuotations`,
`MaxDocuments`, `MaxMixed`, `MaxInvoices`, `MaxBills`, `MaxPayments` (Trade) and the
sizes of the constant sets are the only bounds. Each request is served at most once;
a retry is another request.

*Openings.* Some instances begin with what a company may already have (`Openings`,
`Registers`), so that the bounded number of requests can be spent on what is
interesting. The instances build the openings from the modules' own operators, or
write them out as the services would have left them.

*Names.* Actions are named for the code they stand for; mutated operators are
`<Definition>_<Change>` and precede the definition they change. They are used by no
specification.

## 3. Modules

| Module | Models | State ↔ code | Actions ↔ code |
|---|---|---|---|
| `SalesInvoicing` | `issue_invoice_from_order`, `update_order`, `cancel_order`, `next_number` on one order | `status`, `live`, `qty`, `invoiced`, `invoices` are the committed rows; `seenStatus`, `rows`, `seen`, `pick`, `number` the session; `overlapped` history | `ReadOrder`, `ReadLines`, `AskLine`, `LockLine` (`get_line_by_id_for_update`), `EndSelection`, `TakeNumber`, `InsertInvoice` (the flush against the unique index), `FlushOrder`, `CommitIssue`; `StartDelete`..`EndDelete` and `CommitUpdate` (`replace_lines`), `CommitCancel` |
| `OrderLedger` | what invoicing promises: each invoice in one step within what its lines allow; edits and cancellations only while nothing is invoiced; done only when all is | | |
| `Idempotency` | `begin_idempotent_request`, `mark_completed`, the guarded routes | `row`, `completed`, `executed` committed; `inserter` an uncommitted row under the unique index, `holder` a locked one | `Begin`, `Lookup`, `Insert`, `Reread`, `Decide`, `Work`, `MarkCompleted`, `Commit`, `Fail` |
| `ExactlyOnce` | what a key promises: one effect, answers from it | | |
| `ZatcaChain` | `_next_icv_and_previous_hash`, `_run_zatca_pipeline`, the enqueueing route, `report_invoice_task` | `status`, `icv`, `prev` of each submission, `lock` of the company row, `authority` the gateway's side, `queue` the broker | `LockCompany`, `ReadTail`, `Clear`, `Prepare`, `Commit`, `Enqueue`; `Take`, `ReadSubmission`, `Report`, `Save`, `Raise`; `CrashBeforeEnqueue`, `CrashWorker`, `Fail` |
| `HashChain` | what the chain promises: append one link to the last | | |
| `StockQuants` | `receive_stock`, `issue_stock` and their callers on one product: receipts, invoices, credit notes, debit notes, transfers, cycle counts | `onHand`, `exists`, `layers` (what remains of the `StockLayer` rows), `moved` (moves per source table), `countStatus`, `diff` committed; `lock`, `company` the row locks; `loaded`, `copy`, `net`, `drawn` the session; `stale` remembers which objects were loaded before their lock | `Begin`, `LockCompany` (the chain's lock, which invoices and credit notes take before they move stock), `NextLine` (the loops over lines), `Peek` (`quant_repo.get`), `Move` (lock, cover check on the balance or the layers, apply), `ReadSystemQty`, `CommitCount`, `Commit` |
| `Payments` | `record_payment` of both types, `update_bill`'s new total | `total`, `paid` (the sum of the allocations), `count` and `numbers` (the `Payment` rows) committed; `ask`, `alloc` (`prepared_allocations`), `used` (`allocated_total`), `number` the request | `NextAllocation` (the loop), `LockDocument` (`get_by_id_for_update`), `CheckBalance`, `EndAllocations`, `TakeNumber`, `InsertPayment`, `Commit`, `EditBill` |
| `Settlement` | what recording payments promises: all documents of a payment settled at once, within their totals, under the next number | | |
| `Categories` | the trees of product and asset categories | `[name, parent]` by identity | `CanCreate`, `CanUpdate`, `CanDelete`, `Saved`, `Removed` on the rows a request has loaded; instantiated in `FixedAssets` |
| `ChartOfAccounts` | `ChartOfAccountsService`, cost centres, accounting settings | `acct`, `centre`, `adjust` committed; `seen` what a request loaded, `want` what it makes of it | `CreateAccount`, `UpdateAccount` (edit, move, recompute levels), `DeleteAccount`, `UpdateSettings`, `CreateCentre`, `UpdateCentre`; `Commit` (`Flush` writes the differences), `Rollback` |
| `Journal` | `JournalEntryService`, `FiscalPeriodService`, the triggers of the database, an automatic posting | `entry` with lines and reversal, `period`; `plan` the row a request will write | `Draft`, `Post`, `AutoPost` (approval of a cycle count), `CancelDraft`, `ReverseEntry`, `CreatePeriod`, `ClosePeriod`; `CommitBooks` with `SetStatus`, `InsertEntry`, `InsertReversal`, `InsertPeriod`, `SetClosed` |
| `Financials` | `ReportingService`'s financial statements and the repository's queries | nothing | operators: `TrialBalance`, `GeneralLedger`, `IncomeStatement`, `BalanceSheet`, `CashFlow`, `ChangesInEquity`, `CentreReport`, the printed tables with their level of detail |
| `FixedAssets` | `FixedAssetService`, categories | `asset`, `dep` (amount by asset and month), `gl` (a bag of the entries about assets), `cat`, `closed`; `tx` each request, `sharing` and `updating` the row locks | `CreateAsset`, `InsertAsset`; `RunDepreciation`, `NextAsset`, `BookDepreciation` (waits on the row, fails on a second row for the month), `EndRun`; `Dispose`, `UpdateStatus`, `CreateCategory`.., `Commit`, `Rollback`, `ClosePeriod` |
| `AssetReports` | register, asset card, depreciation schedule, reconciliation, their tables | nothing | operators |
| `Decimals` | `quantize` and the columns' rounding | | `HalfUp`, `HalfEven` |
| `Valuation` | `average.py`, `fifo.py`, `strategy.py`, the valuation half of `receive_stock` and `issue_stock` | a balance: quantity, average or layers, value | operators `Received`, `IssueCost`, `Issued`, with the variance a receipt returns |
| `Inventory` | `InventoryService` and routes: receipts, deliveries, customer returns, transfers, cycle counts, warehouses, alerts, cardex, reconciliation | `quants`, `moves`, `counts`, `alerts`, `warehouse`, `books`; `dropped` what no entry has | one action per operation, whole |
| `Purchasing` | `PurchasingService` on the stock of `Inventory` | `orders`, `receipts`, `bills`; `tx` each request | `CreateOrder`; for edit, confirm, approve or reject, receive, close short, reopen, bill, edit of a bill, post, debit note and return a step that reads (`ReadReceive`) and one that writes (`Receive`) |
| `Trade` | quotations, orders, invoices, credit notes, bills, payments, commission with their amounts | the documents as sequences, `rate`, `books`, `today` | one action per service method |
| `TradeReports` | sales, purchase, representative and VAT reports, subledgers, aging, dashboard | nothing | operators |

`Journal` extends `ChartOfAccounts` and `Financials` extends `Journal` (`MCBooks`);
`Purchasing` extends `Inventory`, which extends `Valuation` and `Decimals`
(`MCSupply`); `AssetReports` extends `FixedAssets` (`MCAssets`); `TradeReports`
extends `Trade` (`MCTrade`). The other `MC<module>` extend their module;
`<module>Proofs` extends it with TLAPS (`JournalProofs` extends `Financials`, and with
it `Journal`), and the ones that add something up with `SumLemmas`, which is about the
community modules' `SumFunctionOnSet` and `MapThenFoldSet` and not about this code.
`OrderLedger`, `ExactlyOnce`, `HashChain` and `Settlement` are instantiated in the
modules that implement them (`Ledger`, `Promise`, `Chain`, `Settled`).

Choices a reader should know:

- *SalesInvoicing.* An edit's new lines are one line named for the request.
  `AllowRepeats` says whether a request may name one line twice; the code does not
  forbid it. The second naming finds the line's copy refreshed from the database and
  without the first one's quantity. The runs and the theorems about quantities take
  it as FALSE, which is what the client sends.
- *Idempotency.* `Work` is the whole guarded operation, which other modules model;
  `target` is the document in the path, which the code does not hash.
- *ZatcaChain.* The hash of a document is modelled by the document's name: what
  matters is that different documents have different hashes. Celery acknowledges
  early, so a worker's death loses its task. `lost` records the documents nothing
  will report.
- *StockQuants.* A document of sales or purchasing moves stock at one location (the
  default one); a transfer and a cycle count at several. The company has one valuation
  `method`: at average cost an issue is checked against the balance, first in first
  out against the layers only, so that layers that exceed the balance (after a
  positive adjustment whose object was stale) let an ordinary issue overdraw it. An
  approval of a count takes no company lock (`inventory/api/routes.py:704`). The cycle
  count `Earlier` exists before the requests. Costs are in `Inventory`; here a
  returned line that the code skips for want of a positive cost is a choice of `Peek`.
- *Payments.* Documents have the payment's partner and company, and bills await
  approval, so that they may be edited; an invoice's total never changes.
  `AllowRepeats` says whether a payment may name a document twice; the code does not
  forbid it. What credit notes take off an invoice is not part of the code's check
  and not of the model.
- *ChartOfAccounts.* Ancestors and subtrees are walked eight steps, twice as deep as
  `MAX_ACCOUNT_LEVEL` allows: enough for what overlapping moves pile up in the
  instance. A subtree that would reach too deep has no `NewLevels`, and the request
  fails.
- *Journal.* The journal trigger looks at the row as it is when it is updated: it is
  a guard of `SetStatus`. The deferred balance trigger can refuse nothing that
  `assert_balanced` let through, and needs no guard. `AutoPost` stands for the
  postings that documents make, which draft and post in one request.
- *Financials.* The level of detail of a report is a parameter; the marks, columns
  and sections of the printed tables are modelled, their wording is not. A deleted
  account keeps its lines: some queries list it, some do not, and the model follows
  each. A ledger is in the order of dates, and of lines of one date the model takes
  some order, where the query takes the one of their creation.
- *FixedAssets.* A date is a month's first day or a later one, which is all the
  rules tell apart. `repositories.py` offers `get_by_id_for_update`, and the run
  does not use it: the foreign key's share is what makes it wait for a disposal, and
  nothing makes it wait for another run (`asset_stale.cfg`).
- *Inventory.* Each warehouse has the one location it is created with. `dropped`
  adds up the variances that transfers and receipts by hand return and post nowhere.
- *Purchasing.* An order's edit replaces its lines, which then have new identities
  (`edition`): a receipt or bill that read the old ones fails. Services are received
  without stock, as in the code. A payload may name a line twice: the line is read
  again from the database, without the first quantity, so the last one is what is
  checked and written (`LastOf`), while the document and the stock have both. (With
  three lines a stock move in between flushes the first quantity; payloads here have
  two lines at most.) When a bill is edited, the repeated line whose quantity is given
  back is the last of them as written; the query has no ORDER BY. Each line of a bill,
  and its tax, is rounded to hundredths (`NetOf`, `TaxOf`), while receipts accrue to
  four decimals; a debit note of a whole bill copies the bill's amounts (`NoteOf`).
- *Trade.* A document whose clearance the authority rejected is posted and earns
  commission all the same; the sales reports leave it out, the ledgers and the VAT
  summary do not. The clearance verdict is an input. Journal accounts are the
  control accounts only.

## 4. Runs

| Run | Instance | Distinct states | Shows |
|---|---|---|---|
| `sales_invoicing` | 2 requests of any kind, 2 lines of quantity 1 or 2 | 107,182 | `NotOverInvoiced`, `InvoicedIsBilled`, `NumbersWithoutGap`, `RefinesLedger`, `EveryRequestEnds` |
| `idempotency` | 3 requests, 1 key and none, 2 bodies | 11,326 | `AnswersAreTrue`, `NeverFoundInProgress`, `RefinesExactlyOnce`, `EveryRequestAnswered` |
| `zatca_chain` | 3 documents, 1 worker, 1 retry, 1 crash | 371,622 | `ChainIsTotalOrder`, `AcceptedIsKnown`, `RefinesHashChain`, `PendingIsReported` |
| `stock_quants` | 2 requests of any kind, 2 locations, 1 line, average and FIFO | 810,964 | `NegativeOnlyByReturn`, `TransfersConserve`, `BalanceFollowsMoves`, `EveryRequestEnds` |
| `stock_lost_update` | a receipt and a return | violation | `OnHandIsMoves` |
| `books` | 2 requests on chart or journal, 8 accounts of a short template, 3 entries, 2 overlapping periods; books empty or with one entry | 21,122 | `ChartSound`, `ReversalsCancel`, `PostedStays`, `ClosedIsClosed`, `StatementsAgree` |
| `assets` | 3 requests, 2 assets (one with a remainder, one acquired after the first of its month), 2 months, 2 categories; no assets, one, or two of which one is worn | 122,076 | `LedgerFollowsRegister`, `RegisterSound` |
| `supply` | 2 requests at a time; six openings, with average and FIFO, stocked and overdrawn, with orders above and below the threshold, lines named once or twice | 143,522 | `BooksFollowStock`, `CardexIsOnHand`, `OrdersAreHonest`, `AccrualsAreUnbilled` |
| `supply_overbilled` | the same | violation | `BilledHasArrived` |
| `trade` | 2 customers, 1 vendor, 1 representative, 3 documents, 2 days | 121,240 | `SubledgersAgree`, `ReportsAgree`, `CommissionsOffset` |
| `payments` | 2 requests of any kind, 2 invoices, 1 bill, totals and amounts 1 and 2, 2 allocations | 275,032 | `InvoicesWithinTotal`, `NumbersWithoutGap`, `RefinesSettlement`, `EveryRequestEnds` |
| `payments_repeat` | the same, a document may be named twice | violation | `InvoicesWithinTotal` |

*Why the bounds are enough to be interesting.* Every hazard modelled is a conflict of
two requests over at most two rows (lines, locations) or three links of a chain
(genesis, middle, end); each instance contains it, and the mutants of `PROJECT.json`,
one per property, show that a wrong lock, copy, guard or order is found within the
bounds. With two lines of quantity 2 an invoice may bill a part, the rest or too much;
with opening balances 0 and 2 and quantity 2 an issue may exhaust a location or find
it short, in the balance or in the layers; with totals 1 and 2 a payment may settle a
document, a part of it, or too much; transfers and payments in opposite directions
form the lock cycle. Two lines of a document at one location, of which the second
reuses the object the first one locked, need `MaxLines` 2, which the proofs cover:
they hold for any `MaxLines` and `MaxAllocs`.

`books`: the template has a subtree, a cash account, and the accounts that the
statements look for by their code; updates move a group below another, below its own
child and to the top, and turn a liability into cash. Three entries are what an
opening entry, a new one and a reversal need. The two periods overlap, so that more
than one may cover a date. `assets`: a cost of 4 with salvage 1 over 2 months leaves a
remainder in the last one, a cost of 4 over 3 months rounds down, so that it needs one
month more; three requests are a run, a second run and a disposal. Two months are
enough for one to be booked and one to be missed, and every property is evaluated on
each date of them, so that the filters by date decide what is counted. `supply`:
prices of 1000, 401 and 1001 make averages that round; bill and order prices of 1050
with `Cent` = 100 make a line of one a half of a hundredth and a line of two a whole;
`Overdrawn` owes two units, so that a receipt of 1 stays below zero, one of 2 reaches
it and a return crosses it; totals above and below the threshold ask for approval or
not. `trade`: unit prices of 333.30 and 123.50 and 15% make halves of a hundredth; one
report range is whole months and one is not; `ListLimit` 2 (500 in the code) lets the
condition of `SubledgersAgree` be false.

*Symmetry.* In `books`, `assets` and `supply` the requests are alike and
interchangeable (`Permutations(Txns)`); these runs check invariants and action
properties only.

*Deadlock.* `CHECK_DEADLOCK FALSE` everywhere: when all requests have ended, or a
bound is reached, the models stop.

*Fairness.* `WF` on the steps of a request that has begun (its coroutine is
scheduled, PostgreSQL grants a lock that stays free and breaks a wait cycle) and on
a worker's steps. Nothing makes a client send, a gateway succeed or a crash happen:
`Begin`, `ReadOrder`, `Fail` and the crashes are unfair. Weak fairness is enough
because a row's lock, once its holder has ended, can be taken only by finitely many
other requests, each served once. The runs `books`, `assets`, `supply` and `trade`
are about safety and assume no fairness. In `ZatcaChain` the request's first step is
fair as well, and `PendingIsReported` excuses documents whose task was lost to a
crash or to the last retry.

## 5. Proofs

All proofs are in the `*Proofs` modules and `SumLemmas` and hold for every value of
the constants under the modules' `ASSUME`s; TLC evaluates those on every run. They
say that

- model values differ, quantities and amounts are naturals (positive where the
  schemas require it), and requests carry what the schemas admit (`Updates`,
  `Baskets`, `Sheets`, `Shapes` are sets of such payloads);
- locations, products and warehouses are finite sets, as rows of a table are;
- what a database may begin with (`Openings`) is what services have left there: an
  order has no receipt and no bill yet (`Untouched`), an entry is balanced, is not
  reversed yet and uses accounts of the seed, names of cost centres differ;
- accounts, cost centres, entries and dates are finite sets when statements are derived
  from them, and `Inception`, where a sum "up to a date" begins, is before every date;
- the seed's chart (`DEFAULT_SAUDI_COA`) names each account once, after its parent,
  within the levels allowed: it is a table in the source, written in that order.

| Theorem | Statement | Besides the module's assumption |
|---|---|---|
| `SalesInvoicingProofs!TypeCorrect` | `Spec => []TypeOK` | |
| `InvariantHolds`, `NeverOverInvoiced`, `NumbersGapless`, `LedgerRefinement` | the inductive invariant; `invoiced[l] <= qty[l]`; `NumbersWithoutGap`; `RefinesLedger` (as long as no edit or cancellation ran beside another request) | `~AllowRepeats` |
| `InvoicedAsBilled`, `InvoicesWithinOrder` | `InvoicedIsBilled`; `NotOverInvoiced` | `~AllowRepeats` |
| `IdempotencyProofs!InvariantHolds`, `TypeCorrect`, `AnswersTrue`, `RowsFoundComplete`, `ExactlyOnceRefinement` | the inductive invariant and the safety properties of the run | |
| `ZatcaChainProofs!InvariantHolds`, `TypeCorrect`, `AcceptedKnown`, `ChainTotal`, `ChainRefinement` | the same for the chain | |
| `StockQuantsProofs!TypeCorrect`, `InvariantHolds`, `NoLostUpdate`, `OverdrawnOnlyByReturn` | `TypeOK`, `IInv`, `BalanceFollowsMoves`, `NegativeOnlyByReturn` | |
| `StockQuantsProofs!TransfersAreWhole` | `TransfersConserve` | |
| `StockQuantsProofs!BalancesAreMoves` | `OnHandIsMoves` | no request of kind `restock` or `approve` |
| `PaymentsProofs!TypeCorrect`, `NumbersGapless` | `TypeOK`, `NumbersWithoutGap` | |
| `JournalProofs!InvariantHolds`, `PostedAlwaysStays` | the inductive invariant; `PostedStays`, however requests interleave | |
| `JournalProofs!ReversalsAlwaysCancel`, `ClosedStaysClosed` | `ReversalsCancel`, `ClosedIsClosed` | |
| `JournalProofs!ChartStaysSound` | `ChartSound` | |
| `JournalProofs!StatementsAlwaysAgree` | `StatementsAgree`, however requests interleave | |
| `PurchasingProofs!OrdersHonest` | `OrdersAreHonest` | |
| `PurchasingProofs!CardexHolds` | `CardexIsOnHand` | |
| `PurchasingProofs!AccrualsHold` | `AccrualsAreUnbilled` | |
| `PaymentsProofs!InvariantHolds`, `NeverOverpaid`, `SettlementRefinement` | the inductive invariant, `InvoicesWithinTotal`, `RefinesSettlement` | `~AllowRepeats` |

*Sales.* `NotOverInvoiced` is not inductive: it says nothing of a request that has
selected quantities and not committed. `PickInv` adds that what an open request has
selected it holds locked, saw fresh, and that it fits; `LineInv`, that committed
quantities stay within the order and that the line an edit will insert is untouched;
`NumberInv`, that an open number follows one in use and an inserted one is its own.
A commit then adds exactly what fits, and maps to `Issue` of the ledger. `Replace` and
`Cancel` of the ledger ask that nothing is invoiced, and `done` that everything is;
the code reads both without a lock. `SerialInv` says when what it read is still so:
as long as no edit or cancellation was open beside another request, one that is open
is alone and its order is as it saw it, and an invoicing request's copies are no newer
than the rows, so that what adds up to done in them is full. Every other step is a
stutter. `InvoicedIsBilled` compares a line
with a sum over invoices, so `BillingInv` carries that they are finitely many: the
invoice a commit inserts is a new one, because its number is, and adds to the sum what
the line adds to its count (`SumWithOne`). The second conjunct of `NotOverInvoiced`
follows from both.

*Idempotency.* `OwnerInv` (the transaction with the uncommitted row is the only one
at work on its key, which has no committed row), `PathInv` (where a request may
stand), `RowInv` (a committed row stands for the one effect of its key). `Commit`
maps to `Perform`, `Decide` to `Replay` or `Refuse`.

*Chain.* `LockInv` (inside its transaction a request holds the company row),
`TailInv` (what it read is still the tail), `WorkInv` (tasks are about committed
documents, verdicts are true). A commit maps to `Append`. The worker changes
verdicts and no link.

*Stock.* `HolderInv`: a request's object of a quant it has locked is the committed
balance plus its own moves, unless the object was loaded before the lock. `PeekInv`:
only returns at current cost and approvals load before they lock. `DebtInv` is about
what may be missing, and splits by method. At average cost a copy, and with it the
balance, is below nothing by no more than returns to vendors have taken (`Indebted`,
`Owed`). First in first out, what bounds an issue is the layers: a request draws what
it moves, or less if it returns what they do not cover, and never more than there is
(`Drawing`); so they exceed the cardex by what such returns took and no more. Of the
balance nothing of the kind is claimed there. The theorem without the two kinds and
the run `stock_lost_update` together say exactly where the guarantee ends.
`TransfersConserve` is about committed moves and not inductive: `TransferInv` says what
an open transfer carries (nothing before the first leg and after the second, its
quantity between them), and that it commits only after the second; a failure between
the legs is a rollback of both.

*Payments.* `InvoicesWithinTotal` says nothing of a payment under way: `AllocFits`
adds that what a payment has prepared is locked by it and fits, `AskIsFirst` that
the allocation at hand is its first to the document (which is where `~AllowRepeats`
enters). No step of another request touches a locked document, so the balance
checked is still there at the commit, which maps to `Pay`. `NumberInv` holds a
counted number to at most one more than the last, an inserted one to a free one:
together it is the next.

*Journal.* `InHand` and `ClaimInv`: a request has something in hand for the books or
for the chart, never both, and the row it is going to insert is nobody else's and
not there yet; so an insertion never overwrites a posted entry, and the trigger in
`SetStatus` does the rest of `PostedStays`. `PlanFits` keeps the plan in step with
the row it is about. The properties for requests that come one at a time need
`Solo`: until two have overlapped, the open one is alone and what it read is still
so (`Fresh`). `ReversalsCancel` is then split into `Marked`, `Opposed` and `Single`,
one lemma for each kind of commit. The chart of accounts takes part with everything
it does: its steps leave the books alone.

*Chart.* `ChartInv` adds to `ChartSound`: what any request wants is a chart, whatever
overlaps (`ChartTyped`), and, as long as requests come one at a time, it is sound and
what was loaded is still there (`Sure`). `Flush` writes only the differences, and
without an overlap they make the chart that was wanted (`FlushAlone`). Moving an account
is the hard case: the code walks down to recompute levels and up to refuse a cycle. In
a forest every step of a walk is a level, and there are at most `MaxLevel` of them, so
the model's eight steps reach everything (`UnderIs`, `AboveIs`); what is not above the
new parent has nothing above it underneath (`UnderApart`), and the new levels are again
one more than the parents' (`MovedIs`).

*Statements.* Nothing is stored, so `StatementsAgree` is an invariant of operators over
the journal, and what it needs of the state is little: every entry is balanced, the
accounts it uses have rows, and, for `RootsAgree` and the tables, the chart is a forest
as long as requests come one at a time (`ChartInv`). `KeptInv` makes the first two
inductive however requests overlap: what is about to be inserted is balanced and its
accounts have rows, a reversal swaps the sides of a balanced entry (`SwappedSquares`),
and no chart a request wants takes a row away that the request has seen (`Remain`), so
that `Flush` takes none away either. An account that is deleted under a posting keeps its
row, which is why the statements agree even where `PostingsHaveAccounts` does not hold.
Everything else is about sums over one set, the lines of the books: lines grouped by
entry net to zero (`EntriesNet`, from `SumRenumbered`), grouped by account they are the
trial balance (`TrialColumns`, from `SumGrouped`), grouped by type the statements
(`FiveTypes`), grouped by what an account rolls up to the tables (`RolledUp`). A ledger
is a numbering of the lines of an account (`RunningIs`). `Hanging` is the least set with
the root that is closed under children (`HangingIs`), whence leaving deleted accounts out
makes no difference to live ones in a forest (`LiveSubtree`), and as many steps as there
are levels roll a row up as far as it goes (`RollupLevel`). For the cash flow, the
sections the indirect method counts are disjoint, and with the lines on cash they are
all the lines of the entries it can tell of (`CountedLines`); those entries net to zero.

*Purchasing.* `OrderInv` has four parts. `TypeInv` types stock and documents, which is
most of the work: receipts, deliveries and returns are folds over the lines of a
document, each line a valuation; and it says that the order or bill of a request is a
row there is, with the lines it has read as long as its `edition` is the same.
`ReceivedInv`, the first half of the property, holds whatever overlaps, because
`Receive` locks each line and checks it against what is committed (`AcceptsReceipt`).
It counts the *last* quantity a document names a line with, which is what the code
writes, repeated or not; where no document repeats a line (`Once`) that is the
document's quantity (`LastOfOnce`), and the property follows.
`BilledInv` holds unless two requests have changed one bill at a time (`contended`): an
edit gives back what it has *read* the bill to say. `ApprovedInv` holds unless two have
changed one order (`raced`); it needs `RequestSound`, what the status a request has
read says of the order now.

*Cardex.* `CardexInv` speaks of balances and moves together, never of one step: every
balance is the sum of the moves at its warehouse (`Even`), the layers of a balance no
prefix of whose moves is negative add up to it (`Layered`), and a product has as many
alerts as its moves have crossings of the reorder point. All three are functions of the
pair of balances and moves, so a line of a document keeps them as the fold over its lines
does (`DeliveryLine`, `CardexMoved`), and an operation either moves stock by such a fold
or leaves both alone (`Leads`, `Adopts`). The hard parts are the layers, where an issue
from layers that run out leaves an overdrawn balance which the moves must show, and the
alerts: the code decides on the total after *one* balance has changed, and the lemma
`CrossingsAdded` shows that the total before it is the sum of the moves before.

*Accruals.* `AccrualsAreUnbilled` compares an account with a sum over the lines of
*orders*, while the books are only ever posted to by *documents*; and it is not
inductive, since it says nothing of what a document may name. `PlacedInv` says that:
bills and receipts name lines that their orders have, receipts with the lines'
products and prices, and what a request is going to write does so when it writes it.
An update replaces the lines of an order altogether, so this needs that an order with
a document is not updated any more (`UpdateReplaces`, `BilledStays`). `FairInv` says
what a bill is worth: its subtotal is that of its lines, each rounded to hundredths,
and unless it is mismatched they have the prices of the order; it ends when two
requests change one bill at a time (`contended`), because the second writes a status
for lines it has not seen. `BooksInv` then says of each account what the documents do:
the payable and the tax are those of posted bills and notes, and the accrual is what
receipts accrued less what posted bills cleared, as long as nothing was returned and
nothing came without an order. Last, receipts and posted bills are two tables of
quantities, a document by a line of an order, each line with its price; the sums over
documents are those over lines (`SumExchange`, `ReceivedWorth`, `PostedWorth`); what
lines say was received is not used, so repeated lines do no harm. What the roundings
add up to is on both sides, and is bounded by half a hundredth a line (`NetNear`,
`NetsNear`). Stock is valued in finer units than the books, but what a receipt adds is
a whole amount, so rounding it for the entry loses nothing (`RoundExact`).

*`BalancesAreMoves`* is proved without a run of its own: it is the complement of the
run `stock_lost_update`.

*How the sums are done.* The provers take no theorem with an operator parameter, so
there is no induction rule to instantiate. `SumLemmas` has instead: least elements of
sets of naturals (`LeastElement`, from well-foundedness), an induction over subsets of
a finite set whose hypothesis is a *set* of subsets (`SubsetInduction`), and from these
what `SumFunctionOnSet` gives for the empty set, for one element more, for equal and for
ordered functions. A fold over the lines of a document is known by the family of its
partial results (`FoldsExist`, `FoldStays`): what each line keeps, the fold keeps.

*Only model-checked.* Liveness (`EveryRequestEnds`, `EveryRequestAnswered`,
`PendingIsReported`), which is beyond the prover. `LedgerFollowsRegister`,
`RegisterSound`, `SubledgersAgree`, `ReportsAgree` and `CommissionsOffset` relate several
sums or reports over the same rows. `BooksFollowStock` bounds what roundings add up to: a
unit of the books for each unit moved, and half a fine unit for each unit on hand after a
move, because an average is rounded over the whole balance and not only over what has
moved (with the first part alone, many small moves on a large balance would exceed it).
Its proof needs an invariant that bounds the rounding of every line. None of these is
known to be out of reach.

## 6. Where code and documentation disagree

Runs that find a violation of what the repository says:

- `stock_lost_update`: the lock is there so that no write "silently overwrites the
  other's" (`inventory/infrastructure/repositories.py:105-107`); returns at current
  cost read the object before the lock, and what a receipt of goods committed in
  between is overwritten. (Returns and invoices hold the company's row and cannot do
  this to one another; receipts, transfers and counts do not take it.)
- `supply_overbilled`: "a short-closed line simply can never be billed for more than
  what actually arrived" (`purchasing/application/services.py:241-243`); each bill
  is matched by itself against what arrived, so two bills of one receipt both match.
- `payments_repeat`: "An allocation may not exceed [...] the target invoice/bill's
  remaining outstanding balance" (`payments/domain/entities.py:11-12`); the
  allocations of one payment to one document are checked one by one, before any is
  inserted.

Eight more configurations are kept to be run by hand; each ends with a violation:

| Configuration | Module | Violated | What is said |
|---|---|---|---|
| `sales_status.cfg` | `MCSalesInvoicing` | `StatusReflectsFulfilment` | the order's status "reflects whether it's fully or only partially fulfilled" (`sales/application/services.py:528-530`); two requests that invoice the last lines side by side leave it `partially_invoiced` |
| `sales_edit.cfg` | `MCSalesInvoicing` | `InvoicedLinesStay` | an edit is "gated on nothing having been invoiced yet [...] not a silent rewrite" (`sales/application/services.py:272-278`); the gate reads without a lock, an invoice is committed after it, and the edit deletes the line that was invoiced |
| `idempotency_target.cfg` | `MCIdempotency` | `ReplayIsForSameTarget` | "the stored response from a prior identical request" (`shared/idempotency/service.py:37-38`); the path's document is not compared |
| `zatca_authority.cfg` | `MCZatcaChain` | `AuthoritySeesOneChain` | "a total order per device/company" (`sales/infrastructure/repositories.py:220-221`); true of the database (`ChainTotal`), not of what the authority was sent before a rollback |
| `register_drift.cfg` | `MCSupply` | `BooksMatchStock` | the variance is posted so that the GL "keeps matching this register exactly instead of drifting" (`inventory/application/services.py`, `receive_stock`); transfers drop theirs |
| `supply_repeat.cfg` | `MCSupply` | `ReceivedIsOrdered` | without the line's lock two receipts would end "over-receiving/over-billing past what was actually ordered" (`purchasing/infrastructure/repositories.py:59-66`); one receipt that names a line twice does, because `populate_existing` drops the quantity it has not flushed |
| `asset_stale.cfg` | `MCAssets` | `TotalsAreFresh` | requests "must not both compute the same stale accumulated-depreciation total" (`fixed_assets/infrastructure/repositories.py:30-33`), whose figures "can never drift" (`fixed_assets/infrastructure/models.py:5-9`); two runs, neither of which takes the lock, do |
| `commission_reversal.cfg` | `MCTrade` | `OnlyEarnedIsReversed` | a reversal "exactly offsets what was actually commissioned" (`commission/application/services.py:62-103`); with no earning on record the credit note still takes commission back, at today's rate |

Smaller things the models had to decide, as the code does:

- The reconciliation of a date differs from the accounts by what these carry of assets
  that are not in the register of that date: the expense of assets disposed of, the
  depreciation booked after a disposal that was dated back, the first month's
  depreciation, dated on its first day, of an asset acquired later in it, and a
  disposal dated before the acquisition. `LedgerFollowsRegister` states the
  difference for every date (`Strays`).
- "Any account with children MUST be a group account"
  (`accounting/infrastructure/models.py:67-70`) holds for requests that come one at
  a time (`Forest`), and has no constraint behind it.
- The cash flow statement explains the change in cash only for entries of plain
  shapes (`CashExplained`): an entry that mixes equity, fixed assets and no cash
  line falls between the methods. So does an asset bought on a payable, of two lines
  and no cash: the investing section leaves it out, as it says, and the operating
  section counts the payable; the docstring has the difference vanish for all entries
  of two lines (`accounting/application/services.py:985-1003`). Neither is in `Plain`.
- The customer's subledger lists 500 documents at most; "can never drift" is checked
  up to that limit.
- The sales trend takes whole months, whatever range was asked for; the returns in a
  drill-down have no status filter; the aging takes all open documents and uses its
  date for the buckets only.
- Payments and debit notes may name bills that are not posted yet, and payments may
  name credit notes.

## 7. Not modelled

- *Identity and master data*: users, roles, companies, partners, products and their
  routes. Each rule is about one row, or is a unique index; no service reads one of
  these rows and later acts on what another request may have changed meanwhile, but
  for the documents, which take them as constants here.
- *Tax rates and journals*, which the seed creates; *further locations* of a
  warehouse; expiry and numbers of quotations; numbers of documents other than
  orders, bills, invoices, payments and assets; renewing and cloning of documents.
- *Search and recent activity*, the layout of printed and exported tables,
  translations, imports of spreadsheets.
- *Row-level security and permissions*: who may ask is decided before the handler,
  and changes nothing in what it does.
- What interleaves inside one operation of `Inventory`: there a delivery, with the
  alerts of its lines, is one step, so that crossings of the reorder point are checked
  over sequences of deliveries and not between the lines of two.
- Interleavings of `Trade`'s requests other than those of `SalesInvoicing`,
  `Payments` and `Idempotency`: two confirmations of one quotation read and write as
  two postings of a bill do in `Purchasing`.
- Everything `PROJECT.json` lists as `not_modelled`, with its reason.

## 8. Plan

Done: `SalesInvoicing`, `Idempotency`, `ZatcaChain`, `StockQuants`, `Payments` and
`Journal` with the chart and the statements of `Financials`, each with proofs (the first,
second, third and fifth with an abstract specification); `Purchasing` on `Inventory`,
with the proofs about its orders, its cardex and its accounts; `FixedAssets`,
`AssetReports`, `Valuation`, `Trade`, `TradeReports`, checked.

1. Proofs about `Inventory`: what roundings add up to (`BooksFollowStock`).
2. Proofs about `FixedAssets`: every entry of `gl` balances, an asset's cost is on
   the books until it is disposed of, a month is booked once.
3. An abstract order that is received, closed and billed, and the refinement.
4. Liveness of depreciation runs (every run ends, under the locks' fairness).
5. `MasterData`: partner and product rows with their references from documents.
