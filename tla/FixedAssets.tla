----------------------------- MODULE FixedAssets ------------------------------
(***************************************************************************)
(* The register of fixed assets and the entries it posts: acquisition,     *)
(* monthly depreciation, disposal.                                         *)
(*                                                                         *)
(* A depreciation run lists the assets without a lock and books them one   *)
(* after another; the insertion of a depreciation row takes a share of the *)
(* asset's row (foreign key).  A disposal holds the row exclusively.  All  *)
(* the rest reads first and writes when it commits.                        *)
(***************************************************************************)
EXTENDS Integers, FiniteSetsExt, Bags

CONSTANTS
  Txns,       \* requests; each is served at most once
  Assets,     \* identities of fixed_asset rows
  Cats, Names,\* identities and names of categories
  Months,     \* months, as numbers
  Offers,     \* payloads of create_asset: [acquired, cost, salvage, life, category]
  Proceeds,   \* what a disposal may bring in
  Registers,  \* assets a company may have before the requests
  Nil

ASSUME AssetsAssumption ==
  /\ Months \subseteq Nat \ {0}
  /\ \A o \in Offers : o.life > 0 /\ o.salvage >= 0 /\ o.salvage < o.cost
  /\ Proceeds \subseteq Nat
  /\ Nil \notin Txns \cup Assets \cup Cats \cup Names \cup Nat

\* A month has a first day and one that is not.
Start(m)   == 2 * m
MonthOf(d) == d \div 2
Dates      == {Start(m) : m \in Months} \cup {Start(m) + 1 : m \in Months}

VARIABLES
  asset,       \* fixed_asset rows
  dep,         \* amount depreciated by asset and month; 0 where there is no row
  gl,          \* bag of the posted entries whose source is an asset
  cat,         \* fixed_asset_category rows
  closed,      \* months whose fiscal period is closed
  tx,          \* what each request is doing, has loaded and is to write
  sharing,     \* requests that hold a share of an asset's row
  updating,    \* the request that holds it exclusively
  overlapped   \* kinds of requests that were ever open together (history)

vars == <<asset, dep, gl, cat, closed, tx, sharing, updating, overlapped>>

C == INSTANCE Categories WITH Ids <- Cats

Labels == {"active", "idle", "under_maintenance"}
PCs    == {"idle", "number", "run", "book", "ready", "ended"}

NoAsset == [code |-> 0, acquired |-> 0, cost |-> 0, salvage |-> 0, life |-> 1,
            category |-> Nil, disposed |-> Nil, status |-> "active"]
Fresh   == [pc |-> "idle", month |-> 0, todo |-> {}, of |-> Nil, amount |-> 0,
            rows |-> {}, entries |-> {}, seen |-> Nil, want |-> Nil, wasCat |-> Nil, newCat |-> Nil]

Exists(a) == asset[a].code # 0
Held(a)   == Exists(a) /\ asset[a].disposed = Nil

\* An entry, as what it adds to the accounts of the asset and to the others.
Entry(a, d, c, m, e, f, g) ==
  [of |-> a, date |-> d, cost |-> c, accum |-> m, expense |-> e, funds |-> f, result |-> g]

Base(r)    == r.cost - r.salvage
Monthly(r) == (2 * Base(r) + r.life) \div (2 * r.life)    \* ROUND_HALF_UP

\* sum_for_asset
Depreciated(a) == MapThenSumSet(LAMBDA m : dep[a][m], Months)

MayPostOn(d) == MonthOf(d) \notin closed
-----------------------------------------------------------------------------
(***************************************************************************)
(* Requests.                                                               *)
(***************************************************************************)
Open(t) == tx[t].pc \notin {"idle", "ended"}

\* What a request is about.
Runs(x)     == x.month # 0
Disposes(x) == x.want # Nil /\ x.want.disposed # Nil
Arranges(x) == x.newCat # Nil

Overlap(x, y) == {k \in {"runs", "run_disposal", "categories"} :
  \/ k = "runs" /\ Runs(x) /\ Runs(y)
  \/ k = "run_disposal" /\ Runs(x) /\ Disposes(y)
  \/ k = "run_disposal" /\ Disposes(x) /\ Runs(y)
  \/ k = "categories" /\ Arranges(x) /\ Arranges(y)}

Begin(t, x) ==
  /\ tx[t].pc = "idle"
  /\ tx' = [tx EXCEPT ![t] = x]
  /\ overlapped' = overlapped \cup UNION {Overlap(x, tx[u]) : u \in {v \in Txns : Open(v)}}
  /\ UNCHANGED <<asset, dep, gl, cat, closed>>

Quiet == UNCHANGED <<sharing, updating>>

Claimed(a) == \E u \in Txns : tx[u].of = a /\ tx[u].pc \in {"number", "ready"}

Acquisition(a, o) == Entry(a, o.acquired, o.cost, 0, 0, -o.cost, 0)

Acquired(n, o) == [NoAsset EXCEPT !.code = n, !.acquired = o.acquired, !.cost = o.cost,
                   !.salvage = o.salvage, !.life = o.life, !.category = o.category]

\* create_asset up to next_number, which is a count
CreateAsset(t) == \E a \in Assets, o \in Offers :
  /\ ~Exists(a) /\ ~Claimed(a)
  /\ o.category # Nil => C!There(cat, o.category)
  /\ LET n == 1 + Cardinality({b \in Assets : Exists(b)})
     IN Begin(t, [Fresh EXCEPT !.pc = "number", !.of = a, !.want = Acquired(n, o)])
  /\ Quiet

\* The insertion waits for one of the same code and fails after it.
InsertAsset(t) == LET a == tx[t].of  r == tx[t].want IN
  /\ tx[t].pc = "number"
  /\ \A u \in Txns \ {t} : tx[u].pc = "ready" /\ tx[u].seen = NoAsset => tx[u].want.code # r.code
  /\ \A b \in Assets : asset[b].code # r.code
  /\ MayPostOn(r.acquired)
  /\ tx' = [tx EXCEPT ![t].pc = "ready", ![t].seen = NoAsset,
                      ![t].entries = {Acquisition(a, r)}]
  /\ UNCHANGED <<asset, dep, gl, cat, closed, overlapped>> /\ Quiet

RunDepreciation(t) == \E m \in Months, c \in Cats \cup {Nil} :
  /\ c # Nil => C!There(cat, c)
  /\ Begin(t, [Fresh EXCEPT !.pc = "run", !.month = m,
               !.todo = {a \in Assets : Held(a) /\ (c # Nil => asset[a].category = c)}])
  /\ Quiet

\* Mutant: what is left is not looked at.
Due_Whole(a, m) ==
  IF MonthOf(asset[a].acquired) > m \/ dep[a][m] # 0 THEN 0 ELSE Monthly(asset[a])

\* The run's view of an asset: not yet acquired, booked before, fully
\* depreciated, or an amount to book.
Due(a, m) == LET r == asset[a]  left == Base(r) - Depreciated(a)
  IN IF MonthOf(r.acquired) > m \/ dep[a][m] # 0 \/ left <= 0 THEN 0
     ELSE Min({Monthly(r), left})

\* Latest acquisition first.
NextAsset(t) == \E a \in tx[t].todo :
  /\ tx[t].pc = "run"
  /\ \A b \in tx[t].todo : asset[b].acquired <= asset[a].acquired
  /\ tx' = [tx EXCEPT ![t].todo = @ \ {a}, ![t].of = a, ![t].amount = Due(a, tx[t].month),
                      ![t].pc = IF Due(a, tx[t].month) = 0 THEN "run" ELSE "book"]
  /\ UNCHANGED <<asset, dep, gl, cat, closed, overlapped>> /\ Quiet

Depreciation(a, m, n) == Entry(a, Start(m), 0, -n, n, 0, 0)

\* The row's insertion waits for a disposal and for the same row of another
\* run, and fails when that has committed.
BookDepreciation(t) == LET a == tx[t].of  m == tx[t].month  n == tx[t].amount IN
  /\ tx[t].pc = "book"
  /\ MayPostOn(Start(m))
  /\ updating[a] = Nil
  /\ \A u \in Txns \ {t} : \A x \in tx[u].rows : <<x[1], x[2]>> # <<a, m>>
  /\ dep[a][m] = 0
  /\ tx' = [tx EXCEPT ![t].pc = "run", ![t].rows = @ \cup {<<a, m, n>>},
                      ![t].entries = @ \cup {Depreciation(a, m, n)}]
  /\ sharing' = [sharing EXCEPT ![a] = @ \cup {t}]
  /\ UNCHANGED <<asset, dep, gl, cat, closed, updating, overlapped>>

EndRun(t) ==
  /\ tx[t].pc = "run" /\ tx[t].todo = {}
  /\ tx' = [tx EXCEPT ![t].pc = "ready", ![t].of = Nil]
  /\ UNCHANGED <<asset, dep, gl, cat, closed, overlapped>> /\ Quiet

\* Mutant: the disposal leaves the accumulated depreciation on its account.
Disposal_KeepsAccumulated(a, d, p) ==
  Entry(a, d, -asset[a].cost, 0, 0, p, asset[a].cost - p)

\* Writes off cost and depreciation; what is missing is loss, what is over gain.
Disposal(a, d, p) == LET r == asset[a]  n == Depreciated(a)
  IN Entry(a, d, -r.cost, n, 0, p, r.cost - n - p)

Dispose(t) == \E a \in Assets, d \in Dates, p \in Proceeds :
  /\ updating[a] = Nil /\ sharing[a] = {}
  /\ Held(a)
  /\ MayPostOn(d)
  /\ Begin(t, [Fresh EXCEPT !.pc = "ready", !.of = a, !.seen = asset[a],
               !.want = [asset[a] EXCEPT !.disposed = d], !.entries = {Disposal(a, d, p)}])
  /\ updating' = [updating EXCEPT ![a] = t]
  /\ UNCHANGED sharing

UpdateStatus(t) == \E a \in Assets, s \in Labels :
  /\ Held(a)
  /\ Begin(t, [Fresh EXCEPT !.pc = "ready", !.of = a, !.seen = asset[a],
               !.want = [asset[a] EXCEPT !.status = s]])
  /\ Quiet

ChangeCategories(t, c) ==
  /\ Begin(t, [Fresh EXCEPT !.pc = "ready", !.wasCat = cat, !.newCat = c])
  /\ Quiet

CreateCategory(t) == \E x \in Cats, p \in Cats \cup {Nil}, n \in Names :
  /\ \A u \in Txns : tx[u].newCat # Nil => ~C!There(tx[u].newCat, x)
  /\ C!CanCreate(cat, x, p, n) /\ ChangeCategories(t, C!Saved(cat, x, p, n))

UpdateCategory(t) == \E x \in Cats, p \in Cats \cup {Nil}, n \in Names :
  C!CanUpdate(cat, x, p, n) /\ ChangeCategories(t, C!Saved(cat, x, p, n))

\* count_by_category
Assigned(x) == \E a \in Assets : Exists(a) /\ asset[a].category = x

DeleteCategory(t) == \E x \in Cats :
  /\ C!CanDelete(cat, x) /\ ~Assigned(x)
  /\ ChangeCategories(t, C!Removed(cat, x))

\* A month's fiscal period is closed, by a request of the journal.
ClosePeriod == \E m \in Months \ closed :
  /\ \A t \in Txns : ~Open(t)
  /\ closed' = closed \cup {m}
  /\ UNCHANGED <<asset, dep, gl, cat, tx, sharing, updating, overlapped>>
-----------------------------------------------------------------------------
(***************************************************************************)
(* Commit and rollback.                                                    *)
(***************************************************************************)
Changed(now, old, new) ==
  [f \in DOMAIN now |-> IF new[f] # old[f] THEN new[f] ELSE now[f]]

Release(t) ==
  /\ sharing' = [a \in Assets |-> sharing[a] \ {t}]
  /\ updating' = [a \in Assets |-> IF updating[a] = t THEN Nil ELSE updating[a]]

\* Foreign keys: no row is left pointing at a category that is gone.
KeysHold == /\ \A a \in Assets : asset'[a].category # Nil => C!There(cat', asset'[a].category)
            /\ \A x \in Cats : C!There(cat', x) /\ cat'[x].parent # Nil => C!There(cat', cat'[x].parent)

\* An update or a deletion of a category that is gone fails.
SavedCategories(x) == [y \in Cats |->
  IF C!There(x.wasCat, y) /\ ~C!There(x.newCat, y) THEN C!NoRow
  ELSE Changed(cat[y], x.wasCat[y], x.newCat[y])]

CategoriesAsSeen(x) == x.newCat # Nil => \A y \in Cats :
  x.newCat[y] # x.wasCat[y] => C!There(cat, y) = C!There(x.wasCat, y)

Commit(t) == LET x == tx[t] IN
  /\ x.pc = "ready"
  /\ CategoriesAsSeen(x)
  /\ x.want # Nil => updating[x.of] \in {t, Nil}
  /\ asset' = IF x.want = Nil THEN asset
              ELSE [asset EXCEPT ![x.of] = Changed(@, x.seen, x.want)]
  /\ dep' = [a \in Assets |-> [m \in Months |->
       LET R == {r \in x.rows : r[1] = a /\ r[2] = m}
       IN IF R = {} THEN dep[a][m] ELSE (CHOOSE r \in R : TRUE)[3]]]
  /\ gl' = gl (+) SetToBag(x.entries)
  /\ cat' = IF x.newCat = Nil THEN cat ELSE SavedCategories(x)
  /\ KeysHold
  /\ tx' = [tx EXCEPT ![t] = [Fresh EXCEPT !.pc = "ended"]]
  /\ Release(t)
  /\ UNCHANGED <<closed, overlapped>>

\* A refusal, a failure or the end of the process.
Rollback(t) ==
  /\ Open(t)
  /\ tx' = [tx EXCEPT ![t] = [Fresh EXCEPT !.pc = "ended"]]
  /\ Release(t)
  /\ UNCHANGED <<asset, dep, gl, cat, closed, overlapped>>
-----------------------------------------------------------------------------
Init ==
  /\ \E r \in Registers : asset = r.asset /\ dep = r.dep /\ gl = r.gl
  /\ cat = [x \in Cats |-> C!NoRow]
  /\ closed = {}
  /\ tx = [t \in Txns |-> Fresh]
  /\ sharing = [a \in Assets |-> {}]
  /\ updating = [a \in Assets |-> Nil]
  /\ overlapped = {}

Step(t) ==
  \/ CreateAsset(t) \/ InsertAsset(t)
  \/ RunDepreciation(t) \/ NextAsset(t) \/ BookDepreciation(t) \/ EndRun(t)
  \/ Dispose(t) \/ UpdateStatus(t)
  \/ CreateCategory(t) \/ UpdateCategory(t) \/ DeleteCategory(t)
  \/ Commit(t) \/ Rollback(t)

Next == ClosePeriod \/ \E t \in Txns : Step(t)

Spec == Init /\ [][Next]_vars
=============================================================================
