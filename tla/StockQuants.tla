----------------------------- MODULE StockQuants -----------------------------
(***************************************************************************)
(* The stock balances (StockQuant rows) of one product at its locations,   *)
(* and the requests that move stock: receipts, deliveries, returns from    *)
(* customers and to vendors, transfers, and cycle counts.  Every request   *)
(* is one PostgreSQL transaction at READ COMMITTED.  It locks a quant when *)
(* it first moves stock there and writes back the balance of its own copy  *)
(* of the row.  The session keeps one object per row and a locking SELECT  *)
(* does not refresh an object it already has: a request that looked at the *)
(* quant's cost before locking it goes on with the copy it saw then.       *)
(* The company values its stock at average cost, or first in, first out:   *)
(* then every receipt is a layer (StockLayer), issues draw on the layers,  *)
(* and the layers, read under the quant's lock, say what may be issued.    *)
(***************************************************************************)
EXTENDS Integers, FiniteSetsExt

CONSTANTS
  Txns,      \* requests; each is served at most once
  Quants,    \* the locations that may hold the product
  Opening,   \* balances a location may start with
  Qtys,      \* quantities a line may move
  Counts,    \* quantities that may be counted on the shelf
  Kinds,     \* which operations the requests may be
  Methods,   \* how the company may value its stock
  MaxLines,  \* bound on the lines of one document
  Earlier,   \* a cycle count created before the requests
  NoTxn

AllKinds == {"receive", "issue", "restock", "vendor_return", "transfer",
             "count", "approve"}

\* StockMove.source_table
Sources == {"goods_receipt_line", "sales_invoice", "vendor_bill",
            "stock_transfer", "cycle_count_line"}

ASSUME StockAssumption ==
  /\ Quants # {} /\ IsFiniteSet(Quants)
  /\ Opening \subseteq Nat
  /\ Qtys \subseteq Nat \ {0}
  /\ Counts \subseteq Nat
  /\ Kinds \subseteq AllKinds
  /\ Methods \subseteq {"average", "fifo"}
  /\ MaxLines \in Nat \ {0}
  /\ NoTxn \notin Txns
  /\ Earlier \notin Txns

\* Cycle counts: the earlier one, and one per request that creates one.
CycleCounts == Txns \cup {Earlier}

VARIABLES
  (* committed rows *)
  method,       \* the company's valuation_method, fixed when it is created
  exists,       \* quants that have a row
  onHand,       \* StockQuant.qty_on_hand
  layers,       \* what remains of the StockLayer rows of a quant, together
  moved,        \* net quantity of the StockMove rows, per source table
  countStatus,  \* CycleCount.status of the count a request creates
  diff,         \* counted_qty - system_qty of its lines
  (* row locks *)
  lock,         \* quant -> the transaction that holds its lock
  company,      \* the transaction that holds the lock of the company's row
  (* session of each request *)
  pc, kind,
  doc,          \* the cycle count an approval is about
  leg,          \* the line being moved: [quant, qty], signed
  made,         \* number of lines dealt with
  loaded,       \* quants whose row is in the session
  copy,         \* qty_on_hand of those objects
  stale,        \* quants whose object was loaded before the lock was taken
  net,          \* what the request's own StockMove rows add up to
  drawn         \* what it added to the layers, less what it drew from them

db      == <<method, exists, onHand, layers, moved, countStatus, diff>>
locks   == <<lock, company>>
session == <<kind, doc, leg, made, loaded, copy, stale, net, drawn>>
vars    == <<method, exists, onHand, layers, moved, countStatus, diff, lock,
             company, pc, kind, doc, leg, made, loaded, copy, stale, net, drawn>>

Ended == {"idle", "committed", "aborted"}
PCs   == Ended \cup {"company", "counting", "next", "peek", "lock"}
None  == [q \in Quants |-> 0]

\* The document a request's moves are recorded under.
Source(t) ==
  IF kind[t] = "receive" THEN "goods_receipt_line"
  ELSE IF kind[t] \in {"issue", "restock"} THEN "sales_invoice"
  ELSE IF kind[t] = "vendor_return" THEN "vendor_bill"
  ELSE IF kind[t] = "transfer" THEN "stock_transfer"
  ELSE "cycle_count_line"

\* The product's cardex: the balance its committed moves add up to.
Cardex(q) == moved["goods_receipt_line"][q] + moved["sales_invoice"][q]
             + moved["vendor_bill"][q] + moved["stock_transfer"][q]
             + moved["cycle_count_line"][q]

Init ==
  /\ method \in Methods
  /\ onHand \in [Quants -> Opening]
  /\ exists \in {S \in SUBSET Quants : \A q \in Quants \ S : onHand[q] = 0}
  /\ layers = IF method = "fifo" THEN onHand ELSE None
  /\ moved = [s \in Sources |->
                IF s = "goods_receipt_line" THEN onHand ELSE None]
  /\ countStatus = [d \in CycleCounts |-> IF d = Earlier THEN "draft" ELSE "none"]
  /\ \E f \in [Quants -> {c - o : c \in Counts, o \in Opening}] :
       diff = [d \in CycleCounts |-> IF d = Earlier THEN f ELSE None]
  /\ lock = [q \in Quants |-> NoTxn]
  /\ company = NoTxn
  /\ pc = [t \in Txns |-> "idle"]
  /\ kind \in [Txns -> Kinds]
  /\ doc = [t \in Txns |-> Earlier]
  /\ leg = [t \in Txns |-> [quant |-> CHOOSE q \in Quants : TRUE, qty |-> 0]]
  /\ made = [t \in Txns |-> 0]
  /\ loaded = [t \in Txns |-> {}]
  /\ copy = [t \in Txns |-> None]
  /\ stale = [t \in Txns |-> {}]
  /\ net = [t \in Txns |-> None]
  /\ drawn = [t \in Txns |-> None]
-----------------------------------------------------------------------------
(***************************************************************************)
(* Transactions.                                                           *)
(***************************************************************************)
Goto(t, label) == pc' = [pc EXCEPT ![t] = label]

\* Mutant: a request keeps the lock of the last quant it moved.
End_KeepsLock(t, outcome) ==
  /\ Goto(t, outcome)
  /\ lock' = [q \in Quants |->
                IF lock[q] = t /\ q # leg[t].quant THEN NoTxn ELSE lock[q]]
  /\ company' = IF company = t THEN NoTxn ELSE company

End(t, outcome) ==
  /\ Goto(t, outcome)
  /\ lock' = [q \in Quants |-> IF lock[q] = t THEN NoTxn ELSE lock[q]]
  /\ company' = IF company = t THEN NoTxn ELSE company

Abort(t) == End(t, "aborted") /\ UNCHANGED <<db, session>>

\* What the request reads before its first line: an approval reads a count,
\* without locking it, and stops unless it is there and not yet approved.
Begin(t) ==
  /\ pc[t] = "idle"
  /\ IF kind[t] = "approve"
       THEN \E d \in CycleCounts :
              /\ doc' = [doc EXCEPT ![t] = d]
              /\ IF countStatus[d] = "draft"
                   THEN Goto(t, "next") /\ UNCHANGED locks
                   ELSE End(t, "aborted")
       ELSE /\ Goto(t, CASE kind[t] = "count" -> "counting"
                         [] kind[t] \in {"issue", "restock"} -> "company"
                         [] OTHER -> "next")
            /\ UNCHANGED <<doc, locks>>
  /\ UNCHANGED <<db, kind, leg, made, loaded, copy, stale, net, drawn>>

\* An invoice and a credit note are chained to the one before under the lock
\* of the company's row, before they move any stock.
LockCompany(t) ==
  /\ pc[t] = "company"
  /\ company = NoTxn
  /\ company' = t
  /\ Goto(t, "next")
  /\ UNCHANGED <<db, lock, session>>
-----------------------------------------------------------------------------
(***************************************************************************)
(* The lines of a document.                                                *)
(***************************************************************************)
\* The lines the request may move next.  A document of sales or purchasing
\* moves stock at one location; a transfer issues at one and receives the
\* same quantity at another, or the same; an approval adjusts each location
\* that was counted differently once.
Trades == {"receive", "restock", "issue", "vendor_return"}

Admitted(t, q, n) ==
  \/ /\ kind[t] \in Trades
     /\ IF kind[t] \in {"receive", "restock"} THEN n > 0 ELSE n < 0
     /\ made[t] < MaxLines
     /\ made[t] > 0 => q = leg[t].quant
  \/ kind[t] = "transfer" /\ made[t] = 0 /\ n < 0
  \/ kind[t] = "transfer" /\ made[t] = 1 /\ n = -leg[t].qty
  \/ kind[t] = "approve" /\ net[t][q] = 0 /\ n = diff[doc[t]][q] /\ n # 0

\* The document has the lines it needs.
Complete(t) ==
  \/ kind[t] \in Trades /\ made[t] > 0
  \/ kind[t] = "transfer" /\ made[t] = 2
  \/ /\ kind[t] = "approve"
     /\ \A q \in Quants : diff[doc[t]][q] # 0 => net[t][q] # 0

\* A return at the location's current cost, and a positive adjustment, read
\* the quant's cost before receive_stock locks it.
Peeks(t, n) == kind[t] \in {"restock", "approve"} /\ n > 0

NextLine(t, q, n) ==
  /\ pc[t] = "next"
  /\ Admitted(t, q, n)
  /\ leg' = [leg EXCEPT ![t] = [quant |-> q, qty |-> n]]
  /\ \/ Goto(t, IF Peeks(t, n) THEN "peek" ELSE "lock")
     \/ kind[t] = "restock" /\ Goto(t, "lock")   \* cost of the original sale
  /\ UNCHANGED <<db, locks, kind, doc, made, loaded, copy, stale, net, drawn>>

\* quant_repo.get: a plain SELECT; the row's object enters the session.  A
\* returned line without a positive cost is left out: one that has no row, and
\* every one where layers are kept, as nothing then writes an average cost.
Peek(t) ==
  LET q == leg[t].quant
  IN /\ pc[t] = "peek"
     /\ IF q \in exists /\ q \notin loaded[t]
          THEN /\ loaded' = [loaded EXCEPT ![t] = @ \cup {q}]
               /\ copy' = [copy EXCEPT ![t][q] = onHand[q]]
               /\ stale' = [stale EXCEPT ![t] = @ \cup {q}]
          ELSE UNCHANGED <<loaded, copy, stale>>
     /\ \/ /\ kind[t] = "approve" \/ (q \in exists /\ method = "average")
           /\ Goto(t, "lock")
           /\ UNCHANGED made
        \/ /\ kind[t] = "restock"
           /\ Goto(t, "next")
           /\ made' = [made EXCEPT ![t] = @ + 1]
     /\ UNCHANGED <<db, locks, kind, doc, leg, net, drawn>>

Free(t, q) == lock[q] \in {NoTxn, t}

\* The balance the request works on once it holds the lock.
Balance(t, q) == IF q \in loaded[t] THEN copy[t][q] ELSE onHand[q]

\* What may be issued: what remains of the layers, or the balance.
Available(t, q) ==
  IF method = "fifo" THEN layers[q] + drawn[t][q] ELSE Balance(t, q)

Covered(t) == leg[t].qty + Available(t, leg[t].quant) >= 0

\* Mutant: what is available is not checked.
Short_Never(t) == FALSE

\* compute_issue_cost raises and the caller does not allow a negative balance.
Short(t) == ~Covered(t) /\ kind[t] # "vendor_return" /\ leg[t].qty < 0

\* What the move adds to the layers or draws from them: a return to a vendor
\* that they do not cover leaves them as they are.
Layered(t) ==
  IF method = "fifo" /\ (Covered(t) \/ leg[t].qty > 0) THEN leg[t].qty ELSE 0

\* Mutant: the quant is read but not locked.
Move_Unlocked(t) ==
  LET q == leg[t].quant
  IN /\ pc[t] = "lock"
     /\ IF Short(t)
          THEN Abort(t)
          ELSE /\ lock' = [lock EXCEPT ![q] = t]
               /\ loaded' = [loaded EXCEPT ![t] = @ \cup {q}]
               /\ copy' = [copy EXCEPT ![t][q] = Balance(t, q) + leg[t].qty]
               /\ net' = [net EXCEPT ![t][q] = @ + leg[t].qty]
               /\ drawn' = [drawn EXCEPT ![t][q] = @ + Layered(t)]
               /\ made' = [made EXCEPT ![t] = @ + 1]
               /\ Goto(t, "next")
               /\ UNCHANGED <<db, company, kind, doc, leg, stale>>

\* receive_stock, issue_stock: get_or_create_for_update, then the move.
Move(t) ==
  LET q == leg[t].quant
  IN /\ pc[t] = "lock"
     /\ Free(t, q)
     /\ IF Short(t)
          THEN Abort(t)
          ELSE /\ lock' = [lock EXCEPT ![q] = t]
               /\ loaded' = [loaded EXCEPT ![t] = @ \cup {q}]
               /\ copy' = [copy EXCEPT ![t][q] = Balance(t, q) + leg[t].qty]
               /\ net' = [net EXCEPT ![t][q] = @ + leg[t].qty]
               /\ drawn' = [drawn EXCEPT ![t][q] = @ + Layered(t)]
               /\ made' = [made EXCEPT ![t] = @ + 1]
               /\ Goto(t, "next")
               /\ UNCHANGED <<db, company, kind, doc, leg, stale>>

\* Mutant: a transfer is committed after either leg.
Commit_OneLeg(t) ==
  /\ pc[t] = "next"
  /\ Complete(t) \/ (kind[t] = "transfer" /\ made[t] > 0)
  /\ exists' = exists \cup {q \in Quants : lock[q] = t}
  /\ onHand' = [q \in Quants |-> IF lock[q] = t THEN copy[t][q] ELSE onHand[q]]
  /\ layers' = [q \in Quants |-> layers[q] + drawn[t][q]]
  /\ moved' = [moved EXCEPT ![Source(t)] = [q \in Quants |-> @[q] + net[t][q]]]
  /\ UNCHANGED countStatus
  /\ End(t, "committed")
  /\ UNCHANGED <<method, diff, session>>

\* The absolute balances the ORM flushed, the layers, the moves and the count's
\* status become visible together.
Commit(t) ==
  /\ pc[t] = "next"
  /\ Complete(t)
  /\ exists' = exists \cup {q \in Quants : lock[q] = t}
  /\ onHand' = [q \in Quants |-> IF lock[q] = t THEN copy[t][q] ELSE onHand[q]]
  /\ layers' = [q \in Quants |-> layers[q] + drawn[t][q]]
  /\ moved' = [moved EXCEPT ![Source(t)] = [q \in Quants |-> @[q] + net[t][q]]]
  /\ countStatus' = IF kind[t] = "approve"
                      THEN [countStatus EXCEPT ![doc[t]] = "approved"]
                      ELSE countStatus
  /\ End(t, "committed")
  /\ UNCHANGED <<method, diff, session>>
-----------------------------------------------------------------------------
(***************************************************************************)
(* create_cycle_count: the balances are read one SELECT at a time, without *)
(* locks, and kept as the system quantities of the count.                  *)
(***************************************************************************)
ReadSystemQty(t, q) ==
  /\ pc[t] = "counting"
  /\ q \notin loaded[t]
  /\ loaded' = [loaded EXCEPT ![t] = @ \cup {q}]
  /\ copy' = [copy EXCEPT ![t][q] = onHand[q]]
  /\ UNCHANGED <<db, locks, pc, kind, doc, leg, made, stale, net, drawn>>

\* Mutant: the count starts in a status that nothing else knows.
CommitCount_Counted(t) ==
  /\ pc[t] = "counting"
  /\ loaded[t] = Quants
  /\ \E counted \in [Quants -> Counts] :
       diff' = [diff EXCEPT ![t] = [q \in Quants |-> counted[q] - copy[t][q]]]
  /\ countStatus' = [countStatus EXCEPT ![t] = "counted"]
  /\ End(t, "committed")
  /\ UNCHANGED <<method, exists, onHand, layers, moved, session>>

CommitCount(t) ==
  /\ pc[t] = "counting"
  /\ loaded[t] = Quants
  /\ \E counted \in [Quants -> Counts] :
       diff' = [diff EXCEPT ![t] = [q \in Quants |-> counted[q] - copy[t][q]]]
  /\ countStatus' = [countStatus EXCEPT ![t] = "draft"]
  /\ End(t, "committed")
  /\ UNCHANGED <<method, exists, onHand, layers, moved, session>>
-----------------------------------------------------------------------------
\* A later step of the request fails (posting, numbering, connection).
Fail(t) == pc[t] \notin Ended /\ Abort(t)

WaitsFor(t, u) ==
  /\ u # t
  /\ \/ pc[t] = "lock" /\ lock[leg[t].quant] = u
     \/ pc[t] = "company" /\ company = u

Deadlocked(t) ==
  \E D \in SUBSET Txns :
    /\ t \in D
    /\ \A u \in D : \E v \in D : WaitsFor(u, v)

DeadlockVictim(t) == pc[t] \notin Ended /\ Deadlocked(t) /\ Abort(t)

\* Signed quantities of the lines a request may have.
Lines(t) == IF kind[t] = "approve" THEN {diff[doc[t]][q] : q \in Quants}
                                   ELSE Qtys \cup {-n : n \in Qtys}

Step(t) ==
  \/ LockCompany(t)
  \/ \E q \in Quants : \E n \in Lines(t) : NextLine(t, q, n)
  \/ Peek(t) \/ Move(t) \/ Commit(t)
  \/ (\E q \in Quants : ReadSystemQty(t, q)) \/ CommitCount(t)
  \/ DeadlockVictim(t)

Next == \E t \in Txns : Begin(t) \/ Step(t) \/ Fail(t)

Spec == Init /\ [][Next]_vars

\* A request being served goes on: its coroutine runs, PostgreSQL grants a
\* lock that stays free and breaks a wait cycle.
FairSpec == Spec /\ \A t \in Txns : WF_vars(Step(t))
-----------------------------------------------------------------------------
(***************************************************************************)
(* Properties.                                                             *)
(***************************************************************************)
TypeOK ==
  /\ method \in {"average", "fifo"}
  /\ exists \subseteq Quants
  /\ onHand \in [Quants -> Int]
  /\ layers \in [Quants -> Int]
  /\ moved \in [Sources -> [Quants -> Int]]
  /\ countStatus \in [CycleCounts -> {"none", "draft", "approved"}]
  /\ diff \in [CycleCounts -> [Quants -> Int]]
  /\ lock \in [Quants -> Txns \cup {NoTxn}]
  /\ company \in Txns \cup {NoTxn}
  /\ pc \in [Txns -> PCs]
  /\ kind \in [Txns -> AllKinds]
  /\ doc \in [Txns -> CycleCounts]
  /\ leg \in [Txns -> [quant : Quants, qty : Int]]
  /\ made \in [Txns -> Nat]
  /\ loaded \in [Txns -> SUBSET Quants]
  /\ copy \in [Txns -> [Quants -> Int]]
  /\ stale \in [Txns -> SUBSET Quants]
  /\ net \in [Txns -> [Quants -> Int]]
  /\ drawn \in [Txns -> [Quants -> Int]]

\* A commit changes the balance of every location by exactly the moves it
\* records there, unless the request had looked at that quant before it
\* locked it: on the locked path no concurrent update is lost.
BalanceFollowsMoves ==
  [][\A t \in Txns : pc[t] # "committed" /\ pc'[t] = "committed" =>
       \A q \in Quants \ stale[t] :
         onHand'[q] - onHand[q] = Cardex(q)' - Cardex(q)]_vars

\* Only returns to vendors take away what is not there: but for them, at
\* average cost no balance is negative, whatever runs side by side, and where
\* layers are kept nothing more is recorded as issued than was received.
NegativeOnlyByReturn ==
  \A q \in Quants :
    (IF method = "fifo" THEN Cardex(q) ELSE onHand[q]) >= moved["vendor_bill"][q]

\* Transfers neither create nor destroy stock: both legs or none.
TransfersConserve ==
  SumFunction(moved["stock_transfer"]) = 0

\* Every request that is being served ends, committed or rolled back, though
\* transfers lock two locations in the order each of them names.
EveryRequestEnds == \A t \in Txns : pc[t] \notin Ended ~> pc[t] \in Ended

\* The balance of every location is what its recorded moves add up to.
OnHandIsMoves == \A q \in Quants : onHand[q] = Cardex(q)
=============================================================================
