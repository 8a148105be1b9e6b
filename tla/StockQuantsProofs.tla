-------------------------- MODULE StockQuantsProofs --------------------------
(***************************************************************************)
(* Theorems about StockQuants.  What makes the balances right is that the  *)
(* object a request works on, once its quant is locked, holds the          *)
(* committed balance plus the request's own moves (HolderInv), unless the  *)
(* request had loaded it before the lock.                                  *)
(***************************************************************************)
EXTENDS StockQuants, SumLemmas, TLAPS

Serving == {"next", "peek", "lock"}

\* A lock is held only by a request being served, whose object of the row is
\* the committed balance plus its own moves; every object it holds is one it
\* has locked, or one it looked at before.
Holding(t, q) ==
  /\ lock[q] = t => q \in loaded[t] /\ pc[t] \in Serving
  /\ lock[q] = t /\ q \notin stale[t] => copy[t][q] = onHand[q] + net[t][q]
  /\ lock[q] # t /\ pc[t] \notin Ended => net[t][q] = 0
  /\ q \in loaded[t] /\ pc[t] \in Serving => lock[q] = t \/ q \in stale[t]
  /\ pc[t] \in {"idle", "company"} => q \notin loaded[t] /\ net[t][q] = 0

HolderInv == \A t \in Txns, q \in Quants : Holding(t, q)

\* Only a return at current cost or an approval looks before it locks, only an
\* invoice and a credit note lock the company, and only a count counts.
PeekInv ==
  \A t \in Txns :
    /\ kind[t] \in Kinds
    /\ pc[t] = "peek" \/ stale[t] # {} => kind[t] \in {"restock", "approve"}
    /\ pc[t] = "company" => kind[t] \in {"issue", "restock"}
    /\ pc[t] = "counting" => kind[t] = "count"

\* Returns to vendors only take away.
Returning(t) ==
  kind[t] = "vendor_return" => /\ pc[t] = "lock" => leg[t].qty < 0
                               /\ \A q \in Quants : net[t][q] <= 0

\* At average cost, what a request works on is no further below nothing than
\* the returns to vendors, its own among them, have taken it.
Given(t, q) == IF kind[t] = "vendor_return" THEN net[t][q] ELSE 0

Indebted(t, q) ==
  method = "average" /\ pc[t] \notin Ended /\ q \in loaded[t] =>
    copy[t][q] >= moved["vendor_bill"][q] + Given(t, q)

\* Where layers are kept, a request draws on them what it moves, or less if it
\* returns to a vendor what they do not cover, and never more than they hold.
Drawing(t, q) ==
  method = "fifo" =>
    /\ kind[t] # "vendor_return" => drawn[t][q] = net[t][q]
    /\ kind[t] = "vendor_return" => net[t][q] <= drawn[t][q] /\ drawn[t][q] <= 0
    /\ pc[t] \notin Ended /\ lock[q] = t => layers[q] + drawn[t][q] >= 0

\* The same of the committed rows: the layers are what the moves add up to,
\* but for returns to vendors that they did not cover.
Owed(q) ==
  IF method = "fifo"
    THEN /\ layers[q] >= 0
         /\ layers[q] >= Cardex(q)
         /\ layers[q] <= Cardex(q) - moved["vendor_bill"][q]
    ELSE onHand[q] >= moved["vendor_bill"][q]

DebtInv ==
  /\ \A q \in Quants : moved["vendor_bill"][q] <= 0 /\ Owed(q)
  /\ \A t \in Txns : Returning(t)
  /\ \A t \in Txns, q \in Quants : Indebted(t, q) /\ Drawing(t, q)

IInv == TypeOK /\ HolderInv /\ PeekInv /\ DebtInv
-----------------------------------------------------------------------------
LEMMA SourceType ==
  ASSUME NEW t \in Txns
  PROVE  /\ Source(t) \in Sources
         /\ Source(t) = "vendor_bill" <=> kind[t] = "vendor_return"
  BY DEF Source, Sources

LEMMA EndType ==
  ASSUME TypeOK, NEW t \in Txns, NEW o \in Ended, End(t, o)
  PROVE  /\ lock' \in [Quants -> Txns \cup {NoTxn}]
         /\ company' \in Txns \cup {NoTxn}
         /\ pc' \in [Txns -> PCs]
  BY DEF TypeOK, End, Goto, PCs

LEMMA AbortType ==
  ASSUME TypeOK, NEW t \in Txns, Abort(t)
  PROVE  TypeOK'
  <1>1. /\ lock' \in [Quants -> Txns \cup {NoTxn}] /\ pc' \in [Txns -> PCs]
        /\ company' \in Txns \cup {NoTxn}
    BY EndType DEF Abort, Ended
  <1>. QED
    BY <1>1 DEF TypeOK, Abort, db, session

LEMMA BeginType ==
  ASSUME TypeOK, NEW t \in Txns, Begin(t)
  PROVE  TypeOK'
  <1>1. pc' \in [Txns -> PCs]
    BY DEF TypeOK, Begin, Goto, End, PCs, Ended
  <1>2. lock' \in [Quants -> Txns \cup {NoTxn}] /\ company' \in Txns \cup {NoTxn}
    BY DEF TypeOK, Begin, End, locks
  <1>3. doc' \in [Txns -> CycleCounts]
    BY DEF TypeOK, Begin
  <1>. QED
    BY <1>1, <1>2, <1>3 DEF TypeOK, Begin, db

LEMMA LockCompanyType ==
  ASSUME TypeOK, NEW t \in Txns, LockCompany(t)
  PROVE  TypeOK'
  <1>1. pc' \in [Txns -> PCs] /\ company' \in Txns \cup {NoTxn}
    BY DEF TypeOK, LockCompany, Goto, PCs
  <1>. QED
    BY <1>1 DEF TypeOK, LockCompany, db, session

LEMMA NextLineType ==
  ASSUME TypeOK, NEW t \in Txns, NEW q \in Quants, NEW n \in Int,
         NextLine(t, q, n)
  PROVE  TypeOK'
  <1>1. pc' \in [Txns -> PCs]
    BY DEF TypeOK, NextLine, Goto, PCs
  <1>2. leg' \in [Txns -> [quant : Quants, qty : Int]]
    BY DEF TypeOK, NextLine
  <1>. QED
    BY <1>1, <1>2 DEF TypeOK, NextLine, db, locks

\* What Peek does, its two choices apart.
LEMMA PeekEffect ==
  ASSUME NEW t \in Txns, Peek(t), NEW q, q = leg[t].quant
  PROVE  /\ pc[t] = "peek"
         /\ \/ UNCHANGED <<loaded, copy, stale>>
            \/ /\ q \notin loaded[t]
               /\ loaded' = [loaded EXCEPT ![t] = loaded[t] \cup {q}]
               /\ copy' = [copy EXCEPT ![t] = [copy[t] EXCEPT ![q] = onHand[q]]]
               /\ stale' = [stale EXCEPT ![t] = stale[t] \cup {q}]
         /\ \/ /\ pc' = [pc EXCEPT ![t] = "lock"]
               /\ UNCHANGED made
            \/ /\ pc' = [pc EXCEPT ![t] = "next"]
               /\ made' = [made EXCEPT ![t] = made[t] + 1]
         /\ UNCHANGED <<db, locks, kind, doc, leg, net, drawn>>
  BY DEF Peek, Goto

LEMMA PeekType ==
  ASSUME TypeOK, NEW t \in Txns, Peek(t)
  PROVE  TypeOK'
  <1>. DEFINE q == leg[t].quant
  <1>0. q \in Quants /\ onHand[q] \in Int
    BY DEF TypeOK
  <1>. HIDE DEF q
  <1>1. pc' \in [Txns -> PCs] /\ made' \in [Txns -> Nat]
    <2>1. CASE pc' = [pc EXCEPT ![t] = "lock"] /\ UNCHANGED made
      BY <2>1 DEF TypeOK, PCs
    <2>2. CASE /\ pc' = [pc EXCEPT ![t] = "next"]
               /\ made' = [made EXCEPT ![t] = made[t] + 1]
      BY <2>2 DEF TypeOK, PCs
    <2>. QED
      BY <2>1, <2>2, PeekEffect
  <1>2. /\ copy' \in [Txns -> [Quants -> Int]]
        /\ loaded' \in [Txns -> SUBSET Quants]
        /\ stale' \in [Txns -> SUBSET Quants]
    <2>1. CASE UNCHANGED <<loaded, copy, stale>>
      BY <2>1 DEF TypeOK
    <2>2. CASE /\ loaded' = [loaded EXCEPT ![t] = loaded[t] \cup {q}]
               /\ copy' = [copy EXCEPT ![t] = [copy[t] EXCEPT ![q] = onHand[q]]]
               /\ stale' = [stale EXCEPT ![t] = stale[t] \cup {q}]
      <3>1. copy[t] \in [Quants -> Int] /\ stale[t] \cup {q} \subseteq Quants
            /\ loaded[t] \cup {q} \subseteq Quants
        BY <1>0 DEF TypeOK
      <3>. QED
        BY <1>0, <2>2, <3>1 DEF TypeOK
    <2>. QED
      BY <2>1, <2>2, PeekEffect DEF q
  <1>3. UNCHANGED <<db, locks, kind, doc, leg, net, drawn>>
    BY PeekEffect
  <1>. QED
    BY <1>1, <1>2, <1>3 DEF TypeOK, db, locks

LEMMA MoveType ==
  ASSUME TypeOK, NEW t \in Txns, Move(t)
  PROVE  TypeOK'
  <1>. DEFINE q == leg[t].quant
  <1>0. q \in Quants /\ leg[t].qty \in Int /\ Balance(t, q) \in Int
        /\ Layered(t) \in Int
    BY DEF TypeOK, Balance, Layered
  <1>1. CASE Abort(t)
    BY <1>1, AbortType
  <1>2. CASE ~Abort(t)
    <2>1. /\ lock' = [lock EXCEPT ![q] = t]
          /\ loaded' = [loaded EXCEPT ![t] = @ \cup {q}]
          /\ copy' = [copy EXCEPT ![t][q] = Balance(t, q) + leg[t].qty]
          /\ net' = [net EXCEPT ![t][q] = @ + leg[t].qty]
          /\ drawn' = [drawn EXCEPT ![t][q] = @ + Layered(t)]
          /\ made' = [made EXCEPT ![t] = @ + 1]
          /\ pc' = [pc EXCEPT ![t] = "next"]
          /\ UNCHANGED <<db, company, kind, doc, leg, stale>>
      BY <1>2 DEF Move, Goto
    <2>a. drawn' \in [Txns -> [Quants -> Int]]
      BY <1>0, <2>1 DEF TypeOK
    <2>2. copy' \in [Txns -> [Quants -> Int]] /\ net' \in [Txns -> [Quants -> Int]]
      BY <1>0, <2>1 DEF TypeOK
    <2>3. lock' \in [Quants -> Txns \cup {NoTxn}] /\ loaded' \in [Txns -> SUBSET Quants]
      BY <1>0, <2>1 DEF TypeOK
    <2>4. pc' \in [Txns -> PCs] /\ made' \in [Txns -> Nat]
      BY <2>1 DEF TypeOK, PCs
    <2>. QED
      BY <2>1, <2>a, <2>2, <2>3, <2>4 DEF TypeOK, db
  <1>. QED
    BY <1>1, <1>2

LEMMA CommitMoves ==
  ASSUME TypeOK, NEW t \in Txns, Commit(t)
  PROVE  /\ moved' \in [Sources -> [Quants -> Int]]
         /\ \A s \in Sources, q \in Quants :
              moved'[s][q] = IF s = Source(t) THEN moved[s][q] + net[t][q]
                                              ELSE moved[s][q]
  <1>1. moved' = [moved EXCEPT ![Source(t)] = [q \in Quants |-> @[q] + net[t][q]]]
    BY DEF Commit
  <1>2. moved \in [Sources -> [Quants -> Int]] /\ net[t] \in [Quants -> Int]
    BY DEF TypeOK
  <1>. QED
    BY <1>1, <1>2, SourceType

LEMMA CommitType ==
  ASSUME TypeOK, NEW t \in Txns, Commit(t)
  PROVE  TypeOK'
  <1>1. /\ lock' \in [Quants -> Txns \cup {NoTxn}] /\ pc' \in [Txns -> PCs]
        /\ company' \in Txns \cup {NoTxn}
    BY EndType DEF Commit, Ended
  <1>2. exists' \subseteq Quants /\ onHand' \in [Quants -> Int]
    BY DEF TypeOK, Commit
  <1>3. countStatus' \in [CycleCounts -> {"none", "draft", "approved"}]
    BY DEF TypeOK, Commit
  <1>4. UNCHANGED <<method, diff, session>>
    BY DEF Commit
  <1>5. layers' \in [Quants -> Int]
    BY DEF TypeOK, Commit
  <1>. QED
    BY <1>1, <1>2, <1>3, <1>4, <1>5, CommitMoves DEF TypeOK, session

LEMMA CountType ==
  ASSUME TypeOK, NEW t \in Txns,
         CommitCount(t) \/ \E q \in Quants : ReadSystemQty(t, q)
  PROVE  TypeOK'
  <1>1. CASE CommitCount(t)
    <2>1. /\ lock' \in [Quants -> Txns \cup {NoTxn}] /\ pc' \in [Txns -> PCs]
          /\ company' \in Txns \cup {NoTxn}
      BY <1>1, EndType DEF CommitCount, Ended
    <2>2. PICK counted \in [Quants -> Counts] :
            diff' = [diff EXCEPT ![t] = [q \in Quants |-> counted[q] - copy[t][q]]]
      BY <1>1 DEF CommitCount
    <2>. DEFINE f == [q \in Quants |-> counted[q] - copy[t][q]]
    <2>a. Counts \subseteq Int /\ copy[t] \in [Quants -> Int]
      BY StockAssumption DEF TypeOK
    <2>3. \A q \in Quants : counted[q] \in Int /\ copy[t][q] \in Int
      BY <2>2, <2>a
    <2>b. f \in [Quants -> Int]
      BY <2>3
    <2>c. diff' = [diff EXCEPT ![t] = f]
      BY <2>2
    <2>4. diff' \in [CycleCounts -> [Quants -> Int]]
      <3>. HIDE DEF f
      <3>. QED
        BY <2>b, <2>c DEF TypeOK
    <2>5. countStatus' \in [CycleCounts -> {"none", "draft", "approved"}]
      BY <1>1 DEF TypeOK, CommitCount
    <2>. QED
      BY <1>1, <2>1, <2>4, <2>5 DEF TypeOK, CommitCount, session
  <1>2. CASE \E q \in Quants : ReadSystemQty(t, q)
    <2>1. PICK q \in Quants : ReadSystemQty(t, q)
      BY <1>2
    <2>2. copy' \in [Txns -> [Quants -> Int]] /\ loaded' \in [Txns -> SUBSET Quants]
      BY <2>1 DEF TypeOK, ReadSystemQty
    <2>. QED
      BY <2>1, <2>2 DEF TypeOK, ReadSystemQty, db, locks
  <1>. QED
    BY <1>1, <1>2

LEMMA LinesInt ==
  ASSUME TypeOK, NEW t \in Txns
  PROVE  Lines(t) \subseteq Int
  <1>1. \A q \in Quants : diff[doc[t]][q] \in Int
    BY DEF TypeOK
  <1>2. \A n \in Qtys : n \in Int /\ -n \in Int
    BY StockAssumption
  <1>. QED
    BY <1>1, <1>2 DEF Lines

LEMMA NextType ==
  ASSUME TypeOK, [Next]_vars
  PROVE  TypeOK'
  <1>1. CASE UNCHANGED vars
    BY <1>1 DEF vars, TypeOK
  <1>2. ASSUME NEW t \in Txns, Begin(t) \/ Step(t) \/ Fail(t)
        PROVE  TypeOK'
    <2>1. CASE Begin(t)
      BY <2>1, BeginType
    <2>2. CASE Abort(t)
      BY <2>2, AbortType
    <2>3. ASSUME NEW q \in Quants, NEW n \in Lines(t), NextLine(t, q, n)
          PROVE  TypeOK'
      BY <2>3, NextLineType, LinesInt
    <2>. QED
      BY <1>2, <2>1, <2>2, <2>3, LockCompanyType, PeekType, MoveType, CommitType,
         CountType
         DEF Step, Fail, DeadlockVictim
  <1>. QED
    BY <1>1, <1>2 DEF Next
-----------------------------------------------------------------------------
(***************************************************************************)
(* HolderInv is inductive.                                                 *)
(***************************************************************************)
\* A request whose session a step leaves alone.
LEMMA Bystander ==
  ASSUME NEW u \in Txns, NEW q \in Quants, Holding(u, q),
         pc'[u] = pc[u],
         loaded'[u] = loaded[u], stale'[u] = stale[u],
         copy'[u] = copy[u], net'[u] = net[u],
         lock'[q] = u <=> lock[q] = u,
         lock[q] = u => onHand'[q] = onHand[q]
  PROVE  Holding(u, q)'
  BY DEF Holding

LEMMA EndHolder ==
  ASSUME TypeOK, HolderInv, NEW t \in Txns, NEW o \in {"committed", "aborted"},
         End(t, o), UNCHANGED session,
         \A q \in Quants : lock[q] # t => onHand'[q] = onHand[q]
  PROVE  HolderInv'
  <1>. SUFFICES ASSUME NEW u \in Txns, NEW q \in Quants
                PROVE  Holding(u, q)'
    BY DEF HolderInv
  <1>0. Holding(u, q) /\ NoTxn \notin Txns
    BY StockAssumption DEF HolderInv
  <1>1. /\ lock'[q] = IF lock[q] = t THEN NoTxn ELSE lock[q]
        /\ pc' = [pc EXCEPT ![t] = o]
    BY DEF End, Goto
  <1>2. CASE u = t
    <2>1. pc'[u] = o /\ lock'[q] # u
      BY <1>0, <1>1, <1>2 DEF TypeOK
    <2>. QED
      BY <2>1 DEF Holding, Serving, Ended
  <1>3. CASE u # t
    <2>1. pc'[u] = pc[u] /\ (lock'[q] = u <=> lock[q] = u)
      BY <1>0, <1>1, <1>3 DEF TypeOK
    <2>. QED
      BY <1>0, <1>3, <2>1, Bystander DEF session
  <1>. QED
    BY <1>2, <1>3

LEMMA BeginHolder ==
  ASSUME TypeOK, HolderInv, NEW t \in Txns, Begin(t)
  PROVE  HolderInv'
  <1>1. CASE End(t, "aborted")
    <2>1. \A u \in Txns, q \in Quants : lock[q] = u => pc[u] # "idle"
      BY DEF HolderInv, Holding, Serving
    <2>. SUFFICES ASSUME NEW u \in Txns, NEW q \in Quants
                  PROVE  Holding(u, q)'
      BY DEF HolderInv
    <2>2. Holding(u, q) /\ lock[q] # t
      BY <2>1 DEF HolderInv, Begin
    <2>3. lock'[q] = lock[q] /\ pc' = [pc EXCEPT ![t] = "aborted"]
      BY <1>1, <2>2 DEF End, Goto
    <2>4. UNCHANGED <<loaded, stale, copy, net, onHand>>
      BY DEF Begin, db
    <2>5. CASE u = t
      BY <2>2, <2>3, <2>4, <2>5 DEF Holding, TypeOK, Ended, Serving
    <2>6. CASE u # t
      BY <2>2, <2>3, <2>4, <2>6, Bystander DEF TypeOK
    <2>. QED
      BY <2>5, <2>6
  <1>2. CASE ~End(t, "aborted")
    <2>1. UNCHANGED <<lock, loaded, stale, copy, net, onHand>>
      BY <1>2 DEF Begin, db, locks
    <2>2. PICK l \in {"next", "counting", "company"} : pc' = [pc EXCEPT ![t] = l]
      BY <1>2 DEF Begin, Goto
    <2>. SUFFICES ASSUME NEW u \in Txns, NEW q \in Quants
                  PROVE  Holding(u, q)'
      BY DEF HolderInv
    <2>3. Holding(u, q)
      BY DEF HolderInv
    <2>4. CASE u = t
      BY <2>1, <2>2, <2>3, <2>4 DEF Holding, TypeOK, Ended, Serving, Begin
    <2>5. CASE u # t
      BY <2>1, <2>2, <2>3, <2>5, Bystander DEF TypeOK
    <2>. QED
      BY <2>4, <2>5
  <1>. QED
    BY <1>1, <1>2

LEMMA LockCompanyHolder ==
  ASSUME TypeOK, HolderInv, NEW t \in Txns, LockCompany(t)
  PROVE  HolderInv'
  <1>1. /\ UNCHANGED <<lock, loaded, stale, copy, net, onHand>> /\ pc[t] = "company"
        /\ pc' = [pc EXCEPT ![t] = "next"]
    BY DEF LockCompany, Goto, db, session
  <1>. SUFFICES ASSUME NEW u \in Txns, NEW q \in Quants
                PROVE  Holding(u, q)'
    BY DEF HolderInv
  <1>2. Holding(u, q)
    BY DEF HolderInv
  <1>3. CASE u = t
    BY <1>1, <1>2, <1>3 DEF Holding, TypeOK, Ended, Serving
  <1>4. CASE u # t
    BY <1>1, <1>2, <1>4, Bystander DEF TypeOK
  <1>. QED
    BY <1>3, <1>4

LEMMA NextLineHolder ==
  ASSUME TypeOK, HolderInv, NEW t \in Txns, NEW p \in Quants, NEW n,
         NextLine(t, p, n)
  PROVE  HolderInv'
  <1>1. UNCHANGED <<lock, loaded, stale, copy, net, onHand>> /\ pc[t] = "next"
    BY DEF NextLine, db, locks
  <1>2. PICK l \in {"peek", "lock"} : pc' = [pc EXCEPT ![t] = l]
    BY DEF NextLine, Goto
  <1>. SUFFICES ASSUME NEW u \in Txns, NEW q \in Quants
                PROVE  Holding(u, q)'
    BY DEF HolderInv
  <1>3. Holding(u, q)
    BY DEF HolderInv
  <1>4. CASE u = t
    BY <1>1, <1>2, <1>3, <1>4 DEF Holding, TypeOK, Ended, Serving
  <1>5. CASE u # t
    BY <1>1, <1>2, <1>3, <1>5, Bystander DEF TypeOK
  <1>. QED
    BY <1>4, <1>5

LEMMA PeekHolder ==
  ASSUME TypeOK, HolderInv, NEW t \in Txns, Peek(t)
  PROVE  HolderInv'
  <1>. DEFINE p == leg[t].quant
  <1>0. p \in Quants
    BY DEF TypeOK
  <1>. HIDE DEF p
  <1>1. /\ UNCHANGED <<lock, net, onHand>> /\ pc[t] = "peek"
        /\ \/ UNCHANGED <<loaded, copy, stale>>
           \/ /\ p \notin loaded[t]
              /\ loaded' = [loaded EXCEPT ![t] = loaded[t] \cup {p}]
              /\ copy' = [copy EXCEPT ![t] = [copy[t] EXCEPT ![p] = onHand[p]]]
              /\ stale' = [stale EXCEPT ![t] = stale[t] \cup {p}]
    BY PeekEffect DEF p, db, locks
  <1>2. PICK l \in {"next", "lock"} : pc' = [pc EXCEPT ![t] = l]
    BY PeekEffect
  <1>. SUFFICES ASSUME NEW u \in Txns, NEW q \in Quants
                PROVE  Holding(u, q)'
    BY DEF HolderInv
  <1>3. Holding(u, q) /\ Holding(t, p)
    BY <1>0 DEF HolderInv
  <1>4. CASE u = t /\ UNCHANGED <<loaded, copy, stale>>
    BY <1>1, <1>2, <1>3, <1>4 DEF Holding, TypeOK, Ended, Serving
  <1>5. CASE u = t /\ ~UNCHANGED <<loaded, copy, stale>>
    <2>1. /\ loaded'[t] = loaded[t] \cup {p}
          /\ stale'[t] = stale[t] \cup {p}
          /\ q # p => copy'[t][q] = copy[t][q]
          /\ p \notin loaded[t]
      BY <1>0, <1>1, <1>5 DEF TypeOK
    <2>2. pc'[t] = l /\ lock' = lock /\ net' = net /\ onHand' = onHand
      BY <1>1, <1>2 DEF TypeOK
    <2>3. CASE q = p
      BY <1>1, <1>3, <1>5, <2>1, <2>2, <2>3 DEF Holding, Ended, Serving
    <2>4. CASE q # p
      BY <1>1, <1>3, <1>5, <2>1, <2>2, <2>4 DEF Holding, Ended, Serving
    <2>. QED
      BY <2>3, <2>4
  <1>6. CASE u # t
    <2>1. /\ loaded'[u] = loaded[u] /\ stale'[u] = stale[u]
          /\ copy'[u] = copy[u] /\ pc'[u] = pc[u]
      BY <1>1, <1>2, <1>6 DEF TypeOK
    <2>. QED
      BY <1>1, <1>3, <2>1, Bystander
  <1>. QED
    BY <1>4, <1>5, <1>6

\* What a move does when it is not refused.
LEMMA MoveEffect ==
  ASSUME NEW t \in Txns, Move(t), ~Abort(t), NEW p, p = leg[t].quant
  PROVE  /\ pc[t] = "lock" /\ Free(t, p) /\ ~Short(t)
         /\ lock' = [lock EXCEPT ![p] = t]
         /\ loaded' = [loaded EXCEPT ![t] = loaded[t] \cup {p}]
         /\ copy' = [copy EXCEPT ![t] = [copy[t] EXCEPT ![p] = Balance(t, p) + leg[t].qty]]
         /\ net' = [net EXCEPT ![t] = [net[t] EXCEPT ![p] = net[t][p] + leg[t].qty]]
         /\ drawn' = [drawn EXCEPT ![t] = [drawn[t] EXCEPT ![p] = drawn[t][p] + Layered(t)]]
         /\ pc' = [pc EXCEPT ![t] = "next"]
         /\ UNCHANGED <<db, company, kind, doc, leg, stale>>
  BY DEF Move, Goto

LEMMA MoveHolder ==
  ASSUME TypeOK, HolderInv, NEW t \in Txns, Move(t), ~Abort(t)
  PROVE  HolderInv'
  <1>. DEFINE p == leg[t].quant
              n == leg[t].qty
  <1>0. p \in Quants /\ n \in Int
    BY DEF TypeOK
  <1>1. /\ pc[t] = "lock" /\ Free(t, p)
        /\ lock' = [lock EXCEPT ![p] = t]
        /\ loaded' = [loaded EXCEPT ![t] = loaded[t] \cup {p}]
        /\ copy' = [copy EXCEPT ![t] = [copy[t] EXCEPT ![p] = Balance(t, p) + n]]
        /\ net' = [net EXCEPT ![t] = [net[t] EXCEPT ![p] = net[t][p] + n]]
        /\ pc' = [pc EXCEPT ![t] = "next"]
        /\ UNCHANGED <<onHand, stale>>
    BY MoveEffect DEF db
  <1>. HIDE DEF p, n
  <1>. SUFFICES ASSUME NEW u \in Txns, NEW q \in Quants
                PROVE  Holding(u, q)'
    BY DEF HolderInv
  <1>2. Holding(u, q) /\ Holding(t, p)
    BY <1>0 DEF HolderInv
  <1>3. CASE u = t /\ q = p
    <2>1. /\ lock'[p] = t /\ p \in loaded'[t] /\ pc'[t] = "next"
          /\ copy'[t][p] = Balance(t, p) + n /\ net'[t][p] = net[t][p] + n
          /\ stale'[t] = stale[t] /\ onHand'[p] = onHand[p]
      BY <1>0, <1>1 DEF TypeOK
    <2>2. p \notin stale[t] => Balance(t, p) = onHand[p] + net[t][p]
      BY <1>0, <1>1, <1>2 DEF Holding, Balance, Ended, Serving, TypeOK
    <2>3. onHand[p] \in Int /\ net[t][p] \in Int
      BY <1>0 DEF TypeOK
    <2>. QED
      BY <1>0, <1>3, <2>1, <2>2, <2>3 DEF Holding, Serving, Ended
  <1>4. CASE u = t /\ q # p
    <2>1. /\ lock'[q] = lock[q] /\ (q \in loaded'[t] <=> q \in loaded[t])
          /\ pc'[t] = "next" /\ copy'[t][q] = copy[t][q] /\ net'[t][q] = net[t][q]
          /\ stale'[t] = stale[t] /\ onHand'[q] = onHand[q]
      BY <1>0, <1>1, <1>4 DEF TypeOK
    <2>. QED
      BY <1>1, <1>2, <1>4, <2>1 DEF Holding, Serving, Ended
  <1>5. CASE u # t
    <2>1. /\ pc'[u] = pc[u] /\ loaded'[u] = loaded[u] /\ stale'[u] = stale[u]
          /\ copy'[u] = copy[u] /\ net'[u] = net[u] /\ onHand'[q] = onHand[q]
      BY <1>1, <1>5 DEF TypeOK
    <2>2. lock'[q] = u <=> lock[q] = u
      BY <1>0, <1>1, <1>5, StockAssumption DEF TypeOK, Free
    <2>. QED
      BY <1>2, <2>1, <2>2, Bystander
  <1>. QED
    BY <1>3, <1>4, <1>5

LEMMA CountHolder ==
  ASSUME TypeOK, HolderInv, NEW t \in Txns, NEW p \in Quants, ReadSystemQty(t, p)
  PROVE  HolderInv'
  <1>1. /\ UNCHANGED <<lock, pc, stale, net, onHand>> /\ pc[t] = "counting"
        /\ loaded' = [loaded EXCEPT ![t] = @ \cup {p}]
        /\ copy' = [copy EXCEPT ![t][p] = onHand[p]]
    BY DEF ReadSystemQty, db, locks
  <1>. SUFFICES ASSUME NEW u \in Txns, NEW q \in Quants
                PROVE  Holding(u, q)'
    BY DEF HolderInv
  <1>2. Holding(u, q)
    BY DEF HolderInv
  <1>3. CASE u = t
    BY <1>1, <1>2, <1>3 DEF Holding, TypeOK, Serving, Ended
  <1>4. CASE u # t
    BY <1>1, <1>2, <1>4, Bystander DEF TypeOK
  <1>. QED
    BY <1>3, <1>4

LEMMA NextHolder ==
  ASSUME TypeOK, HolderInv, [Next]_vars
  PROVE  HolderInv'
  <1>1. CASE UNCHANGED vars
    BY <1>1 DEF vars, HolderInv, Holding
  <1>2. ASSUME NEW t \in Txns, Begin(t) \/ Step(t) \/ Fail(t)
        PROVE  HolderInv'
    <2>1. CASE Begin(t)
      BY <2>1, BeginHolder
    <2>2. CASE Abort(t)
      BY <2>2, EndHolder DEF Abort, db
    <2>3. ASSUME NEW q \in Quants, NEW n \in Lines(t), NextLine(t, q, n)
          PROVE  HolderInv'
      BY <2>3, NextLineHolder
    <2>9. CASE LockCompany(t)
      BY <2>9, LockCompanyHolder
    <2>4. CASE Peek(t)
      BY <2>4, PeekHolder
    <2>5. CASE Move(t)
      BY <2>2, <2>5, MoveHolder
    <2>6. CASE Commit(t)
      <3>1. \A q \in Quants : lock[q] # t => onHand'[q] = onHand[q]
        BY <2>6 DEF Commit
      <3>. QED
        BY <2>6, <3>1, EndHolder DEF Commit
    <2>7. CASE CommitCount(t)
      BY <2>7, EndHolder DEF CommitCount
    <2>8. ASSUME NEW q \in Quants, ReadSystemQty(t, q)
          PROVE  HolderInv'
      BY <2>8, CountHolder
    <2>. QED
      BY <1>2, <2>1, <2>2, <2>3, <2>4, <2>5, <2>6, <2>7, <2>8, <2>9
         DEF Step, Fail, DeadlockVictim
  <1>. QED
    BY <1>1, <1>2 DEF Next

LEMMA InitBase == Init => TypeOK /\ HolderInv
  <1>. SUFFICES ASSUME Init PROVE TypeOK /\ HolderInv
    OBVIOUS
  <1>1. (CHOOSE q \in Quants : TRUE) \in Quants
    BY StockAssumption
  <1>2. leg \in [Txns -> [quant : Quants, qty : Int]]
    BY <1>1 DEF Init
  <1>3. onHand \in [Quants -> Int] /\ exists \subseteq Quants
    <2>1. onHand \in [Quants -> Opening] /\ Opening \subseteq Int
      BY StockAssumption DEF Init
    <2>2. exists \in {S \in SUBSET Quants : \A q \in Quants \ S : onHand[q] = 0}
      BY DEF Init
    <2>. QED
      BY <2>1, <2>2
  <1>4. moved \in [Sources -> [Quants -> Int]]
    BY <1>3 DEF Init, None
  <1>5. diff \in [CycleCounts -> [Quants -> Int]]
    <2>1. PICK f \in [Quants -> {c - o : c \in Counts, o \in Opening}] :
            diff = [d \in CycleCounts |-> IF d = Earlier THEN f ELSE None]
      BY DEF Init
    <2>2. {c - o : c \in Counts, o \in Opening} \subseteq Int
      <3>1. \A c \in Counts, o \in Opening : c \in Int /\ o \in Int
        BY StockAssumption
      <3>. QED
        BY <3>1
    <2>3. f \in [Quants -> Int]
      BY <2>2
    <2>. QED
      BY <2>1, <2>3 DEF None
  <1>a. layers \in [Quants -> Int] /\ method \in {"average", "fifo"}
    BY <1>3, StockAssumption DEF Init, None
  <1>6. TypeOK
    BY <1>2, <1>3, <1>4, <1>5, <1>a, StockAssumption
       DEF Init, TypeOK, PCs, Ended, None, CycleCounts
  <1>7. HolderInv
    BY StockAssumption DEF Init, HolderInv, Holding, None, Ended, Serving
  <1>. QED
    BY <1>6, <1>7

\* Every reachable state is well typed.
THEOREM TypeCorrect == Spec => []TypeOK
  <1>. QED
    BY InitBase, NextType, PTL DEF Spec

\* In every reachable state, what a request holds locked is the committed
\* balance plus its own moves, unless it had looked before it locked.
THEOREM LockedCopiesFresh == Spec => []HolderInv
  <1>1. TypeOK /\ HolderInv /\ [Next]_vars => (TypeOK /\ HolderInv)'
    BY NextType, NextHolder
  <1>. QED
    BY <1>1, InitBase, PTL DEF Spec
-----------------------------------------------------------------------------
(***************************************************************************)
(* BalanceFollowsMoves.                                                    *)
(***************************************************************************)
LEMMA CommitBalance ==
  ASSUME TypeOK, HolderInv, NEW t \in Txns, Commit(t), NEW q \in Quants
  PROVE  /\ Cardex(q)' = Cardex(q) + net[t][q]
         /\ q \notin stale[t] => onHand'[q] = onHand[q] + net[t][q]
  <1>1. \A s \in Sources :
          moved'[s][q] = IF s = Source(t) THEN moved[s][q] + net[t][q]
                                          ELSE moved[s][q]
    BY CommitMoves
  <1>2. net[t][q] \in Int /\ onHand[q] \in Int
        /\ \A s \in Sources : moved[s][q] \in Int
    BY DEF TypeOK
  <1>3. Cardex(q)' = Cardex(q) + net[t][q]
    BY <1>1, <1>2, SourceType DEF Cardex, Sources
  <1>4. q \notin stale[t] => onHand'[q] = onHand[q] + net[t][q]
    <2>1. Holding(t, q) /\ pc[t] = "next"
      BY DEF HolderInv, Commit
    <2>2. onHand'[q] = IF lock[q] = t THEN copy[t][q] ELSE onHand[q]
      BY DEF Commit
    <2>. QED
      BY <1>2, <2>1, <2>2 DEF Holding, Ended
  <1>. QED
    BY <1>3, <1>4

\* Every way but a commit leaves t uncommitted, or the balances unchanged.
LEMMA OnlyCommits ==
  ASSUME TypeOK, [Next]_vars, NEW t \in Txns,
         pc[t] # "committed", pc'[t] = "committed"
  PROVE  Commit(t) \/ UNCHANGED <<onHand, moved>>
  <1>1. CASE UNCHANGED vars
    BY <1>1 DEF vars
  <1>2. ASSUME NEW u \in Txns, Begin(u) \/ Step(u) \/ Fail(u),
               ~UNCHANGED <<onHand, moved>>
        PROVE  Commit(t)
    <2>1. Commit(u)
      BY <1>2 DEF Begin, Step, Fail, DeadlockVictim, Abort, LockCompany, NextLine, Peek, Move,
                  ReadSystemQty, CommitCount, db
    <2>2. pc' = [pc EXCEPT ![u] = "committed"]
      BY <2>1 DEF Commit, End, Goto
    <2>3. u = t
      BY <2>2 DEF TypeOK
    <2>. QED
      BY <2>1, <2>3
  <1>. QED
    BY <1>1, <1>2 DEF Next

\* No update of a balance is lost on the path that locks first: what a commit
\* adds to a balance is what it adds to the cardex.
THEOREM NoLostUpdate == Spec => BalanceFollowsMoves
  <1>. DEFINE Follows == \A t \in Txns : pc[t] # "committed" /\ pc'[t] = "committed" =>
                \A q \in Quants \ stale[t] :
                  onHand'[q] - onHand[q] = Cardex(q)' - Cardex(q)
  <1>1. TypeOK /\ HolderInv /\ [Next]_vars => [Follows]_vars
    <2>. SUFFICES ASSUME TypeOK, HolderInv, [Next]_vars,
                         NEW t \in Txns, pc[t] # "committed", pc'[t] = "committed",
                         NEW q \in Quants \ stale[t]
                  PROVE  onHand'[q] - onHand[q] = Cardex(q)' - Cardex(q)
      OBVIOUS
    <2>1. /\ onHand[q] \in Int /\ net[t][q] \in Int
          /\ \A s \in Sources : moved[s][q] \in Int
      BY DEF TypeOK
    <2>2. Cardex(q) \in Int
      BY <2>1 DEF Cardex, Sources
    <2>3. CASE Commit(t)
      BY <2>1, <2>2, <2>3, CommitBalance
    <2>4. CASE UNCHANGED <<onHand, moved>>
      BY <2>1, <2>2, <2>4 DEF Cardex
    <2>. QED
      BY <2>3, <2>4, OnlyCommits
  <1>. QED
    BY <1>1, TypeCorrect, LockedCopiesFresh, PTL DEF Spec, BalanceFollowsMoves
-----------------------------------------------------------------------------
(***************************************************************************)
(* OnHandIsMoves, when no request looks at a quant before it locks it.     *)
(***************************************************************************)
LEMMA NextPeek ==
  ASSUME TypeOK, PeekInv, [Next]_vars
  PROVE  PeekInv'
  <1>1. CASE UNCHANGED vars
    BY <1>1 DEF vars, PeekInv
  <1>2. ASSUME NEW t \in Txns, Begin(t) \/ Step(t) \/ Fail(t)
        PROVE  PeekInv'
    <2>1. CASE Begin(t) \/ LockCompany(t) \/ Abort(t) \/ Commit(t) \/ CommitCount(t)
      <3>1. UNCHANGED <<kind, stale>>
        BY <2>1 DEF Begin, LockCompany, Abort, Commit, CommitCount, session
      <3>2. PICK l \in PCs \ {"peek"} :
              /\ pc' = [pc EXCEPT ![t] = l]
              /\ l = "company" => kind[t] \in {"issue", "restock"}
              /\ l = "counting" => kind[t] = "count"
        BY <2>1 DEF Begin, LockCompany, Abort, Commit, CommitCount, End, Goto, PCs, Ended
      <3>. QED
        BY <3>1, <3>2 DEF PeekInv, TypeOK
    <2>2. ASSUME NEW q \in Quants, NEW n \in Lines(t), NextLine(t, q, n)
          PROVE  PeekInv'
      <3>1. UNCHANGED <<kind, stale>>
        BY <2>2 DEF NextLine
      <3>2. \/ pc' = [pc EXCEPT ![t] = "peek"] /\ Peeks(t, n)
            \/ pc' = [pc EXCEPT ![t] = "lock"]
        BY <2>2 DEF NextLine, Goto
      <3>3. CASE pc' = [pc EXCEPT ![t] = "peek"] /\ Peeks(t, n)
        <4>1. kind[t] \in {"restock", "approve"}
          BY <3>3 DEF Peeks
        <4>. QED
          BY <3>1, <3>3, <4>1 DEF PeekInv, TypeOK
      <3>4. CASE pc' = [pc EXCEPT ![t] = "lock"]
        BY <3>1, <3>4 DEF PeekInv, TypeOK
      <3>. QED
        BY <3>2, <3>3, <3>4
    <2>3. CASE Peek(t)
      <3>. DEFINE p == leg[t].quant
      <3>1. /\ pc[t] = "peek" /\ UNCHANGED kind
            /\ stale' = stale \/ stale' = [stale EXCEPT ![t] = stale[t] \cup {p}]
        BY <2>3, PeekEffect
      <3>2. PICK l \in {"next", "lock"} : pc' = [pc EXCEPT ![t] = l]
        BY <2>3, PeekEffect
      <3>. QED
        BY <3>1, <3>2 DEF PeekInv, TypeOK
    <2>4. CASE Move(t) /\ ~Abort(t)
      <3>1. UNCHANGED <<kind, stale>> /\ pc' = [pc EXCEPT ![t] = "next"]
        BY <2>4, MoveEffect
      <3>. QED
        BY <3>1 DEF PeekInv, TypeOK
    <2>5. ASSUME NEW q \in Quants, ReadSystemQty(t, q)
          PROVE  PeekInv'
      BY <2>5 DEF ReadSystemQty, PeekInv
    <2>. QED
      BY <1>2, <2>1, <2>2, <2>3, <2>4, <2>5 DEF Step, Fail, DeadlockVictim
  <1>. QED
    BY <1>1, <1>2 DEF Next

LEMMA NextBalance ==
  ASSUME Kinds \cap {"restock", "approve"} = {},
         TypeOK, HolderInv, PeekInv, OnHandIsMoves, [Next]_vars
  PROVE  OnHandIsMoves'
  <1>. SUFFICES ASSUME NEW q \in Quants
                PROVE  onHand'[q] = Cardex(q)'
    BY DEF OnHandIsMoves
  <1>0. onHand[q] = Cardex(q)
    BY DEF OnHandIsMoves
  <1>1. CASE UNCHANGED <<onHand, moved>>
    BY <1>0, <1>1 DEF Cardex
  <1>2. CASE ~UNCHANGED <<onHand, moved>>
    <2>1. PICK t \in Txns : Begin(t) \/ Step(t) \/ Fail(t)
      BY <1>2 DEF Next, vars
    <2>2. Commit(t)
      BY <1>2, <2>1 DEF Begin, Step, Fail, DeadlockVictim, Abort, LockCompany, NextLine,
                        Peek, Move, ReadSystemQty, CommitCount, db
    <2>3. stale[t] = {}
      BY DEF PeekInv
    <2>. QED
      BY <1>0, <2>2, <2>3, CommitBalance
  <1>. QED
    BY <1>1, <1>2

\* In a company that neither takes returns at current cost nor approves cycle
\* counts, every balance is at all times what its moves add up to.
THEOREM BalancesAreMoves ==
  ASSUME Kinds \cap {"restock", "approve"} = {}
  PROVE  Spec => []OnHandIsMoves
  <1>. DEFINE I == TypeOK /\ HolderInv /\ PeekInv /\ OnHandIsMoves
  <1>1. Init => I
    <2>. SUFFICES ASSUME Init PROVE I
      OBVIOUS
    <2>1. TypeOK /\ HolderInv
      BY InitBase
    <2>2. PeekInv
      BY DEF Init, PeekInv
    <2>3. OnHandIsMoves
      <3>. SUFFICES ASSUME NEW q \in Quants PROVE onHand[q] = Cardex(q)
        BY DEF OnHandIsMoves
      <3>1. /\ moved["goods_receipt_line"][q] = onHand[q]
            /\ moved["sales_invoice"][q] = 0 /\ moved["vendor_bill"][q] = 0
            /\ moved["stock_transfer"][q] = 0 /\ moved["cycle_count_line"][q] = 0
        BY DEF Init, None, Sources
      <3>2. onHand[q] \in Int
        BY <2>1 DEF TypeOK
      <3>. QED
        BY <3>1, <3>2 DEF Cardex
    <2>. QED
      BY <2>1, <2>2, <2>3
  <1>2. I /\ [Next]_vars => I'
    BY NextType, NextHolder, NextPeek, NextBalance
  <1>3. I => OnHandIsMoves
    OBVIOUS
  <1>. QED
    BY <1>1, <1>2, <1>3, PTL DEF Spec
-----------------------------------------------------------------------------
(***************************************************************************)
(* NegativeOnlyByReturn.                                                   *)
(***************************************************************************)
\* What the layers and the balances show in every state.
LEMMA OwedIsReturned ==
  ASSUME TypeOK, NEW q \in Quants, Owed(q)
  PROVE  (IF method = "fifo" THEN Cardex(q) ELSE onHand[q]) >= moved["vendor_bill"][q]
  <1>1. /\ layers[q] \in Int /\ onHand[q] \in Int
        /\ \A s \in Sources : moved[s][q] \in Int
    BY DEF TypeOK
  <1>2. Cardex(q) \in Int /\ moved["vendor_bill"][q] \in Int
    BY <1>1 DEF Cardex, Sources
  <1>. QED
    BY <1>1, <1>2 DEF Owed

\* A request whose session a step leaves alone, and a step that only lets the
\* debts to returns grow, and changes no layers the request has locked.
LEMMA DebtOfOther ==
  ASSUME TypeOK, TypeOK', NEW u \in Txns, NEW q \in Quants,
         Indebted(u, q), Drawing(u, q),
         UNCHANGED <<method, kind>>, pc'[u] = pc[u],
         q \in loaded'[u] <=> q \in loaded[u],
         copy'[u][q] = copy[u][q], net'[u][q] = net[u][q],
         drawn'[u][q] = drawn[u][q],
         lock'[q] = u <=> lock[q] = u,
         lock[q] = u => layers'[q] = layers[q],
         moved'["vendor_bill"][q] <= moved["vendor_bill"][q]
  PROVE  Indebted(u, q)' /\ Drawing(u, q)'
  <1>1. /\ moved["vendor_bill"][q] \in Int /\ moved'["vendor_bill"][q] \in Int
        /\ copy[u][q] \in Int /\ net[u][q] \in Int /\ drawn[u][q] \in Int
    BY DEF TypeOK, Sources
  <1>2. Drawing(u, q)'
    BY DEF Drawing
  <1>3. Indebted(u, q)'
    BY <1>1 DEF Indebted, Given
  <1>. QED
    BY <1>2, <1>3

\* A step that leaves the database alone keeps DebtInv if it keeps the part
\* about every request.
LEMMA DebtOfSession ==
  ASSUME DebtInv, UNCHANGED <<method, onHand, layers, moved>>,
         \A t \in Txns : Returning(t)',
         \A t \in Txns, q \in Quants : Indebted(t, q)' /\ Drawing(t, q)'
  PROVE  DebtInv'
  <1>1. \A q \in Quants : Owed(q)' <=> Owed(q)
    BY DEF Owed, Cardex
  <1>. QED
    BY <1>1 DEF DebtInv

\* A request that only changes its place in the handler, other than by going
\* to lock a quant.
LEMMA DebtOfPlace ==
  ASSUME TypeOK, HolderInv, DebtInv, NEW t \in Txns, NEW l \in PCs \ {"lock"},
         pc' = [pc EXCEPT ![t] = l],
         pc[t] = "idle" \/ pc[t] \notin Ended \/ l \in Ended,
         UNCHANGED <<method, onHand, layers, moved, kind, leg, loaded, copy, net, drawn>>,
         \A u \in Txns, q \in Quants : lock'[q] = u => lock[q] = u
  PROVE  DebtInv'
  <1>1. ASSUME NEW u \in Txns PROVE Returning(u)'
    BY <1>1 DEF DebtInv, Returning, TypeOK
  <1>2. ASSUME NEW u \in Txns, NEW q \in Quants PROVE Indebted(u, q)' /\ Drawing(u, q)'
    <2>1. Indebted(u, q) /\ Drawing(u, q) /\ Holding(u, q)
      BY DEF DebtInv, HolderInv
    <2>2. CASE pc[u] = "idle"
      <3>1. q \notin loaded[u] /\ lock[q] # u
        BY <2>1, <2>2 DEF Holding, Serving
      <3>. QED
        BY <2>1, <3>1 DEF Indebted, Drawing
    <2>3. CASE pc[u] \notin Ended
      BY <2>1, <2>3 DEF Indebted, Drawing, Given
    <2>4. CASE pc[u] \in Ended /\ pc[u] # "idle"
      <3>1. pc'[u] \in Ended /\ lock[q] # u
        BY <2>1, <2>4 DEF Holding, Serving, Ended, TypeOK
      <3>. QED
        BY <2>1, <3>1 DEF Indebted, Drawing
    <2>. QED
      BY <2>2, <2>3, <2>4
  <1>. QED
    BY <1>1, <1>2, DebtOfSession

LEMMA NextLineDebt ==
  ASSUME TypeOK, DebtInv, NEW t \in Txns, NEW q \in Quants, NEW n \in Int,
         NextLine(t, q, n)
  PROVE  DebtInv'
  <1>1. /\ leg' = [leg EXCEPT ![t] = [quant |-> q, qty |-> n]]
        /\ UNCHANGED <<method, onHand, layers, moved, lock, kind, loaded, copy, net, drawn>>
        /\ \A u \in Txns \ {t} : pc'[u] = pc[u]
        /\ pc[t] = "next"
    BY DEF NextLine, Goto, db, locks, TypeOK
  <1>2. kind[t] = "vendor_return" => n < 0
    BY DEF NextLine, Admitted, Trades
  <1>3. ASSUME NEW u \in Txns PROVE Returning(u)'
    <2>1. CASE u = t
      BY <1>1, <1>2, <2>1 DEF DebtInv, Returning, TypeOK
    <2>2. CASE u # t
      BY <1>1, <2>2 DEF DebtInv, Returning, TypeOK
    <2>. QED
      BY <2>1, <2>2
  <1>4. ASSUME NEW u \in Txns, NEW p \in Quants PROVE Indebted(u, p)' /\ Drawing(u, p)'
    <2>1. pc'[u] \notin Ended => pc[u] \notin Ended
      BY <1>1 DEF Ended
    <2>. QED
      BY <1>1, <2>1 DEF DebtInv, Indebted, Drawing, Given
  <1>. QED
    BY <1>1, <1>3, <1>4, DebtOfSession

\* What a plain SELECT loads is a committed balance.
LEMMA LoadDebt ==
  ASSUME TypeOK, DebtInv, NEW t \in Txns, NEW q \in Quants,
         kind[t] # "vendor_return", pc[t] \notin Ended,
         loaded' = [loaded EXCEPT ![t] = loaded[t] \cup {q}],
         copy' = [copy EXCEPT ![t] = [copy[t] EXCEPT ![q] = onHand[q]]],
         UNCHANGED <<method, layers, moved, lock, kind, net, drawn>>,
         NEW u \in Txns, NEW p \in Quants, u # t => pc'[u] = pc[u]
  PROVE  Indebted(u, p)' /\ Drawing(u, p)'
  <1>0. /\ Indebted(u, p) /\ Drawing(u, p)
        /\ method # "fifo" => onHand[p] >= moved["vendor_bill"][p]
        /\ pc'[u] \notin Ended => pc[u] \notin Ended
    BY DEF DebtInv, Owed
  <1>1. Drawing(u, p)'
    BY <1>0 DEF Drawing
  <1>2. CASE u = t /\ p = q
    <2>1. copy'[u][p] = onHand[p] /\ moved["vendor_bill"][p] \in Int
      BY <1>2 DEF TypeOK, Sources
    <2>. QED
      BY <1>0, <1>1, <1>2, <2>1 DEF Indebted, Given
  <1>3. CASE ~(u = t /\ p = q)
    <2>1. copy'[u][p] = copy[u][p] /\ (p \in loaded'[u] <=> p \in loaded[u])
      BY <1>3 DEF TypeOK
    <2>. QED
      BY <1>0, <1>1, <2>1 DEF Indebted, Given
  <1>. QED
    BY <1>2, <1>3

LEMMA PeekDebt ==
  ASSUME TypeOK, PeekInv, DebtInv, NEW t \in Txns, Peek(t)
  PROVE  DebtInv'
  <1>. DEFINE p == leg[t].quant
  <1>0. p \in Quants
    BY DEF TypeOK
  <1>1. /\ kind[t] # "vendor_return" /\ pc[t] \notin Ended
        /\ UNCHANGED <<method, onHand, layers, moved, lock, kind, leg, net, drawn>>
        /\ \A u \in Txns \ {t} : pc'[u] = pc[u]
    <2>1. /\ pc[t] = "peek"
          /\ UNCHANGED <<method, onHand, layers, moved, lock, kind, leg, net, drawn>>
      BY DEF Peek, db, locks
    <2>2. kind[t] \in {"restock", "approve"}
      BY <2>1 DEF PeekInv
    <2>3. PICK l : pc' = [pc EXCEPT ![t] = l]
      BY DEF Peek, Goto
    <2>. QED
      BY <2>1, <2>2, <2>3 DEF TypeOK, Ended
  <1>2. ASSUME NEW u \in Txns PROVE Returning(u)'
    <2>1. CASE u = t
      BY <1>1, <2>1 DEF Returning
    <2>2. CASE u # t
      BY <1>1, <2>2 DEF DebtInv, Returning
    <2>. QED
      BY <2>1, <2>2
  <1>3. ASSUME NEW u \in Txns, NEW q \in Quants PROVE Indebted(u, q)' /\ Drawing(u, q)'
    <2>1. CASE UNCHANGED <<loaded, copy, stale>>
      BY <1>1, <2>1 DEF DebtInv, Indebted, Drawing, Given
    <2>2. CASE /\ loaded' = [loaded EXCEPT ![t] = loaded[t] \cup {p}]
               /\ copy' = [copy EXCEPT ![t] = [copy[t] EXCEPT ![p] = onHand[p]]]
      BY <1>0, <1>1, <2>2, LoadDebt
    <2>. QED
      BY <2>1, <2>2, PeekEffect
  <1>. QED
    BY <1>1, <1>2, <1>3, DebtOfSession

\* A move of a quant that is free or its own, at average cost.
LEMMA MoveIndebted ==
  ASSUME TypeOK, DebtInv, NEW t \in Txns, NEW p \in Quants, p = leg[t].quant,
         pc[t] = "lock", ~Short(t), method = "average"
  PROVE  Balance(t, p) + leg[t].qty
           >= moved["vendor_bill"][p] + (IF kind[t] = "vendor_return"
                                           THEN net[t][p] + leg[t].qty ELSE 0)
  <1>1. /\ moved["vendor_bill"][p] \in Int /\ net[t][p] \in Int /\ leg[t].qty \in Int
        /\ onHand[p] \in Int /\ copy[t][p] \in Int
    BY DEF TypeOK, Sources
  <1>2. /\ moved["vendor_bill"][p] <= 0 /\ onHand[p] >= moved["vendor_bill"][p]
        /\ Indebted(t, p)
        /\ kind[t] = "vendor_return" => net[t][p] <= 0
    BY DEF DebtInv, Owed, Returning
  <1>3. Balance(t, p) \in Int /\ Balance(t, p) >= moved["vendor_bill"][p] + Given(t, p)
    BY <1>1, <1>2 DEF Indebted, Given, Balance, Ended
  <1>4. CASE kind[t] = "vendor_return"
    BY <1>1, <1>3, <1>4 DEF Given
  <1>5. CASE kind[t] # "vendor_return"
    <2>1. leg[t].qty >= 0 \/ leg[t].qty + Balance(t, p) >= 0
      BY <1>1, <1>3, <1>5 DEF Short, Covered, Available
    <2>. QED
      BY <1>1, <1>2, <1>3, <1>5, <2>1 DEF Given
  <1>. QED
    BY <1>4, <1>5

\* The same where layers are kept.
LEMMA MoveDrawing ==
  ASSUME TypeOK, HolderInv, DebtInv, NEW t \in Txns, NEW p \in Quants,
         p = leg[t].quant, pc[t] = "lock", ~Short(t), method = "fifo"
  PROVE  /\ kind[t] # "vendor_return" =>
              drawn[t][p] + Layered(t) = net[t][p] + leg[t].qty
         /\ kind[t] = "vendor_return" =>
              /\ net[t][p] + leg[t].qty <= drawn[t][p] + Layered(t)
              /\ drawn[t][p] + Layered(t) <= 0
         /\ layers[p] + (drawn[t][p] + Layered(t)) >= 0
  <1>1. /\ layers[p] \in Int /\ net[t][p] \in Int /\ leg[t].qty \in Int
        /\ drawn[t][p] \in Int
    BY DEF TypeOK
  <1>2. /\ layers[p] >= 0 /\ Drawing(t, p) /\ Holding(t, p)
        /\ kind[t] = "vendor_return" => leg[t].qty < 0
    BY DEF DebtInv, HolderInv, Owed, Returning
  <1>3. layers[p] + drawn[t][p] >= 0
    <2>1. CASE lock[p] = t
      BY <1>2, <2>1 DEF Drawing, Ended
    <2>2. CASE lock[p] # t
      <3>1. net[t][p] = 0
        BY <1>2, <2>2 DEF Holding, Ended
      <3>2. drawn[t][p] = 0
        BY <1>1, <1>2, <3>1 DEF Drawing
      <3>. QED
        BY <1>1, <1>2, <3>2
    <2>. QED
      BY <2>1, <2>2
  <1>4. /\ Covered(t) <=> leg[t].qty + (layers[p] + drawn[t][p]) >= 0
        /\ Layered(t) = IF Covered(t) \/ leg[t].qty > 0 THEN leg[t].qty ELSE 0
        /\ Covered(t) \/ kind[t] = "vendor_return" \/ leg[t].qty >= 0
    BY <1>1 DEF Covered, Available, Layered, Short
  <1>5. CASE Covered(t) \/ leg[t].qty > 0
    <2>1. Layered(t) = leg[t].qty /\ layers[p] + (drawn[t][p] + leg[t].qty) >= 0
      BY <1>1, <1>3, <1>4, <1>5
    <2>. QED
      BY <1>1, <1>2, <2>1 DEF Drawing
  <1>6. CASE ~(Covered(t) \/ leg[t].qty > 0)
    <2>1. /\ Layered(t) = 0 /\ leg[t].qty <= 0
          /\ kind[t] # "vendor_return" => leg[t].qty = 0
      BY <1>1, <1>4, <1>6
    <2>2. drawn[t][p] + Layered(t) = drawn[t][p] /\ net[t][p] + leg[t].qty <= net[t][p]
      BY <1>1, <2>1
    <2>3. kind[t] # "vendor_return" => net[t][p] + leg[t].qty = net[t][p]
      BY <1>1, <2>1
    <2>4. CASE kind[t] = "vendor_return"
      <3>1. net[t][p] <= drawn[t][p] /\ drawn[t][p] <= 0
        BY <1>2, <2>4 DEF Drawing
      <3>. QED
        BY <1>1, <1>3, <2>1, <2>2, <2>4, <3>1
    <2>5. CASE kind[t] # "vendor_return"
      <3>1. net[t][p] = drawn[t][p]
        BY <1>2, <2>5 DEF Drawing
      <3>. QED
        BY <1>1, <1>3, <2>2, <2>3, <2>5, <3>1
    <2>. QED
      BY <2>4, <2>5
  <1>. QED
    BY <1>5, <1>6

LEMMA MoveDebt ==
  ASSUME TypeOK, TypeOK', HolderInv, DebtInv, NEW t \in Txns, Move(t), ~Abort(t)
  PROVE  DebtInv'
  <1>. DEFINE p == leg[t].quant
              n == leg[t].qty
  <1>0. /\ p \in Quants /\ n \in Int /\ Balance(t, p) \in Int /\ net[t][p] \in Int
        /\ moved["vendor_bill"][p] \in Int
    BY DEF TypeOK, Balance, Sources
  <1>1. /\ pc[t] = "lock" /\ ~Short(t) /\ Free(t, p)
        /\ lock' = [lock EXCEPT ![p] = t]
        /\ loaded' = [loaded EXCEPT ![t] = loaded[t] \cup {p}]
        /\ copy' = [copy EXCEPT ![t] = [copy[t] EXCEPT ![p] = Balance(t, p) + n]]
        /\ net' = [net EXCEPT ![t] = [net[t] EXCEPT ![p] = net[t][p] + n]]
        /\ drawn' = [drawn EXCEPT ![t] = [drawn[t] EXCEPT ![p] = drawn[t][p] + Layered(t)]]
        /\ pc' = [pc EXCEPT ![t] = "next"]
        /\ UNCHANGED <<method, onHand, layers, moved, kind, leg>>
    BY MoveEffect DEF db
  <1>2. kind[t] = "vendor_return" => n < 0 /\ net[t][p] <= 0
    BY <1>0, <1>1 DEF DebtInv, Returning
  <1>3. ASSUME NEW u \in Txns PROVE Returning(u)'
    <2>1. CASE u = t
      <3>1. \A q \in Quants : net'[t][q] = IF q = p THEN net[t][q] + n ELSE net[t][q]
        BY <1>0, <1>1 DEF TypeOK
      <3>2. \A q \in Quants : net[t][q] \in Int
        BY DEF TypeOK
      <3>3. kind[t] = "vendor_return" => \A q \in Quants : net'[t][q] <= 0
        BY <1>0, <1>2, <3>1, <3>2 DEF DebtInv, Returning
      <3>4. pc'[t] = "next"
        BY <1>1 DEF TypeOK
      <3>. QED
        BY <1>1, <2>1, <3>3, <3>4 DEF Returning
    <2>2. CASE u # t
      <3>1. pc'[u] = pc[u] /\ net'[u] = net[u]
        BY <1>1, <2>2 DEF TypeOK
      <3>. QED
        BY <1>1, <3>1 DEF DebtInv, Returning
    <2>. QED
      BY <2>1, <2>2
  <1>4. ASSUME NEW u \in Txns, NEW q \in Quants PROVE Indebted(u, q)' /\ Drawing(u, q)'
    <2>0. Indebted(u, q) /\ Drawing(u, q)
      BY DEF DebtInv
    <2>1. CASE u = t /\ q = p
      <3>1. /\ copy'[t][q] = Balance(t, q) + n /\ net'[t][q] = net[t][q] + n
            /\ drawn'[t][q] = drawn[t][q] + Layered(t)
            /\ UNCHANGED <<method, kind, layers, moved>>
        BY <1>0, <1>1, <2>1 DEF TypeOK
      <3>2. Indebted(t, q)'
        <4>1. method = "average" =>
                Balance(t, q) + n >= moved["vendor_bill"][q]
                  + (IF kind[t] = "vendor_return" THEN net[t][q] + n ELSE 0)
          BY <1>0, <1>1, <2>1, MoveIndebted
        <4>. HIDE DEF n
        <4>. QED
          BY <3>1, <4>1 DEF Indebted, Given
      <3>3. Drawing(t, q)'
        <4>1. method = "fifo" =>
                /\ kind[t] # "vendor_return" => drawn[t][q] + Layered(t) = net[t][q] + n
                /\ kind[t] = "vendor_return" => /\ net[t][q] + n <= drawn[t][q] + Layered(t)
                                                /\ drawn[t][q] + Layered(t) <= 0
                /\ layers[q] + (drawn[t][q] + Layered(t)) >= 0
          BY <1>0, <1>1, <2>1, MoveDrawing
        <4>. HIDE DEF n
        <4>. QED
          BY <3>1, <4>1 DEF Drawing
      <3>. QED
        BY <2>1, <3>2, <3>3
    <2>2. CASE u = t /\ q # p
      <3>1. /\ copy'[u][q] = copy[u][q] /\ net'[u][q] = net[u][q]
            /\ drawn'[u][q] = drawn[u][q] /\ lock'[q] = lock[q]
            /\ q \in loaded'[u] <=> q \in loaded[u]
        BY <1>0, <1>1, <2>2 DEF TypeOK
      <3>. QED
        BY <1>1, <2>0, <2>2, <3>1 DEF Indebted, Drawing, Given, Ended
    <2>3. CASE u # t
      <3>1. /\ pc'[u] = pc[u] /\ copy'[u] = copy[u] /\ net'[u] = net[u]
            /\ drawn'[u] = drawn[u] /\ loaded'[u] = loaded[u]
        BY <1>1, <2>3 DEF TypeOK
      <3>2. lock'[q] = u <=> lock[q] = u
        BY <1>0, <1>1, <2>3, StockAssumption DEF TypeOK, Free
      <3>. QED
        BY <1>1, <2>0, <3>1, <3>2 DEF Indebted, Drawing, Given
    <2>. QED
      BY <2>1, <2>2, <2>3
  <1>. QED
    BY <1>1, <1>3, <1>4, DebtOfSession

LEMMA CommitDebt ==
  ASSUME TypeOK, TypeOK', HolderInv, DebtInv, NEW t \in Txns, Commit(t)
  PROVE  DebtInv'
  <1>1. /\ onHand' = [q \in Quants |-> IF lock[q] = t THEN copy[t][q] ELSE onHand[q]]
        /\ layers' = [q \in Quants |-> layers[q] + drawn[t][q]]
        /\ lock' = [q \in Quants |-> IF lock[q] = t THEN NoTxn ELSE lock[q]]
        /\ pc[t] = "next" /\ pc' = [pc EXCEPT ![t] = "committed"]
        /\ UNCHANGED <<method, kind, leg, loaded, copy, net, drawn>>
    BY DEF Commit, End, Goto, session
  <1>2. \A q \in Quants :
          moved'["vendor_bill"][q] = IF kind[t] = "vendor_return"
                                       THEN moved["vendor_bill"][q] + net[t][q]
                                       ELSE moved["vendor_bill"][q]
    BY CommitMoves, SourceType DEF Sources
  <1>3. \A q \in Quants : /\ moved["vendor_bill"][q] \in Int /\ net[t][q] \in Int
                          /\ moved["vendor_bill"][q] <= 0
                          /\ kind[t] = "vendor_return" => net[t][q] <= 0
    BY DEF DebtInv, Returning, TypeOK, Sources
  <1>4. \A q \in Quants : /\ moved'["vendor_bill"][q] <= moved["vendor_bill"][q]
                          /\ moved'["vendor_bill"][q] <= 0
    BY <1>2, <1>3
  <1>5. ASSUME NEW q \in Quants, lock[q] # t
        PROVE  net[t][q] = 0 /\ (method = "fifo" => drawn[t][q] = 0)
    <2>1. Holding(t, q) /\ Drawing(t, q) /\ drawn[t][q] \in Int
      BY DEF HolderInv, DebtInv, TypeOK
    <2>2. net[t][q] = 0
      BY <1>1, <1>5, <2>1 DEF Holding, Ended
    <2>. QED
      BY <2>1, <2>2 DEF Drawing
  <1>6. ASSUME NEW q \in Quants PROVE Owed(q)'
    <2>0. /\ Owed(q) /\ Indebted(t, q) /\ Drawing(t, q) /\ Holding(t, q)
          /\ layers[q] \in Int /\ drawn[t][q] \in Int /\ Cardex(q) \in Int
          /\ onHand[q] \in Int /\ copy[t][q] \in Int
      BY DEF HolderInv, DebtInv, TypeOK, Cardex, Sources
    <2>1. Cardex(q)' = Cardex(q) + net[t][q]
      BY CommitBalance
    <2>2. CASE method = "fifo"
      <3>1. layers'[q] = layers[q] + drawn[t][q] /\ method' = "fifo"
        BY <1>1, <2>2
      <3>2. layers[q] + drawn[t][q] >= 0
        <4>1. CASE lock[q] = t
          BY <1>1, <2>0, <2>2, <4>1 DEF Drawing, Ended
        <4>2. CASE lock[q] # t
          BY <1>5, <2>0, <2>2, <4>2 DEF Owed
        <4>. QED
          BY <4>1, <4>2
      <3>3. /\ layers[q] >= Cardex(q) /\ layers[q] <= Cardex(q) - moved["vendor_bill"][q]
        BY <2>0, <2>2 DEF Owed
      <3>4. /\ layers[q] + drawn[t][q] >= Cardex(q) + net[t][q]
            /\ layers[q] + drawn[t][q] <= Cardex(q) + net[t][q] - moved'["vendor_bill"][q]
        <4>1. CASE kind[t] = "vendor_return"
          <5>1. /\ moved'["vendor_bill"][q] = moved["vendor_bill"][q] + net[t][q]
                /\ net[t][q] <= drawn[t][q] /\ drawn[t][q] <= 0
            BY <1>2, <2>0, <2>2, <4>1 DEF Drawing
          <5>. QED
            BY <1>3, <2>0, <3>3, <5>1
        <4>2. CASE kind[t] # "vendor_return"
          <5>1. /\ moved'["vendor_bill"][q] = moved["vendor_bill"][q]
                /\ drawn[t][q] = net[t][q]
            BY <1>2, <2>0, <2>2, <4>2 DEF Drawing
          <5>. QED
            BY <1>3, <2>0, <3>3, <5>1
        <4>. QED
          BY <4>1, <4>2
      <3>5. /\ layers'[q] >= 0
            /\ layers'[q] >= Cardex(q)'
            /\ layers'[q] <= Cardex(q)' - moved'["vendor_bill"][q]
        <4>1. moved'["vendor_bill"][q] \in Int
          BY DEF TypeOK, Sources
        <4>. QED
          BY <1>3, <2>0, <2>1, <3>1, <3>2, <3>4, <4>1
      <3>. QED
        BY <3>1, <3>5 DEF Owed
    <2>3. CASE method = "average"
      <3>1. CASE lock[q] = t
        <4>1. onHand'[q] = copy[t][q] /\ q \in loaded[t]
          BY <1>1, <2>0, <3>1 DEF Holding
        <4>2. copy[t][q] >= moved["vendor_bill"][q] + Given(t, q)
          BY <1>1, <2>0, <2>3, <4>1 DEF Indebted, Ended
        <4>3. copy[t][q] >= moved'["vendor_bill"][q]
          BY <1>2, <1>3, <2>0, <4>2 DEF Given
        <4>. QED
          BY <1>1, <2>3, <4>1, <4>3 DEF Owed
      <3>2. CASE lock[q] # t
        <4>1. onHand'[q] = onHand[q] /\ onHand[q] >= moved["vendor_bill"][q]
          BY <1>1, <2>0, <2>3, <3>2 DEF Owed
        <4>2. onHand[q] >= moved'["vendor_bill"][q]
          BY <1>2, <1>3, <2>0, <4>1
        <4>. QED
          BY <1>1, <2>3, <4>1, <4>2 DEF Owed
      <3>. QED
        BY <3>1, <3>2
    <2>. QED
      BY <2>2, <2>3 DEF TypeOK
  <1>7. ASSUME NEW u \in Txns PROVE Returning(u)'
    BY <1>1 DEF DebtInv, Returning, TypeOK
  <1>8. ASSUME NEW u \in Txns, NEW q \in Quants PROVE Indebted(u, q)' /\ Drawing(u, q)'
    <2>0. Indebted(u, q) /\ Drawing(u, q)
      BY DEF DebtInv
    <2>1. CASE u = t
      <3>1. pc'[u] \in Ended
        BY <1>1, <2>1 DEF TypeOK, Ended
      <3>. QED
        BY <1>1, <2>0, <3>1 DEF Indebted, Drawing
    <2>2. CASE u # t
      <3>1. pc'[u] = pc[u] /\ (lock'[q] = u <=> lock[q] = u)
        BY <1>1, <2>2, StockAssumption DEF TypeOK
      <3>2. CASE method = "fifo"
        <4>1. lock[q] = u => layers'[q] = layers[q]
          <5>1. lock[q] = u => drawn[t][q] = 0 /\ layers'[q] = layers[q] + drawn[t][q]
            BY <1>1, <1>5, <2>2, <3>2
          <5>. QED
            BY <5>1 DEF TypeOK
        <4>. QED
          BY <1>1, <1>4, <2>0, <3>1, <4>1, DebtOfOther
      <3>3. CASE method = "average"
        <4>1. Drawing(u, q)'
          BY <1>1, <3>3 DEF Drawing
        <4>2. /\ moved["vendor_bill"][q] \in Int /\ moved'["vendor_bill"][q] \in Int
              /\ copy[u][q] \in Int /\ net[u][q] \in Int
          BY DEF TypeOK, Sources
        <4>3. Given(u, q) \in Int /\ Given(u, q)' = Given(u, q)
          BY <1>1, <4>2 DEF Given
        <4>4. Indebted(u, q)'
          BY <1>1, <1>4, <2>0, <3>1, <4>2, <4>3 DEF Indebted
        <4>. QED
          BY <4>1, <4>4
      <3>. QED
        BY <3>2, <3>3 DEF TypeOK
    <2>. QED
      BY <2>1, <2>2
  <1>. QED
    BY <1>4, <1>6, <1>7, <1>8 DEF DebtInv

LEMMA NextDebt ==
  ASSUME TypeOK, HolderInv, PeekInv, DebtInv, [Next]_vars
  PROVE  DebtInv'
  <1>0. TypeOK'
    BY NextType
  <1>1. CASE UNCHANGED vars
    BY <1>1 DEF vars, DebtInv, Owed, Cardex, Returning, Indebted, Drawing, Given
  <1>2. ASSUME NEW t \in Txns, Begin(t) \/ Step(t) \/ Fail(t)
        PROVE  DebtInv'
    <2>1. CASE Begin(t) \/ LockCompany(t) \/ Abort(t) \/ CommitCount(t)
      <3>1. PICK l \in PCs \ {"lock"} :
              /\ pc' = [pc EXCEPT ![t] = l]
              /\ pc[t] = "idle" \/ pc[t] \notin Ended \/ l \in Ended
        BY <2>1 DEF Begin, LockCompany, Abort, CommitCount, End, Goto, PCs, Ended
      <3>2. UNCHANGED <<method, onHand, layers, moved, kind, leg, loaded, copy, net, drawn>>
        BY <2>1 DEF Begin, LockCompany, Abort, CommitCount, db, session
      <3>3. \A u \in Txns, q \in Quants : lock'[q] = u => lock[q] = u
        BY <2>1, StockAssumption DEF Begin, LockCompany, Abort, CommitCount, End, locks, TypeOK
      <3>. QED
        BY <3>1, <3>2, <3>3, DebtOfPlace
    <2>2. ASSUME NEW q \in Quants, NEW n \in Lines(t), NextLine(t, q, n)
          PROVE  DebtInv'
      BY <2>2, NextLineDebt, LinesInt
    <2>3. ASSUME NEW q \in Quants, ReadSystemQty(t, q)
          PROVE  DebtInv'
      <3>1. /\ loaded' = [loaded EXCEPT ![t] = loaded[t] \cup {q}]
            /\ copy' = [copy EXCEPT ![t] = [copy[t] EXCEPT ![q] = onHand[q]]]
            /\ UNCHANGED <<method, onHand, layers, moved, lock, pc, kind, leg, net, drawn>>
            /\ pc[t] = "counting"
        BY <2>3 DEF ReadSystemQty, db, locks
      <3>2. ASSUME NEW u \in Txns PROVE Returning(u)'
        BY <3>1 DEF DebtInv, Returning
      <3>3. kind[t] # "vendor_return"
        BY <3>1 DEF PeekInv
      <3>4. ASSUME NEW u \in Txns, NEW p \in Quants PROVE Indebted(u, p)' /\ Drawing(u, p)'
        BY <3>1, <3>3, LoadDebt DEF Ended
      <3>. QED
        BY <3>1, <3>2, <3>4, DebtOfSession
    <2>. QED
      BY <1>0, <1>2, <2>1, <2>2, <2>3, PeekDebt, MoveDebt, CommitDebt
         DEF Step, Fail, DeadlockVictim
  <1>. QED
    BY <1>1, <1>2 DEF Next

\* The strengthened invariant holds in every reachable state.
THEOREM InvariantHolds == Spec => []IInv
  <1>1. Init => IInv
    <2>. SUFFICES ASSUME Init PROVE IInv
      OBVIOUS
    <2>1. TypeOK /\ HolderInv
      BY InitBase
    <2>2. PeekInv
      BY DEF Init, PeekInv
    <2>3. \A q \in Quants : /\ onHand[q] \in Nat
                            /\ moved["goods_receipt_line"][q] = onHand[q]
                            /\ moved["sales_invoice"][q] = 0
                            /\ moved["vendor_bill"][q] = 0
                            /\ moved["stock_transfer"][q] = 0
                            /\ moved["cycle_count_line"][q] = 0
                            /\ method = "fifo" => layers[q] = onHand[q]
      <3>1. onHand \in [Quants -> Opening] /\ Opening \subseteq Nat
        BY StockAssumption DEF Init
      <3>2. \A q \in Quants : onHand[q] \in Nat
        BY <3>1
      <3>. QED
        BY <3>2 DEF Init, None, Sources
    <2>4. \A t \in Txns : /\ pc[t] = "idle" /\ loaded[t] = {}
                          /\ net[t] = None /\ drawn[t] = None
      BY DEF Init
    <2>5. ASSUME NEW q \in Quants PROVE Owed(q)
      <3>1. Cardex(q) = onHand[q]
        BY <2>3 DEF Cardex
      <3>. QED
        BY <2>3, <3>1 DEF Owed
    <2>6. ASSUME NEW t \in Txns PROVE Returning(t)
      <3>1. pc[t] = "idle" /\ \A q \in Quants : net[t][q] = 0
        BY <2>4 DEF None
      <3>. QED
        BY <3>1 DEF Returning
    <2>7. ASSUME NEW t \in Txns, NEW q \in Quants PROVE Indebted(t, q) /\ Drawing(t, q)
      <3>1. pc[t] \in Ended /\ net[t][q] = 0 /\ drawn[t][q] = 0
        BY <2>4 DEF None, Ended
      <3>. QED
        BY <3>1 DEF Indebted, Drawing
    <2>. QED
      BY <2>1, <2>2, <2>3, <2>5, <2>6, <2>7 DEF IInv, DebtInv
  <1>2. IInv /\ [Next]_vars => IInv'
    BY NextType, NextHolder, NextPeek, NextDebt DEF IInv
  <1>. QED
    BY <1>1, <1>2, PTL DEF Spec

\* Whatever runs side by side, only returns to vendors take away what is not
\* there, from the balance or, where layers are kept, from the layers.
THEOREM OverdrawnOnlyByReturn == Spec => []NegativeOnlyByReturn
  <1>1. IInv => NegativeOnlyByReturn
    BY OwedIsReturned DEF IInv, DebtInv, NegativeOnlyByReturn
  <1>. QED
    BY <1>1, InvariantHolds, PTL
-----------------------------------------------------------------------------
(***************************************************************************)
(* Transfers.  What a transfer has moved so far adds up to its first leg,  *)
(* and to nothing once the second one is made.                             *)
(***************************************************************************)
Carried(t) == SumFunctionOnSet(net[t], Quants)

Moving(t) ==
  kind[t] = "transfer" =>
    /\ pc[t] = "idle" => made[t] = 0
    /\ made[t] \in {0, 2} => Carried(t) = 0
    /\ made[t] = 1 /\ pc[t] = "next" => Carried(t) = leg[t].qty
    /\ made[t] = 1 /\ pc[t] = "lock" => Carried(t) = -leg[t].qty
    /\ pc[t] = "lock" => made[t] \in {0, 1}

TransferInv ==
  /\ SumFunctionOnSet(moved["stock_transfer"], Quants) = 0
  /\ \A t \in Txns : Moving(t)

LEMMA NextLineMoving ==
  ASSUME TypeOK, TransferInv, NEW t \in Txns, NEW q \in Quants, NEW n \in Int,
         NextLine(t, q, n)
  PROVE  Moving(t)'
  <1>1. /\ pc[t] = "next" /\ Admitted(t, q, n)
        /\ UNCHANGED <<kind, made, net>>
        /\ leg'[t].qty = n
        /\ leg[t].qty \in Int
    BY DEF NextLine, TypeOK
  <1>2. pc'[t] \in {"peek", "lock"}
    BY DEF NextLine, Goto, TypeOK
  <1>3. Moving(t) /\ Carried(t)' = Carried(t)
    BY <1>1 DEF TransferInv, Carried
  <1>. QED
    BY <1>1, <1>2, <1>3 DEF Moving, Admitted, Trades

LEMMA MoveMoving ==
  ASSUME TypeOK, TransferInv, NEW t \in Txns, Move(t), ~Abort(t)
  PROVE  Moving(t)'
  <1>. DEFINE p == leg[t].quant
              n == leg[t].qty
  <1>0. p \in Quants /\ n \in Int /\ net[t] \in [Quants -> Int] /\ made[t] \in Nat
    BY DEF TypeOK
  <1>1. /\ pc[t] = "lock"
        /\ net' = [net EXCEPT ![t] = [net[t] EXCEPT ![p] = net[t][p] + n]]
        /\ made'[t] = made[t] + 1 /\ pc'[t] = "next"
        /\ UNCHANGED <<kind, leg>>
    <2>1. /\ pc[t] = "lock" /\ pc' = [pc EXCEPT ![t] = "next"]
          /\ net' = [net EXCEPT ![t] = [net[t] EXCEPT ![p] = net[t][p] + n]]
          /\ UNCHANGED <<kind, leg>>
      BY MoveEffect
    <2>2. made' = [made EXCEPT ![t] = made[t] + 1]
      BY DEF Move
    <2>. QED
      BY <2>1, <2>2 DEF TypeOK
  <1>2. net'[t] = [net[t] EXCEPT ![p] = net[t][p] + n]
    BY <1>1 DEF TypeOK
  <1>3. Carried(t)' = Carried(t) + n
    <2>. DEFINE f == net[t]
                g == net'[t]
    <2>1. IsFiniteSet(Quants)
      BY StockAssumption
    <2>2. /\ \A y \in Quants : f[y] \in Int /\ g[y] \in Int
          /\ \A y \in Quants \ {p} : g[y] = f[y]
          /\ g[p] = f[p] + n
      BY <1>0, <1>2
    <2>. HIDE DEF f, g, p, n
    <2>3. SumFunctionOnSet(g, Quants) = SumFunctionOnSet(f, Quants) + g[p] - f[p]
      BY <1>0, <2>1, <2>2, SumOfOneChange
    <2>4. SumFunctionOnSet(f, Quants) \in Int
      BY <2>1, <2>2, SumOfIntegers
    <2>5. SumFunctionOnSet(g, Quants) = SumFunctionOnSet(f, Quants) + n
      BY <1>0, <2>2, <2>3, <2>4
    <2>. QED
      BY <2>5 DEF Carried, f, g
  <1>4. Moving(t) /\ leg'[t].qty = n
    BY <1>1 DEF TransferInv
  <1>5. kind[t] = "transfer" /\ made[t] = 0 => Carried(t)' = n
    BY <1>0, <1>3, <1>4 DEF Moving
  <1>6. kind[t] = "transfer" /\ made[t] = 1 => Carried(t)' = 0
    BY <1>0, <1>1, <1>3, <1>4 DEF Moving
  <1>7. kind[t] = "transfer" => made[t] \in {0, 1}
    BY <1>1, <1>4 DEF Moving
  <1>. QED
    BY <1>0, <1>1, <1>4, <1>5, <1>6, <1>7 DEF Moving

LEMMA CommitTransfers ==
  ASSUME TypeOK, TransferInv, NEW t \in Txns, Commit(t)
  PROVE  SumFunctionOnSet(moved'["stock_transfer"], Quants) = 0
  <1>. DEFINE f == moved["stock_transfer"]
              g == net[t]
              h == moved'["stock_transfer"]
  <1>1. IsFiniteSet(Quants) /\ "stock_transfer" \in Sources
    BY StockAssumption DEF Sources
  <1>2. \A q \in Quants : f[q] \in Int /\ g[q] \in Int
    BY <1>1 DEF TypeOK
  <1>3. SumFunctionOnSet(f, Quants) = 0
    BY DEF TransferInv
  <1>4. CASE kind[t] = "transfer"
    <2>1. Source(t) = "stock_transfer"
      BY <1>4 DEF Source
    <2>2. \A q \in Quants : h[q] = f[q] + g[q]
      BY <1>1, <2>1, CommitMoves
    <2>3. SumFunctionOnSet(g, Quants) = 0
      BY <1>4 DEF TransferInv, Moving, Carried, Commit, Complete, Trades
    <2>. HIDE DEF f, g, h
    <2>4. SumFunctionOnSet(h, Quants) = SumFunctionOnSet(f, Quants) + SumFunctionOnSet(g, Quants)
      BY <1>1, <1>2, <2>2, SumOfSums
    <2>5. SumFunctionOnSet(h, Quants) = 0
      BY <1>3, <2>3, <2>4
    <2>. QED
      BY <2>5 DEF h
  <1>5. CASE kind[t] # "transfer"
    <2>1. Source(t) # "stock_transfer"
      BY <1>5 DEF Source
    <2>2. \A q \in Quants : h[q] = f[q]
      BY <1>1, <2>1, CommitMoves
    <2>. HIDE DEF f, g, h
    <2>3. SumFunctionOnSet(h, Quants) = 0
      BY <1>1, <1>3, <2>2, SumOfSame
    <2>. QED
      BY <2>3 DEF h
  <1>. QED
    BY <1>4, <1>5

\* A step that leaves the moves of a request alone, and does not take it to
\* its next line.
LEMMA OtherMoving ==
  ASSUME TransferInv, NEW u \in Txns,
         UNCHANGED <<kind, net[u], made[u], leg[u]>>,
         \/ pc'[u] = pc[u]
         \/ pc'[u] \notin {"idle", "next", "lock"}
         \/ pc[u] = "idle" /\ pc'[u] # "lock"
  PROVE  Moving(u)'
  <1>1. Moving(u) /\ Carried(u)' = Carried(u)
    BY DEF TransferInv, Carried
  <1>. QED
    BY <1>1 DEF Moving

LEMMA NextTransfers ==
  ASSUME TypeOK, PeekInv, TransferInv, [Next]_vars
  PROVE  TransferInv'
  <1>1. CASE UNCHANGED vars
    BY <1>1 DEF vars, TransferInv, Moving, Carried
  <1>2. ASSUME NEW t \in Txns, Begin(t) \/ Step(t) \/ Fail(t)
        PROVE  TransferInv'
    <2>1. CASE Commit(t)
      <3>1. UNCHANGED session /\ pc' = [pc EXCEPT ![t] = "committed"]
        BY <2>1 DEF Commit, End, Goto
      <3>2. ASSUME NEW u \in Txns PROVE Moving(u)'
        <4>1. pc'[u] = pc[u] \/ pc'[u] = "committed"
          BY <3>1 DEF TypeOK
        <4>. QED
          BY <3>1, <4>1, OtherMoving DEF session
      <3>. QED
        BY <2>1, <3>2, CommitTransfers DEF TransferInv
    <2>7. CASE LockCompany(t)
      <3>1. /\ UNCHANGED <<moved, kind, leg, made, net>>
            /\ \A u \in Txns \ {t} : pc'[u] = pc[u]
        BY <2>7 DEF LockCompany, Goto, db, session, TypeOK
      <3>2. Moving(t)'
        BY <2>7, <3>1 DEF LockCompany, PeekInv, Moving
      <3>. QED
        BY <3>1, <3>2, OtherMoving DEF TransferInv
    <2>2. CASE Begin(t) \/ Abort(t) \/ CommitCount(t)
      <3>1. UNCHANGED <<moved, kind, leg, made, net>>
        BY <2>2 DEF Begin, Abort, CommitCount, db, session
      <3>2. PICK l \in {"next", "counting", "company", "committed", "aborted"} :
              pc' = [pc EXCEPT ![t] = l] /\ (pc[t] = "idle" \/ l \in Ended)
        BY <2>2 DEF Begin, Abort, CommitCount, End, Goto, Ended
      <3>3. ASSUME NEW u \in Txns PROVE Moving(u)'
        <4>1. \/ pc'[u] = pc[u]
              \/ pc'[u] \notin {"idle", "next", "lock"}
              \/ pc[u] = "idle" /\ pc'[u] # "lock"
          BY <3>2 DEF TypeOK, Ended
        <4>. QED
          BY <3>1, <4>1, OtherMoving
      <3>. QED
        BY <3>1, <3>3 DEF TransferInv
    <2>3. ASSUME NEW q \in Quants, NEW n \in Lines(t), NextLine(t, q, n)
          PROVE  TransferInv'
      <3>1. Moving(t)'
        BY <2>3, NextLineMoving, LinesInt
      <3>2. UNCHANGED <<moved, kind, made, net>>
        BY <2>3 DEF NextLine, db
      <3>3. \A u \in Txns \ {t} : leg'[u] = leg[u] /\ pc'[u] = pc[u]
        BY <2>3 DEF NextLine, Goto, TypeOK
      <3>. QED
        BY <3>1, <3>2, <3>3, OtherMoving DEF TransferInv
    <2>4. ASSUME NEW q \in Quants, ReadSystemQty(t, q)
          PROVE  TransferInv'
      <3>1. UNCHANGED <<moved, kind, leg, made, net, pc>>
        BY <2>4 DEF ReadSystemQty, db
      <3>. QED
        BY <3>1, OtherMoving DEF TransferInv
    <2>5. CASE Peek(t)
      <3>1. kind[t] # "transfer"
        BY <2>5 DEF Peek, PeekInv
      <3>2. /\ UNCHANGED <<moved, kind, leg, net>>
            /\ \A u \in Txns \ {t} : made'[u] = made[u] /\ pc'[u] = pc[u]
        <4>1. UNCHANGED <<moved, kind, leg, net>>
          BY <2>5, PeekEffect DEF db
        <4>2. PICK k, l : /\ made' = made \/ made' = [made EXCEPT ![t] = k]
                          /\ pc' = [pc EXCEPT ![t] = l]
          BY <2>5 DEF Peek, Goto, TypeOK
        <4>. QED
          BY <4>1, <4>2 DEF TypeOK
      <3>3. Moving(t)'
        BY <3>1, <3>2 DEF Moving
      <3>. QED
        BY <3>2, <3>3, OtherMoving DEF TransferInv
    <2>6. CASE Move(t) /\ ~Abort(t)
      <3>1. Moving(t)'
        BY <2>6, MoveMoving
      <3>2. UNCHANGED <<moved, kind, leg>>
        BY <2>6, MoveEffect DEF db
      <3>3. \A u \in Txns \ {t} :
              made'[u] = made[u] /\ pc'[u] = pc[u] /\ net'[u] = net[u]
        BY <2>6 DEF Move, Goto, TypeOK
      <3>. QED
        BY <3>1, <3>2, <3>3, OtherMoving DEF TransferInv
    <2>. QED
      BY <1>2, <2>1, <2>2, <2>3, <2>4, <2>5, <2>6, <2>7
         DEF Step, Fail, DeadlockVictim
  <1>. QED
    BY <1>1, <1>2 DEF Next

LEMMA InitTransfers == Init => TransferInv
  <1>. SUFFICES ASSUME Init PROVE TransferInv
    OBVIOUS
  <1>1. moved["stock_transfer"] = None
    BY DEF Init, Sources
  <1>2. SumFunctionOnSet(None, Quants) = 0
    <2>1. IsFiniteSet(Quants) /\ \A q \in Quants : None[q] = 0
      BY StockAssumption DEF None
    <2>. QED
      BY <2>1, SumOfZeros
  <1>3. ASSUME NEW t \in Txns PROVE Moving(t)
    <2>1. net[t] = None /\ pc[t] = "idle" /\ made[t] = 0
      BY DEF Init
    <2>. QED
      BY <1>2, <2>1 DEF Moving, Carried
  <1>. QED
    BY <1>1, <1>2, <1>3 DEF TransferInv

\* However transfers interleave with each other and with every other request,
\* fail or are rolled back, what is recorded as transferred adds up to
\* nothing over all the locations: no transfer is recorded by halves.
THEOREM TransfersAreWhole == Spec => []TransfersConserve
  <1>1. IInv /\ TransferInv /\ [Next]_vars => TransferInv'
    BY NextTransfers DEF IInv
  <1>2. TypeOK /\ TransferInv => TransfersConserve
    BY DEF TypeOK, Sources, TransferInv, TransfersConserve, SumFunction, SumFunctionOnSet
  <1>. QED
    BY <1>1, <1>2, InitTransfers, InvariantHolds, TypeCorrect, PTL DEF Spec
=============================================================================
