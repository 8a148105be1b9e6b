--------------------------- MODULE PaymentsProofs ----------------------------
(***************************************************************************)
(* Proofs about Payments, for any requests, documents, totals and amounts. *)
(***************************************************************************)
EXTENDS Payments, TLAPS

(***************************************************************************)
(* The inductive invariant.                                                *)
(***************************************************************************)
Paying   == {"next", "lock", "check", "number", "insert", "post"}
Numbered == {"insert", "post"}

\* An edit never reaches the steps of record_payment.
PathInv == \A t \in Txns : pc[t] \in Paying => kind[t] \in Series

\* The committed numbers are dense, a counted number is at most the next one,
\* and an inserted one is not taken by anybody else.
NumberInv ==
  /\ \A s \in Series : numbers[s] = 1 .. count[s]
  /\ \A t \in Txns : pc[t] \in Numbered => number[t] \in 1 .. count[kind[t]] + 1
  /\ \A t \in Txns : pc[t] = "post" => number[t] \notin numbers[kind[t]]
  /\ \A t, u \in Txns :
       pc[t] = "post" /\ pc[u] = "post" /\ kind[t] = kind[u]
         /\ number[t] = number[u] => t = u

\* What a payment allocates it has locked, and it fits.
Fits(t, d) == /\ d \in Targets(t)
              /\ lock[d] = t
              /\ paid[d] + alloc[t][d] <= total[d]

AllocFits(t) == \A d \in Docs :
  pc[t] \in Paying /\ alloc[t][d] > 0 => Fits(t, d)

\* The allocation at hand is the payment's first to its document.
AskIsFirst(t) ==
  /\ pc[t] = "idle" => \A d \in Docs : alloc[t][d] = 0
  /\ pc[t] \in {"lock", "check"} =>
       ask[t].doc \in Targets(t) /\ alloc[t][ask[t].doc] = 0
  /\ pc[t] = "check" => lock[ask[t].doc] = t

Sound(t) == AllocFits(t) /\ AskIsFirst(t)

IInv ==
  /\ TypeOK /\ PathInv
  /\ \A t \in Txns : Sound(t)
  /\ InvoicesWithinTotal
-----------------------------------------------------------------------------
(***************************************************************************)
(* Type correctness.                                                       *)
(***************************************************************************)
LEMMA EndType ==
  ASSUME TypeOK, NEW t \in Txns, NEW o \in Ended, End(t, o)
  PROVE  lock' \in [Docs -> Txns \cup {NoTxn}] /\ pc' \in [Txns -> PCs]
  BY DEF TypeOK, End, Goto, PCs

LEMMA AbortType ==
  ASSUME TypeOK, NEW t \in Txns, Abort(t)
  PROVE  TypeOK'
  BY EndType DEF TypeOK, Abort, db, req, Ended

LEMMA TargetsAreDocs == ASSUME NEW t \in Txns PROVE Targets(t) \subseteq Docs
  BY DEF Targets, Docs

LEMMA InitType == Init => TypeOK
  <1> SUFFICES ASSUME Init PROVE TypeOK
    OBVIOUS
  <1>1. (CHOOSE d \in Docs : TRUE) \in Docs
    BY PaymentsAssumption
  <1>2. total \in [Docs -> Nat] /\ amount \in [Txns -> Nat]
    BY PaymentsAssumption DEF Init
  <1>3. ask \in [Txns -> [doc : Docs, amount : Nat]]
    BY <1>1 DEF Init
  <1>4. alloc \in [Txns -> [Docs -> Nat]] /\ paid \in [Docs -> Nat]
    BY DEF Init, None
  <1>. QED
    BY <1>2, <1>3, <1>4 DEF Init, TypeOK, PCs, Ended

LEMMA StepType ==
  ASSUME TypeOK, PathInv, NEW t \in Txns, Begin(t) \/ Step(t) \/ Fail(t)
  PROVE  TypeOK'
  <1> USE DEF TypeOK
  <1>1. CASE Begin(t)
    BY <1>1 DEF Begin, Goto, PCs, db, req
  <1>2. CASE Fail(t)
    BY <1>2, AbortType DEF Fail
  <1>3. ASSUME NEW d \in Docs, NEW n \in Amounts, NextAllocation(t, d, n)
        PROVE  TypeOK'
    <2>1. n \in Nat
      BY PaymentsAssumption
    <2>. QED
      BY <1>3, <2>1 DEF NextAllocation, Goto, PCs, db
  <1>4. CASE LockDocument(t)
    BY <1>4 DEF LockDocument, Goto, PCs, db, req
  <1>5. CASE CheckBalance(t)
    <2> DEFINE d == ask[t].doc
               n == ask[t].amount
    <2>1. CASE Abort(t)
      BY <2>1, AbortType
    <2>2. CASE ~Abort(t)
      <3>1. /\ alloc' = [alloc EXCEPT ![t][d] = @ + n]
            /\ used' = [used EXCEPT ![t] = @ + n]
            /\ Goto(t, "next")
            /\ UNCHANGED <<db, lock, kind, amount, ask, made, number>>
        BY <1>5, <2>2 DEF CheckBalance
      <3>2. d \in Docs /\ n \in Nat /\ alloc[t][d] \in Nat /\ used[t] \in Nat
        OBVIOUS
      <3>3. alloc' \in [Txns -> [Docs -> Nat]] /\ used' \in [Txns -> Nat]
        BY <3>1, <3>2
      <3>4. pc' \in [Txns -> PCs]
        BY <3>1 DEF Goto, PCs
      <3>. QED
        BY <3>1, <3>3, <3>4 DEF db
    <2>. QED
      BY <2>1, <2>2
  <1>6. CASE EndAllocations(t)
    BY <1>6, AbortType DEF EndAllocations, Goto, PCs, db, req
  <1>7. CASE TakeNumber(t)
    <2>1. kind[t] \in Series
      BY <1>7 DEF TakeNumber, PathInv, Paying
    <2>2. count[kind[t]] + 1 \in Nat
      BY <2>1
    <2>. QED
      BY <1>7, <2>2 DEF TakeNumber, Goto, PCs, db
  <1>8. CASE InsertPayment(t)
    BY <1>8, AbortType DEF InsertPayment, Goto, PCs, db, req
  <1>9. CASE Commit(t)
    <2>1. kind[t] \in Series
      BY <1>9 DEF Commit, PathInv, Paying
    <2>2. paid' \in [Docs -> Nat]
      BY <1>9 DEF Commit
    <2>3. count' \in [Series -> Nat]
      BY <1>9, <2>1 DEF Commit
    <2>4. numbers' \in [Series -> SUBSET Nat]
      BY <1>9, <2>1 DEF Commit
    <2>5. lock' \in [Docs -> Txns \cup {NoTxn}] /\ pc' \in [Txns -> PCs]
      BY <1>9, EndType DEF Commit, Ended
    <2>. QED
      BY <1>9, <2>2, <2>3, <2>4, <2>5 DEF Commit, req
  <1>10. ASSUME NEW b \in Bills, NEW n \in Totals, EditBill(t, b, n)
         PROVE  TypeOK'
    <2>1. n \in Nat
      BY PaymentsAssumption
    <2>2. lock' \in [Docs -> Txns \cup {NoTxn}] /\ pc' \in [Txns -> PCs]
      BY <1>10, EndType DEF EditBill, Ended
    <2>. QED
      BY <1>10, <2>1, <2>2 DEF EditBill, req
  <1>11. CASE DeadlockVictim(t)
    BY <1>11, AbortType DEF DeadlockVictim
  <1>. QED
    BY <1>1, <1>2, <1>3, <1>4, <1>5, <1>6, <1>7, <1>8, <1>9, <1>10, <1>11
    DEF Step

\* What a step of t does to the kinds and to the place of every request.
LEMMA StepMoves ==
  ASSUME TypeOK, NEW t \in Txns, Begin(t) \/ Step(t) \/ Fail(t)
  PROVE  /\ kind' = kind
         /\ \E p \in PCs : pc' = [pc EXCEPT ![t] = p]
  BY DEF Begin, Step, Fail, NextAllocation, LockDocument, CheckBalance,
         EndAllocations, TakeNumber, InsertPayment, Commit, EditBill,
         DeadlockVictim, Abort, End, Goto, db, req, PCs, Ended

LEMMA StepPath ==
  ASSUME TypeOK, PathInv, NEW t \in Txns, Begin(t) \/ Step(t) \/ Fail(t)
  PROVE  PathInv'
  <1> USE DEF TypeOK, PathInv
  <1>1. kind' = kind
    BY StepMoves
  <1>2. \A u \in Txns \ {t} : pc'[u] = pc[u]
    BY StepMoves
  <1>3. pc'[t] \in Paying => kind[t] \in Series
    <2>1. CASE Begin(t)
      BY <2>1 DEF Begin, Goto, Paying
    <2>2. CASE pc[t] \in Paying
      BY <2>2
    <2>3. CASE Fail(t) \/ (Step(t) /\ pc[t] \notin Paying)
      BY <2>3 DEF Fail, Step, NextAllocation, LockDocument, CheckBalance,
         EndAllocations, TakeNumber, InsertPayment, Commit, EditBill,
         DeadlockVictim, Abort, End, Goto, Paying
    <2>. QED
      BY <2>1, <2>2, <2>3
  <1>. QED
    BY <1>1, <1>2, <1>3

TypePath == TypeOK /\ PathInv

LEMMA InitPath == Init => PathInv
  BY DEF Init, PathInv, Paying

LEMMA NextTypePath == TypePath /\ [Next]_vars => TypePath'
  <1>1. CASE UNCHANGED vars
    BY <1>1 DEF TypePath, TypeOK, PathInv, vars
  <1>2. CASE Next
    BY <1>2, StepType, StepPath DEF TypePath, Next
  <1>. QED
    BY <1>1, <1>2

\* Types and the separation of edits from payments hold at all times.
THEOREM TypeAndPathHold == Spec => []TypePath
  <1>1. Init => TypePath
    BY InitType, InitPath DEF TypePath
  <1>. QED
    BY <1>1, NextTypePath, PTL DEF Spec

\* Every reachable state of the requests that record payments and edit bills
\* is well typed.
THEOREM TypeCorrect == Spec => []TypeOK
  <1>1. TypePath => TypeOK
    BY DEF TypePath
  <1>. QED
    BY <1>1, TypeAndPathHold, PTL
-----------------------------------------------------------------------------
(***************************************************************************)
(* Numbers.                                                                *)
(***************************************************************************)
\* Every step but three leaves the numbers alone, and moves nobody to where
\* a number is held.
LEMMA QuietNumbers ==
  ASSUME TypePath, NumberInv, NEW t \in Txns,
         kind' = kind, count' = count, numbers' = numbers, number' = number,
         \E p \in PCs : pc' = [pc EXCEPT ![t] = p],
         pc'[t] \in Numbered => pc'[t] = pc[t]
  PROVE  NumberInv'
  <1>1. \A u \in Txns : pc'[u] \in Numbered => pc'[u] = pc[u]
    BY DEF TypePath, TypeOK
  <1>2. \A u \in Txns : pc'[u] = "post" => pc[u] = "post"
    BY <1>1 DEF Numbered
  <1>. QED
    BY <1>1, <1>2 DEF NumberInv

LEMMA AbortNumbers ==
  ASSUME TypePath, NumberInv, NEW t \in Txns, Abort(t)
  PROVE  NumberInv'
  <1>1. pc' = [pc EXCEPT ![t] = "aborted"]
    BY DEF Abort, End, Goto
  <1>. QED
    BY <1>1, QuietNumbers DEF Abort, db, req, PCs, Ended, Numbered, TypePath, TypeOK

LEMMA TakeNumberNumbers ==
  ASSUME TypePath, NumberInv, NEW t \in Txns, TakeNumber(t)
  PROVE  NumberInv'
  <1> USE DEF TypePath, TypeOK
  <1>1. kind[t] \in Series
    BY DEF TakeNumber, PathInv, Paying
  <1>2. pc' = [pc EXCEPT ![t] = "insert"]
    BY DEF TakeNumber, Goto
  <1>3. number'[t] = count[kind[t]] + 1 /\ \A u \in Txns \ {t} : number'[u] = number[u]
    BY DEF TakeNumber
  <1>4. UNCHANGED <<kind, count, numbers>>
    BY DEF TakeNumber, db
  <1>5. number'[t] \in 1 .. count[kind[t]] + 1
    BY <1>1, <1>3
  <1>. QED
    BY <1>2, <1>3, <1>4, <1>5, ZenonT(30) DEF NumberInv, Numbered

LEMMA InsertPaymentNumbers ==
  ASSUME TypePath, NumberInv, NEW t \in Txns, InsertPayment(t)
  PROVE  NumberInv'
  <1> USE DEF TypePath, TypeOK
  <1>1. CASE Abort(t)
    BY <1>1, AbortNumbers
  <1>2. CASE ~Abort(t)
    <2>1. /\ pc[t] = "insert"
          /\ NumberHolders(t) = {}
          /\ number[t] \notin numbers[kind[t]]
          /\ pc' = [pc EXCEPT ![t] = "post"]
          /\ UNCHANGED <<kind, count, numbers, number>>
      BY <1>2 DEF InsertPayment, Goto, db, req
    <2>2. \A u \in Txns \ {t} :
            ~(pc[u] = "post" /\ kind[u] = kind[t] /\ number[u] = number[t])
      BY <2>1 DEF NumberHolders
    <2>. QED
      BY <2>1, <2>2 DEF NumberInv, Numbered
  <1>. QED
    BY <1>1, <1>2

LEMMA LastOfRange ==
  ASSUME NEW c \in Nat, NEW n \in 1 .. c + 1, n \notin 1 .. c
  PROVE  n = c + 1
  OBVIOUS

LEMMA CommitNumbers ==
  ASSUME TypePath, NumberInv, NEW t \in Txns, Commit(t)
  PROVE  NumberInv'
  <1> USE DEF TypePath, TypeOK
  <1> DEFINE s == kind[t]
  <1>1. pc[t] = "post" /\ s \in Series
    BY DEF Commit, PathInv, Paying
  <1>2. /\ pc' = [pc EXCEPT ![t] = "committed"]
        /\ count' = [count EXCEPT ![s] = @ + 1]
        /\ numbers' = [numbers EXCEPT ![s] = @ \cup {number[t]}]
        /\ UNCHANGED <<kind, number>>
    BY DEF Commit, End, Goto, req
  <1>3. number[t] = count[s] + 1
    <2>1. number[t] \in 1 .. count[s] + 1 /\ number[t] \notin 1 .. count[s]
      BY <1>1 DEF NumberInv, Numbered
    <2>2. count[s] \in Nat
      BY <1>1
    <2>. QED
      BY <2>1, <2>2, LastOfRange
  <1>4. \A r \in Series : count[r] \in Nat /\ count'[r] \in {count[r], count[r] + 1}
    BY <1>1, <1>2
  <1>5. \A r \in Series : numbers'[r] = 1 .. count'[r]
    <2>1. numbers[s] \cup {number[t]} = 1 .. count[s] + 1
      <3>1. numbers[s] = 1 .. count[s]
        BY <1>1 DEF NumberInv
      <3>2. count[s] \in Nat
        BY <1>1
      <3>. QED
        BY <1>3, <3>1, <3>2
    <2>2. \A r \in Series \ {s} : numbers'[r] = numbers[r] /\ count'[r] = count[r]
      BY <1>2
    <2>3. numbers'[s] = numbers[s] \cup {number[t]} /\ count'[s] = count[s] + 1
      BY <1>1, <1>2
    <2>. QED
      BY <2>1, <2>2, <2>3 DEF NumberInv
  <1>6. \A u \in Txns : pc'[u] \in Numbered => number'[u] \in 1 .. count'[kind'[u]] + 1
    <2> SUFFICES ASSUME NEW u \in Txns, pc'[u] \in Numbered
                 PROVE  number'[u] \in 1 .. count'[kind'[u]] + 1
      OBVIOUS
    <2>1. u # t /\ pc[u] \in Numbered
      BY <1>2 DEF Numbered
    <2>2. kind[u] \in Series
      BY <2>1 DEF PathInv, Numbered, Paying
    <2>3. number[u] \in 1 .. count[kind[u]] + 1
      BY <2>1 DEF NumberInv
    <2>. QED
      BY <1>2, <1>4, <2>2, <2>3
  <1>7. \A u \in Txns : pc'[u] = "post" => number'[u] \notin numbers'[kind'[u]]
    <2> SUFFICES ASSUME NEW u \in Txns, pc'[u] = "post"
                 PROVE  number[u] \notin numbers'[kind[u]]
      BY <1>2
    <2>1. u # t /\ pc[u] = "post"
      BY <1>2
    <2>2. number[u] \notin numbers[kind[u]]
      BY <2>1 DEF NumberInv
    <2>3. kind[u] = s => number[u] # number[t]
      BY <1>1, <2>1 DEF NumberInv
    <2>4. CASE kind[u] = s
      BY <1>1, <1>2, <2>2, <2>3, <2>4
    <2>5. CASE kind[u] # s
      BY <1>1, <1>2, <2>2, <2>5
    <2>. QED
      BY <2>4, <2>5
  <1>8. \A u, v \in Txns :
          pc'[u] = "post" /\ pc'[v] = "post" /\ kind'[u] = kind'[v]
            /\ number'[u] = number'[v] => u = v
    BY <1>2 DEF NumberInv
  <1>. QED
    BY <1>5, <1>6, <1>7, <1>8 DEF NumberInv

LEMMA StepNumbers ==
  ASSUME TypePath, NumberInv, NEW t \in Txns, Begin(t) \/ Step(t) \/ Fail(t)
  PROVE  NumberInv'
  <1>1. CASE TakeNumber(t) \/ InsertPayment(t) \/ Commit(t)
    BY <1>1, TakeNumberNumbers, InsertPaymentNumbers, CommitNumbers
  <1>2. CASE Fail(t) \/ DeadlockVictim(t)
    BY <1>2, AbortNumbers DEF Fail, DeadlockVictim
  <1>3. CASE CheckBalance(t) \/ EndAllocations(t)
    <2>1. CASE Abort(t)
      BY <2>1, AbortNumbers
    <2>2. CASE ~Abort(t)
      BY <1>3, <2>2, QuietNumbers
      DEF CheckBalance, EndAllocations, Goto, db, req, PCs, Numbered, TypePath, TypeOK
    <2>. QED
      BY <2>1, <2>2
  <1>4. CASE Begin(t)
    BY <1>4, QuietNumbers DEF Begin, Goto, db, req, PCs, Numbered, TypePath, TypeOK
  <1>5. ASSUME NEW d \in Docs, NEW n \in Amounts, NextAllocation(t, d, n)
        PROVE  NumberInv'
    BY <1>5, QuietNumbers
    DEF NextAllocation, Goto, db, req, PCs, Numbered, TypePath, TypeOK
  <1>6. CASE LockDocument(t)
    BY <1>6, QuietNumbers
    DEF LockDocument, Goto, db, req, PCs, Numbered, TypePath, TypeOK
  <1>7. ASSUME NEW b \in Bills, NEW n \in Totals, EditBill(t, b, n)
        PROVE  NumberInv'
    BY <1>7, QuietNumbers
    DEF EditBill, End, Goto, req, PCs, Ended, Numbered, TypePath, TypeOK
  <1>. QED
    BY <1>1, <1>2, <1>3, <1>4, <1>5, <1>6, <1>7 DEF Step

LEMMA InitNumbers == Init => NumberInv
  BY DEF Init, NumberInv, Numbered

LEMMA NumbersHold == Spec => []NumberInv
  <1>1. Init => NumberInv
    BY InitNumbers
  <1>2. TypePath /\ NumberInv /\ [Next]_vars => NumberInv'
    <2>1. CASE UNCHANGED vars
      BY <2>1 DEF NumberInv, vars
    <2>. QED
      BY <2>1, StepNumbers DEF Next
  <1>. QED
    BY <1>1, <1>2, TypeAndPathHold, PTL DEF Spec

\* The payments of a series are numbered 1, 2, 3, ... without a gap, whatever
\* requests share a number before they insert it.
THEOREM NumbersGapless == Spec => []NumbersWithoutGap
  <1>1. NumberInv => NumbersWithoutGap
    BY DEF NumberInv, NumbersWithoutGap
  <1>. QED
    BY <1>1, NumbersHold, PTL
-----------------------------------------------------------------------------
-----------------------------------------------------------------------------
(***************************************************************************)
(* Totals.                                                                 *)
(***************************************************************************)
Kept(t, u) ==
  /\ pc'[u] = pc[u] /\ kind'[u] = kind[u]
  /\ alloc'[u] = alloc[u] /\ ask'[u] = ask[u]
  /\ \A d \in Docs : lock[d] = u =>
       lock'[d] = u /\ paid'[d] = paid[d] /\ total'[d] = total[d]

LEMMA EndKeepsOthers ==
  ASSUME TypeOK, NEW t \in Txns, NEW u \in Txns \ {t}, NEW o \in Ended, End(t, o)
  PROVE  pc'[u] = pc[u] /\ \A d \in Docs : lock[d] = u => lock'[d] = u
  BY DEF TypeOK, End, Goto

LEMMA CommitAddsWithin ==
  ASSUME IInv, NEW t \in Txns, Commit(t), NEW d \in Docs
  PROVE  \/ alloc[t][d] = 0 /\ paid'[d] = paid[d]
         \/ /\ lock[d] = t /\ d \in Targets(t)
            /\ paid'[d] \in paid[d] .. total[d]
  <1>1. paid[d] \in Nat /\ alloc[t][d] \in Nat /\ total[d] \in Nat
    BY DEF IInv, TypeOK
  <1>2. paid'[d] = paid[d] + alloc[t][d]
    BY DEF Commit
  <1>3. alloc[t][d] > 0 => Fits(t, d)
    BY DEF IInv, Sound, AllocFits, Commit, Paying
  <1>. QED
    BY <1>1, <1>2, <1>3 DEF Fits

\* A step of one request leaves alone what another has locked.
LEMMA StepKeepsOthers ==
  ASSUME IInv, NEW t \in Txns, Begin(t) \/ Step(t) \/ Fail(t),
         NEW u \in Txns \ {t}
  PROVE  Kept(t, u)
  <1> USE DEF IInv, TypeOK
  <1>0. u # NoTxn
    BY PaymentsAssumption
  <1>1. CASE Commit(t)
    <2>1. pc'[u] = pc[u] /\ \A d \in Docs : lock[d] = u => lock'[d] = u
      BY <1>1, EndKeepsOthers DEF Commit, Ended
    <2>2. \A d \in Docs : lock[d] = u => paid'[d] = paid[d]
      BY <1>1, CommitAddsWithin
    <2>. QED
      BY <1>1, <2>1, <2>2 DEF Commit, req, Kept
  <1>2. ASSUME NEW b \in Bills, NEW n \in Totals, EditBill(t, b, n)
        PROVE  Kept(t, u)
    <2>1. pc'[u] = pc[u] /\ \A d \in Docs : lock[d] = u => lock'[d] = u
      BY <1>2, EndKeepsOthers DEF EditBill, Ended
    <2>2. lock[b] # u
      BY <1>0, <1>2 DEF EditBill, Free
    <2>3. \A d \in Docs : lock[d] = u => total'[d] = total[d]
      BY <1>2, <2>2 DEF EditBill
    <2>. QED
      BY <1>2, <2>1, <2>3 DEF EditBill, req, Kept
  <1>3. CASE Abort(t)
    BY <1>3, EndKeepsOthers DEF Abort, Ended, db, req, Kept
  <1>4. CASE LockDocument(t)
    BY <1>0, <1>4 DEF LockDocument, Free, Goto, db, req, Kept
  <1>5. ASSUME NEW d \in Docs, NEW n \in Amounts, NextAllocation(t, d, n)
        PROVE  Kept(t, u)
    BY <1>5 DEF NextAllocation, Goto, db, Kept
  <1>6. CASE ~Abort(t) /\ (\/ Begin(t) \/ CheckBalance(t) \/ EndAllocations(t)
                           \/ TakeNumber(t) \/ InsertPayment(t))
    BY <1>6 DEF Begin, CheckBalance, EndAllocations, TakeNumber, InsertPayment,
       Goto, db, req, Kept
  <1>. QED
    BY <1>1, <1>2, <1>3, <1>4, <1>5, <1>6 DEF Step, Fail, DeadlockVictim

LEMMA KeptSound ==
  ASSUME IInv, NEW t \in Txns, NEW u \in Txns, Kept(t, u)
  PROVE  Sound(u)'
  <1>1. Targets(u)' = Targets(u)
    BY DEF Kept, Targets
  <1>2. AllocFits(u)'
    BY <1>1 DEF IInv, Kept, Sound, AllocFits, Fits
  <1>3. pc[u] \in {"lock", "check"} => ask[u].doc \in Docs
    BY DEF IInv, TypeOK
  <1>4. AskIsFirst(u)'
    BY <1>1, <1>3 DEF IInv, Kept, Sound, AskIsFirst
  <1>. QED
    BY <1>2, <1>4 DEF Sound

\* A request's own step keeps what it has prepared within what it locked.
LEMMA StepSound ==
  ASSUME ~AllowRepeats, IInv, NEW t \in Txns, Begin(t) \/ Step(t) \/ Fail(t)
  PROVE  Sound(t)'
  <1> USE DEF IInv, TypeOK
  <1>1. pc'[t] \notin Paying \cup {"idle"} => Sound(t)'
    BY DEF Sound, AllocFits, AskIsFirst, Paying
  <1>2. CASE \/ Abort(t) \/ Commit(t)
             \/ \E b \in Bills, n \in Totals : EditBill(t, b, n)
    <2>1. pc'[t] \in Ended \ {"idle"}
      BY <1>2 DEF Abort, Commit, EditBill, End, Goto, Ended
    <2>. QED
      BY <1>1, <2>1 DEF Ended, Paying
  <1>3. CASE Begin(t)
    <2>1. pc'[t] \in {"edit", "next"} /\ alloc' = alloc /\ pc[t] = "idle"
      BY <1>3 DEF Begin, Goto, req
    <2>2. \A d \in Docs : alloc'[t][d] = 0
      BY <2>1 DEF Sound, AskIsFirst
    <2>. QED
      BY <2>1, <2>2 DEF Sound, AllocFits, AskIsFirst
  <1>4. ASSUME NEW d \in Docs, NEW n \in Amounts, NextAllocation(t, d, n)
        PROVE  Sound(t)'
    <2>1. /\ pc[t] = "next" /\ pc'[t] = "lock"
          /\ ask'[t].doc = d /\ d \in Targets(t) /\ alloc[t][d] = 0
          /\ UNCHANGED <<total, paid, lock, kind, alloc>>
      BY <1>4 DEF NextAllocation, Goto, db
    <2>. QED
      BY <2>1 DEF Sound, AllocFits, AskIsFirst, Fits, Targets, Paying
  <1>5. CASE LockDocument(t)
    <2> DEFINE d == ask[t].doc
    <2>1. /\ pc[t] = "lock" /\ pc'[t] = "check"
          /\ lock' = [lock EXCEPT ![d] = t]
          /\ UNCHANGED <<total, paid, kind, ask, alloc>>
      BY <1>5 DEF LockDocument, Goto, db, req
    <2>2. d \in Docs
      OBVIOUS
    <2>3. \A e \in Docs : lock[e] = t => lock'[e] = t
      BY <2>1
    <2>4. lock'[d] = t
      BY <2>1, <2>2
    <2>. QED
      BY <2>1, <2>3, <2>4 DEF Sound, AllocFits, AskIsFirst, Fits, Targets, Paying
  <1>6. CASE CheckBalance(t) /\ ~Abort(t)
    <2> DEFINE d == ask[t].doc
               n == ask[t].amount
    <2>1. /\ pc[t] = "check" /\ pc'[t] = "next"
          /\ paid[d] + n <= total[d]
          /\ alloc' = [alloc EXCEPT ![t][d] = @ + n]
          /\ UNCHANGED <<total, paid, lock, kind>>
      <3>1. d \in Docs /\ n \in Nat /\ paid[d] \in Nat /\ total[d] \in Nat
        OBVIOUS
      <3>. QED
        BY <1>6, <3>1 DEF CheckBalance, Goto, db
    <2>2. d \in Targets(t) /\ alloc[t][d] = 0 /\ lock[d] = t
      BY <2>1 DEF Sound, AskIsFirst
    <2>3. d \in Docs /\ n \in Nat
      OBVIOUS
    <2>4. alloc'[t][d] = n /\ \A e \in Docs \ {d} : alloc'[t][e] = alloc[t][e]
      BY <2>1, <2>2, <2>3
    <2>5. AllocFits(t)'
      <3> SUFFICES ASSUME NEW e \in Docs, alloc'[t][e] > 0 PROVE Fits(t, e)'
        BY DEF AllocFits
      <3>1. CASE e = d
        BY <2>1, <2>2, <2>4, <3>1 DEF Fits, Targets
      <3>2. CASE e # d
        <4>1. Fits(t, e)
          BY <2>1, <2>4, <3>2 DEF Sound, AllocFits, Paying
        <4>. QED
          BY <2>1, <2>4, <3>2, <4>1 DEF Fits, Targets
      <3>. QED
        BY <3>1, <3>2
    <2>. QED
      BY <2>1, <2>5 DEF Sound, AskIsFirst
  <1>7. CASE (EndAllocations(t) \/ TakeNumber(t) \/ InsertPayment(t)) /\ ~Abort(t)
    <2>1. /\ pc[t] \in {"next", "number", "insert"}
          /\ pc'[t] \in {"number", "insert", "post"}
          /\ UNCHANGED <<total, paid, lock, kind, alloc>>
      BY <1>7 DEF EndAllocations, TakeNumber, InsertPayment, Goto, db, req
    <2>. QED
      BY <2>1 DEF Sound, AllocFits, AskIsFirst, Fits, Targets, Paying
  <1>. QED
    BY <1>2, <1>3, <1>4, <1>5, <1>6, <1>7 DEF Step, Fail, DeadlockVictim

LEMMA StepWithin ==
  ASSUME IInv, NEW t \in Txns, Begin(t) \/ Step(t) \/ Fail(t)
  PROVE  InvoicesWithinTotal'
  <1> USE DEF IInv, TypeOK
  <1>1. CASE Commit(t)
    <2>1. total' = total
      BY <1>1 DEF Commit
    <2> SUFFICES ASSUME NEW i \in Invoices PROVE paid'[i] <= total'[i]
      BY DEF InvoicesWithinTotal
    <2>2. i \in Docs /\ paid[i] <= total[i]
      BY DEF Docs, InvoicesWithinTotal
    <2>3. paid'[i] = paid[i] \/ paid'[i] \in paid[i] .. total[i]
      BY <1>1, <2>2, CommitAddsWithin
    <2>. QED
      BY <2>1, <2>2, <2>3
  <1>2. ASSUME NEW b \in Bills, NEW n \in Totals, EditBill(t, b, n)
        PROVE  InvoicesWithinTotal'
    <2>1. total' = [total EXCEPT ![b] = n] /\ paid' = paid
      BY <1>2 DEF EditBill
    <2>2. \A i \in Invoices : i \in Docs /\ i # b
      BY PaymentsAssumption DEF Docs
    <2>. QED
      BY <2>1, <2>2 DEF InvoicesWithinTotal
  <1>3. CASE UNCHANGED <<total, paid>>
    BY <1>3 DEF InvoicesWithinTotal
  <1>4. \/ Commit(t)
        \/ \E b \in Bills, n \in Totals : EditBill(t, b, n)
        \/ UNCHANGED <<total, paid>>
    BY DEF Begin, Step, Fail, NextAllocation, LockDocument, CheckBalance,
       EndAllocations, TakeNumber, InsertPayment, DeadlockVictim, Abort, db
  <1>. QED
    BY <1>1, <1>2, <1>3, <1>4

LEMMA InitIInv == Init => IInv
  <1> SUFFICES ASSUME Init PROVE IInv
    OBVIOUS
  <1>1. \A t \in Txns : pc[t] = "idle" /\ \A d \in Docs : alloc[t][d] = 0
    BY DEF Init, None
  <1>2. \A t \in Txns : Sound(t)
    BY <1>1 DEF Sound, AllocFits, AskIsFirst, Paying
  <1>3. InvoicesWithinTotal
    <2>1. \A i \in Invoices : i \in Docs
      BY DEF Docs
    <2>2. \A d \in Docs : total[d] \in Nat /\ paid[d] = 0
      BY PaymentsAssumption DEF Init, None
    <2>. QED
      BY <2>1, <2>2 DEF InvoicesWithinTotal
  <1>. QED
    BY <1>2, <1>3, InitType, InitPath DEF IInv

LEMMA NextIInv ==
  ASSUME ~AllowRepeats, IInv, [Next]_vars
  PROVE  IInv'
  <1>1. CASE UNCHANGED vars
    BY <1>1 DEF IInv, TypeOK, PathInv, Sound, AllocFits, AskIsFirst, Fits,
       Targets, InvoicesWithinTotal, vars
  <1>2. ASSUME NEW t \in Txns, Begin(t) \/ Step(t) \/ Fail(t)
        PROVE  IInv'
    <2>1. \A u \in Txns : Sound(u)'
      BY <1>2, StepSound, StepKeepsOthers, KeptSound
    <2>2. TypeOK' /\ PathInv'
      BY <1>2, StepType, StepPath DEF IInv
    <2>. QED
      BY <1>2, <2>1, <2>2, StepWithin DEF IInv
  <1>. QED
    BY <1>1, <1>2 DEF Next

\* As long as a payment names a document once, what every request has prepared
\* is locked by it and fits, whatever other requests do meanwhile.
THEOREM InvariantHolds == ASSUME ~AllowRepeats PROVE Spec => []IInv
  <1>1. IInv /\ [Next]_vars => IInv'
    BY NextIInv
  <1>. QED
    BY <1>1, InitIInv, PTL DEF Spec

\* Payments that run at the same time never pay an invoice beyond its total,
\* as long as each names an invoice once.
THEOREM NeverOverpaid == ASSUME ~AllowRepeats PROVE Spec => []InvoicesWithinTotal
  <1>1. IInv => InvoicesWithinTotal
    BY DEF IInv
  <1>. QED
    BY <1>1, InvariantHolds, PTL
-----------------------------------------------------------------------------
(***************************************************************************)
(* Refinement.                                                             *)
(***************************************************************************)
LEMMA InitSettled == Init => Settled!Init
  BY DEF Init, Settled!Init, Docs, Settled!Docs, None, Series

LEMMA CommitSettles ==
  ASSUME IInv, NumberInv, NEW t \in Txns, Commit(t)
  PROVE  Settled!Next
  <1> USE DEF IInv, TypeOK
  <1> DEFINE s == kind[t]
             n == number[t]
  <1>1. pc[t] = "post" /\ s \in Series
    BY DEF Commit, PathInv, Paying
  <1>2. /\ numbers' = [numbers EXCEPT ![s] = @ \cup {n}]
        /\ total' = total
    BY DEF Commit
  <1>3. n \notin numbers[s] /\ (n = 1 \/ n - 1 \in numbers[s])
    <2>1. n \in 1 .. count[s] + 1 /\ n \notin 1 .. count[s]
          /\ numbers[s] = 1 .. count[s]
      BY <1>1 DEF NumberInv, Numbered
    <2>2. count[s] \in Nat
      BY <1>1
    <2>3. n = count[s] + 1
      BY <2>1, <2>2, LastOfRange
    <2>. QED
      BY <2>1, <2>2, <2>3
  <1>4. paid' \in [Docs -> Nat]
    BY DEF Commit
  <1>5. \A d \in Docs : \/ paid'[d] = paid[d]
                        \/ /\ d \in (IF s = "customer" THEN Invoices ELSE Bills)
                           /\ paid'[d] \in paid[d] .. total[d]
    BY CommitAddsWithin DEF Targets
  <1>6. Settled!Pay(s, n)
    BY <1>2, <1>3, <1>5 DEF Settled!Pay, Settled!Docs, Docs
  <1>7. n \in numbers'[s]
    BY <1>1, <1>2
  <1>. QED
    BY <1>1, <1>4, <1>6, <1>7 DEF Settled!Next, Settled!Docs, Docs, Series

LEMMA NextSettled ==
  ASSUME IInv, NumberInv, [Next]_vars
  PROVE  [Settled!Next]_(Settled!vars)
  <1>1. CASE UNCHANGED vars
    BY <1>1 DEF vars, Settled!vars
  <1>2. ASSUME NEW t \in Txns, Commit(t)
        PROVE  Settled!Next
    BY <1>2, CommitSettles
  <1>3. ASSUME NEW t \in Txns, NEW b \in Bills, NEW n \in Totals, EditBill(t, b, n)
        PROVE  Settled!Next
    BY <1>3 DEF EditBill, Settled!Edit, Settled!Next
  <1>4. ASSUME NEW t \in Txns, Begin(t) \/ Step(t) \/ Fail(t)
        PROVE  \/ Commit(t)
               \/ \E b \in Bills, n \in Totals : EditBill(t, b, n)
               \/ UNCHANGED Settled!vars
    BY <1>4 DEF Begin, Step, Fail, NextAllocation, LockDocument, CheckBalance,
       EndAllocations, TakeNumber, InsertPayment, DeadlockVictim, Abort, db,
       Settled!vars
  <1>. QED
    BY <1>1, <1>2, <1>3, <1>4 DEF Next

\* Every interleaving of payments and edits is one of the atomic settlement:
\* a payment settles all its documents when it commits, within the totals
\* they have then.
THEOREM SettlementRefinement == ASSUME ~AllowRepeats PROVE Spec => RefinesSettlement
  <1>1. IInv /\ NumberInv /\ [Next]_vars => [Settled!Next]_(Settled!vars)
    BY NextSettled
  <1>. QED
    BY <1>1, InitSettled, InvariantHolds, NumbersHold, PTL
    DEF Spec, RefinesSettlement, Settled!Spec
=============================================================================
