------------------------ MODULE SalesInvoicingProofs ------------------------
(***************************************************************************)
(* Proofs about SalesInvoicing, for any set of requests, lines and         *)
(* quantities.                                                             *)
(***************************************************************************)
EXTENDS SalesInvoicing, SumLemmas, TLAPS

(***************************************************************************)
(* The inductive invariant.                                                *)
(***************************************************************************)
\* Only invoicing requests reach the steps of issue_invoice_from_order, and
\* they never reach those of update_order.
IssuePath  == {"select", "locking", "number", "insert"}
UpdatePath == {"delete", "deleting"}

PathInv == \A t \in Txns :
  /\ pc[t] \in IssuePath => Issuing(t)
  /\ pc[t] \in UpdatePath => ~Issuing(t)

\* A line is not invoiced beyond its quantity; the line an edit inserts does
\* not exist before the edit commits.
LineInv ==
  /\ \A l \in LineIds : invoiced[l] <= qty[l]
  /\ \A t \in Txns : pc[t] # "committed" => qty[t] = 0

\* What an open request has selected it has locked, has seen fresh, and fits.
PickInv == \A t \in Txns, l \in LineIds :
  pick[t][l] > 0 /\ pc[t] \notin {"committed", "aborted"} =>
    /\ pc[t] \notin {"idle", "lines"}
    /\ lock[l] = t
    /\ l \in live
    /\ seen[t][l] = invoiced[l]
    /\ invoiced[l] + pick[t][l] <= qty[l]

\* A request never waits for a line it has already locked.
WantInv == \A t \in Txns :
  pc[t] = "locking" => want[t] \in LineIds /\ lock[want[t]] # t

\* The number of an open request follows one in use; the number of an
\* inserted invoice is its own.
Numbered(t) == Issuing(t) /\ pc[t] \in {"insert", "flush", "order_row", "commit"}

NumberInv == \A t \in Txns :
  /\ Numbered(t) => number[t] = 1 \/ \E m \in Numbers : number[t] = m + 1
  /\ Inserted(t) => number[t] \notin Numbers
  /\ \A u \in Txns : Inserted(t) /\ Inserted(u) /\ number[t] = number[u] => t = u
  /\ Numbered(t) \/ pc[t] = "number" => \E l \in LineIds : pick[t][l] > 0

IInv == TypeOK /\ PathInv /\ LineInv /\ PickInv /\ WantInv /\ NumberInv
-----------------------------------------------------------------------------
(***************************************************************************)
(* Type correctness.                                                       *)
(***************************************************************************)
LEMMA EndType ==
  ASSUME TypeOK, NEW t \in Txns, NEW o \in Ended, End(t, o)
  PROVE  /\ lock' \in [Rows -> Txns \cup {NoTxn}]
         /\ want' \in [Txns -> Rows \cup {NoRow}]
         /\ pc' \in [Txns -> PCs]
  BY DEF TypeOK, End, Goto, PCs

LEMMA AbortType ==
  ASSUME TypeOK, NEW t \in Txns, Abort(t)
  PROVE  TypeOK'
  BY EndType DEF TypeOK, Abort, db, session, Ended

LEMMA InitType == Init => TypeOK
  <1> SUFFICES ASSUME Init PROVE TypeOK
    OBVIOUS
  <1>1. qty \in [LineIds -> Nat]
    BY ConstantsAssumption DEF Init, LineIds
  <1>2. kind \in [Txns -> AllKinds]
    BY ConstantsAssumption DEF Init
  <1>. QED
    BY <1>1, <1>2, ConstantsAssumption
    DEF Init, TypeOK, Statuses, LineIds, Zero, PCs, Ended

LEMMA StepType ==
  ASSUME TypeOK, NEW t \in Txns, Step(t)
  PROVE  TypeOK'
  <1> USE DEF TypeOK
  <1>1. CASE ReadLines(t)
    <2>1. CASE ~Issuing(t) /\ \E l \in live : invoiced[l] > 0
      BY <1>1, <2>1, AbortType DEF ReadLines
    <2>2. CASE ~(~Issuing(t) /\ \E l \in live : invoiced[l] > 0)
      <3>1. pc' \in [Txns -> PCs]
        BY <1>1, <2>2 DEF ReadLines, Goto, PCs
      <3>2. rows' = [rows EXCEPT ![t] = live] /\ seen' = [seen EXCEPT ![t] = invoiced]
        BY <1>1, <2>2 DEF ReadLines
      <3>3. rows' \in [Txns -> SUBSET LineIds] /\ seen' \in [Txns -> [LineIds -> Int]]
        BY <3>2
      <3>. QED
        BY <1>1, <2>2, <3>1, <3>3 DEF ReadLines, db
    <2>. QED
      BY <2>1, <2>2
  <1>2. ASSUME NEW l \in LineIds, NEW q \in AskQtys, AskLine(t, l, q)
        PROVE  TypeOK'
    BY <1>2, ConstantsAssumption DEF AskLine, Goto, PCs, db, Rows
  <1>3. CASE LockLine(t)
    <2> DEFINE l == want[t]
               remaining == qty[l] - invoiced[l]
               refused == l \notin live \/ Excessive(t, remaining)
    <2>1. CASE refused
      BY <1>3, <2>1, AbortType DEF LockLine
    <2>2. CASE ~refused
      <3>1. l \in LineIds /\ l \in Rows
        BY <2>2 DEF Rows
      <3>2. remaining \in Int
        BY <3>1
      <3>3. Selected(t, remaining) \in Nat
        BY <3>2 DEF Selected
      <3>4. pick' \in [Txns -> [LineIds -> Nat]]
        <4>1. pick' = [pick EXCEPT ![t][l] = @ + Selected(t, remaining)]
          BY <1>3, <2>2 DEF LockLine
        <4>. QED
          BY <4>1, <3>1, <3>3
      <3>5. seen' \in [Txns -> [LineIds -> Nat]]
        <4>1. seen' = [seen EXCEPT ![t][l] = invoiced[l]]
          BY <1>3, <2>2 DEF LockLine
        <4>2. invoiced[l] \in Nat
          BY <3>1
        <4>. QED
          BY <4>1, <4>2, <3>1
      <3>6. lock' \in [Rows -> Txns \cup {NoTxn}]
        BY <1>3, <2>2, <3>1 DEF LockLine
      <3>. QED
        BY <1>3, <2>2, <3>4, <3>5, <3>6 DEF LockLine, Goto, PCs, db
    <2>. QED
      BY <2>1, <2>2
  <1>4. CASE EndSelection(t)
    BY <1>4, AbortType DEF EndSelection, Goto, PCs, db, session
  <1>5. CASE TakeNumber(t)
    BY <1>5 DEF TakeNumber, Goto, PCs, db, Numbers
  <1>6. CASE InsertInvoice(t)
    BY <1>6, AbortType DEF InsertInvoice, Goto, PCs, db, session
  <1>7. CASE StartDelete(t)
    BY <1>7 DEF StartDelete, Goto, PCs, db
  <1>8. ASSUME NEW l \in LineIds, DeleteNext(t, l)
        PROVE  TypeOK'
    BY <1>8 DEF DeleteNext, Rows, db, session
  <1>9. CASE DeleteLine(t)
    BY <1>9 DEF DeleteLine, db, session, Rows
  <1>10. CASE EndDelete(t)
    BY <1>10 DEF EndDelete, Goto, PCs, db, session
  <1>11. CASE FlushOrder(t)
    BY <1>11 DEF FlushOrder, Goto, PCs, db, session, Rows
  <1>12. CASE LockOrder(t)
    BY <1>12 DEF LockOrder, Goto, PCs, db, session, Rows
  <1>13. CASE CommitIssue(t)
    BY <1>13, EndType
    DEF CommitIssue, Ended, session, Bill, InvoicedStatus, Statuses
  <1>14. CASE CommitUpdate(t)
    <2>1. live' \subseteq LineIds
      BY <1>14 DEF CommitUpdate, LineIds
    <2>2. qty' \in [LineIds -> Nat]
      BY <1>14, ConstantsAssumption DEF CommitUpdate, LineIds
    <2>. QED
      BY <1>14, <2>1, <2>2, EndType DEF CommitUpdate, Ended, session
  <1>15. CASE CommitCancel(t)
    BY <1>15, EndType DEF CommitCancel, Ended, session, Statuses
  <1>16. CASE DeadlockVictim(t)
    BY <1>16, AbortType DEF DeadlockVictim
  <1>. QED
    BY <1>1, <1>2, <1>3, <1>4, <1>5, <1>6, <1>7, <1>8, <1>9, <1>10, <1>11,
       <1>12, <1>13, <1>14, <1>15, <1>16 DEF Step, Commit

LEMMA NextType == TypeOK /\ [Next]_vars => TypeOK'
  <1> SUFFICES ASSUME TypeOK, [Next]_vars PROVE TypeOK'
    OBVIOUS
  <1>1. ASSUME NEW t \in Txns, ReadOrder(t) PROVE TypeOK'
    BY <1>1, AbortType DEF ReadOrder, Goto, TypeOK, PCs, db
  <1>2. ASSUME NEW t \in Txns, Fail(t) PROVE TypeOK'
    BY <1>2, AbortType DEF Fail
  <1>3. CASE UNCHANGED vars
    BY <1>3 DEF vars, TypeOK
  <1>. QED
    BY <1>1, <1>2, <1>3, StepType DEF Next

\* Every reachable state is well typed.
THEOREM TypeCorrect == Spec => []TypeOK
  <1>. QED
    BY InitType, NextType, PTL DEF Spec
-----------------------------------------------------------------------------
(***************************************************************************)
(* Steps that select, number and write nothing preserve the invariant.     *)
(***************************************************************************)
LEMMA AbortInv ==
  ASSUME IInv, NEW t \in Txns, pc[t] # "committed", Abort(t)
  PROVE  IInv'
  <1> USE DEF IInv
  <1>1. /\ UNCHANGED <<status, live, qty, invoiced, invoices, kind, seen, pick, number>>
        /\ pc' = [pc EXCEPT ![t] = "aborted"]
        /\ want' = [want EXCEPT ![t] = NoRow]
        /\ lock' = [r \in Rows |-> IF lock[r] = t THEN NoTxn ELSE lock[r]]
    BY DEF Abort, End, Goto, db, session
  <1>2. TypeOK'
    BY AbortType
  <1>3. pc'[t] = "aborted" /\ \A u \in Txns : u # t => pc'[u] = pc[u]
    BY <1>1 DEF TypeOK
  <1>4. PathInv'
    BY <1>1, <1>3 DEF PathInv, Issuing, IssuePath, UpdatePath
  <1>5. LineInv'
    BY <1>1, <1>3 DEF LineInv
  <1>6. PickInv'
    BY <1>1, <1>3 DEF PickInv, TypeOK, Rows
  <1>7. WantInv'
    BY <1>1, <1>3, ConstantsAssumption DEF WantInv, TypeOK, Rows
  <1>8. NumberInv'
    BY <1>1, <1>3 DEF NumberInv, Numbered, Inserted, Issuing, Numbers
  <1>. QED
    BY <1>2, <1>4, <1>5, <1>6, <1>7, <1>8

\* A step of t that leaves the committed lines and invoices alone, may take
\* free row locks, and stays on t's path.
Quiet(t) ==
  /\ UNCHANGED <<live, qty, invoiced, invoices, kind, pick, number>>
  /\ \A r \in Rows : lock'[r] = lock[r] \/ (lock[r] = NoTxn /\ lock'[r] = t)
  /\ \A u \in Txns : u # t =>
       pc'[u] = pc[u] /\ want'[u] = want[u] /\ seen'[u] = seen[u]
  /\ pc[t] \notin Ended /\ pc'[t] \notin Ended \cup {"lines"}
  /\ pc[t] = "lines" \/ seen'[t] = seen[t]
  /\ pc'[t] \in IssuePath => Issuing(t)
  /\ pc'[t] \in UpdatePath => ~Issuing(t)
  /\ pc'[t] = "locking" => want'[t] \in LineIds /\ lock'[want'[t]] # t
  /\ Numbered(t)' => Numbered(t)
  /\ Inserted(t)' => Inserted(t)
  /\ pc'[t] = "number" => \E l \in LineIds : pick[t][l] > 0

LEMMA QuietInv ==
  ASSUME IInv, TypeOK', NEW t \in Txns, Quiet(t)
  PROVE  IInv'
  <1> USE DEF IInv, Quiet
  <1>1. PathInv'
    BY DEF PathInv, Issuing, IssuePath, UpdatePath
  <1>2. LineInv'
    BY DEF LineInv, Ended
  <1>3. PickInv'
    <2> SUFFICES ASSUME NEW u \in Txns, NEW l \in LineIds, pick[u][l] > 0,
                        pc'[u] \notin {"committed", "aborted"}
                 PROVE  /\ pc'[u] \notin {"idle", "lines"}
                        /\ lock'[l] = u
                        /\ l \in live
                        /\ seen'[u][l] = invoiced[l]
                        /\ invoiced[l] + pick[u][l] <= qty[l]
      BY DEF PickInv
    <2>1. l \in Rows /\ NoTxn # u
      BY ConstantsAssumption DEF Rows
    <2>2. pc[u] \notin {"committed", "aborted"}
      BY DEF Ended
    <2>3. lock[l] = u /\ pc[u] # "lines" /\ pc[u] # "idle"
      BY <2>2 DEF PickInv
    <2>. QED
      BY <2>1, <2>2, <2>3 DEF PickInv, Ended
  <1>4. WantInv'
    <2> SUFFICES ASSUME NEW u \in Txns, pc'[u] = "locking"
                 PROVE  want'[u] \in LineIds /\ lock'[want'[u]] # u
      BY DEF WantInv
    <2>. QED
      BY DEF WantInv, Rows
  <1>5. NumberInv'
    <2>1. \A u \in Txns : (Numbered(u)' => Numbered(u)) /\ (Inserted(u)' => Inserted(u))
      BY DEF Numbered, Inserted, Issuing
    <2>2. Numbers' = Numbers
      BY DEF Numbers
    <2>3. ASSUME NEW u \in Txns
          PROVE  /\ Numbered(u)' => number'[u] = 1 \/ \E m \in Numbers' : number'[u] = m + 1
                 /\ Inserted(u)' => number'[u] \notin Numbers'
                 /\ Numbered(u)' \/ pc'[u] = "number" => \E l \in LineIds : pick'[u][l] > 0
      BY <2>1, <2>2 DEF NumberInv
    <2>4. ASSUME NEW u \in Txns, NEW v \in Txns, Inserted(u)', Inserted(v)',
                 number'[u] = number'[v]
          PROVE  u = v
      BY <2>1, <2>4 DEF NumberInv
    <2>. QED
      BY <2>3, <2>4 DEF NumberInv
  <1>. QED
    BY <1>1, <1>2, <1>3, <1>4, <1>5
-----------------------------------------------------------------------------
(***************************************************************************)
(* The steps that are quiet.                                               *)
(***************************************************************************)
LEMMA QuietSteps ==
  ASSUME IInv, ~AllowRepeats, NEW t \in Txns,
         \/ ReadLines(t) /\ ~Abort(t)
         \/ \E l \in LineIds, q \in AskQtys : AskLine(t, l, q)
         \/ EndSelection(t) /\ ~Abort(t)
         \/ StartDelete(t)
         \/ \E l \in LineIds : DeleteNext(t, l)
         \/ DeleteLine(t) \/ EndDelete(t) \/ FlushOrder(t) \/ LockOrder(t)
  PROVE  Quiet(t)
  <1> USE DEF IInv, TypeOK
  <1> USE DEF Quiet, Goto, db, session, Ended, Numbered, Inserted, Issuing,
              PathInv, IssuePath, UpdatePath
  <1>1. CASE ReadLines(t) /\ ~Abort(t)
    <2>1. /\ pc[t] = "lines"
          /\ pc'[t] \in {"select", "delete", "flush"}
          /\ pc'[t] = "select" <=> Issuing(t)
          /\ \A u \in Txns : u # t => pc'[u] = pc[u]
      BY <1>1 DEF ReadLines
    <2>2. seen' = [seen EXCEPT ![t] = invoiced]
      BY <1>1 DEF ReadLines
    <2>3. UNCHANGED <<db, lock, want, kind, pick, number>>
      BY <1>1 DEF ReadLines
    <2>. QED
      BY <2>1, <2>2, <2>3
  <1>2. ASSUME NEW l \in LineIds, NEW q \in AskQtys, AskLine(t, l, q) PROVE Quiet(t)
    BY <1>2 DEF AskLine
  <1>3. CASE EndSelection(t) /\ ~Abort(t)
    BY <1>3 DEF EndSelection
  <1>4. CASE StartDelete(t)
    BY <1>4 DEF StartDelete
  <1>5. ASSUME NEW l \in LineIds, DeleteNext(t, l) PROVE Quiet(t)
    BY <1>5 DEF DeleteNext
  <1>6. CASE DeleteLine(t)
    BY <1>6 DEF DeleteLine, Free
  <1>7. CASE EndDelete(t)
    BY <1>7 DEF EndDelete
  <1>8. CASE FlushOrder(t)
    BY <1>8 DEF FlushOrder
  <1>9. CASE LockOrder(t)
    BY <1>9 DEF LockOrder, Free, Rows
  <1>. QED
    BY <1>1, <1>2, <1>3, <1>4, <1>5, <1>6, <1>7, <1>8, <1>9
-----------------------------------------------------------------------------
(***************************************************************************)
(* The steps that select lines, take numbers and commit.                   *)
(***************************************************************************)
LEMMA ReadOrderInv ==
  ASSUME IInv, TypeOK', NEW t \in Txns, ReadOrder(t)
  PROVE  IInv'
  <1>1. CASE status \in Gate(kind[t])
    <2>1. /\ pc[t] = "idle" /\ pc' = [pc EXCEPT ![t] = "lines"]
          /\ UNCHANGED <<live, qty, invoiced, invoices, lock, want, kind, seen, pick, number>>
      BY <1>1 DEF ReadOrder, Goto, db
    <2>2. pc'[t] = "lines" /\ \A u \in Txns : u # t => pc'[u] = pc[u]
      BY <2>1 DEF IInv, TypeOK
    <2>3. PathInv'
      BY <2>1, <2>2 DEF IInv, PathInv, Issuing, IssuePath, UpdatePath
    <2>4. LineInv'
      BY <2>1, <2>2 DEF IInv, LineInv
    <2>5. \A l \in LineIds : ~(pick[t][l] > 0)
      BY <2>1 DEF IInv, PickInv
    <2>6. PickInv'
      BY <2>1, <2>2, <2>5 DEF IInv, PickInv
    <2>7. WantInv'
      BY <2>1, <2>2 DEF IInv, WantInv
    <2>8. NumberInv'
      BY <2>1, <2>2 DEF IInv, NumberInv, Numbered, Inserted, Issuing, Numbers
    <2>. QED
      BY <2>3, <2>4, <2>6, <2>7, <2>8 DEF IInv
  <1>2. CASE status \notin Gate(kind[t])
    BY <1>2, AbortInv DEF ReadOrder
  <1>. QED
    BY <1>1, <1>2

LEMMA LockLineInv ==
  ASSUME IInv, ~AllowRepeats, TypeOK', NEW t \in Txns, LockLine(t)
  PROVE  IInv'
  <1> DEFINE l == want[t]
             remaining == qty[l] - invoiced[l]
             refused == l \notin live \/ Excessive(t, remaining)
  <1>1. CASE refused
    BY <1>1, AbortInv DEF LockLine
  <1>2. CASE ~refused
    <2>1. /\ pc[t] = "locking" /\ pc' = [pc EXCEPT ![t] = "select"]
          /\ lock[l] \in {NoTxn, t} /\ lock' = [lock EXCEPT ![l] = t]
          /\ seen' = [seen EXCEPT ![t][l] = invoiced[l]]
          /\ pick' = [pick EXCEPT ![t][l] = @ + Selected(t, remaining)]
          /\ want' = [want EXCEPT ![t] = NoRow]
          /\ UNCHANGED <<live, qty, invoiced, invoices, kind, number>>
      BY <1>2 DEF LockLine, Goto, Free, db
    <2>2. l \in LineIds /\ l \in live /\ lock[l] # t /\ lock[l] = NoTxn /\ l \in Rows
      BY <1>2, <2>1 DEF IInv, WantInv, Rows
    <2>3. pick[t][l] = 0 /\ pick[t][l] \in Nat
      <3>1. pick[t][l] \in Nat
        BY <2>2 DEF IInv, TypeOK
      <3>2. ~(pick[t][l] > 0)
        BY <2>1, <2>2 DEF IInv, PickInv
      <3>. QED
        BY <3>1, <3>2
    <2>4. /\ qty[l] \in Nat /\ invoiced[l] \in Nat /\ ask[t] \in Nat
          /\ invoiced[l] <= qty[l] /\ remaining \in Nat
      BY <2>2 DEF IInv, LineInv, TypeOK
    <2>5. Selected(t, remaining) \in Nat /\ Selected(t, remaining) <= remaining
      BY <1>2, <2>4 DEF Selected, Excessive
    <2>6. /\ pick'[t][l] = Selected(t, remaining)
          /\ seen'[t][l] = invoiced[l]
          /\ \A m \in LineIds : m # l => pick'[t][m] = pick[t][m] /\ seen'[t][m] = seen[t][m]
          /\ \A u \in Txns : u # t => pick'[u] = pick[u] /\ seen'[u] = seen[u]
      BY <2>1, <2>2, <2>3, <2>5 DEF IInv, TypeOK
    <2>7. /\ pc'[t] = "select" /\ want'[t] = NoRow
          /\ \A u \in Txns : u # t => pc'[u] = pc[u] /\ want'[u] = want[u]
          /\ lock'[l] = t /\ \A r \in Rows : r # l => lock'[r] = lock[r]
      BY <2>1, <2>2 DEF IInv, TypeOK
    <2>8. PathInv'
      BY <2>1, <2>7 DEF IInv, PathInv, Issuing, IssuePath, UpdatePath
    <2>9. LineInv'
      BY <2>1, <2>7 DEF IInv, LineInv
    <2>10. PickInv'
      <3> SUFFICES ASSUME NEW u \in Txns, NEW m \in LineIds, pick'[u][m] > 0,
                          pc'[u] \notin {"committed", "aborted"}
                   PROVE  /\ pc'[u] \notin {"idle", "lines"}
                          /\ lock'[m] = u /\ m \in live
                          /\ seen'[u][m] = invoiced[m]
                          /\ invoiced[m] + pick'[u][m] <= qty[m]
        BY <2>1 DEF PickInv
      <3>0. m \in Rows /\ NoTxn # u
        BY ConstantsAssumption DEF Rows
      <3>1. CASE u = t /\ m = l
        BY <3>1, <2>2, <2>4, <2>5, <2>6, <2>7
      <3>2. CASE u = t /\ m # l
        BY <3>0, <3>2, <2>1, <2>6, <2>7 DEF IInv, PickInv
      <3>3. CASE u # t
        <4>1. lock[m] = u /\ m # l
          BY <3>0, <3>3, <2>2, <2>6, <2>7 DEF IInv, PickInv
        <4>. QED
          BY <3>0, <3>3, <4>1, <2>6, <2>7 DEF IInv, PickInv
      <3>. QED
        BY <3>1, <3>2, <3>3
    <2>11. WantInv'
      BY <2>2, <2>7 DEF IInv, WantInv, Rows
    <2>12. NumberInv'
      <3>1. \A u \in Txns : /\ Numbered(u)' => Numbered(u) /\ u # t
                            /\ Inserted(u)' => Inserted(u) /\ u # t
                            /\ pc'[u] = "number" => pc[u] = "number" /\ u # t
        BY <2>1, <2>7 DEF Numbered, Inserted, Issuing
      <3>2. Numbers' = Numbers
        BY <2>1 DEF Numbers
      <3>. QED
        BY <2>1, <2>6, <3>1, <3>2 DEF IInv, NumberInv
    <2>. QED
      BY <2>8, <2>9, <2>10, <2>11, <2>12 DEF IInv
  <1>. QED
    BY <1>1, <1>2

LEMMA TakeNumberInv ==
  ASSUME IInv, TypeOK', NEW t \in Txns, TakeNumber(t)
  PROVE  IInv'
  <1>1. PICK n \in Numbers \cup {0} : number' = [number EXCEPT ![t] = n + 1]
    BY DEF TakeNumber
  <1>2. /\ pc[t] = "number" /\ pc' = [pc EXCEPT ![t] = "insert"]
        /\ UNCHANGED <<live, qty, invoiced, invoices, lock, want, kind, seen, pick>>
    BY DEF TakeNumber, Goto, db
  <1>3. /\ pc'[t] = "insert" /\ number'[t] = n + 1
        /\ \A u \in Txns : u # t => pc'[u] = pc[u] /\ number'[u] = number[u]
    BY <1>1, <1>2 DEF IInv, TypeOK
  <1>4. PathInv'
    BY <1>2, <1>3 DEF IInv, PathInv, Issuing, IssuePath, UpdatePath
  <1>5. LineInv'
    BY <1>2, <1>3 DEF IInv, LineInv
  <1>6. PickInv'
    BY <1>2, <1>3 DEF IInv, PickInv
  <1>7. WantInv'
    BY <1>2, <1>3 DEF IInv, WantInv
  <1>8. NumberInv'
    <2>1. Numbers' = Numbers
      BY <1>2 DEF Numbers
    <2>2. \A u \in Txns : /\ Numbered(u)' /\ u # t => Numbered(u)
                          /\ Inserted(u)' => Inserted(u) /\ u # t
      BY <1>2, <1>3 DEF Numbered, Inserted, Issuing
    <2>3. n + 1 = 1 \/ \E m \in Numbers : n + 1 = m + 1
      BY <1>1
    <2>. QED
      BY <1>2, <1>3, <2>1, <2>2, <2>3 DEF IInv, NumberInv
  <1>. QED
    BY <1>4, <1>5, <1>6, <1>7, <1>8 DEF IInv

LEMMA InsertInvoiceInv ==
  ASSUME IInv, TypeOK', NEW t \in Txns, InsertInvoice(t)
  PROVE  IInv'
  <1>1. CASE number[t] \in Numbers
    BY <1>1, AbortInv DEF InsertInvoice
  <1>2. CASE number[t] \notin Numbers
    <2>1. /\ pc[t] = "insert" /\ pc' = [pc EXCEPT ![t] = "flush"]
          /\ NumberHolders(t) = {}
          /\ UNCHANGED <<live, qty, invoiced, invoices, lock, want, kind, seen, pick, number>>
      BY <1>2 DEF InsertInvoice, Goto, db, session
    <2>2. pc'[t] = "flush" /\ \A u \in Txns : u # t => pc'[u] = pc[u]
      BY <2>1 DEF IInv, TypeOK
    <2>3. PathInv'
      BY <2>1, <2>2 DEF IInv, PathInv, Issuing, IssuePath, UpdatePath
    <2>4. LineInv'
      BY <2>1, <2>2 DEF IInv, LineInv
    <2>5. PickInv'
      BY <2>1, <2>2 DEF IInv, PickInv
    <2>6. WantInv'
      BY <2>1, <2>2 DEF IInv, WantInv
    <2>7. NumberInv'
      <3>1. Numbers' = Numbers
        BY <2>1 DEF Numbers
      <3>2. \A u \in Txns : /\ Numbered(u)' => Numbered(u)
                            /\ Inserted(u)' /\ u # t => Inserted(u)
                            /\ pc'[u] = "number" => pc[u] = "number"
        BY <2>1, <2>2 DEF IInv, PathInv, IssuePath, Numbered, Inserted, Issuing
      <3>3. \A u \in Txns : u # t /\ Inserted(u) => number[u] # number[t]
        BY <2>1 DEF NumberHolders
      <3>4. ASSUME NEW u \in Txns
            PROVE  /\ Numbered(u)' => number'[u] = 1 \/ \E m \in Numbers' : number'[u] = m + 1
                   /\ Inserted(u)' => number'[u] \notin Numbers'
                   /\ Numbered(u)' \/ pc'[u] = "number" => \E l \in LineIds : pick'[u][l] > 0
        BY <1>2, <2>1, <3>1, <3>2 DEF IInv, NumberInv
      <3>5. ASSUME NEW u \in Txns, NEW v \in Txns, Inserted(u)', Inserted(v)',
                   number'[u] = number'[v]
            PROVE  u = v
        BY <2>1, <3>2, <3>3, <3>5 DEF IInv, NumberInv
      <3>. QED
        BY <3>4, <3>5 DEF NumberInv
    <2>. QED
      BY <2>3, <2>4, <2>5, <2>6, <2>7 DEF IInv
  <1>. QED
    BY <1>1, <1>2
-----------------------------------------------------------------------------
(***************************************************************************)
(* The commits.                                                            *)
(***************************************************************************)
\* Ending t's transaction leaves the others' steps and locks alone.
LEMMA EndFrame ==
  ASSUME TypeOK, NEW t \in Txns, End(t, "committed")
  PROVE  /\ pc'[t] = "committed"
         /\ want'[t] = NoRow
         /\ \A u \in Txns : u # t => pc'[u] = pc[u] /\ want'[u] = want[u]
         /\ \A u \in Txns, r \in Rows : u # t => (lock'[r] = u <=> lock[r] = u)
  BY ConstantsAssumption DEF TypeOK, End, Goto

\* The copies an invoicing request commits are the rows plus its selection.
LEMMA CommitAdds ==
  ASSUME IInv, NEW t \in Txns, CommitIssue(t)
  PROVE  /\ invoiced' = [l \in LineIds |-> invoiced[l] + pick[t][l]]
         /\ \A l \in LineIds :
              pick[t][l] > 0 => l \in live /\ invoiced[l] + pick[t][l] <= qty[l]
  <1>1. pc[t] = "commit"
    BY DEF CommitIssue
  <1>2. ASSUME NEW l \in LineIds, pick[t][l] > 0
        PROVE  seen[t][l] = invoiced[l] /\ l \in live /\ invoiced[l] + pick[t][l] <= qty[l]
    BY <1>1, <1>2 DEF IInv, PickInv
  <1>3. ASSUME NEW l \in LineIds, ~(pick[t][l] > 0)
        PROVE  invoiced[l] = invoiced[l] + pick[t][l]
    BY <1>3 DEF IInv, TypeOK
  <1>4. \A l \in LineIds : IF pick[t][l] > 0 THEN seen[t][l] + pick[t][l] = invoiced[l] + pick[t][l]
                                             ELSE invoiced[l] = invoiced[l] + pick[t][l]
    BY <1>2, <1>3
  <1>5. invoiced' = [l \in LineIds |-> IF pick[t][l] > 0 THEN seen[t][l] + pick[t][l]
                                                        ELSE invoiced[l]]
    BY DEF CommitIssue
  <1>6. invoiced' = [l \in LineIds |-> invoiced[l] + pick[t][l]]
    BY <1>4, <1>5
  <1>. QED
    BY <1>2, <1>6

LEMMA CommitIssueInv ==
  ASSUME IInv, TypeOK', NEW t \in Txns, CommitIssue(t)
  PROVE  IInv'
  <1>1. /\ pc[t] = "commit" /\ Issuing(t) /\ Inserted(t)
        /\ invoices' = invoices \cup {Bill(t)}
        /\ UNCHANGED <<live, qty, kind, seen, pick, number>>
        /\ End(t, "committed")
    BY DEF CommitIssue, session, Inserted
  <1>2. /\ pc'[t] = "committed"
        /\ want'[t] = NoRow
        /\ \A u \in Txns : u # t => pc'[u] = pc[u] /\ want'[u] = want[u]
        /\ \A u \in Txns, r \in Rows : u # t => (lock'[r] = u <=> lock[r] = u)
    BY <1>1, EndFrame DEF IInv
  <1>3. PathInv'
    BY <1>1, <1>2 DEF IInv, PathInv, Issuing, IssuePath, UpdatePath
  <1>4. LineInv'
    <2>1. ASSUME NEW l \in LineIds PROVE invoiced'[l] <= qty'[l]
      <3>1. CASE pick[t][l] > 0
        BY <1>1, <3>1, CommitAdds
      <3>2. CASE ~(pick[t][l] > 0)
        BY <1>1, <3>2 DEF CommitIssue, IInv, LineInv
      <3>. QED
        BY <3>1, <3>2
    <2>. QED
      BY <1>1, <1>2, <2>1 DEF IInv, LineInv
  <1>5. PickInv'
    <2> SUFFICES ASSUME NEW u \in Txns, NEW l \in LineIds, u # t, pick[u][l] > 0,
                        pc[u] \notin {"committed", "aborted"}
                 PROVE  /\ pc[u] \notin {"idle", "lines"}
                        /\ lock'[l] = u /\ l \in live
                        /\ seen[u][l] = invoiced'[l]
                        /\ invoiced'[l] + pick[u][l] <= qty[l]
      BY <1>1, <1>2 DEF PickInv
    <2>1. lock[l] = u /\ l \in Rows
      BY DEF IInv, PickInv, Rows
    <2>2. ~(pick[t][l] > 0)
      BY <1>1, <2>1 DEF IInv, PickInv
    <2>3. invoiced'[l] = invoiced[l]
      BY <2>2 DEF CommitIssue
    <2>. QED
      BY <1>2, <2>1, <2>3 DEF IInv, PickInv
  <1>6. WantInv'
    <2> SUFFICES ASSUME NEW u \in Txns, u # t, pc[u] = "locking"
                 PROVE  want[u] \in LineIds /\ lock'[want[u]] # u
      BY <1>2 DEF WantInv
    <2>. QED
      BY <1>2 DEF IInv, WantInv, Rows
  <1>7. NumberInv'
    <2>1. Numbers' = Numbers \cup {number[t]}
      <3>1. Bill(t).number = number[t]
        BY DEF Bill
      <3>2. Numbers' = {i.number : i \in invoices \cup {Bill(t)}}
        BY <1>1 DEF Numbers
      <3>. QED
        BY <3>1, <3>2 DEF Numbers
    <2>2. \A u \in Txns : /\ Numbered(u)' => Numbered(u) /\ u # t
                          /\ Inserted(u)' => Inserted(u) /\ u # t
                          /\ pc'[u] = "number" => pc[u] = "number" /\ u # t
      BY <1>1, <1>2 DEF Numbered, Inserted, Issuing
    <2>3. \A u \in Txns : Inserted(u) /\ u # t => number[u] # number[t]
      BY <1>1 DEF IInv, NumberInv
    <2>4. ASSUME NEW u \in Txns
          PROVE  /\ Numbered(u)' => number'[u] = 1 \/ \E m \in Numbers' : number'[u] = m + 1
                 /\ Inserted(u)' => number'[u] \notin Numbers'
                 /\ Numbered(u)' \/ pc'[u] = "number" => \E l \in LineIds : pick'[u][l] > 0
      BY <1>1, <2>1, <2>2, <2>3 DEF IInv, NumberInv
    <2>5. ASSUME NEW u \in Txns, NEW v \in Txns, Inserted(u)', Inserted(v)',
                 number'[u] = number'[v]
          PROVE  u = v
      BY <1>1, <2>2, <2>5 DEF IInv, NumberInv
    <2>. QED
      BY <2>4, <2>5 DEF NumberInv
  <1>. QED
    BY <1>3, <1>4, <1>5, <1>6, <1>7 DEF IInv

LEMMA CommitUpdateInv ==
  ASSUME IInv, TypeOK', NEW t \in Txns, CommitUpdate(t)
  PROVE  IInv'
  <1>1. PICK q \in OrderQtys : qty' = [qty EXCEPT ![t] = q]
    BY DEF CommitUpdate
  <1>2. /\ pc[t] = "commit"
        /\ live' = (live \ {l \in rows[t] : lock[l] = t}) \cup {t}
        /\ UNCHANGED <<invoiced, invoices, kind, seen, pick, number>>
        /\ End(t, "committed")
    BY DEF CommitUpdate, session
  <1>3. /\ pc'[t] = "committed"
        /\ want'[t] = NoRow
        /\ \A u \in Txns : u # t => pc'[u] = pc[u] /\ want'[u] = want[u]
        /\ \A u \in Txns, r \in Rows : u # t => (lock'[r] = u <=> lock[r] = u)
    BY <1>2, EndFrame DEF IInv
  <1>4. t \in LineIds /\ qty[t] = 0 /\ q \in Nat /\ qty'[t] = q
        /\ \A l \in LineIds : l # t => qty'[l] = qty[l]
    BY <1>1, <1>2, ConstantsAssumption DEF LineIds, IInv, LineInv, TypeOK
  <1>5. \A l \in LineIds : invoiced[l] \in Nat /\ qty[l] \in Nat /\ qty[l] <= qty'[l]
    <2> SUFFICES ASSUME NEW l \in LineIds
                 PROVE  invoiced[l] \in Nat /\ qty[l] \in Nat /\ qty[l] <= qty'[l]
      OBVIOUS
    <2>1. invoiced[l] \in Nat /\ qty[l] \in Nat
      BY DEF IInv, TypeOK
    <2>2. CASE l = t
      BY <1>4, <2>1, <2>2
    <2>3. CASE l # t
      BY <1>4, <2>1, <2>3
    <2>. QED
      BY <2>1, <2>2, <2>3
  <1>6. PathInv'
    BY <1>2, <1>3 DEF IInv, PathInv, Issuing, IssuePath, UpdatePath
  <1>7. LineInv'
    <2>1. ASSUME NEW l \in LineIds PROVE invoiced'[l] <= qty'[l]
      BY <1>2, <1>4, <1>5 DEF IInv, LineInv
    <2>2. ASSUME NEW u \in Txns, pc'[u] # "committed" PROVE qty'[u] = 0
      <3>1. u # t /\ u \in LineIds /\ pc[u] # "committed"
        BY <1>3, <2>2 DEF LineIds
      <3>. QED
        BY <1>4, <3>1 DEF IInv, LineInv
    <2>. QED
      BY <2>1, <2>2 DEF LineInv
  <1>8. PickInv'
    <2> SUFFICES ASSUME NEW u \in Txns, NEW l \in LineIds, u # t, pick[u][l] > 0,
                        pc[u] \notin {"committed", "aborted"}
                 PROVE  /\ pc[u] \notin {"idle", "lines"}
                        /\ lock'[l] = u /\ l \in live'
                        /\ seen[u][l] = invoiced[l]
                        /\ invoiced[l] + pick[u][l] <= qty'[l]
      BY <1>2, <1>3 DEF PickInv
    <2>1. /\ pc[u] \notin {"idle", "lines"} /\ lock[l] = u /\ l \in live
          /\ seen[u][l] = invoiced[l] /\ invoiced[l] + pick[u][l] <= qty[l]
      BY DEF IInv, PickInv
    <2>2. pick[u][l] \in Nat /\ l \in Rows
      BY DEF IInv, TypeOK, Rows
    <2>3. invoiced[l] + pick[u][l] <= qty'[l]
      BY <1>5, <2>1, <2>2, TypeOK' DEF TypeOK
    <2>. QED
      BY <1>2, <1>3, <2>1, <2>2, <2>3
  <1>9. WantInv'
    <2> SUFFICES ASSUME NEW u \in Txns, u # t, pc[u] = "locking"
                 PROVE  want[u] \in LineIds /\ lock'[want[u]] # u
      BY <1>3 DEF WantInv
    <2>. QED
      BY <1>3 DEF IInv, WantInv, Rows
  <1>10. NumberInv'
    <2>1. Numbers' = Numbers
      BY <1>2 DEF Numbers
    <2>2. \A u \in Txns : /\ Numbered(u)' => Numbered(u)
                          /\ Inserted(u)' => Inserted(u)
                          /\ pc'[u] = "number" => pc[u] = "number"
      BY <1>2, <1>3 DEF Numbered, Inserted, Issuing
    <2>. QED
      BY <1>2, <2>1, <2>2 DEF IInv, NumberInv
  <1>. QED
    BY <1>6, <1>7, <1>8, <1>9, <1>10 DEF IInv

LEMMA CommitCancelInv ==
  ASSUME IInv, TypeOK', NEW t \in Txns, CommitCancel(t)
  PROVE  IInv'
  <1>1. /\ pc[t] = "commit"
        /\ UNCHANGED <<live, qty, invoiced, invoices, kind, seen, pick, number>>
        /\ End(t, "committed")
    BY DEF CommitCancel, session
  <1>2. /\ pc'[t] = "committed"
        /\ want'[t] = NoRow
        /\ \A u \in Txns : u # t => pc'[u] = pc[u] /\ want'[u] = want[u]
        /\ \A u \in Txns, r \in Rows : u # t => (lock'[r] = u <=> lock[r] = u)
    BY <1>1, EndFrame DEF IInv
  <1>3. PathInv'
    BY <1>1, <1>2 DEF IInv, PathInv, Issuing, IssuePath, UpdatePath
  <1>4. LineInv'
    BY <1>1, <1>2 DEF IInv, LineInv
  <1>5. PickInv'
    BY <1>1, <1>2 DEF IInv, PickInv, Rows
  <1>6. WantInv'
    BY <1>1, <1>2 DEF IInv, WantInv, Rows
  <1>7. NumberInv'
    <2>1. Numbers' = Numbers
      BY <1>1 DEF Numbers
    <2>2. \A u \in Txns : /\ Numbered(u)' => Numbered(u)
                          /\ Inserted(u)' => Inserted(u)
                          /\ pc'[u] = "number" => pc[u] = "number"
      BY <1>1, <1>2 DEF Numbered, Inserted, Issuing
    <2>. QED
      BY <1>1, <2>1, <2>2 DEF IInv, NumberInv
  <1>. QED
    BY <1>3, <1>4, <1>5, <1>6, <1>7 DEF IInv
-----------------------------------------------------------------------------
(***************************************************************************)
(* The invariant, and what follows from it.                                *)
(***************************************************************************)
LEMMA InitInv == Init => IInv
  <1> SUFFICES ASSUME Init PROVE IInv
    OBVIOUS
  <1>1. TypeOK
    BY InitType
  <1>2. \A t \in Txns : pc[t] = "idle" /\ pick[t] = Zero
    BY DEF Init
  <1>3. PathInv
    BY <1>2 DEF PathInv, IssuePath, UpdatePath
  <1>4. LineInv
    <2>1. \A t \in Txns : t \in LineIds /\ t \notin Lines
      BY ConstantsAssumption DEF LineIds
    <2>2. \A t \in Txns : qty[t] = 0
      BY <2>1 DEF Init
    <2>3. ASSUME NEW l \in LineIds PROVE invoiced[l] <= qty[l]
      <3>1. invoiced[l] = 0 /\ qty[l] \in Nat
        BY <1>1 DEF Init, Zero, TypeOK
      <3>. QED
        BY <3>1
    <2>. QED
      BY <2>2, <2>3 DEF LineInv
  <1>5. PickInv
    BY <1>2 DEF PickInv, Zero
  <1>6. WantInv
    BY <1>2 DEF WantInv
  <1>7. NumberInv
    BY <1>2 DEF NumberInv, Numbered, Inserted
  <1>. QED
    BY <1>1, <1>3, <1>4, <1>5, <1>6, <1>7 DEF IInv

LEMMA StepInv ==
  ASSUME IInv, ~AllowRepeats, TypeOK', NEW t \in Txns, Step(t)
  PROVE  IInv'
  <1>1. ASSUME pc[t] \notin Ended, Abort(t) PROVE IInv'
    BY <1>1, AbortInv DEF Ended
  <1>2. CASE ReadLines(t)
    BY <1>1, <1>2, QuietSteps, QuietInv DEF ReadLines, Ended
  <1>3. CASE \E l \in LineIds, q \in AskQtys : AskLine(t, l, q)
    BY <1>3, QuietSteps, QuietInv
  <1>4. CASE LockLine(t)
    BY <1>4, LockLineInv
  <1>5. CASE EndSelection(t)
    BY <1>1, <1>5, QuietSteps, QuietInv DEF EndSelection, Ended
  <1>6. CASE TakeNumber(t)
    BY <1>6, TakeNumberInv
  <1>7. CASE InsertInvoice(t)
    BY <1>7, InsertInvoiceInv
  <1>8. CASE StartDelete(t) \/ (\E l \in LineIds : DeleteNext(t, l))
               \/ DeleteLine(t) \/ EndDelete(t) \/ FlushOrder(t) \/ LockOrder(t)
    BY <1>8, QuietSteps, QuietInv
  <1>9. CASE Commit(t)
    BY <1>9, CommitIssueInv, CommitUpdateInv, CommitCancelInv DEF Commit
  <1>10. CASE DeadlockVictim(t)
    BY <1>1, <1>10 DEF DeadlockVictim
  <1>. QED
    BY <1>2, <1>3, <1>4, <1>5, <1>6, <1>7, <1>8, <1>9, <1>10 DEF Step

LEMMA NextInv ==
  ASSUME IInv, ~AllowRepeats, [Next]_vars
  PROVE  IInv'
  <1>1. TypeOK'
    BY NextType DEF IInv
  <1>2. ASSUME NEW t \in Txns, ReadOrder(t) PROVE IInv'
    BY <1>1, <1>2, ReadOrderInv
  <1>3. ASSUME NEW t \in Txns, Step(t) PROVE IInv'
    BY <1>1, <1>3, StepInv
  <1>4. ASSUME NEW t \in Txns, Fail(t) PROVE IInv'
    BY <1>4, AbortInv DEF Fail, Ended
  <1>5. CASE UNCHANGED vars
    BY <1>5 DEF vars, IInv, TypeOK, PathInv, LineInv, PickInv, WantInv,
                NumberInv, Numbered, Inserted, Issuing, Numbers
  <1>. QED
    BY <1>2, <1>3, <1>4, <1>5 DEF Next

\* While no request names a line twice, everything an open request has
\* selected stays locked, fresh and within what the line still allows.
THEOREM InvariantHolds == ASSUME ~AllowRepeats PROVE Spec => []IInv
  <1>1. IInv /\ [Next]_vars => IInv'
    BY NextInv
  <1>. QED
    BY <1>1, InitInv, PTL DEF Spec

\* No line is ever invoiced for more than it orders.
THEOREM NeverOverInvoiced ==
  ASSUME ~AllowRepeats
  PROVE  Spec => [](\A l \in LineIds : invoiced[l] <= qty[l])
  <1>1. IInv => \A l \in LineIds : invoiced[l] <= qty[l]
    BY DEF IInv, LineInv
  <1>. QED
    BY <1>1, InvariantHolds, PTL
-----------------------------------------------------------------------------
(***************************************************************************)
(* Only the commits write the order, its lines and its invoices.           *)
(***************************************************************************)
LEMMA OthersWriteNothing ==
  ASSUME [Next]_vars, ~\E t \in Txns : Commit(t)
  PROVE  UNCHANGED <<status, live, qty, invoiced, invoices>>
  <1> DEFINE same == UNCHANGED <<status, live, qty, invoiced, invoices>>
  <1>1. ASSUME NEW t \in Txns, Abort(t) PROVE same
    BY <1>1 DEF Abort, db
  <1>2. ASSUME NEW t \in Txns, ReadOrder(t) PROVE same
    BY <1>1, <1>2 DEF ReadOrder, db
  <1>3. ASSUME NEW t \in Txns, Fail(t) PROVE same
    BY <1>1, <1>3 DEF Fail
  <1>4. ASSUME NEW t \in Txns, Step(t) PROVE same
    <2>1. CASE ReadLines(t) \/ EndSelection(t) \/ InsertInvoice(t) \/ DeadlockVictim(t)
      BY <1>1, <2>1 DEF ReadLines, EndSelection, InsertInvoice, DeadlockVictim, db
    <2>2. CASE LockLine(t) \/ TakeNumber(t)
      BY <1>1, <2>2 DEF LockLine, TakeNumber, db
    <2>3. CASE \E l \in LineIds, q \in AskQtys : AskLine(t, l, q)
      BY <2>3 DEF AskLine, db
    <2>4. CASE StartDelete(t) \/ (\E l \in LineIds : DeleteNext(t, l))
                \/ DeleteLine(t) \/ EndDelete(t)
      BY <2>4 DEF StartDelete, DeleteNext, DeleteLine, EndDelete, db
    <2>5. CASE FlushOrder(t) \/ LockOrder(t)
      BY <2>5 DEF FlushOrder, LockOrder, db
    <2>. QED
      BY <1>4, <2>1, <2>2, <2>3, <2>4, <2>5 DEF Step
  <1>5. CASE UNCHANGED vars
    BY <1>5 DEF vars
  <1>. QED
    BY <1>2, <1>3, <1>4, <1>5 DEF Next
-----------------------------------------------------------------------------
(***************************************************************************)
(* Invoice numbers.                                                        *)
(***************************************************************************)
GaplessInv == IsFiniteSet(invoices) /\ NumbersWithoutGap

LEMMA CommitIssueGapless ==
  ASSUME IInv, GaplessInv, NEW t \in Txns, CommitIssue(t)
  PROVE  GaplessInv'
  <1> DEFINE n == Cardinality(invoices)
             b == Bill(t)
  <1>1. n \in Nat
    BY FS_CardinalityType DEF GaplessInv
  <1>2. invoices' = invoices \cup {b} /\ b.number = number[t]
    BY DEF CommitIssue, Bill
  <1>3. Inserted(t) /\ Numbered(t)
    BY DEF CommitIssue, Inserted, Numbered
  <1>4. /\ number[t] \notin Numbers /\ number[t] \in Nat
        /\ number[t] = 1 \/ \E m \in Numbers : number[t] = m + 1
    BY <1>3 DEF IInv, NumberInv, TypeOK
  <1>5. Numbers = 1 .. n
    BY DEF GaplessInv, NumbersWithoutGap
  <1>6. number[t] = n + 1
    BY <1>1, <1>4, <1>5
  <1>7. b \notin invoices
    BY <1>2, <1>4 DEF Numbers
  <1>8. IsFiniteSet(invoices') /\ Cardinality(invoices') = n + 1
    BY <1>2, <1>7, FS_AddElement DEF GaplessInv
  <1>9. Numbers' = 1 .. n + 1
    <2>1. Numbers' = {i.number : i \in invoices \cup {b}}
      BY <1>2 DEF Numbers
    <2>2. Numbers' = Numbers \cup {number[t]}
      BY <1>2, <2>1 DEF Numbers
    <2>. QED
      BY <1>1, <1>5, <1>6, <2>2
  <1>10. \A i, j \in invoices' : i.number = j.number => i = j
    <2>1. \A i \in invoices : i.number # b.number
      BY <1>2, <1>4 DEF Numbers
    <2>. QED
      BY <1>2, <2>1 DEF GaplessInv, NumbersWithoutGap
  <1>. QED
    BY <1>8, <1>9, <1>10 DEF GaplessInv, NumbersWithoutGap

\* Invoice numbers are unique and gapless, whatever rolls back in between.
THEOREM NumbersGapless == ASSUME ~AllowRepeats PROVE Spec => []NumbersWithoutGap
  <1>1. Init => GaplessInv
    <2> SUFFICES ASSUME Init PROVE GaplessInv
      OBVIOUS
    <2>1. invoices = {} /\ Numbers = {}
      BY DEF Init, Numbers
    <2>2. IsFiniteSet(invoices) /\ Cardinality(invoices) = 0
      BY <2>1, FS_EmptySet
    <2>. QED
      BY <2>1, <2>2 DEF GaplessInv, NumbersWithoutGap
  <1>2. GaplessInv /\ IInv /\ [Next]_vars => GaplessInv'
    <2> SUFFICES ASSUME GaplessInv, IInv, [Next]_vars PROVE GaplessInv'
      OBVIOUS
    <2>1. CASE \E t \in Txns : CommitIssue(t)
      BY <2>1, CommitIssueGapless
    <2>2. CASE ~\E t \in Txns : CommitIssue(t)
      <3>1. UNCHANGED invoices
        BY <2>2, OthersWriteNothing DEF Commit, CommitUpdate, CommitCancel
      <3>. QED
        BY <3>1 DEF GaplessInv, NumbersWithoutGap, Numbers
    <2>. QED
      BY <2>1, <2>2
  <1>3. GaplessInv => NumbersWithoutGap
    BY DEF GaplessInv
  <1>. QED
    BY <1>1, <1>2, <1>3, InvariantHolds, PTL DEF Spec
-----------------------------------------------------------------------------
(***************************************************************************)
(* What invoices bill.                                                     *)
(***************************************************************************)
\* The lines that a set I of invoices bills, as a function of the invoice
BilledBy(I, l) == [i \in I |-> i.lines[l]]

BillingInv == IsFiniteSet(invoices) /\ InvoicedIsBilled

LEMMA IssueBills ==
  ASSUME IInv, BillingInv, NEW t \in Txns, CommitIssue(t)
  PROVE  BillingInv'
  <1> DEFINE b == Bill(t)
  <1>1. b.number = number[t] /\ b.lines = pick[t]
    BY DEF Bill
  <1>2. b \notin invoices
    <2>1. Inserted(t)
      BY DEF CommitIssue, Inserted
    <2>. QED
      BY <1>1, <2>1 DEF IInv, NumberInv, Numbers
  <1>3. /\ invoices' = invoices \cup {b}
        /\ invoiced' = [l \in LineIds |-> invoiced[l] + pick[t][l]]
    BY CommitAdds DEF CommitIssue
  <1>4. IsFiniteSet(invoices) /\ IsFiniteSet(invoices')
    BY <1>3, FS_AddElement DEF BillingInv
  <1>5. ASSUME NEW l \in LineIds
        PROVE  invoiced'[l] = SumFunction(BilledBy(invoices', l))
    <2> DEFINE f == BilledBy(invoices', l)
               g == BilledBy(invoices, l)
    <2>1. \A i \in invoices : i.lines[l] \in Nat
      BY DEF IInv, TypeOK
    <2>2. pick[t][l] \in Nat
      BY DEF IInv, TypeOK
    <2>3. f[b] = pick[t][l] /\ \A i \in invoices : f[i] = g[i]
      BY <1>1, <1>3 DEF BilledBy
    <2>4. \A i \in invoices \cup {b} : f[i] \in Int
      BY <2>1, <2>2, <2>3 DEF BilledBy
    <2>5. SumFunctionOnSet(f, invoices') = f[b] + SumFunctionOnSet(f, invoices)
      <3> HIDE DEF f, b
      <3>. QED BY <1>2, <1>3, <1>4, <2>4, SumWithOne
    <2>6. SumFunctionOnSet(f, invoices) = SumFunctionOnSet(g, invoices)
      <3> HIDE DEF f, g
      <3>. QED BY <1>4, <2>3, SumOfSame
    <2>7. DOMAIN f = invoices' /\ DOMAIN g = invoices
      BY DEF BilledBy
    <2>8. invoiced[l] = SumFunction(g)
      BY DEF BillingInv, InvoicedIsBilled, Billed, BilledBy
    <2>9. invoiced[l] \in Nat
      BY DEF IInv, TypeOK
    <2>10. SumFunction(f) = pick[t][l] + invoiced[l]
      BY <2>3, <2>5, <2>6, <2>7, <2>8 DEF SumFunction
    <2>. QED
      BY <1>3, <2>2, <2>9, <2>10
  <1>6. InvoicedIsBilled'
    BY <1>5 DEF InvoicedIsBilled, Billed, BilledBy
  <1>. QED
    BY <1>4, <1>6 DEF BillingInv

LEMMA InitBilling == Init => BillingInv
  <1> SUFFICES ASSUME Init PROVE BillingInv
    OBVIOUS
  <1>1. invoices = {} /\ \A l \in LineIds : invoiced[l] = 0
    BY DEF Init, Zero
  <1>2. \A l \in LineIds : Billed(l) = 0
    BY <1>1, SumOfEmpty DEF Billed, SumFunction
  <1>. QED
    BY <1>1, <1>2, FS_EmptySet DEF BillingInv, InvoicedIsBilled

LEMMA NextBilling ==
  ASSUME IInv, BillingInv, [Next]_vars
  PROVE  BillingInv'
  <1>1. CASE \E t \in Txns : CommitIssue(t)
    BY <1>1, IssueBills
  <1>2. CASE ~\E t \in Txns : CommitIssue(t)
    <2>1. UNCHANGED <<invoiced, invoices>>
      BY <1>2, OthersWriteNothing DEF Commit, CommitUpdate, CommitCancel
    <2>. QED
      BY <2>1 DEF BillingInv, InvoicedIsBilled, Billed
  <1>. QED
    BY <1>1, <1>2

\* What a line says is invoiced is what the invoices bill of it: no increment
\* is lost and none is written for an invoice that is not there.
THEOREM InvoicedAsBilled == ASSUME ~AllowRepeats PROVE Spec => []InvoicedIsBilled
  <1>1. BillingInv /\ IInv /\ [Next]_vars => BillingInv'
    BY NextBilling
  <1>2. BillingInv => InvoicedIsBilled
    BY DEF BillingInv
  <1>. QED
    BY <1>1, <1>2, InitBilling, InvariantHolds, PTL DEF Spec

\* The invoices of a line, however many and however they were interleaved, add
\* up to no more than it orders.
THEOREM InvoicesWithinOrder == ASSUME ~AllowRepeats PROVE Spec => []NotOverInvoiced
  <1>1. IInv /\ InvoicedIsBilled => NotOverInvoiced
    BY DEF IInv, LineInv, InvoicedIsBilled, NotOverInvoiced
  <1>. QED
    BY <1>1, InvariantHolds, InvoicedAsBilled, PTL
-----------------------------------------------------------------------------
(***************************************************************************)
(* What a request may rely on while no edit or cancellation is open beside *)
(* another request: an edit finds the order as it read it; an invoicing    *)
(* request has the lines of the order, and copies that are no newer than   *)
(* the rows.                                                               *)
(***************************************************************************)
EditView(t) ==
  /\ status = "confirmed"
  /\ pc[t] # "lines" => \A l \in live : invoiced[l] = 0
  /\ pc[t] = "deleting" => live \subseteq rows[t]
  /\ kind[t] = "update" /\ pc[t] \in {"flush", "order_row", "commit"} =>
       \A l \in live : l \in rows[t] /\ lock[l] = t

IssueView(t) ==
  /\ status # "cancelled"
  /\ seenStatus[t] \in {"confirmed", "partially_invoiced"}
  /\ seenStatus[t] = "partially_invoiced" => status # "confirmed"
  /\ pc[t] # "lines" => /\ rows[t] = live
                        /\ \A l \in LineIds : seen[t][l] <= invoiced[l]

View(t) == IF Issuing(t) THEN IssueView(t) ELSE EditView(t)

NoneBeside == \A t, u \in Txns :
  t # u /\ Open(t) /\ Open(u) => Issuing(t) /\ Issuing(u)

DoneIsFull == status = "done" => \A l \in live : invoiced[l] = qty[l]

SerialInv == ~overlapped =>
  NoneBeside /\ DoneIsFull /\ \A t \in Txns : Open(t) => View(t)

\* A step of t that commits nothing leaves the others what they rely on.
LEMMA SerialFrame ==
  ASSUME SerialInv, NEW t \in Txns, Open(t),
         UNCHANGED <<status, live, qty, invoiced, kind, overlapped>>,
         \A u \in Txns : u # t =>
           /\ pc'[u] = pc[u] /\ seenStatus'[u] = seenStatus[u]
           /\ rows'[u] = rows[u] /\ seen'[u] = seen[u]
           /\ \A l \in LineIds : lock[l] = u => lock'[l] = u,
         live \subseteq LineIds,
         ~overlapped /\ Open(t)' => View(t)'
  PROVE  SerialInv'
  <1> SUFFICES ASSUME ~overlapped PROVE SerialInv'
    BY DEF SerialInv
  <1>1. \A u \in Txns : Open(u)' => Open(u)
    BY DEF Open
  <1>2. NoneBeside' /\ DoneIsFull'
    BY <1>1 DEF SerialInv, NoneBeside, DoneIsFull, Issuing
  <1>3. ASSUME NEW u \in Txns, u # t, Open(u)' PROVE View(u)'
    <2>1. View(u)
      BY <1>1, <1>3 DEF SerialInv
    <2>2. \A l \in live : lock[l] = u => lock'[l] = u
      BY <1>3
    <2>3. Issuing(u)' = Issuing(u)
      BY DEF Issuing
    <2>4. CASE Issuing(u)
      BY <1>3, <2>1, <2>3, <2>4 DEF View, IssueView
    <2>5. CASE ~Issuing(u)
      BY <1>3, <2>1, <2>2, <2>3, <2>5 DEF View, EditView
    <2>. QED
      BY <2>4, <2>5
  <1>. QED
    BY <1>2, <1>3 DEF SerialInv

LEMMA SerialAbort ==
  ASSUME TypeOK, SerialInv, NEW t \in Txns, Open(t), Abort(t)
  PROVE  SerialInv'
  <1>1. /\ pc'[t] = "aborted" /\ ~Open(t)'
        /\ \A u \in Txns : u # t => pc'[u] = pc[u]
    BY DEF Abort, End, Goto, TypeOK, Open, Ended
  <1>2. \A l \in LineIds, u \in Txns : u # t /\ lock[l] = u => lock'[l] = u
    BY DEF Abort, End, TypeOK, Rows
  <1>3. UNCHANGED <<db, session>>
    BY DEF Abort
  <1>4. live \subseteq LineIds
    BY DEF TypeOK
  <1>. QED
    BY <1>1, <1>2, <1>3, <1>4, SerialFrame DEF db, session

\* The steps that neither commit nor end the request.
LEMMA SerialSteps ==
  ASSUME IInv, TypeOK', SerialInv, NEW t \in Txns,
         \/ ReadLines(t) /\ ~Abort(t)
         \/ \E l \in LineIds, q \in AskQtys : AskLine(t, l, q)
         \/ LockLine(t) /\ ~Abort(t)
         \/ EndSelection(t) /\ ~Abort(t)
         \/ TakeNumber(t)
         \/ InsertInvoice(t) /\ ~Abort(t)
         \/ StartDelete(t)
         \/ \E l \in LineIds : DeleteNext(t, l)
         \/ DeleteLine(t) \/ EndDelete(t) \/ FlushOrder(t) \/ LockOrder(t)
  PROVE  SerialInv'
  <1> USE DEF Open, Ended, Goto
  <1>0. /\ live \subseteq LineIds /\ LineIds \subseteq Rows
        /\ pc \in [Txns -> PCs] /\ lock \in [Rows -> Txns \cup {NoTxn}]
        /\ want \in [Txns -> Rows \cup {NoRow}]
        /\ rows \in [Txns -> SUBSET LineIds]
        /\ seen \in [Txns -> [LineIds -> Nat]]
        /\ invoiced \in [LineIds -> Nat]
        /\ kind[t] \in AllKinds
        /\ \A u \in Txns : u # NoTxn
    BY ConstantsAssumption DEF IInv, TypeOK, Rows
  <1>1. CASE ReadLines(t) /\ ~Abort(t)
    <2>1. /\ pc[t] = "lines"
          /\ rows' = [rows EXCEPT ![t] = live]
          /\ seen' = [seen EXCEPT ![t] = invoiced]
          /\ pc' = [pc EXCEPT ![t] = IF Issuing(t) THEN "select"
                       ELSE IF kind[t] = "update" THEN "delete" ELSE "flush"]
          /\ Issuing(t) \/ \A l \in live : ~(invoiced[l] > 0)
          /\ UNCHANGED <<status, live, qty, invoiced, kind, overlapped, lock, seenStatus>>
      BY <1>1 DEF ReadLines, db
    <2>2. /\ rows'[t] = live /\ seen'[t] = invoiced
          /\ pc'[t] \in {"select", "delete", "flush"}
          /\ kind[t] = "update" => pc'[t] = "delete"
          /\ \A u \in Txns : u # t => /\ pc'[u] = pc[u] /\ rows'[u] = rows[u]
                                      /\ seen'[u] = seen[u]
      BY <1>0, <2>1 DEF Issuing
    <2>3. Issuing(t)' = Issuing(t)
      BY <2>1 DEF Issuing
    <2>4. ASSUME ~overlapped PROVE View(t)'
      <3>1. View(t)
        BY <2>1, <2>4 DEF SerialInv
      <3>2. CASE Issuing(t)
        <4>1. \A l \in LineIds : seen'[t][l] <= invoiced'[l]
          BY <1>0, <2>1, <2>2
        <4>. QED
          BY <2>1, <2>2, <2>3, <3>1, <3>2, <4>1 DEF View, IssueView
      <3>3. CASE ~Issuing(t)
        <4>1. \A l \in live : invoiced'[l] = 0
          BY <1>0, <2>1, <3>3
        <4>. QED
          BY <2>1, <2>2, <2>3, <3>1, <3>3, <4>1 DEF View, EditView
      <3>. QED
        BY <3>2, <3>3
    <2>. QED
      BY <1>0, <2>1, <2>2, <2>4, SerialFrame
  \* A step of an invoicing request, which keeps what it read.
  <1>2. ASSUME Issuing(t), Open(t), pc[t] # "lines",
               UNCHANGED <<status, live, qty, invoiced, kind, overlapped, seenStatus, rows>>,
               \A u \in Txns : u # t => pc'[u] = pc[u] /\ seen'[u] = seen[u],
               \A l \in LineIds, u \in Txns : u # t /\ lock[l] = u => lock'[l] = u,
               \A l \in LineIds : seen'[t][l] = seen[t][l] \/ seen'[t][l] = invoiced[l]
        PROVE  SerialInv'
    <2>1. ASSUME ~overlapped PROVE View(t)'
      <3>1. IssueView(t)
        BY <1>2, <2>1 DEF SerialInv, View
      <3>2. \A l \in LineIds : seen'[t][l] <= invoiced'[l]
        BY <1>0, <1>2, <3>1 DEF IssueView
      <3>. QED
        BY <1>2, <3>1, <3>2 DEF View, IssueView, Issuing
    <2>2. \A u \in Txns : u # t =>
            /\ pc'[u] = pc[u] /\ seenStatus'[u] = seenStatus[u]
            /\ rows'[u] = rows[u] /\ seen'[u] = seen[u]
            /\ \A l \in LineIds : lock[l] = u => lock'[l] = u
      BY <1>2
    <2>3. UNCHANGED <<status, live, qty, invoiced, kind, overlapped>>
      BY <1>2
    <2>. QED
      BY <1>0, <1>2, <2>1, <2>2, <2>3, SerialFrame
  <1>3. CASE \E l \in LineIds, q \in AskQtys : AskLine(t, l, q)
    BY <1>0, <1>2, <1>3 DEF AskLine, db
  <1>4. CASE LockLine(t) /\ ~Abort(t)
    <2> DEFINE l == want[t]
    <2>1. /\ pc[t] = "locking" /\ l \in live /\ lock[l] \in {NoTxn, t}
          /\ pc' = [pc EXCEPT ![t] = "select"]
          /\ lock' = [lock EXCEPT ![l] = t]
          /\ seen' = [seen EXCEPT ![t][l] = invoiced[l]]
          /\ UNCHANGED <<status, live, qty, invoiced, kind, overlapped, seenStatus, rows>>
      BY <1>4 DEF LockLine, Free, db
    <2>2. Issuing(t)
      BY <2>1 DEF IInv, PathInv, IssuePath
    <2>3. \A m \in LineIds : seen'[t][m] = seen[t][m] \/ seen'[t][m] = invoiced[m]
      BY <1>0, <2>1
    <2>4. \A m \in LineIds, u \in Txns : u # t /\ lock[m] = u => lock'[m] = u
      BY <1>0, <2>1
    <2>5. \A u \in Txns : u # t => pc'[u] = pc[u] /\ seen'[u] = seen[u]
      BY <1>0, <2>1
    <2>. QED
      BY <1>2, <2>1, <2>2, <2>3, <2>4, <2>5
  <1>5. CASE EndSelection(t) /\ ~Abort(t)
    BY <1>0, <1>2, <1>5 DEF EndSelection, db, session, IInv, PathInv, IssuePath
  <1>6. CASE TakeNumber(t)
    BY <1>0, <1>2, <1>6 DEF TakeNumber, db, IInv, PathInv, IssuePath
  <1>7. CASE InsertInvoice(t) /\ ~Abort(t)
    BY <1>0, <1>2, <1>7 DEF InsertInvoice, db, session, IInv, PathInv, IssuePath
  \* A step of an edit or cancellation.
  <1>8. ASSUME ~Issuing(t), Open(t), pc[t] # "lines",
               UNCHANGED <<status, live, qty, invoiced, kind, overlapped, seenStatus, seen>>,
               \A u \in Txns : u # t => pc'[u] = pc[u] /\ rows'[u] = rows[u],
               \A l \in LineIds, u \in Txns : u # t /\ lock[l] = u => lock'[l] = u,
               ~overlapped /\ EditView(t) /\ pc'[t] = "deleting" => live \subseteq rows'[t],
               ~overlapped /\ EditView(t) /\ kind[t] = "update"
                 /\ pc'[t] \in {"flush", "order_row", "commit"} =>
                      \A l \in live : l \in rows'[t] /\ lock'[l] = t
        PROVE  SerialInv'
    <2>1. ASSUME ~overlapped PROVE View(t)'
      <3>1. EditView(t)
        BY <1>8, <2>1 DEF SerialInv, View
      <3>. QED
        BY <1>8, <2>1, <3>1 DEF View, EditView, Issuing
    <2>2. \A u \in Txns : u # t =>
            /\ pc'[u] = pc[u] /\ seenStatus'[u] = seenStatus[u]
            /\ rows'[u] = rows[u] /\ seen'[u] = seen[u]
            /\ \A l \in LineIds : lock[l] = u => lock'[l] = u
      BY <1>8
    <2>3. UNCHANGED <<status, live, qty, invoiced, kind, overlapped>>
      BY <1>8
    <2>. QED
      BY <1>0, <1>8, <2>1, <2>2, <2>3, SerialFrame
  <1>9. CASE StartDelete(t)
    <2>1. /\ pc[t] = "delete" /\ pc'[t] = "deleting" /\ rows'[t] = live
          /\ \A u \in Txns : u # t => pc'[u] = pc[u] /\ rows'[u] = rows[u]
          /\ UNCHANGED <<status, live, qty, invoiced, kind, overlapped, seenStatus, seen, lock>>
      BY <1>0, <1>9 DEF StartDelete, db
    <2>. QED
      BY <1>8, <2>1 DEF IInv, PathInv, UpdatePath
  <1>10. ASSUME NEW l \in LineIds, DeleteNext(t, l) PROVE SerialInv'
    <2>1. /\ pc[t] = "deleting"
          /\ UNCHANGED <<status, live, qty, invoiced, kind, overlapped, seenStatus, seen,
                         lock, pc, rows>>
      BY <1>10 DEF DeleteNext, db, session
    <2>. QED
      BY <1>8, <2>1 DEF IInv, PathInv, UpdatePath, EditView
  <1>11. CASE DeleteLine(t)
    <2>1. /\ pc[t] = "deleting"
          /\ UNCHANGED <<status, live, qty, invoiced, kind, overlapped, seenStatus, seen,
                         pc, rows>>
          /\ \A l \in LineIds, u \in Txns : u # t /\ lock[l] = u => lock'[l] = u
      BY <1>0, <1>11 DEF DeleteLine, Free, db, session
    <2>. QED
      BY <1>8, <2>1 DEF IInv, PathInv, UpdatePath, EditView
  <1>12. CASE EndDelete(t)
    <2>1. /\ pc[t] = "deleting" /\ pc'[t] = "flush"
          /\ \A u \in Txns : u # t => pc'[u] = pc[u]
          /\ \A l \in rows[t] \cap live : lock[l] = t
          /\ UNCHANGED <<status, live, qty, invoiced, kind, overlapped, seenStatus, seen,
                         lock, rows>>
      BY <1>0, <1>12 DEF EndDelete, db, session
    <2>2. EditView(t) => \A l \in live : l \in rows[t] /\ lock[l] = t
      BY <2>1 DEF EditView
    <2>. QED
      BY <1>8, <2>1, <2>2 DEF IInv, PathInv, UpdatePath
  <1>13. CASE FlushOrder(t) \/ LockOrder(t)
    <2>1. /\ pc[t] \in {"flush", "order_row"} /\ pc'[t] \in {"order_row", "commit"}
          /\ \A u \in Txns : u # t => pc'[u] = pc[u]
          /\ UNCHANGED <<status, live, qty, invoiced, kind, overlapped, seenStatus, seen, rows>>
      BY <1>0, <1>13 DEF FlushOrder, LockOrder, db, session
    <2>2. \A l \in LineIds : lock'[l] = lock[l]
      BY <1>0, <1>13, ConstantsAssumption DEF FlushOrder, LockOrder
    <2>3. EditView(t) /\ kind[t] = "update" => \A l \in live : l \in rows'[t] /\ lock'[l] = t
      BY <1>0, <2>1, <2>2 DEF EditView
    <2>4. CASE Issuing(t)
      BY <1>2, <2>1, <2>2, <2>4
    <2>5. CASE ~Issuing(t)
      BY <1>8, <2>1, <2>2, <2>3, <2>5
    <2>. QED
      BY <2>4, <2>5
  <1>. QED
    BY <1>1, <1>3, <1>4, <1>5, <1>6, <1>7, <1>9, <1>10, <1>11, <1>12, <1>13

LEMMA SerialReadOrder ==
  ASSUME IInv, SerialInv, NEW t \in Txns, ReadOrder(t)
  PROVE  SerialInv'
  <1>0. TypeOK /\ pc[t] = "idle" /\ Open(t) = FALSE
    BY DEF IInv, ReadOrder, Open, Ended
  <1>1. CASE status \in Gate(kind[t])
    <2>1. /\ pc'[t] = "lines" /\ seenStatus'[t] = status
          /\ \A u \in Txns : u # t => pc'[u] = pc[u] /\ seenStatus'[u] = seenStatus[u]
          /\ UNCHANGED <<status, live, qty, invoiced, lock, kind, rows, seen>>
          /\ overlapped' = (overlapped \/ Overlaps(t))
      BY <1>0, <1>1 DEF ReadOrder, Goto, TypeOK, db
    <2> SUFFICES ASSUME ~overlapped' PROVE SerialInv'
      BY DEF SerialInv
    <2>2. ~overlapped /\ ~Overlaps(t)
      BY <2>1
    <2>3. \A u \in Txns : u # t /\ Open(u)' => Open(u) /\ Issuing(t) /\ Issuing(u)
      BY <2>1, <2>2 DEF Overlaps, Open
    <2>4. NoneBeside'
      BY <2>1, <2>2, <2>3 DEF SerialInv, NoneBeside, Open, Issuing
    <2>5. DoneIsFull'
      BY <2>1, <2>2 DEF SerialInv, DoneIsFull
    <2>6. ASSUME NEW u \in Txns, u # t, Open(u)' PROVE View(u)'
      BY <2>1, <2>2, <2>3, <2>6 DEF SerialInv, View, IssueView, Issuing
    <2>7. View(t)'
      BY <1>1, <2>1 DEF View, IssueView, EditView, Issuing, Gate
    <2>. QED
      BY <2>4, <2>5, <2>6, <2>7 DEF SerialInv
  <1>2. CASE status \notin Gate(kind[t])
    <2>1. Abort(t)
      BY <1>2 DEF ReadOrder
    <2>2. /\ \A u \in Txns : u # t => pc'[u] = pc[u]
          /\ pc'[t] = "aborted"
          /\ UNCHANGED <<status, live, qty, invoiced, kind, rows, seen, seenStatus, overlapped>>
          /\ \A l \in LineIds, u \in Txns : u # t /\ lock[l] = u => lock'[l] = u
      BY <1>0, <2>1 DEF Abort, End, Goto, TypeOK, Rows, db, session
    <2> SUFFICES ASSUME ~overlapped PROVE SerialInv'
      BY <2>2 DEF SerialInv
    <2>3. \A u \in Txns : Open(u)' => u # t /\ Open(u)
      BY <2>2 DEF Open, Ended
    <2>4. NoneBeside' /\ DoneIsFull'
      BY <2>2, <2>3 DEF SerialInv, NoneBeside, DoneIsFull, Issuing
    <2>5. ASSUME NEW u \in Txns, Open(u)' PROVE View(u)'
      <3>1. View(u) /\ u # t /\ \A l \in live : lock[l] = u => lock'[l] = u
        BY <1>0, <2>2, <2>3, <2>5 DEF SerialInv, TypeOK
      <3>. QED
        BY <2>2, <3>1 DEF View, IssueView, EditView, Issuing
    <2>. QED
      BY <2>2, <2>4, <2>5 DEF SerialInv
  <1>. QED
    BY <1>1, <1>2

\* The lines of an order that an invoice takes to "done" are full, and an
\* order that is done has nothing left to select.
LEMMA SerialIssue ==
  ASSUME IInv, TypeOK', SerialInv, NEW t \in Txns, CommitIssue(t)
  PROVE  /\ SerialInv'
         /\ ~overlapped =>
              /\ status \in {"confirmed", "partially_invoiced"}
              /\ \/ status' = "partially_invoiced"
                 \/ status' = "done" /\ \A l \in live : invoiced'[l] = qty[l]
  <1>1. /\ pc[t] = "commit" /\ Issuing(t) /\ Open(t)
        /\ UNCHANGED <<live, qty, kind, rows, seen, seenStatus, pick, overlapped>>
        /\ status' = IF TouchesOrder(t) THEN InvoicedStatus(t) ELSE status
        /\ End(t, "committed")
    BY DEF CommitIssue, session, Open, Ended
  <1>2. /\ invoiced' = [l \in LineIds |-> invoiced[l] + pick[t][l]]
        /\ \A l \in LineIds :
              pick[t][l] > 0 => l \in live /\ invoiced[l] + pick[t][l] <= qty[l]
    BY CommitAdds
  <1>3. /\ live \subseteq LineIds
        /\ \A l \in LineIds : /\ pick[t][l] \in Nat /\ qty[l] \in Nat
                              /\ invoiced[l] \in Nat /\ invoiced[l] <= qty[l]
        /\ \A u \in Txns, l \in LineIds : seen[u][l] \in Nat
        /\ status \in Statuses
    BY DEF IInv, TypeOK, LineInv
  <1>4. \A l \in LineIds : invoiced[l] <= invoiced'[l] /\ invoiced'[l] <= qty[l]
                           /\ invoiced'[l] \in Nat
    <2> SUFFICES ASSUME NEW l \in LineIds
                 PROVE  invoiced[l] <= invoiced'[l] /\ invoiced'[l] <= qty[l]
                        /\ invoiced'[l] \in Nat
      OBVIOUS
    <2>1. invoiced'[l] = invoiced[l] + pick[t][l]
      BY <1>2
    <2>2. CASE pick[t][l] > 0
      BY <1>2, <1>3, <2>1, <2>2
    <2>3. CASE ~(pick[t][l] > 0)
      BY <1>3, <2>1, <2>3
    <2>. QED
      BY <2>2, <2>3
  <1> SUFFICES ASSUME ~overlapped
               PROVE  /\ SerialInv'
                      /\ status \in {"confirmed", "partially_invoiced"}
                      /\ \/ status' = "partially_invoiced"
                         \/ status' = "done" /\ \A l \in live : invoiced'[l] = qty[l]
    BY <1>1 DEF SerialInv
  <1>5. IssueView(t) /\ rows[t] = live /\ \A l \in LineIds : seen[t][l] <= invoiced[l]
    BY <1>1 DEF SerialInv, View, IssueView
  <1>6. \E l \in live : invoiced[l] # qty[l]
    <2>1. PICK l \in LineIds : pick[t][l] > 0
      BY <1>1 DEF IInv, NumberInv, Numbered
    <2>. QED
      BY <1>2, <1>3, <2>1
  <1>7. status \in {"confirmed", "partially_invoiced"}
    BY <1>3, <1>5, <1>6 DEF SerialInv, DoneIsFull, IssueView, Statuses
  <1>8. InvoicedStatus(t) = "done" => \A l \in live : invoiced'[l] = qty[l]
    <2> SUFFICES ASSUME InvoicedStatus(t) = "done", NEW l \in live
                 PROVE  invoiced'[l] = qty[l]
      OBVIOUS
    <2>1. seen[t][l] + pick[t][l] >= qty[l] /\ l \in LineIds
      BY <1>3, <1>5 DEF InvoicedStatus
    <2>2. invoiced'[l] = invoiced[l] + pick[t][l] /\ seen[t][l] <= invoiced[l]
      BY <1>2, <1>5, <2>1
    <2>. QED
      BY <1>3, <1>4, <2>1, <2>2
  <1>9. \/ status' = "partially_invoiced"
        \/ status' = "done" /\ \A l \in live : invoiced'[l] = qty[l]
    <2>1. InvoicedStatus(t) \in {"done", "partially_invoiced"}
      BY DEF InvoicedStatus
    <2>2. CASE TouchesOrder(t)
      BY <1>1, <1>8, <2>1, <2>2
    <2>3. CASE ~TouchesOrder(t)
      <3>1. seenStatus[t] = "partially_invoiced"
        BY <1>5, <2>1, <2>3 DEF TouchesOrder, IssueView
      <3>. QED
        BY <1>1, <1>5, <1>7, <2>3, <3>1 DEF IssueView
    <2>. QED
      BY <2>2, <2>3
  <1>10. /\ pc'[t] = "committed"
         /\ \A u \in Txns : u # t => pc'[u] = pc[u]
    BY <1>1, EndFrame DEF IInv
  <1>11. \A u \in Txns : Open(u)' => u # t /\ Open(u) /\ Issuing(u)
    <2>1. \A u \in Txns : Open(u)' => u # t /\ Open(u)
      BY <1>10 DEF Open, Ended
    <2>. QED
      BY <1>1, <2>1 DEF SerialInv, NoneBeside
  <1>12. NoneBeside'
    BY <1>1, <1>11 DEF NoneBeside, Issuing
  <1>13. DoneIsFull'
    BY <1>1, <1>9 DEF DoneIsFull
  <1>14. ASSUME NEW u \in Txns, Open(u)' PROVE View(u)'
    <2>1. IssueView(u) /\ u # t /\ Issuing(u) /\ Issuing(u)'
      BY <1>1, <1>11, <1>14 DEF SerialInv, View, Issuing
    <2>2. pc'[u] # "lines" => \A l \in LineIds : seen[u][l] <= invoiced'[l]
      BY <1>3, <1>4, <1>10, <2>1 DEF IssueView
    <2>. QED
      BY <1>1, <1>9, <1>10, <2>1, <2>2 DEF View, IssueView
  <1>. QED
    BY <1>7, <1>9, <1>12, <1>13, <1>14 DEF SerialInv

\* An edit or cancellation that nothing is open beside commits on an order of
\* which nothing is invoiced.
LEMMA SerialEdit ==
  ASSUME IInv, SerialInv, NEW t \in Txns, CommitUpdate(t) \/ CommitCancel(t)
  PROVE  /\ SerialInv'
         /\ ~overlapped => EditView(t) /\ pc[t] = "commit"
  <1>1. /\ pc[t] = "commit" /\ ~Issuing(t) /\ Open(t)
        /\ kind[t] = "update" \/ kind[t] = "cancel"
        /\ UNCHANGED <<kind, overlapped>>
        /\ status' = status \/ status' = "cancelled"
        /\ End(t, "committed")
    BY DEF CommitUpdate, CommitCancel, session, Open, Ended, Issuing
  <1> SUFFICES ASSUME ~overlapped PROVE SerialInv' /\ EditView(t) /\ pc[t] = "commit"
    BY <1>1 DEF SerialInv
  <1>2. EditView(t)
    BY <1>1 DEF SerialInv, View
  <1>3. /\ pc'[t] = "committed"
        /\ \A u \in Txns : u # t => pc'[u] = pc[u]
    BY <1>1, EndFrame DEF IInv
  <1>4. \A u \in Txns : ~Open(u)'
    <2>1. \A u \in Txns : Open(u)' => u # t /\ Open(u)
      BY <1>3 DEF Open, Ended
    <2>. QED
      BY <1>1, <2>1 DEF SerialInv, NoneBeside
  <1>5. status' # "done"
    BY <1>1, <1>2 DEF EditView
  <1>. QED
    BY <1>1, <1>2, <1>4, <1>5 DEF SerialInv, NoneBeside, DoneIsFull

LEMMA NextSerial ==
  ASSUME IInv, IInv', SerialInv, [Next]_vars
  PROVE  SerialInv'
  <1>0. TypeOK /\ TypeOK'
    BY DEF IInv
  <1>1. ASSUME NEW t \in Txns, Open(t), Abort(t) PROVE SerialInv'
    BY <1>0, <1>1, SerialAbort
  <1>2. ASSUME NEW t \in Txns, ReadOrder(t) PROVE SerialInv'
    BY <1>2, SerialReadOrder
  <1>3. ASSUME NEW t \in Txns, Fail(t) PROVE SerialInv'
    BY <1>1, <1>3 DEF Fail, Open
  <1>4. ASSUME NEW t \in Txns, Step(t) PROVE SerialInv'
    <2>1. CASE ReadLines(t) \/ LockLine(t) \/ EndSelection(t) \/ InsertInvoice(t)
      <3>1. Open(t)
        BY <2>1 DEF ReadLines, LockLine, EndSelection, InsertInvoice, Open, Ended
      <3>. QED
        BY <1>0, <1>1, <2>1, <3>1, SerialSteps
    <2>2. CASE DeadlockVictim(t)
      BY <1>1, <2>2 DEF DeadlockVictim, Open
    <2>3. CASE \E l \in LineIds, q \in AskQtys : AskLine(t, l, q)
      BY <1>0, <2>3, SerialSteps
    <2>4. CASE TakeNumber(t) \/ StartDelete(t) \/ DeleteLine(t) \/ EndDelete(t)
               \/ FlushOrder(t) \/ LockOrder(t)
      BY <1>0, <2>4, SerialSteps
    <2>5. CASE \E l \in LineIds : DeleteNext(t, l)
      BY <1>0, <2>5, SerialSteps
    <2>6. CASE CommitIssue(t)
      BY <1>0, <2>6, SerialIssue
    <2>7. CASE CommitUpdate(t) \/ CommitCancel(t)
      BY <2>7, SerialEdit
    <2>. QED
      BY <1>4, <2>1, <2>2, <2>3, <2>4, <2>5, <2>6, <2>7 DEF Step, Commit
  <1>5. CASE UNCHANGED vars
    BY <1>5 DEF vars, SerialInv, NoneBeside, DoneIsFull, View, IssueView, EditView,
                Open, Issuing
  <1>. QED
    BY <1>2, <1>3, <1>4, <1>5 DEF Next

LEMMA InitSerial == Init => SerialInv
  BY DEF Init, SerialInv, NoneBeside, DoneIsFull, Open, Ended
-----------------------------------------------------------------------------
(***************************************************************************)
(* While no edit or cancellation overlaps another request, interleaved     *)
(* requests implement the atomic ledger.                                   *)
(***************************************************************************)
LEMMA InitLedger == Init => Ledger!Init
  <1> SUFFICES ASSUME Init PROVE Ledger!Init
    OBVIOUS
  <1>1. qty \in [LineIds -> OrderQtys \cup {0}]
    BY DEF Init
  <1>. QED
    BY <1>1 DEF Init, Ledger!Init, Zero

LEMMA IssueLedger ==
  ASSUME IInv, TypeOK', SerialInv, ~overlapped, NEW t \in Txns, CommitIssue(t)
  PROVE  Ledger!Next
  <1> DEFINE i == Bill(t)
  <1>1. i.number = number[t] /\ i.lines = pick[t]
    BY DEF Bill
  <1>2. invoices' = invoices \cup {i} /\ UNCHANGED <<live, qty>>
    BY DEF CommitIssue
  <1>3. Inserted(t) /\ Numbered(t)
    BY DEF CommitIssue, Inserted, Numbered
  <1>4. /\ number[t] \notin Ledger!Numbers
        /\ number[t] = 1 \/ \E m \in Ledger!Numbers : number[t] = m + 1
        /\ \E l \in LineIds : pick[t][l] > 0
    BY <1>3 DEF IInv, NumberInv, Numbers, Ledger!Numbers
  <1>5. /\ status \in {"confirmed", "partially_invoiced"}
        /\ \/ status' = "partially_invoiced"
           \/ status' = "done" /\ \A l \in live : invoiced'[l] = qty[l]
    BY SerialIssue
  <1>6. Ledger!Issue(i)
    BY <1>1, <1>2, <1>4, <1>5, CommitAdds DEF Ledger!Issue
  <1>. QED
    BY <1>2, <1>6 DEF Ledger!Next

LEMMA ReplaceLedger ==
  ASSUME IInv, SerialInv, ~overlapped, NEW t \in Txns, CommitUpdate(t)
  PROVE  Ledger!Next
  <1>1. PICK q \in OrderQtys : qty' = [qty EXCEPT ![t] = q]
    BY DEF CommitUpdate
  <1>2. t \in LineIds /\ qty[t] = 0
    BY DEF CommitUpdate, IInv, LineInv, LineIds
  <1>3. EditView(t) /\ pc[t] = "commit" /\ kind[t] = "update"
    BY SerialEdit DEF CommitUpdate
  <1>4. Ledger!Untouched
    BY <1>3 DEF EditView, Ledger!Untouched
  <1>5. live' = {t}
    BY <1>3 DEF EditView, CommitUpdate
  <1>6. UNCHANGED <<status, invoiced, invoices>>
    BY DEF CommitUpdate
  <1>7. Ledger!Replace(t, q)
    BY <1>1, <1>2, <1>4, <1>5, <1>6 DEF Ledger!Replace
  <1>. QED
    BY <1>2, <1>7 DEF Ledger!Next

LEMMA CancelLedger ==
  ASSUME IInv, SerialInv, ~overlapped, NEW t \in Txns, CommitCancel(t)
  PROVE  Ledger!Next
  <1>1. EditView(t) /\ pc[t] = "commit"
    BY SerialEdit
  <1>. QED
    BY <1>1 DEF EditView, CommitCancel, Ledger!Untouched, Ledger!Cancel, Ledger!Next

LEMMA NextLedger ==
  ASSUME IInv, TypeOK', SerialInv, [Next]_vars
  PROVE  [overlapped' \/ Ledger!Next]_(Ledger!vars)
  <1>1. ASSUME NEW t \in Txns, Commit(t) PROVE overlapped' \/ Ledger!Next
    <2>1. overlapped' = overlapped
      BY <1>1 DEF Commit, CommitIssue, CommitUpdate, CommitCancel, session
    <2>2. overlapped \in BOOLEAN
      BY DEF IInv, TypeOK
    <2>3. ASSUME ~overlapped PROVE Ledger!Next
      BY <1>1, <2>3, IssueLedger, ReplaceLedger, CancelLedger DEF Commit
    <2>. QED
      BY <2>1, <2>2, <2>3
  <1>2. CASE ~\E t \in Txns : Commit(t)
    BY <1>2, OthersWriteNothing DEF Ledger!vars
  <1>. QED
    BY <1>1, <1>2

\* As long as no edit or cancellation is open beside another request, every
\* interleaving is one the atomic ledger allows: invoices take effect at
\* their commits, numbered and billed within the order; an edit or a
\* cancellation meets an order of which nothing is invoiced, and an order
\* that is done is invoiced in full.
THEOREM LedgerRefinement == ASSUME ~AllowRepeats PROVE Spec => RefinesLedger
  <1>1. IInv /\ IInv' /\ SerialInv /\ [Next]_vars => SerialInv'
    BY NextSerial
  <1>2. IInv /\ IInv' /\ SerialInv /\ [Next]_vars
          => [overlapped' \/ Ledger!Next]_(Ledger!vars)
    BY NextLedger DEF IInv
  <1>. QED
    BY <1>1, <1>2, InitSerial, InitLedger, InvariantHolds, PTL DEF Spec, RefinesLedger
=============================================================================
