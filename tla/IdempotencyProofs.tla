-------------------------- MODULE IdempotencyProofs --------------------------
(***************************************************************************)
(* Proofs about Idempotency, for any set of requests, keys and bodies.     *)
(***************************************************************************)
EXTENDS Idempotency, TLAPS

Keyed(r)  == key[r] # NoKey
Working   == {"work", "complete", "commit"}
Searching == {"insert", "reread", "found"}

\* The transaction with an uncommitted row is the only one at work on its key,
\* and no row of that key is committed.
OwnerInv ==
  /\ \A k \in Keys, r \in Reqs : inserter[k] = r =>
       key[r] = k /\ pc[r] \in Working /\ row[k] = NoReq
  /\ \A r \in Reqs : Keyed(r) /\ pc[r] \in Working => inserter[key[r]] = r

\* Where a request may stand.
PathInv == \A r \in Reqs :
  /\ pc[r] \in Searching \cup {"complete"} => Keyed(r)
  /\ pc[r] = "found" => row[key[r]] # NoReq
  /\ pc[r] = "commit" /\ Keyed(r) => r \in completed
  /\ pc[r] # "done" => answer[r] = NoReq

\* A committed row stands for the one effect of its key.
RowInv ==
  /\ \A k \in Keys, r \in Reqs : row[k] = r =>
       key[r] = k /\ pc[r] = "done" /\ answer[r] = r /\ r \in completed /\ r \in executed
  /\ \A r \in executed : pc[r] = "done" /\ (Keyed(r) => row[key[r]] = r)
  /\ \A r \in Reqs : answer[r] \in Reqs => answer[r] \in executed

IInv == TypeOK /\ OwnerInv /\ PathInv /\ RowInv
-----------------------------------------------------------------------------
LEMMA InitInv == Init => IInv
  BY RequestsAssumption
  DEF Init, IInv, TypeOK, PCs, OwnerInv, PathInv, RowInv, Working, Searching, Keyed

\* Ending a transaction gives back what it held and nothing else.
LEMMA FinishFrame ==
  ASSUME TypeOK, NEW r \in Reqs, NEW a, Finish(r, a)
  PROVE  /\ pc'[r] = "done" /\ answer'[r] = a
         /\ \A q \in Reqs : q # r => pc'[q] = pc[q] /\ answer'[q] = answer[q]
         /\ \A k \in Keys : inserter'[k] = IF inserter[k] = r THEN NoReq ELSE inserter[k]
         /\ holder' \in [Keys -> Reqs \cup {NoReq}]
         /\ inserter' \in [Keys -> Reqs \cup {NoReq}]
         /\ pc' \in [Reqs -> PCs]
         /\ UNCHANGED sent
  BY DEF TypeOK, Finish, Goto, Without, PCs

LEMMA RefuseInv ==
  ASSUME IInv, NEW r \in Reqs, pc[r] # "done", Refuse(r)
  PROVE  IInv'
  <1>1. /\ pc'[r] = "done" /\ answer'[r] = Refused
        /\ \A q \in Reqs : q # r => pc'[q] = pc[q] /\ answer'[q] = answer[q]
        /\ \A k \in Keys : inserter'[k] = IF inserter[k] = r THEN NoReq ELSE inserter[k]
        /\ holder' \in [Keys -> Reqs \cup {NoReq}]
        /\ inserter' \in [Keys -> Reqs \cup {NoReq}]
        /\ pc' \in [Reqs -> PCs]
        /\ UNCHANGED <<key, body, target>>
    BY FinishFrame DEF IInv, Refuse, sent
  <1>2. UNCHANGED <<row, executed>> /\ completed' = completed \ {r}
    BY DEF Refuse
  <1>3. answer' \in [Reqs -> Reqs \cup {NoReq, Refused}]
    BY DEF Refuse, Finish, IInv, TypeOK
  <1>4. TypeOK'
    BY <1>1, <1>2, <1>3 DEF IInv, TypeOK
  <1>5. OwnerInv'
    BY <1>1, <1>2, RequestsAssumption DEF IInv, OwnerInv, Keyed, Working, TypeOK
  <1>6. PathInv'
    BY <1>1, <1>2 DEF IInv, PathInv, Keyed, Searching
  <1>7. RowInv'
    BY <1>1, <1>2, RequestsAssumption DEF IInv, RowInv, Keyed, TypeOK
  <1>. QED
    BY <1>4, <1>5, <1>6, <1>7 DEF IInv

\* A step of r that ends nothing: r moves on, and may insert its row or
\* complete it.
Moves(r) ==
  /\ UNCHANGED <<key, body, target, row, executed, answer>>
  /\ \A q \in Reqs : q # r => pc'[q] = pc[q]
  /\ pc[r] # "done" /\ pc'[r] # "done"
  /\ \A k \in Keys :
       \/ inserter'[k] = inserter[k]
       \/ k = key[r] /\ row[k] = NoReq /\ inserter[k] = NoReq /\ inserter'[k] = r
  /\ pc[r] \in Working => pc'[r] \in Working
  /\ pc'[r] \in Working /\ Keyed(r) => inserter'[key[r]] = r
  /\ inserter'[key[r]] = r /\ inserter[key[r]] # r => pc'[r] \in Working
  /\ pc'[r] \in Searching \cup {"complete"} => Keyed(r)
  /\ pc'[r] = "found" => row[key[r]] # NoReq
  /\ pc'[r] = "commit" /\ Keyed(r) => r \in completed'
  /\ completed \subseteq completed'

LEMMA MovesInv ==
  ASSUME IInv, TypeOK', NEW r \in Reqs, Moves(r)
  PROVE  IInv'
  <1> USE DEF IInv, Moves
  <1>1. OwnerInv'
    <2>1. ASSUME NEW k \in Keys, NEW q \in Reqs, inserter'[k] = q
          PROVE  key[q] = k /\ pc'[q] \in Working /\ row[k] = NoReq
      <3>1. CASE inserter[k] = q
        BY <3>1 DEF OwnerInv
      <3>2. CASE inserter[k] # q
        BY <2>1, <3>2
      <3>. QED
        BY <3>1, <3>2
    <2>2. ASSUME NEW q \in Reqs, q # r, Keyed(q), pc[q] \in Working
          PROVE  inserter'[key[q]] = q
      <3>1. inserter[key[q]] = q /\ key[q] \in Keys
        BY <2>2 DEF OwnerInv, TypeOK, Keyed
      <3>. QED
        BY <2>2, <3>1, RequestsAssumption
    <2>. QED
      BY <2>1, <2>2 DEF OwnerInv, Keyed
  <1>2. PathInv'
    BY DEF PathInv, Keyed
  <1>3. RowInv'
    <2>1. \A q \in Reqs : pc[q] = "done" => pc'[q] = "done" /\ q # r
      OBVIOUS
    <2>. QED
      BY <2>1 DEF RowInv, Keyed, TypeOK
  <1>. QED
    BY <1>1, <1>2, <1>3

LEMMA MovingSteps ==
  ASSUME IInv, NEW r \in Reqs,
         \/ Begin(r) \/ Lookup(r) \/ Insert(r) \/ (Reread(r) /\ ~Refuse(r))
         \/ Work(r) \/ MarkCompleted(r)
  PROVE  TypeOK' /\ Moves(r)
  <1> USE RequestsAssumption
  \* A step that inserts no row only has to be right about where it leads.
  <1>1. ASSUME NEW to \in PCs \ {"done"}, pc' = [pc EXCEPT ![r] = to], pc[r] # "done",
               UNCHANGED <<key, body, target, row, executed, inserter, answer>>,
               holder' \in [Keys -> Reqs \cup {NoReq}],
               completed \subseteq completed', completed' \subseteq Reqs,
               pc[r] \in Working => to \in Working,
               to \in Working /\ Keyed(r) => inserter[key[r]] = r,
               to \in Searching \cup {"complete"} => Keyed(r),
               to = "found" => row[key[r]] # NoReq,
               to = "commit" /\ Keyed(r) => r \in completed'
        PROVE  TypeOK' /\ Moves(r)
    <2>1. pc'[r] = to /\ (\A q \in Reqs : q # r => pc'[q] = pc[q]) /\ pc' \in [Reqs -> PCs]
      BY <1>1 DEF IInv, TypeOK
    <2>2. TypeOK'
      BY <1>1, <2>1 DEF IInv, TypeOK
    <2>3. to # "done"
      OBVIOUS
    <2>4. Moves(r)
      BY <1>1, <2>1, <2>3 DEF Moves, Keyed
    <2>. QED
      BY <2>2, <2>4
  <1>2. CASE Begin(r)
    <2>1. /\ pc' = [pc EXCEPT ![r] = "work"] /\ pc[r] = "idle" /\ ~Keyed(r)
          /\ UNCHANGED <<key, body, target, row, completed, executed, inserter, holder, answer>>
      BY <1>2 DEF Begin, Goto, sent, Keyed
    <2>. QED
      BY <1>1, <2>1 DEF IInv, TypeOK, PCs, Working, Searching
  <1>3. CASE Lookup(r)
    <2>1. /\ pc[r] = "idle" /\ Keyed(r) /\ key[r] \in Keys
          /\ UNCHANGED <<key, body, target, row, completed, executed, inserter, answer>>
      BY <1>3 DEF Lookup, sent, Keyed, IInv, TypeOK
    <2>2. CASE row[key[r]] = NoReq
      <3>1. pc' = [pc EXCEPT ![r] = "insert"] /\ holder' = holder
        BY <1>3, <2>2 DEF Lookup, Goto
      <3>. QED
        BY <1>1, <2>1, <3>1 DEF IInv, TypeOK, PCs, Working, Searching
    <2>3. CASE row[key[r]] # NoReq
      <3>1. pc' = [pc EXCEPT ![r] = "found"] /\ holder' = [holder EXCEPT ![key[r]] = r]
        BY <1>3, <2>3 DEF Lookup, Goto
      <3>2. holder' \in [Keys -> Reqs \cup {NoReq}]
        BY <3>1 DEF IInv, TypeOK
      <3>. QED
        BY <1>1, <2>1, <2>3, <3>1, <3>2 DEF IInv, TypeOK, PCs, Working, Searching
    <2>. QED
      BY <2>2, <2>3
  <1>4. CASE Insert(r)
    <2>1. Keyed(r) /\ key[r] \in Keys /\ pc[r] = "insert" /\ inserter[key[r]] = NoReq
      BY <1>4 DEF Insert, IInv, PathInv, TypeOK, Keyed, Searching
    <2>2. CASE row[key[r]] = NoReq
      <3>1. /\ inserter' = [inserter EXCEPT ![key[r]] = r]
            /\ pc' = [pc EXCEPT ![r] = "work"]
            /\ UNCHANGED <<key, body, target, row, completed, executed, holder, answer>>
        BY <1>4, <2>2 DEF Insert, Goto, sent
      <3>2. TypeOK'
        BY <3>1, <2>1 DEF IInv, TypeOK, PCs
      <3>3. /\ inserter'[key[r]] = r /\ \A k \in Keys : k # key[r] => inserter'[k] = inserter[k]
            /\ pc'[r] = "work" /\ \A q \in Reqs : q # r => pc'[q] = pc[q]
        BY <3>1, <2>1 DEF IInv, TypeOK
      <3>4. Moves(r)
        <4>1. \A k \in Keys : inserter'[k] = inserter[k] \/ k = key[r]
          BY <3>3
        <4>2. pc[r] # "done" /\ pc[r] \notin Working /\ pc'[r] \in Working
              /\ pc'[r] \notin Searching \cup {"complete", "found", "commit", "done"}
          BY <2>1, <3>3 DEF Working, Searching
        <4>. QED
          BY <2>1, <2>2, <3>1, <3>3, <4>1, <4>2 DEF Moves
      <3>. QED
        BY <3>2, <3>4
    <2>3. CASE row[key[r]] # NoReq
      <3>1. /\ pc' = [pc EXCEPT ![r] = "reread"]
            /\ UNCHANGED <<key, body, target, row, completed, executed, inserter, holder, answer>>
        BY <1>4, <2>3 DEF Insert, Goto, sent
      <3>. QED
        BY <1>1, <2>1, <3>1 DEF IInv, TypeOK, PCs, Working, Searching
    <2>. QED
      BY <2>2, <2>3
  <1>5. CASE Reread(r) /\ ~Refuse(r)
    <2>1. /\ pc[r] = "reread" /\ row[key[r]] # NoReq
          /\ pc' = [pc EXCEPT ![r] = "found"] /\ holder' = [holder EXCEPT ![key[r]] = r]
          /\ UNCHANGED <<key, body, target, row, completed, executed, inserter, answer>>
      BY <1>5 DEF Reread, Goto, sent
    <2>2. Keyed(r)
      BY <2>1 DEF IInv, PathInv, Searching
    <2>3. holder' \in [Keys -> Reqs \cup {NoReq}]
      BY <2>1 DEF IInv, TypeOK
    <2>. QED
      BY <1>1, <2>1, <2>2, <2>3 DEF IInv, TypeOK, PCs, Working, Searching
  <1>6. CASE Work(r)
    <2>1. /\ pc[r] = "work"
          /\ pc' = [pc EXCEPT ![r] = IF key[r] = NoKey THEN "commit" ELSE "complete"]
          /\ UNCHANGED <<key, body, target, row, completed, executed, inserter, holder, answer>>
      BY <1>6 DEF Work, Goto, sent
    <2>2. Keyed(r) => inserter[key[r]] = r
      BY <2>1 DEF IInv, OwnerInv, Working
    <2>3. CASE Keyed(r)
      BY <1>1, <2>1, <2>2, <2>3 DEF IInv, TypeOK, PCs, Working, Searching, Keyed
    <2>4. CASE ~Keyed(r)
      BY <1>1, <2>1, <2>2, <2>4 DEF IInv, TypeOK, PCs, Working, Searching, Keyed
    <2>. QED
      BY <2>3, <2>4
  <1>7. CASE MarkCompleted(r)
    <2>1. /\ pc[r] = "complete" /\ pc' = [pc EXCEPT ![r] = "commit"]
          /\ completed' = completed \cup {r}
          /\ UNCHANGED <<key, body, target, row, executed, inserter, holder, answer>>
      BY <1>7 DEF MarkCompleted, Goto, sent
    <2>2. Keyed(r) => inserter[key[r]] = r
      BY <2>1 DEF IInv, OwnerInv, Working
    <2>. QED
      BY <1>1, <2>1, <2>2 DEF IInv, TypeOK, PCs, Working, Searching
  <1>. QED
    BY <1>2, <1>3, <1>4, <1>5, <1>6, <1>7

LEMMA DecideInv ==
  ASSUME IInv, NEW r \in Reqs, Decide(r)
  PROVE  IInv'
  <1> DEFINE first == row[key[r]]
  <1>1. /\ pc[r] = "found" /\ Keyed(r) /\ key[r] \in Keys /\ first \in Reqs
        /\ answer[first] = first /\ first \in executed /\ first # r
    BY DEF Decide, IInv, PathInv, RowInv, TypeOK, Keyed, Searching
  <1>2. CASE Refuse(r)
    BY <1>1, <1>2, RefuseInv
  <1>3. CASE ~Refuse(r)
    <2>1. Finish(r, first) /\ UNCHANGED <<row, completed, executed>>
      BY <1>1, <1>3 DEF Decide
    <2>2. /\ pc'[r] = "done" /\ answer'[r] = first
          /\ \A q \in Reqs : q # r => pc'[q] = pc[q] /\ answer'[q] = answer[q]
          /\ \A k \in Keys : inserter'[k] = IF inserter[k] = r THEN NoReq ELSE inserter[k]
          /\ holder' \in [Keys -> Reqs \cup {NoReq}]
          /\ inserter' \in [Keys -> Reqs \cup {NoReq}]
          /\ pc' \in [Reqs -> PCs]
          /\ UNCHANGED <<key, body, target>>
      BY <2>1, FinishFrame DEF IInv, sent
    <2>3. answer' \in [Reqs -> Reqs \cup {NoReq, Refused}]
      BY <1>1, <2>1 DEF Finish, IInv, TypeOK
    <2>4. TypeOK'
      BY <2>1, <2>2, <2>3 DEF IInv, TypeOK
    <2>5. OwnerInv'
      BY <1>1, <2>1, <2>2, RequestsAssumption DEF IInv, OwnerInv, Keyed, Working, TypeOK
    <2>6. PathInv'
      BY <2>1, <2>2 DEF IInv, PathInv, Keyed, Searching
    <2>7. RowInv'
      BY <1>1, <2>1, <2>2 DEF IInv, RowInv, Keyed, TypeOK
    <2>. QED
      BY <2>4, <2>5, <2>6, <2>7 DEF IInv
  <1>. QED
    BY <1>2, <1>3

LEMMA CommitInv ==
  ASSUME IInv, NEW r \in Reqs, Commit(r)
  PROVE  IInv'
  <1>1. /\ pc[r] = "commit" /\ executed' = executed \cup {r} /\ UNCHANGED completed
        /\ row' = [k \in Keys |-> IF inserter[k] = r THEN r ELSE row[k]]
        /\ Finish(r, r)
    BY DEF Commit
  <1>2. /\ pc'[r] = "done" /\ answer'[r] = r
        /\ \A q \in Reqs : q # r => pc'[q] = pc[q] /\ answer'[q] = answer[q]
        /\ \A k \in Keys : inserter'[k] = IF inserter[k] = r THEN NoReq ELSE inserter[k]
        /\ holder' \in [Keys -> Reqs \cup {NoReq}]
        /\ inserter' \in [Keys -> Reqs \cup {NoReq}]
        /\ pc' \in [Reqs -> PCs]
        /\ UNCHANGED <<key, body, target>>
    BY <1>1, FinishFrame DEF IInv, sent
  <1>3. Keyed(r) => key[r] \in Keys /\ inserter[key[r]] = r /\ r \in completed
    BY <1>1 DEF IInv, OwnerInv, PathInv, TypeOK, Keyed, Working
  <1>4. \A k \in Keys : inserter[k] = r => key[r] = k /\ Keyed(r)
    BY RequestsAssumption DEF IInv, OwnerInv, Keyed
  <1>5. \A k \in Keys : row'[k] = IF inserter[k] = r THEN r ELSE row[k]
    BY <1>1
  <1>6. TypeOK'
    <2>1. answer' \in [Reqs -> Reqs \cup {NoReq, Refused}]
      BY <1>1 DEF Finish, IInv, TypeOK
    <2>2. row' \in [Keys -> Reqs \cup {NoReq}]
      BY <1>1 DEF IInv, TypeOK
    <2>. QED
      BY <1>1, <1>2, <2>1, <2>2 DEF IInv, TypeOK
  <1>7. OwnerInv'
    BY <1>1, <1>2, <1>5, RequestsAssumption DEF IInv, OwnerInv, Keyed, Working, TypeOK
  <1>8. PathInv'
    <2>1. ASSUME NEW q \in Reqs, pc'[q] = "found" PROVE row'[key'[q]] # NoReq
      <3>1. q # r /\ row[key[q]] # NoReq /\ key[q] \in Keys
        BY <1>2, <2>1 DEF IInv, PathInv, TypeOK, Keyed, Searching
      <3>. QED
        BY <1>2, <1>5, <3>1, RequestsAssumption
    <2>. QED
      BY <1>1, <1>2, <2>1 DEF IInv, PathInv, Keyed, Searching
  <1>9. RowInv'
    <2>1. ASSUME NEW k \in Keys, NEW q \in Reqs, row'[k] = q
          PROVE  /\ key'[q] = k /\ pc'[q] = "done" /\ answer'[q] = q
                 /\ q \in completed' /\ q \in executed'
      <3>1. CASE inserter[k] = r
        BY <1>1, <1>2, <1>3, <1>4, <1>5, <2>1, <3>1
      <3>2. CASE inserter[k] # r
        BY <1>1, <1>2, <1>5, <2>1, <3>2 DEF IInv, RowInv
      <3>. QED
        BY <3>1, <3>2
    <2>2. ASSUME NEW q \in executed'
          PROVE  pc'[q] = "done" /\ (Keyed(q)' => row'[key'[q]] = q)
      <3>1. CASE q = r
        BY <1>2, <1>3, <1>5, <3>1 DEF Keyed
      <3>2. CASE q # r
        <4>1. q \in executed /\ q \in Reqs /\ pc[q] = "done"
          BY <1>1, <2>2, <3>2 DEF IInv, RowInv, TypeOK
        <4>2. Keyed(q) => row[key[q]] = q /\ key[q] \in Keys /\ inserter[key[q]] # r
          BY <1>1, <4>1, RequestsAssumption DEF IInv, RowInv, OwnerInv, TypeOK, Keyed
        <4>. QED
          BY <1>2, <1>5, <3>2, <4>1, <4>2 DEF Keyed
      <3>. QED
        BY <3>1, <3>2
    <2>3. \A q \in Reqs : answer'[q] \in Reqs => answer'[q] \in executed'
      BY <1>1, <1>2 DEF IInv, RowInv
    <2>. QED
      BY <2>1, <2>2, <2>3 DEF RowInv
  <1>. QED
    BY <1>6, <1>7, <1>8, <1>9 DEF IInv

LEMMA NextInv == IInv /\ [Next]_vars => IInv'
  <1> SUFFICES ASSUME IInv, [Next]_vars PROVE IInv'
    OBVIOUS
  <1>1. ASSUME NEW r \in Reqs,
               \/ Begin(r) \/ Lookup(r) \/ Insert(r) \/ (Reread(r) /\ ~Refuse(r))
               \/ Work(r) \/ MarkCompleted(r)
        PROVE  IInv'
    BY <1>1, MovingSteps, MovesInv
  <1>2. ASSUME NEW r \in Reqs, Reread(r), Refuse(r) PROVE IInv'
    BY <1>2, RefuseInv DEF Reread
  <1>3. ASSUME NEW r \in Reqs, Decide(r) \/ Commit(r) PROVE IInv'
    BY <1>3, DecideInv, CommitInv
  <1>4. ASSUME NEW r \in Reqs, Fail(r) PROVE IInv'
    BY <1>4, RefuseInv DEF Fail
  <1>5. CASE UNCHANGED vars
    BY <1>5 DEF vars, IInv, TypeOK, OwnerInv, PathInv, RowInv, Keyed
  <1>. QED
    BY <1>1, <1>2, <1>3, <1>4, <1>5 DEF Next, Step

\* One effect per key, whose row is complete, holds in every reachable state.
THEOREM InvariantHolds == Spec => []IInv
  <1>. QED
    BY InitInv, NextInv, PTL DEF Spec

\* Every reachable state is well typed.
THEOREM TypeCorrect == Spec => []TypeOK
  <1>1. IInv => TypeOK
    BY DEF IInv
  <1>. QED
    BY <1>1, InvariantHolds, PTL

\* No key ever has two effects, and no client is told of one that is not.
THEOREM AnswersTrue == Spec => []AnswersAreTrue
  <1>1. IInv => AnswersAreTrue
    <2> SUFFICES ASSUME IInv PROVE AnswersAreTrue
      OBVIOUS
    <2>1. \A r \in executed : key[r] # NoKey => row[key[r]] = r
      BY DEF IInv, RowInv, Keyed
    <2>. QED
      BY <2>1 DEF IInv, RowInv, AnswersAreTrue
  <1>. QED
    BY <1>1, InvariantHolds, PTL

\* A request that finds a row never finds it in progress.
THEOREM RowsFoundComplete == Spec => []NeverFoundInProgress
  <1>1. IInv => NeverFoundInProgress
    BY DEF IInv, PathInv, RowInv, TypeOK, NeverFoundInProgress, Keyed, Searching
  <1>. QED
    BY <1>1, InvariantHolds, PTL
-----------------------------------------------------------------------------
(***************************************************************************)
(* The guard implements ExactlyOnce.                                       *)
(***************************************************************************)
LEMMA RefusePromise ==
  ASSUME IInv, NEW r \in Reqs, pc[r] # "done", Refuse(r)
  PROVE  Promise!Next
  <1>1. Promise!Refuse(r)
    BY DEF Refuse, Finish, sent, IInv, PathInv, Promise!Refuse, Promise!Answer
  <1>. QED
    BY <1>1 DEF Promise!Next

LEMMA StepPromise ==
  ASSUME IInv, [Next]_vars
  PROVE  [Promise!Next]_(Promise!vars)
  <1> USE DEF Promise!vars
  <1>1. ASSUME NEW r \in Reqs,
               \/ Begin(r) \/ Lookup(r) \/ Insert(r) \/ (Reread(r) /\ ~Refuse(r))
               \/ Work(r) \/ MarkCompleted(r)
        PROVE  UNCHANGED Promise!vars
    BY <1>1, MovingSteps DEF Moves
  <1>2. ASSUME NEW r \in Reqs, Refuse(r), Reread(r) \/ Fail(r) \/ Decide(r)
        PROVE  Promise!Next
    BY <1>2, RefusePromise DEF Reread, Fail, Decide
  <1>3. ASSUME NEW r \in Reqs, Decide(r), ~Refuse(r)
        PROVE  Promise!Next
    <2> DEFINE first == row[key[r]]
    <2>1. /\ pc[r] = "found" /\ Keyed(r) /\ first # NoReq
          /\ answer[first] = first /\ answer[r] = NoReq
      BY <1>3 DEF Decide, IInv, PathInv, RowInv, TypeOK, Keyed, Searching
    <2>2. Finish(r, first) /\ UNCHANGED row /\ body[first] = body[r]
      BY <1>3, <2>1 DEF Decide, Digest
    <2>3. Promise!Replay(r)
      BY <2>1, <2>2 DEF Finish, sent, Keyed, Promise!Replay, Promise!Answer
    <2>. QED
      BY <2>3 DEF Promise!Next
  <1>4. ASSUME NEW r \in Reqs, Commit(r)
        PROVE  Promise!Next
    <2>1. pc[r] = "commit" /\ answer[r] = NoReq /\ Finish(r, r)
      BY <1>4 DEF Commit, IInv, PathInv
    <2>2. row' = [k \in Keys |-> IF inserter[k] = r THEN r ELSE row[k]]
      BY <1>4 DEF Commit
    <2>3. Promise!Answer(r, r)
      BY <2>1 DEF Finish, sent, Promise!Answer
    <2>4. CASE Keyed(r)
      <3>1. /\ key[r] \in Keys /\ inserter[key[r]] = r /\ row[key[r]] = NoReq
            /\ \A k \in Keys : inserter[k] = r => k = key[r]
        BY <2>1, <2>4 DEF IInv, OwnerInv, TypeOK, Keyed, Working
      <3>2. row' = [row EXCEPT ![key[r]] = r]
        BY <2>2, <3>1 DEF IInv, TypeOK
      <3>3. Promise!Perform(r)
        BY <2>3, <2>4, <3>1, <3>2 DEF Keyed, Promise!Perform
      <3>. QED
        BY <3>3 DEF Promise!Next
    <2>5. CASE ~Keyed(r)
      <3>1. \A k \in Keys : inserter[k] # r
        BY <2>5, RequestsAssumption DEF IInv, OwnerInv, Keyed
      <3>2. row' = row
        BY <2>2, <3>1 DEF IInv, TypeOK
      <3>3. Promise!Perform(r)
        BY <2>3, <2>5, <3>2 DEF Keyed, Promise!Perform
      <3>. QED
        BY <3>3 DEF Promise!Next
    <2>. QED
      BY <2>4, <2>5
  <1>5. ASSUME NEW r \in Reqs, Fail(r) PROVE Promise!Next
    BY <1>2, <1>5 DEF Fail
  <1>6. CASE UNCHANGED vars
    BY <1>6 DEF vars
  <1>. QED
    BY <1>1, <1>2, <1>3, <1>4, <1>5, <1>6 DEF Next, Step

\* Concurrent duplicates, retries and rollbacks are seen as one atomic effect
\* per key and answers derived from it.
THEOREM ExactlyOnceRefinement == Spec => RefinesExactlyOnce
  <1>1. Init => Promise!Init
    BY DEF Init, Promise!Init
  <1>2. IInv /\ [Next]_vars => [Promise!Next]_(Promise!vars)
    BY StepPromise
  <1>. QED
    BY <1>1, <1>2, InvariantHolds, PTL DEF Spec, RefinesExactlyOnce, Promise!Spec
=============================================================================
