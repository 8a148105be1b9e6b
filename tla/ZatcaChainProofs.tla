-------------------------- MODULE ZatcaChainProofs ---------------------------
(***************************************************************************)
(* Proofs about ZatcaChain, for any set of documents and workers and any   *)
(* number of retries and crashes.                                          *)
(***************************************************************************)
EXTENDS ZatcaChain, FiniteSetTheorems, TLAPS

Locked == {"tail", "submit", "posting"}

\* The request inside its transaction holds the company row, and its document
\* is committed exactly when it has got past it.
LockInv ==
  /\ \A d \in Docs : pc[d] \in Locked => lock = d
  /\ \A d \in Docs : d \in Committed <=> pc[d] \in {"enqueue", "done"}
  /\ \A d \in Docs : pc[d] \in {"idle", "tail"} => prev[d] = Genesis

\* What a request has read is still the tail of the chain.
TailInv == \A d \in Docs : pc[d] \in {"submit", "posting"} =>
  \/ Committed = {} /\ icv[d] = 1 /\ prev[d] = Genesis
  \/ \E e \in Docs : Tail(e) /\ icv[d] = icv[e] + 1 /\ prev[d] = e

\* Tasks and workers are about committed documents, and verdicts are true.
WorkInv ==
  /\ queue \subseteq Committed
  /\ \A w \in Workers : wpc[w] # "idle" => job[w] \in Committed
  /\ \A d \in Docs : pc[d] = "posting" => verdict[d] # "none"
  /\ \A w \in Workers : wpc[w] = "save" => verdict[job[w]] \in {"reported", "rejected"}
  /\ \A d \in Docs :
       verdict[d] \in {"cleared", "reported"} /\ pc[d] # "failed" => Link(d) \in authority
  /\ \A d \in Docs : pc[d] \in {"idle", "tail", "submit"} => verdict[d] = "none"

IInv == TypeOK /\ LockInv /\ TailInv /\ WorkInv /\ AcceptedIsKnown
-----------------------------------------------------------------------------
LEMMA InitInv == Init => IInv
  <1> SUFFICES ASSUME Init PROVE IInv
    OBVIOUS
  <1>1. TypeOK
    BY ChainAssumption DEF Init, TypeOK, PCs, WPCs, Verdicts
  <1>2. Committed = {}
    BY DEF Init, Committed
  <1>. QED
    BY <1>1, <1>2 DEF Init, IInv, LockInv, Locked, TailInv, WorkInv, AcceptedIsKnown

\* A step of the request for d before its commit.
LEMMA RequestInv ==
  ASSUME IInv, TypeOK', NEW d \in Docs,
         LockCompany(d) \/ ReadTail(d) \/ Clear(d) \/ Prepare(d) \/ Fail(d)
  PROVE  IInv' /\ UNCHANGED Links
  <1> USE DEF IInv
  <1>1. /\ UNCHANGED <<status, queue, job, wpc>>
        /\ \A e \in Docs : e # d => pc'[e] = pc[e] /\ icv'[e] = icv[e]
                                    /\ prev'[e] = prev[e] /\ verdict'[e] = verdict[e]
        /\ authority \subseteq authority'
        /\ pc[d] \in Locked \cup {"idle"} /\ pc'[d] \in Locked \cup {"failed"}
    BY DEF TypeOK, LockCompany, ReadTail, Clear, Prepare, Fail, Goto, worker, Locked
  <1>2. d \notin Committed /\ Committed' = Committed
    BY <1>1 DEF LockInv, Locked, Committed
  <1>3. \A e \in Committed : Link(e)' = Link(e) /\ e # d
    BY <1>1, <1>2 DEF Link, Committed
  <1>4. Links' = Links
    BY <1>2, <1>3 DEF Links
  <1>5. \A e \in Docs : e # d => (Tail(e)' <=> Tail(e))
    BY <1>1, <1>2, <1>3 DEF Tail, Committed
  <1>6. ASSUME NEW e \in Docs, e # d PROVE pc[e] \notin Locked \/ lock = e
    BY DEF LockInv
  <1>7. LockInv'
    <2>1. CASE LockCompany(d)
      BY <1>1, <1>2, <2>1, ChainAssumption DEF LockCompany, LockInv, Goto, TypeOK, Locked
    <2>2. CASE ReadTail(d) \/ Clear(d) \/ Prepare(d)
      BY <1>1, <1>2, <2>2 DEF ReadTail, Clear, Prepare, LockInv, Goto, TypeOK, Locked
    <2>3. CASE Fail(d)
      BY <1>1, <1>2, <2>3 DEF Fail, LockInv, Goto, TypeOK, Locked
    <2>. QED
      BY <2>1, <2>2, <2>3
  <1>8. TailInv'
    <2>1. ASSUME NEW e \in Docs, e # d, pc'[e] \in {"submit", "posting"}
          PROVE  \/ Committed = {} /\ icv'[e] = 1 /\ prev'[e] = Genesis
                 \/ \E x \in Docs : Tail(x)' /\ icv'[e] = icv'[x] + 1 /\ prev'[e] = x
      <3>1. pc[e] \in {"submit", "posting"} /\ icv'[e] = icv[e] /\ prev'[e] = prev[e]
        BY <1>1, <2>1
      <3>2. ASSUME NEW x \in Docs, Tail(x) PROVE Tail(x)' /\ icv'[x] = icv[x]
        BY <1>1, <1>2, <1>5, <3>2 DEF Tail
      <3>. QED
        BY <3>1, <3>2 DEF TailInv
    <2>2. ASSUME pc'[d] \in {"submit", "posting"}
          PROVE  \/ Committed = {} /\ icv'[d] = 1 /\ prev'[d] = Genesis
                 \/ \E x \in Docs : Tail(x)' /\ icv'[d] = icv'[x] + 1 /\ prev'[d] = x
      <3>1. CASE ReadTail(d)
        <4>1. CASE Committed = {}
          BY <3>1, <4>1 DEF ReadTail, TypeOK, LockInv
        <4>2. CASE Committed # {}
          <5>1. PICK e \in Committed : /\ Tail(e) /\ icv' = [icv EXCEPT ![d] = icv[e] + 1]
                                       /\ prev' = [prev EXCEPT ![d] = e]
            BY <3>1, <4>2 DEF ReadTail
          <5>2. e \in Docs /\ e # d
            BY <1>2 DEF Committed
          <5>3. icv'[d] = icv[e] + 1 /\ prev'[d] = e /\ icv'[e] = icv[e]
            BY <5>1, <5>2 DEF TypeOK
          <5>. QED
            BY <1>5, <5>1, <5>2, <5>3
        <4>. QED
          BY <4>1, <4>2
      <3>2. CASE Clear(d) \/ Prepare(d)
        <4>1. pc[d] = "submit" /\ UNCHANGED <<icv, prev>>
          BY <3>2 DEF Clear, Prepare
        <4>2. ASSUME NEW x \in Docs, Tail(x) PROVE Tail(x)'
          BY <1>2, <1>5, <4>2 DEF Tail
        <4>. QED
          BY <4>1, <4>2 DEF TailInv
      <3>3. CASE LockCompany(d) \/ Fail(d)
        BY <2>2, <3>3 DEF LockCompany, Fail, Goto, TypeOK
      <3>. QED
        BY <3>1, <3>2, <3>3
    <2>. QED
      BY <1>2, <2>1, <2>2 DEF TailInv
  <1>9. WorkInv'
    <2>1. \A w \in Workers : wpc[w] # "idle" => job[w] # d /\ job[w] \in Docs
      BY <1>2 DEF WorkInv, Committed
    <2>2. \A e \in Docs : e # d => Link(e)' = Link(e)
      BY <1>1 DEF Link
    <2>3. /\ pc'[d] = "posting" => verdict'[d] # "none"
          /\ verdict'[d] \in {"cleared", "reported"} /\ pc'[d] # "failed" => Link(d)' \in authority'
          /\ pc'[d] \in {"idle", "tail", "submit"} => verdict'[d] = "none"
      <3>1. CASE LockCompany(d) \/ ReadTail(d)
        BY <3>1 DEF LockCompany, ReadTail, Goto, TypeOK, WorkInv
      <3>2. CASE Clear(d)
        BY <3>2 DEF Clear, Goto, TypeOK, WorkInv, Link
      <3>3. CASE Prepare(d) \/ Fail(d)
        BY <3>3 DEF Prepare, Fail, Goto, TypeOK
      <3>. QED
        BY <3>1, <3>2, <3>3
    <2>. QED
      BY <1>1, <1>2, <2>1, <2>2, <2>3 DEF WorkInv
  <1>10. AcceptedIsKnown'
    <2>1. \A e \in Docs : status[e] \in {"cleared", "reported"} => e \in Committed
      BY DEF Committed
    <2>. QED
      BY <1>1, <1>3, <2>1 DEF AcceptedIsKnown
  <1>. QED
    BY <1>4, <1>7, <1>8, <1>9, <1>10

\* The commit appends the document.
LEMMA CommitFacts ==
  ASSUME IInv, NEW d \in Docs, Commit(d)
  PROVE  /\ d \notin Committed /\ Committed' = Committed \cup {d}
         /\ \A e \in Docs : Link(e)' = Link(e)
         /\ Links' = Links \cup {Link(d)}
         /\ \/ Committed = {} /\ icv[d] = 1 /\ prev[d] = Genesis
            \/ \E e \in Docs : Tail(e) /\ icv[d] = icv[e] + 1 /\ prev[d] = e
  <1>1. /\ pc[d] = "posting" /\ verdict[d] # "none" /\ d \notin Committed
        /\ status' = [status EXCEPT ![d] = verdict[d]] /\ UNCHANGED <<icv, prev>>
    BY DEF Commit, IInv, WorkInv, LockInv
  <1>2. Committed' = Committed \cup {d}
    BY <1>1 DEF Committed, IInv, TypeOK
  <1>3. \A e \in Docs : Link(e)' = Link(e)
    BY <1>1 DEF Link
  <1>4. Links' = {Link(e) : e \in Committed'}
    BY <1>2, <1>3 DEF Links, Committed
  <1>5. Links' = Links \cup {Link(d)}
    BY <1>2, <1>4 DEF Links
  <1>. QED
    BY <1>1, <1>2, <1>3, <1>5 DEF IInv, TailInv

LEMMA CommitInv ==
  ASSUME IInv, TypeOK', NEW d \in Docs, Commit(d)
  PROVE  IInv'
  <1> USE DEF IInv
  <1>1. /\ pc[d] = "posting" /\ lock' = NoDoc
        /\ UNCHANGED <<mode, icv, prev, verdict, authority, queue, job, wpc>>
        /\ pc'[d] \in {"enqueue", "done"} /\ status'[d] = verdict[d]
        /\ \A e \in Docs : e # d => pc'[e] = pc[e] /\ status'[e] = status[e]
    BY DEF Commit, Goto, TypeOK, worker
  <1>2. \A e \in Docs : e # d => pc[e] \notin Locked
    BY <1>1 DEF LockInv, Locked
  <1>3. Committed' = Committed \cup {d} /\ d \notin Committed
    BY CommitFacts
  <1>4. LockInv'
    BY <1>1, <1>2, <1>3 DEF LockInv, Locked
  <1>5. TailInv'
    BY <1>1, <1>2 DEF TailInv, Locked
  <1>6. \A e \in Docs : Link(e)' = Link(e)
    BY <1>1 DEF Link
  <1>7. WorkInv'
    BY <1>1, <1>3, <1>6 DEF WorkInv
  <1>8. AcceptedIsKnown'
    BY <1>1, <1>6 DEF AcceptedIsKnown, WorkInv
  <1>. QED
    BY <1>4, <1>5, <1>7, <1>8

\* A step of a worker, of the broker or of a crash changes no link.
LEMMA WorkerInv ==
  ASSUME IInv, TypeOK',
         \/ \E d \in Docs : Enqueue(d) \/ CrashBeforeEnqueue(d)
         \/ \E w \in Workers : Work(w) \/ CrashWorker(w)
  PROVE  IInv' /\ UNCHANGED Links
  <1> USE DEF IInv
  \* Nothing but the queue, the workers, and statuses and verdicts of
  \* committed documents changes.
  <1>1. ASSUME UNCHANGED <<icv, prev, lock>>,
               authority \subseteq authority',
               \A d \in Docs : pc'[d] = pc[d] \/ (pc[d] = "enqueue" /\ pc'[d] = "done"),
               \A d \in Docs : d \notin Committed => status'[d] = status[d] /\ verdict'[d] = verdict[d],
               \A d \in Committed : status'[d] # "none",
               queue' \subseteq Committed,
               \A w \in Workers : wpc'[w] # "idle" => job'[w] \in Committed,
               \A w \in Workers : wpc'[w] = "save" => verdict'[job'[w]] \in {"reported", "rejected"},
               \A d \in Committed :
                 verdict'[d] \in {"cleared", "reported"} => Link(d) \in authority',
               \A d \in Committed :
                 status'[d] \in {"cleared", "reported"} => Link(d) \in authority'
        PROVE  IInv' /\ UNCHANGED Links
    <2>1. \A d \in Docs : Link(d)' = Link(d)
      BY <1>1 DEF Link
    <2>2. Committed' = Committed
      BY <1>1 DEF Committed
    <2>3. Links' = Links
      BY <2>1, <2>2 DEF Links, Committed
    <2>4. LockInv'
      BY <1>1, <2>2 DEF LockInv, Locked
    <2>5. TailInv'
      BY <1>1, <2>2 DEF TailInv, Tail
    <2>6. WorkInv'
      BY <1>1, <2>1, <2>2 DEF WorkInv, LockInv
    <2>7. AcceptedIsKnown'
      BY <1>1, <2>1, <2>2 DEF AcceptedIsKnown, Committed
    <2>. QED
      BY <2>3, <2>4, <2>5, <2>6, <2>7
  <1>2. \A d \in Committed : d \in Docs /\ status[d] # "none" /\ pc[d] \in {"enqueue", "done"}
    BY DEF Committed, LockInv
  <1>3. /\ \A d \in Committed : verdict[d] \in {"cleared", "reported"} => Link(d) \in authority
        /\ \A d \in Committed : status[d] \in {"cleared", "reported"} => Link(d) \in authority
    BY <1>2 DEF WorkInv, AcceptedIsKnown
  <1>4. ASSUME NEW d \in Docs, Enqueue(d) \/ CrashBeforeEnqueue(d)
        PROVE  IInv' /\ UNCHANGED Links
    <2>1. /\ UNCHANGED <<icv, prev, lock, authority, verdict, status, job, wpc>>
          /\ pc[d] = "enqueue" /\ pc' = [pc EXCEPT ![d] = "done"]
          /\ queue' \subseteq queue \cup {d}
      BY <1>4 DEF Enqueue, CrashBeforeEnqueue, Goto
    <2>2. d \in Committed
      BY <2>1 DEF LockInv
    <2>3. \A e \in Docs : pc'[e] = pc[e] \/ (pc[e] = "enqueue" /\ pc'[e] = "done")
      BY <2>1 DEF TypeOK
    <2>. QED
      BY <1>1, <1>2, <1>3, <2>1, <2>2, <2>3 DEF WorkInv
  <1>5. ASSUME NEW w \in Workers, Work(w) \/ CrashWorker(w)
        PROVE  IInv' /\ UNCHANGED Links
    <2>1. UNCHANGED <<icv, prev, lock, pc>>
      BY <1>5 DEF Work, Take, ReadSubmission, Report, Save, Raise, CrashWorker, request
    <2>2. CASE \E d \in Docs : Take(w, d)
      BY <1>1, <1>2, <1>3, <2>1, <2>2 DEF Take, WorkInv, TypeOK, request
    <2>3. CASE ReadSubmission(w) \/ Raise(w) \/ CrashWorker(w)
      <3>1. /\ UNCHANGED <<authority, verdict, status>>
            /\ wpc[w] # "idle" /\ queue' \subseteq queue \cup {job[w]}
            /\ \/ wpc' = [wpc EXCEPT ![w] = "call"] /\ job' = job
               \/ wpc' = [wpc EXCEPT ![w] = "idle"] /\ job' = [job EXCEPT ![w] = NoDoc]
        BY <2>3 DEF ReadSubmission, Raise, CrashWorker, Rest, request
      <3>2. job[w] \in Committed
        BY <3>1 DEF WorkInv
      <3>3. \A x \in Workers : /\ wpc'[x] # "idle" => job'[x] \in Committed
                               /\ wpc'[x] = "save" => wpc[x] = "save" /\ job'[x] = job[x]
        BY <3>1, <3>2 DEF WorkInv, TypeOK
      <3>. QED
        BY <1>1, <1>2, <1>3, <2>1, <3>1, <3>2, <3>3 DEF WorkInv
    <2>4. CASE Report(w)
      <3> DEFINE d == job[w]
      <3>1. /\ d \in Committed /\ wpc' = [wpc EXCEPT ![w] = "save"]
            /\ UNCHANGED <<status, queue, job>> /\ authority \subseteq authority'
            /\ \/ verdict' = [verdict EXCEPT ![d] = "reported"] /\ Link(d) \in authority'
               \/ verdict' = [verdict EXCEPT ![d] = "rejected"]
        BY <2>4 DEF Report, WorkInv
      <3>2. /\ verdict'[d] \in {"reported", "rejected"}
            /\ verdict'[d] = "reported" => Link(d) \in authority'
            /\ \A e \in Docs : e # d => verdict'[e] = verdict[e]
        BY <1>2, <3>1 DEF TypeOK
      <3>3. \A x \in Workers : /\ wpc'[x] # "idle" => job'[x] \in Committed
                               /\ wpc'[x] = "save" => verdict'[job'[x]] \in {"reported", "rejected"}
        BY <1>2, <3>1, <3>2 DEF WorkInv, TypeOK
      <3>. QED
        BY <1>1, <1>2, <1>3, <2>1, <3>1, <3>2, <3>3 DEF WorkInv
    <2>5. CASE Save(w)
      <3> DEFINE d == job[w]
      <3>1. /\ d \in Committed /\ verdict[d] \in {"reported", "rejected"}
            /\ status' = [status EXCEPT ![d] = verdict[d]]
            /\ wpc' = [wpc EXCEPT ![w] = "idle"] /\ job' = [job EXCEPT ![w] = NoDoc]
            /\ UNCHANGED <<queue, authority, verdict>>
        BY <2>5 DEF Save, Rest, WorkInv, request
      <3>2. status'[d] = verdict[d] /\ \A e \in Docs : e # d => status'[e] = status[e]
        BY <1>2, <3>1 DEF TypeOK
      <3>3. \A x \in Workers : wpc'[x] # "idle" => wpc'[x] = wpc[x] /\ job'[x] = job[x]
        BY <3>1 DEF TypeOK
      <3>. QED
        BY <1>1, <1>2, <1>3, <2>1, <3>1, <3>2, <3>3 DEF WorkInv
    <2>. QED
      BY <1>5, <2>2, <2>3, <2>4, <2>5 DEF Work
  <1>. QED
    BY <1>4, <1>5
-----------------------------------------------------------------------------
LEMMA TypeStep == IInv /\ [Next]_vars => TypeOK'
  <1> SUFFICES ASSUME IInv, [Next]_vars PROVE TypeOK'
    OBVIOUS
  <1> USE ChainAssumption DEF IInv, TypeOK, PCs, WPCs, Verdicts
  <1>1. ASSUME NEW d \in Docs, Serve(d) \/ Fail(d) \/ CrashBeforeEnqueue(d)
        PROVE  TypeOK'
    <2>1. CASE LockCompany(d) \/ Prepare(d) \/ Commit(d) \/ Fail(d)
      BY <2>1 DEF LockCompany, Prepare, Commit, Fail, Goto, worker
    <2>2. CASE ReadTail(d)
      <3>1. icv' \in [Docs -> Nat] /\ prev' \in [Docs -> Docs \cup {Genesis}]
        BY <2>2 DEF ReadTail, Committed
      <3>. QED
        BY <2>2, <3>1 DEF ReadTail, Goto, worker
    <2>3. CASE Clear(d)
      BY <2>3 DEF Clear, Goto, worker, Link
    <2>4. CASE Enqueue(d)
      BY <2>4 DEF Enqueue, Goto
    <2>5. CASE CrashBeforeEnqueue(d)
      BY <2>5 DEF CrashBeforeEnqueue, Goto
    <2>. QED
      BY <1>1, <2>1, <2>2, <2>3, <2>4, <2>5 DEF Serve
  <1>2. ASSUME NEW w \in Workers, Work(w) \/ CrashWorker(w)
        PROVE  TypeOK'
    <2>1. wpc[w] # "idle" => job[w] \in Docs
      BY DEF WorkInv, Committed
    <2>2. CASE \E d \in Docs : Take(w, d)
      BY <2>2 DEF Take, request
    <2>3. CASE ReadSubmission(w) \/ Save(w)
      BY <2>1, <2>3 DEF ReadSubmission, Save, Rest, request
    <2>4. CASE Report(w)
      BY <2>1, <2>4 DEF Report, Link
    <2>5. CASE Raise(w)
      BY <2>1, <2>5 DEF Raise, Rest, request
    <2>6. CASE CrashWorker(w)
      BY <2>1, <2>6 DEF CrashWorker, Rest, request
    <2>. QED
      BY <1>2, <2>2, <2>3, <2>4, <2>5, <2>6 DEF Work
  <1>3. CASE UNCHANGED vars
    BY <1>3 DEF vars
  <1>. QED
    BY <1>1, <1>2, <1>3 DEF Next

LEMMA StepInv == IInv /\ [Next]_vars => IInv'
  <1> SUFFICES ASSUME IInv, [Next]_vars PROVE IInv'
    OBVIOUS
  <1>1. TypeOK'
    BY TypeStep
  <1>2. CASE UNCHANGED vars
    BY <1>2 DEF vars, IInv, TypeOK, LockInv, TailInv, WorkInv, AcceptedIsKnown,
                Committed, Tail, Link
  <1>3. CASE Next
    BY <1>1, <1>3, RequestInv, CommitInv, WorkerInv DEF Next, Serve
  <1>. QED
    BY <1>2, <1>3

\* Every reachable state satisfies the inductive invariant.
THEOREM InvariantHolds == Spec => []IInv
  <1>. QED
    BY InitInv, StepInv, PTL DEF Spec

\* Every variable has its type in every reachable state.
THEOREM TypeCorrect == Spec => []TypeOK
  <1>1. IInv => TypeOK
    BY DEF IInv
  <1>. QED
    BY <1>1, InvariantHolds, PTL

\* zatca_service and the report task never show as accepted a document that
\* the authority does not hold under the same counter and previous hash.
THEOREM AcceptedKnown == Spec => []AcceptedIsKnown
  <1>1. IInv => AcceptedIsKnown
    BY DEF IInv
  <1>. QED
    BY <1>1, InvariantHolds, PTL
-----------------------------------------------------------------------------
\* A step appends one document to the chain, or leaves the chain alone.
LEMMA LinksStep ==
  ASSUME IInv, [Next]_vars
  PROVE  UNCHANGED Links \/ \E d \in Docs : Commit(d)
  <1>1. CASE UNCHANGED vars
    BY <1>1 DEF vars, Links, Link, Committed
  <1>2. CASE Next
    BY <1>2, TypeStep, RequestInv, WorkerInv DEF Next, Serve
  <1>. QED
    BY <1>1, <1>2

\* Under the company lock the commit of a document appends it to the chain.
LEMMA CommitAppends ==
  ASSUME IInv, NEW d \in Docs, Commit(d)
  PROVE  Chain!Next
  <1>1. /\ d \notin Committed /\ Links' = Links \cup {Link(d)}
        /\ \/ Committed = {} /\ icv[d] = 1 /\ prev[d] = Genesis
           \/ \E e \in Docs : Tail(e) /\ icv[d] = icv[e] + 1 /\ prev[d] = e
    BY CommitFacts
  <1>2. \A x \in Links : x.doc \in Committed
    BY DEF Links, Link
  <1>3. prev[d] \in Docs \cup {Genesis} /\ icv[d] \in {x.icv : x \in Links'}
    <2>1. Link(d) \in Links' /\ Link(d).icv = icv[d]
      BY <1>1 DEF Link
    <2>. QED
      BY <2>1 DEF IInv, TypeOK
  <1>4. \/ Links = {} /\ icv[d] = 1 /\ prev[d] = Genesis
        \/ \E x \in Links : Chain!Last(x) /\ icv[d] = x.icv + 1 /\ prev[d] = x.doc
    <2>1. CASE Committed = {}
      BY <1>1, <2>1 DEF Links, Tail
    <2>2. CASE Committed # {}
      <3>1. PICK e \in Docs : Tail(e) /\ icv[d] = icv[e] + 1 /\ prev[d] = e
        BY <1>1, <2>2
      <3>2. Link(e) \in Links /\ Link(e).icv = icv[e] /\ Link(e).doc = e
        BY <3>1 DEF Tail, Links, Link
      <3>3. \A y \in Links : y.icv <= icv[e]
        BY <3>1 DEF Tail, Links, Link
      <3>. QED
        BY <3>1, <3>2, <3>3 DEF Chain!Last
    <2>. QED
      BY <2>1, <2>2
  <1>5. Chain!Append(d, icv[d], prev[d])
    BY <1>1, <1>2, <1>4 DEF Chain!Append, Link
  <1>. QED
    BY <1>3, <1>5 DEF Chain!Next

\* The locking protocol implements the abstract chain: every commit appends
\* one document to it, whatever requests, workers and crashes do meanwhile.
THEOREM ChainRefinement == Spec => RefinesHashChain
  <1>1. Init => Chain!Init
    BY DEF Init, Chain!Init, Links, Committed
  <1>2. IInv /\ [Next]_vars => [Chain!Next]_Links
    BY LinksStep, CommitAppends
  <1>. QED
    BY <1>1, <1>2, InvariantHolds, PTL DEF Spec, RefinesHashChain, Chain!Spec
-----------------------------------------------------------------------------
\* The chain on the committed rows, with their number finite.
CInv == IsFiniteSet(Committed) /\ ChainIsTotalOrder

LEMMA CommitTotal ==
  ASSUME IInv, CInv, NEW d \in Docs, Commit(d)
  PROVE  CInv'
  <1> DEFINE n == Cardinality(Committed)
  <1>1. /\ d \notin Committed /\ Committed' = Committed \cup {d}
        /\ \A e \in Docs : Link(e)' = Link(e)
        /\ \/ Committed = {} /\ icv[d] = 1 /\ prev[d] = Genesis
           \/ \E e \in Docs : Tail(e) /\ icv[d] = icv[e] + 1 /\ prev[d] = e
    BY CommitFacts
  <1>2. n \in Nat /\ IsFiniteSet(Committed') /\ Cardinality(Committed') = n + 1
    BY <1>1, FS_CardinalityType, FS_AddElement DEF CInv
  <1>3. UNCHANGED <<icv, prev>>
    BY DEF Commit
  <1>4. \A e \in Committed : e \in Docs /\ icv[e] \in 1 .. n
    BY DEF CInv, ChainIsTotalOrder, Committed
  <1>5. \/ n = 0 /\ icv[d] = 1 /\ prev[d] = Genesis
        \/ \E e \in Committed : icv[e] = n /\ icv[d] = n + 1 /\ prev[d] = e
    <2>1. CASE Committed = {}
      BY <1>1, <2>1, FS_EmptySet DEF Tail
    <2>2. CASE Committed # {}
      <3>1. PICK e \in Docs : Tail(e) /\ icv[d] = icv[e] + 1 /\ prev[d] = e
        BY <1>1, <2>2
      <3>2. e \in Committed /\ icv[e] \in 1 .. n
        BY <1>4, <3>1 DEF Tail
      <3>3. n \in {icv[x] : x \in Committed}
        BY <1>2, <3>2 DEF CInv, ChainIsTotalOrder
      <3>4. PICK x \in Committed : icv[x] = n
        BY <3>3
      <3>5. n <= icv[e]
        BY <3>1, <3>4 DEF Tail
      <3>. QED
        BY <1>2, <3>1, <3>2, <3>5
    <2>. QED
      BY <2>1, <2>2
  <1>6. icv[d] = n + 1
    BY <1>5
  <1>7. {icv[e] : e \in Committed'} = 1 .. n + 1
    <2>1. {icv[e] : e \in Committed'} = {icv[e] : e \in Committed} \cup {n + 1}
      BY <1>1, <1>6
    <2>2. {icv[e] : e \in Committed} = 1 .. n
      BY DEF CInv, ChainIsTotalOrder
    <2>. QED
      BY <1>2, <2>1, <2>2
  <1>8. ASSUME NEW e \in Committed'
        PROVE  IF icv[e] = 1 THEN prev[e] = Genesis
                             ELSE prev[e] \in Committed' /\ icv[prev[e]] = icv[e] - 1
    <2>1. CASE e \in Committed
      BY <1>1, <2>1 DEF CInv, ChainIsTotalOrder
    <2>2. CASE e = d
      BY <1>1, <1>2, <1>4, <1>5, <2>2
    <2>. QED
      BY <1>1, <2>1, <2>2
  <1>9. ChainIsTotalOrder'
    BY <1>2, <1>3, <1>7, <1>8 DEF ChainIsTotalOrder
  <1>. QED
    BY <1>2, <1>9 DEF CInv

\* The committed submissions of a company are numbered 1..n without gap or
\* duplicate, and each one carries the hash of its predecessor.
THEOREM ChainTotal == Spec => []ChainIsTotalOrder
  <1>1. Init => CInv
    <2>1. Init => Committed = {}
      BY DEF Init, Committed
    <2>. QED
      BY <2>1, FS_EmptySet DEF CInv, ChainIsTotalOrder
  <1>2. IInv /\ CInv /\ [Next]_vars => CInv'
    <2> SUFFICES ASSUME IInv, CInv, [Next]_vars PROVE CInv'
      OBVIOUS
    <2>1. CASE UNCHANGED Links
      <3>1. Committed = {x.doc : x \in Links} /\ Committed' = {x.doc : x \in Links'}
        <4>1. \A e \in Committed : Link(e) \in Links /\ Link(e).doc = e
          BY DEF Links, Link
        <4>2. \A x \in Links : x.doc \in Committed
          BY DEF Links, Link
        <4>3. \A e \in Committed' : Link(e)' \in Links' /\ Link(e)'.doc = e
          BY DEF Links, Link
        <4>4. \A x \in Links' : x.doc \in Committed'
          BY DEF Links, Link
        <4>. QED
          BY <4>1, <4>2, <4>3, <4>4
      <3>2. Committed' = Committed
        BY <2>1, <3>1
      <3>3. \A e \in Committed : icv'[e] = icv[e] /\ prev'[e] = prev[e]
        <4> SUFFICES ASSUME NEW e \in Committed PROVE icv'[e] = icv[e] /\ prev'[e] = prev[e]
          OBVIOUS
        <4>1. Link(e) \in Links'
          BY <2>1 DEF Links
        <4>2. PICK x \in Committed' : Link(e) = [doc |-> x, icv |-> icv'[x], prev |-> prev'[x]]
          BY <4>1 DEF Links, Link
        <4>. QED
          BY <4>2 DEF Link
      <3>4. {icv'[e] : e \in Committed'} = {icv[e] : e \in Committed}
        BY <3>2, <3>3
      <3>. QED
        BY <3>2, <3>3, <3>4 DEF CInv, ChainIsTotalOrder
    <2>2. CASE \E d \in Docs : Commit(d)
      BY <2>2, CommitTotal
    <2>. QED
      BY <2>1, <2>2, LinksStep
  <1>3. CInv => ChainIsTotalOrder
    BY DEF CInv
  <1>. QED
    BY <1>1, <1>2, <1>3, InvariantHolds, PTL DEF Spec
=============================================================================
