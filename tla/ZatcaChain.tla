----------------------------- MODULE ZatcaChain ------------------------------
(***************************************************************************)
(* The ZATCA submissions of one company's invoices and credit notes.  The  *)
(* request that issues a document locks the company's row, reads the tail  *)
(* of the hash chain, has the document cleared by the authority (tax       *)
(* invoice) or leaves it pending (simplified invoice), goes on to post the *)
(* journal and move the stock, and commits.  Only then does it enqueue the *)
(* task with which a Celery worker reports a pending document.             *)
(* The hash of a document is unique to it: it is modelled as its name.     *)
(***************************************************************************)
EXTENDS Naturals, FiniteSets

CONSTANTS
  Docs,        \* documents being issued, one request each
  Workers,     \* Celery worker processes
  MaxRetries,  \* max_retries of report_invoice_task
  MaxCrashes,  \* bound on the crashes of a run
  Genesis,     \* GENESIS_HASH
  NoDoc

ASSUME ChainAssumption ==
  /\ NoDoc \notin Docs
  /\ Genesis \notin Docs
  /\ MaxRetries \in Nat
  /\ MaxCrashes \in Nat

VARIABLES
  mode,      \* submission_mode of each document
  pc,        \* the request of each document
  icv, prev, \* what it took from the chain's tail
  verdict,   \* the status it computed for its submission
  status,    \* committed ZatcaSubmission.status, "none" before
  lock,      \* holder of the company row
  authority, \* what the gateway has accepted: [doc, icv, prev]
  queue,     \* documents with a task in the broker
  tries,     \* retries of a document's task so far
  job, wpc,  \* what each worker is doing
  lost,      \* documents whose task is gone: crash, or retries used up
  crashes

request == <<mode, pc, icv, prev, verdict, lock>>
worker  == <<queue, tries, job, wpc, lost>>
vars    == <<mode, pc, icv, prev, verdict, status, lock, authority, queue,
             tries, job, wpc, lost, crashes>>

PCs      == {"idle", "tail", "submit", "posting", "enqueue", "done", "failed"}
WPCs     == {"idle", "read", "call", "save"}
Verdicts == {"none", "pending_submission", "cleared", "reported", "rejected"}

Committed == {d \in Docs : status[d] # "none"}
Link(d)   == [doc |-> d, icv |-> icv[d], prev |-> prev[d]]
Links     == {Link(d) : d \in Committed}
Tail(d)   == d \in Committed /\ \A e \in Committed : icv[e] <= icv[d]

Init ==
  /\ mode \in [Docs -> {"clearance", "reporting"}]
  /\ pc = [d \in Docs |-> "idle"]
  /\ icv = [d \in Docs |-> 0]
  /\ prev = [d \in Docs |-> Genesis]
  /\ verdict = [d \in Docs |-> "none"]
  /\ status = [d \in Docs |-> "none"]
  /\ lock = NoDoc
  /\ authority = {}
  /\ queue = {}
  /\ tries = [d \in Docs |-> 0]
  /\ job = [w \in Workers |-> NoDoc]
  /\ wpc = [w \in Workers |-> "idle"]
  /\ lost = {}
  /\ crashes = 0
-----------------------------------------------------------------------------
(***************************************************************************)
(* The request that issues document d.                                     *)
(***************************************************************************)
Goto(d, label) == pc' = [pc EXCEPT ![d] = label]

\* Mutant: the tail is read without the company lock.
LockCompany_Unlocked(d) ==
  /\ pc[d] = "idle"
  /\ Goto(d, "tail")
  /\ UNCHANGED <<mode, icv, prev, verdict, lock, status, authority, worker, crashes>>

\* company_repo.get_for_update
LockCompany(d) ==
  /\ pc[d] = "idle"
  /\ lock = NoDoc
  /\ lock' = d
  /\ Goto(d, "tail")
  /\ UNCHANGED <<mode, icv, prev, verdict, status, authority, worker, crashes>>

\* Mutant: the counter goes on, the hash starts afresh.
ReadTail_NoHash(d) ==
  /\ pc[d] = "tail"
  /\ icv' = [icv EXCEPT ![d] = Cardinality(Committed) + 1]
  /\ UNCHANGED prev
  /\ Goto(d, "submit")
  /\ UNCHANGED <<mode, verdict, lock, status, authority, worker, crashes>>

\* latest_zatca_submission_for_company: the committed row of the highest icv.
ReadTail(d) ==
  /\ pc[d] = "tail"
  /\ IF Committed = {}
       THEN icv' = [icv EXCEPT ![d] = 1] /\ UNCHANGED prev
       ELSE \E e \in Committed :
              /\ Tail(e)
              /\ icv' = [icv EXCEPT ![d] = icv[e] + 1]
              /\ prev' = [prev EXCEPT ![d] = e]
  /\ Goto(d, "submit")
  /\ UNCHANGED <<mode, verdict, lock, status, authority, worker, crashes>>

\* A tax invoice is submitted to the gateway inside the transaction.
Clear(d) ==
  /\ pc[d] = "submit"
  /\ mode[d] = "clearance"
  /\ \/ /\ verdict' = [verdict EXCEPT ![d] = "cleared"]
        /\ authority' = authority \cup {Link(d)}
     \/ verdict' = [verdict EXCEPT ![d] = "rejected"] /\ UNCHANGED authority
  /\ Goto(d, "posting")
  /\ UNCHANGED <<mode, icv, prev, lock, status, worker, crashes>>

\* A simplified invoice is only prepared.
Prepare(d) ==
  /\ pc[d] = "submit"
  /\ mode[d] = "reporting"
  /\ verdict' = [verdict EXCEPT ![d] = "pending_submission"]
  /\ Goto(d, "posting")
  /\ UNCHANGED <<mode, icv, prev, lock, status, authority, worker, crashes>>

\* Journal, stock and commission succeed and the route commits.
Commit(d) ==
  /\ pc[d] = "posting"
  /\ status' = [status EXCEPT ![d] = verdict[d]]
  /\ lock' = NoDoc
  /\ Goto(d, IF verdict[d] = "pending_submission" THEN "enqueue" ELSE "done")
  /\ UNCHANGED <<mode, icv, prev, verdict, authority, worker, crashes>>

\* report_invoice_task.delay, after the commit.
Enqueue(d) ==
  /\ pc[d] = "enqueue"
  /\ queue' = queue \cup {d}
  /\ Goto(d, "done")
  /\ UNCHANGED <<mode, icv, prev, verdict, lock, status, authority, tries, job,
                 wpc, lost, crashes>>

\* Anything after the lock fails: the transaction rolls back.
Fail(d) ==
  /\ pc[d] \in {"tail", "submit", "posting"}
  /\ lock' = NoDoc
  /\ Goto(d, "failed")
  /\ UNCHANGED <<mode, icv, prev, verdict, status, authority, worker, crashes>>

\* The API process dies between the commit and the delay.
CrashBeforeEnqueue(d) ==
  /\ pc[d] = "enqueue"
  /\ crashes < MaxCrashes
  /\ crashes' = crashes + 1
  /\ lost' = lost \cup {d}
  /\ Goto(d, "done")
  /\ UNCHANGED <<mode, icv, prev, verdict, lock, status, authority, queue,
                 tries, job, wpc>>
-----------------------------------------------------------------------------
(***************************************************************************)
(* The worker.  Celery acknowledges a task when a worker takes it.         *)
(***************************************************************************)
Take(w, d) ==
  /\ wpc[w] = "idle"
  /\ d \in queue
  /\ queue' = queue \ {d}
  /\ job' = [job EXCEPT ![w] = d]
  /\ wpc' = [wpc EXCEPT ![w] = "read"]
  /\ UNCHANGED <<request, status, authority, tries, lost, crashes>>

Rest(w) ==
  /\ job' = [job EXCEPT ![w] = NoDoc]
  /\ wpc' = [wpc EXCEPT ![w] = "idle"]

\* Already processed, or nothing to report: a no-op.
ReadSubmission(w) ==
  /\ wpc[w] = "read"
  /\ IF status[job[w]] = "pending_submission"
       THEN wpc' = [wpc EXCEPT ![w] = "call"] /\ UNCHANGED job
       ELSE Rest(w)
  /\ UNCHANGED <<request, status, authority, queue, tries, lost, crashes>>

\* The gateway answers: the document is accepted, or rejected.
Report(w) ==
  /\ wpc[w] = "call"
  /\ LET d == job[w]
     IN \/ verdict' = [verdict EXCEPT ![d] = "reported"]
           /\ authority' = authority \cup {Link(d)}
        \/ verdict' = [verdict EXCEPT ![d] = "rejected"] /\ UNCHANGED authority
  /\ wpc' = [wpc EXCEPT ![w] = "save"]
  /\ UNCHANGED <<mode, pc, icv, prev, lock, status, queue, tries, job, lost, crashes>>

\* Mutant: the worker saves a report whatever the gateway answered.
Save_Reported(w) ==
  /\ wpc[w] = "save"
  /\ status' = [status EXCEPT ![job[w]] = "reported"]
  /\ Rest(w)
  /\ UNCHANGED <<request, authority, queue, tries, lost, crashes>>

\* Submission and invoice get the gateway's status in one commit.
Save(w) ==
  /\ wpc[w] = "save"
  /\ status' = [status EXCEPT ![job[w]] = verdict[job[w]]]
  /\ Rest(w)
  /\ UNCHANGED <<request, authority, queue, tries, lost, crashes>>

\* Mutant: a task that raises is not retried.
Raise_NoRetry(w) ==
  /\ wpc[w] \in {"read", "call", "save"}
  /\ Rest(w)
  /\ UNCHANGED <<request, status, authority, queue, tries, lost, crashes>>

\* Mutant: a task is retried without end.
Raise_Unbounded(w) ==
  /\ wpc[w] \in {"read", "call", "save"}
  /\ tries' = [tries EXCEPT ![job[w]] = @ + 1]
  /\ queue' = queue \cup {job[w]}
  /\ Rest(w)
  /\ UNCHANGED <<request, status, authority, lost, crashes>>

\* An exception: the gateway is down, the database refuses.  autoretry_for
\* puts the task back until max_retries is reached.
Raise(w) ==
  /\ wpc[w] \in {"read", "call", "save"}
  /\ LET d == job[w]
     IN IF tries[d] < MaxRetries
          THEN /\ tries' = [tries EXCEPT ![d] = @ + 1]
               /\ queue' = queue \cup {d}
               /\ UNCHANGED lost
          ELSE lost' = lost \cup {d} /\ UNCHANGED <<tries, queue>>
  /\ Rest(w)
  /\ UNCHANGED <<request, status, authority, crashes>>

\* The worker process dies: the task it had acknowledged is gone.
CrashWorker(w) ==
  /\ wpc[w] # "idle"
  /\ crashes < MaxCrashes
  /\ crashes' = crashes + 1
  /\ lost' = lost \cup {job[w]}
  /\ Rest(w)
  /\ UNCHANGED <<request, status, authority, queue, tries>>

Serve(d) == LockCompany(d) \/ ReadTail(d) \/ Clear(d) \/ Prepare(d)
            \/ Commit(d) \/ Enqueue(d)

Work(w) == (\E d \in Docs : Take(w, d)) \/ ReadSubmission(w) \/ Report(w)
           \/ Save(w) \/ Raise(w)

Next ==
  \/ \E d \in Docs : Serve(d) \/ Fail(d) \/ CrashBeforeEnqueue(d)
  \/ \E w \in Workers : Work(w) \/ CrashWorker(w)

Spec == Init /\ [][Next]_vars

\* A request goes on once it has begun (LockCompany may wait for the lock, and
\* the lock is given back), and the workers keep taking and running tasks.
FairSpec == Spec /\ (\A d \in Docs : WF_vars(Serve(d)))
                 /\ (\A w \in Workers : WF_vars(Work(w)))
-----------------------------------------------------------------------------
TypeOK ==
  /\ mode \in [Docs -> {"clearance", "reporting"}]
  /\ pc \in [Docs -> PCs]
  /\ icv \in [Docs -> Nat]
  /\ prev \in [Docs -> Docs \cup {Genesis}]
  /\ verdict \in [Docs -> Verdicts]
  /\ status \in [Docs -> Verdicts]
  /\ lock \in Docs \cup {NoDoc}
  /\ authority \subseteq [doc : Docs, icv : Nat, prev : Docs \cup {Genesis}]
  /\ queue \subseteq Docs
  /\ tries \in [Docs -> 0 .. MaxRetries]
  /\ job \in [Workers -> Docs \cup {NoDoc}]
  /\ wpc \in [Workers -> WPCs]
  /\ lost \subseteq Docs
  /\ crashes \in 0 .. MaxCrashes

\* The committed submissions are one chain: counters 1..n, each once, and
\* every document carries the hash of the one before it.
ChainIsTotalOrder ==
  /\ {icv[d] : d \in Committed} = 1 .. Cardinality(Committed)
  /\ \A d \in Committed :
       IF icv[d] = 1 THEN prev[d] = Genesis
                     ELSE prev[d] \in Committed /\ icv[prev[d]] = icv[d] - 1

\* A document shown as cleared or reported is one the authority has accepted,
\* under the counter and previous hash the database holds.
AcceptedIsKnown ==
  \A d \in Docs : status[d] \in {"cleared", "reported"} => Link(d) \in authority

\* Each committed document is appended to the chain at once.
Chain == INSTANCE HashChain WITH links <- Links
RefinesHashChain == Chain!Spec

\* A pending document gets an answer from the authority, unless its task is
\* lost to a crash or to a gateway that fails once too often.
PendingIsReported ==
  \A d \in Docs : status[d] = "pending_submission"
                    ~> status[d] # "pending_submission" \/ d \in lost

\* "A total order per device/company": the authority never accepts two
\* documents of a company under one counter.
AuthoritySeesOneChain ==
  \A x, y \in authority : x.icv = y.icv => x.doc = y.doc
=============================================================================
