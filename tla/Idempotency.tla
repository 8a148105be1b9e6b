----------------------------- MODULE Idempotency -----------------------------
(***************************************************************************)
(* The Idempotency-Key guard of the credit note, return and debit note     *)
(* routes.  Requests are PostgreSQL transactions at READ COMMITTED.  The   *)
(* key's row is looked up FOR UPDATE; when there is none it is inserted,   *)
(* and the unique constraint makes a second insertion wait until the first *)
(* transaction ends.  The business logic and the completed row are         *)
(* committed together.                                                     *)
(***************************************************************************)
EXTENDS Naturals, FiniteSets

CONSTANTS
  Reqs,       \* requests: the first sendings and the clients' retries
  Keys,       \* values of the Idempotency-Key header
  Bodies,     \* request bodies
  Targets,    \* documents a request may be about: the {id} of its path
  NoReq, NoKey, Refused

ASSUME RequestsAssumption ==
  /\ NoReq \notin Reqs
  /\ Refused \notin Reqs
  /\ Refused # NoReq
  /\ NoKey \notin Keys

VARIABLES
  (* what the clients sent *)
  key,        \* request -> its key, NoKey when the header is absent
  body,
  target,
  (* committed state *)
  row,        \* key -> the request that inserted its row, or NoReq
  completed,  \* requests that have set their row to status "completed"
  executed,   \* requests whose business logic is committed
  (* uncommitted state *)
  inserter,   \* key -> the transaction with an uncommitted row for it
  holder,     \* key -> the transaction that locks its committed row
  (* control *)
  pc,
  answer      \* request -> whose response it got, Refused, or NoReq

sent == <<key, body, target>>
vars == <<key, body, target, row, completed, executed, inserter, holder, pc, answer>>

PCs == {"idle", "insert", "reread", "found", "work", "complete", "commit",
        "done"}

\* _hash_request: the digest covers the body and nothing of the path.
Digest(r) == body[r]

Init ==
  /\ key \in [Reqs -> Keys \cup {NoKey}]
  /\ body \in [Reqs -> Bodies]
  /\ target \in [Reqs -> Targets]
  /\ row = [k \in Keys |-> NoReq]
  /\ completed = {}
  /\ executed = {}
  /\ inserter = [k \in Keys |-> NoReq]
  /\ holder = [k \in Keys |-> NoReq]
  /\ pc = [r \in Reqs |-> "idle"]
  /\ answer = [r \in Reqs |-> NoReq]
-----------------------------------------------------------------------------
Goto(r, label) == pc' = [pc EXCEPT ![r] = label]

\* Mutant: the released lock is marked with the wrong absent value.
Without_WrongNull(r, owner) ==
  [k \in Keys |-> IF owner[k] = r THEN NoKey ELSE owner[k]]

\* The rows owner assigns, those of r given back.
Without(r, owner) == [k \in Keys |-> IF owner[k] = r THEN NoReq ELSE owner[k]]

\* Mutant: what a rolled back transaction had inserted stays.
Finish_KeepsRow(r, a) ==
  /\ Goto(r, "done")
  /\ answer' = [answer EXCEPT ![r] = a]
  /\ holder' = Without(r, holder)
  /\ inserter' = IF a = Refused THEN inserter ELSE Without(r, inserter)
  /\ UNCHANGED sent

\* The transaction of r ends and its client is answered a.
Finish(r, a) ==
  /\ Goto(r, "done")
  /\ answer' = [answer EXCEPT ![r] = a]
  /\ holder' = Without(r, holder)
  /\ inserter' = Without(r, inserter)
  /\ UNCHANGED sent

\* A rolled back row is gone, whatever its status was.
Refuse(r) ==
  /\ Finish(r, Refused)
  /\ completed' = completed \ {r}
  /\ UNCHANGED <<row, executed>>

\* No header: no guard.
Begin(r) ==
  /\ pc[r] = "idle"
  /\ key[r] = NoKey
  /\ Goto(r, "work")
  /\ UNCHANGED <<sent, row, completed, executed, inserter, holder, answer>>

\* get_for_update finds the committed row once its lock is free, or nothing:
\* an uncommitted row is invisible and blocks no one here.
Lookup(r) ==
  /\ pc[r] = "idle"
  /\ key[r] # NoKey
  /\ LET k == key[r]
     IN IF row[k] = NoReq
          THEN Goto(r, "insert") /\ UNCHANGED holder
          ELSE /\ holder[k] = NoReq
               /\ holder' = [holder EXCEPT ![k] = r]
               /\ Goto(r, "found")
  /\ UNCHANGED <<sent, row, completed, executed, inserter, answer>>

\* Mutant: no unique constraint to wait on.
Insert_NotUnique(r) ==
  /\ pc[r] = "insert"
  /\ inserter' = [inserter EXCEPT ![key[r]] = r]
  /\ Goto(r, "work")
  /\ UNCHANGED <<sent, row, completed, executed, holder, answer>>

\* create_in_progress: the INSERT waits for a concurrent one; it fails when
\* that one has committed (the SAVEPOINT keeps the transaction usable).
Insert(r) ==
  /\ pc[r] = "insert"
  /\ inserter[key[r]] = NoReq
  /\ IF row[key[r]] = NoReq
       THEN inserter' = [inserter EXCEPT ![key[r]] = r] /\ Goto(r, "work")
       ELSE Goto(r, "reread") /\ UNCHANGED inserter
  /\ UNCHANGED <<sent, row, completed, executed, holder, answer>>

\* The second get_for_update, after IdempotencyKeyAlreadyInserted.
Reread(r) ==
  /\ pc[r] = "reread"
  /\ IF row[key[r]] = NoReq
       THEN Refuse(r)
       ELSE /\ holder[key[r]] = NoReq
            /\ holder' = [holder EXCEPT ![key[r]] = r]
            /\ Goto(r, "found")
            /\ UNCHANGED <<sent, row, completed, executed, inserter, answer>>

\* Mutant: the stored digest is not compared.
Decide_AnyBody(r) ==
  /\ pc[r] = "found"
  /\ Finish(r, answer[row[key[r]]])
  /\ UNCHANGED <<row, completed, executed>>

\* Another digest and a row still in progress are refused; a completed row
\* answers with its response.
Decide(r) ==
  /\ pc[r] = "found"
  /\ LET first == row[key[r]]
     IN IF Digest(first) # Digest(r) \/ first \notin completed
          THEN Refuse(r)
          ELSE Finish(r, answer[first]) /\ UNCHANGED <<row, completed, executed>>

\* Mutant: a route that never completes its row.
Work_NoMark(r) ==
  /\ pc[r] = "work"
  /\ Goto(r, "commit")
  /\ UNCHANGED <<sent, row, completed, executed, inserter, holder, answer>>

\* The business logic of the route, up to its response.
Work(r) ==
  /\ pc[r] = "work"
  /\ Goto(r, IF key[r] = NoKey THEN "commit" ELSE "complete")
  /\ UNCHANGED <<sent, row, completed, executed, inserter, holder, answer>>

\* mark_completed: flushed, not yet visible.
MarkCompleted(r) ==
  /\ pc[r] = "complete"
  /\ completed' = completed \cup {r}
  /\ Goto(r, "commit")
  /\ UNCHANGED <<sent, row, executed, inserter, holder, answer>>

\* The route's single commit makes the documents and the row visible at once.
Commit(r) ==
  /\ pc[r] = "commit"
  /\ executed' = executed \cup {r}
  /\ row' = [k \in Keys |-> IF inserter[k] = r THEN r ELSE row[k]]
  /\ Finish(r, r)
  /\ UNCHANGED completed

\* The business logic is refused, the connection drops, the process dies:
\* the transaction rolls back and the key is as if never used.
Fail(r) ==
  /\ pc[r] \in {"insert", "reread", "found", "work", "complete", "commit"}
  /\ Refuse(r)

Step(r) ==
  \/ Lookup(r) \/ Insert(r) \/ Reread(r) \/ Decide(r)
  \/ Work(r) \/ MarkCompleted(r) \/ Commit(r)

Next == \E r \in Reqs : Begin(r) \/ Step(r) \/ Fail(r)

Spec == Init /\ [][Next]_vars

\* A request that has been sent is served: its coroutine runs, and PostgreSQL
\* lets it go on when what it waits for is released.
FairSpec == Spec /\ \A r \in Reqs : WF_vars(Step(r))
-----------------------------------------------------------------------------
TypeOK ==
  /\ key \in [Reqs -> Keys \cup {NoKey}]
  /\ body \in [Reqs -> Bodies]
  /\ target \in [Reqs -> Targets]
  /\ row \in [Keys -> Reqs \cup {NoReq}]
  /\ completed \subseteq Reqs
  /\ executed \subseteq Reqs
  /\ inserter \in [Keys -> Reqs \cup {NoReq}]
  /\ holder \in [Keys -> Reqs \cup {NoReq}]
  /\ pc \in [Reqs -> PCs]
  /\ answer \in [Reqs -> Reqs \cup {NoReq, Refused}]

\* A client is told a document was created only when it was, by the request
\* whose response it reads; and a document created under a key is the only
\* one of that key: neither a retry nor a concurrent duplicate repeats it.
AnswersAreTrue ==
  /\ \A r \in Reqs : answer[r] \in Reqs => answer[r] \in executed
  /\ \A r, q \in executed : key[r] = key[q] /\ key[r] # NoKey => r = q

\* The row a request waits for is never found "in progress": every
\* transaction that inserts a row completes it or takes it back.
NeverFoundInProgress ==
  \A r \in Reqs : pc[r] = "found" => row[key[r]] \in completed

\* Whatever the interleaving, one request per key takes effect, at the moment
\* it commits, and the others are answered from it or refused.
Promise == INSTANCE ExactlyOnce WITH effect <- row

RefinesExactlyOnce == Promise!Spec

\* Every request sent is answered, however it has to wait for another with
\* its key: rollback and commit both let the waiting ones go on.
EveryRequestAnswered ==
  \A r \in Reqs : pc[r] # "idle" ~> answer[r] # NoReq

\* "The stored response from a prior identical request": the response given
\* is one about the document the request named.
ReplayIsForSameTarget ==
  \A r \in Reqs : answer[r] \in Reqs => target[answer[r]] = target[r]
=============================================================================
