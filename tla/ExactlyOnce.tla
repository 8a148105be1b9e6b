----------------------------- MODULE ExactlyOnce -----------------------------
(***************************************************************************)
(* What an Idempotency-Key promises: of the requests that carry one key,   *)
(* one takes effect, at once; the ones with the same body may only get the *)
(* answer that one got, and a request may always be refused.               *)
(***************************************************************************)
CONSTANTS Reqs, Keys, Bodies, NoReq, NoKey, Refused

VARIABLES key,     \* request -> its key, or NoKey
          body,    \* request -> its body
          effect,  \* key -> the request that took effect, or NoReq
          answer   \* request -> the request whose response it was given,
                   \* Refused, or NoReq while it has none

vars == <<key, body, effect, answer>>

Init ==
  /\ key \in [Reqs -> Keys \cup {NoKey}]
  /\ body \in [Reqs -> Bodies]
  /\ effect = [k \in Keys |-> NoReq]
  /\ answer = [r \in Reqs |-> NoReq]

Answer(r, a) ==
  /\ answer[r] = NoReq
  /\ answer' = [answer EXCEPT ![r] = a]
  /\ UNCHANGED <<key, body>>

Perform(r) ==
  /\ Answer(r, r)
  /\ IF key[r] = NoKey
       THEN UNCHANGED effect
       ELSE /\ effect[key[r]] = NoReq
            /\ effect' = [effect EXCEPT ![key[r]] = r]

Replay(r) ==
  /\ key[r] # NoKey
  /\ effect[key[r]] # NoReq
  /\ body[effect[key[r]]] = body[r]
  /\ Answer(r, effect[key[r]])
  /\ UNCHANGED effect

Refuse(r) == Answer(r, Refused) /\ UNCHANGED effect

Next == \E r \in Reqs : Perform(r) \/ Replay(r) \/ Refuse(r)

Spec == Init /\ [][Next]_vars
=============================================================================
