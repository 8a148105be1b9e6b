------------------------------ MODULE HashChain ------------------------------
(***************************************************************************)
(* What the ZATCA hash chain promises: the documents of a company form one *)
(* chain; each new one counts on from the last and carries its hash.       *)
(***************************************************************************)
EXTENDS Naturals

CONSTANTS Docs, Genesis

VARIABLE links   \* [doc, icv, prev] of every document in the chain

Last(x) == \A y \in links : y.icv <= x.icv

Init == links = {}

Append(d, n, p) ==
  /\ \A x \in links : x.doc # d
  /\ \/ links = {} /\ n = 1 /\ p = Genesis
     \/ \E x \in links : Last(x) /\ n = x.icv + 1 /\ p = x.doc
  /\ links' = links \cup {[doc |-> d, icv |-> n, prev |-> p]}

Next == \E d \in Docs, p \in Docs \cup {Genesis} :
          \E n \in {x.icv : x \in links'} : Append(d, n, p)

Spec == Init /\ [][Next]_links
=============================================================================
