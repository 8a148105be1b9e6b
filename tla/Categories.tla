------------------------------ MODULE Categories ------------------------------
(***************************************************************************)
(* The tree of categories, of products and of fixed assets alike: what     *)
(* their services decide on the rows c that a request has loaded.  A row   *)
(* without a name is not there.                                            *)
(***************************************************************************)
EXTENDS Naturals, FiniteSets

CONSTANTS Ids, Names, Nil

Rows  == [name : Names \cup {Nil}, parent : Ids \cup {Nil}]
NoRow == [name |-> Nil, parent |-> Nil]

There(c, x) == x \in Ids /\ c[x].name # Nil

\* find_sibling_by_name, names being compared in lower case
Sibling(c, p, n, x) == \E y \in Ids \ {x} : c[y].name = n /\ c[y].parent = p

\* _validate_parent walks up from the new parent, and stops at a parent it has
\* met before or at the category itself.
Walk(c, p) ==
  LET up[n \in 0 .. Cardinality(Ids)] ==
        IF n = 0 THEN {c[p].parent} \ {Nil}
        ELSE up[n - 1] \cup ({c[x].parent : x \in up[n - 1]} \ {Nil})
  IN up[Cardinality(Ids)]

Circular(c, x, p) == LET W == Walk(c, p) IN x \in W \/ \E y \in W : y \in Walk(c, y)

ValidParent(c, x, p) ==
  p # Nil => p # x /\ There(c, p) /\ (There(c, x) => ~Circular(c, x, p))

CanCreate(c, x, p, n) == ~There(c, x) /\ ValidParent(c, x, p) /\ ~Sibling(c, p, n, x)
CanUpdate(c, x, p, n) == There(c, x) /\ ValidParent(c, x, p) /\ ~Sibling(c, p, n, x)

HasChildren(c, x) == \E y \in Ids : There(c, y) /\ c[y].parent = x
CanDelete(c, x)   == There(c, x) /\ ~HasChildren(c, x)

Saved(c, x, p, n) == [c EXCEPT ![x] = [name |-> n, parent |-> p]]
Removed(c, x)     == [c EXCEPT ![x] = NoRow]
-----------------------------------------------------------------------------
\* Every category hangs under categories that are there, and never under
\* itself; siblings differ in name.
Tree(c) == \A x \in Ids : There(c, x) =>
  /\ x \notin Walk(c, x)
  /\ \A y \in Walk(c, x) : There(c, y)
  /\ ~Sibling(c, c[x].parent, c[x].name, x)
=============================================================================
