--------------------------- MODULE ChartOfAccounts ---------------------------
(***************************************************************************)
(* The chart of accounts of a company, its cost centres and the account it *)
(* has chosen for inventory adjustments.                                   *)
(*                                                                         *)
(* Nothing here is locked.  A request loads what it needs, decides on the  *)
(* copies it has loaded, and writes the attributes it has changed when it  *)
(* commits.  It is modelled in two steps: the first loads (seen) and       *)
(* decides (want), the second writes the differences.  A refused request   *)
(* changes nothing and is the same as one that was not sent.               *)
(***************************************************************************)
EXTENDS Naturals, FiniteSets, Sequences

CONSTANTS
  Txns,        \* requests; each is served at most once
  Accounts,    \* identities of account rows
  Centres,     \* identities of cost centre rows
  Names,       \* names of cost centres, up to case
  MaxLevel,    \* MAX_ACCOUNT_LEVEL
  Template,    \* DEFAULT_SAUDI_COA: [account, parent, type, cash], parents first
  News,        \* payloads of create_account
  Updates,     \* the same of update_account, with the account they are for
  Nil, Unset   \* None, and _UNSET or a field that is not sent

Types  == {"asset", "liability", "equity", "revenue", "expense"}
States == {"none", "live", "deleted"}
Rows   == [state : States, parent : Accounts \cup {Nil}, level : 1 .. MaxLevel,
           group : BOOLEAN, active : BOOLEAN, cash : BOOLEAN, type : Types]
CentreRows == [name : Names \cup {Nil}, active : BOOLEAN]

ASSUME ChartAssumption ==
  /\ MaxLevel \in 1 .. 4
  /\ Nil \notin Accounts /\ Unset \notin Accounts /\ Nil # Unset
  /\ Nil \notin Names
  /\ Accounts # {}
  /\ News \subseteq [parent : Accounts \cup {Nil}, group : BOOLEAN, cash : BOOLEAN, type : Types]
  /\ Updates \subseteq [account : Accounts, parent : Accounts \cup {Nil, Unset},
                       group : BOOLEAN \cup {Unset}, active : BOOLEAN \cup {Unset},
                       cash : BOOLEAN \cup {Unset}, type : Types \cup {Unset}]

VARIABLES
  acct,       \* account rows
  centre,     \* cost_center rows; one without a name was not created
  adjust,     \* accounting_settings.inventory_adjustment_account_id
  used,       \* accounts that occur in a journal entry line
  pc,         \* of each request: idle, open or ended
  seen, want, \* the chart a request has loaded, and what it makes of it
  overlapped  \* have two requests ever been open together?  (history)

Chart      == [acct |-> acct, centre |-> centre, adjust |-> adjust]
chartVars  == <<acct, centre, adjust>>
PCs        == {"idle", "open", "ended"}

Live(c, a)     == a \in Accounts /\ c.acct[a].state = "live"
Children(c, a) == {x \in Accounts : Live(c, x) /\ c.acct[x].parent = a}

\* What hangs under a, itself included, and the walk from a to the top.  Eight
\* steps are twice the levels there may be: enough for what requests that
\* overlap may pile up in a bounded instance, and where they have made a cycle
\* the walk shows no top.
Grow(c, S)  == LET R == S \cup UNION {Children(c, y) : y \in S}
               IN R \cup UNION {Children(c, y) : y \in R}
Rise(c, S)  == LET Up(Q) == Q \cup {x \in Accounts : \E y \in Q : Live(c, x) /\ c.acct[y].parent = x}
               IN Up(Up(S))
Under(c, a) == Grow(c, Grow(c, Grow(c, Grow(c, {a}))))
Above(c, a) == Rise(c, Rise(c, Rise(c, Rise(c, {a}))))
HasTop(c, S) == \E x \in S : ~Live(c, c.acct[x].parent)

\* seed_default_chart_of_accounts: the level of each row follows from its
\* parent's, and whatever has children is a group.
SeedLevel[i \in DOMAIN Template] ==
  IF Template[i].parent = Nil THEN 1
  ELSE 1 + SeedLevel[CHOOSE j \in DOMAIN Template : Template[j].account = Template[i].parent]

\* The template is a table in the source: no account occurs twice, parents come
\* first, and it is not too deep.
ASSUME TemplateAssumption ==
  /\ Template \in Seq([account : Accounts, parent : Accounts \cup {Nil}, type : Types, cash : BOOLEAN])
  /\ \A i, j \in DOMAIN Template : Template[i].account = Template[j].account => i = j
  /\ \A i \in DOMAIN Template :
       Template[i].parent = Nil \/ \E j \in 1 .. (i - 1) : Template[j].account = Template[i].parent
  /\ \A i \in DOMAIN Template : SeedLevel[i] <= MaxLevel

NoRow == [state |-> "none", parent |-> Nil, level |-> 1, group |-> FALSE,
          active |-> TRUE, cash |-> FALSE, type |-> "asset"]

Seeded == [a \in Accounts |->
  LET Is == {i \in DOMAIN Template : Template[i].account = a}
      i  == CHOOSE i \in Is : TRUE
  IN IF Is = {} THEN NoRow
     ELSE [state |-> "live", parent |-> Template[i].parent, level |-> SeedLevel[i],
           group |-> \E j \in DOMAIN Template : Template[j].parent = a,
           active |-> TRUE, cash |-> Template[i].cash, type |-> Template[i].type]]
-----------------------------------------------------------------------------
(***************************************************************************)
(* The services, on the chart c a request has loaded.                      *)
(***************************************************************************)
\* has_transactions
HasTransactions(a) == a \in used

CanCreate(c, a, n) ==
  /\ c.acct[a].state = "none"
  /\ n.parent # Nil => Live(c, n.parent) /\ c.acct[n.parent].level < MaxLevel

Created(c, a, n) ==
  LET row == [state |-> "live", parent |-> n.parent, group |-> n.group,
              active |-> TRUE, cash |-> n.cash, type |-> n.type,
              level |-> IF n.parent = Nil THEN 1 ELSE c.acct[n.parent].level + 1]
  IN [c EXCEPT !.acct = [x \in Accounts |->
       IF x = a THEN row
       ELSE IF x = n.parent THEN [@[x] EXCEPT !.group = TRUE] ELSE @[x]]]

\* The levels of a subtree whose top moves to level l.  There are none when
\* it would reach too deep: _deepest_descendant_offset.
NewLevels(c, a, l) ==
  LET U == Under(c, a)
  IN {r \in [U -> 1 .. MaxLevel] :
        r[a] = l /\ \A x \in U : \A y \in Children(c, x) : r[y] = r[x] + 1}

Sent(field, old) == IF field = Unset THEN old ELSE field

Edited(row, u) == [row EXCEPT !.group = Sent(u.group, @), !.active = Sent(u.active, @),
                              !.cash = Sent(u.cash, @), !.type = Sent(u.type, @)]

Moves(c, a, u) == u.parent # Unset /\ u.parent # c.acct[a].parent

\* Mutant: no look at the ancestors of the new parent.
CanUpdate_AnyParent(c, a, u) ==
  /\ Live(c, a)
  /\ u.group = FALSE => Children(c, a) = {}
  /\ Moves(c, a, u) /\ u.parent # Nil => u.parent # a /\ Live(c, u.parent)

CanUpdate(c, a, u) ==
  /\ Live(c, a)
  /\ u.group = FALSE => Children(c, a) = {}
  /\ Moves(c, a, u) /\ u.parent # Nil =>
       u.parent # a /\ Live(c, u.parent) /\ a \notin Above(c, u.parent) /\ HasTop(c, Above(c, u.parent))

\* _recompute_subtree_levels and the promotion of the new parent
Moved(c, a, p, r) ==
  [c EXCEPT !.acct = [x \in Accounts |->
     [c.acct[x] EXCEPT !.level  = IF x \in DOMAIN r THEN r[x] ELSE @,
                       !.parent = IF x = a THEN p ELSE @,
                       !.group  = IF x = p THEN TRUE ELSE @]]]

Updated(c, a, u) ==
  LET e == [c EXCEPT !.acct[a] = Edited(@, u)]
      l == IF u.parent = Nil THEN 1 ELSE c.acct[u.parent].level + 1
  IN IF Moves(c, a, u) THEN {Moved(e, a, u.parent, r) : r \in NewLevels(c, a, l)}
                       ELSE {e}

CanDelete(c, a) ==
  /\ Live(c, a)
  /\ Children(c, a) = {}
  /\ ~HasTransactions(a)

\* _validate_inventory_adjustment_account
ValidAdjustment(c, a) ==
  /\ Live(c, a)
  /\ ~c.acct[a].group /\ c.acct[a].active /\ c.acct[a].type = "expense"

\* resolve_inventory_adjustment_account
Resolvable(c) == c.adjust # Nil /\ ValidAdjustment(c, c.adjust)

\* update_settings: None clears the configuration.
WithAdjustment(c, a) ==
  IF a = Nil \/ ValidAdjustment(c, a) THEN {[c EXCEPT !.adjust = a]} ELSE {}

NameTaken(c, x, n) == \E y \in Centres \ {x} : c.centre[y].name = n

\* create_cost_center, update_cost_center
WithCentre(c, x, n, b) ==
  IF NameTaken(c, x, n) THEN {} ELSE {[c EXCEPT !.centre[x] = [name |-> n, active |-> b]]}
-----------------------------------------------------------------------------
(***************************************************************************)
(* Requests.                                                               *)
(***************************************************************************)
Begin(t) ==
  /\ pc[t] = "idle"
  /\ pc' = [pc EXCEPT ![t] = "open"]
  /\ overlapped' = (overlapped \/ \E u \in Txns : pc[u] = "open")

Load(t, w) ==
  /\ Begin(t)
  /\ seen' = [seen EXCEPT ![t] = Chart]
  /\ want' = [want EXCEPT ![t] = w]
  /\ UNCHANGED <<chartVars, used>>

\* A request that is open has drawn the identity, for a row of its own.
Drawn(a)       == \E u \in Txns : want[u] # Nil /\ want[u].acct[a].state # seen[u].acct[a].state
DrawnCentre(x) == \E u \in Txns : want[u] # Nil /\ want[u].centre[x].name # seen[u].centre[x].name

CreateAccount(t) == \E a \in Accounts, n \in News :
  /\ CanCreate(Chart, a, n) /\ ~Drawn(a)
  /\ Load(t, Created(Chart, a, n))

UpdateAccount(t) == \E u \in Updates :
  /\ CanUpdate(Chart, u.account, u)
  /\ \E c \in Updated(Chart, u.account, u) : Load(t, c)

DeleteAccount(t) == \E a \in Accounts :
  /\ CanDelete(Chart, a)
  /\ Load(t, [Chart EXCEPT !.acct[a].state = "deleted"])

UpdateSettings(t) == \E a \in Accounts \cup {Nil} :
  \E c \in WithAdjustment(Chart, a) : Load(t, c)

CreateCentre(t) == \E x \in Centres, n \in Names :
  /\ centre[x].name = Nil /\ ~DrawnCentre(x)
  /\ \E c \in WithCentre(Chart, x, n, TRUE) : Load(t, c)

UpdateCentre(t) == \E x \in Centres, n \in Names, b \in BOOLEAN :
  /\ centre[x].name # Nil
  /\ \E c \in WithCentre(Chart, x, n, b) : Load(t, c)

\* The attributes in which what a request wants differs from what it has seen.
Changed(now, old, new) ==
  [f \in DOMAIN now |-> IF new[f] # old[f] THEN new[f] ELSE now[f]]

Flush(t) ==
  /\ acct'   = [a \in Accounts |-> Changed(acct[a], seen[t].acct[a], want[t].acct[a])]
  /\ centre' = [x \in Centres |-> Changed(centre[x], seen[t].centre[x], want[t].centre[x])]
  /\ adjust' = IF want[t].adjust # seen[t].adjust THEN want[t].adjust ELSE adjust

End(t) == pc[t] = "open" /\ pc' = [pc EXCEPT ![t] = "ended"]

Forget(t) ==
  /\ seen' = [seen EXCEPT ![t] = Nil]
  /\ want' = [want EXCEPT ![t] = Nil]

Commit(t) ==
  /\ End(t)
  /\ want[t] # Nil
  /\ Flush(t)
  /\ Forget(t)
  /\ UNCHANGED <<used, overlapped>>
\* The commit fails, or the process dies before it.
Rollback(t) == End(t) /\ Forget(t) /\ UNCHANGED <<chartVars, used, overlapped>>
-----------------------------------------------------------------------------
ChartInit ==
  /\ acct = Seeded
  /\ pc = [t \in Txns |-> "idle"]
  /\ seen = [t \in Txns |-> Nil]
  /\ want = seen
  /\ overlapped = FALSE

ChartStep(t) ==
  \/ CreateAccount(t) \/ UpdateAccount(t) \/ DeleteAccount(t)
  \/ UpdateSettings(t) \/ CreateCentre(t) \/ UpdateCentre(t)
-----------------------------------------------------------------------------
\* Every account hangs under a live group one level above it, so that the
\* chart is a forest in which levels are depths (create, reparent, recompute).
IsForest(rows) == \A a \in Accounts : rows[a].state = "live" =>
  IF rows[a].parent = Nil THEN rows[a].level = 1
  ELSE LET p == rows[a].parent
       IN /\ rows[p].state = "live" /\ rows[p].group
          /\ rows[a].level = rows[p].level + 1

Forest == IsForest(acct)

\* An account with postings is never deleted.
PostingsHaveAccounts == \A a \in used : acct[a].state = "live"

\* No two cost centres of a company share a name.
Differ(centres) == \A x, y \in Centres :
  x # y /\ centres[x].name # Nil => centres[x].name # centres[y].name

NamesDiffer == Differ(centre)
=============================================================================
