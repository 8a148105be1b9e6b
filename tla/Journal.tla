------------------------------- MODULE Journal -------------------------------
(***************************************************************************)
(* Journal entries and fiscal periods, beside the requests that change the *)
(* chart of accounts.  Like those, a request loads without locks and       *)
(* writes when it commits; triggers of the database have the last word.    *)
(***************************************************************************)
EXTENDS ChartOfAccounts, Sequences, FiniteSetsExt

CONSTANTS
  Entries,     \* identities of journal_entry rows
  Dates,       \* dates, as numbers
  Today,       \* date.today()
  Shapes,      \* the lines of an entry: a sequence of [account, debit, credit, centre]
  Openings,    \* books a company may have before the requests:
               \* [entry, period, centre, adjust]
  Ranges       \* first and last dates of the fiscal periods that may be created

Statuses == {"none", "draft", "posted", "reversed", "cancelled"}

LineRows  == [account : Accounts, debit : Nat, credit : Nat, centre : Centres \cup {Nil}]
EntryRows == [status : Statuses, date : Dates, lines : Seq(LineRows),
              reversal : Entries \cup {Nil}]

TotalDebit(s)  == SumFunction([i \in DOMAIN s |-> s[i].debit])
TotalCredit(s) == SumFunction([i \in DOMAIN s |-> s[i].credit])

\* An entry is created balanced, and reversals are made by requests.
ASSUME JournalAssumption ==
  /\ Today \in Dates /\ Nil \notin Entries /\ Nil \notin Ranges
  /\ Shapes \subseteq Seq(LineRows)
  /\ \A o \in Openings : /\ o.entry \in [Entries -> EntryRows]
                         /\ o.period \in [Ranges -> {"none", "open", "closed"}]
                         /\ o.centre \in [Centres -> CentreRows] /\ Differ(o.centre)
                         /\ o.adjust \in Accounts \cup {Nil}
                         /\ \A e \in Entries :
                              /\ o.entry[e].status # "reversed"
                              /\ o.entry[e].reversal = Nil
                              /\ TotalDebit(o.entry[e].lines) = TotalCredit(o.entry[e].lines)
                              /\ \A i \in DOMAIN o.entry[e].lines :
                                   Seeded[o.entry[e].lines[i].account].state = "live"

VARIABLES
  entry,       \* journal_entry rows with their lines
  period,      \* fiscal_period rows: none, open or closed
  plan         \* the row a request is about to write: what it has loaded and wants

bookVars == <<entry, period>>
vars     == <<acct, centre, adjust, used, pc, seen, want, overlapped, entry, period, plan>>

NoEntry == [status |-> "none", date |-> Today, lines |-> <<>>, reversal |-> Nil]
NoPlan  == [of |-> "nothing", row |-> Nil, new |-> NoEntry, also |-> Nil, range |-> Nil]

Booked(e) == e.status \in {"posted", "reversed"}

\* JournalEntry.assert_balanced
Balanced(s) == Len(s) >= 2 /\ TotalDebit(s) = TotalCredit(s)

\* JournalEntryLine.__post_init__
WellFormed(s) == \A i \in DOMAIN s : s[i].debit = 0 \/ s[i].credit = 0

\* What create_draft_entry asks of a line.
Postable(l) ==
  /\ acct[l.account].state = "live" /\ ~acct[l.account].group
  /\ l.centre # Nil => centre[l.centre].name # Nil /\ centre[l.centre].active

Acceptable(s) == WellFormed(s) /\ Balanced(s) /\ \A i \in DOMAIN s : Postable(s[i])

Swapped(s) == [i \in DOMAIN s |->
  [account |-> s[i].account, debit |-> s[i].credit, credit |-> s[i].debit,
   centre |-> s[i].centre]]

\* find_covering: more than one row is an error, and no period is as good as
\* an open one.
Covering(d) == {r \in Ranges : period[r] # "none" /\ r[1] <= d /\ d <= r[2]}

MayPostOn(d) == Cardinality(Covering(d)) <= 1 /\ \A r \in Covering(d) : period[r] # "closed"
-----------------------------------------------------------------------------
(***************************************************************************)
(* Loading and deciding.                                                   *)
(***************************************************************************)
New(e) == entry[e].status = "none" /\ \A t \in Txns : e \notin {plan[t].row, plan[t].also}

Prepare(t, p) ==
  /\ Begin(t)
  /\ plan' = [plan EXCEPT ![t] = p]
  /\ UNCHANGED <<chartVars, used, seen, want, bookVars>>

Draft(t) == \E e \in Entries, d \in Dates, s \in Shapes :
  /\ New(e) /\ Acceptable(s)
  /\ Prepare(t, [NoPlan EXCEPT !.of = "insert", !.row = e,
                 !.new = [NoEntry EXCEPT !.status = "draft", !.date = d, !.lines = s]])

\* Mutant: a period's being closed is not looked at.
Post_AnyPeriod(t) == \E e \in Entries :
  /\ entry[e].status = "draft"
  /\ Balanced(entry[e].lines)
  /\ Prepare(t, [NoPlan EXCEPT !.of = "status", !.row = e,
                 !.new = [entry[e] EXCEPT !.status = "posted"]])

Post(t) == \E e \in Entries :
  /\ entry[e].status = "draft"
  /\ MayPostOn(entry[e].date)
  /\ Balanced(entry[e].lines)
  /\ Prepare(t, [NoPlan EXCEPT !.of = "status", !.row = e,
                 !.new = [entry[e] EXCEPT !.status = "posted"]])

\* A draft that is posted in the same request, as the documents of the other
\* parts do; here the net value of an approved cycle count.
AutoPost(t) == \E e \in Entries, s \in Shapes :
  /\ New(e) /\ Acceptable(s)
  /\ Resolvable(Chart) /\ \E i \in DOMAIN s : s[i].account = adjust
  /\ MayPostOn(Today)
  /\ Prepare(t, [NoPlan EXCEPT !.of = "insert", !.row = e,
                 !.new = [NoEntry EXCEPT !.status = "posted", !.lines = s]])

CancelDraft(t) == \E e \in Entries :
  /\ entry[e].status = "draft"
  /\ Prepare(t, [NoPlan EXCEPT !.of = "status", !.row = e,
                 !.new = [entry[e] EXCEPT !.status = "cancelled"]])

ReverseEntry(t) == \E e, r \in Entries :
  /\ entry[e].status = "posted" /\ New(r)
  /\ Prepare(t, [NoPlan EXCEPT !.of = "reversal", !.row = e, !.also = r,
                 !.new = [entry[e] EXCEPT !.status = "reversed", !.reversal = r]])

CreatePeriod(t) == \E r \in Ranges :
  Prepare(t, [NoPlan EXCEPT !.of = "create period", !.range = r])

ClosePeriod(t) == \E r \in Ranges :
  /\ period[r] # "none"
  /\ Prepare(t, [NoPlan EXCEPT !.of = "close period", !.range = r])
-----------------------------------------------------------------------------
(***************************************************************************)
(* Writing.                                                                *)
(***************************************************************************)
Uses(s) == {s[i].account : i \in DOMAIN s}

\* Mutant: no trigger.
SetStatus_NoTrigger(t) == LET p == plan[t] IN
  /\ p.of = "status"
  /\ entry' = [entry EXCEPT ![p.row].status = p.new.status]
  /\ UNCHANGED <<used, period>>

\* fn_journal_entry_posted_immutable looks at the row as it is by now.
SetStatus(t) == LET p == plan[t] IN
  /\ p.of = "status"
  /\ entry[p.row].status = "posted" => p.new.status \in {"posted", "reversed"}
  /\ entry' = [entry EXCEPT ![p.row].status = p.new.status]
  /\ UNCHANGED <<used, period>>

InsertEntry(t) == LET p == plan[t] IN
  /\ p.of = "insert"
  /\ entry' = [entry EXCEPT ![p.row] = p.new]
  /\ used' = used \cup Uses(p.new.lines)
  /\ UNCHANGED period

\* Mutant: the lines of a reversal are those of the original.
InsertReversal_SameSides(t) == LET p == plan[t] IN
  /\ p.of = "reversal"
  /\ entry' = [entry EXCEPT
       ![p.row].status = "reversed", ![p.row].reversal = p.also,
       ![p.also] = [NoEntry EXCEPT !.status = "posted", !.lines = p.new.lines]]
  /\ UNCHANGED <<used, period>>

InsertReversal(t) == LET p == plan[t] IN
  /\ p.of = "reversal"
  /\ entry' = [entry EXCEPT
       ![p.row].status = "reversed", ![p.row].reversal = p.also,
       ![p.also] = [NoEntry EXCEPT !.status = "posted", !.lines = Swapped(p.new.lines)]]
  /\ UNCHANGED <<used, period>>

InsertPeriod(t) == LET p == plan[t] IN
  /\ p.of = "create period"
  /\ period[p.range] = "none"   \* ux_fiscal_period
  /\ period' = [period EXCEPT ![p.range] = "open"]
  /\ UNCHANGED <<entry, used>>

SetClosed(t) == LET p == plan[t] IN
  /\ p.of = "close period"
  /\ period' = [period EXCEPT ![p.range] = "closed"]
  /\ UNCHANGED <<entry, used>>

CommitBooks(t) ==
  /\ End(t)
  /\ SetStatus(t) \/ InsertEntry(t) \/ InsertReversal(t) \/ InsertPeriod(t) \/ SetClosed(t)
  /\ plan' = [plan EXCEPT ![t] = NoPlan]
  /\ UNCHANGED <<chartVars, seen, want, overlapped>>
-----------------------------------------------------------------------------
Init ==
  /\ ChartInit
  /\ \E o \in Openings : /\ entry = o.entry /\ period = o.period
                         /\ centre = o.centre /\ adjust = o.adjust
  /\ used = UNION {Uses(entry[e].lines) : e \in Entries}
  /\ plan = [t \in Txns |-> NoPlan]

BookStep(t) ==
  \/ Draft(t) \/ Post(t) \/ AutoPost(t) \/ CancelDraft(t) \/ ReverseEntry(t)
  \/ CreatePeriod(t) \/ ClosePeriod(t) \/ CommitBooks(t)

Step(t) ==
  \/ BookStep(t)
  \/ Rollback(t) /\ plan' = [plan EXCEPT ![t] = NoPlan] /\ UNCHANGED bookVars
  \/ /\ ChartStep(t) \/ Commit(t)
     /\ UNCHANGED <<bookVars, plan>>

Next == \E t \in Txns : Step(t)

Spec == Init /\ [][Next]_vars
-----------------------------------------------------------------------------
TypeOK ==
  /\ acct \in [Accounts -> Rows]
  /\ centre \in [Centres -> CentreRows]
  /\ adjust \in Accounts \cup {Nil}
  /\ used \subseteq Accounts
  /\ pc \in [Txns -> PCs]
  /\ overlapped \in BOOLEAN
  /\ entry \in [Entries -> EntryRows]
  /\ period \in [Ranges -> {"none", "open", "closed"}]

\* The chart is well typed however requests interleave; and as long as they
\* come one at a time it is a forest of groups, accounts with postings stay
\* and cost centres differ in name.
ChartSound == TypeOK /\ (~overlapped => Forest /\ PostingsHaveAccounts /\ NamesDiffer)

\* As long as requests come one at a time: an entry is reversed by exactly one
\* other, which posts the same amounts on the other sides, and reverses only
\* what was posted.
ReversalsCancel == ~overlapped =>
  /\ \A e \in Entries : entry[e].status = "reversed" <=> entry[e].reversal # Nil
  /\ \A e, f \in Entries : entry[e].reversal # Nil =>
       /\ Booked(entry[entry[e].reversal])
       /\ entry[entry[e].reversal].lines = Swapped(entry[e].lines)
       /\ entry[f].reversal = entry[e].reversal => e = f

\* However requests interleave, an entry that is posted does not leave the
\* books: it stays posted or becomes reversed (cancel against post, by the
\* trigger of the database).
PostedStays == [][\A e \in Entries :
  entry[e].status = "posted" => entry'[e].status \in {"posted", "reversed"}
                                /\ entry'[e].lines = entry[e].lines]_vars

\* As long as requests come one at a time, nothing but a reversal, which is
\* dated today, enters the books on a date whose period is closed.
ClosedIsClosed == [][\A e \in Entries :
  ~overlapped' /\ ~Booked(entry[e]) /\ Booked(entry'[e])
    => \/ \A r \in Covering(entry'[e].date) : period[r] # "closed"
       \/ \E f \in Entries : entry'[f].reversal = e]_vars
=============================================================================
