---------------------------- MODULE JournalProofs -----------------------------
(***************************************************************************)
(* Proofs about Journal, for any requests, entries, dates and periods, and *)
(* whatever the requests on the chart of accounts do beside them; and      *)
(* about Financials, which is read off the books in every such state.      *)
(***************************************************************************)
EXTENDS Financials, SumLemmas, SequenceTheorems, TLAPS

(***************************************************************************)
(* The inductive invariant.                                                *)
(***************************************************************************)
Purposes == {"nothing", "insert", "status", "reversal", "create period", "close period"}
Plans    == [of : Purposes, row : Entries \cup {Nil}, new : EntryRows,
             also : Entries \cup {Nil}, range : Ranges \cup {Nil}]

BookType ==
  /\ entry \in [Entries -> EntryRows]
  /\ period \in [Ranges -> {"none", "open", "closed"}]
  /\ plan \in [Txns -> Plans]
  /\ pc \in [Txns -> PCs]
  /\ overlapped \in BOOLEAN
  /\ DOMAIN want = Txns

\* A request that is not open has nothing in hand, and one that is has
\* something for the chart or for the books, never for both.
InHand == \A t \in Txns :
  /\ pc[t] # "open" => plan[t] = NoPlan /\ want[t] = Nil
  /\ plan[t] = NoPlan \/ want[t] = Nil

\* The request t is going to insert the row e.
Claims(t, e) == \/ plan[t].of = "insert" /\ plan[t].row = e
                \/ plan[t].of = "reversal" /\ plan[t].also = e

\* What a request is going to insert is not there and nobody else's; what it
\* is going to change is there.
ClaimInv ==
  /\ \A t \in Txns, e \in Entries : Claims(t, e) => entry[e].status = "none"
  /\ \A t, u \in Txns, e \in Entries : Claims(t, e) /\ Claims(u, e) => t = u

PlanFits(t) == LET p == plan[t] IN
  /\ p.of = "insert" => p.row \in Entries /\ p.new.status \in {"draft", "posted"} /\ p.new.reversal = Nil
  /\ p.of = "status" => p.row \in Entries /\ p.new.status \in {"posted", "cancelled"}
                        /\ entry[p.row].status # "none"
  /\ p.of = "reversal" => /\ p.row \in Entries /\ p.also \in Entries
                          /\ entry[p.row].status # "none"
                          /\ p.new.lines = entry[p.row].lines
  /\ p.of \in {"create period", "close period"} => p.range \in Ranges

\* As long as requests come one at a time, the open one is alone, and what it
\* has read is still so.
Alone == \A t, u \in Txns : pc[t] = "open" /\ pc[u] = "open" => t = u

Fresh(t) == LET p == plan[t] IN
  /\ p.of = "status" => /\ entry[p.row].status = "draft"
                        /\ p.new.status = "posted" =>
                             \A r \in Covering(entry[p.row].date) : period[r] # "closed"
  /\ p.of = "insert" /\ p.new.status = "posted" =>
       \A r \in Covering(p.new.date) : period[r] # "closed"
  /\ p.of = "reversal" => entry[p.row].status = "posted"

Solo == ~overlapped => Alone /\ \A t \in Txns : Fresh(t)

Books == BookType /\ InHand /\ ClaimInv /\ \A t \in Txns : PlanFits(t)

IInv == Books /\ Solo /\ ReversalsCancel
-----------------------------------------------------------------------------
(***************************************************************************)
(* What a step does.                                                       *)
(***************************************************************************)
\* Whatever a request on the chart is about, it loads and wants something.
LEMMA ChartLoads ==
  ASSUME NEW t \in Txns, ChartStep(t)
  PROVE  \E w : Load(t, w)
  BY DEF ChartStep, CreateAccount, UpdateAccount, DeleteAccount, UpdateSettings,
         CreateCentre, UpdateCentre

LEMMA EmptyEntry == NoEntry \in EntryRows /\ NoPlan \in Plans
  <1>1. <<>> \in Seq(LineRows)
    OBVIOUS
  <1>2. NoEntry \in EntryRows
    BY <1>1, JournalAssumption DEF NoEntry, EntryRows, Statuses
  <1>. QED
    BY <1>2 DEF NoPlan, Plans, Purposes

\* The plans that requests on the books set out with.
Draws(t) == Draft(t) \/ AutoPost(t) \/ ReverseEntry(t)
Alters(t) == Post(t) \/ CancelDraft(t) \/ CreatePeriod(t) \/ ClosePeriod(t)

LEMMA PlanOf ==
  ASSUME BookType, NEW t \in Txns, Draws(t) \/ Alters(t)
  PROVE  \E p \in Plans : Prepare(t, p)
  <1> USE JournalAssumption DEF BookType, Plans, Purposes, NoPlan
  <1>1. NoEntry \in EntryRows
    BY EmptyEntry
  <1>2. ASSUME NEW e \in Entries, NEW d \in Dates, NEW s \in Shapes
        PROVE  /\ [NoEntry EXCEPT !.status = "draft", !.date = d, !.lines = s] \in EntryRows
               /\ [NoEntry EXCEPT !.status = "posted", !.lines = s] \in EntryRows
    BY DEF NoEntry, EntryRows, Statuses
  <1>3. ASSUME NEW e \in Entries, NEW r \in Entries
        PROVE  /\ [entry[e] EXCEPT !.status = "posted"] \in EntryRows
               /\ [entry[e] EXCEPT !.status = "cancelled"] \in EntryRows
               /\ [entry[e] EXCEPT !.status = "reversed", !.reversal = r] \in EntryRows
    <2>1. entry[e] \in EntryRows
      OBVIOUS
    <2>. QED
      BY <2>1 DEF EntryRows, Statuses
  <1>4. CASE Draft(t)
    BY <1>1, <1>2, <1>4 DEF Draft
  <1>5. CASE AutoPost(t)
    BY <1>1, <1>2, <1>5 DEF AutoPost
  <1>6. CASE ReverseEntry(t)
    BY <1>1, <1>3, <1>6 DEF ReverseEntry
  <1>7. CASE Post(t)
    BY <1>1, <1>3, <1>7 DEF Post
  <1>8. CASE CancelDraft(t)
    BY <1>1, <1>3, <1>8 DEF CancelDraft
  <1>9. CASE CreatePeriod(t)
    BY <1>1, <1>9 DEF CreatePeriod
  <1>10. CASE ClosePeriod(t)
    BY <1>1, <1>10 DEF ClosePeriod
  <1>. QED
    BY <1>4, <1>5, <1>6, <1>7, <1>8, <1>9, <1>10 DEF Draws, Alters

\* A step sets out with a plan, commits it, or leaves the books and the plans
\* of the others alone.
Quiet(t) == \/ Rollback(t) /\ plan' = [plan EXCEPT ![t] = NoPlan] /\ UNCHANGED bookVars
            \/ (ChartStep(t) \/ Commit(t)) /\ UNCHANGED <<bookVars, plan>>

LEMMA StepCases ==
  ASSUME NEW t \in Txns, Step(t)
  PROVE  Draws(t) \/ Alters(t) \/ CommitBooks(t) \/ Quiet(t)
  BY DEF Step, BookStep, Draws, Alters, Quiet
-----------------------------------------------------------------------------
(***************************************************************************)
(* Types, and who has what in hand.                                        *)
(***************************************************************************)
LEMMA SwappedLines ==
  ASSUME NEW s \in Seq(LineRows)
  PROVE  Swapped(s) \in Seq(LineRows)
  <1> DEFINE Turned(i) == [account |-> s[i].account, debit |-> s[i].credit,
                           credit |-> s[i].debit, centre |-> s[i].centre]
  <1>1. s \in [1 .. Len(s) -> LineRows] /\ Len(s) \in Nat
    BY LenProperties
  <1>2. \A i \in 1 .. Len(s) : Turned(i) \in LineRows
    BY <1>1 DEF LineRows
  <1>3. Swapped(s) = [i \in 1 .. Len(s) |-> Turned(i)]
    BY <1>1 DEF Swapped
  <1>4. Swapped(s) \in [1 .. Len(s) -> LineRows]
    BY <1>2, <1>3
  <1>. QED
    BY <1>1, <1>4

\* What CommitBooks makes of an entry.
LEMMA CommitEntry ==
  ASSUME BookType, NEW t \in Txns, PlanFits(t), CommitBooks(t)
  PROVE  entry' \in [Entries -> EntryRows]
  <1> USE DEF BookType
  <1> DEFINE p == plan[t]
  <1>0. p \in Plans /\ p.new \in EntryRows
    BY DEF Plans
  <1>1. CASE SetStatus(t)
    <2>1. p.row \in Entries /\ p.new.status \in Statuses
      BY <1>1 DEF SetStatus, PlanFits, Statuses
    <2>2. entry' = [entry EXCEPT ![p.row].status = p.new.status]
      BY <1>1 DEF SetStatus
    <2>3. [entry[p.row] EXCEPT !.status = p.new.status] \in EntryRows
      BY <2>1 DEF EntryRows
    <2>. QED
      BY <2>1, <2>2, <2>3
  <1>2. CASE InsertEntry(t)
    BY <1>0, <1>2 DEF InsertEntry
  <1>3. CASE InsertReversal(t)
    <2> DEFINE old == [entry[p.row] EXCEPT !.status = "reversed", !.reversal = p.also]
               new == [NoEntry EXCEPT !.status = "posted", !.lines = Swapped(p.new.lines)]
    <2>1. p.row \in Entries /\ p.also \in Entries /\ p.new.lines \in Seq(LineRows)
      BY <1>0, <1>3 DEF InsertReversal, PlanFits, EntryRows
    <2>2. entry' = [entry EXCEPT ![p.row].status = "reversed", ![p.row].reversal = p.also,
                                 ![p.also] = new]
      BY <1>3 DEF InsertReversal
    <2>3. old \in EntryRows
      <3>1. entry[p.row] \in EntryRows
        BY <2>1
      <3>. QED
        BY <2>1, <3>1 DEF EntryRows, Statuses
    <2>4. Swapped(p.new.lines) \in Seq(LineRows)
      BY <2>1, SwappedLines
    <2>5. new \in EntryRows
      BY <2>4, EmptyEntry DEF EntryRows, Statuses
    <2>6. entry' = [[entry EXCEPT ![p.row] = old] EXCEPT ![p.also] = new]
      BY <2>1, <2>2
    <2>. QED
      BY <2>1, <2>3, <2>5, <2>6
  <1>4. CASE InsertPeriod(t) \/ SetClosed(t)
    BY <1>4 DEF InsertPeriod, SetClosed
  <1>. QED
    BY <1>1, <1>2, <1>3, <1>4 DEF CommitBooks

LEMMA StepType ==
  ASSUME BookType, NEW t \in Txns, PlanFits(t), Step(t)
  PROVE  BookType'
  <1> USE EmptyEntry DEF BookType, PCs
  <1>1. CASE Draws(t) \/ Alters(t)
    BY <1>1, PlanOf, ZenonT(30) DEF Prepare, Begin, chartVars, bookVars
  <1>2. CASE CommitBooks(t)
    <2>1. entry' \in [Entries -> EntryRows]
      BY <1>2, CommitEntry
    <2>2. period' \in [Ranges -> {"none", "open", "closed"}]
      BY <1>2 DEF CommitBooks, PlanFits, SetStatus, InsertEntry, InsertReversal,
                  InsertPeriod, SetClosed
    <2>3. plan' \in [Txns -> Plans] /\ pc' \in [Txns -> PCs]
      BY <1>2 DEF CommitBooks, End
    <2>. QED
      BY <1>2, <2>1, <2>2, <2>3 DEF CommitBooks
  <1>3. CASE Quiet(t)
    <2>1. CASE ChartStep(t) /\ UNCHANGED <<bookVars, plan>>
      BY <2>1, ChartLoads DEF Load, Begin, bookVars
    <2>2. CASE Commit(t) /\ UNCHANGED <<bookVars, plan>>
      BY <2>2 DEF Commit, End, Forget, bookVars
    <2>3. CASE Rollback(t) /\ plan' = [plan EXCEPT ![t] = NoPlan] /\ UNCHANGED bookVars
      BY <2>3 DEF Rollback, End, Forget, bookVars
    <2>. QED
      BY <1>3, <2>1, <2>2, <2>3 DEF Quiet
  <1>. QED
    BY <1>1, <1>2, <1>3, StepCases

LEMMA StepInHand ==
  ASSUME BookType, InHand, NEW t \in Txns, Step(t)
  PROVE  InHand'
  <1> USE DEF BookType, InHand
  <1>1. CASE Draws(t) \/ Alters(t)
    <2>1. PICK p \in Plans : Prepare(t, p)
      BY <1>1, PlanOf
    <2>2. /\ pc[t] = "idle" /\ pc' = [pc EXCEPT ![t] = "open"]
          /\ plan' = [plan EXCEPT ![t] = p] /\ want' = want
      BY <2>1 DEF Prepare, Begin
    <2>3. want[t] = Nil
      BY <2>2
    <2>. QED
      BY <2>2, <2>3
  <1>2. CASE CommitBooks(t)
    <2>1. plan[t] # NoPlan
      <3>1. plan[t].of # "nothing"
        BY <1>2 DEF CommitBooks, SetStatus, InsertEntry, InsertReversal,
                    InsertPeriod, SetClosed
      <3>. QED
        BY <3>1 DEF NoPlan
    <2>. QED
      BY <1>2, <2>1 DEF CommitBooks, End
  <1>3. CASE Quiet(t)
    <2>1. CASE ChartStep(t) /\ UNCHANGED <<bookVars, plan>>
      BY <2>1, ChartLoads DEF Load, Begin
    <2>2. CASE Commit(t) /\ UNCHANGED <<bookVars, plan>>
      BY <2>2 DEF Commit, End, Forget
    <2>3. CASE Rollback(t) /\ plan' = [plan EXCEPT ![t] = NoPlan] /\ UNCHANGED bookVars
      BY <2>3 DEF Rollback, End, Forget
    <2>. QED
      BY <1>3, <2>1, <2>2, <2>3 DEF Quiet
  <1>. QED
    BY <1>1, <1>2, <1>3, StepCases
-----------------------------------------------------------------------------
(***************************************************************************)
(* What each kind of commit writes.                                        *)
(***************************************************************************)
LEMMA StatusWritten ==
  ASSUME Books, NEW t \in Txns, CommitBooks(t), SetStatus(t)
  PROVE  LET p == plan[t] IN
         /\ p.of = "status" /\ p.row \in Entries
         /\ p.new.status \in {"posted", "cancelled"}
         /\ entry[p.row].status # "none"
         /\ entry[p.row].status = "posted" => p.new.status = "posted"
         /\ entry'[p.row].status = p.new.status
         /\ entry'[p.row].date = entry[p.row].date
         /\ entry'[p.row].lines = entry[p.row].lines
         /\ entry'[p.row].reversal = entry[p.row].reversal
         /\ \A e \in Entries \ {p.row} : entry'[e] = entry[e]
         /\ period' = period
  <1>1. plan[t].row \in Entries /\ entry[plan[t].row] \in EntryRows
    BY DEF SetStatus, Books, PlanFits, BookType
  <1>. QED
    BY <1>1 DEF SetStatus, Books, BookType, PlanFits, EntryRows

LEMMA EntryWritten ==
  ASSUME Books, NEW t \in Txns, CommitBooks(t), InsertEntry(t)
  PROVE  LET p == plan[t] IN
         /\ p.of = "insert" /\ p.row \in Entries /\ Claims(t, p.row)
         /\ p.new.status \in {"draft", "posted"} /\ p.new.reversal = Nil
         /\ entry[p.row].status = "none"
         /\ entry'[p.row] = p.new
         /\ \A e \in Entries \ {p.row} : entry'[e] = entry[e]
         /\ period' = period
  BY DEF InsertEntry, Books, BookType, PlanFits, Claims, ClaimInv

LEMMA ReversalWritten ==
  ASSUME Books, NEW t \in Txns, CommitBooks(t), InsertReversal(t)
  PROVE  LET p == plan[t] IN
         /\ p.of = "reversal" /\ p.row \in Entries /\ p.also \in Entries
         /\ Claims(t, p.also) /\ p.row # p.also
         /\ entry[p.row].status # "none" /\ entry[p.also].status = "none"
         /\ entry'[p.row].status = "reversed"
         /\ entry'[p.row].date = entry[p.row].date
         /\ entry'[p.row].lines = entry[p.row].lines
         /\ entry'[p.row].reversal = p.also
         /\ entry'[p.also].status = "posted"
         /\ entry'[p.also].lines = Swapped(entry[p.row].lines)
         /\ entry'[p.also].reversal = Nil
         /\ \A e \in Entries \ {p.row, p.also} : entry'[e] = entry[e]
         /\ period' = period
  <1> DEFINE p == plan[t]
  <1>1. /\ p.of = "reversal" /\ p.row \in Entries /\ p.also \in Entries
        /\ Claims(t, p.also) /\ p.new.lines = entry[p.row].lines
        /\ entry[p.row].status # "none" /\ entry[p.also].status = "none"
    BY DEF InsertReversal, Books, PlanFits, Claims, ClaimInv
  <1>2. entry[p.row] \in EntryRows /\ entry \in [Entries -> EntryRows]
    BY <1>1 DEF Books, BookType
  <1>3. /\ entry' = [entry EXCEPT
              ![p.row].status = "reversed", ![p.row].reversal = p.also,
              ![p.also] = [NoEntry EXCEPT !.status = "posted", !.lines = Swapped(p.new.lines)]]
        /\ period' = period
    BY DEF InsertReversal
  <1>. QED
    BY <1>1, <1>2, <1>3 DEF EntryRows, NoEntry

LEMMA PeriodWritten ==
  ASSUME NEW t \in Txns, InsertPeriod(t) \/ SetClosed(t)
  PROVE  entry' = entry
  BY DEF InsertPeriod, SetClosed

LEMMA PlansAfter ==
  ASSUME BookType, NEW t \in Txns, CommitBooks(t) \/ Quiet(t)
  PROVE  /\ plan'[t] = NoPlan \/ plan'[t] = plan[t]
         /\ CommitBooks(t) => plan'[t] = NoPlan /\ pc'[t] = "ended"
         /\ \A u \in Txns \ {t} : plan'[u] = plan[u]
         /\ Quiet(t) => entry' = entry /\ period' = period
  BY DEF BookType, CommitBooks, Quiet, bookVars, End
-----------------------------------------------------------------------------
(***************************************************************************)
(* Rows to be inserted are claimed by one request, and plans fit the books.*)
(***************************************************************************)
\* No entry disappears, nor do the lines of one that is there change.
LEMMA EntriesStay ==
  ASSUME Books, NEW t \in Txns, Step(t), NEW e \in Entries, entry[e].status # "none"
  PROVE  entry'[e].status # "none" /\ entry'[e].lines = entry[e].lines
  <1>1. CASE Draws(t) \/ Alters(t)
    BY <1>1, PlanOf DEF Prepare, bookVars, Books
  <1>2. CASE CommitBooks(t)
    <2>1. CASE SetStatus(t)
      BY <1>2, <2>1, StatusWritten
    <2>2. CASE InsertEntry(t)
      BY <1>2, <2>2, EntryWritten
    <2>3. CASE InsertReversal(t)
      BY <1>2, <2>3, ReversalWritten
    <2>4. CASE InsertPeriod(t) \/ SetClosed(t)
      BY <2>4, PeriodWritten
    <2>. QED
      BY <1>2, <2>1, <2>2, <2>3, <2>4 DEF CommitBooks
  <1>3. CASE Quiet(t)
    BY <1>3, PlansAfter DEF Books
  <1>. QED
    BY <1>1, <1>2, <1>3, StepCases

\* What a request that draws an entry claims, nobody else does.
LEMMA DrawsClaim ==
  ASSUME Books, NEW t \in Txns, Draws(t) \/ Alters(t),
         NEW e \in Entries, Claims(t, e)'
  PROVE  entry[e].status = "none" /\ \A u \in Txns : ~Claims(u, e)
  <1>1. CASE Draft(t) \/ AutoPost(t)
    <2>1. PICK x \in Entries : New(x) /\ plan'[t].of = "insert" /\ plan'[t].row = x
      BY <1>1, ZenonT(30) DEF Draft, AutoPost, Prepare, NoPlan, Books, BookType
    <2>. QED
      BY <2>1 DEF Claims, New
  <1>2. CASE ReverseEntry(t)
    <2>1. PICK x \in Entries : New(x) /\ plan'[t].of = "reversal" /\ plan'[t].also = x
      BY <1>2 DEF ReverseEntry, Prepare, NoPlan, Books, BookType
    <2>. QED
      BY <2>1 DEF Claims, New
  <1>3. CASE Alters(t)
    <2>1. plan'[t].of \in {"status", "create period", "close period"}
      BY <1>3 DEF Alters, Post, CancelDraft, CreatePeriod, ClosePeriod, Prepare,
                  NoPlan, Books, BookType
    <2>. QED
      BY <2>1 DEF Claims
  <1>. QED
    BY <1>1, <1>2, <1>3 DEF Draws

LEMMA StepClaims ==
  ASSUME Books, NEW t \in Txns, Step(t)
  PROVE  ClaimInv'
  <1> USE DEF Books, ClaimInv
  <1>1. CASE Draws(t) \/ Alters(t)
    <2>1. entry' = entry /\ \A u \in Txns \ {t} : plan'[u] = plan[u]
      BY <1>1, PlanOf DEF Prepare, bookVars, BookType
    <2>2. \A u \in Txns \ {t}, e \in Entries : Claims(u, e)' => Claims(u, e)
      BY <2>1 DEF Claims
    <2>. QED
      BY <1>1, <2>1, <2>2, DrawsClaim
  <1>2. CASE CommitBooks(t)
    <2>1. \A e \in Entries : ~Claims(t, e)'
      BY <1>2, PlansAfter DEF Claims, NoPlan
    <2>2. \A u \in Txns \ {t}, e \in Entries : Claims(u, e)' => Claims(u, e)
      BY <1>2, PlansAfter DEF Claims
    <2>3. \A u \in Txns \ {t}, e \in Entries : Claims(u, e) => entry'[e] = entry[e]
      <3>1. CASE SetStatus(t)
        BY <1>2, <3>1, StatusWritten
      <3>2. CASE InsertEntry(t)
        BY <1>2, <3>2, EntryWritten
      <3>3. CASE InsertReversal(t)
        BY <1>2, <3>3, ReversalWritten
      <3>4. CASE InsertPeriod(t) \/ SetClosed(t)
        BY <3>4, PeriodWritten
      <3>. QED
        BY <1>2, <3>1, <3>2, <3>3, <3>4 DEF CommitBooks
    <2>. QED
      BY <2>1, <2>2, <2>3
  <1>3. CASE Quiet(t)
    <2>1. \A u \in Txns, e \in Entries : Claims(u, e)' => Claims(u, e)
      BY <1>3, PlansAfter DEF Claims, NoPlan
    <2>. QED
      BY <1>3, <2>1, PlansAfter
  <1>. QED
    BY <1>1, <1>2, <1>3, StepCases

LEMMA OthersKeepPlans ==
  ASSUME BookType, NEW t \in Txns, Step(t), NEW u \in Txns, u # t
  PROVE  plan'[u] = plan[u]
  <1>1. CASE Draws(t) \/ Alters(t)
    BY <1>1, PlanOf DEF Prepare, BookType
  <1>. QED
    BY <1>1, StepCases, PlansAfter

LEMMA FitsStay ==
  ASSUME Books, NEW t \in Txns, Step(t), NEW u \in Txns, plan'[u] \in {plan[u], NoPlan}
  PROVE  PlanFits(u)'
  <1>1. CASE plan'[u] = NoPlan
    BY <1>1 DEF PlanFits, NoPlan
  <1>2. CASE plan'[u] = plan[u]
    <2>1. PlanFits(u)
      BY DEF Books
    <2>. QED
      BY <1>2, <2>1, EntriesStay DEF PlanFits
  <1>. QED
    BY <1>1, <1>2

LEMMA PlanFitsAtFirst ==
  ASSUME Books, NEW t \in Txns, Draws(t) \/ Alters(t)
  PROVE  PlanFits(t)'
  <1>0. /\ \A e \in Entries : entry[e] \in EntryRows
        /\ plan \in [Txns -> Plans]
    BY DEF Books, BookType
  <1>e. entry' = entry
    BY PlanOf DEF Prepare, bookVars, Books
  <1>1. CASE Draft(t)
    <2>1. PICK e \in Entries, d \in Dates, s \in Shapes :
            plan'[t] = [NoPlan EXCEPT !.of = "insert", !.row = e,
                        !.new = [NoEntry EXCEPT !.status = "draft", !.date = d, !.lines = s]]
      BY <1>0, <1>1, ZenonT(30) DEF Draft, Prepare
    <2>2. /\ plan'[t].of = "insert" /\ plan'[t].row = e
          /\ plan'[t].new.status = "draft" /\ plan'[t].new.reversal = Nil
      BY <2>1 DEF NoPlan, NoEntry
    <2>. QED
      BY <2>2 DEF PlanFits
  <1>2. CASE AutoPost(t)
    <2>1. PICK e \in Entries, s \in Shapes :
            plan'[t] = [NoPlan EXCEPT !.of = "insert", !.row = e,
                        !.new = [NoEntry EXCEPT !.status = "posted", !.lines = s]]
      BY <1>0, <1>2 DEF AutoPost, Prepare
    <2>2. /\ plan'[t].of = "insert" /\ plan'[t].row = e
          /\ plan'[t].new.status = "posted" /\ plan'[t].new.reversal = Nil
      BY <2>1 DEF NoPlan, NoEntry
    <2>. QED
      BY <2>2 DEF PlanFits
  <1>3. CASE ReverseEntry(t)
    <2>1. PICK e \in Entries, r \in Entries :
            /\ entry[e].status = "posted"
            /\ plan'[t] = [NoPlan EXCEPT !.of = "reversal", !.row = e, !.also = r,
                           !.new = [entry[e] EXCEPT !.status = "reversed", !.reversal = r]]
      BY <1>0, <1>3 DEF ReverseEntry, Prepare
    <2>2. /\ plan'[t].of = "reversal" /\ plan'[t].row = e /\ plan'[t].also = r
          /\ plan'[t].new = [entry[e] EXCEPT !.status = "reversed", !.reversal = r]
      BY <2>1 DEF NoPlan
    <2>3. plan'[t].new.lines = entry[e].lines
      BY <1>0, <2>2 DEF EntryRows
    <2>. QED
      BY <1>e, <2>1, <2>2, <2>3 DEF PlanFits
  <1>4. CASE Post(t) \/ CancelDraft(t)
    <2>1. PICK e \in Entries, st \in {"posted", "cancelled"} :
            /\ entry[e].status = "draft"
            /\ plan'[t] = [NoPlan EXCEPT !.of = "status", !.row = e,
                           !.new = [entry[e] EXCEPT !.status = st]]
      BY <1>0, <1>4 DEF Post, CancelDraft, Prepare
    <2>2. plan'[t].of = "status" /\ plan'[t].row = e /\ plan'[t].new.status = st
      BY <1>0, <2>1 DEF EntryRows, NoPlan
    <2>. QED
      BY <1>e, <2>1, <2>2 DEF PlanFits
  <1>5. CASE CreatePeriod(t) \/ ClosePeriod(t)
    <2>1. PICK r \in Ranges : /\ plan'[t].of \in {"create period", "close period"}
                              /\ plan'[t].range = r
      BY <1>0, <1>5 DEF CreatePeriod, ClosePeriod, Prepare, NoPlan
    <2>. QED
      BY <2>1 DEF PlanFits
  <1>. QED
    BY <1>1, <1>2, <1>3, <1>4, <1>5 DEF Draws, Alters

LEMMA StepFits ==
  ASSUME Books, NEW t \in Txns, Step(t), NEW u \in Txns
  PROVE  PlanFits(u)'
  <1>0. BookType
    BY DEF Books
  <1>1. CASE u # t
    BY <1>0, <1>1, OthersKeepPlans, FitsStay
  <1>2. CASE CommitBooks(t) \/ Quiet(t)
    BY <1>0, <1>1, <1>2, PlansAfter, FitsStay
  <1>3. CASE u = t /\ (Draws(t) \/ Alters(t))
    BY <1>3, PlanFitsAtFirst
  <1>. QED
    BY <1>1, <1>2, <1>3, StepCases
-----------------------------------------------------------------------------
(***************************************************************************)
(* Requests that come one at a time.                                       *)
(***************************************************************************)
\* Requests that have overlapped stay so; one that begins alone is alone.
LEMMA StepAlone ==
  ASSUME BookType, NEW t \in Txns, Step(t), ~overlapped', Alone
  PROVE  /\ ~overlapped /\ Alone'
         /\ Draws(t) \/ Alters(t) => \A u \in Txns : pc[u] # "open"
         /\ CommitBooks(t) => \A u \in Txns : pc'[u] # "open"
  <1> USE DEF BookType, Alone
  <1>1. CASE Begin(t)
    <2>1. ~overlapped /\ \A u \in Txns : pc[u] # "open"
      BY <1>1 DEF Begin
    <2>2. pc' = [pc EXCEPT ![t] = "open"] /\ pc[t] = "idle"
      BY <1>1 DEF Begin
    <2>. QED
      BY <2>1, <2>2 DEF CommitBooks, End
  <1>2. CASE End(t) /\ overlapped' = overlapped
    BY <1>2, PlanOf DEF End, Prepare, Begin
  <1>3. Begin(t) \/ (End(t) /\ overlapped' = overlapped)
    <2>1. CASE Draws(t) \/ Alters(t)
      BY <2>1, PlanOf DEF Prepare
    <2>2. CASE CommitBooks(t)
      BY <2>2 DEF CommitBooks
    <2>3. CASE Quiet(t)
      BY <2>3, ChartLoads DEF Quiet, Load, Commit, Rollback
    <2>. QED
      BY <2>1, <2>2, <2>3, StepCases
  <1>. QED
    BY <1>1, <1>2, <1>3

\* Requests that are not open have no plan, and so are fresh.
LEMMA IdleIsFresh ==
  ASSUME NEW t \in Txns, plan[t] = NoPlan
  PROVE  Fresh(t)
  BY DEF Fresh, NoPlan

\* A plan is fresh when it is made.
LEMMA FreshAtFirst ==
  ASSUME Books, NEW t \in Txns, Draws(t) \/ Alters(t)
  PROVE  Fresh(t)'
  <1>0. /\ \A e \in Entries : entry[e] \in EntryRows
        /\ plan \in [Txns -> Plans]
    BY DEF Books, BookType
  <1>e. entry' = entry /\ period' = period
    BY PlanOf DEF Prepare, bookVars, Books
  <1>1. CASE Draft(t)
    <2>1. plan'[t].of = "insert" /\ plan'[t].new.status = "draft"
      BY <1>0, <1>1 DEF Draft, Prepare, NoPlan, NoEntry
    <2>. QED
      BY <2>1 DEF Fresh
  <1>2. CASE AutoPost(t)
    <2>1. PICK e \in Entries, s \in Shapes :
            /\ MayPostOn(Today)
            /\ plan'[t] = [NoPlan EXCEPT !.of = "insert", !.row = e,
                            !.new = [NoEntry EXCEPT !.status = "posted", !.lines = s]]
      BY <1>0, <1>2 DEF AutoPost, Prepare
    <2>2. plan'[t].of = "insert" /\ plan'[t].new.date = Today
      BY <2>1 DEF NoPlan, NoEntry
    <2>3. \A r \in Covering(Today)' : period'[r] # "closed"
      BY <1>e, <2>1 DEF MayPostOn, Covering
    <2>. QED
      BY <2>2, <2>3 DEF Fresh
  <1>3. CASE ReverseEntry(t)
    <2>1. PICK e \in Entries : /\ entry[e].status = "posted"
                               /\ plan'[t].of = "reversal" /\ plan'[t].row = e
      BY <1>0, <1>3 DEF ReverseEntry, Prepare, NoPlan
    <2>. QED
      BY <1>e, <2>1 DEF Fresh
  <1>4. CASE Post(t)
    <2>1. PICK e \in Entries :
            /\ entry[e].status = "draft" /\ MayPostOn(entry[e].date)
            /\ plan'[t].of = "status" /\ plan'[t].row = e
      BY <1>0, <1>4 DEF Post, Prepare, NoPlan
    <2>2. \A r \in Covering(entry[e].date)' : period'[r] # "closed"
      BY <1>e, <2>1 DEF MayPostOn, Covering
    <2>. QED
      BY <1>e, <2>1, <2>2 DEF Fresh
  <1>5. CASE CancelDraft(t)
    <2>1. PICK e \in Entries :
            /\ entry[e].status = "draft"
            /\ plan'[t] = [NoPlan EXCEPT !.of = "status", !.row = e,
                           !.new = [entry[e] EXCEPT !.status = "cancelled"]]
      BY <1>0, <1>5 DEF CancelDraft, Prepare
    <2>2. plan'[t].of = "status" /\ plan'[t].row = e /\ plan'[t].new.status = "cancelled"
      BY <1>0, <2>1 DEF NoPlan, EntryRows
    <2>. QED
      BY <1>e, <2>1, <2>2 DEF Fresh
  <1>6. CASE CreatePeriod(t) \/ ClosePeriod(t)
    <2>1. plan'[t].of \in {"create period", "close period"}
      BY <1>0, <1>6 DEF CreatePeriod, ClosePeriod, Prepare, NoPlan
    <2>. QED
      BY <2>1 DEF Fresh
  <1>. QED
    BY <1>1, <1>2, <1>3, <1>4, <1>5, <1>6 DEF Draws, Alters

LEMMA StepSolo ==
  ASSUME Books, Solo, NEW t \in Txns, Step(t), Books'
  PROVE  Solo'
  <1> SUFFICES ASSUME ~overlapped'
               PROVE  Alone' /\ \A u \in Txns : Fresh(u)'
    BY DEF Solo
  <1>0. BookType
    BY DEF Books
  <1>a. ~overlapped
    <2>1. CASE Draws(t) \/ Alters(t)
      BY <2>1, <1>0, PlanOf DEF Prepare, Begin
    <2>2. CASE CommitBooks(t)
      BY <2>2 DEF CommitBooks
    <2>3. CASE Quiet(t)
      BY <2>3, ChartLoads DEF Quiet, Load, Commit, Rollback, Begin
    <2>. QED
      BY <2>1, <2>2, <2>3, StepCases
  <1>b. Alone /\ \A u \in Txns : Fresh(u)
    BY <1>a DEF Solo
  <1>c. Alone'
    BY <1>0, <1>b, StepAlone
  <1>d. \A u \in Txns : pc'[u] # "open" => Fresh(u)'
    BY DEF Books, InHand, Fresh, NoPlan
  <1>1. CASE Draws(t) \/ Alters(t)
    <2>1. \A u \in Txns \ {t} : pc'[u] # "open"
      BY <1>0, <1>1, <1>b, StepAlone, PlanOf DEF Prepare, Begin, BookType
    <2>. QED
      BY <1>1, <1>c, <1>d, <2>1, FreshAtFirst
  <1>2. CASE CommitBooks(t)
    BY <1>0, <1>2, <1>b, <1>c, <1>d, StepAlone
  <1>3. CASE Quiet(t)
    <2>1. \A u \in Txns : plan'[u] \in {plan[u], NoPlan} /\ entry' = entry /\ period' = period
      BY <1>0, <1>3, PlansAfter
    <2>2. ASSUME NEW u \in Txns, plan'[u] = plan[u] PROVE Fresh(u)'
      BY <1>b, <2>1, <2>2 DEF Fresh, Covering
    <2>3. ASSUME NEW u \in Txns, plan'[u] = NoPlan PROVE Fresh(u)'
      BY <2>3 DEF Fresh, NoPlan
    <2>. QED
      BY <1>c, <2>1, <2>2, <2>3
  <1>. QED
    BY <1>1, <1>2, <1>3, StepCases
-----------------------------------------------------------------------------
(***************************************************************************)
(* Reversals.                                                              *)
(***************************************************************************)
\* The three parts of ReversalsCancel.
Marked  == \A e \in Entries : entry[e].status = "reversed" <=> entry[e].reversal # Nil
Opposed == \A e \in Entries : entry[e].reversal # Nil =>
             /\ Booked(entry[entry[e].reversal])
             /\ entry[entry[e].reversal].lines = Swapped(entry[e].lines)
Single  == \A e, f \in Entries :
             entry[e].reversal # Nil /\ entry[f].reversal = entry[e].reversal => e = f

LEMMA CancelParts == ReversalsCancel <=> (~overlapped => Marked /\ Opposed /\ Single)
  BY DEF ReversalsCancel, Marked, Opposed, Single

LEMMA ReversalIsEntry ==
  ASSUME BookType, NEW e \in Entries, entry[e].reversal # Nil
  PROVE  entry[e].reversal \in Entries
  <1>1. entry[e] \in EntryRows
    BY DEF BookType
  <1>. QED
    BY <1>1 DEF EntryRows

\* A draft that changes its status is nobody's reversal.
LEMMA StatusCancels ==
  ASSUME Books, Marked, Opposed, Single, NEW t \in Txns, Fresh(t),
         CommitBooks(t), SetStatus(t)
  PROVE  Marked' /\ Opposed' /\ Single'
  <1> DEFINE r == plan[t].row
  <1>1. /\ r \in Entries /\ entry[r].status = "draft" /\ entry'[r].status # "reversed"
        /\ entry'[r].lines = entry[r].lines /\ entry'[r].reversal = entry[r].reversal
        /\ \A e \in Entries \ {r} : entry'[e] = entry[e]
    BY StatusWritten DEF Fresh
  <1>2. entry[r].reversal = Nil /\ \A e \in Entries : entry[e].reversal # r
    <2>1. r # Nil
      BY <1>1, JournalAssumption
    <2>. QED
      BY <1>1, <2>1 DEF Marked, Opposed, Booked
  <1>3. \A e \in Entries : entry'[e].reversal = entry[e].reversal /\ entry'[e].lines = entry[e].lines
    BY <1>1
  <1>4. \A e \in Entries : entry[e].reversal # Nil => entry[e].reversal \in Entries \ {r}
    BY <1>2, ReversalIsEntry DEF Books
  <1>5. Marked'
    BY <1>1, <1>2 DEF Marked
  <1>6. Opposed'
    BY <1>1, <1>3, <1>4 DEF Opposed, Booked
  <1>7. Single'
    BY <1>3 DEF Single
  <1>. QED
    BY <1>5, <1>6, <1>7

LEMMA EntryCancels ==
  ASSUME Books, Marked, Opposed, Single, NEW t \in Txns, CommitBooks(t), InsertEntry(t)
  PROVE  Marked' /\ Opposed' /\ Single'
  <1> DEFINE r == plan[t].row
  <1>1. /\ r \in Entries /\ entry[r].status = "none"
        /\ entry'[r].status # "reversed" /\ entry'[r].reversal = Nil
        /\ \A e \in Entries \ {r} : entry'[e] = entry[e]
    BY EntryWritten
  <1>2. entry[r].reversal = Nil /\ \A e \in Entries : entry[e].reversal # r
    <2>1. r # Nil
      BY <1>1, JournalAssumption
    <2>. QED
      BY <1>1, <2>1 DEF Marked, Opposed, Booked
  <1>3. \A e \in Entries : entry'[e].reversal = entry[e].reversal
    BY <1>1, <1>2
  <1>4. \A e \in Entries : entry[e].reversal # Nil => entry[e].reversal \in Entries \ {r} /\ e # r
    BY <1>2, ReversalIsEntry DEF Books
  <1>5. Marked'
    BY <1>1, <1>2 DEF Marked
  <1>6. Opposed'
    BY <1>1, <1>3, <1>4 DEF Opposed, Booked
  <1>7. Single'
    BY <1>3 DEF Single
  <1>. QED
    BY <1>5, <1>6, <1>7

LEMMA ReversalCancels ==
  ASSUME Books, Marked, Opposed, Single, NEW t \in Txns, Fresh(t),
         CommitBooks(t), InsertReversal(t)
  PROVE  Marked' /\ Opposed' /\ Single'
  <1> DEFINE r == plan[t].row
             a == plan[t].also
  <1>1. /\ r \in Entries /\ a \in Entries /\ r # a
        /\ entry[r].status = "posted" /\ entry[a].status = "none"
        /\ entry'[r].status = "reversed" /\ entry'[r].reversal = a
        /\ entry'[r].lines = entry[r].lines
        /\ entry'[a].status = "posted" /\ entry'[a].reversal = Nil
        /\ entry'[a].lines = Swapped(entry[r].lines)
        /\ \A e \in Entries \ {r, a} : entry'[e] = entry[e]
    BY ReversalWritten DEF Fresh
  <1>2. entry[r].reversal = Nil /\ entry[a].reversal = Nil
    BY <1>1 DEF Marked
  <1>3. r # Nil /\ a # Nil
    BY <1>1, JournalAssumption
  <1>4. \A e \in Entries : entry[e].reversal # a
    BY <1>1, <1>3 DEF Opposed, Booked
  <1>5. Marked'
    BY <1>1, <1>2, <1>3 DEF Marked
  <1>6. ASSUME NEW e \in Entries, entry'[e].reversal # Nil
        PROVE  /\ Booked(entry'[entry'[e].reversal])
               /\ entry'[entry'[e].reversal].lines = Swapped(entry'[e].lines)
    <2>1. CASE e = r
      BY <1>1, <2>1 DEF Booked
    <2>2. CASE e # r
      <3>1. e # a /\ entry'[e] = entry[e] /\ entry[e].reversal # Nil
        BY <1>1, <1>6, <2>2
      <3>2. entry[e].reversal \in Entries /\ entry[e].reversal # a
        BY <1>4, <3>1, ReversalIsEntry DEF Books
      <3>3. /\ Booked(entry[entry[e].reversal])
            /\ entry[entry[e].reversal].lines = Swapped(entry[e].lines)
        BY <3>1 DEF Opposed
      <3>. QED
        BY <1>1, <3>1, <3>2, <3>3 DEF Booked
    <2>. QED
      BY <2>1, <2>2
  <1>7. Opposed'
    BY <1>6 DEF Opposed, Booked
  <1>8. Single'
    BY <1>1, <1>2, <1>4 DEF Single
  <1>. QED
    BY <1>5, <1>7, <1>8

LEMMA StepCancels ==
  ASSUME Books, Solo, ReversalsCancel, NEW t \in Txns, Step(t), Solo'
  PROVE  ReversalsCancel'
  <1> SUFFICES ASSUME ~overlapped'
               PROVE  Marked' /\ Opposed' /\ Single'
    BY DEF ReversalsCancel, Marked, Opposed, Single
  <1>1. CASE CommitBooks(t)
    <2>1. ~overlapped
      BY <1>1 DEF CommitBooks
    <2>2. Marked /\ Opposed /\ Single /\ Fresh(t)
      BY <2>1, CancelParts DEF Solo
    <2>3. CASE SetStatus(t)
      BY <1>1, <2>2, <2>3, StatusCancels
    <2>4. CASE InsertEntry(t)
      BY <1>1, <2>2, <2>4, EntryCancels
    <2>5. CASE InsertReversal(t)
      BY <1>1, <2>2, <2>5, ReversalCancels
    <2>6. CASE InsertPeriod(t) \/ SetClosed(t)
      <3>1. entry' = entry
        BY <2>6, PeriodWritten
      <3>. QED
        BY <2>2, <3>1 DEF Marked, Opposed, Single, Booked
    <2>. QED
      BY <1>1, <2>3, <2>4, <2>5, <2>6 DEF CommitBooks
  <1>2. CASE Draws(t) \/ Alters(t) \/ Quiet(t)
    <2>1. entry' = entry
      BY <1>2, PlanOf DEF Quiet, Prepare, bookVars, Books
    <2>2. ~overlapped
      BY <1>2, PlanOf, ChartLoads DEF Quiet, Load, Commit, Rollback, Prepare, Begin, Books, BookType
    <2>. QED
      BY <2>1, <2>2, CancelParts DEF Marked, Opposed, Single, Booked
  <1>. QED
    BY <1>1, <1>2, StepCases
-----------------------------------------------------------------------------
(***************************************************************************)
(* The theorems.                                                           *)
(***************************************************************************)
LEMMA InitBooks == Init => IInv
  <1> SUFFICES ASSUME Init PROVE IInv
    OBVIOUS
  <1>1. PICK o \in Openings : entry = o.entry /\ period = o.period
    BY DEF Init
  <1>2. /\ plan = [t \in Txns |-> NoPlan] /\ pc = [t \in Txns |-> "idle"]
        /\ want = [t \in Txns |-> Nil] /\ overlapped = FALSE
    BY DEF Init, ChartInit
  <1>3. BookType
    BY <1>1, <1>2, EmptyEntry, JournalAssumption DEF BookType, PCs
  <1>4. InHand /\ Alone
    BY <1>2 DEF InHand, Alone
  <1>5. \A t \in Txns : plan[t].of = "nothing"
    BY <1>2 DEF NoPlan
  <1>6. ClaimInv /\ (\A t \in Txns : PlanFits(t)) /\ (\A t \in Txns : Fresh(t))
    BY <1>5 DEF ClaimInv, Claims, PlanFits, Fresh
  <1>7. \A e \in Entries : entry[e].status # "reversed" /\ entry[e].reversal = Nil
    BY <1>1, JournalAssumption
  <1>8. ReversalsCancel
    BY <1>7 DEF ReversalsCancel
  <1>. QED
    BY <1>3, <1>4, <1>6, <1>8 DEF IInv, Books, Solo

LEMMA NextBooks == IInv /\ [Next]_vars => IInv'
  <1> SUFFICES ASSUME IInv, [Next]_vars PROVE IInv'
    OBVIOUS
  <1>1. CASE UNCHANGED vars
    <2> USE <1>1 DEF vars
    <2>1. BookType' /\ InHand' /\ ClaimInv'
      BY DEF IInv, Books, BookType, InHand, ClaimInv, Claims
    <2>2. \A t \in Txns : PlanFits(t)'
      BY DEF IInv, Books, PlanFits
    <2>3. ~overlapped => Alone' /\ \A t \in Txns : Fresh(t)'
      BY DEF IInv, Solo, Alone, Fresh, Covering
    <2>4. ReversalsCancel'
      BY CancelParts DEF IInv, ReversalsCancel, Marked, Opposed, Single, Booked
    <2>. QED
      BY <2>1, <2>2, <2>3, <2>4 DEF IInv, Books, Solo
  <1>2. CASE Next
    <2>1. PICK t \in Txns : Step(t)
      BY <1>2 DEF Next
    <2>2. BookType'
      BY <2>1, StepType DEF IInv, Books
    <2>3. InHand'
      BY <2>1, StepInHand DEF IInv, Books
    <2>4. Books'
      BY <2>1, <2>2, <2>3, StepClaims, StepFits DEF IInv, Books
    <2>5. Solo'
      BY <2>1, <2>4, StepSolo DEF IInv
    <2>. QED
      BY <2>1, <2>4, <2>5, StepCancels DEF IInv
  <1>. QED
    BY <1>1, <1>2

\* The inductive invariant of the books.
THEOREM InvariantHolds == Spec => []IInv
  BY InitBooks, NextBooks, PTL DEF Spec

\* As long as requests come one at a time, an entry is reversed by exactly one
\* other, with the same amounts on the other sides.
THEOREM ReversalsAlwaysCancel == Spec => []ReversalsCancel
  <1>1. IInv => ReversalsCancel
    BY DEF IInv
  <1>. QED
    BY <1>1, InvariantHolds, PTL

LEMMA StepKeepsPosted ==
  ASSUME Books, NEW t \in Txns, Step(t), NEW e \in Entries, entry[e].status = "posted"
  PROVE  entry'[e].status \in {"posted", "reversed"} /\ entry'[e].lines = entry[e].lines
  <1>1. entry'[e].lines = entry[e].lines
    BY EntriesStay
  <1>2. CASE CommitBooks(t)
    <2>1. CASE SetStatus(t)
      BY <1>2, <2>1, StatusWritten
    <2>2. CASE InsertEntry(t)
      BY <1>2, <2>2, EntryWritten
    <2>3. CASE InsertReversal(t)
      BY <1>2, <2>3, ReversalWritten
    <2>4. CASE InsertPeriod(t) \/ SetClosed(t)
      BY <2>4, PeriodWritten
    <2>. QED
      BY <1>2, <2>1, <2>2, <2>3, <2>4 DEF CommitBooks
  <1>3. CASE Draws(t) \/ Alters(t) \/ Quiet(t)
    BY <1>3, PlanOf DEF Quiet, Prepare, bookVars, Books
  <1>. QED
    BY <1>1, <1>2, <1>3, StepCases

\* However requests interleave, an entry that is posted stays posted or
\* becomes reversed, with the same lines (cancel against post or reversal).
THEOREM PostedAlwaysStays == Spec => PostedStays
  <1>1. IInv /\ [Next]_vars =>
          [\A e \in Entries : entry[e].status = "posted" =>
             entry'[e].status \in {"posted", "reversed"} /\ entry'[e].lines = entry[e].lines]_vars
    BY StepKeepsPosted DEF IInv, Next
  <1>. QED
    BY <1>1, InvariantHolds, PTL DEF Spec, PostedStays

LEMMA StepMindsClosing ==
  ASSUME Books, Solo, NEW t \in Txns, Step(t), ~overlapped',
         NEW e \in Entries, ~Booked(entry[e]), Booked(entry'[e])
  PROVE  \/ \A r \in Covering(entry'[e].date) : period[r] # "closed"
         \/ \E f \in Entries : entry'[f].reversal = e
  <1>1. CASE CommitBooks(t)
    <2>1. Fresh(t)
      BY <1>1 DEF CommitBooks, Solo
    <2>2. CASE SetStatus(t)
      <3>1. e = plan[t].row /\ entry'[e].date = entry[e].date /\ plan[t].of = "status"
        BY <1>1, <2>2, StatusWritten
      <3>2. plan[t].new.status = "posted"
        BY <1>1, <2>2, <3>1, StatusWritten DEF Booked
      <3>. QED
        BY <2>1, <3>1, <3>2 DEF Fresh
    <2>3. CASE InsertEntry(t)
      <3>1. e = plan[t].row /\ entry'[e] = plan[t].new /\ plan[t].of = "insert"
        BY <1>1, <2>3, EntryWritten
      <3>2. plan[t].new.status = "posted"
        BY <1>1, <2>3, <3>1, EntryWritten DEF Booked
      <3>. QED
        BY <2>1, <3>1, <3>2 DEF Fresh
    <2>4. CASE InsertReversal(t)
      <3>1. entry[plan[t].row].status = "posted"
        BY <1>1, <2>1, <2>4, ReversalWritten DEF Fresh
      <3>2. e = plan[t].also
        BY <1>1, <2>4, <3>1, ReversalWritten DEF Booked
      <3>. QED
        BY <1>1, <2>4, <3>2, ReversalWritten
    <2>5. CASE InsertPeriod(t) \/ SetClosed(t)
      BY <2>5, PeriodWritten
    <2>. QED
      BY <1>1, <2>2, <2>3, <2>4, <2>5 DEF CommitBooks
  <1>2. CASE Draws(t) \/ Alters(t) \/ Quiet(t)
    BY <1>2, PlanOf DEF Quiet, Prepare, bookVars, Books
  <1>. QED
    BY <1>1, <1>2, StepCases

\* As long as requests come one at a time, nothing but a reversal enters the
\* books on a date whose period is closed (post against close).
THEOREM ClosedStaysClosed == Spec => ClosedIsClosed
  <1>1. IInv /\ [Next]_vars =>
          [\A e \in Entries : ~overlapped' /\ ~Booked(entry[e]) /\ Booked(entry'[e])
             => \/ \A r \in Covering(entry'[e].date) : period[r] # "closed"
                \/ \E f \in Entries : entry'[f].reversal = e]_vars
    BY StepMindsClosing DEF IInv, Next
  <1>. QED
    BY <1>1, InvariantHolds, PTL DEF Spec, ClosedIsClosed
-----------------------------------------------------------------------------
(***************************************************************************)
(* The chart of accounts, as a value: what the services make of a chart    *)
(* they have loaded.                                                       *)
(***************************************************************************)
\* A chart as a request loads it or wants it.
ChartType(c) == c \in [acct : [Accounts -> Rows], centre : [Centres -> CentreRows],
                       adjust : Accounts \cup {Nil}]

Levels == 1 .. MaxLevel
-----------------------------------------------------------------------------
(***************************************************************************)
(* The seeded chart: the levels of the template are those of a tree.       *)
(***************************************************************************)
TemplateRows == [account : Accounts, parent : Accounts \cup {Nil}, type : Types, cash : BOOLEAN]

LEMMA TemplateRow ==
  ASSUME NEW i \in DOMAIN Template
  PROVE  Template[i] \in TemplateRows
  <1>1. Template \in Seq(TemplateRows)
    BY TemplateAssumption DEF TemplateRows
  <1>2. \A s \in Seq(TemplateRows) : \A k \in DOMAIN s : s[k] \in TemplateRows
    BY ElementOfSeq
  <1>. QED
    BY <1>1, <1>2

ParentOf(i) == CHOOSE j \in DOMAIN Template : Template[j].account = Template[i].parent

LEMMA ParentFirst ==
  ASSUME NEW i \in DOMAIN Template, Template[i].parent # Nil
  PROVE  /\ ParentOf(i) \in DOMAIN Template /\ ParentOf(i) < i
         /\ Template[ParentOf(i)].account = Template[i].parent
  <1>1. DOMAIN Template = 1 .. Len(Template) /\ Len(Template) \in Nat
    BY TemplateAssumption
  <1>2. PICK j \in 1 .. (i - 1) : Template[j].account = Template[i].parent
    BY TemplateAssumption
  <1>3. j \in DOMAIN Template /\ j < i
    BY <1>1, <1>2
  <1>4. /\ ParentOf(i) \in DOMAIN Template
        /\ Template[ParentOf(i)].account = Template[i].parent
    BY <1>2, <1>3 DEF ParentOf
  <1>5. ParentOf(i) = j
    BY <1>2, <1>3, <1>4, TemplateAssumption
  <1>. QED
    BY <1>3, <1>4, <1>5

LevelAt(g, i) == IF Template[i].parent = Nil THEN 1 ELSE 1 + g[ParentOf(i)]

\* The levels of the first n rows
LevelsUpTo(g, n) == DOMAIN g = 1 .. n /\ \A i \in 1 .. n : g[i] = LevelAt(g, i)

LEMMA LevelsExist ==
  ASSUME NEW n \in Nat, n <= Len(Template)
  PROVE  \E g : LevelsUpTo(g, n)
  <1>0. DOMAIN Template = 1 .. Len(Template) /\ Len(Template) \in Nat
    BY TemplateAssumption
  <1> DEFINE N == {k \in 0 .. n : ~ \E g : LevelsUpTo(g, k)}
  <1>1. SUFFICES ASSUME N # {} PROVE FALSE
    <2>1. n \in 0 .. n
      OBVIOUS
    <2>. QED
      BY <2>1
  <1>2. PICK m \in N : \A k \in N : m <= k
    <2>1. N \in SUBSET Nat
      OBVIOUS
    <2>. HIDE DEF N
    <2>. QED BY <1>1, <2>1, LeastElement
  <1>3. m \in 0 .. n /\ ~ \E g : LevelsUpTo(g, m)
    OBVIOUS
  <1>4. m # 0
    <2>1. LevelsUpTo([i \in 1 .. 0 |-> 0], 0)
      BY DEF LevelsUpTo
    <2>. QED
      BY <1>3, <2>1
  <1>5. PICK g : LevelsUpTo(g, m - 1)
    <2>1. m - 1 \in 0 .. n /\ m - 1 < m
      BY <1>3, <1>4
    <2>2. m - 1 \notin N
      BY <1>2, <1>3, <2>1
    <2>. QED
      BY <2>1, <2>2
  <1> DEFINE h == [i \in 1 .. m |-> IF i = m THEN LevelAt(g, m) ELSE g[i]]
  <1>6. \A i \in 1 .. m : h[i] = LevelAt(g, i)
    BY <1>3, <1>4, <1>5 DEF LevelsUpTo
  <1>7. ASSUME NEW i \in 1 .. m PROVE LevelAt(g, i) = LevelAt(h, i)
    <2>1. CASE Template[i].parent # Nil
      <3>1. ParentOf(i) \in DOMAIN Template /\ ParentOf(i) < i /\ i \in DOMAIN Template
        BY <1>0, <1>3, <2>1, ParentFirst
      <3>2. ParentOf(i) \in 1 .. m /\ ParentOf(i) # m
        BY <1>0, <1>3, <3>1
      <3>. QED
        BY <2>1, <3>2 DEF LevelAt
    <2>. QED
      BY <2>1 DEF LevelAt
  <1>8. LevelsUpTo(h, m)
    BY <1>6, <1>7 DEF LevelsUpTo
  <1>. QED
    BY <1>3, <1>8

LEMMA SeedLevels ==
  \A i \in DOMAIN Template :
    /\ SeedLevel[i] \in Levels
    /\ SeedLevel[i] = LevelAt(SeedLevel, i)
  <1>1. DOMAIN Template = 1 .. Len(Template) /\ Len(Template) \in Nat
    BY TemplateAssumption
  <1> DEFINE Is(g) == g = [i \in DOMAIN Template |->
                IF Template[i].parent = Nil THEN 1
                ELSE 1 + g[CHOOSE j \in DOMAIN Template : Template[j].account = Template[i].parent]]
  <1>2. \E g : Is(g)
    <2>1. PICK g : LevelsUpTo(g, Len(Template))
      BY <1>1, LevelsExist
    <2> DEFINE h == [i \in DOMAIN Template |-> g[i]]
    <2>2. ASSUME NEW i \in DOMAIN Template
          PROVE  h[i] = IF Template[i].parent = Nil THEN 1 ELSE 1 + h[ParentOf(i)]
      <3>1. h[i] = LevelAt(g, i)
        BY <1>1, <2>1 DEF LevelsUpTo
      <3>2. Template[i].parent # Nil => ParentOf(i) \in DOMAIN Template
        BY ParentFirst
      <3>. QED
        BY <3>1, <3>2 DEF LevelAt
    <2>3. h = [i \in DOMAIN Template |-> IF Template[i].parent = Nil THEN 1 ELSE 1 + h[ParentOf(i)]]
      BY <2>2
    <2>4. Is(h)
      BY <2>3 DEF ParentOf
    <2>. QED
      BY <2>4
  <1>3. Is(SeedLevel)
    <2>1. SeedLevel = CHOOSE g : Is(g)
      BY DEF SeedLevel
    <2>. HIDE DEF Is
    <2>. QED
      BY <1>2, <2>1
  <1>4. \A i \in DOMAIN Template : SeedLevel[i] = LevelAt(SeedLevel, i)
    BY <1>3 DEF LevelAt, ParentOf
  <1> DEFINE N == {i \in DOMAIN Template : SeedLevel[i] \notin Nat \ {0}}
  <1>5. N = {}
    <2>1. SUFFICES ASSUME N # {} PROVE FALSE
      OBVIOUS
    <2>2. N \in SUBSET Nat
      BY <1>1
    <2>3. PICK m \in N : \A k \in N : m <= k
      <3>. HIDE DEF N
      <3>. QED BY <2>1, <2>2, LeastElement
    <2>4. CASE Template[m].parent = Nil
      BY <1>4, <2>4 DEF LevelAt
    <2>5. CASE Template[m].parent # Nil
      <3>1. ParentOf(m) \in DOMAIN Template /\ ParentOf(m) < m
        BY <2>5, ParentFirst
      <3>2. ParentOf(m) \notin N
        BY <1>1, <2>3, <3>1
      <3>3. SeedLevel[ParentOf(m)] \in Nat \ {0}
        BY <3>1, <3>2
      <3>. QED
        BY <1>4, <2>5, <3>3 DEF LevelAt
    <2>. QED
      BY <2>4, <2>5
  <1>6. ASSUME NEW i \in DOMAIN Template PROVE SeedLevel[i] \in Levels
    <2>1. SeedLevel[i] \in Nat \ {0} /\ MaxLevel \in Nat
      BY <1>5, ChartAssumption
    <2>. QED
      BY <2>1, TemplateAssumption DEF Levels
  <1>. QED
    BY <1>4, <1>6

\* What the seeded row of an account is.
LEMMA SeededRow ==
  ASSUME NEW i \in DOMAIN Template, NEW a \in Accounts, Template[i].account = a
  PROVE  /\ Seeded[a].state = "live"
         /\ Seeded[a].parent = Template[i].parent
         /\ Seeded[a].level = SeedLevel[i]
         /\ \A j \in DOMAIN Template : Template[j].parent = a => Seeded[a].group
         /\ Seeded[a] \in Rows
  <1> DEFINE Is == {k \in DOMAIN Template : Template[k].account = a}
             hasChild == \E j \in DOMAIN Template : Template[j].parent = a
             row == [state |-> "live", parent |-> Template[i].parent, level |-> SeedLevel[i],
                     group |-> hasChild, active |-> TRUE, cash |-> Template[i].cash,
                     type |-> Template[i].type]
  <1>1. Is = {i}
    BY TemplateAssumption
  <1>2. (CHOOSE k \in Is : TRUE) = i
    BY <1>1
  <1>3. Seeded[a] = row
    BY <1>1, <1>2 DEF Seeded
  <1>4. hasChild \in BOOLEAN
    OBVIOUS
  <1>5. Template[i] \in [account : Accounts, parent : Accounts \cup {Nil}, type : Types, cash : BOOLEAN]
    BY TemplateRow DEF TemplateRows
  <1>6. /\ row \in Rows /\ row.state = "live" /\ row.parent = Template[i].parent
        /\ row.level = SeedLevel[i] /\ row.group = hasChild
    <2>. HIDE DEF hasChild
    <2>. QED
      BY <1>4, <1>5, SeedLevels DEF Rows, States, Levels
  <1>. QED
    BY <1>3, <1>6

LEMMA SeededOther ==
  ASSUME NEW a \in Accounts, \A i \in DOMAIN Template : Template[i].account # a
  PROVE  Seeded[a] = NoRow
  BY DEF Seeded

LEMMA SeededSound == Seeded \in [Accounts -> Rows] /\ IsForest(Seeded)
  <1>0. \A i \in DOMAIN Template :
          Template[i] \in [account : Accounts, parent : Accounts \cup {Nil}, type : Types, cash : BOOLEAN]
    BY TemplateRow DEF TemplateRows
  <1>1. ASSUME NEW a \in Accounts PROVE Seeded[a] \in Rows
    <2>1. ASSUME NEW i \in DOMAIN Template, Template[i].account = a
          PROVE  Seeded[a] \in Rows
      BY <2>1, SeededRow
    <2>2. NoRow \in Rows
      BY ChartAssumption DEF NoRow, Rows, States, Types
    <2>. QED
      BY <2>1, <2>2, SeededOther
  <1>2. Seeded \in [Accounts -> Rows]
    BY <1>1 DEF Seeded
  <1>3. ASSUME NEW a \in Accounts, Seeded[a].state = "live"
        PROVE  IF Seeded[a].parent = Nil THEN Seeded[a].level = 1
               ELSE LET p == Seeded[a].parent
                    IN /\ Seeded[p].state = "live" /\ Seeded[p].group
                       /\ Seeded[a].level = Seeded[p].level + 1
    <2>1. PICK i \in DOMAIN Template : Template[i].account = a
      BY <1>3, SeededOther DEF NoRow
    <2>2. Seeded[a].parent = Template[i].parent /\ Seeded[a].level = SeedLevel[i]
      BY <2>1, SeededRow
    <2>3. CASE Template[i].parent = Nil
      BY <2>2, <2>3, SeedLevels DEF LevelAt
    <2>4. CASE Template[i].parent # Nil
      <3>1. /\ ParentOf(i) \in DOMAIN Template
            /\ Template[ParentOf(i)].account = Template[i].parent
        BY <2>4, ParentFirst
      <3>0. Template[i].parent \in Accounts
        BY <1>0, <2>4
      <3>2. /\ Seeded[Template[i].parent].state = "live"
            /\ Seeded[Template[i].parent].level = SeedLevel[ParentOf(i)]
            /\ Seeded[Template[i].parent].group
        BY <3>0, <3>1, SeededRow
      <3>3. SeedLevel[ParentOf(i)] \in Int /\ SeedLevel[i] = 1 + SeedLevel[ParentOf(i)]
        BY <2>4, <3>1, SeedLevels, ChartAssumption DEF LevelAt, Levels
      <3>4. Seeded[a].level = SeedLevel[ParentOf(i)] + 1
        BY <2>2, <3>3
      <3>. QED
        BY <2>2, <2>4, <3>2, <3>4
    <2>. QED
      BY <2>3, <2>4
  <1>. QED
    BY <1>2, <1>3 DEF IsForest
-----------------------------------------------------------------------------
(***************************************************************************)
(* Creating, deleting and editing keep a forest a forest.                  *)
(***************************************************************************)
\* An account row that is there may be marked as deleted but does not go away.
Remain(c, w) == \A x \in Accounts : w.acct[x].state = "none" => c.acct[x].state = "none"

LEMMA CreatedSound ==
  ASSUME NEW c, ChartType(c), NEW a \in Accounts, NEW n \in News, CanCreate(c, a, n)
  PROVE  LET w == Created(c, a, n) IN
         /\ ChartType(w) /\ w.centre = c.centre
         /\ \A x \in Accounts : c.acct[x].state = "live" => w.acct[x].state = "live"
         /\ IsForest(c.acct) => IsForest(w.acct)
         /\ Remain(c, w)
  <1> DEFINE row == [state |-> "live", parent |-> n.parent, group |-> n.group,
                     active |-> TRUE, cash |-> n.cash, type |-> n.type,
                     level |-> IF n.parent = Nil THEN 1 ELSE c.acct[n.parent].level + 1]
             NewRow(x) == IF x = a THEN row
                       ELSE IF x = n.parent THEN [c.acct[x] EXCEPT !.group = TRUE]
                       ELSE c.acct[x]
             w == Created(c, a, n)
  <1>1. /\ c.acct \in [Accounts -> Rows] /\ c.centre \in [Centres -> CentreRows]
        /\ c.adjust \in Accounts \cup {Nil}
        /\ c = [acct |-> c.acct, centre |-> c.centre, adjust |-> c.adjust]
    BY DEF ChartType
  <1>2. /\ n.parent \in Accounts \cup {Nil} /\ n.group \in BOOLEAN /\ n.cash \in BOOLEAN
        /\ n.type \in Types
    BY ChartAssumption
  <1>3. n.parent # Nil => /\ n.parent \in Accounts /\ c.acct[n.parent].state = "live"
                          /\ n.parent # a
                          /\ c.acct[n.parent].level \in 1 .. MaxLevel
                          /\ c.acct[n.parent].level < MaxLevel
    BY <1>1 DEF CanCreate, Live, Rows
  <1>4. /\ w.acct = [x \in Accounts |-> NewRow(x)] /\ w.centre = c.centre /\ w.adjust = c.adjust
        /\ w = [acct |-> w.acct, centre |-> w.centre, adjust |-> w.adjust]
    <2> DEFINE f == [x \in Accounts |-> NewRow(x)]
    <2>1. w = [c EXCEPT !.acct = f]
      BY DEF Created
    <2>. HIDE DEF f, w
    <2>2. w.acct = f /\ w.centre = c.centre /\ w.adjust = c.adjust
          /\ w = [acct |-> w.acct, centre |-> w.centre, adjust |-> w.adjust]
      BY <1>1, <2>1
    <2>. QED
      BY <2>2 DEF f
  <1>5. row.level \in 1 .. MaxLevel
    BY <1>3, ChartAssumption
  <1>6. row \in Rows
    BY <1>2, <1>5 DEF Rows, States
  <1>7. ASSUME NEW x \in Accounts PROVE NewRow(x) \in Rows
    <2>1. c.acct[x] \in Rows
      BY <1>1
    <2>2. [c.acct[x] EXCEPT !.group = TRUE] \in Rows
      BY <2>1 DEF Rows
    <2>. QED
      BY <1>6, <2>1, <2>2
  <1>8. ChartType(w)
    <2>. HIDE DEF NewRow, w
    <2>1. w.acct \in [Accounts -> Rows]
      BY <1>4, <1>7
    <2>. QED
      BY <1>1, <1>4, <2>1 DEF ChartType
  <1>9. ASSUME NEW x \in Accounts, x # a
        PROVE  /\ w.acct[x].state = c.acct[x].state /\ w.acct[x].parent = c.acct[x].parent
               /\ w.acct[x].level = c.acct[x].level
               /\ c.acct[x].group \/ x = n.parent => w.acct[x].group
    <2>1. c.acct[x] \in Rows /\ w.acct[x] = NewRow(x)
      BY <1>1, <1>4
    <2>. QED
      BY <1>9, <2>1 DEF Rows
  <1>10. w.acct[a] = row
    BY <1>4
  <1>11. c.acct[a].state = "none"
    BY DEF CanCreate
  <1>12. ASSUME IsForest(c.acct), NEW x \in Accounts, w.acct[x].state = "live"
         PROVE  IF w.acct[x].parent = Nil THEN w.acct[x].level = 1
                ELSE LET p == w.acct[x].parent
                     IN /\ w.acct[p].state = "live" /\ w.acct[p].group
                        /\ w.acct[x].level = w.acct[p].level + 1
    <2>1. CASE x = a
      BY <1>3, <1>9, <1>10, <2>1
    <2>2. CASE x # a
      <3>1. c.acct[x].state = "live" /\ w.acct[x].parent = c.acct[x].parent
            /\ w.acct[x].level = c.acct[x].level
        BY <1>9, <1>12, <2>2
      <3>2. CASE c.acct[x].parent # Nil
        <4> DEFINE p == c.acct[x].parent
        <4>1. /\ c.acct[p].state = "live" /\ c.acct[p].group
              /\ c.acct[x].level = c.acct[p].level + 1
          BY <1>12, <3>1, <3>2 DEF IsForest
        <4>2. p \in Accounts /\ p # a
          BY <1>1, <1>11, <3>2, <4>1 DEF Rows
        <4>. QED
          BY <1>9, <3>1, <3>2, <4>1, <4>2
      <3>3. CASE c.acct[x].parent = Nil
        BY <1>12, <3>1, <3>3 DEF IsForest
      <3>. QED
        BY <3>2, <3>3
    <2>. QED
      BY <2>1, <2>2
  <1>13. \A x \in Accounts : c.acct[x].state = "live" => w.acct[x].state = "live"
    BY <1>9, <1>11
  <1>14. IsForest(c.acct) => IsForest(w.acct)
    BY <1>12 DEF IsForest
  <1>15. Remain(c, w)
    BY <1>9, <1>11 DEF Remain
  <1>. QED
    BY <1>4, <1>8, <1>13, <1>14, <1>15

LEMMA DeletedSound ==
  ASSUME NEW c, ChartType(c), NEW a \in Accounts, CanDelete(c, a)
  PROVE  LET w == [c EXCEPT !.acct[a].state = "deleted"] IN
         /\ ChartType(w) /\ w.centre = c.centre
         /\ \A x \in Accounts \ {a} : w.acct[x] = c.acct[x]
         /\ IsForest(c.acct) => IsForest(w.acct)
  <1> DEFINE w == [c EXCEPT !.acct[a].state = "deleted"]
             gone == [c.acct[a] EXCEPT !.state = "deleted"]
  <1>1. /\ c.acct \in [Accounts -> Rows] /\ c.centre \in [Centres -> CentreRows]
        /\ c.adjust \in Accounts \cup {Nil} /\ c.acct[a] \in Rows
        /\ c = [acct |-> c.acct, centre |-> c.centre, adjust |-> c.adjust]
    BY DEF ChartType
  <1>2. gone \in Rows /\ gone.state = "deleted"
    BY <1>1 DEF Rows, States
  <1>3. /\ w.acct = [c.acct EXCEPT ![a] = gone] /\ w.centre = c.centre /\ w.adjust = c.adjust
        /\ w = [acct |-> w.acct, centre |-> w.centre, adjust |-> w.adjust]
    BY <1>1
  <1>4. ChartType(w)
    BY <1>1, <1>2, <1>3 DEF ChartType
  <1>5. /\ \A x \in Accounts \ {a} : w.acct[x] = c.acct[x]
        /\ w.acct[a].state = "deleted"
    BY <1>1, <1>2, <1>3
  <1>6. ASSUME IsForest(c.acct), NEW x \in Accounts, w.acct[x].state = "live"
        PROVE  IF w.acct[x].parent = Nil THEN w.acct[x].level = 1
               ELSE LET p == w.acct[x].parent
                    IN /\ w.acct[p].state = "live" /\ w.acct[p].group
                       /\ w.acct[x].level = w.acct[p].level + 1
    <2>1. x # a /\ w.acct[x] = c.acct[x]
      BY <1>5, <1>6
    <2>2. c.acct[x].parent # a
      BY <1>6, <2>1 DEF CanDelete, Children, Live
    <2>3. c.acct[x].parent \in Accounts \cup {Nil}
      BY <1>1 DEF Rows
    <2>. QED
      BY <1>5, <1>6, <2>1, <2>2, <2>3 DEF IsForest
  <1>7. IsForest(c.acct) => IsForest(w.acct)
    BY <1>6 DEF IsForest
  <1>. HIDE DEF w
  <1>. QED
    BY <1>3, <1>4, <1>5, <1>7 DEF w

LEMMA AdjustmentSound ==
  ASSUME NEW c, ChartType(c), NEW a \in Accounts \cup {Nil}, NEW w \in WithAdjustment(c, a)
  PROVE  ChartType(w) /\ w.centre = c.centre /\ w.acct = c.acct
  BY DEF ChartType, WithAdjustment

LEMMA CentreSound ==
  ASSUME NEW c, ChartType(c), NEW x \in Centres, NEW n \in Names, NEW b \in BOOLEAN,
         NEW w \in WithCentre(c, x, n, b)
  PROVE  ChartType(w) /\ w.acct = c.acct /\ (Differ(c.centre) => Differ(w.centre))
  <1> DEFINE row == [name |-> n, active |-> b]
  <1>1. /\ c.acct \in [Accounts -> Rows] /\ c.centre \in [Centres -> CentreRows]
        /\ c.adjust \in Accounts \cup {Nil}
        /\ c = [acct |-> c.acct, centre |-> c.centre, adjust |-> c.adjust]
    BY DEF ChartType
  <1>2. /\ w = [acct |-> c.acct, centre |-> [c.centre EXCEPT ![x] = row], adjust |-> c.adjust]
        /\ ~NameTaken(c, x, n)
    BY <1>1 DEF WithCentre
  <1>3. row \in CentreRows /\ row.name = n
    BY DEF CentreRows
  <1>. HIDE DEF row
  <1>4. ChartType(w) /\ w.acct = c.acct
    BY <1>1, <1>2, <1>3 DEF ChartType
  <1>5. \A y \in Centres : w.centre[y].name = IF y = x THEN n ELSE c.centre[y].name
    BY <1>1, <1>2, <1>3
  <1>6. \A y \in Centres \ {x} : c.centre[y].name # n
    BY <1>2 DEF NameTaken
  <1>. QED
    BY <1>4, <1>5, <1>6 DEF Differ
-----------------------------------------------------------------------------
(***************************************************************************)
(* Moving an account.  In a forest, eight steps down reach everything that *)
(* hangs under it and eight steps up everything it hangs under, because no *)
(* account is deeper than MaxLevel; so a new parent that is not under the  *)
(* account is found not to be, and what hangs under it moves with it.      *)
(***************************************************************************)
\* One step down from the accounts in S, and one step up.
Kin(c, S)     == S \cup UNION {Children(c, y) : y \in S}
Parents(c, S) == S \cup {x \in Accounts : \E y \in S : Live(c, x) /\ c.acct[y].parent = x}

LEMMA GrowIsKin ==
  ASSUME NEW c, NEW S
  PROVE  Grow(c, S) = Kin(c, Kin(c, S)) /\ Rise(c, S) = Parents(c, Parents(c, S))
  BY DEF Grow, Rise, Kin, Parents

\* S hangs together under a.
Hangs(c, a, S) ==
  /\ S \subseteq Accounts /\ a \in S
  /\ \A x \in S \ {a} : Live(c, x) /\ c.acct[x].parent \in S

\* What hangs under S without being in it hangs under an account of level n
\* or more; what S hangs under without its being in S is above one of level n
\* or less.
Deep(c, S, n) == \A x \in S : \A y \in Children(c, x) \ S : c.acct[x].level >= n
High(c, S, n) == \A y \in S, x \in Accounts \ S :
  Live(c, x) /\ c.acct[y].parent = x => c.acct[y].level <= n

LEMMA KinStep ==
  ASSUME NEW c, ChartType(c), NEW a \in Accounts, NEW S, Hangs(c, a, S), NEW n \in Int
  PROVE  /\ Hangs(c, a, Kin(c, S))
         /\ IsForest(c.acct) /\ Deep(c, S, n) => Deep(c, Kin(c, S), n + 1)
  <1>1. Hangs(c, a, Kin(c, S))
    BY DEF Hangs, Kin, Children
  <1>2. ASSUME IsForest(c.acct), Deep(c, S, n),
               NEW x \in Kin(c, S), NEW y \in Children(c, x) \ Kin(c, S)
        PROVE  c.acct[x].level >= n + 1
    <2>1. x \notin S
      BY <1>2 DEF Kin
    <2>2. PICK z \in S : x \in Children(c, z)
      BY <1>2, <2>1 DEF Kin
    <2>3. c.acct[z].level >= n
      BY <1>2, <2>1, <2>2 DEF Deep
    <2>4. /\ x \in Accounts /\ c.acct[x].state = "live" /\ c.acct[x].parent = z /\ z \in Accounts
      BY <2>2 DEF Children, Live, Hangs
    <2>5. c.acct[x].level = c.acct[z].level + 1
      BY <1>2, <2>4, ChartAssumption DEF IsForest
    <2>6. c.acct[x].level \in Int /\ c.acct[z].level \in Int
      BY <2>4, ChartAssumption DEF ChartType, Rows
    <2>. QED
      BY <2>3, <2>5, <2>6
  <1>. QED
    BY <1>1, <1>2 DEF Deep

LEMMA GrowStep ==
  ASSUME NEW c, ChartType(c), NEW a \in Accounts, NEW S, Hangs(c, a, S), NEW n \in Int
  PROVE  /\ Hangs(c, a, Grow(c, S))
         /\ IsForest(c.acct) /\ Deep(c, S, n) => Deep(c, Grow(c, S), n + 2)
  <1> DEFINE K == Kin(c, S)
  <1>1. Hangs(c, a, K) /\ (IsForest(c.acct) /\ Deep(c, S, n) => Deep(c, K, n + 1))
    BY KinStep
  <1>. HIDE DEF K
  <1>2. n + 1 \in Int /\ (n + 1) + 1 = n + 2
    OBVIOUS
  <1>3. /\ Hangs(c, a, Kin(c, K))
        /\ IsForest(c.acct) /\ Deep(c, K, n + 1) => Deep(c, Kin(c, K), n + 2)
    BY <1>1, <1>2, KinStep
  <1>. QED
    BY <1>1, <1>3, GrowIsKin DEF K

LEMMA UnderIs ==
  ASSUME NEW c, ChartType(c), NEW a \in Accounts
  PROVE  /\ Hangs(c, a, Under(c, a))
         /\ IsForest(c.acct) => \A x \in Under(c, a) : Children(c, x) \subseteq Under(c, a)
  <1> DEFINE S1 == Grow(c, {a})
             S2 == Grow(c, S1)
             S3 == Grow(c, S2)
             S4 == Grow(c, S3)
  <1>0. \A x \in Accounts : c.acct[x].level \in 1 .. 4
    BY ChartAssumption DEF ChartType, Rows
  <1>1. Hangs(c, a, {a}) /\ Deep(c, {a}, 1)
    BY <1>0 DEF Hangs, Deep
  <1>2. Hangs(c, a, S1) /\ (IsForest(c.acct) => Deep(c, S1, 3))
    BY <1>1, GrowStep, 1 + 2 = 3
  <1>. HIDE DEF S1
  <1>3. Hangs(c, a, S2) /\ (IsForest(c.acct) => Deep(c, S2, 5))
    BY <1>2, GrowStep, 3 + 2 = 5
  <1>. HIDE DEF S2
  <1>4. Hangs(c, a, S3) /\ (IsForest(c.acct) => Deep(c, S3, 7))
    BY <1>3, GrowStep, 5 + 2 = 7
  <1>. HIDE DEF S3
  <1>5. Hangs(c, a, S4) /\ (IsForest(c.acct) => Deep(c, S4, 9))
    BY <1>4, GrowStep, 7 + 2 = 9
  <1>. HIDE DEF S4
  <1>6. Under(c, a) = S4
    BY DEF Under, S1, S2, S3, S4
  <1>. QED
    BY <1>0, <1>5, <1>6 DEF Deep, Hangs

LEMMA ParentsStep ==
  ASSUME NEW c, ChartType(c), IsForest(c.acct), NEW S \in SUBSET Accounts,
         \A x \in S : Live(c, x), NEW n \in Int, High(c, S, n)
  PROVE  LET P == Parents(c, S) IN
         /\ S \subseteq P /\ P \subseteq Accounts
         /\ \A x \in P : Live(c, x)
         /\ High(c, P, n - 1)
  <1>1. /\ S \subseteq Parents(c, S) /\ Parents(c, S) \subseteq Accounts
        /\ \A x \in Parents(c, S) : Live(c, x)
    BY DEF Parents
  <1>2. ASSUME NEW y \in Parents(c, S), NEW x \in Accounts \ Parents(c, S),
               Live(c, x), c.acct[y].parent = x
        PROVE  c.acct[y].level <= n - 1
    <2>1. y \notin S
      BY <1>2 DEF Parents
    <2>2. PICK z \in S : c.acct[z].parent = y
      BY <1>2, <2>1 DEF Parents
    <2>3. y \in Accounts /\ Live(c, y) /\ z \in Accounts /\ Live(c, z)
      BY <1>1, <2>2
    <2>4. c.acct[z].level <= n
      BY <2>1, <2>2, <2>3 DEF High
    <2>5. c.acct[z].level = c.acct[y].level + 1
      BY <2>2, <2>3, ChartAssumption DEF IsForest, Live
    <2>6. c.acct[y].level \in Int /\ c.acct[z].level \in Int
      BY <2>3, ChartAssumption DEF ChartType, Rows
    <2>. QED
      BY <2>4, <2>5, <2>6
  <1>. QED
    BY <1>1, <1>2 DEF High

LEMMA RiseStep ==
  ASSUME NEW c, ChartType(c), IsForest(c.acct), NEW S \in SUBSET Accounts,
         \A x \in S : Live(c, x), NEW n \in Int, High(c, S, n)
  PROVE  LET P == Rise(c, S) IN
         /\ S \subseteq P /\ P \in SUBSET Accounts
         /\ \A x \in P : Live(c, x)
         /\ High(c, P, n - 2)
  <1> DEFINE P == Parents(c, S)
  <1>1. S \subseteq P /\ P \in SUBSET Accounts /\ (\A x \in P : Live(c, x)) /\ High(c, P, n - 1)
    BY ParentsStep
  <1>2. n - 1 \in Int /\ (n - 1) - 1 = n - 2
    OBVIOUS
  <1>. HIDE DEF P
  <1> DEFINE Q == Parents(c, P)
  <1>3. P \subseteq Q /\ Q \in SUBSET Accounts /\ (\A x \in Q : Live(c, x)) /\ High(c, Q, (n - 1) - 1)
    BY <1>1, <1>2, ParentsStep
  <1>4. Q = Rise(c, S)
    BY GrowIsKin DEF P
  <1>. QED
    BY <1>1, <1>2, <1>3, <1>4

LEMMA AboveIs ==
  ASSUME NEW c, ChartType(c), IsForest(c.acct), NEW p, Live(c, p)
  PROVE  /\ p \in Above(c, p)
         /\ \A y \in Above(c, p), x \in Accounts :
              Live(c, x) /\ c.acct[y].parent = x => x \in Above(c, p)
  <1> DEFINE S0 == {p}
             S1 == Rise(c, S0)
             S2 == Rise(c, S1)
             S3 == Rise(c, S2)
             S4 == Rise(c, S3)
  <1>0. \A x \in Accounts : c.acct[x].level \in 1 .. 4
    BY ChartAssumption DEF ChartType, Rows
  <1>1. S0 \in SUBSET Accounts /\ (\A x \in S0 : Live(c, x)) /\ High(c, S0, 4)
    BY <1>0 DEF High, Live
  <1>a. p \in S0
    OBVIOUS
  <1>. HIDE DEF S0
  <1>2. S0 \subseteq S1 /\ S1 \in SUBSET Accounts /\ (\A x \in S1 : Live(c, x)) /\ High(c, S1, 2)
    BY <1>1, RiseStep, 4 - 2 = 2
  <1>. HIDE DEF S1
  <1>3. S1 \subseteq S2 /\ S2 \in SUBSET Accounts /\ (\A x \in S2 : Live(c, x)) /\ High(c, S2, 0)
    BY <1>2, RiseStep, 2 - 2 = 0
  <1>. HIDE DEF S2
  <1>4. S2 \subseteq S3 /\ S3 \in SUBSET Accounts /\ (\A x \in S3 : Live(c, x)) /\ High(c, S3, -2)
    BY <1>3, RiseStep, 0 - 2 = -2
  <1>. HIDE DEF S3
  <1>5. S3 \subseteq S4 /\ S4 \in SUBSET Accounts /\ High(c, S4, -4)
    BY <1>4, RiseStep, -2 - 2 = -4
  <1>. HIDE DEF S4
  <1>6. Above(c, p) = S4
    BY DEF Above, S0, S1, S2, S3, S4
  <1>7. ASSUME NEW y \in S4, NEW x \in Accounts, Live(c, x), c.acct[y].parent = x, x \notin S4
        PROVE  FALSE
    BY <1>0, <1>5, <1>7 DEF High
  <1>. QED
    BY <1>a, <1>2, <1>3, <1>4, <1>5, <1>6, <1>7

\* What is not above p has nothing above p under it.
LEMMA KinApart ==
  ASSUME NEW c, NEW A, NEW S \in SUBSET Accounts, S \cap A = {},
         \A y \in A, x \in Accounts : Live(c, x) /\ c.acct[y].parent = x => x \in A,
         \A x \in S : Live(c, x)
  PROVE  /\ Kin(c, S) \in SUBSET Accounts /\ Kin(c, S) \cap A = {}
         /\ \A x \in Kin(c, S) : Live(c, x)
  BY DEF Kin, Children

LEMMA UnderApart ==
  ASSUME NEW c, ChartType(c), IsForest(c.acct), NEW a, Live(c, a), NEW p, Live(c, p),
         a \notin Above(c, p)
  PROVE  p \notin Under(c, a)
  <1> DEFINE A == Above(c, p)
             OK(S) == S \in SUBSET Accounts /\ S \cap A = {} /\ \A x \in S : Live(c, x)
  <1>1. p \in A /\ \A y \in A, x \in Accounts : Live(c, x) /\ c.acct[y].parent = x => x \in A
    BY AboveIs
  <1>2. OK({a})
    BY DEF Live
  <1>. HIDE DEF A
  <1>3. ASSUME NEW S, OK(S) PROVE OK(Grow(c, S))
    <2>1. OK(Kin(c, S))
      BY <1>1, <1>3, KinApart
    <2>2. OK(Kin(c, Kin(c, S)))
      <3> DEFINE K == Kin(c, S)
      <3>1. OK(K)
        BY <2>1
      <3>. HIDE DEF K
      <3>2. OK(Kin(c, K))
        BY <1>1, <3>1, KinApart
      <3>. QED
        BY <3>2 DEF K
    <2>. QED
      BY <2>2, GrowIsKin
  <1>. HIDE DEF OK
  <1>4. OK(Under(c, a))
    BY <1>2, <1>3 DEF Under
  <1>. QED
    BY <1>1, <1>4 DEF OK

\* The new chart differs from c in nothing the forest is made of.
LEMMA EditedSound ==
  ASSUME NEW c, ChartType(c), NEW u \in Updates, NEW a, a = u.account, CanUpdate(c, a, u)
  PROVE  LET e == [c EXCEPT !.acct[a] = Edited(@, u)] IN
         /\ ChartType(e) /\ e.centre = c.centre
         /\ \A x \in Accounts : /\ e.acct[x].state = c.acct[x].state
                                /\ e.acct[x].parent = c.acct[x].parent
                                /\ e.acct[x].level = c.acct[x].level
                                /\ Children(c, x) # {} /\ c.acct[x].group => e.acct[x].group
  <1> DEFINE row == Edited(c.acct[a], u)
             e == [c EXCEPT !.acct[a] = Edited(@, u)]
  <1>1. /\ c.acct \in [Accounts -> Rows] /\ c.centre \in [Centres -> CentreRows]
        /\ c.adjust \in Accounts \cup {Nil}
        /\ c = [acct |-> c.acct, centre |-> c.centre, adjust |-> c.adjust]
    BY DEF ChartType
  <1>2. u \in [account : Accounts, parent : Accounts \cup {Nil, Unset},
               group : BOOLEAN \cup {Unset}, active : BOOLEAN \cup {Unset},
               cash : BOOLEAN \cup {Unset}, type : Types \cup {Unset}]
    BY ChartAssumption
  <1>3. a \in Accounts /\ c.acct[a] \in Rows
    BY <1>1, <1>2
  <1>4. /\ row \in Rows /\ row.state = c.acct[a].state /\ row.parent = c.acct[a].parent
        /\ row.level = c.acct[a].level
        /\ row.group = Sent(u.group, c.acct[a].group)
    BY <1>2, <1>3, ZenonT(30) DEF Edited, Sent, Rows
  <1>5. Children(c, a) # {} /\ c.acct[a].group => row.group
    BY <1>2, <1>4 DEF CanUpdate, Sent
  <1>. HIDE DEF row
  <1>6. e.acct = [c.acct EXCEPT ![a] = row] /\ e.centre = c.centre /\ e.adjust = c.adjust
        /\ e = [acct |-> e.acct, centre |-> e.centre, adjust |-> e.adjust]
    BY <1>1, <1>3 DEF row
  <1>. HIDE DEF e
  <1>7. ChartType(e)
    BY <1>1, <1>4, <1>6 DEF ChartType
  <1>8. \A x \in Accounts : e.acct[x] = IF x = a THEN row ELSE c.acct[x]
    BY <1>1, <1>6
  <1>9. ASSUME NEW x \in Accounts
        PROVE  /\ e.acct[x].state = c.acct[x].state
               /\ e.acct[x].parent = c.acct[x].parent
               /\ e.acct[x].level = c.acct[x].level
               /\ Children(c, x) # {} /\ c.acct[x].group => e.acct[x].group
    <2>1. CASE x = a
      BY <1>4, <1>5, <1>8, <2>1
    <2>2. CASE x # a
      BY <1>8, <2>2
    <2>. QED
      BY <2>1, <2>2
  <1>. QED
    BY <1>6, <1>7, <1>9 DEF e

\* What hangs under a, U, is under p in w with the levels r, and all else is as in e.
Rehung(e, w, a, p, U, r) ==
  /\ ChartType(w) /\ w.centre = e.centre
  /\ \A x \in Accounts :
       /\ w.acct[x].state = e.acct[x].state
       /\ w.acct[x].parent = IF x = a THEN p ELSE e.acct[x].parent
       /\ w.acct[x].level = IF x \in U THEN r[x] ELSE e.acct[x].level
       /\ e.acct[x].group \/ x = p => w.acct[x].group

LEMMA MovedIs ==
  ASSUME NEW e, ChartType(e), NEW a \in Accounts, NEW p \in Accounts \cup {Nil},
         NEW U \in SUBSET Accounts, NEW r \in [U -> 1 .. MaxLevel],
         NEW w, w = Moved(e, a, p, r)
  PROVE  Rehung(e, w, a, p, U, r)
  <1> DEFINE NewRow(x) == [e.acct[x] EXCEPT
                          !.level  = IF x \in DOMAIN r THEN r[x] ELSE @,
                          !.parent = IF x = a THEN p ELSE @,
                          !.group  = IF x = p THEN TRUE ELSE @]
             f == [x \in Accounts |-> NewRow(x)]
  <1>1. /\ e.acct \in [Accounts -> Rows] /\ e.centre \in [Centres -> CentreRows]
        /\ e.adjust \in Accounts \cup {Nil}
        /\ e = [acct |-> e.acct, centre |-> e.centre, adjust |-> e.adjust]
    BY DEF ChartType
  <1>2. ASSUME NEW x \in Accounts
        PROVE  /\ NewRow(x) \in Rows
               /\ NewRow(x).state = e.acct[x].state
               /\ NewRow(x).parent = IF x = a THEN p ELSE e.acct[x].parent
               /\ NewRow(x).level = IF x \in U THEN r[x] ELSE e.acct[x].level
               /\ e.acct[x].group \/ x = p => NewRow(x).group
    <2>1. e.acct[x] \in Rows
      BY <1>1
    <2>2. DOMAIN r = U /\ (x \in U => r[x] \in 1 .. MaxLevel)
      OBVIOUS
    <2>. QED
      BY <2>1, <2>2 DEF Rows
  <1>3. w = [e EXCEPT !.acct = f]
    BY DEF Moved
  <1>. HIDE DEF NewRow
  <1>4. f \in [Accounts -> Rows]
    BY <1>2
  <1>5. \A x \in Accounts : f[x] = NewRow(x)
    OBVIOUS
  <1>. HIDE DEF f
  <1>6. w.acct = f /\ w.centre = e.centre /\ ChartType(w)
    BY <1>1, <1>3, <1>4 DEF ChartType
  <1>. QED
    BY <1>2, <1>5, <1>6 DEF Rehung

LEMMA UpdatedSound ==
  ASSUME NEW c, ChartType(c), NEW u \in Updates, NEW a, a = u.account, CanUpdate(c, a, u),
         NEW w \in Updated(c, a, u)
  PROVE  /\ ChartType(w) /\ w.centre = c.centre
         /\ \A x \in Accounts : w.acct[x].state = c.acct[x].state
         /\ IsForest(c.acct) => IsForest(w.acct)
  <1> DEFINE e == [c EXCEPT !.acct[a] = Edited(@, u)]
             p == u.parent
             l == IF u.parent = Nil THEN 1 ELSE c.acct[u.parent].level + 1
             U == Under(c, a)
  <1>0. a \in Accounts /\ p \in Accounts \cup {Nil, Unset} /\ Live(c, a)
    BY ChartAssumption DEF CanUpdate
  <1>1. /\ ChartType(e) /\ e.centre = c.centre
        /\ \A x \in Accounts : /\ e.acct[x].state = c.acct[x].state
                               /\ e.acct[x].parent = c.acct[x].parent
                               /\ e.acct[x].level = c.acct[x].level
                               /\ Children(c, x) # {} /\ c.acct[x].group => e.acct[x].group
    BY EditedSound
  <1>2. w \in IF Moves(c, a, u) THEN {Moved(e, a, p, r) : r \in NewLevels(c, a, l)} ELSE {e}
    BY DEF Updated
  <1>. HIDE DEF e
  <1>3. /\ c.acct \in [Accounts -> Rows]
        /\ \A x \in Accounts : c.acct[x].parent \in Accounts \cup {Nil}
    BY DEF ChartType, Rows
  <1>4. ASSUME NEW x \in Accounts, IsForest(c.acct), c.acct[x].state = "live", c.acct[x].parent # Nil
        PROVE  /\ c.acct[x].parent \in Accounts
               /\ c.acct[c.acct[x].parent].state = "live"
               /\ c.acct[x].level = c.acct[c.acct[x].parent].level + 1
               /\ x \in Children(c, c.acct[x].parent)
               /\ e.acct[c.acct[x].parent].group
    <2>1. /\ c.acct[x].parent \in Accounts /\ c.acct[c.acct[x].parent].state = "live"
          /\ c.acct[c.acct[x].parent].group
          /\ c.acct[x].level = c.acct[c.acct[x].parent].level + 1
      BY <1>3, <1>4 DEF IsForest
    <2>2. x \in Children(c, c.acct[x].parent)
      BY <1>4 DEF Children, Live
    <2>. QED
      BY <1>1, <2>1, <2>2
  <1>5. CASE ~Moves(c, a, u)
    <2>1. w = e
      BY <1>2, <1>5
    <2>2. IsForest(c.acct) => IsForest(w.acct)
      BY <1>1, <1>4, <2>1 DEF IsForest
    <2>. QED
      BY <1>1, <2>1, <2>2
  <1>6. CASE Moves(c, a, u)
    <2>1. PICK r \in NewLevels(c, a, l) : w = Moved(e, a, p, r)
      BY <1>2, <1>6
    <2>2. /\ r \in [U -> 1 .. MaxLevel] /\ r[a] = l
          /\ \A x \in U : \A y \in Children(c, x) : r[y] = r[x] + 1
      BY <2>1 DEF NewLevels
    <2>3. p \in Accounts \cup {Nil}
      BY <1>0, <1>6 DEF Moves
    <2>4. Hangs(c, a, U) /\ (IsForest(c.acct) => \A x \in U : Children(c, x) \subseteq U)
      BY <1>0, UnderIs
    <2>5. U \in SUBSET Accounts
      BY <2>4 DEF Hangs
    <2>6. Rehung(e, w, a, p, U, r)
      <3>1. a \in Accounts /\ ChartType(e) /\ r \in [U -> 1 .. MaxLevel]
        BY <1>0, <1>1, <2>2
      <3>. HIDE DEF p, U
      <3>. QED
        BY <2>1, <2>3, <2>5, <3>1, MovedIs
    <2>. USE DEF Rehung
    <2>7. p # Nil => /\ p \in Accounts /\ c.acct[p].state = "live" /\ p # a
                     /\ IsForest(c.acct) => p \notin U
      <3>1. p # Nil => p # a /\ Live(c, p) /\ a \notin Above(c, p)
        BY <1>6 DEF CanUpdate
      <3>. QED
        BY <1>0, <3>1, UnderApart DEF Live
    <2>8. ASSUME IsForest(c.acct), NEW x \in Accounts, w.acct[x].state = "live"
          PROVE  IF w.acct[x].parent = Nil THEN w.acct[x].level = 1
                 ELSE LET q == w.acct[x].parent
                      IN /\ w.acct[q].state = "live" /\ w.acct[q].group
                         /\ w.acct[x].level = w.acct[q].level + 1
      <3>0. c.acct[x].state = "live" /\ a \in U
        BY <1>1, <2>4, <2>6, <2>8 DEF Hangs
      <3>1. CASE x = a
        <4>1. w.acct[x].parent = p /\ w.acct[x].level = l
          BY <2>2, <2>6, <3>0, <3>1
        <4>2. p # Nil => /\ w.acct[p].state = "live" /\ w.acct[p].group
                         /\ w.acct[p].level = c.acct[p].level
          BY <1>1, <2>6, <2>7, <2>8
        <4>. QED
          BY <4>1, <4>2
      <3>2. CASE x # a /\ c.acct[x].parent = Nil
        <4>1. x \notin U
          BY <2>4, <3>2, ChartAssumption DEF Hangs
        <4>2. c.acct[x].level = 1
          BY <2>8, <3>0, <3>2 DEF IsForest
        <4>. QED
          BY <1>1, <2>6, <3>2, <4>1, <4>2
      <3>3. CASE x # a /\ c.acct[x].parent # Nil
        <4> DEFINE q == c.acct[x].parent
        <4>1. /\ q \in Accounts /\ c.acct[q].state = "live" /\ e.acct[q].group
              /\ c.acct[x].level = c.acct[q].level + 1 /\ x \in Children(c, q)
          BY <1>4, <2>8, <3>0, <3>3
        <4>2. w.acct[x].parent = q /\ w.acct[q].state = "live" /\ w.acct[q].group
          BY <1>1, <2>6, <3>3, <4>1
        <4>3. x \in U <=> q \in U
          BY <2>4, <2>8, <3>3, <4>1 DEF Hangs
        <4>4. q \in U => r[x] = r[q] + 1
          BY <2>2, <4>1
        <4>5. w.acct[x].level = w.acct[q].level + 1
          BY <1>1, <2>6, <4>1, <4>3, <4>4
        <4>. QED
          BY <3>3, <4>2, <4>5
      <3>. QED
        BY <3>1, <3>2, <3>3
    <2>9. IsForest(c.acct) => IsForest(w.acct)
      BY <2>8 DEF IsForest
    <2>. QED
      BY <1>1, <2>6, <2>9
  <1>. QED
    BY <1>5, <1>6
-----------------------------------------------------------------------------
(***************************************************************************)
(* Requests on the chart, beside those on the books.                       *)
(***************************************************************************)
LEMMA ChangedRow ==
  ASSUME NEW now \in Rows, NEW old, NEW new \in Rows
  PROVE  Changed(now, old, new) \in Rows
  <1> DEFINE r == Changed(now, old, new)
  <1>1. DOMAIN now = {"state", "parent", "level", "group", "active", "cash", "type"}
    BY DEF Rows
  <1>2. /\ DOMAIN r = DOMAIN now
        /\ \A f \in DOMAIN now : r[f] = IF new[f] # old[f] THEN new[f] ELSE now[f]
    BY DEF Changed
  <1>3. /\ r["state"] \in States /\ r["parent"] \in Accounts \cup {Nil} /\ r["level"] \in 1 .. MaxLevel
        /\ r["group"] \in BOOLEAN /\ r["active"] \in BOOLEAN /\ r["cash"] \in BOOLEAN
        /\ r["type"] \in Types
    BY <1>1, <1>2 DEF Rows
  <1>4. r = [f \in DOMAIN now |-> r[f]]
    BY DEF Changed
  <1>. HIDE DEF r
  <1>5. r = [state |-> r.state, parent |-> r.parent, level |-> r.level, group |-> r.group,
             active |-> r.active, cash |-> r.cash, type |-> r.type]
    BY <1>1, <1>4
  <1>6. r \in Rows
    BY <1>3, <1>5 DEF Rows
  <1>. QED
    BY <1>6 DEF r

LEMMA ChangedCentre ==
  ASSUME NEW now \in CentreRows, NEW old, NEW new \in CentreRows
  PROVE  Changed(now, old, new) \in CentreRows
  <1> DEFINE r == Changed(now, old, new)
  <1>1. DOMAIN now = {"name", "active"}
    BY DEF CentreRows
  <1>2. /\ DOMAIN r = DOMAIN now
        /\ \A f \in DOMAIN now : r[f] = IF new[f] # old[f] THEN new[f] ELSE now[f]
    BY DEF Changed
  <1>3. r["name"] \in Names \cup {Nil} /\ r["active"] \in BOOLEAN
    BY <1>1, <1>2 DEF CentreRows
  <1>4. r = [f \in DOMAIN now |-> r[f]]
    BY DEF Changed
  <1>. HIDE DEF r
  <1>5. r = [name |-> r.name, active |-> r.active]
    BY <1>1, <1>4
  <1>6. r \in CentreRows
    BY <1>3, <1>5 DEF CentreRows
  <1>. QED
    BY <1>6 DEF r

\* A row nobody has changed since it was loaded becomes what the request wants.
LEMMA ChangedAlone ==
  ASSUME NEW now, NEW new, DOMAIN new = DOMAIN now, new = [f \in DOMAIN new |-> new[f]]
  PROVE  Changed(now, now, new) = new
  BY DEF Changed

LEMMA FlushType ==
  ASSUME ChartType(Chart), NEW t \in Txns, ChartType(want[t]), Flush(t)
  PROVE  ChartType(Chart)'
  <1>1. /\ acct \in [Accounts -> Rows] /\ centre \in [Centres -> CentreRows]
        /\ adjust \in Accounts \cup {Nil}
        /\ want[t].acct \in [Accounts -> Rows] /\ want[t].centre \in [Centres -> CentreRows]
        /\ want[t].adjust \in Accounts \cup {Nil}
    BY DEF ChartType, Chart
  <1>2. acct' \in [Accounts -> Rows]
    <2>1. \A a \in Accounts : Changed(acct[a], seen[t].acct[a], want[t].acct[a]) \in Rows
      BY <1>1, ChangedRow
    <2>. QED
      BY <2>1 DEF Flush
  <1>3. centre' \in [Centres -> CentreRows]
    <2>1. \A x \in Centres : Changed(centre[x], seen[t].centre[x], want[t].centre[x]) \in CentreRows
      BY <1>1, ChangedCentre
    <2>. QED
      BY <2>1 DEF Flush
  <1>4. adjust' \in Accounts \cup {Nil}
    BY <1>1 DEF Flush
  <1>. QED
    BY <1>2, <1>3, <1>4 DEF ChartType, Chart

LEMMA FlushAlone ==
  ASSUME ChartType(Chart), NEW t \in Txns, ChartType(want[t]), seen[t] = Chart, Flush(t)
  PROVE  acct' = want[t].acct /\ centre' = want[t].centre
  <1>1. /\ acct \in [Accounts -> Rows] /\ centre \in [Centres -> CentreRows]
        /\ want[t].acct \in [Accounts -> Rows] /\ want[t].centre \in [Centres -> CentreRows]
    BY DEF ChartType, Chart
  <1>2. seen[t].acct = acct /\ seen[t].centre = centre
    BY DEF Chart
  <1>3. acct' = want[t].acct
    <2>1. ASSUME NEW a \in Accounts PROVE Changed(acct[a], acct[a], want[t].acct[a]) = want[t].acct[a]
      <3>1. acct[a] \in Rows /\ want[t].acct[a] \in Rows
        BY <1>1
      <3>2. DOMAIN want[t].acct[a] = DOMAIN acct[a]
            /\ want[t].acct[a] = [f \in DOMAIN want[t].acct[a] |-> want[t].acct[a][f]]
        BY <3>1 DEF Rows
      <3>. QED
        BY <3>2, ChangedAlone
    <2>2. acct' = [a \in Accounts |-> want[t].acct[a]]
      BY <1>2, <2>1 DEF Flush
    <2>. QED
      BY <1>1, <2>2
  <1>4. centre' = want[t].centre
    <2>1. ASSUME NEW x \in Centres PROVE Changed(centre[x], centre[x], want[t].centre[x]) = want[t].centre[x]
      <3>1. centre[x] \in CentreRows /\ want[t].centre[x] \in CentreRows
        BY <1>1
      <3>2. DOMAIN want[t].centre[x] = DOMAIN centre[x]
            /\ want[t].centre[x] = [f \in DOMAIN want[t].centre[x] |-> want[t].centre[x][f]]
        BY <3>1 DEF CentreRows
      <3>. QED
        BY <3>2, ChangedAlone
    <2>2. centre' = [x \in Centres |-> want[t].centre[x]]
      BY <1>2, <2>1 DEF Flush
    <2>. QED
      BY <1>1, <2>2
  <1>. QED
    BY <1>3, <1>4

\* A chart that may become the chart.
Sound(c) == /\ IsForest(c.acct) /\ Differ(c.centre)
            /\ \A a \in used : c.acct[a].state = "live"

LEMMA StepLoads ==
  ASSUME ChartType(Chart), used \subseteq Accounts, NEW t \in Txns, ChartStep(t)
  PROVE  \E w : Load(t, w) /\ ChartType(w) /\ (Sound(Chart) => Sound(w)) /\ Remain(Chart, w)
  <1> DEFINE Good(w) == ChartType(w) /\ (Sound(Chart) => Sound(w)) /\ Remain(Chart, w)
             c == Chart
  <1>0. ChartType(c) /\ c = Chart
    OBVIOUS
  <1>. HIDE DEF c
  <1>1. ASSUME NEW a \in Accounts, NEW n \in News, CanCreate(c, a, n)
        PROVE  Good(Created(c, a, n))
    BY <1>0, <1>1, CreatedSound DEF Sound
  <1>2. ASSUME NEW u \in Updates, CanUpdate(c, u.account, u), NEW w \in Updated(c, u.account, u)
        PROVE  Good(w)
    BY <1>0, <1>2, UpdatedSound DEF Sound, Remain
  <1>3. ASSUME NEW a \in Accounts, CanDelete(c, a)
        PROVE  Good([c EXCEPT !.acct[a].state = "deleted"])
    <2>1. a \notin used
      BY <1>3 DEF CanDelete, HasTransactions
    <2> DEFINE w == [c EXCEPT !.acct[a].state = "deleted"]
    <2>2. ChartType(w) /\ (Sound(Chart) => Sound(w)) /\ \A x \in Accounts \ {a} : w.acct[x] = c.acct[x]
      BY <1>0, <1>3, <2>1, DeletedSound DEF Sound
    <2>3. w.acct[a].state = "deleted"
      BY <1>0 DEF ChartType, Rows
    <2>. QED
      BY <1>0, <2>2, <2>3 DEF Remain
  <1>4. ASSUME NEW a \in Accounts \cup {Nil}, NEW w \in WithAdjustment(c, a)
        PROVE  Good(w)
    BY <1>0, AdjustmentSound DEF Sound, Remain
  <1>5. ASSUME NEW x \in Centres, NEW n \in Names, NEW b \in BOOLEAN, NEW w \in WithCentre(c, x, n, b)
        PROVE  Good(w)
    BY <1>0, CentreSound DEF Sound, Remain
  <1>. HIDE DEF Good
  <1>6. CASE CreateAccount(t)
    BY <1>0, <1>1, <1>6 DEF CreateAccount, Good
  <1>7. CASE UpdateAccount(t)
    BY <1>0, <1>2, <1>7 DEF UpdateAccount, Good
  <1>8. CASE DeleteAccount(t)
    BY <1>0, <1>3, <1>8 DEF DeleteAccount, Good
  <1>9. CASE UpdateSettings(t)
    BY <1>0, <1>4, <1>9 DEF UpdateSettings, Good
  <1>10. CASE CreateCentre(t) \/ UpdateCentre(t)
    BY <1>0, <1>5, <1>10 DEF CreateCentre, UpdateCentre, Good
  <1>. QED
    BY <1>6, <1>7, <1>8, <1>9, <1>10 DEF ChartStep

\* What requests on the chart have in hand is a chart, whatever overlaps.
ChartTyped ==
  /\ ChartType(Chart) /\ used \subseteq Accounts
  /\ DOMAIN seen = Txns
  /\ \A t \in Txns : want[t] # Nil => ChartType(want[t])

\* A request that is alone wants a sound chart, and has seen the one there is;
\* the accounts it is going to use are still there.
Sure(t) ==
  /\ want[t] # Nil => seen[t] = Chart /\ Sound(want[t])
  /\ plan[t].of = "insert" => \A a \in Uses(plan[t].new.lines) : acct[a].state = "live"

ChartInv == ChartTyped /\ (~overlapped => Sound(Chart) /\ \A t \in Txns : Sure(t))

LEMMA UsesAccounts ==
  ASSUME NEW s \in Seq(LineRows)
  PROVE  Uses(s) \subseteq Accounts
  <1>1. \A i \in DOMAIN s : s[i] \in LineRows
    BY ElementOfSeq
  <1>. QED
    BY <1>1 DEF Uses, LineRows

LEMMA IdleIsSure ==
  ASSUME InHand', NEW t \in Txns, pc'[t] # "open"
  PROVE  Sure(t)'
  <1>1. plan'[t] = NoPlan /\ want'[t] = Nil
    BY DEF InHand
  <1>. QED
    BY <1>1 DEF Sure, NoPlan

LEMMA PlanChart ==
  ASSUME BookType, InHand, ChartTyped, NEW t \in Txns, Draws(t) \/ Alters(t)
  PROVE  /\ UNCHANGED <<chartVars, used, seen, want>> /\ Sure(t)'
  <1>1. /\ UNCHANGED <<chartVars, used, seen, want>> /\ want[t] = Nil
        /\ plan \in [Txns -> Plans]
    BY PlanOf DEF Prepare, Begin, InHand, BookType
  <1>2. ASSUME plan'[t].of = "insert"
        PROVE  \A a \in Uses(plan'[t].new.lines) : acct[a].state = "live"
    <2>1. ASSUME NEW s, Acceptable(s)
          PROVE  \A a \in Uses(s) : acct[a].state = "live"
      BY <2>1 DEF Acceptable, Postable, Uses
    <2>2. CASE Draft(t)
      <3>1. PICK s \in Shapes : Acceptable(s) /\ plan'[t].new.lines = s
        BY <1>1, <2>2 DEF Draft, Prepare, NoPlan, NoEntry
      <3>. QED
        BY <2>1, <3>1
    <2>3. CASE AutoPost(t)
      <3>1. PICK e \in Entries, s \in Shapes :
              /\ Acceptable(s)
              /\ plan'[t] = [NoPlan EXCEPT !.of = "insert", !.row = e,
                              !.new = [NoEntry EXCEPT !.status = "posted", !.lines = s]]
        BY <1>1, <2>3 DEF AutoPost, Prepare
      <3>2. plan'[t].new.lines = s
        BY <3>1 DEF NoPlan, NoEntry
      <3>. QED
        BY <2>1, <3>1, <3>2
    <2>4. CASE ReverseEntry(t)
      <3>1. plan'[t].of = "reversal"
        BY <1>1, <2>4 DEF ReverseEntry, Prepare, NoPlan
      <3>. QED
        BY <1>2, <3>1
    <2>5. CASE Alters(t)
      <3>1. plan'[t].of \in {"status", "create period", "close period"}
        <4>1. CASE Post(t)
          BY <1>1, <4>1 DEF Post, Prepare, NoPlan
        <4>2. CASE CancelDraft(t)
          <5>1. PICK e \in Entries :
                  plan'[t] = [NoPlan EXCEPT !.of = "status", !.row = e,
                              !.new = [entry[e] EXCEPT !.status = "cancelled"]]
            BY <1>1, <4>2 DEF CancelDraft, Prepare
          <5>. QED
            BY <5>1 DEF NoPlan
        <4>3. CASE CreatePeriod(t)
          BY <1>1, <4>3 DEF CreatePeriod, Prepare, NoPlan
        <4>4. CASE ClosePeriod(t)
          BY <1>1, <4>4 DEF ClosePeriod, Prepare, NoPlan
        <4>. QED
          BY <2>5, <4>1, <4>2, <4>3, <4>4 DEF Alters
      <3>. QED
        BY <1>2, <3>1
    <2>. QED
      BY <2>2, <2>3, <2>4, <2>5 DEF Draws
  <1>. QED
    BY <1>1, <1>2 DEF Sure, chartVars

\* What an entry that is inserted uses.
LEMMA BooksUse ==
  ASSUME Books, NEW t \in Txns, CommitBooks(t)
  PROVE  /\ UNCHANGED <<chartVars, seen, want>>
         /\ \/ used' = used
            \/ /\ plan[t].of = "insert"
               /\ used' = used \cup Uses(plan[t].new.lines)
               /\ Uses(plan[t].new.lines) \subseteq Accounts
  <1>1. plan[t].new.lines \in Seq(LineRows)
    BY DEF Books, BookType, Plans, EntryRows
  <1>. QED
    BY <1>1, UsesAccounts
    DEF CommitBooks, SetStatus, InsertEntry, InsertReversal, InsertPeriod, SetClosed

LEMMA StepChartTyped ==
  ASSUME Books, ChartTyped, NEW t \in Txns, Step(t)
  PROVE  ChartTyped'
  <1> USE DEF ChartTyped
  <1>0. DOMAIN want = Txns
    BY DEF Books, BookType
  <1>1. CASE Draws(t) \/ Alters(t)
    <2>1. UNCHANGED <<acct, centre, adjust, used, seen, want>>
      BY <1>1, PlanChart DEF Books, chartVars
    <2>. QED
      BY <2>1 DEF Chart
  <1>2. CASE CommitBooks(t)
    <2>1. UNCHANGED <<acct, centre, adjust, seen, want>> /\ used' \subseteq Accounts
      BY <1>2, BooksUse DEF chartVars
    <2>. QED
      BY <2>1 DEF Chart
  <1>3. CASE ChartStep(t)
    <2>1. PICK w : Load(t, w) /\ ChartType(w)
      BY <1>3, StepLoads
    <2>2. UNCHANGED <<acct, centre, adjust, used>>
          /\ seen' = [seen EXCEPT ![t] = Chart] /\ want' = [want EXCEPT ![t] = w]
      BY <2>1 DEF Load, chartVars
    <2>3. Chart' = Chart
      BY <2>2 DEF Chart
    <2>. QED
      BY <1>0, <2>1, <2>2, <2>3
  <1>4. CASE Commit(t)
    <2>1. ChartType(Chart)'
      BY <1>4, FlushType DEF Commit
    <2>2. used' = used /\ seen' = [seen EXCEPT ![t] = Nil] /\ want' = [want EXCEPT ![t] = Nil]
      BY <1>4 DEF Commit, Forget
    <2>. QED
      BY <1>0, <2>1, <2>2
  <1>5. CASE Rollback(t)
    <2>1. UNCHANGED <<acct, centre, adjust, used>>
          /\ seen' = [seen EXCEPT ![t] = Nil] /\ want' = [want EXCEPT ![t] = Nil]
      BY <1>5 DEF Rollback, Forget, chartVars
    <2>2. Chart' = Chart
      BY <2>1 DEF Chart
    <2>. QED
      BY <1>0, <2>1, <2>2
  <1>. QED
    BY <1>1, <1>2, <1>3, <1>4, <1>5, StepCases DEF Quiet

\* Only one request is open after a step, the one that took it, and none if
\* the step ends it.
LEMMA OneOpen ==
  ASSUME BookType, NEW t \in Txns, Step(t), ~overlapped', Solo
  PROVE  /\ ~overlapped
         /\ \A u \in Txns \ {t} : pc'[u] # "open"
         /\ End(t) => pc'[t] # "open"
  <1>1. Begin(t) \/ (End(t) /\ overlapped' = overlapped)
    <2>1. CASE Draws(t) \/ Alters(t)
      BY <2>1, PlanOf DEF Prepare
    <2>2. CASE CommitBooks(t)
      BY <2>2 DEF CommitBooks
    <2>3. CASE Quiet(t)
      BY <2>3, ChartLoads DEF Quiet, Load, Commit, Rollback
    <2>. QED
      BY <2>1, <2>2, <2>3, StepCases
  <1>2. ~overlapped
    BY <1>1 DEF Begin
  <1>. QED
    BY <1>1, <1>2 DEF Begin, End, Solo, Alone, BookType

LEMMA StepChartSure ==
  ASSUME Books, Solo, ChartInv, NEW t \in Txns, Step(t), InHand', ~overlapped'
  PROVE  Sound(Chart)' /\ \A u \in Txns : Sure(u)'
  <1>1. /\ ~overlapped /\ (\A u \in Txns \ {t} : pc'[u] # "open")
        /\ (End(t) => pc'[t] # "open")
    BY OneOpen DEF Books
  <1>2. /\ Sound(Chart) /\ Sure(t) /\ ChartTyped
    BY <1>1 DEF ChartInv
  <1>3. \A u \in Txns \ {t} : Sure(u)'
    BY <1>1, IdleIsSure
  <1>4. End(t) => Sure(t)'
    BY <1>1, IdleIsSure
  <1>5. CASE Draws(t) \/ Alters(t)
    <2>1. UNCHANGED <<acct, centre, adjust, used>> /\ Sure(t)'
      BY <1>2, <1>5, PlanChart DEF Books, chartVars
    <2>2. Chart' = Chart
      BY <2>1 DEF Chart
    <2>. QED
      BY <1>2, <1>3, <2>1, <2>2 DEF Sound
  <1>6. CASE CommitBooks(t)
    <2>1. UNCHANGED <<acct, centre, adjust>> /\ End(t)
      BY <1>6, BooksUse DEF chartVars, CommitBooks
    <2>2. Chart' = Chart
      BY <2>1 DEF Chart
    <2>3. \A a \in used' : acct[a].state = "live"
      BY <1>2, <1>6, BooksUse DEF Sure, Sound, Chart
    <2>4. Sound(Chart)'
      BY <1>2, <2>2, <2>3 DEF Sound, Chart
    <2>. QED
      BY <1>3, <1>4, <2>1, <2>4
  <1>7. CASE ChartStep(t) /\ UNCHANGED plan
    <2>1. PICK w : Load(t, w) /\ ChartType(w) /\ Sound(w)
      BY <1>2, <1>7, StepLoads DEF ChartTyped
    <2>2. UNCHANGED <<acct, centre, adjust, used>>
          /\ seen' = [seen EXCEPT ![t] = Chart] /\ want' = [want EXCEPT ![t] = w]
          /\ pc[t] # "open"
      BY <2>1 DEF Load, Begin, chartVars
    <2>3. Chart' = Chart /\ seen'[t] = Chart /\ want'[t] = w
      BY <1>2, <2>2 DEF Chart, ChartTyped, Books, BookType
    <2>4. Sound(Chart)' /\ Sound(w)'
      BY <1>2, <2>1, <2>2, <2>3 DEF Sound
    <2>5. plan'[t] = NoPlan
      BY <1>7, <2>2 DEF Books, InHand
    <2>6. plan'[t].of # "insert"
      BY <2>5 DEF NoPlan
    <2>7. Sure(t)'
      BY <2>3, <2>4, <2>6 DEF Sure
    <2>. QED
      BY <1>3, <2>4, <2>7
  <1>8. CASE Commit(t)
    <2>1. /\ seen[t] = Chart /\ Sound(want[t]) /\ ChartType(want[t])
          /\ Flush(t) /\ End(t) /\ used' = used
      BY <1>2, <1>8 DEF Commit, Sure, ChartTyped
    <2>2. acct' = want[t].acct /\ centre' = want[t].centre
      BY <1>2, <2>1, FlushAlone DEF ChartTyped
    <2>3. Sound(Chart)'
      BY <2>1, <2>2 DEF Sound, Chart
    <2>. QED
      BY <1>3, <1>4, <2>1, <2>3
  <1>9. CASE Rollback(t)
    <2>1. UNCHANGED <<acct, centre, adjust, used>> /\ End(t)
      BY <1>9 DEF Rollback, chartVars
    <2>2. Chart' = Chart
      BY <2>1 DEF Chart
    <2>. QED
      BY <1>2, <1>3, <1>4, <2>1, <2>2 DEF Sound
  <1>. QED
    BY <1>5, <1>6, <1>7, <1>8, <1>9, StepCases DEF Quiet

LEMMA InitChart == Init => ChartInv
  <1> SUFFICES ASSUME Init PROVE ChartInv
    OBVIOUS
  <1>1. PICK o \in Openings : entry = o.entry /\ centre = o.centre /\ adjust = o.adjust
    BY DEF Init
  <1>2. /\ centre \in [Centres -> CentreRows] /\ Differ(centre) /\ adjust \in Accounts \cup {Nil}
        /\ \A e \in Entries : /\ entry[e].lines \in Seq(LineRows)
                              /\ \A i \in DOMAIN entry[e].lines :
                                   Seeded[entry[e].lines[i].account].state = "live"
    BY <1>1, JournalAssumption DEF EntryRows
  <1>3. /\ acct = Seeded /\ plan = [t \in Txns |-> NoPlan]
        /\ seen = [t \in Txns |-> Nil] /\ want = [t \in Txns |-> Nil]
        /\ used = UNION {Uses(entry[e].lines) : e \in Entries}
    BY DEF Init, ChartInit
  <1>4. used \subseteq Accounts
    BY <1>2, <1>3, UsesAccounts
  <1>5. \A a \in used : acct[a].state = "live"
    BY <1>2, <1>3 DEF Uses
  <1>6. ChartTyped
    BY <1>2, <1>3, <1>4, SeededSound DEF ChartTyped, ChartType, Chart
  <1>7. Sound(Chart)
    BY <1>2, <1>3, <1>5, SeededSound DEF Sound, Chart
  <1>8. \A t \in Txns : Sure(t)
    BY <1>3 DEF Sure, NoPlan
  <1>. QED
    BY <1>6, <1>7, <1>8 DEF ChartInv

LEMMA NextChart == IInv /\ ChartInv /\ [Next]_vars => ChartInv'
  <1> SUFFICES ASSUME IInv, ChartInv, [Next]_vars PROVE ChartInv'
    OBVIOUS
  <1>1. CASE UNCHANGED vars
    <2>1. UNCHANGED <<acct, centre, adjust, used, seen, want, plan, overlapped>>
      BY <1>1 DEF vars
    <2>2. Chart' = Chart
      BY <2>1 DEF Chart
    <2>. QED
      BY <2>1, <2>2 DEF ChartInv, ChartTyped, Sound, Sure
  <1>2. CASE Next
    <2>1. PICK t \in Txns : Step(t)
      BY <1>2 DEF Next
    <2>2. Books /\ Solo /\ ChartTyped
      BY DEF IInv, ChartInv
    <2>3. InHand'
      BY <2>1, <2>2, StepInHand DEF Books
    <2>4. ChartTyped'
      BY <2>1, <2>2, StepChartTyped
    <2>. QED
      BY <2>1, <2>2, <2>3, <2>4, StepChartSure DEF ChartInv
  <1>. QED
    BY <1>1, <1>2

\* The chart is well typed whatever overlaps; as long as requests come one at
\* a time it stays a forest whose levels are depths, accounts with postings
\* are never deleted and no two cost centres share a name.
THEOREM ChartStaysSound == Spec => []ChartSound
  <1>1. IInv /\ ChartInv => ChartSound
    BY DEF IInv, Books, BookType, ChartInv, ChartTyped, ChartType, Chart, Sound,
           ChartSound, TypeOK, Forest, PostingsHaveAccounts, NamesDiffer
  <1>. QED
    BY <1>1, InitChart, NextChart, InvariantHolds, PTL DEF Spec
-----------------------------------------------------------------------------
(***************************************************************************)
(* The lines of the books, and what they net to.                           *)
(***************************************************************************)
\* The lines of all entries in the books, and what they say.
InBooks   == {e \in Entries : Booked(entry[e])}
AllLines  == UNION {{e} \X DOMAIN entry[e].lines : e \in InBooks}
Debited   == [l \in AllLines |-> At(l).debit]
Credited  == [l \in AllLines |-> At(l).credit]
Signed    == [l \in AllLines |-> At(l).debit - At(l).credit]
EntryOf   == [l \in AllLines |-> l[1]]
AccountOf == [l \in AllLines |-> At(l).account]

\* What the proofs need of the state: rows of the right types, entries that
\* balance, accounts that have rows.
Typed == acct \in [Accounts -> Rows] /\ entry \in [Entries -> EntryRows]
Even  == \A e \in Entries : TotalDebit(entry[e].lines) = TotalCredit(entry[e].lines)
Known == \A e \in Entries : \A a \in Uses(entry[e].lines) : acct[a].state # "none"

\* A line of the books is of an entry in the books and has its row and its date.
LEMMA LineIs ==
  ASSUME Typed, NEW l \in AllLines
  PROVE  /\ l[1] \in InBooks /\ l[1] \in Entries /\ l[2] \in DOMAIN entry[l[1]].lines
         /\ At(l) \in LineRows /\ entry[l[1]].date \in Dates
         /\ l \in {l[1]} \X DOMAIN entry[l[1]].lines
  <1>1. PICK e \in InBooks : l \in {e} \X DOMAIN entry[e].lines
    BY DEF AllLines
  <1>2. l[1] = e /\ l[2] \in DOMAIN entry[e].lines
    BY <1>1
  <1>3. e \in Entries /\ entry[e].lines \in Seq(LineRows) /\ entry[e].date \in Dates
    BY DEF InBooks, Typed, EntryRows
  <1>4. entry[e].lines[l[2]] \in LineRows
    BY <1>2, <1>3, ElementOfSeq
  <1>. QED
    BY <1>1, <1>2, <1>3, <1>4 DEF At

\* Each place of an entry in the books is a line.
LEMMA LineOf ==
  ASSUME NEW e \in InBooks, NEW i \in DOMAIN entry[e].lines
  PROVE  <<e, i>> \in AllLines
  BY DEF AllLines

\* There are finitely many.
LEMMA FiniteLines ==
  ASSUME Typed
  PROVE  IsFiniteSet(AllLines)
  <1> DEFINE Of(e) == {e} \X DOMAIN entry[e].lines
             F == {Of(e) : e \in InBooks}
             h == [e \in InBooks |-> Of(e)]
  <1>1. IsFiniteSet(InBooks)
    BY StatementsAssumption, FS_Subset DEF InBooks
  <1>2. h \in Surjection(InBooks, F)
    BY DEF Surjection
  <1>3. IsFiniteSet(F)
    <2>. HIDE DEF h, F
    <2>. QED
      BY <1>1, <1>2, FS_Surjection
  <1>4. ASSUME NEW e \in InBooks
        PROVE  IsFiniteSet(Of(e))
    <2>1. entry[e].lines \in Seq(LineRows)
      BY DEF InBooks, Typed, EntryRows
    <2>2. IsFiniteSet(DOMAIN entry[e].lines)
      BY <2>1, LinesOf
    <2>3. IsFiniteSet({e})
      BY FS_Singleton
    <2>. QED
      BY <2>2, <2>3, FS_Product
  <1>5. \A T \in F : IsFiniteSet(T)
    BY <1>4
  <1>. HIDE DEF F
  <1>6. IsFiniteSet(UNION F)
    BY <1>3, <1>5, FS_UNION
  <1>. QED
    BY <1>6 DEF AllLines, F

\* What the statements sum over the lines L
LEMMA SumsOfLines ==
  ASSUME Typed, NEW L \in SUBSET AllLines
  PROVE  /\ IsFiniteSet(L)
         /\ \A l \in L : Debited[l] \in Int /\ Credited[l] \in Int /\ Signed[l] \in Int
         /\ Debits(L) = SumFunctionOnSet(Debited, L) /\ Debits(L) \in Int
         /\ Credits(L) = SumFunctionOnSet(Credited, L) /\ Credits(L) \in Int
         /\ Net(L) = SumFunctionOnSet(Signed, L) /\ Net(L) \in Int
         /\ Net(L) = Debits(L) - Credits(L)
  <1>1. IsFiniteSet(L)
    BY FiniteLines, FS_Subset
  <1>2. ASSUME NEW l \in L
        PROVE  /\ Debited[l] = At(l).debit /\ Credited[l] = At(l).credit
               /\ Signed[l] = At(l).debit - At(l).credit
               /\ Debited[l] \in Int /\ Credited[l] \in Int /\ Signed[l] \in Int
    <2>1. At(l) \in LineRows
      BY LineIs
    <2>2. At(l).debit \in Nat /\ At(l).credit \in Nat
      BY <2>1 DEF LineRows
    <2>3. Debited[l] = At(l).debit /\ Credited[l] = At(l).credit
          /\ Signed[l] = At(l).debit - At(l).credit
      BY DEF Debited, Credited, Signed
    <2>. QED
      BY <2>2, <2>3
  <1> DEFINE d == [l \in L |-> At(l).debit]
             c == [l \in L |-> At(l).credit]
             n == [l \in L |-> At(l).debit - At(l).credit]
  <1>3. Debits(L) = SumFunctionOnSet(d, L) /\ Credits(L) = SumFunctionOnSet(c, L) /\ Net(L) = SumFunctionOnSet(n, L)
    BY DEF Debits, Credits, Net, SumFunction
  <1>4. \A l \in L : d[l] = Debited[l] /\ c[l] = Credited[l] /\ n[l] = Signed[l]
    BY <1>2
  <1>. HIDE DEF d, c, n
  <1>5. /\ SumFunctionOnSet(d, L) = SumFunctionOnSet(Debited, L)
        /\ SumFunctionOnSet(c, L) = SumFunctionOnSet(Credited, L)
        /\ SumFunctionOnSet(n, L) = SumFunctionOnSet(Signed, L)
    BY <1>1, <1>4, SumOfSame
  <1>6. /\ SumFunctionOnSet(Debited, L) \in Int /\ SumFunctionOnSet(Credited, L) \in Int
        /\ SumFunctionOnSet(Signed, L) \in Int
    BY <1>1, <1>2, SumOfIntegers
  <1>7. \A l \in L : Debited[l] \in Int /\ Credited[l] \in Int /\ Signed[l] = Debited[l] - Credited[l]
    BY <1>2
  <1>8. SumFunctionOnSet(Signed, L) = SumFunctionOnSet(Debited, L) - SumFunctionOnSet(Credited, L)
    BY <1>1, <1>7, SumOfDifferences
  <1>. QED
    BY <1>1, <1>2, <1>3, <1>5, <1>6, <1>8

\* The lines of one entry net to nothing.
LEMMA EntryNets ==
  ASSUME Typed, Even, NEW e \in InBooks
  PROVE  SumFunctionOnSet(Signed, {l \in AllLines : EntryOf[l] = e}) = 0
  <1> DEFINE D == DOMAIN entry[e].lines
             E == {l \in AllLines : EntryOf[l] = e}
             b == [i \in D |-> <<e, i>>]
             d == [i \in D |-> entry[e].lines[i].debit]
             c == [i \in D |-> entry[e].lines[i].credit]
             g == [i \in D |-> d[i] - c[i]]
  <1>1. entry[e].lines \in Seq(LineRows) /\ e \in Entries
    BY DEF InBooks, Typed, EntryRows
  <1>2. IsFiniteSet(D)
    BY <1>1, LinesOf
  <1>3. \A i \in D : d[i] \in Int /\ c[i] \in Int /\ g[i] = d[i] - c[i] /\ g[i] \in Int
    <2>1. \A i \in D : entry[e].lines[i] \in LineRows
      BY <1>1, ElementOfSeq
    <2>. QED
      BY <2>1 DEF LineRows
  <1>4. SumFunctionOnSet(d, D) = SumFunctionOnSet(c, D)
    BY <1>1 DEF Even, TotalDebit, TotalCredit, SumFunction
  <1>5. b \in [D -> E] /\ \A i \in D : b[i] = <<e, i>>
    BY LineOf DEF EntryOf
  <1>6. \A l \in E : \E i \in D : b[i] = l
    <2> SUFFICES ASSUME NEW l \in E PROVE \E i \in D : b[i] = l
      OBVIOUS
    <2>1. l \in AllLines /\ l[1] = e
      BY DEF EntryOf
    <2>2. l \in {e} \X DOMAIN entry[e].lines
      BY <2>1, LineIs
    <2>3. l[2] \in D /\ l = <<e, l[2]>>
      BY <2>2
    <2>. QED
      BY <2>3, <1>5
  <1>7. \A i \in D : g[i] = Signed[b[i]] /\ g[i] \in Int
    <2> SUFFICES ASSUME NEW i \in D PROVE g[i] = Signed[b[i]] /\ g[i] \in Int
      OBVIOUS
    <2>1. b[i] \in AllLines /\ b[i][1] = e /\ b[i][2] = i
      BY <1>5
    <2>2. Signed[b[i]] = entry[e].lines[i].debit - entry[e].lines[i].credit
      BY <2>1 DEF Signed, At
    <2>. QED
      BY <2>2, <1>3
  <1>8. \A i, j \in D : b[i] = b[j] => i = j
    BY <1>5
  <1>. HIDE DEF D, E, b, d, c, g
  <1>9. SumFunctionOnSet(g, D) = SumFunctionOnSet(d, D) - SumFunctionOnSet(c, D)
    BY <1>2, <1>3, SumOfDifferences
  <1>10. SumFunctionOnSet(c, D) \in Int
    BY <1>2, <1>3, SumOfIntegers
  <1>11. Renumbered(D, E, b, Signed, g)
    BY <1>2, <1>5, <1>6, <1>7, <1>8 DEF Renumbered
  <1>12. SumFunctionOnSet(g, D) = SumFunctionOnSet(Signed, E)
    BY <1>11, SumRenumbered
  <1>13. SumFunctionOnSet(Signed, E) = 0
    BY <1>4, <1>9, <1>10, <1>12
  <1>. QED
    BY <1>13 DEF E

\* So do the lines of any entries, and those of any dates.
LEMMA EntriesNet ==
  ASSUME Typed, Even, NEW E \in SUBSET InBooks, NEW L, L = {l \in AllLines : EntryOf[l] \in E}
  PROVE  Net(L) = 0
  <1> DEFINE h == [e \in E |-> 0]
  <1>1. L \in SUBSET AllLines
    OBVIOUS
  <1>2. IsFiniteSet(E)
    BY StatementsAssumption, FS_Subset DEF InBooks
  <1>3. \A e \in E : h[e] = SumFunctionOnSet(Signed, {l \in L : EntryOf[l] = e})
    <2> SUFFICES ASSUME NEW e \in E PROVE h[e] = SumFunctionOnSet(Signed, {l \in L : EntryOf[l] = e})
      OBVIOUS
    <2>1. {l \in L : EntryOf[l] = e} = {l \in AllLines : EntryOf[l] = e}
      OBVIOUS
    <2>. QED
      BY <2>1, EntryNets
  <1>4. IsFiniteSet(L) /\ \A l \in L : Signed[l] \in Int
    BY <1>1, SumsOfLines
  <1>5. \A l \in L : EntryOf[l] \in E
    OBVIOUS
  <1>6. \A e \in E : h[e] = 0
    OBVIOUS
  <1>. HIDE DEF h
  <1>7. Grouped(L, EntryOf, Signed, E, h)
    BY <1>2, <1>3, <1>4, <1>5 DEF Grouped
  <1>8. SumFunctionOnSet(h, E) = SumFunctionOnSet(Signed, L)
    BY <1>7, SumGrouped
  <1>9. SumFunctionOnSet(h, E) = 0
    BY <1>2, <1>6, SumOfZeros
  <1>. QED
    BY <1>1, <1>8, <1>9, SumsOfLines

\* Lines picks from all lines by the dates of their entries.
LEMMA LinesAre ==
  ASSUME Typed, NEW from, NEW to
  PROVE  Lines(from, to) = {l \in AllLines : entry[l[1]].date \in from .. to}
  <1>1. ASSUME NEW l \in Lines(from, to)
        PROVE  l \in AllLines /\ entry[l[1]].date \in from .. to
    <2>1. PICK e \in Entries : /\ Booked(entry[e]) /\ entry[e].date \in from .. to
                               /\ l \in {e} \X DOMAIN entry[e].lines
      BY DEF Lines
    <2>2. l[1] = e
      BY <2>1
    <2>. QED
      BY <2>1, <2>2 DEF AllLines, InBooks
  <1>2. ASSUME NEW l \in AllLines, entry[l[1]].date \in from .. to
        PROVE  l \in Lines(from, to)
    <2>1. l[1] \in InBooks /\ l \in {l[1]} \X DOMAIN entry[l[1]].lines
      BY LineIs
    <2>. QED
      BY <2>1, <1>2 DEF Lines, InBooks
  <1>. QED
    BY <1>1, <1>2

\* Over any dates debits equal credits.
LEMMA LinesNet ==
  ASSUME Typed, Even, NEW from, NEW to
  PROVE  Lines(from, to) \in SUBSET AllLines /\ Net(Lines(from, to)) = 0
  <1> DEFINE E == {e \in InBooks : entry[e].date \in from .. to}
  <1>1. Lines(from, to) = {l \in AllLines : entry[l[1]].date \in from .. to}
    BY LinesAre
  <1>2. \A l \in AllLines : EntryOf[l] = l[1] /\ l[1] \in InBooks
    BY LineIs DEF EntryOf
  <1>3. Lines(from, to) = {l \in AllLines : EntryOf[l] \in E}
    BY <1>1, <1>2
  <1>. HIDE DEF E
  <1>4. E \in SUBSET InBooks
    BY DEF E
  <1>. QED
    BY <1>3, <1>4, EntriesNet
-----------------------------------------------------------------------------
(***************************************************************************)
(* The trial balance: lines by account.                                    *)
(***************************************************************************)
\* The accounts of the lines L, of which there are finitely many
AccountsOf(L) == {At(l).account : l \in L}
OfType(L, ty) == {l \in L : TypeOf(At(l).account) = ty}
OnAny(L, K)  == {l \in L : At(l).account \in K}

\* A sum by accounts is one over their lines.
LEMMA ByAccount ==
  ASSUME Typed, NEW L \in SUBSET AllLines, NEW K, IsFiniteSet(K), NEW f, NEW h,
         \A l \in L : f[l] \in Int,
         \A a \in K : h[a] = SumFunctionOnSet(f, On(L, a))
  PROVE  SumFunctionOnSet(h, K) = SumFunctionOnSet(f, OnAny(L, K))
  <1> DEFINE M == OnAny(L, K)
  <1>1. M \in SUBSET L /\ M \in SUBSET AllLines /\ IsFiniteSet(M)
    BY SumsOfLines, FS_Subset DEF OnAny
  <1>2. \A l \in M : AccountOf[l] \in K /\ f[l] \in Int
    BY DEF AccountOf, OnAny
  <1>3. ASSUME NEW a \in K
        PROVE  h[a] = SumFunctionOnSet(f, {l \in M : AccountOf[l] = a})
    <2>1. {l \in M : AccountOf[l] = a} = On(L, a)
      BY DEF On, AccountOf, OnAny
    <2>. QED
      BY <2>1
  <1>. HIDE DEF M
  <1>4. Grouped(M, AccountOf, f, K, h)
    BY <1>1, <1>2, <1>3 DEF Grouped
  <1>. QED
    BY <1>4, SumGrouped DEF M

\* Lines are on finitely many accounts.
LEMMA FiniteAccounts ==
  ASSUME Typed, NEW L \in SUBSET AllLines
  PROVE  AccountsOf(L) \in SUBSET Accounts /\ IsFiniteSet(AccountsOf(L))
  <1>1. \A l \in L : At(l) \in LineRows
    BY LineIs
  <1>2. AccountsOf(L) \in SUBSET Accounts
    BY <1>1 DEF AccountsOf, LineRows
  <1>. QED
    BY <1>2, StatementsAssumption, FS_Subset

\* Disjoint parts add up.
LEMMA NetOfParts ==
  ASSUME Typed, NEW M \in SUBSET AllLines, NEW N \in SUBSET AllLines, M \cap N = {}
  PROVE  Net(M \cup N) = Net(M) + Net(N)
  <1>1. M \cup N \in SUBSET AllLines
    OBVIOUS
  <1>2. /\ Net(M \cup N) = SumFunctionOnSet(Signed, M \cup N) /\ Net(M) = SumFunctionOnSet(Signed, M)
        /\ Net(N) = SumFunctionOnSet(Signed, N) /\ IsFiniteSet(M) /\ IsFiniteSet(N)
    BY <1>1, SumsOfLines
  <1>3. \A l \in M \cup N : Signed[l] \in Int
    BY <1>1, SumsOfLines
  <1>. QED
    BY <1>2, <1>3, SumOfParts

\* The dates before d and those from d on are all dates.
LEMMA DatesAre ==
  /\ LastDate \in Dates /\ FirstDate \in Dates
  /\ \A d \in Dates : FirstDate <= d /\ d <= LastDate
  <1>1. Dates # {}
    BY JournalAssumption
  <1>2. LastDate \in Dates /\ \A d \in Dates : d <= LastDate
    <2>1. Max(Dates) \in Dates /\ \A y \in Dates : Max(Dates) >= y
      BY <1>1, StatementsAssumption, MaxIs
    <2>. QED
      BY <2>1, StatementsAssumption DEF LastDate
  <1>3. FirstDate \in Dates /\ \A d \in Dates : FirstDate <= d
    <2> DEFINE D == {d - Inception : d \in Dates}
    <2>0. \A d \in Dates : d - Inception \in Nat
      BY StatementsAssumption
    <2>1. D \in SUBSET Nat /\ D # {}
      BY <1>1, <2>0
    <2>2. PICK m \in D : \A k \in D : m <= k
      BY <2>1, LeastElement
    <2>3. PICK c \in Dates : m = c - Inception
      BY <2>2
    <2>4. ASSUME NEW d \in Dates
          PROVE  c <= d
      <3>1. m <= d - Inception
        BY <2>2
      <3>. QED
        BY <3>1, <2>3, StatementsAssumption
    <2>. QED
      BY <2>4 DEF FirstDate, Min
  <1>. QED
    BY <1>2, <1>3

\* The lines up to the last date are those before a date and those from it on.
LEMMA LinesSplit ==
  ASSUME Typed, NEW d \in Dates
  PROVE  /\ Lines(Inception, LastDate) = Lines(Inception, d - 1) \cup Lines(d, LastDate)
         /\ Lines(Inception, d - 1) \cap Lines(d, LastDate) = {}
         /\ Lines(Inception, LastDate) = AllLines
         /\ Lines(FirstDate, LastDate) = AllLines
         /\ Lines(Inception, d - 1) \in SUBSET AllLines /\ Lines(d, LastDate) \in SUBSET AllLines
  <1>1. \A l \in AllLines : entry[l[1]].date \in Dates
    BY LineIs
  <1>2. \A c \in Dates : /\ c \in Int /\ Inception < c /\ c <= LastDate /\ FirstDate <= c
    BY DatesAre, StatementsAssumption
  <1>3. d \in Int /\ LastDate \in Int /\ FirstDate \in Int /\ Inception \in Int /\ d <= LastDate /\ Inception < d
    BY DatesAre, StatementsAssumption
  <1>4. ASSUME NEW c \in Dates
        PROVE  /\ c \in Inception .. LastDate /\ c \in FirstDate .. LastDate
               /\ c \in Inception .. (d - 1) <=> ~(c \in d .. LastDate)
    BY <1>2, <1>3
  <1>5. /\ Lines(Inception, LastDate) = {l \in AllLines : entry[l[1]].date \in Inception .. LastDate}
        /\ Lines(FirstDate, LastDate) = {l \in AllLines : entry[l[1]].date \in FirstDate .. LastDate}
        /\ Lines(Inception, d - 1) = {l \in AllLines : entry[l[1]].date \in Inception .. (d - 1)}
        /\ Lines(d, LastDate) = {l \in AllLines : entry[l[1]].date \in d .. LastDate}
    BY LinesAre
  <1>. QED
    BY <1>1, <1>4, <1>5

-----------------------------------------------------------------------------
\* The trial balance
LEMMA TrialRows ==
  ASSUME Typed, NEW from \in Int, NEW to \in Int
  PROVE  /\ DOMAIN TrialBalance(from, to) = AccountsOf(Lines(Inception, from - 1) \cup Lines(from, to))
         /\ IsFiniteSet(DOMAIN TrialBalance(from, to)) /\ DOMAIN TrialBalance(from, to) \in SUBSET Accounts
         /\ \A a \in DOMAIN TrialBalance(from, to) :
              /\ TrialBalance(from, to)[a].opening = Net(On(Lines(Inception, from - 1), a))
              /\ TrialBalance(from, to)[a].debit = Debits(On(Lines(from, to), a))
              /\ TrialBalance(from, to)[a].credit = Credits(On(Lines(from, to), a))
              /\ TrialBalance(from, to)[a].closing
                   = Net(On(Lines(Inception, from - 1), a)) + Net(On(Lines(from, to), a))
  <1> DEFINE before == Lines(Inception, from - 1)
             during == Lines(from, to)
             row(a) == [opening |-> Net(On(before, a)), debit |-> Debits(On(during, a)),
                        credit  |-> Credits(On(during, a)), closing |-> Net(On(before, a)) + Net(On(during, a))]
  <1>1. before \in SUBSET AllLines /\ during \in SUBSET AllLines
    BY LinesAre
  <1>2. TrialBalance(from, to) = [a \in AccountsOf(before \cup during) |-> row(a)]
    BY DEF TrialBalance, AccountsOf
  <1>3. AccountsOf(before \cup during) \in SUBSET Accounts /\ IsFiniteSet(AccountsOf(before \cup during))
    BY <1>1, FiniteAccounts
  <1>4. \A a \in DOMAIN TrialBalance(from, to) : TrialBalance(from, to)[a] = row(a)
    <2>. HIDE DEF row
    <2>. QED
      BY <1>2
  <1>5. DOMAIN TrialBalance(from, to) = AccountsOf(before \cup during)
    <2>. HIDE DEF row
    <2>. QED
      BY <1>2
  <1>6. \A a : /\ row(a).opening = Net(On(before, a)) /\ row(a).debit = Debits(On(during, a))
               /\ row(a).credit = Credits(On(during, a))
               /\ row(a).closing = Net(On(before, a)) + Net(On(during, a))
    OBVIOUS
  <1>. HIDE DEF row
  <1>. QED
    BY <1>3, <1>4, <1>5, <1>6

\* What its columns add up to over some of its accounts
LEMMA TrialColumns ==
  ASSUME Typed, NEW from \in Int, NEW to \in Int, NEW K \in SUBSET DOMAIN TrialBalance(from, to)
  PROVE  /\ SumFunctionOnSet(Column(TrialBalance(from, to), "opening"), K) = Net(OnAny(Lines(Inception, from - 1), K))
         /\ SumFunctionOnSet(Column(TrialBalance(from, to), "debit"), K) = Debits(OnAny(Lines(from, to), K))
         /\ SumFunctionOnSet(Column(TrialBalance(from, to), "credit"), K) = Credits(OnAny(Lines(from, to), K))
         /\ SumFunctionOnSet(Column(TrialBalance(from, to), "closing"), K)
              = Net(OnAny(Lines(Inception, from - 1), K)) + Net(OnAny(Lines(from, to), K))
  <1> DEFINE rows == TrialBalance(from, to)
             before == Lines(Inception, from - 1)
             during == Lines(from, to)
             o == Column(rows, "opening")
             d == Column(rows, "debit")
             c == Column(rows, "credit")
             z == Column(rows, "closing")
             m == [a \in K |-> Net(On(during, a))]
  <1>1. before \in SUBSET AllLines /\ during \in SUBSET AllLines
    BY LinesAre
  <1>2. IsFiniteSet(K)
    <2>1. IsFiniteSet(DOMAIN TrialBalance(from, to))
      BY TrialRows
    <2>. QED
      BY <2>1, FS_Subset
  <1>3. \A a : On(before, a) \in SUBSET AllLines /\ On(during, a) \in SUBSET AllLines
    BY <1>1 DEF On
  <1>4. /\ \A l \in before : Signed[l] \in Int
        /\ \A l \in during : Signed[l] \in Int
        /\ \A l \in during : Debited[l] \in Int
        /\ \A l \in during : Credited[l] \in Int
    BY <1>1, SumsOfLines
  <1>5. \A a \in K : o[a] = rows[a].opening /\ d[a] = rows[a].debit /\ c[a] = rows[a].credit /\ z[a] = rows[a].closing
    BY DEF Column
  <1>6. \A a \in K : /\ rows[a].opening = Net(On(before, a)) /\ rows[a].debit = Debits(On(during, a))
                     /\ rows[a].credit = Credits(On(during, a))
                     /\ rows[a].closing = Net(On(before, a)) + Net(On(during, a))
    <2> SUFFICES ASSUME NEW a \in K
                 PROVE  /\ rows[a].opening = Net(On(before, a)) /\ rows[a].debit = Debits(On(during, a))
                        /\ rows[a].credit = Credits(On(during, a))
                        /\ rows[a].closing = Net(On(before, a)) + Net(On(during, a))
      OBVIOUS
    <2>1. a \in DOMAIN TrialBalance(from, to)
      OBVIOUS
    <2>. HIDE DEF o, d, c, z, m
    <2>. QED
      BY <2>1, TrialRows
  <1>7. \A a \in K : m[a] = Net(On(during, a))
    OBVIOUS
  <1>. HIDE DEF o, d, c, z, m, rows, before, during
  <1>8. \A a \in K : /\ o[a] = SumFunctionOnSet(Signed, On(before, a))
                     /\ m[a] = SumFunctionOnSet(Signed, On(during, a))
                     /\ d[a] = SumFunctionOnSet(Debited, On(during, a))
                     /\ c[a] = SumFunctionOnSet(Credited, On(during, a))
                     /\ o[a] \in Int /\ m[a] \in Int /\ z[a] = o[a] + m[a]
    BY <1>3, <1>5, <1>6, <1>7, SumsOfLines
  <1>9. /\ SumFunctionOnSet(o, K) = SumFunctionOnSet(Signed, OnAny(before, K))
        /\ SumFunctionOnSet(m, K) = SumFunctionOnSet(Signed, OnAny(during, K))
    BY <1>1, <1>2, <1>4, <1>8, ByAccount
  <1>10. SumFunctionOnSet(d, K) = SumFunctionOnSet(Debited, OnAny(during, K))
    BY <1>1, <1>2, <1>4, <1>8, ByAccount
  <1>11. SumFunctionOnSet(c, K) = SumFunctionOnSet(Credited, OnAny(during, K))
    BY <1>1, <1>2, <1>4, <1>8, ByAccount
  <1>12. SumFunctionOnSet(z, K) = SumFunctionOnSet(o, K) + SumFunctionOnSet(m, K)
    BY <1>2, <1>8, SumOfSums
  <1>13. OnAny(before, K) \in SUBSET AllLines /\ OnAny(during, K) \in SUBSET AllLines
    BY <1>1 DEF OnAny
  <1>14. /\ SumFunctionOnSet(o, K) = Net(OnAny(before, K))
         /\ SumFunctionOnSet(d, K) = Debits(OnAny(during, K))
         /\ SumFunctionOnSet(c, K) = Credits(OnAny(during, K))
         /\ SumFunctionOnSet(z, K) = Net(OnAny(before, K)) + Net(OnAny(during, K))
    BY <1>9, <1>10, <1>11, <1>12, <1>13, SumsOfLines
  <1>. QED
    BY <1>14 DEF o, d, c, z, rows, before, during

\* The trial balance is zero: its columns sum lines by account, and entries balance.
LEMMA TrialZero ==
  ASSUME Typed, Even
  PROVE  BalancesZero
  <1> SUFFICES ASSUME NEW from \in Dates
               PROVE  /\ Total(Column(TrialBalance(from, LastDate), "opening")) = 0
                      /\ Total(Column(TrialBalance(from, LastDate), "debit"))
                           = Total(Column(TrialBalance(from, LastDate), "credit"))
                      /\ Total(Column(TrialBalance(from, LastDate), "closing")) = 0
    BY DEF BalancesZero
  <1> DEFINE rows == TrialBalance(from, LastDate)
             before == Lines(Inception, from - 1)
             during == Lines(from, LastDate)
             K == DOMAIN rows
  <1>1. /\ before \in SUBSET AllLines /\ during \in SUBSET AllLines
        /\ Net(before) = 0 /\ Net(during) = 0
    BY LinesNet
  <1>. from \in Int /\ LastDate \in Int
    BY DatesAre, StatementsAssumption
  <1>2. K = AccountsOf(before \cup during)
    BY TrialRows
  <1>3. OnAny(before, K) = before /\ OnAny(during, K) = during
    BY <1>2 DEF OnAny, AccountsOf
  <1>4. /\ SumFunctionOnSet(Column(rows, "opening"), K) = Net(before)
        /\ SumFunctionOnSet(Column(rows, "debit"), K) = Debits(during)
        /\ SumFunctionOnSet(Column(rows, "credit"), K) = Credits(during)
        /\ SumFunctionOnSet(Column(rows, "closing"), K) = Net(before) + Net(during)
    BY <1>3, TrialColumns
  <1>5. Debits(during) = Credits(during)
    BY <1>1, SumsOfLines
  <1>6. \A f : DOMAIN Column(rows, f) = K
    BY DEF Column
  <1>. HIDE DEF rows, K
  <1>. QED
    BY <1>1, <1>4, <1>5, <1>6 DEF Total, SumFunction, K, rows
-----------------------------------------------------------------------------
(***************************************************************************)
(* Balances by type, the statements of income, position and equity, and    *)
(* the reports by cost centre.                                             *)
(***************************************************************************)
\* Types whose balances are shown with credits positive
CreditTypes == {"revenue", "liability", "equity"}

\* The account of a line has a row, of one of the five types.
LEMMA AccountTypes ==
  ASSUME Typed, Known, NEW l \in AllLines
  PROVE  /\ At(l).account \in Accounts /\ acct[At(l).account].state # "none"
         /\ TypeOf(At(l).account) \in Types
  <1>1. l[1] \in Entries /\ l[2] \in DOMAIN entry[l[1]].lines /\ At(l) \in LineRows
    BY LineIs
  <1>2. At(l).account \in Uses(entry[l[1]].lines)
    BY <1>1 DEF Uses, At
  <1>3. At(l).account \in Accounts
    BY <1>1 DEF LineRows
  <1>4. acct[At(l).account] \in Rows
    BY <1>3 DEF Typed
  <1>. QED
    BY <1>1, <1>2, <1>3, <1>4 DEF Known, TypeOf, Rows

\* The rows of a report by type are the accounts of these types; accounts that
\* are deleted are among them.
LEMMA TypeRows ==
  ASSUME Typed, Known, NEW from \in Int, NEW to \in Int, NEW T \in SUBSET Types
  PROVE  /\ DOMAIN BalancesByType(from, to, T) = {a \in AccountsOf(Lines(from, to)) : TypeOf(a) \in T}
         /\ IsFiniteSet(DOMAIN BalancesByType(from, to, T))
         /\ DOMAIN BalancesByType(from, to, T) \in SUBSET Accounts
         /\ \A a \in DOMAIN BalancesByType(from, to, T) :
              /\ TypeOf(a) \in CreditTypes => BalancesByType(from, to, T)[a] = -Net(On(Lines(from, to), a))
              /\ TypeOf(a) \notin CreditTypes => BalancesByType(from, to, T)[a] = Net(On(Lines(from, to), a))
              /\ BalancesByType(from, to, T)[a] \in Int
  <1> DEFINE L == Lines(from, to)
             A == {a \in AccountsOf(L) : TypeOf(a) \in T}
             net(a) == Net(On(L, a))
             row(a) == IF TypeOf(a) \in CreditTypes THEN -net(a) ELSE net(a)
             B == BalancesByType(from, to, T)
  <1>1. L \in SUBSET AllLines
    BY LinesAre
  <1>2. AccountsOf(L) \in SUBSET Accounts /\ IsFiniteSet(AccountsOf(L))
    BY <1>1, FiniteAccounts
  <1>3. A = AccountsOf(L) \cap OfTypes(T)
    <2>1. \A a \in AccountsOf(L) : a \in Accounts /\ acct[a].state # "none"
      BY <1>1, AccountTypes DEF AccountsOf
    <2>. QED
      BY <2>1 DEF OfTypes
  <1>4. B = [a \in AccountsOf(L) \cap OfTypes(T) |-> row(a)]
    BY DEF BalancesByType, AccountsOf, CreditTypes
  <1>5. IsFiniteSet(A) /\ A \in SUBSET Accounts
    BY <1>2, FS_Subset
  <1>6. \A a : net(a) \in Int
    <2>1. \A a : On(L, a) \in SUBSET AllLines
      BY <1>1 DEF On
    <2>. QED
      BY <2>1, SumsOfLines
  <1>. HIDE DEF L, A, net, B
  <1>7. DOMAIN B = A /\ \A a \in A : B[a] = row(a)
    BY <1>3, <1>4
  <1>8. \A a \in A : /\ TypeOf(a) \in CreditTypes => B[a] = -net(a)
                     /\ TypeOf(a) \notin CreditTypes => B[a] = net(a)
                     /\ B[a] \in Int
    BY <1>6, <1>7
  <1>. QED
    BY <1>5, <1>7, <1>8 DEF A, B, net, L

\* What rows of one type add up to
LEMMA TypeSum ==
  ASSUME Typed, Known, NEW from \in Int, NEW to \in Int, NEW T \in SUBSET Types, NEW ty \in T,
         NEW K \in SUBSET DOMAIN BalancesByType(from, to, T), \A a \in K : TypeOf(a) = ty
  PROVE  /\ ty \in CreditTypes =>
              SumFunctionOnSet(BalancesByType(from, to, T), K) = -Net(OnAny(Lines(from, to), K))
         /\ ty \notin CreditTypes =>
              SumFunctionOnSet(BalancesByType(from, to, T), K) = Net(OnAny(Lines(from, to), K))
  <1> DEFINE L == Lines(from, to)
             B == BalancesByType(from, to, T)
             g == [a \in K |-> Net(On(L, a))]
  <1>1. L \in SUBSET AllLines
    BY LinesAre
  <1>2. IsFiniteSet(K)
    <2>1. IsFiniteSet(DOMAIN BalancesByType(from, to, T))
      BY TypeRows
    <2>. QED
      BY <2>1, FS_Subset
  <1>3. \A a : On(L, a) \in SUBSET AllLines
    BY <1>1 DEF On
  <1>4. ASSUME NEW a \in K
        PROVE  /\ TypeOf(a) \in CreditTypes => B[a] = -Net(On(L, a))
               /\ TypeOf(a) \notin CreditTypes => B[a] = Net(On(L, a))
    <2>. HIDE DEF g
    <2>1. a \in DOMAIN BalancesByType(from, to, T)
      OBVIOUS
    <2>2. \A x \in DOMAIN BalancesByType(from, to, T) :
            /\ TypeOf(x) \in CreditTypes => BalancesByType(from, to, T)[x] = -Net(On(Lines(from, to), x))
            /\ TypeOf(x) \notin CreditTypes => BalancesByType(from, to, T)[x] = Net(On(Lines(from, to), x))
      BY TypeRows
    <2>. QED
      BY <2>1, <2>2
  <1>5. \A a \in K : g[a] = Net(On(L, a))
    OBVIOUS
  <1>6. \A l \in L : Signed[l] \in Int
    BY <1>1, SumsOfLines
  <1>. HIDE DEF L, B, g
  <1>7. \A a \in K : g[a] = SumFunctionOnSet(Signed, On(L, a)) /\ g[a] \in Int
    BY <1>3, <1>5, SumsOfLines
  <1>8. SumFunctionOnSet(g, K) = SumFunctionOnSet(Signed, OnAny(L, K))
    BY <1>1, <1>2, <1>6, <1>7, ByAccount
  <1>9. OnAny(L, K) \in SUBSET AllLines
    BY <1>1 DEF OnAny
  <1>10. SumFunctionOnSet(g, K) = Net(OnAny(L, K)) /\ Net(OnAny(L, K)) \in Int
    BY <1>8, <1>9, SumsOfLines
  <1>11. CASE ty \in CreditTypes
    <2>1. \A a \in K : g[a] \in Int /\ B[a] = (-1) * g[a]
      BY <1>4, <1>5, <1>7, <1>11
    <2>2. SumFunctionOnSet(B, K) = (-1) * SumFunctionOnSet(g, K)
      BY <1>2, <2>1, SumScaled
    <2>. QED
      BY <1>10, <1>11, <2>2 DEF B, L
  <1>12. CASE ty \notin CreditTypes
    <2>1. \A a \in K : B[a] = g[a]
      BY <1>4, <1>5, <1>12
    <2>2. SumFunctionOnSet(B, K) = SumFunctionOnSet(g, K)
      BY <1>2, <2>1, SumOfSame
    <2>. QED
      BY <1>10, <1>12, <2>2 DEF B, L
  <1>. QED
    BY <1>11, <1>12

\* and all of its rows.
LEMMA TypeTotal ==
  ASSUME Typed, Known, NEW from \in Int, NEW to \in Int, NEW T \in SUBSET Types, NEW ty \in T,
         NEW K, K = {a \in DOMAIN BalancesByType(from, to, T) : TypeOf(a) = ty}
  PROVE  /\ ty \in CreditTypes =>
              SumFunctionOnSet(BalancesByType(from, to, T), K) = -Net(OfType(Lines(from, to), ty))
         /\ ty \notin CreditTypes =>
              SumFunctionOnSet(BalancesByType(from, to, T), K) = Net(OfType(Lines(from, to), ty))
         /\ Net(OfType(Lines(from, to), ty)) \in Int
  <1>1. DOMAIN BalancesByType(from, to, T) = {a \in AccountsOf(Lines(from, to)) : TypeOf(a) \in T}
    BY TypeRows
  <1>2. OnAny(Lines(from, to), K) = OfType(Lines(from, to), ty)
    BY <1>1 DEF OnAny, OfType, AccountsOf
  <1>3. K \in SUBSET DOMAIN BalancesByType(from, to, T) /\ \A a \in K : TypeOf(a) = ty
    OBVIOUS
  <1>4. OfType(Lines(from, to), ty) \in SUBSET AllLines
    BY LinesAre DEF OfType
  <1>5. Net(OfType(Lines(from, to), ty)) \in Int
    BY <1>4, SumsOfLines
  <1>. QED
    BY <1>2, <1>3, <1>5, TypeSum

\* The rows of one type alone come to what its lines net to.
LEMMA TypeAlone ==
  ASSUME Typed, Known, NEW from \in Int, NEW to \in Int, NEW ty \in Types
  PROVE  /\ ty \in CreditTypes =>
              Total(BalancesByType(from, to, {ty})) = -Net(OfType(Lines(from, to), ty))
         /\ ty \notin CreditTypes =>
              Total(BalancesByType(from, to, {ty})) = Net(OfType(Lines(from, to), ty))
         /\ Net(OfType(Lines(from, to), ty)) \in Int
  <1> DEFINE B == BalancesByType(from, to, {ty})
  <1>1. {ty} \in SUBSET Types
    OBVIOUS
  <1>2. DOMAIN B = {a \in AccountsOf(Lines(from, to)) : TypeOf(a) \in {ty}}
    BY <1>1, TypeRows
  <1>3. DOMAIN B = {a \in DOMAIN B : TypeOf(a) = ty}
    BY <1>2
  <1>4. Total(B) = SumFunctionOnSet(B, DOMAIN B)
    BY DEF Total, SumFunction
  <1>. HIDE DEF B
  <1>. QED
    BY <1>1, <1>3, <1>4, TypeTotal DEF B

\* Every line is of one of the five types.
LEMMA FiveTypes ==
  ASSUME Typed, Known, NEW L \in SUBSET AllLines
  PROVE  /\ Net(L) = Net(OfType(L, "asset")) + Net(OfType(L, "liability")) + Net(OfType(L, "equity"))
                       + Net(OfType(L, "revenue")) + Net(OfType(L, "expense"))
         /\ Net(OfType(L, "asset")) \in Int /\ Net(OfType(L, "liability")) \in Int
         /\ Net(OfType(L, "equity")) \in Int /\ Net(OfType(L, "revenue")) \in Int
         /\ Net(OfType(L, "expense")) \in Int
  <1> DEFINE A == OfType(L, "asset")
             B == OfType(L, "liability")
             C == OfType(L, "equity")
             D == OfType(L, "revenue")
             E == OfType(L, "expense")
  <1>1. /\ A \in SUBSET AllLines /\ B \in SUBSET AllLines /\ C \in SUBSET AllLines
        /\ D \in SUBSET AllLines /\ E \in SUBSET AllLines
    BY DEF OfType
  <1>2. \A l \in L : TypeOf(At(l).account) \in {"asset", "liability", "equity", "revenue", "expense"}
    BY AccountTypes DEF Types
  <1>3. L = (((A \cup B) \cup C) \cup D) \cup E
    BY <1>2 DEF OfType
  <1>4. /\ A \cap B = {} /\ (A \cup B) \cap C = {} /\ ((A \cup B) \cup C) \cap D = {}
        /\ (((A \cup B) \cup C) \cup D) \cap E = {}
    BY DEF OfType
  <1>. HIDE DEF A, B, C, D, E
  <1>5. Net(A \cup B) = Net(A) + Net(B) /\ A \cup B \in SUBSET AllLines
    BY <1>1, <1>4, NetOfParts
  <1>6. Net((A \cup B) \cup C) = Net(A \cup B) + Net(C) /\ (A \cup B) \cup C \in SUBSET AllLines
    BY <1>1, <1>4, <1>5, NetOfParts
  <1>7. Net(((A \cup B) \cup C) \cup D) = Net((A \cup B) \cup C) + Net(D) /\ ((A \cup B) \cup C) \cup D \in SUBSET AllLines
    BY <1>1, <1>4, <1>6, NetOfParts
  <1>8. Net((((A \cup B) \cup C) \cup D) \cup E) = Net(((A \cup B) \cup C) \cup D) + Net(E)
    BY <1>1, <1>4, <1>7, NetOfParts
  <1>9. Net(A) \in Int /\ Net(B) \in Int /\ Net(C) \in Int /\ Net(D) \in Int /\ Net(E) \in Int
    BY <1>1, SumsOfLines
  <1>10. Net(L) = Net(A) + Net(B) + Net(C) + Net(D) + Net(E)
    BY <1>3, <1>5, <1>6, <1>7, <1>8
  <1>. QED
    BY <1>9, <1>10 DEF A, B, C, D, E

\* What is earned is what the lines on revenue and on expenses net to.
LEMMA Earned ==
  ASSUME Typed, Known, NEW from \in Int, NEW to \in Int
  PROVE  /\ IncomeStatement(from, to).net =
              -Net(OfType(Lines(from, to), "revenue")) - Net(OfType(Lines(from, to), "expense"))
         /\ IncomeStatement(from, to).revenue = -Net(OfType(Lines(from, to), "revenue"))
         /\ Net(OfType(Lines(from, to), "revenue")) \in Int /\ Net(OfType(Lines(from, to), "expense")) \in Int
  <1> DEFINE T == {"revenue", "expense"}
             B == BalancesByType(from, to, T)
             D == DOMAIN B
             R == {a \in D : TypeOf(a) = "revenue"}
             E == {a \in D : TypeOf(a) = "expense"}
             C == Subtree(CogsRoot)
             r == Net(OfType(Lines(from, to), "revenue"))
             x == Net(OfType(Lines(from, to), "expense"))
  <1>1. T \in SUBSET Types
    BY DEF Types
  <1>2. SumFunctionOnSet(B, R) = -r /\ r \in Int
    BY <1>1, TypeTotal DEF CreditTypes
  <1>3. SumFunctionOnSet(B, E) = x /\ x \in Int
    BY <1>1, TypeTotal DEF CreditTypes
  <1>4. IsFiniteSet(D) /\ \A a \in D : B[a] \in Int
    BY <1>1, TypeRows
  <1>5. /\ IncomeStatement(from, to).revenue = SumFunctionOnSet(B, R)
        /\ IncomeStatement(from, to).net =
             SumFunctionOnSet(B, R) - SumFunctionOnSet(B, E \cap C) - SumFunctionOnSet(B, E \ C)
    BY DEF IncomeStatement
  <1>6. /\ E = (E \cap C) \cup (E \ C) /\ (E \cap C) \cap (E \ C) = {}
        /\ E \cap C \in SUBSET D /\ E \ C \in SUBSET D
    OBVIOUS
  <1>. HIDE DEF B, D, R, E, C, r, x
  <1>7. IsFiniteSet(E \cap C) /\ IsFiniteSet(E \ C)
    BY <1>4, <1>6, FS_Subset
  <1>8. \A a \in (E \cap C) \cup (E \ C) : B[a] \in Int
    BY <1>4, <1>6
  <1>9. SumFunctionOnSet(B, (E \cap C) \cup (E \ C)) = SumFunctionOnSet(B, E \cap C) + SumFunctionOnSet(B, E \ C)
    BY <1>6, <1>7, <1>8, SumOfParts
  <1>10. SumFunctionOnSet(B, E \cap C) \in Int /\ SumFunctionOnSet(B, E \ C) \in Int
    BY <1>7, <1>8, SumOfIntegers
  <1>11. SumFunctionOnSet(B, E) = SumFunctionOnSet(B, E \cap C) + SumFunctionOnSet(B, E \ C)
    BY <1>6, <1>9
  <1>. QED
    BY <1>2, <1>3, <1>5, <1>10, <1>11 DEF r, x

\* The balance sheet, by type of line
LEMMA SheetIs ==
  ASSUME Typed, Known, NEW date \in Int
  PROVE  LET L == Lines(Inception, date)
             e == -Net(OfType(L, "revenue")) - Net(OfType(L, "expense"))
         IN /\ BalanceSheet(date).assets = Net(OfType(L, "asset"))
            /\ BalanceSheet(date).liabilities = -Net(OfType(L, "liability"))
            /\ BalanceSheet(date).earnings = e
            /\ BalanceSheet(date).equity = -Net(OfType(L, "equity")) + e
  <1>1. Inception \in Int
    BY StatementsAssumption
  <1>2. "asset" \in Types /\ "liability" \in Types /\ "equity" \in Types
    BY DEF Types
  <1>3. /\ Total(BalancesByType(Inception, date, {"asset"})) = Net(OfType(Lines(Inception, date), "asset"))
        /\ Total(BalancesByType(Inception, date, {"liability"})) = -Net(OfType(Lines(Inception, date), "liability"))
        /\ Total(BalancesByType(Inception, date, {"equity"})) = -Net(OfType(Lines(Inception, date), "equity"))
    BY <1>1, <1>2, TypeAlone DEF CreditTypes
  <1>4. IncomeStatement(Inception, date).net =
          -Net(OfType(Lines(Inception, date), "revenue")) - Net(OfType(Lines(Inception, date), "expense"))
    BY <1>1, Earned
  <1>. QED
    BY <1>3, <1>4 DEF BalanceSheet

\* The balance sheet balances: the five types share out lines that net to zero.
LEMMA SheetZero ==
  ASSUME Typed, Known, Even
  PROVE  SheetBalances
  <1> SUFFICES ASSUME NEW d \in Dates
               PROVE  BalanceSheet(d).assets = BalanceSheet(d).liabilities + BalanceSheet(d).equity
    BY DEF SheetBalances
  <1>1. d \in Int
    BY StatementsAssumption
  <1> DEFINE L == Lines(Inception, d)
  <1>2. L \in SUBSET AllLines /\ Net(L) = 0
    BY LinesNet
  <1>3. /\ Net(L) = Net(OfType(L, "asset")) + Net(OfType(L, "liability")) + Net(OfType(L, "equity"))
                      + Net(OfType(L, "revenue")) + Net(OfType(L, "expense"))
        /\ Net(OfType(L, "asset")) \in Int /\ Net(OfType(L, "liability")) \in Int
        /\ Net(OfType(L, "equity")) \in Int /\ Net(OfType(L, "revenue")) \in Int
        /\ Net(OfType(L, "expense")) \in Int
    BY <1>2, FiveTypes
  <1>4. /\ BalanceSheet(d).assets = Net(OfType(L, "asset"))
        /\ BalanceSheet(d).liabilities = -Net(OfType(L, "liability"))
        /\ BalanceSheet(d).equity =
             -Net(OfType(L, "equity")) + (-Net(OfType(L, "revenue")) - Net(OfType(L, "expense")))
    BY <1>1, SheetIs
  <1>. HIDE DEF L
  <1>. QED
    BY <1>2, <1>3, <1>4

\* What lines of one type net to, before and from a date
LEMMA TypeSplit ==
  ASSUME Typed, NEW d \in Dates, NEW ty
  PROVE  /\ Net(OfType(Lines(Inception, LastDate), ty))
              = Net(OfType(Lines(Inception, d - 1), ty)) + Net(OfType(Lines(d, LastDate), ty))
         /\ Net(OfType(Lines(Inception, d - 1), ty)) \in Int /\ Net(OfType(Lines(d, LastDate), ty)) \in Int
  <1> DEFINE A == Lines(Inception, LastDate)
             B == Lines(Inception, d - 1)
             C == Lines(d, LastDate)
  <1>1. A = B \cup C /\ B \cap C = {} /\ B \in SUBSET AllLines /\ C \in SUBSET AllLines
    BY LinesSplit
  <1>. HIDE DEF A, B, C
  <1>2. /\ OfType(A, ty) = OfType(B, ty) \cup OfType(C, ty) /\ OfType(B, ty) \cap OfType(C, ty) = {}
        /\ OfType(B, ty) \in SUBSET AllLines /\ OfType(C, ty) \in SUBSET AllLines
    BY <1>1 DEF OfType
  <1>3. Net(OfType(A, ty)) = Net(OfType(B, ty)) + Net(OfType(C, ty))
    BY <1>2, NetOfParts
  <1>4. Net(OfType(B, ty)) \in Int /\ Net(OfType(C, ty)) \in Int
    BY <1>2, SumsOfLines
  <1>. QED
    BY <1>3, <1>4 DEF A, B, C

\* The changes in equity are those of its lines and the profit.
LEMMA EquityMoves ==
  ASSUME Typed, Known
  PROVE  EquityExplained
  <1> SUFFICES ASSUME NEW d \in Dates
               PROVE  LET q == ChangesInEquity(d, LastDate)
                      IN q.closing = q.opening + q.profit + q.contributions - q.withdrawals + q.other
    BY DEF EquityExplained
  <1> DEFINE B == Lines(Inception, d - 1)
             C == Lines(d, LastDate)
             A == Lines(Inception, LastDate)
             E == OfType(C, "equity")
             own == {l \in E : At(l).account \in Subtree(CapitalRoot)}
             q == ChangesInEquity(d, LastDate)
             n(L, ty) == Net(OfType(L, ty))
  <1>1. d \in Int /\ d - 1 \in Int /\ LastDate \in Int
    BY DatesAre, StatementsAssumption
  <1>2. /\ BalanceSheet(d - 1).equity = -n(B, "equity") + (-n(B, "revenue") - n(B, "expense"))
        /\ BalanceSheet(LastDate).equity = -n(A, "equity") + (-n(A, "revenue") - n(A, "expense"))
    BY <1>1, SheetIs
  <1>3. IncomeStatement(d, LastDate).net = -n(C, "revenue") - n(C, "expense")
    BY <1>1, Earned
  <1>4. /\ q.opening = BalanceSheet(d - 1).equity /\ q.closing = BalanceSheet(LastDate).equity
        /\ q.profit = IncomeStatement(d, LastDate).net
        /\ q.contributions = Credits(own) /\ q.withdrawals = Debits(own) /\ q.other = -Net(E \ own)
    BY DEF ChangesInEquity, OfType
  <1>5. /\ n(A, "equity") = n(B, "equity") + n(C, "equity") /\ n(B, "equity") \in Int /\ n(C, "equity") \in Int
        /\ n(A, "revenue") = n(B, "revenue") + n(C, "revenue") /\ n(B, "revenue") \in Int /\ n(C, "revenue") \in Int
        /\ n(A, "expense") = n(B, "expense") + n(C, "expense") /\ n(B, "expense") \in Int /\ n(C, "expense") \in Int
    BY TypeSplit
  <1>6. /\ own \in SUBSET AllLines /\ E \ own \in SUBSET AllLines /\ own \cap (E \ own) = {}
        /\ E = own \cup (E \ own)
    BY LinesAre DEF OfType
  <1>. HIDE DEF own, E, A, B, C
  <1>7. Net(own \cup (E \ own)) = Net(own) + Net(E \ own)
    BY <1>6, NetOfParts
  <1>8. /\ Net(own) = Debits(own) - Credits(own) /\ Debits(own) \in Int /\ Credits(own) \in Int
        /\ Net(E \ own) \in Int
    BY <1>6, SumsOfLines
  <1>9. n(C, "equity") = Debits(own) - Credits(own) + Net(E \ own)
    BY <1>6, <1>7, <1>8 DEF E
  <1>. HIDE DEF q, n
  <1>10. q.closing = q.opening + q.profit + q.contributions - q.withdrawals + q.other
    BY <1>2, <1>3, <1>4, <1>5, <1>8, <1>9
  <1>. QED
    BY <1>10 DEF q

\* Every line is for one cost centre or for none.
LEMMA CentresAddUp ==
  ASSUME Typed, Known
  PROVE  CentresExplain
  <1> SUFFICES ASSUME NEW d \in Dates
               PROVE  IncomeStatement(d, LastDate).net
                        = SumFunction([x \in Centres \cup {Nil} |-> CentreReport(x, d, LastDate).net])
    BY DEF CentresExplain
  <1> DEFINE K == Centres \cup {Nil}
             L == Lines(d, LastDate)
             Of(x) == {l \in L : At(l).centre = x}
             R == OfType(L, "revenue")
             E == OfType(L, "expense")
             r == [x \in K |-> Net(OfType(Of(x), "revenue"))]
             e == [x \in K |-> Net(OfType(Of(x), "expense"))]
             h == [x \in K |-> CentreReport(x, d, LastDate).net]
             c == [l \in AllLines |-> At(l).centre]
  <1>1. d \in Int /\ LastDate \in Int
    BY DatesAre, StatementsAssumption
  <1>2. L \in SUBSET AllLines /\ R \in SUBSET AllLines /\ E \in SUBSET AllLines
    BY LinesAre DEF OfType
  <1>3. IsFiniteSet(K)
    BY StatementsAssumption, FS_AddElement
  <1>4. \A x \in K : h[x] = -Net(OfType(Of(x), "revenue")) - Net(OfType(Of(x), "expense"))
    BY DEF CentreReport, OfType
  <1>5. \A x \in K : r[x] = Net(OfType(Of(x), "revenue")) /\ e[x] = Net(OfType(Of(x), "expense"))
    OBVIOUS
  <1>6. ASSUME NEW x \in K
        PROVE  /\ OfType(Of(x), "revenue") = {l \in R : c[l] = x} /\ OfType(Of(x), "revenue") \in SUBSET AllLines
               /\ OfType(Of(x), "expense") = {l \in E : c[l] = x} /\ OfType(Of(x), "expense") \in SUBSET AllLines
    BY <1>2 DEF OfType
  <1>7. \A l \in AllLines : c[l] \in K
    BY LineIs DEF LineRows
  <1>. HIDE DEF K, L, Of, R, E, r, e, h, c
  <1>8. ASSUME NEW x \in K
        PROVE  /\ r[x] = SumFunctionOnSet(Signed, {l \in R : c[l] = x})
               /\ e[x] = SumFunctionOnSet(Signed, {l \in E : c[l] = x})
               /\ r[x] \in Int /\ e[x] \in Int /\ h[x] = (-1) * (r[x] + e[x])
    <2>1. /\ Net(OfType(Of(x), "revenue")) = SumFunctionOnSet(Signed, OfType(Of(x), "revenue"))
          /\ Net(OfType(Of(x), "expense")) = SumFunctionOnSet(Signed, OfType(Of(x), "expense"))
          /\ Net(OfType(Of(x), "revenue")) \in Int /\ Net(OfType(Of(x), "expense")) \in Int
      BY <1>6, SumsOfLines
    <2>2. /\ OfType(Of(x), "revenue") = {l \in R : c[l] = x}
          /\ OfType(Of(x), "expense") = {l \in E : c[l] = x}
      BY <1>6
    <2>3. r[x] = Net(OfType(Of(x), "revenue")) /\ e[x] = Net(OfType(Of(x), "expense"))
      BY <1>5
    <2>4. h[x] = -r[x] - e[x] /\ r[x] \in Int /\ e[x] \in Int
      BY <1>4, <2>1, <2>3
    <2>5. h[x] = (-1) * (r[x] + e[x])
      BY <2>4
    <2>6. /\ r[x] = SumFunctionOnSet(Signed, {l \in R : c[l] = x})
          /\ e[x] = SumFunctionOnSet(Signed, {l \in E : c[l] = x})
      BY <2>1, <2>2, <2>3
    <2>. QED
      BY <2>4, <2>5, <2>6
  <1>9. /\ IsFiniteSet(R) /\ \A l \in R : Signed[l] \in Int
        /\ IsFiniteSet(E) /\ \A l \in E : Signed[l] \in Int
    BY <1>2, SumsOfLines
  <1>10. Grouped(R, c, Signed, K, r)
    BY <1>2, <1>3, <1>7, <1>8, <1>9 DEF Grouped
  <1>11. Grouped(E, c, Signed, K, e)
    BY <1>2, <1>3, <1>7, <1>8, <1>9 DEF Grouped
  <1>12. /\ SumFunctionOnSet(r, K) = SumFunctionOnSet(Signed, R)
         /\ SumFunctionOnSet(e, K) = SumFunctionOnSet(Signed, E)
    BY <1>10, <1>11, SumGrouped
  <1>13. /\ SumFunctionOnSet(r, K) = Net(R) /\ SumFunctionOnSet(e, K) = Net(E)
         /\ Net(R) \in Int /\ Net(E) \in Int
    BY <1>2, <1>12, SumsOfLines
  <1> DEFINE s == [x \in K |-> r[x] + e[x]]
  <1>14. \A x \in K : r[x] \in Int /\ e[x] \in Int /\ s[x] = r[x] + e[x]
    BY <1>8
  <1>. HIDE DEF s
  <1>15. ASSUME NEW x \in K
         PROVE  s[x] \in Int /\ h[x] = (-1) * s[x]
    <2>1. h[x] = (-1) * (r[x] + e[x])
      BY <1>8
    <2>2. s[x] = r[x] + e[x] /\ s[x] \in Int
      BY <1>14
    <2>. QED
      BY <2>1, <2>2
  <1>16. SumFunctionOnSet(s, K) = SumFunctionOnSet(r, K) + SumFunctionOnSet(e, K)
    BY <1>3, <1>14, SumOfSums
  <1>17. SumFunctionOnSet(h, K) = (-1) * SumFunctionOnSet(s, K)
    BY <1>3, <1>15, SumScaled
  <1>18. SumFunctionOnSet(h, K) = -Net(R) - Net(E)
    BY <1>13, <1>16, <1>17
  <1>19. IncomeStatement(d, LastDate).net = -Net(R) - Net(E)
    BY <1>1, Earned DEF R, E, L
  <1>20. SumFunction(h) = SumFunctionOnSet(h, K)
    BY DEF SumFunction, h
  <1>. QED
    BY <1>18, <1>19, <1>20 DEF h, K
-----------------------------------------------------------------------------
(***************************************************************************)
(* The ledger of an account: its lines in order, and the balance after     *)
(* each.                                                                   *)
(***************************************************************************)
\* The elements of S in the order of their weights w
Ordered(s, w) == \A i, j \in DOMAIN s : i < j => w[s[i]] <= w[s[j]]

\* A finite set can be put in the order of its weights.
LEMMA OrderExists ==
  ASSUME NEW S, IsFiniteSet(S), NEW w, \A x \in S : w[x] \in Int
  PROVE  \E s \in SetToSeqs(S) : Ordered(s, w)
  <1> DEFINE Q(T) == \E s \in SetToSeqs(T) : Ordered(s, w)
             P == {T \in SUBSET S : Q(T)}
  <1>1. ASSUME NEW T \in SUBSET S, \A U \in SUBSET T : U # T => U \in P
        PROVE  T \in P
    <2>1. IsFiniteSet(T)
      BY FS_Subset
    <2>2. CASE T = {}
      <3>1. Cardinality(T) = 0
        BY <2>2, FS_EmptySet
      <3>2. 1 .. Cardinality(T) = {}
        BY <3>1
      <3> DEFINE s == [i \in {} |-> i]
      <3>3. s \in [1 .. Cardinality(T) -> T] /\ DOMAIN s = {}
        BY <3>2
      <3>4. s \in SetToSeqs(T)
        BY <3>2, <3>3 DEF SetToSeqs
      <3>5. Ordered(s, w)
        BY <3>3 DEF Ordered
      <3>. QED
        BY <3>4, <3>5
    <2>3. CASE T # {}
      <3> DEFINE W == {w[x] : x \in T}
                 h == [x \in T |-> w[x]]
      <3>1. h \in Surjection(T, W)
        BY DEF Surjection
      <3>2. IsFiniteSet(W) /\ W \subseteq Int /\ W # {}
        <4>1. W \subseteq Int /\ W # {}
          BY <2>3
        <4>. HIDE DEF W, h
        <4>. QED
          BY <2>1, <3>1, <4>1, FS_Surjection
      <3>3. PICK z \in W : \A y \in W : z >= y
        <4>. HIDE DEF W
        <4>. QED
          BY <3>2, MaxIs
      <3>4. PICK m \in T : z = w[m]
        BY <3>3
      <3>5. \A x \in T : w[x] <= w[m]
        BY <3>3, <3>4
      <3> DEFINE U == T \ {m}
                 n == Cardinality(U)
      <3>6. Q(U)
        BY <1>1, <3>4
      <3>7. PICK s \in SetToSeqs(U) : Ordered(s, w)
        BY <3>6
      <3>8. IsFiniteSet(U) /\ n \in Nat /\ Cardinality(T) = n + 1
        <4>1. IsFiniteSet(U) /\ Cardinality(U) = Cardinality(T) - 1
          BY <2>1, <3>4, FS_RemoveElement
        <4>2. Cardinality(T) \in Nat /\ Cardinality(U) \in Nat
          BY <2>1, <4>1, FS_CardinalityType
        <4>. QED
          BY <4>1, <4>2
      <3>9. s \in [1 .. n -> U] /\ \A i, j \in 1 .. n : i # j => s[i] # s[j]
        BY <3>7 DEF SetToSeqs
      <3> DEFINE t == [i \in 1 .. n + 1 |-> IF i = n + 1 THEN m ELSE s[i]]
      <3>. HIDE DEF n, Q
      <3>10. ASSUME NEW i \in 1 .. n + 1
             PROVE  /\ i = n + 1 \/ i \in 1 .. n
                    /\ i = n + 1 => t[i] = m
                    /\ i \in 1 .. n => t[i] = s[i] /\ s[i] \in U
        BY <3>8, <3>9
      <3>11. t \in [1 .. n + 1 -> T] /\ DOMAIN t = 1 .. n + 1
        BY <3>10
      <3>. HIDE DEF t
      <3>12. \A i, j \in 1 .. n + 1 : i # j => t[i] # t[j]
        BY <3>8, <3>9, <3>10
      <3>13. ASSUME NEW i \in 1 .. n + 1, NEW j \in 1 .. n + 1, i < j
             PROVE  w[t[i]] <= w[t[j]]
        <4>1. i \in 1 .. n
          BY <3>8, <3>13
        <4>2. CASE j = n + 1
          BY <3>5, <3>10, <4>1, <4>2
        <4>3. CASE j \in 1 .. n
          <5>1. t[i] = s[i] /\ t[j] = s[j] /\ i \in DOMAIN s /\ j \in DOMAIN s
            BY <3>9, <3>10, <4>1, <4>3
          <5>. QED
            BY <3>7, <3>13, <5>1 DEF Ordered
        <4>. QED
          BY <3>10, <4>2, <4>3
      <3>14. t \in SetToSeqs(T)
        BY <3>8, <3>11, <3>12 DEF SetToSeqs
      <3>15. Ordered(t, w)
        BY <3>11, <3>13 DEF Ordered
      <3>. QED
        BY <3>14, <3>15 DEF Q
    <2>. QED
      BY <2>2, <2>3
  <1>. HIDE DEF Q
  <1>2. P \in SUBSET (SUBSET S)
    OBVIOUS
  <1>3. S \in P
    <2>. HIDE DEF P
    <2>. QED
      BY <1>1, <1>2, SmallerSubsets
  <1>. QED
    BY <1>3 DEF Q

\* The balance after each of the lines s
Runs(r, n, o, s) ==
  r = [i \in 0 .. n |-> IF i = 0 THEN o ELSE r[i - 1] + At(s[i]).debit - At(s[i]).credit]

\* What each of n lines s adds to the balance
Amounts(n, s) == [i \in 1 .. n |-> Signed[s[i]]]

\* The balances after each line exist, and the last is the sum of all amounts.
LEMMA RunningIs ==
  ASSUME Typed, NEW n \in Nat, NEW S \in SUBSET AllLines, NEW s \in [1 .. n -> S], NEW o \in Int
  PROVE  /\ \E r : Runs(r, n, o, s)
         /\ \A r : Runs(r, n, o, s) =>
              /\ DOMAIN r = 0 .. n /\ r[0] = o
              /\ \A i \in 0 .. n : r[i] \in Int
              /\ r[n] = o + SumFunctionOnSet(Amounts(n, s), 1 .. n)
  <1> DEFINE f == [i \in 1 .. n |-> Signed[s[i]]]
             g == [i \in 0 .. n |-> o + SumFunctionOnSet(f, 1 .. i)]
  <1>1. ASSUME NEW i \in 1 .. n
        PROVE  /\ f[i] = At(s[i]).debit - At(s[i]).credit /\ f[i] \in Int
               /\ At(s[i]).debit \in Int /\ At(s[i]).credit \in Int
    <2>1. s[i] \in AllLines
      OBVIOUS
    <2>2. At(s[i]) \in LineRows
      BY <2>1, LineIs
    <2>3. At(s[i]).debit \in Int /\ At(s[i]).credit \in Int
      BY <2>2 DEF LineRows
    <2>. QED
      BY <2>1, <2>3 DEF Signed
  <1>2. DOMAIN g = 0 .. n /\ \A i \in 0 .. n : g[i] = o + SumFunctionOnSet(f, 1 .. i)
    OBVIOUS
  <1>. HIDE DEF f, g
  <1>3. g[0] = o
    <2>1. 1 .. 0 = {}
      OBVIOUS
    <2>. QED
      BY <1>2, <2>1, SumOfEmpty
  <1>4. ASSUME NEW i \in 0 .. n
        PROVE  SumFunctionOnSet(f, 1 .. i) \in Int
    <2>1. IsFiniteSet(1 .. i)
      BY FS_Interval
    <2>2. \A j \in 1 .. i : f[j] \in Int
      BY <1>1
    <2>. QED
      BY <2>1, <2>2, SumOfIntegers
  <1>5. ASSUME NEW i \in 1 .. n
        PROVE  g[i] = g[i - 1] + At(s[i]).debit - At(s[i]).credit
    <2>1. i \in 0 .. n /\ i - 1 \in 0 .. n /\ i - 1 \in Int
      OBVIOUS
    <2>2. IsFiniteSet(1 .. i - 1)
      BY <2>1, FS_Interval
    <2>3. i \notin 1 .. i - 1 /\ 1 .. i = (1 .. i - 1) \cup {i}
      OBVIOUS
    <2>4. \A j \in (1 .. i - 1) \cup {i} : f[j] \in Int
      BY <1>1
    <2>5. SumFunctionOnSet(f, 1 .. i) = f[i] + SumFunctionOnSet(f, 1 .. i - 1)
      BY <2>2, <2>3, <2>4, SumWithOne
    <2>6. SumFunctionOnSet(f, 1 .. i - 1) \in Int
      BY <1>4, <2>1
    <2>. QED
      BY <1>1, <1>2, <2>1, <2>5, <2>6
  <1>6. Runs(g, n, o, s)
    <2> DEFINE z == [i \in 0 .. n |-> IF i = 0 THEN o ELSE g[i - 1] + At(s[i]).debit - At(s[i]).credit]
    <2>1. \A i \in 0 .. n : g[i] = z[i]
      BY <1>3, <1>5
    <2>2. g = [i \in 0 .. n |-> g[i]]
      BY <1>2 DEF g
    <2>. QED
      BY <2>1, <2>2 DEF Runs
  <1>7. ASSUME NEW r, Runs(r, n, o, s)
        PROVE  DOMAIN r = 0 .. n /\ \A i \in 0 .. n : r[i] = g[i]
    <2>1. DOMAIN r = 0 .. n
      BY <1>7 DEF Runs
    <2>2. \A i \in 0 .. n : r[i] = (IF i = 0 THEN o ELSE r[i - 1] + At(s[i]).debit - At(s[i]).credit)
      BY <1>7 DEF Runs
    <2> DEFINE T == {i \in 0 .. n : r[i] # g[i]}
    <2>3. CASE T # {}
      <3>1. T \in SUBSET Nat
        OBVIOUS
      <3>2. PICK m \in T : \A k \in T : m <= k
        BY <2>3, <3>1, LeastElement
      <3>3. m # 0
        BY <1>3, <2>2, <3>2
      <3>4. m \in 1 .. n /\ m - 1 \in 0 .. n /\ m - 1 \notin T
        BY <3>2, <3>3
      <3>5. r[m - 1] = g[m - 1]
        BY <3>4
      <3>6. r[m] = g[m]
        BY <1>5, <2>2, <3>3, <3>4, <3>5
      <3>. QED
        BY <3>2, <3>6
    <2>. QED
      BY <2>1, <2>3
  <1>8. \A i \in 0 .. n : g[i] \in Int
    BY <1>2, <1>4
  <1>9. n \in 0 .. n /\ 0 \in 0 .. n
    OBVIOUS
  <1>. QED
    BY <1>2, <1>3, <1>6, <1>7, <1>8, <1>9 DEF f, Amounts

\* A ledger starts from what came before and ends with what its lines add.
LEMMA LedgerIs ==
  ASSUME Typed, NEW a, NEW from \in Int, NEW to \in Int
  PROVE  LET g == GeneralLedger(a, from, to)
         IN /\ g.opening = Net(On(Lines(Inception, from - 1), a)) /\ g.opening \in Int
            /\ g.closing = g.opening + Net(On(Lines(from, to), a))
            /\ g.running \in Seq(Int)
            /\ g.closing = IF Len(g.running) = 0 THEN g.opening ELSE g.running[Len(g.running)]
  <1> DEFINE S == On(Lines(from, to), a)
             o == Net(On(Lines(Inception, from - 1), a))
             w == [l \in AllLines |-> entry[l[1]].date]
             good(s) == \A i, j \in DOMAIN s : i < j => entry[s[i][1]].date <= entry[s[j][1]].date
             lines == CHOOSE s \in SetToSeqs(S) : good(s)
             n == Cardinality(S)
             run(k) == CHOOSE r : Runs(r, k, o, lines)
             g == GeneralLedger(a, from, to)
             f == Amounts(n, lines)
  <1>1. S \in SUBSET AllLines /\ IsFiniteSet(S) /\ n \in Nat
    <2>1. S \in SUBSET AllLines
      BY LinesAre DEF On
    <2>2. IsFiniteSet(S)
      <3>. HIDE DEF S
      <3>. QED
        BY <2>1, SumsOfLines
    <2>. QED
      BY <2>1, <2>2, FS_CardinalityType
  <1>2. o \in Int
    <2>1. On(Lines(Inception, from - 1), a) \in SUBSET AllLines
      BY LinesAre DEF On
    <2>. QED
      BY <2>1, SumsOfLines
  <1>3. g = [opening |-> o, running |-> [i \in DOMAIN lines |-> run(Len(lines))[i]],
             closing |-> run(Len(lines))[Len(lines)]]
    BY DEF GeneralLedger, Runs
  <1>. HIDE DEF S, o, g
  <1>4. \E s \in SetToSeqs(S) : good(s)
    <2>1. \A x \in S : w[x] \in Int /\ w[x] = entry[x[1]].date
      BY <1>1, LineIs, StatementsAssumption
    <2>. HIDE DEF w
    <2>2. PICK s \in SetToSeqs(S) : Ordered(s, w)
      BY <1>1, <2>1, OrderExists
    <2>3. \A i \in DOMAIN s : s[i] \in S
      BY <2>2 DEF SetToSeqs
    <2>4. good(s)
      BY <2>1, <2>2, <2>3 DEF Ordered
    <2>. QED
      BY <2>2, <2>4
  <1>5. lines \in SetToSeqs(S)
    <2>. HIDE DEF good
    <2>. QED
      BY <1>4
  <1>. HIDE DEF lines
  <1>6. lines \in [1 .. n -> S] /\ \A i, j \in 1 .. n : i # j => lines[i] # lines[j]
    BY <1>5 DEF SetToSeqs
  <1>7. lines \in Seq(S) /\ Len(lines) = n /\ DOMAIN lines = 1 .. n
    BY <1>1, <1>6, FunctionIsSeq, LenProperties
  <1>8. IsFiniteSet(1 .. n) /\ Cardinality(1 .. n) = n
    BY <1>1, FS_Interval
  <1>9. \A x \in S : \E i \in 1 .. n : lines[i] = x
    <2>1. lines \in Injection(1 .. n, S)
      BY <1>6 DEF Injection, IsInjective
    <2>. QED
      BY <1>1, <1>6, <1>8, <2>1, FS_Injection DEF Surjection
  <1>10. \A i \in 1 .. n : f[i] = Signed[lines[i]] /\ f[i] \in Int
    <2>1. \A i \in 1 .. n : lines[i] \in S
      BY <1>6
    <2>2. \A l \in S : Signed[l] \in Int
      BY <1>1, SumsOfLines
    <2>. QED
      BY <2>1, <2>2 DEF Amounts
  <1> DEFINE r == run(n)
  <1>11. Runs(r, n, o, lines)
    <2>1. \E x : Runs(x, n, o, lines)
      BY <1>1, <1>2, <1>6, RunningIs
    <2>. QED
      BY <2>1
  <1>12. g = [opening |-> o, running |-> [i \in 1 .. n |-> r[i]], closing |-> r[n]]
    BY <1>3, <1>7
  <1>. HIDE DEF r, run
  <1>13. /\ r[0] = o /\ \A i \in 0 .. n : r[i] \in Int
         /\ r[n] = o + SumFunctionOnSet(f, 1 .. n)
    <2>. HIDE DEF n
    <2>1. \A k : Runs(k, n, o, lines) =>
              /\ DOMAIN k = 0 .. n /\ k[0] = o
              /\ \A i \in 0 .. n : k[i] \in Int
              /\ k[n] = o + SumFunctionOnSet(Amounts(n, lines), 1 .. n)
      BY <1>1, <1>2, <1>6, RunningIs
    <2>. QED
      BY <1>11, <2>1
  <1>. HIDE DEF f, n
  <1>14. Renumbered(1 .. n, S, lines, Signed, f)
    BY <1>6, <1>8, <1>9, <1>10 DEF Renumbered
  <1>15. SumFunctionOnSet(f, 1 .. n) = SumFunctionOnSet(Signed, S)
    BY <1>14, SumRenumbered
  <1>16. SumFunctionOnSet(f, 1 .. n) = Net(S)
    BY <1>1, <1>15, SumsOfLines
  <1> DEFINE z == [i \in 1 .. n |-> r[i]]
  <1>17. /\ z \in [1 .. n -> Int] /\ \A i \in 1 .. n : z[i] = r[i]
    BY <1>1, <1>13
  <1>18. g.opening = o /\ g.closing = r[n] /\ g.running = z
    BY <1>12
  <1>. HIDE DEF z
  <1>19. z \in Seq(Int) /\ Len(z) = n
    BY <1>1, <1>17, FunctionIsSeq, LenProperties
  <1>20. g.closing = IF Len(g.running) = 0 THEN g.opening ELSE g.running[Len(g.running)]
    <2>1. n # 0 => n \in 1 .. n
      BY <1>1
    <2>. QED
      BY <1>13, <1>17, <1>18, <1>19, <2>1
  <1>21. g.closing = g.opening + Net(S)
    BY <1>13, <1>16, <1>18
  <1>. QED
    BY <1>2, <1>18, <1>19, <1>20, <1>21 DEF g, S, o

\* The ledger of an account opens and closes as the trial balance says.
LEMMA LedgersFollow ==
  ASSUME Typed
  PROVE  LedgersAgree
  <1> SUFFICES ASSUME NEW d \in Dates, NEW a \in DOMAIN TrialBalance(d, LastDate)
               PROVE  LET rows == TrialBalance(d, LastDate)
                          g == GeneralLedger(a, d, LastDate)
                          shown == GeneralLedgerTable(a, d, LastDate)
                      IN /\ g.opening = rows[a].opening /\ g.closing = rows[a].closing
                         /\ Listed(a) => shown[1] = g.opening /\ shown[Len(shown)] = rows[a].closing
    BY DEF LedgersAgree
  <1> DEFINE row == TrialBalance(d, LastDate)[a]
             g == GeneralLedger(a, d, LastDate)
             shown == GeneralLedgerTable(a, d, LastDate)
  <1>1. d \in Int /\ LastDate \in Int
    BY DatesAre, StatementsAssumption
  <1>2. /\ row.opening = Net(On(Lines(Inception, d - 1), a))
        /\ row.closing = Net(On(Lines(Inception, d - 1), a)) + Net(On(Lines(d, LastDate), a))
    BY <1>1, TrialRows
  <1>3. /\ g.opening = Net(On(Lines(Inception, d - 1), a)) /\ g.opening \in Int
        /\ g.closing = g.opening + Net(On(Lines(d, LastDate), a))
        /\ g.running \in Seq(Int)
        /\ g.closing = IF Len(g.running) = 0 THEN g.opening ELSE g.running[Len(g.running)]
    BY <1>1, LedgerIs
  <1>4. Listed(a) => shown = <<g.opening>> \o g.running
    BY DEF GeneralLedgerTable
  <1>. HIDE DEF row, g, shown
  <1>5. ASSUME Listed(a)
        PROVE  shown[1] = g.opening /\ shown[Len(shown)] = g.closing
    <2> DEFINE h == <<g.opening>>
               s == g.running
    <2>1. h \in Seq(Int) /\ Len(h) = 1 /\ h[1] = g.opening /\ s \in Seq(Int)
      BY <1>3
    <2>. HIDE DEF h, s
    <2>a. /\ Len(h \o s) = Len(h) + Len(s)
          /\ \A i \in 1 .. Len(h) + Len(s) : (h \o s)[i] = IF i <= Len(h) THEN h[i] ELSE s[i - Len(h)]
      BY <2>1, ConcatProperties, ZenonT(30)
    <2>2. Len(h \o s) = 1 + Len(s) /\ Len(s) \in Nat
      BY <2>1, <2>a, LenProperties
    <2>3. \A i \in 1 .. 1 + Len(s) : (h \o s)[i] = IF i <= 1 THEN h[i] ELSE s[i - 1]
      BY <2>1, <2>a
    <2>4. (h \o s)[1] = h[1]
      BY <2>2, <2>3
    <2>5. CASE Len(s) = 0
      BY <1>3, <1>4, <1>5, <2>1, <2>2, <2>4, <2>5 DEF h, s
    <2>6. CASE Len(s) # 0
      <3>1. (h \o s)[1 + Len(s)] = s[Len(s)]
        BY <2>2, <2>3, <2>6
      <3>. QED
        BY <1>3, <1>4, <1>5, <2>1, <2>2, <2>4, <2>6, <3>1 DEF h, s
    <2>. QED
      BY <2>5, <2>6
  <1>6. g.opening = row.opening /\ g.closing = row.closing
    BY <1>2, <1>3
  <1>. QED
    BY <1>5, <1>6 DEF row, g, shown
-----------------------------------------------------------------------------
(***************************************************************************)
(* What hangs under an account, as the least set closed under it, and the  *)
(* balance under a root.                                                   *)
(***************************************************************************)
\* Induction up to a bound
LEMMA UpTo ==
  ASSUME NEW N \in Nat, NEW T, 0 \in T, \A i \in 1 .. N : i - 1 \in T => i \in T
  PROVE  \A i \in 0 .. N : i \in T
  <1> DEFINE B == {i \in 0 .. N : i \notin T}
  <1>1. CASE B # {}
    <2>1. B \in SUBSET Nat
      OBVIOUS
    <2>2. PICK m \in B : \A k \in B : m <= k
      BY <1>1, <2>1, LeastElement
    <2>3. m \in 1 .. N /\ m - 1 \in 0 .. N /\ m - 1 \notin B
      BY <2>2
    <2>. QED
      BY <2>2, <2>3
  <1>. QED
    BY <1>1

\* A step can be taken any number of times.
StepsFrom(g, X, b, F, N) ==
  g \in [0 .. N -> X] /\ g[0] = b /\ \A i \in 1 .. N : g[i] = F[g[i - 1]]

LEMMA StepsExist ==
  ASSUME NEW X, NEW b \in X, NEW F \in [X -> X], NEW N \in Nat
  PROVE  \E g : StepsFrom(g, X, b, F, N)
  <1> DEFINE Has(n) == \E g \in [0 .. n -> X] : g[0] = b /\ \A i \in 1 .. n : g[i] = F[g[i - 1]]
             T == {n \in 0 .. N : Has(n)}
  <1>1. Has(0)
    <2> DEFINE g == [i \in 0 .. 0 |-> b]
    <2>1. g \in [0 .. 0 -> X] /\ g[0] = b
      OBVIOUS
    <2>2. \A i \in 1 .. 0 : g[i] = F[g[i - 1]]
      OBVIOUS
    <2>. HIDE DEF g
    <2>. QED
      BY <2>1, <2>2
  <1>2. ASSUME NEW n \in 1 .. N, Has(n - 1)
        PROVE  Has(n)
    <2>1. PICK g \in [0 .. n - 1 -> X] : g[0] = b /\ \A i \in 1 .. n - 1 : g[i] = F[g[i - 1]]
      BY <1>2
    <2> DEFINE h == [i \in 0 .. n |-> IF i = n THEN F[g[n - 1]] ELSE g[i]]
    <2>2. g[n - 1] \in X
      OBVIOUS
    <2>3. h \in [0 .. n -> X]
      BY <2>2
    <2>4. h[0] = b
      BY <2>1
    <2>5. ASSUME NEW i \in 1 .. n
          PROVE  h[i] = F[h[i - 1]]
      <3>1. CASE i = n
        BY <3>1
      <3>2. CASE i \in 1 .. n - 1
        BY <2>1, <3>2
      <3>. QED
        BY <3>1, <3>2
    <2>. QED
      BY <2>3, <2>4, <2>5
  <1>. HIDE DEF Has
  <1>3. 0 \in T /\ \A i \in 1 .. N : i - 1 \in T => i \in T
    BY <1>1, <1>2
  <1>. HIDE DEF T
  <1>4. N \in T
    BY <1>3, UpTo
  <1>. QED
    BY <1>4 DEF T, Has, StepsFrom

\* What hangs under the accounts S, one level down
Below(A, S) == S \cup {a \in A : acct[a].parent \in S}

\* Hanging as it is computed, level by level
Grows(g, root, A) ==
  g = [n \in 0 .. Cardinality(A) |-> IF n = 0 THEN {root} \cap A ELSE Below(A, g[n - 1])]

\* Hanging is the least set with the root that nothing hangs under from outside.
LEMMA HangingIs ==
  ASSUME NEW A, IsFiniteSet(A), NEW root
  PROVE  /\ Hanging(root, A) \in SUBSET A /\ {root} \cap A \subseteq Hanging(root, A)
         /\ \A a \in A : acct[a].parent \in Hanging(root, A) => a \in Hanging(root, A)
         /\ \A C : {root} \cap A \subseteq C /\ (\A a \in A : acct[a].parent \in C => a \in C)
                     => Hanging(root, A) \subseteq C
  <1> DEFINE N == Cardinality(A)
             g == CHOOSE x : Grows(x, root, A)
             F == [S \in SUBSET A |-> Below(A, S)]
  <1>1. N \in Nat
    BY FS_CardinalityType
  <1>2. Hanging(root, A) = g[N]
    BY DEF Hanging, Grows, Below
  <1>3. \E x : Grows(x, root, A)
    <2>1. F \in [SUBSET A -> SUBSET A] /\ {root} \cap A \in SUBSET A
      BY DEF Below
    <2> DEFINE X == SUBSET A
               b == {root} \cap A
    <2>. HIDE DEF F, X, b, N
    <2>a. \E x : StepsFrom(x, X, b, F, N)
      <3>1. F \in [X -> X] /\ b \in X
        BY <2>1 DEF X, b
      <3>. QED
        BY <1>1, <3>1, StepsExist
    <2>2. PICK x \in [0 .. N -> SUBSET A] : x[0] = {root} \cap A /\ \A i \in 1 .. N : x[i] = F[x[i - 1]]
      BY <2>a DEF X, b, StepsFrom
    <2> DEFINE y == [n \in 0 .. N |-> IF n = 0 THEN {root} \cap A ELSE Below(A, x[n - 1])]
    <2>b. \A i \in 1 .. N : x[i - 1] \in SUBSET A
      BY <1>1, <2>2
    <2>3. \A i \in 1 .. N : x[i] = Below(A, x[i - 1])
      BY <2>2, <2>b DEF F
    <2>4. \A i \in 0 .. N : x[i] = y[i]
      BY <1>1, <2>2, <2>3
    <2>5. x = y
      BY <2>4
    <2>. QED
      BY <2>5 DEF Grows, N
  <1>4. Grows(g, root, A)
    BY <1>3
  <1>. HIDE DEF g
  <1>5. g[0] = {root} \cap A /\ \A i \in 1 .. N : g[i] = Below(A, g[i - 1])
    <2>1. g = [n \in 0 .. N |-> IF n = 0 THEN {root} \cap A ELSE Below(A, g[n - 1])]
      BY <1>4 DEF Grows
    <2>. HIDE DEF N
    <2>2. \A n \in 0 .. N : g[n] = IF n = 0 THEN {root} \cap A ELSE Below(A, g[n - 1])
      BY <2>1
    <2>. QED
      BY <1>1, <2>2
  <1>. HIDE DEF N
  <1>6. ASSUME NEW C, {root} \cap A \subseteq C, \A a \in A : acct[a].parent \in C => a \in C
        PROVE  g[N] \subseteq C
    <2> DEFINE T == {n \in 0 .. N : g[n] \subseteq C}
    <2>1. 0 \in T
      BY <1>1, <1>5, <1>6
    <2>2. ASSUME NEW i \in 1 .. N, i - 1 \in T
          PROVE  i \in T
      BY <1>5, <1>6, <2>2 DEF Below
    <2>. HIDE DEF T
    <2>3. N \in T
      BY <1>1, <2>1, <2>2, UpTo
    <2>. QED
      BY <2>3 DEF T
  <1>7. g[N] \subseteq A
    BY <1>6
  <1>8. {root} \cap A \subseteq g[N]
    <2> DEFINE T == {n \in 0 .. N : {root} \cap A \subseteq g[n]}
    <2>1. 0 \in T
      BY <1>1, <1>5
    <2>2. ASSUME NEW i \in 1 .. N, i - 1 \in T
          PROVE  i \in T
      BY <1>5, <2>2 DEF Below
    <2>. HIDE DEF T
    <2>3. N \in T
      BY <1>1, <2>1, <2>2, UpTo
    <2>. QED
      BY <2>3 DEF T
  \* It grows until it is closed, and there is not room for more.
  <1>9. \A a \in A : acct[a].parent \in g[N] => a \in g[N]
    <2> DEFINE Large(n) == IsFiniteSet(g[n]) /\ g[n] \subseteq A /\ (Cardinality(g[n]) >= n + 1 \/ Below(A, g[n]) = g[n])
               T == {n \in 0 .. N : Large(n)}
    <2>1. 0 \in T
      <3>1. IsFiniteSet({root} \cap A) /\ {root} \cap A \subseteq A
        BY FS_Subset
      <3>2. CASE root \in A
        <4>1. {root} \cap A = {root} /\ Cardinality({root}) = 1
          BY <3>2, FS_Singleton
        <4>. QED
          BY <1>1, <1>5, <3>1, <4>1
      <3>3. CASE root \notin A
        <4>1. g[0] = {}
          BY <1>5, <3>3
        <4>2. Below(A, {}) = {}
          BY DEF Below
        <4>. QED
          BY <1>1, <1>5, <3>1, <4>1, <4>2
      <3>. QED
        BY <3>2, <3>3
    <2>2. ASSUME NEW i \in 1 .. N, i - 1 \in T
          PROVE  i \in T
      <3> DEFINE S == g[i - 1]
                 R == g[i]
      <3>1. /\ IsFiniteSet(S) /\ S \subseteq A /\ R = Below(A, S)
            /\ Cardinality(S) >= i \/ Below(A, S) = S
        BY <1>5, <2>2
      <3>2. R \subseteq A /\ S \subseteq R /\ IsFiniteSet(R)
        BY <3>1, FS_Subset DEF Below
      <3>. HIDE DEF S, R
      <3>3. CASE R = S
        <4>1. Below(A, R) = R
          BY <3>1, <3>3
        <4>. QED
          BY <3>2, <4>1 DEF R
      <3>4. CASE R # S
        <4>1. Cardinality(S) >= i
          BY <3>1, <3>4
        <4>2. Cardinality(S) < Cardinality(R)
          <5>1. Cardinality(S) <= Cardinality(R) /\ (Cardinality(S) = Cardinality(R) => S = R)
            BY <3>2, FS_Subset
          <5>2. Cardinality(S) \in Nat /\ Cardinality(R) \in Nat
            BY <3>1, <3>2, FS_CardinalityType
          <5>. QED
            BY <3>4, <5>1, <5>2
        <4>3. Cardinality(R) >= i + 1
          <5>1. Cardinality(S) \in Nat /\ Cardinality(R) \in Nat
            BY <3>1, <3>2, FS_CardinalityType
          <5>. QED
            BY <4>1, <4>2, <5>1
        <4>. QED
          BY <3>2, <4>3 DEF R
      <3>. QED
        BY <3>3, <3>4
    <2>. HIDE DEF T
    <2>3. N \in T
      BY <1>1, <2>1, <2>2, UpTo
    <2>4. IsFiniteSet(g[N]) /\ g[N] \subseteq A /\ (Cardinality(g[N]) >= N + 1 \/ Below(A, g[N]) = g[N])
      BY <2>3 DEF T
    <2>5. Cardinality(g[N]) <= N /\ Cardinality(g[N]) \in Nat
      BY <2>4, FS_Subset, FS_CardinalityType DEF N
    <2>6. Below(A, g[N]) = g[N]
      BY <1>1, <2>4, <2>5
    <2>. QED
      BY <2>6 DEF Below
  <1>. QED
    BY <1>2, <1>6, <1>7, <1>8, <1>9

\* As long as requests come one at a time, the chart is a forest and the
\* accounts of the books are in it.
Rooted == ~overlapped =>
  IsForest(acct) /\ \A e \in Entries : \A a \in Uses(entry[e].lines) : acct[a].state = "live"

\* In a forest it makes no difference to live accounts whether the deleted are kept.
LEMMA LiveSubtree ==
  ASSUME Typed, IsForest(acct), NEW root \in Accounts, acct[root].state = "live",
         NEW x \in Accounts, acct[x].state = "live"
  PROVE  x \in Hanging(root, {a \in Accounts : acct[a].state # "none"}) <=> x \in Subtree(root)
  <1> DEFINE A == {a \in Accounts : acct[a].state # "none"}
             B == {a \in Accounts : Listed(a)}
             S == Hanging(root, A)
             T == Hanging(root, B)
  <1>1. IsFiniteSet(A) /\ IsFiniteSet(B)
    BY StatementsAssumption, FS_Subset
  <1>2. B \subseteq A /\ root \in A /\ root \in B /\ x \in B
    BY DEF Listed
  <1>3. T = Subtree(root)
    BY DEF Subtree
  <1>4. A = B \cup (A \ B)
    BY <1>2
  <1>5. \A a \in B : acct[a].parent = Nil \/ acct[a].parent \in B
    <2> SUFFICES ASSUME NEW a \in B PROVE acct[a].parent = Nil \/ acct[a].parent \in B
      OBVIOUS
    <2>1. a \in Accounts /\ acct[a].state = "live"
      BY DEF Listed
    <2>2. acct[a].parent \in Accounts \cup {Nil}
      BY <2>1 DEF Typed, Rows
    <2>3. acct[a].parent # Nil => acct[acct[a].parent].state = "live"
      BY <2>1 DEF IsForest
    <2>. QED
      BY <2>2, <2>3 DEF Listed
  <1>6. Nil \notin A
    BY ChartAssumption
  <1>. HIDE DEF A, B, S, T
  <1>7. /\ S \in SUBSET A /\ {root} \cap A \subseteq S
        /\ \A a \in A : acct[a].parent \in S => a \in S
        /\ \A C : {root} \cap A \subseteq C /\ (\A a \in A : acct[a].parent \in C => a \in C) => S \subseteq C
    BY <1>1, HangingIs DEF S
  <1>8. /\ T \in SUBSET B /\ {root} \cap B \subseteq T
        /\ \A a \in B : acct[a].parent \in T => a \in T
        /\ \A C : {root} \cap B \subseteq C /\ (\A a \in B : acct[a].parent \in C => a \in C) => T \subseteq C
    BY <1>1, HangingIs DEF T
  <1>9. T \subseteq S
    <2>1. {root} \cap B \subseteq S /\ \A a \in B : acct[a].parent \in S => a \in S
      BY <1>2, <1>7
    <2>. QED
      BY <1>8, <2>1
  <1>10. S \subseteq T \cup (A \ B)
    <2> DEFINE C == T \cup (A \ B)
    <2>1. {root} \cap A \subseteq C
      BY <1>2, <1>8
    <2>2. ASSUME NEW a \in A, acct[a].parent \in C
          PROVE  a \in C
      <3>1. CASE a \in B
        <4>1. acct[a].parent \in B
          BY <1>5, <1>6, <1>8, <1>2, <2>2, <3>1
        <4>2. acct[a].parent \in T
          BY <2>2, <4>1
        <4>. QED
          BY <1>8, <3>1, <4>2
      <3>2. CASE a \notin B
        BY <2>2, <3>2
      <3>. QED
        BY <3>1, <3>2
    <2>. HIDE DEF C
    <2>3. S \subseteq C
      BY <1>7, <2>1, <2>2
    <2>. QED
      BY <2>3 DEF C
  <1>11. x \in S <=> x \in T
    BY <1>2, <1>9, <1>10
  <1>. QED
    BY <1>3, <1>11 DEF S, A

\* The balance under a root is the sum of the trial balance over its subtree.
LEMMA RootsFollow ==
  ASSUME Typed, Rooted
  PROVE  RootsAgree
  <1> DEFINE rows == TrialBalance(FirstDate, LastDate)
  <1> SUFFICES ASSUME NEW a \in Accounts, Listed(a), ~overlapped
               PROVE  BalanceUnder(a, LastDate)
                        = SumFunctionOnSet(Column(rows, "closing"), DOMAIN rows \cap Subtree(a))
    BY DEF RootsAgree
  <1> DEFINE K == DOMAIN rows \cap Subtree(a)
             before == Lines(Inception, FirstDate - 1)
             during == Lines(FirstDate, LastDate)
             S == Hanging(a, {x \in Accounts : acct[x].state # "none"})
             M == {l \in AllLines : At(l).account \in S}
  <1>1. FirstDate \in Int /\ LastDate \in Int
    BY DatesAre, StatementsAssumption
  <1>2. K \in SUBSET DOMAIN TrialBalance(FirstDate, LastDate)
    OBVIOUS
  <1>3. SumFunctionOnSet(Column(rows, "closing"), K) = Net(OnAny(before, K)) + Net(OnAny(during, K))
    BY <1>1, <1>2, TrialColumns
  <1>4. /\ AllLines = before \cup during /\ before \cap during = {}
        /\ before \in SUBSET AllLines /\ during \in SUBSET AllLines
        /\ Lines(Inception, LastDate) = AllLines
    BY DatesAre, LinesSplit
  <1>5. DOMAIN rows = AccountsOf(before \cup during)
    BY <1>1, TrialRows
  <1>6. BalanceUnder(a, LastDate) = Net(M)
    BY <1>4 DEF BalanceUnder
  <1>7. ASSUME NEW l \in AllLines
        PROVE  At(l).account \in S <=> At(l).account \in K
    <2>1. l[1] \in Entries /\ l[2] \in DOMAIN entry[l[1]].lines /\ At(l) \in LineRows
      BY LineIs
    <2>2. At(l).account \in Uses(entry[l[1]].lines) /\ At(l).account \in Accounts
      BY <2>1 DEF Uses, At, LineRows
    <2>3. acct[At(l).account].state = "live" /\ IsForest(acct)
      BY <2>1, <2>2 DEF Rooted
    <2>4. At(l).account \in DOMAIN rows
      BY <1>4, <1>5 DEF AccountsOf
    <2>5. acct[a].state = "live"
      BY DEF Listed
    <2>6. At(l).account \in S <=> At(l).account \in Subtree(a)
      BY <2>2, <2>3, <2>5, LiveSubtree
    <2>. QED
      BY <2>4, <2>6
  <1>. HIDE DEF K, before, during, S
  <1>8. /\ M = OnAny(before, K) \cup OnAny(during, K) /\ OnAny(before, K) \cap OnAny(during, K) = {}
        /\ OnAny(before, K) \in SUBSET AllLines /\ OnAny(during, K) \in SUBSET AllLines
    BY <1>4, <1>7 DEF OnAny
  <1>9. Net(M) = Net(OnAny(before, K)) + Net(OnAny(during, K))
    BY <1>8, NetOfParts
  <1>. QED
    BY <1>3, <1>6, <1>9 DEF K
-----------------------------------------------------------------------------
(***************************************************************************)
(* The printed tables: rows rolled up to a level add up to the rows.       *)
(***************************************************************************)
\* Rows that are rolled up keep their sum.
LEMMA RolledUp ==
  ASSUME NEW rows, IsFiniteSet(DOMAIN rows), \A a \in DOMAIN rows : rows[a] \in Int, NEW level
  PROVE  /\ IsFiniteSet(DOMAIN RollupRows(rows, level))
         /\ DOMAIN RollupRows(rows, level) = {Rollup(a, level) : a \in DOMAIN rows}
         /\ \A x \in DOMAIN RollupRows(rows, level) : RollupRows(rows, level)[x] \in Int
         /\ Total(RollupRows(rows, level)) = SumFunctionOnSet(rows, DOMAIN rows)
  <1> DEFINE D == DOMAIN rows
             up(a) == Rollup(a, level)
             k == [a \in D |-> up(a)]
             K == {up(a) : a \in D}
             h == RollupRows(rows, level)
  <1>. HIDE DEF up
  <1>1. k \in Surjection(D, K) /\ \A a \in D : k[a] \in K
    BY DEF Surjection
  <1>2. h = [x \in K |-> SumFunctionOnSet(rows, {a \in D : up(a) = x})]
    BY DEF RollupRows, up
  <1>3. \A x \in K : h[x] = SumFunctionOnSet(rows, {a \in D : up(a) = x})
    BY <1>2
  <1>4. \A x \in K : {a \in D : up(a) = x} = {a \in D : k[a] = x}
    OBVIOUS
  <1>5. DOMAIN h = K
    BY <1>2
  <1>. HIDE DEF K, k, h, D
  <1>6. IsFiniteSet(K)
    BY <1>1, FS_Surjection DEF D
  <1>7. \A x \in K : h[x] = SumFunctionOnSet(rows, {a \in D : k[a] = x})
    BY <1>3, <1>4
  <1>8. Grouped(D, k, rows, K, h)
    BY <1>1, <1>6, <1>7 DEF Grouped, D
  <1>9. SumFunctionOnSet(h, K) = SumFunctionOnSet(rows, D)
    BY <1>8, SumGrouped
  <1>10. ASSUME NEW x \in K
         PROVE  h[x] \in Int
    <2> DEFINE G == {a \in D : k[a] = x}
    <2>1. IsFiniteSet(G) /\ \A a \in G : rows[a] \in Int
      BY FS_Subset DEF D
    <2>. HIDE DEF G
    <2>2. SumFunctionOnSet(rows, G) \in Int
      BY <2>1, SumOfIntegers
    <2>. QED
      BY <1>7, <2>2 DEF G
  <1>. QED
    BY <1>5, <1>6, <1>9, <1>10 DEF h, D, Total, SumFunction, K, up

\* In a forest, what is listed is rolled up to the wanted level.
LEMMA RollupLevel ==
  ASSUME Typed, IsForest(acct), NEW a \in Accounts, Listed(a), NEW k \in Int, k >= 1
  PROVE  acct[Rollup(a, k)].level <= k
  <1> DEFINE N == MaxLevel
             step(x) == IF acct[x].level > k /\ acct[x].parent # Nil /\ Listed(acct[x].parent)
                          THEN acct[x].parent ELSE x
             walks(g) == g = [n \in 0 .. N |-> IF n = 0 THEN a ELSE step(g[n - 1])]
             g == CHOOSE x : walks(x)
             F == [x \in Accounts |-> step(x)]
  <1>1. N \in Nat
    BY ChartAssumption
  <1>2. Rollup(a, k) = g[N]
    BY DEF Rollup
  <1>. HIDE DEF N
  <1>3. \E x : walks(x)
    <2>1. \A x \in Accounts : step(x) \in Accounts
      <3> SUFFICES ASSUME NEW x \in Accounts PROVE step(x) \in Accounts
        OBVIOUS
      <3>1. acct[x] \in Rows
        BY DEF Typed
      <3>2. acct[x].parent \in Accounts \cup {Nil}
        BY <3>1 DEF Rows
      <3>. QED
        BY <3>2
    <2>2. F \in [Accounts -> Accounts] /\ \A x \in Accounts : F[x] = step(x)
      BY <2>1
    <2>. HIDE DEF F, step
    <2>3. PICK x : StepsFrom(x, Accounts, a, F, N)
      BY <1>1, <2>2, StepsExist
    <2>4. /\ x \in [0 .. N -> Accounts] /\ x[0] = a /\ \A i \in 1 .. N : x[i] = F[x[i - 1]]
      BY <2>3 DEF StepsFrom
    <2>5. ASSUME NEW i \in 1 .. N
          PROVE  x[i] = step(x[i - 1])
      <3>1. i - 1 \in 0 .. N
        BY <1>1
      <3>. QED
        BY <2>2, <2>4, <3>1
    <2> DEFINE y == [n \in 0 .. N |-> IF n = 0 THEN a ELSE step(x[n - 1])]
    <2>6. \A i \in 0 .. N : x[i] = y[i]
      BY <1>1, <2>4, <2>5
    <2>7. x = y
      BY <2>4, <2>6
    <2>. QED
      BY <2>7
  <1>4. walks(g)
    <2>. HIDE DEF walks
    <2>. QED
      BY <1>3
  <1>. HIDE DEF g
  <1>5. g[0] = a /\ \A i \in 1 .. N : g[i] = step(g[i - 1])
    <2>. HIDE DEF step
    <2>1. \A n \in 0 .. N : g[n] = IF n = 0 THEN a ELSE step(g[n - 1])
      BY <1>4
    <2>. QED
      BY <1>1, <2>1
  <1> DEFINE lv(x) == acct[x].level
             T == {n \in 0 .. N : /\ g[n] \in Accounts /\ Listed(g[n])
                                  /\ lv(g[n]) <= k \/ lv(g[n]) + n <= N}
  <1>6. \A x \in Accounts : lv(x) \in Int /\ lv(x) >= 1 /\ lv(x) <= N
    <2> SUFFICES ASSUME NEW x \in Accounts PROVE lv(x) \in Int /\ lv(x) >= 1 /\ lv(x) <= N
      OBVIOUS
    <2>1. acct[x] \in Rows
      BY DEF Typed
    <2>2. acct[x].level \in 1 .. MaxLevel
      BY <2>1 DEF Rows
    <2>. QED
      BY <1>1, <2>2 DEF N
  <1>7. 0 \in T
    BY <1>1, <1>5, <1>6
  <1>8. ASSUME NEW i \in 1 .. N, i - 1 \in T
        PROVE  i \in T
    <2> DEFINE x == g[i - 1]
    <2>1. x \in Accounts /\ Listed(x) /\ (lv(x) <= k \/ lv(x) + (i - 1) <= N)
      BY <1>8
    <2>2. g[i] = step(x)
      BY <1>5
    <2>. HIDE DEF x
    <2>3. CASE lv(x) <= k
      <3>1. step(x) = x
        BY <1>6, <2>1, <2>3
      <3>. QED
        BY <2>1, <2>2, <2>3, <3>1
    <2>4. CASE lv(x) > k
      <3>1. acct[x].state = "live"
        BY <2>1 DEF Listed
      <3>2. acct[x].parent # Nil
        BY <1>6, <2>1, <2>4, <3>1 DEF IsForest
      <3> DEFINE p == acct[x].parent
      <3>3. acct[p].state = "live" /\ acct[x].level = acct[p].level + 1
        BY <2>1, <3>1, <3>2 DEF IsForest
      <3>4. acct[x] \in Rows
        BY <2>1 DEF Typed
      <3>5. p \in Accounts
        BY <3>2, <3>4 DEF Rows
      <3>6. Listed(p)
        BY <3>3 DEF Listed
      <3>7. step(x) = p
        BY <2>4, <3>2, <3>6
      <3>8. lv(p) + i <= N
        BY <1>1, <1>6, <2>1, <2>4, <3>3, <3>5
      <3>. QED
        BY <2>2, <3>5, <3>6, <3>7, <3>8
    <2>. QED
      BY <1>6, <2>1, <2>3, <2>4
  <1>. HIDE DEF T
  <1>9. N \in T
    BY <1>1, <1>7, <1>8, UpTo
  <1>10. g[N] \in Accounts /\ (lv(g[N]) <= k \/ lv(g[N]) + N <= N)
    BY <1>9 DEF T
  <1>11. lv(g[N]) <= k
    BY <1>1, <1>6, <1>10
  <1>. QED
    BY <1>2, <1>11

\* Two columns of which one shows what is above zero and one what is below
LEMMA TwoColumns ==
  ASSUME NEW S, IsFiniteSet(S), NEW f, NEW g, NEW h,
         \A x \in S : f[x] \in Int /\ g[x] = (IF f[x] > 0 THEN f[x] ELSE 0)
                      /\ h[x] = (IF -f[x] > 0 THEN -f[x] ELSE 0),
         SumFunctionOnSet(f, S) = 0
  PROVE  SumFunctionOnSet(g, S) = SumFunctionOnSet(h, S)
  <1>1. \A x \in S : g[x] \in Int /\ h[x] \in Int /\ f[x] = g[x] - h[x]
    OBVIOUS
  <1>2. SumFunctionOnSet(f, S) = SumFunctionOnSet(g, S) - SumFunctionOnSet(h, S)
    BY <1>1, SumOfDifferences
  <1>3. SumFunctionOnSet(g, S) \in Int /\ SumFunctionOnSet(h, S) \in Int
    BY <1>1, SumOfIntegers
  <1>. QED
    BY <1>2, <1>3

\* The sections of the income statement at a level of detail
LEMMA IncomeShown ==
  ASSUME Typed, Known, NEW from \in Int, NEW to \in Int, NEW k
  PROVE  \A n \in DOMAIN IncomeTable(from, to, k) :
           Total(IncomeTable(from, to, k)[n]) = IncomeStatement(from, to)[n]
  <1> DEFINE T == {"revenue", "expense"}
             B == BalancesByType(from, to, T)
             D == DOMAIN B
             R == {a \in D : TypeOf(a) = "revenue"}
             C == Subtree(CogsRoot) \ R
             O == D \ (R \cup C)
             E == {a \in D : TypeOf(a) = "expense"}
             I == IncomeStatement(from, to)
             W == IncomeTable(from, to, k)
  <1>1. T \in SUBSET Types
    BY DEF Types
  <1>2. /\ D = {a \in AccountsOf(Lines(from, to)) : TypeOf(a) \in T}
        /\ IsFiniteSet(D) /\ \A a \in D : B[a] \in Int
    BY <1>1, TypeRows
  <1>3. /\ I.revenue = SumFunctionOnSet(B, R) /\ I.cogs = SumFunctionOnSet(B, E \cap Subtree(CogsRoot))
        /\ I.opex = SumFunctionOnSet(B, E \ Subtree(CogsRoot))
    BY DEF IncomeStatement
  <1>4. /\ D \cap R = R /\ D \cap C = E \cap Subtree(CogsRoot) /\ D \cap O = E \ Subtree(CogsRoot)
    BY <1>2
  <1>5. /\ DOMAIN W = {"revenue", "cogs", "opex"}
        /\ W.revenue = RollupRows(Section(B, R), k) /\ W.cogs = RollupRows(Section(B, C), k)
        /\ W.opex = RollupRows(Section(B, O), k)
    BY DEF IncomeTable
  <1>. HIDE DEF B, D, R, C, O, E, I, W
  <1>6. ASSUME NEW S
        PROVE  Total(RollupRows(Section(B, S), k)) = SumFunctionOnSet(B, D \cap S)
    <2> DEFINE s == Section(B, S)
    <2>1. DOMAIN s = D \cap S /\ \A a \in D \cap S : s[a] = B[a]
      BY DEF Section, D
    <2>. HIDE DEF s
    <2>2. IsFiniteSet(D \cap S) /\ \A a \in D \cap S : s[a] \in Int
      BY <1>2, <2>1, FS_Subset
    <2>3. Total(RollupRows(s, k)) = SumFunctionOnSet(s, DOMAIN s)
      BY <2>1, <2>2, RolledUp
    <2>4. SumFunctionOnSet(s, D \cap S) = SumFunctionOnSet(B, D \cap S)
      BY <2>1, <2>2, SumOfSame
    <2>. QED
      BY <2>1, <2>3, <2>4 DEF s
  <1>7. /\ Total(W.revenue) = I.revenue /\ Total(W.cogs) = I.cogs /\ Total(W.opex) = I.opex
    BY <1>3, <1>4, <1>5, <1>6
  <1>8. ASSUME NEW n \in DOMAIN W
        PROVE  Total(W[n]) = I[n]
    BY <1>5, <1>7
  <1>. QED
    BY <1>8 DEF W, I

\* The sections of the balance sheet
LEMMA SheetShown ==
  ASSUME Typed, Known, NEW date \in Int, NEW k
  PROVE  /\ Total(BalanceTable(date, k).assets) = BalanceSheet(date).assets
         /\ Total(BalanceTable(date, k).equity) + BalanceSheet(date).earnings = BalanceSheet(date).equity
  <1>1. Inception \in Int
    BY StatementsAssumption
  <1>2. ASSUME NEW ty \in Types
        PROVE  Total(RollupRows(BalancesByType(Inception, date, {ty}), k)) = Total(BalancesByType(Inception, date, {ty}))
    <2> DEFINE B == BalancesByType(Inception, date, {ty})
    <2>1. IsFiniteSet(DOMAIN B) /\ \A a \in DOMAIN B : B[a] \in Int
      BY <1>1, TypeRows
    <2>. HIDE DEF B
    <2>2. Total(RollupRows(B, k)) = SumFunctionOnSet(B, DOMAIN B)
      BY <2>1, RolledUp
    <2>. QED
      BY <2>2 DEF B, Total, SumFunction
  <1>3. "asset" \in Types /\ "equity" \in Types
    BY DEF Types
  <1>. QED
    BY <1>2, <1>3 DEF BalanceTable, BalanceSheet

\* No row of the balance sheet at level k is below it.
LEMMA SheetLevels ==
  ASSUME Typed, Known, IsForest(acct), NEW date \in Int, NEW k \in Int, k >= 1,
         NEW a \in DOMAIN BalanceTable(date, k).assets, Listed(a)
  PROVE  acct[a].level <= k
  <1> DEFINE B == BalancesByType(Inception, date, {"asset"})
  <1>1. Inception \in Int /\ "asset" \in Types
    BY StatementsAssumption DEF Types
  <1>2. /\ DOMAIN B \in SUBSET Accounts /\ IsFiniteSet(DOMAIN B) /\ \A x \in DOMAIN B : B[x] \in Int
    BY <1>1, TypeRows
  <1>3. BalanceTable(date, k).assets = RollupRows(B, k)
    BY DEF BalanceTable
  <1>. HIDE DEF B
  <1>4. DOMAIN RollupRows(B, k) = {Rollup(x, k) : x \in DOMAIN B}
    BY DEF RollupRows
  <1>9. a \in DOMAIN RollupRows(B, k)
    BY <1>3
  <1>10. PICK b \in DOMAIN B : a = Rollup(b, k)
    BY <1>4, <1>9
  <1>5. CASE Listed(b)
    BY <1>2, <1>10, <1>5, RollupLevel
  <1>6. CASE ~Listed(b)
    <2>1. Rollup(b, k) = b
      BY <1>6 DEF Rollup
    <2>. QED
      BY <1>10, <1>6, <2>1
  <1>. QED
    BY <1>5, <1>6

\* The printed trial balance at a level of detail
LEMMA TrialShown ==
  ASSUME Typed, Even, NEW from \in Int, NEW to \in Int, NEW k
  PROVE  LET t == TrialBalanceTable(DetailedTrialBalance(from, to, k))
         IN t.debit = t.credit /\ t.closingDebit = t.closingCredit
  <1> DEFINE rows == TrialBalance(from, to)
             D == DOMAIN rows
             q == DetailedTrialBalance(from, to, k)
             K == {Rollup(a, k) : a \in D}
             before == Lines(Inception, from - 1)
             during == Lines(from, to)
             up(f) == RollupRows(Column(rows, f), k)
             Fields == {"opening", "debit", "credit", "closing"}
             Positive(x) == IF x > 0 THEN x ELSE 0
             t == TrialBalanceTable(q)
             debits == [x \in K |-> Positive(q[x].closing)]
             credits == [x \in K |-> Positive(-q[x].closing)]
  <1>1. /\ before \in SUBSET AllLines /\ during \in SUBSET AllLines
        /\ Net(before) = 0 /\ Net(during) = 0
    BY LinesNet
  <1>2. D = AccountsOf(before \cup during) /\ IsFiniteSet(D)
    BY TrialRows
  <1>3. OnAny(before, D) = before /\ OnAny(during, D) = during
    BY <1>2 DEF OnAny, AccountsOf
  <1>4. /\ SumFunctionOnSet(Column(rows, "debit"), D) = Debits(during)
        /\ SumFunctionOnSet(Column(rows, "credit"), D) = Credits(during)
        /\ SumFunctionOnSet(Column(rows, "closing"), D) = Net(before) + Net(during)
    BY <1>3, TrialColumns
  <1>5. Debits(during) = Credits(during)
    BY <1>1, SumsOfLines
  <1>6. \A a \in D : rows[a].debit \in Int /\ rows[a].credit \in Int /\ rows[a].closing \in Int
    <2> SUFFICES ASSUME NEW a \in D
                 PROVE  rows[a].debit \in Int /\ rows[a].credit \in Int /\ rows[a].closing \in Int
      OBVIOUS
    <2>1. On(before, a) \in SUBSET AllLines /\ On(during, a) \in SUBSET AllLines
      BY <1>1 DEF On
    <2>2. /\ Net(On(before, a)) \in Int /\ Net(On(during, a)) \in Int
          /\ Debits(On(during, a)) \in Int /\ Credits(On(during, a)) \in Int
      BY <2>1, SumsOfLines
    <2>3. /\ rows[a].debit = Debits(On(during, a)) /\ rows[a].credit = Credits(On(during, a))
          /\ rows[a].closing = Net(On(before, a)) + Net(On(during, a))
      BY TrialRows
    <2>. HIDE DEF rows
    <2>. QED
      BY <2>2, <2>3
  <1>7. q = [x \in K |-> [f \in Fields |-> up(f)[x]]]
    BY DEF DetailedTrialBalance
  <1>. HIDE DEF q, rows, D, K, up, before, during
  <1>8. DOMAIN q = K /\ \A x \in K : /\ q[x].debit = up("debit")[x] /\ q[x].credit = up("credit")[x]
                                     /\ q[x].closing = up("closing")[x]
    BY <1>7
  <1>9. ASSUME NEW f \in {"debit", "credit", "closing"}
        PROVE  /\ DOMAIN up(f) = K /\ IsFiniteSet(K) /\ \A x \in K : up(f)[x] \in Int
               /\ SumFunctionOnSet(up(f), K) = SumFunctionOnSet(Column(rows, f), D)
    <2> DEFINE c == Column(rows, f)
    <2>1. DOMAIN c = D /\ \A a \in D : c[a] = rows[a][f]
      BY DEF Column, D
    <2>2. \A a \in D : c[a] \in Int
      BY <1>6, <2>1
    <2>. HIDE DEF c
    <2>3. /\ IsFiniteSet(DOMAIN RollupRows(c, k)) /\ DOMAIN RollupRows(c, k) = {Rollup(a, k) : a \in DOMAIN c}
          /\ \A x \in DOMAIN RollupRows(c, k) : RollupRows(c, k)[x] \in Int
          /\ Total(RollupRows(c, k)) = SumFunctionOnSet(c, DOMAIN c)
      BY <1>2, <2>1, <2>2, RolledUp
    <2>4. DOMAIN RollupRows(c, k) = K
      BY <2>1, <2>3 DEF K
    <2>5. Total(RollupRows(c, k)) = SumFunctionOnSet(RollupRows(c, k), K)
      BY <2>4 DEF Total, SumFunction
    <2>. QED
      BY <2>1, <2>3, <2>4, <2>5 DEF c, up
  <1>10. /\ t.debit = Total(Column(q, "debit")) /\ t.credit = Total(Column(q, "credit"))
         /\ t.closingDebit = Total(debits) /\ t.closingCredit = Total(credits)
    BY <1>8 DEF TrialBalanceTable
  <1>11. ASSUME NEW f \in {"debit", "credit"}
         PROVE  Total(Column(q, f)) = SumFunctionOnSet(up(f), K)
    <2> DEFINE c == Column(q, f)
    <2>1. DOMAIN c = K /\ \A x \in K : c[x] = q[x][f]
      BY <1>8 DEF Column
    <2>2. \A x \in K : c[x] = up(f)[x]
      BY <1>8, <2>1
    <2>. HIDE DEF c
    <2>3. SumFunctionOnSet(c, K) = SumFunctionOnSet(up(f), K)
      BY <1>9, <2>2, SumOfSame
    <2>4. Total(c) = SumFunctionOnSet(c, K)
      BY <2>1 DEF Total, SumFunction
    <2>. QED
      BY <2>3, <2>4 DEF c
  <1>12. t.debit = t.credit
    BY <1>4, <1>5, <1>9, <1>10, <1>11
  <1>13. t.closingDebit = t.closingCredit
    <2> DEFINE u == up("closing")
    <2>1. IsFiniteSet(K) /\ \A x \in K : u[x] \in Int
      BY <1>9
    <2>2. SumFunctionOnSet(u, K) = 0
      BY <1>1, <1>4, <1>9
    <2>. HIDE DEF u
    <2>3. \A x \in K : q[x].closing = u[x]
      BY <1>8 DEF u
    <2>4. \A x \in K : /\ u[x] \in Int /\ debits[x] = (IF u[x] > 0 THEN u[x] ELSE 0)
                       /\ credits[x] = (IF -u[x] > 0 THEN -u[x] ELSE 0)
      BY <2>1, <2>3
    <2>5. DOMAIN debits = K /\ DOMAIN credits = K
      OBVIOUS
    <2>. HIDE DEF debits, credits
    <2>6. SumFunctionOnSet(debits, K) = SumFunctionOnSet(credits, K)
      BY <2>1, <2>2, <2>4, TwoColumns
    <2>. QED
      BY <1>10, <2>5, <2>6 DEF Total, SumFunction
  <1>. QED
    BY <1>12, <1>13 DEF t, q

\* The rows of all types.
LEMMA AllRows ==
  ASSUME Typed, Known, NEW from \in Int, NEW to \in Int
  PROVE  /\ DOMAIN BalancesByType(from, to, Types) = {a \in AccountsOf(Lines(from, to)) : TypeOf(a) \in Types}
         /\ \A a \in DOMAIN BalancesByType(from, to, Types) :
              /\ TypeOf(a) \in CreditTypes => BalancesByType(from, to, Types)[a] = -Net(On(Lines(from, to), a))
              /\ TypeOf(a) \notin CreditTypes => BalancesByType(from, to, Types)[a] = Net(On(Lines(from, to), a))
  <1> DEFINE T == Types
  <1>1. T \in SUBSET Types
    OBVIOUS
  <1>. HIDE DEF T
  <1>2. /\ DOMAIN BalancesByType(from, to, T) = {a \in AccountsOf(Lines(from, to)) : TypeOf(a) \in T}
        /\ \A a \in DOMAIN BalancesByType(from, to, T) :
             /\ TypeOf(a) \in CreditTypes => BalancesByType(from, to, T)[a] = -Net(On(Lines(from, to), a))
             /\ TypeOf(a) \notin CreditTypes => BalancesByType(from, to, T)[a] = Net(On(Lines(from, to), a))
    BY <1>1, TypeRows
  <1>. QED
    BY <1>2 DEF T

\* Marks are where the balance by type is negative.
LEMMA MarksAre ==
  ASSUME Typed, Known
  PROVE  TrialBalanceTable(TrialBalance(FirstDate, LastDate)).marked
           = {a \in DOMAIN BalancesByType(Inception, LastDate, Types) :
                BalancesByType(Inception, LastDate, Types)[a] < 0}
  <1> DEFINE rows == TrialBalance(FirstDate, LastDate)
             B == BalancesByType(Inception, LastDate, Types)
             before == Lines(Inception, FirstDate - 1)
             during == Lines(FirstDate, LastDate)
             Shows(a) == IF TypeOf(a) \in {"asset", "expense"} THEN rows[a].closing < 0 ELSE rows[a].closing > 0
  <1>1. FirstDate \in Int /\ LastDate \in Int /\ Inception \in Int
    BY DatesAre, StatementsAssumption
  <1>2. /\ AllLines = before \cup during /\ before \cap during = {}
        /\ before \in SUBSET AllLines /\ during \in SUBSET AllLines
        /\ Lines(Inception, LastDate) = AllLines
    BY DatesAre, LinesSplit
  <1>3. DOMAIN rows = AccountsOf(AllLines) /\ \A a \in DOMAIN rows :
          rows[a].closing = Net(On(before, a)) + Net(On(during, a))
    BY <1>1, <1>2, TrialRows
  <1>4. /\ DOMAIN B = {a \in AccountsOf(AllLines) : TypeOf(a) \in Types}
        /\ \A a \in DOMAIN B : /\ TypeOf(a) \in CreditTypes => B[a] = -Net(On(AllLines, a))
                               /\ TypeOf(a) \notin CreditTypes => B[a] = Net(On(AllLines, a))
    <2>1. /\ DOMAIN BalancesByType(Inception, LastDate, Types)
               = {a \in AccountsOf(Lines(Inception, LastDate)) : TypeOf(a) \in Types}
          /\ \A a \in DOMAIN BalancesByType(Inception, LastDate, Types) :
               /\ TypeOf(a) \in CreditTypes =>
                    BalancesByType(Inception, LastDate, Types)[a] = -Net(On(Lines(Inception, LastDate), a))
               /\ TypeOf(a) \notin CreditTypes =>
                    BalancesByType(Inception, LastDate, Types)[a] = Net(On(Lines(Inception, LastDate), a))
      BY <1>1, AllRows
    <2>2. Lines(Inception, LastDate) = AllLines
      BY <1>2
    <2>. QED
      BY <2>1, <2>2
  <1>5. TrialBalanceTable(rows).marked = {a \in DOMAIN rows : Shows(a)}
    BY DEF TrialBalanceTable
  <1>6. \A a \in AccountsOf(AllLines) : TypeOf(a) \in Types
    BY AccountTypes DEF AccountsOf
  <1>7. ASSUME NEW a \in AccountsOf(AllLines)
        PROVE  Net(On(AllLines, a)) = Net(On(before, a)) + Net(On(during, a)) /\ Net(On(AllLines, a)) \in Int
    <2> DEFINE M == On(before, a)
               N == On(during, a)
    <2>1. /\ On(AllLines, a) = M \cup N /\ M \cap N = {}
          /\ M \in SUBSET AllLines /\ N \in SUBSET AllLines /\ On(AllLines, a) \in SUBSET AllLines
      BY <1>2 DEF On
    <2>. HIDE DEF M, N
    <2>2. Net(M \cup N) = Net(M) + Net(N)
      BY <2>1, NetOfParts
    <2>3. Net(On(AllLines, a)) \in Int
      BY <2>1, SumsOfLines
    <2>. QED
      BY <2>1, <2>2, <2>3 DEF M, N
  <1>. HIDE DEF rows, B, before, during
  <1>8. ASSUME NEW a \in AccountsOf(AllLines)
        PROVE  Shows(a) <=> B[a] < 0
    <2>1. rows[a].closing = Net(On(AllLines, a)) /\ Net(On(AllLines, a)) \in Int
      BY <1>3, <1>7
    <2>2. a \in DOMAIN B /\ TypeOf(a) \in Types
      BY <1>4, <1>6
    <2>3. TypeOf(a) \in {"asset", "expense"} <=> TypeOf(a) \notin CreditTypes
      BY <2>2 DEF Types, CreditTypes
    <2>4. CASE TypeOf(a) \in CreditTypes
      <3>1. B[a] = -Net(On(AllLines, a))
        BY <1>4, <2>2, <2>4
      <3>. QED
        BY <2>1, <2>3, <2>4, <3>1
    <2>5. CASE TypeOf(a) \notin CreditTypes
      <3>1. B[a] = Net(On(AllLines, a))
        BY <1>4, <2>2, <2>5
      <3>. QED
        BY <2>1, <2>3, <2>5, <3>1
    <2>. QED
      BY <2>4, <2>5
  <1>. HIDE DEF Shows
  <1>9. TrialBalanceTable(rows).marked = {a \in DOMAIN B : B[a] < 0}
    BY <1>3, <1>4, <1>5, <1>6, <1>8
  <1>. QED
    BY <1>9 DEF rows, B

\* The rows of a cost centre are what it earned and spent.
LEMMA CentreShown ==
  ASSUME Typed, Known, NEW x
  PROVE  Total(Section(CentreTable(x, FirstDate, LastDate), OfTypes({"revenue", "expense"})))
           = -CentreReport(x, FirstDate, LastDate).net
  <1> DEFINE L == {l \in Lines(FirstDate, LastDate) : At(l).centre = x}
             T == {"revenue", "expense"}
             R == OfType(L, "revenue")
             E == OfType(L, "expense")
             rows == CentreTable(x, FirstDate, LastDate)
             K == {a \in AccountsOf(L) : TypeOf(a) \in T}
             h == [a \in K |-> Net(On(L, a))]
             s == Section(rows, OfTypes(T))
             D == DOMAIN rows \cap OfTypes(T)
  <1>1. L \in SUBSET AllLines /\ R \in SUBSET AllLines /\ E \in SUBSET AllLines
    BY LinesAre DEF OfType
  <1>2. rows = [a \in {b \in AccountsOf(L) : Net(On(L, b)) # 0} |-> Net(On(L, a))]
    BY DEF CentreTable, AccountsOf
  <1>3. CentreReport(x, FirstDate, LastDate).net = -Net(R) - Net(E)
    BY DEF CentreReport, OfType
  <1>4. AccountsOf(L) \in SUBSET Accounts /\ IsFiniteSet(AccountsOf(L))
    BY <1>1, FiniteAccounts
  <1>5. K \in SUBSET AccountsOf(L)
    OBVIOUS
  <1>6. \A a \in AccountsOf(L) : a \in OfTypes(T) <=> TypeOf(a) \in T
    <2>1. \A a \in AccountsOf(L) : a \in Accounts /\ acct[a].state # "none"
      BY <1>1, AccountTypes DEF AccountsOf
    <2>. QED
      BY <2>1 DEF OfTypes
  <1>7. \A a : On(L, a) \in SUBSET AllLines
    BY <1>1 DEF On
  <1>8. \A a \in K : h[a] = Net(On(L, a))
    OBVIOUS
  <1>9. R \cup E = OnAny(L, K) /\ R \cap E = {}
    BY DEF OfType, OnAny, AccountsOf
  <1>10. DOMAIN s = D /\ \A a \in D : s[a] = rows[a]
    BY DEF Section
  <1>11. \A l \in L : Signed[l] \in Int
    BY <1>1, SumsOfLines
  <1>12. K = AccountsOf(L) \cap OfTypes(T)
    BY <1>6
  <1>. HIDE DEF L, R, E, K, h, rows, s, D
  <1>13. IsFiniteSet(K)
    BY <1>4, <1>5, FS_Subset
  <1>14. \A a \in K : h[a] = SumFunctionOnSet(Signed, On(L, a)) /\ h[a] \in Int
    BY <1>7, <1>8, SumsOfLines
  <1>15. SumFunctionOnSet(h, K) = SumFunctionOnSet(Signed, OnAny(L, K))
    BY <1>1, <1>11, <1>13, <1>14, ByAccount
  <1>16. Net(R \cup E) = Net(R) + Net(E) /\ R \cup E \in SUBSET AllLines
    BY <1>1, <1>9, NetOfParts
  <1>17. SumFunctionOnSet(h, K) = Net(R) + Net(E)
    BY <1>9, <1>15, <1>16, SumsOfLines
  <1>18. /\ D \in SUBSET K /\ \A a \in D : s[a] = h[a]
         /\ \A a \in K \ D : h[a] = 0
    BY <1>2, <1>8, <1>10, <1>12 DEF D
  <1>19. SumFunctionOnSet(h, K) = SumFunctionOnSet(h, D) /\ IsFiniteSet(D)
    BY <1>13, <1>14, <1>18, SumBeyond, FS_Subset
  <1>20. SumFunctionOnSet(s, D) = SumFunctionOnSet(h, D)
    BY <1>18, <1>19, SumOfSame
  <1>21. Total(s) = SumFunctionOnSet(s, D)
    BY <1>10 DEF Total, SumFunction
  <1>22. Net(R) \in Int /\ Net(E) \in Int
    BY <1>1, SumsOfLines
  <1>23. Total(s) = -(-Net(R) - Net(E))
    BY <1>17, <1>19, <1>20, <1>21, <1>22
  <1>. QED
    BY <1>3, <1>23 DEF s, rows

\* The tables add up to the statements.
LEMMA TablesFollow ==
  ASSUME Typed, Known, Even, Rooted
  PROVE  TablesAddUp
  <1>1. FirstDate \in Int /\ LastDate \in Int /\ Inception \in Int
    BY DatesAre, StatementsAssumption
  <1>2. ASSUME ~overlapped, NEW top, NEW k \in 1 .. top - 1
        PROVE  LET shown == IncomeTable(FirstDate, LastDate, k)
                   owned == BalanceTable(LastDate, k)
                   trial == TrialBalanceTable(DetailedTrialBalance(FirstDate, LastDate, k))
               IN /\ \A n \in DOMAIN shown : Total(shown[n]) = IncomeStatement(FirstDate, LastDate)[n]
                  /\ Total(owned.assets) = BalanceSheet(LastDate).assets
                  /\ Total(owned.equity) + BalanceSheet(LastDate).earnings = BalanceSheet(LastDate).equity
                  /\ trial.debit = trial.credit /\ trial.closingDebit = trial.closingCredit
                  /\ \A a \in DOMAIN owned.assets : Listed(a) => acct[a].level <= k
    <2>1. k \in Int /\ k >= 1
      OBVIOUS
    <2>2. IsForest(acct)
      BY <1>2 DEF Rooted
    <2>3. \A n \in DOMAIN IncomeTable(FirstDate, LastDate, k) :
            Total(IncomeTable(FirstDate, LastDate, k)[n]) = IncomeStatement(FirstDate, LastDate)[n]
      BY <1>1, IncomeShown
    <2>4. /\ Total(BalanceTable(LastDate, k).assets) = BalanceSheet(LastDate).assets
          /\ Total(BalanceTable(LastDate, k).equity) + BalanceSheet(LastDate).earnings = BalanceSheet(LastDate).equity
      BY <1>1, SheetShown
    <2>5. LET t == TrialBalanceTable(DetailedTrialBalance(FirstDate, LastDate, k))
          IN t.debit = t.credit /\ t.closingDebit = t.closingCredit
      BY <1>1, TrialShown
    <2>6. \A a \in DOMAIN BalanceTable(LastDate, k).assets : Listed(a) => acct[a].level <= k
      BY <1>1, <2>1, <2>2, SheetLevels
    <2>. QED
      BY <2>3, <2>4, <2>5, <2>6
  <1>3. TrialBalanceTable(TrialBalance(FirstDate, LastDate)).marked
          = {a \in DOMAIN BalancesByType(Inception, LastDate, Types) :
               BalancesByType(Inception, LastDate, Types)[a] < 0}
    BY MarksAre
  <1>4. \A x : Total(Section(CentreTable(x, FirstDate, LastDate), OfTypes({"revenue", "expense"})))
                 = -CentreReport(x, FirstDate, LastDate).net
    BY CentreShown
  <1>. QED
    BY <1>2, <1>3, <1>4 DEF TablesAddUp
-----------------------------------------------------------------------------
(***************************************************************************)
(* The cash flow: the lines the indirect method counts and those on cash   *)
(* are all the lines of the entries it can tell of.                        *)
(***************************************************************************)
\* What CashExplained assumes of the accounts and of the entries.
CashIsPlain ==
  /\ \A a \in Accounts :
       /\ acct[a].cash \/ a \in Subtree(FixedAssetRoot) => TypeOf(a) = "asset"
       /\ acct[a].cash => a \notin Subtree(FixedAssetRoot)
  /\ \A e \in InBooks : Plain(e) /\ \A a \in Uses(entry[e].lines) : Listed(a)

\* Lines on cash accounts.
Cash(L) == {l \in L : acct[At(l).account].cash}

\* Lines the indirect method counts, by section: revenue, expenses but for
\* depreciation, working capital, investing and financing.
Kept(L)    == {l \in OfType(L, "expense") : At(l).account \notin Subtree(DepreciationRoot)}
Working(L) == {l \in L : LET a == At(l).account IN
                 /\ Listed(a) /\ ~acct[a].cash /\ a \notin Subtree(FixedAssetRoot)
                 /\ TypeOf(a) \in {"asset", "liability"}}
Investing(L) == {l \in L : /\ HasCash(l[1]) /\ ~acct[At(l).account].cash
                           /\ TypeOf(At(l).account) # "equity" /\ At(l).account \in Subtree(FixedAssetRoot)}
Financing(L) == {l \in L : /\ HasCash(l[1]) /\ ~acct[At(l).account].cash
                           /\ TypeOf(At(l).account) = "equity"}

\* Entries whose effect on cash the method tells, of the dates from .. to.
Told(from, to) == {e \in InBooks : /\ entry[e].date \in from .. to
                                   /\ \/ HasCash(e)
                                      \/ \A a \in Uses(entry[e].lines) :
                                           /\ a \notin Subtree(FixedAssetRoot)
                                           /\ ~(a \in Subtree(DepreciationRoot) /\ TypeOf(a) = "expense")}

\* The lines counted and those on cash are the lines of the entries told of.
LEMMA CountedLines ==
  ASSUME Typed, Known, CashIsPlain, NEW from \in Int, NEW to \in Int, NEW L, L = Lines(from, to)
  PROVE  (((((OfType(L, "revenue") \cup Kept(L)) \cup Working(L)) \cup Investing(L)) \cup Financing(L)) \cup Cash(L))
           = {l \in AllLines : EntryOf[l] \in Told(from, to)}
  <1> DEFINE M == ((((OfType(L, "revenue") \cup Kept(L)) \cup Working(L)) \cup Investing(L)) \cup Financing(L)) \cup Cash(L)
             F == Subtree(FixedAssetRoot)
             D == Subtree(DepreciationRoot)
  <1>1. L = {l \in AllLines : entry[l[1]].date \in from .. to}
    BY LinesAre
  <1>2. ASSUME NEW l \in L
        PROVE  l \in M <=> EntryOf[l] \in Told(from, to)
    <2> DEFINE e == l[1]
               a == At(l).account
               spent == a \in D /\ TypeOf(a) = "expense"
    <2>1. l \in AllLines /\ e \in InBooks /\ entry[e].date \in from .. to /\ EntryOf[l] = e
      BY <1>1, LineIs DEF EntryOf
    <2>2. a \in Uses(entry[e].lines) /\ (acct[a].cash => HasCash(e))
      BY <2>1, LineIs DEF Uses, HasCash, At
    <2>3. a \in Accounts /\ TypeOf(a) \in Types
      BY <2>1, AccountTypes
    <2>4. /\ acct[a].cash \/ a \in F => TypeOf(a) = "asset"
          /\ acct[a].cash => a \notin F
          /\ Listed(a)
      BY <2>1, <2>2, <2>3 DEF CashIsPlain
    <2>5. e \in Told(from, to) => HasCash(e) \/ (a \notin F /\ ~spent)
      BY <2>2 DEF Told
    <2>6. \/ HasCash(e) /\ ~spent /\ e \in Told(from, to)
          \/ ~HasCash(e) /\ (a \in F \/ spent) /\ TypeOf(a) # "equity"
          \/ ~HasCash(e) /\ a \notin F /\ ~spent /\ TypeOf(a) # "equity" /\ e \in Told(from, to)
      <3>1. Plain(e)
        BY <2>1 DEF CashIsPlain
      <3>2. CASE HasCash(e)
        <4>1. e \in Told(from, to)
          BY <2>1, <3>2 DEF Told
        <4>. QED
          BY <2>2, <3>1, <3>2, <4>1 DEF Plain
      <3>3. CASE ~HasCash(e) /\ Uses(entry[e].lines) \subseteq F \cup {x \in D : TypeOf(x) = "expense"}
                 /\ \A x \in Uses(entry[e].lines) : TypeOf(x) # "equity"
        BY <2>2, <3>3
      <3>4. CASE ~HasCash(e) /\ Uses(entry[e].lines) \cap (F \cup {x \in D : TypeOf(x) = "expense"}) = {}
                 /\ \A x \in Uses(entry[e].lines) : TypeOf(x) # "equity"
        <4>1. \A x \in Uses(entry[e].lines) : x \notin F /\ ~(x \in D /\ TypeOf(x) = "expense")
          BY <3>4
        <4>2. e \in Told(from, to)
          BY <2>1, <4>1 DEF Told
        <4>. QED
          BY <2>2, <3>4, <4>1, <4>2
      <3>. QED
        BY <3>1, <3>2, <3>3, <3>4 DEF Plain
    <2>7. l \in M <=> \/ TypeOf(a) = "revenue"
                      \/ TypeOf(a) = "expense" /\ a \notin D
                      \/ Listed(a) /\ ~acct[a].cash /\ a \notin F /\ TypeOf(a) \in {"asset", "liability"}
                      \/ HasCash(e) /\ ~acct[a].cash /\ TypeOf(a) # "equity" /\ a \in F
                      \/ HasCash(e) /\ ~acct[a].cash /\ TypeOf(a) = "equity"
                      \/ acct[a].cash
      BY DEF OfType, Kept, Working, Investing, Financing, Cash
    <2>8. TypeOf(a) \in {"asset", "liability", "equity", "revenue", "expense"}
      BY <2>3 DEF Types
    <2>. HIDE DEF M, F, D, a, e
    <2>9. l \in M <=> e \in Told(from, to)
      BY <2>2, <2>4, <2>5, <2>6, <2>7, <2>8
    <2>. QED
      BY <2>1, <2>9
  <1>3. M \in SUBSET L
    BY DEF OfType, Kept, Working, Investing, Financing, Cash
  <1>4. {l \in AllLines : EntryOf[l] \in Told(from, to)} \in SUBSET L
    <2>1. ASSUME NEW l \in AllLines, EntryOf[l] \in Told(from, to)
          PROVE  l \in L
      <3>1. EntryOf[l] = l[1]
        BY <2>1 DEF EntryOf
      <3>2. entry[l[1]].date \in from .. to
        BY <2>1, <3>1 DEF Told
      <3>. QED
        BY <1>1, <3>2
    <2>. QED
      BY <2>1
  <1>5. L \in SUBSET AllLines
    BY <1>1
  <1>. HIDE DEF M
  <1>6. M = {l \in AllLines : EntryOf[l] \in Told(from, to)}
    BY <1>2, <1>3, <1>4, <1>5
  <1>. QED
    BY <1>6 DEF M

\* The sections do not overlap.
LEMMA CountedApart ==
  ASSUME Typed, CashIsPlain, NEW L \in SUBSET AllLines
  PROVE  LET R == OfType(L, "revenue") IN
         /\ R \cap Kept(L) = {}
         /\ (R \cup Kept(L)) \cap Working(L) = {}
         /\ ((R \cup Kept(L)) \cup Working(L)) \cap Investing(L) = {}
         /\ (((R \cup Kept(L)) \cup Working(L)) \cup Investing(L)) \cap Financing(L) = {}
         /\ ((((R \cup Kept(L)) \cup Working(L)) \cup Investing(L)) \cup Financing(L)) \cap Cash(L) = {}
  <1>1. ASSUME NEW l \in L
        PROVE  /\ l \in Cash(L) => TypeOf(At(l).account) = "asset" /\ acct[At(l).account].cash
               /\ l \in Financing(L) => TypeOf(At(l).account) = "equity"
               /\ l \in Investing(L) => /\ TypeOf(At(l).account) = "asset" /\ ~acct[At(l).account].cash
                                        /\ At(l).account \in Subtree(FixedAssetRoot)
               /\ l \in Working(L) => /\ TypeOf(At(l).account) \in {"asset", "liability"} /\ ~acct[At(l).account].cash
                                      /\ At(l).account \notin Subtree(FixedAssetRoot)
               /\ l \in Kept(L) => TypeOf(At(l).account) = "expense"
               /\ l \in OfType(L, "revenue") => TypeOf(At(l).account) = "revenue"
    <2>1. At(l).account \in Accounts
      BY LineIs DEF LineRows
    <2>. QED
      BY <2>1 DEF CashIsPlain, Cash, Financing, Investing, Working, Kept, OfType
  <1>2. /\ Cash(L) \in SUBSET L /\ Financing(L) \in SUBSET L /\ Investing(L) \in SUBSET L
        /\ Working(L) \in SUBSET L /\ Kept(L) \in SUBSET L /\ OfType(L, "revenue") \in SUBSET L
    BY DEF Cash, Financing, Investing, Working, Kept, OfType
  <1>3. OfType(L, "revenue") \cap Kept(L) = {}
    BY <1>1, <1>2
  <1>4. (OfType(L, "revenue") \cup Kept(L)) \cap Working(L) = {}
    BY <1>1, <1>2
  <1>5. ((OfType(L, "revenue") \cup Kept(L)) \cup Working(L)) \cap Investing(L) = {}
    BY <1>1, <1>2
  <1>6. (((OfType(L, "revenue") \cup Kept(L)) \cup Working(L)) \cup Investing(L)) \cap Financing(L) = {}
    BY <1>1, <1>2
  <1>7. ((((OfType(L, "revenue") \cup Kept(L)) \cup Working(L)) \cup Investing(L)) \cup Financing(L)) \cap Cash(L) = {}
    BY <1>1, <1>2
  <1>. QED
    BY <1>3, <1>4, <1>5, <1>6, <1>7

\* The change the method finds is what the lines on cash come to.
LEMMA ChangeIsCash ==
  ASSUME Typed, Known, Even, CashIsPlain, NEW from \in Int, NEW to \in Int
  PROVE  CashFlow(from, to).change = Net(Cash(Lines(from, to)))
  <1> DEFINE L == Lines(from, to)
             R == OfType(L, "revenue")
             X == OfType(L, "expense")
             A == {l \in L : TypeOf(At(l).account) = "expense" /\ At(l).account \in Subtree(DepreciationRoot)}
             K == Kept(L)
             W == Working(L)
             I == Investing(L)
             Q == Financing(L)
             C == Cash(L)
             earned == IncomeStatement(from, to).net
  <1>1. L \in SUBSET AllLines
    BY LinesNet
  <1>2. /\ R \in SUBSET AllLines /\ X \in SUBSET AllLines /\ A \in SUBSET AllLines /\ K \in SUBSET AllLines
        /\ W \in SUBSET AllLines /\ I \in SUBSET AllLines /\ Q \in SUBSET AllLines /\ C \in SUBSET AllLines
    BY <1>1 DEF OfType, Kept, Working, Investing, Financing, Cash
  <1>3. X = K \cup A /\ K \cap A = {}
    BY DEF OfType, Kept
  <1>4. earned = -Net(R) - Net(X)
    BY Earned
  <1>5. /\ W = {l \in L : LET a == At(l).account IN
                  /\ Listed(a) /\ ~acct[a].cash /\ a \notin Subtree(FixedAssetRoot)
                  /\ TypeOf(a) \in {"asset", "liability"}}
        /\ I = {l \in Movements(from, to) : TypeOf(At(l).account) # "equity" /\ At(l).account \in Subtree(FixedAssetRoot)}
        /\ Q = {l \in Movements(from, to) : TypeOf(At(l).account) = "equity"}
    BY DEF Working, Investing, Financing, Movements
  <1>6. CashFlow(from, to).change = earned + Net(A) + -Net(W) + -Net(I) + -Net(Q)
    BY <1>5 DEF CashFlow
  <1>7. ((((R \cup K) \cup W) \cup I) \cup Q) \cup C = {l \in AllLines : EntryOf[l] \in Told(from, to)}
    BY CountedLines
  <1>8. /\ R \cap K = {} /\ (R \cup K) \cap W = {} /\ ((R \cup K) \cup W) \cap I = {}
        /\ (((R \cup K) \cup W) \cup I) \cap Q = {}
        /\ ((((R \cup K) \cup W) \cup I) \cup Q) \cap C = {}
    BY <1>1, CountedApart
  <1>9. Told(from, to) \in SUBSET InBooks
    BY DEF Told
  <1>. HIDE DEF L, R, X, A, K, W, I, Q, C, earned
  <1>10. Net(((((R \cup K) \cup W) \cup I) \cup Q) \cup C) = 0
    BY <1>7, <1>9, EntriesNet
  <1>11. Net(R \cup K) = Net(R) + Net(K) /\ R \cup K \in SUBSET AllLines
    BY <1>2, <1>8, NetOfParts
  <1>12. Net((R \cup K) \cup W) = Net(R \cup K) + Net(W) /\ (R \cup K) \cup W \in SUBSET AllLines
    BY <1>2, <1>8, <1>11, NetOfParts
  <1>13. /\ Net(((R \cup K) \cup W) \cup I) = Net((R \cup K) \cup W) + Net(I)
         /\ ((R \cup K) \cup W) \cup I \in SUBSET AllLines
    BY <1>2, <1>8, <1>12, NetOfParts
  <1>14. /\ Net((((R \cup K) \cup W) \cup I) \cup Q) = Net(((R \cup K) \cup W) \cup I) + Net(Q)
         /\ (((R \cup K) \cup W) \cup I) \cup Q \in SUBSET AllLines
    BY <1>2, <1>8, <1>13, NetOfParts
  <1>15. Net(((((R \cup K) \cup W) \cup I) \cup Q) \cup C) = Net((((R \cup K) \cup W) \cup I) \cup Q) + Net(C)
    BY <1>2, <1>8, <1>14, NetOfParts
  <1>16. Net(X) = Net(K) + Net(A)
    BY <1>2, <1>3, NetOfParts
  <1>17. /\ Net(R) \in Int /\ Net(K) \in Int /\ Net(A) \in Int /\ Net(W) \in Int
         /\ Net(I) \in Int /\ Net(Q) \in Int /\ Net(C) \in Int
    BY <1>2, SumsOfLines
  <1>18. Net(R) + Net(K) + Net(W) + Net(I) + Net(Q) + Net(C) = 0
    BY <1>10, <1>11, <1>12, <1>13, <1>14, <1>15
  <1>19. ASSUME NEW r \in Int, NEW k \in Int, NEW a \in Int, NEW w \in Int, NEW i \in Int,
                NEW q \in Int, NEW c \in Int, r + k + w + i + q + c = 0
         PROVE  (-r - (k + a)) + a + -w + -i + -q = c
    BY <1>19
  <1>20. (-Net(R) - (Net(K) + Net(A))) + Net(A) + -Net(W) + -Net(I) + -Net(Q) = Net(C)
    BY <1>17, <1>18, <1>19
  <1>21. CashFlow(from, to).change = Net(C)
    BY <1>4, <1>6, <1>16, <1>20
  <1>. QED
    BY <1>21 DEF C, L

\* The cash flow statement explains the change in cash.
LEMMA CashFollows ==
  ASSUME Typed, Known, Even
  PROVE  CashExplained
  <1>1. SUFFICES ASSUME CashIsPlain, NEW d \in Dates
                 PROVE  LET c == CashFlow(d, LastDate) IN c.closing = c.opening + c.change
    BY DEF CashExplained, CashIsPlain, InBooks
  <1> DEFINE before == Lines(Inception, d - 1)
             during == Lines(d, LastDate)
             all == Lines(Inception, LastDate)
  <1>2. d \in Int /\ LastDate \in Int
    BY DatesAre, StatementsAssumption
  <1>3. /\ CashFlow(d, LastDate).opening = Net(Cash(before))
        /\ CashFlow(d, LastDate).closing = Net(Cash(all))
    BY DEF CashFlow, CashBalance, Cash
  <1>4. CashFlow(d, LastDate).change = Net(Cash(during))
    BY <1>1, <1>2, ChangeIsCash
  <1>5. /\ all = before \cup during /\ before \cap during = {}
        /\ before \in SUBSET AllLines /\ during \in SUBSET AllLines
    BY LinesSplit
  <1>. HIDE DEF before, during, all
  <1>6. /\ Cash(all) = Cash(before) \cup Cash(during) /\ Cash(before) \cap Cash(during) = {}
        /\ Cash(before) \in SUBSET AllLines /\ Cash(during) \in SUBSET AllLines
    BY <1>5 DEF Cash
  <1>7. Net(Cash(before) \cup Cash(during)) = Net(Cash(before)) + Net(Cash(during))
    BY <1>6, NetOfParts
  <1>. QED
    BY <1>3, <1>4, <1>6, <1>7
-----------------------------------------------------------------------------
(***************************************************************************)
(* The state of the books the statements are derived from.                 *)
(***************************************************************************)
\* Debits equal credits, and the accounts have rows.
Squares(s) == TotalDebit(s) = TotalCredit(s)
There(s)   == \A a \in Uses(s) : acct[a].state # "none"

\* What keeps the statements in agreement: every entry is balanced, its
\* accounts are among those used, and no account that is used, or that an
\* entry about to be inserted will use, has no row.
KeptInv ==
  /\ \A e \in Entries : Squares(entry[e].lines) /\ Uses(entry[e].lines) \subseteq used
  /\ \A a \in used : acct[a].state # "none"
  /\ \A t \in Txns : /\ plan[t].of = "insert" => Squares(plan[t].new.lines) /\ There(plan[t].new.lines)
                     /\ want[t] # Nil => Remain(seen[t], want[t])

\* A reversal is balanced and uses what the entry uses.
LEMMA SwappedSquares ==
  ASSUME NEW s \in Seq(LineRows), Squares(s)
  PROVE  Squares(Swapped(s)) /\ Uses(Swapped(s)) = Uses(s)
  <1> DEFINE r == Swapped(s)
  <1>1. DOMAIN r = DOMAIN s
    BY DEF Swapped
  <1>2. \A i \in DOMAIN s : /\ r[i].debit = s[i].credit /\ r[i].credit = s[i].debit
                            /\ r[i].account = s[i].account
    BY DEF Swapped
  <1>. HIDE DEF r
  <1>3. [i \in DOMAIN r |-> r[i].debit] = [i \in DOMAIN s |-> s[i].credit]
    BY <1>1, <1>2
  <1>4. [i \in DOMAIN r |-> r[i].credit] = [i \in DOMAIN s |-> s[i].debit]
    BY <1>1, <1>2
  <1>5. TotalDebit(r) = TotalCredit(s) /\ TotalCredit(r) = TotalDebit(s)
    BY <1>3, <1>4 DEF TotalDebit, TotalCredit
  <1>6. Uses(r) = Uses(s)
    BY <1>1, <1>2 DEF Uses
  <1>. QED
    BY <1>5, <1>6 DEF Squares, r

\* Rows of accounts that are there remain, however requests interleave.
LEMMA RowsRemain ==
  ASSUME Books, ChartTyped, KeptInv, NEW t \in Txns, Step(t), NEW a \in Accounts, acct[a].state # "none"
  PROVE  acct'[a].state # "none"
  <1>1. CASE Draws(t) \/ Alters(t)
    BY <1>1, PlanChart DEF Books, chartVars
  <1>2. CASE CommitBooks(t)
    BY <1>2, BooksUse DEF chartVars
  <1>3. CASE ChartStep(t)
    BY <1>3, ChartLoads DEF Load, chartVars
  <1>4. CASE Commit(t)
    <2>1. /\ want[t] # Nil /\ Remain(seen[t], want[t])
          /\ acct'[a] = Changed(acct[a], seen[t].acct[a], want[t].acct[a])
      BY <1>4 DEF Commit, Flush, KeptInv
    <2>2. "state" \in DOMAIN acct[a]
      BY DEF ChartTyped, ChartType, Chart, Rows
    <2>3. acct'[a].state = IF want[t].acct[a].state # seen[t].acct[a].state
                             THEN want[t].acct[a].state ELSE acct[a].state
      BY <2>1, <2>2 DEF Changed
    <2>. QED
      BY <2>1, <2>3 DEF Remain
  <1>5. CASE Rollback(t)
    BY <1>5 DEF Rollback, chartVars
  <1>. QED
    BY <1>1, <1>2, <1>3, <1>4, <1>5, StepCases DEF Quiet

\* A request that inserts an entry has found it balanced, on live accounts.
LEMMA PlanSquares ==
  ASSUME BookType, InHand, ChartTyped, NEW t \in Txns, Draws(t) \/ Alters(t), plan'[t].of = "insert"
  PROVE  Squares(plan'[t].new.lines) /\ \A a \in Uses(plan'[t].new.lines) : acct[a].state = "live"
  <1>1. plan \in [Txns -> Plans]
    BY DEF BookType
  <1>2. ASSUME NEW s, Acceptable(s)
        PROVE  Squares(s) /\ \A a \in Uses(s) : acct[a].state = "live"
    BY <1>2 DEF Acceptable, Postable, Uses, Balanced, Squares
  <1>3. CASE Draft(t)
    <2>1. PICK s \in Shapes : Acceptable(s) /\ plan'[t].new.lines = s
      BY <1>1, <1>3 DEF Draft, Prepare, NoPlan, NoEntry
    <2>. QED
      BY <1>2, <2>1
  <1>4. CASE AutoPost(t)
    <2>1. PICK e \in Entries, s \in Shapes :
            /\ Acceptable(s)
            /\ plan'[t] = [NoPlan EXCEPT !.of = "insert", !.row = e,
                            !.new = [NoEntry EXCEPT !.status = "posted", !.lines = s]]
      BY <1>1, <1>4 DEF AutoPost, Prepare
    <2>2. plan'[t].new.lines = s
      BY <2>1 DEF NoPlan, NoEntry
    <2>. QED
      BY <1>2, <2>1, <2>2
  <1>5. CASE ReverseEntry(t)
    <2>1. plan'[t].of = "reversal"
      BY <1>1, <1>5 DEF ReverseEntry, Prepare, NoPlan
    <2>. QED
      BY <2>1
  <1>6. CASE Alters(t)
    <2>1. plan'[t].of \in {"status", "create period", "close period"}
      <3>1. CASE Post(t)
        BY <1>1, <3>1 DEF Post, Prepare, NoPlan
      <3>2. CASE CancelDraft(t)
        <4>1. PICK e \in Entries :
                plan'[t] = [NoPlan EXCEPT !.of = "status", !.row = e,
                            !.new = [entry[e] EXCEPT !.status = "cancelled"]]
          BY <1>1, <3>2 DEF CancelDraft, Prepare
        <4>. QED
          BY <4>1 DEF NoPlan
      <3>3. CASE CreatePeriod(t)
        BY <1>1, <3>3 DEF CreatePeriod, Prepare, NoPlan
      <3>4. CASE ClosePeriod(t)
        BY <1>1, <3>4 DEF ClosePeriod, Prepare, NoPlan
      <3>. QED
        BY <1>6, <3>1, <3>2, <3>3, <3>4 DEF Alters
    <2>. QED
      BY <2>1
  <1>. QED
    BY <1>3, <1>4, <1>5, <1>6 DEF Draws

\* Entries stay balanced and use no more than is noted as used.
LEMMA StepEntriesKept ==
  ASSUME Books, ChartTyped, KeptInv, NEW t \in Txns, Step(t), NEW e \in Entries
  PROVE  Squares(entry'[e].lines) /\ Uses(entry'[e].lines) \subseteq used'
  <1>1. Squares(entry[e].lines) /\ Uses(entry[e].lines) \subseteq used /\ entry[e].lines \in Seq(LineRows)
    BY DEF KeptInv, Books, BookType, EntryRows
  <1>2. CASE Draws(t) \/ Alters(t)
    <2>1. entry' = entry /\ used' = used
      BY <1>2, PlanOf, PlanChart DEF Books, Prepare, bookVars
    <2>. QED
      BY <1>1, <2>1
  <1>3. CASE CommitBooks(t)
    <2>1. CASE SetStatus(t)
      <3>1. used' = used /\ entry'[e].lines = entry[e].lines
        <4>1. used' = used
          BY <2>1 DEF SetStatus
        <4>2. CASE e = plan[t].row
          BY <1>3, <2>1, <4>1, <4>2, StatusWritten
        <4>3. CASE e # plan[t].row
          BY <1>3, <2>1, <4>1, <4>3, StatusWritten
        <4>. QED
          BY <4>2, <4>3
      <3>. QED
        BY <1>1, <3>1
    <2>2. CASE InsertEntry(t)
      <3>1. used' = used \cup Uses(plan[t].new.lines) /\ plan[t].of = "insert"
        BY <2>2 DEF InsertEntry
      <3>2. CASE e = plan[t].row
        <4>1. entry'[e].lines = plan[t].new.lines
          BY <1>3, <2>2, <3>2, EntryWritten
        <4>. QED
          BY <3>1, <4>1 DEF KeptInv
      <3>3. CASE e # plan[t].row
        <4>1. entry'[e] = entry[e]
          BY <1>3, <2>2, <3>3, EntryWritten
        <4>. QED
          BY <1>1, <3>1, <4>1
      <3>. QED
        BY <3>2, <3>3
    <2>3. CASE InsertReversal(t)
      <3>1. used' = used
        BY <2>3 DEF InsertReversal
      <3> DEFINE r == plan[t].row
                 n == plan[t].also
      <3>2. /\ r \in Entries /\ entry'[r].lines = entry[r].lines
            /\ entry'[n].lines = Swapped(entry[r].lines)
            /\ \A x \in Entries \ {r, n} : entry'[x] = entry[x]
        BY <1>3, <2>3, ReversalWritten
      <3>3. /\ Squares(entry[r].lines) /\ Uses(entry[r].lines) \subseteq used
            /\ entry[r].lines \in Seq(LineRows)
        BY <3>2 DEF KeptInv, Books, BookType, EntryRows
      <3>4. Squares(Swapped(entry[r].lines)) /\ Uses(Swapped(entry[r].lines)) \subseteq used
        BY <3>3, SwappedSquares
      <3>. QED
        BY <1>1, <3>1, <3>2, <3>3, <3>4
    <2>4. CASE InsertPeriod(t) \/ SetClosed(t)
      <3>1. entry' = entry /\ used' = used
        BY <2>4 DEF InsertPeriod, SetClosed
      <3>. QED
        BY <1>1, <3>1
    <2>. QED
      BY <1>3, <2>1, <2>2, <2>3, <2>4 DEF CommitBooks
  <1>4. CASE Quiet(t)
    <2>1. entry' = entry /\ used' = used
      <3>1. entry' = entry
        BY <1>4 DEF Quiet, bookVars
      <3>2. CASE ChartStep(t)
        BY <3>1, <3>2, ChartLoads DEF Load
      <3>. QED
        BY <1>4, <3>1, <3>2 DEF Quiet, Rollback, Commit
    <2>. QED
      BY <1>1, <2>1
  <1>. QED
    BY <1>2, <1>3, <1>4, StepCases

\* What becomes used has a row.
LEMMA StepUsedKept ==
  ASSUME Books, ChartTyped, KeptInv, NEW t \in Txns, Step(t), NEW a \in used'
  PROVE  acct'[a].state # "none"
  <1>1. a \in Accounts /\ acct[a].state # "none"
    <2>1. CASE a \in used
      BY <2>1 DEF KeptInv, ChartTyped
    <2>2. CASE a \notin used
      <3>1. CommitBooks(t)
        <4>1. CASE Draws(t) \/ Alters(t)
          BY <2>2, <4>1, PlanChart DEF Books
        <4>2. CASE ChartStep(t)
          BY <2>2, <4>2, ChartLoads DEF Load
        <4>3. CASE Commit(t) \/ Rollback(t)
          BY <2>2, <4>3 DEF Commit, Rollback
        <4>. QED
          BY <4>1, <4>2, <4>3, StepCases DEF Quiet
      <3>2. /\ plan[t].of = "insert" /\ a \in Uses(plan[t].new.lines)
            /\ Uses(plan[t].new.lines) \subseteq Accounts
        BY <2>2, <3>1, BooksUse
      <3>. QED
        BY <3>2 DEF KeptInv, There
    <2>. QED
      BY <2>1, <2>2
  <1>. QED
    BY <1>1, RowsRemain

\* What the requests have in hand stays so.
LEMMA StepHandsKept ==
  ASSUME Books, ChartTyped, KeptInv, NEW t \in Txns, Step(t), NEW u \in Txns
  PROVE  /\ plan'[u].of = "insert" => Squares(plan'[u].new.lines) /\ There(plan[u].new.lines)'
         /\ want'[u] # Nil => Remain(seen'[u], want'[u])
  <1>0. /\ DOMAIN want = Txns /\ DOMAIN seen = Txns /\ plan \in [Txns -> Plans]
        /\ want[u] # Nil => Remain(seen[u], want[u])
    BY DEF Books, BookType, ChartTyped, KeptInv
  <1>1. ASSUME plan'[u] = plan[u], plan'[u].of = "insert"
        PROVE  Squares(plan'[u].new.lines) /\ There(plan[u].new.lines)'
    <2>1. Squares(plan[u].new.lines) /\ There(plan[u].new.lines)
      BY <1>1 DEF KeptInv
    <2>2. Uses(plan[u].new.lines) \subseteq Accounts
      BY UsesAccounts DEF Books, BookType, Plans, EntryRows
    <2>3. \A a \in Uses(plan[u].new.lines) : acct'[a].state # "none"
      BY <2>1, <2>2, RowsRemain DEF There
    <2>. QED
      BY <1>1, <2>1, <2>3 DEF There
  <1>2. CASE Draws(t) \/ Alters(t)
    <2>1. UNCHANGED <<chartVars, used, seen, want>>
      BY <1>2, PlanChart DEF Books
    <2>2. CASE u # t
      BY <1>0, <1>1, <2>1, <2>2, OthersKeepPlans DEF Books
    <2>3. CASE u = t
      <3>1. ASSUME plan'[u].of = "insert"
            PROVE  Squares(plan'[u].new.lines) /\ There(plan[u].new.lines)'
        <4>1. Squares(plan'[u].new.lines) /\ \A a \in Uses(plan'[u].new.lines) : acct[a].state = "live"
          BY <1>2, <2>3, <3>1, PlanSquares DEF Books
        <4>2. acct' = acct
          BY <2>1 DEF chartVars
        <4>. QED
          BY <4>1, <4>2 DEF There
      <3>. QED
        BY <1>0, <2>1, <3>1
    <2>. QED
      BY <2>2, <2>3
  <1>3. CASE CommitBooks(t)
    <2>1. UNCHANGED <<seen, want>>
      BY <1>3, BooksUse
    <2>2. plan'[u] = NoPlan \/ plan'[u] = plan[u]
      BY <1>3, PlansAfter DEF Books
    <2>3. NoPlan.of # "insert"
      BY DEF NoPlan
    <2>. QED
      BY <1>0, <1>1, <2>1, <2>2, <2>3
  <1>4. CASE Quiet(t)
    <2>1. plan'[u] = NoPlan \/ plan'[u] = plan[u]
      BY <1>4, PlansAfter DEF Books
    <2>2. NoPlan.of # "insert"
      BY DEF NoPlan
    <2>3. want'[u] # Nil => Remain(seen'[u], want'[u])
      <3>1. CASE ChartStep(t)
        <4>1. PICK w : Load(t, w) /\ Remain(Chart, w)
          BY <3>1, StepLoads DEF ChartTyped
        <4>2. seen' = [seen EXCEPT ![t] = Chart] /\ want' = [want EXCEPT ![t] = w]
          BY <4>1 DEF Load
        <4>. QED
          BY <1>0, <4>1, <4>2
      <3>2. CASE Commit(t) \/ Rollback(t)
        <4>1. seen' = [seen EXCEPT ![t] = Nil] /\ want' = [want EXCEPT ![t] = Nil]
          BY <3>2 DEF Commit, Rollback, Forget
        <4>. QED
          BY <1>0, <4>1
      <3>. QED
        BY <1>4, <3>1, <3>2 DEF Quiet
    <2>. QED
      BY <1>1, <2>1, <2>2, <2>3
  <1>. QED
    BY <1>2, <1>3, <1>4, StepCases

\* Books a company may have are balanced.
LEMMA InitKept == Init => KeptInv
  <1> SUFFICES ASSUME Init PROVE KeptInv
    OBVIOUS
  <1>1. PICK o \in Openings : entry = o.entry
    BY DEF Init
  <1>2. \A e \in Entries : /\ Squares(entry[e].lines)
                           /\ \A i \in DOMAIN entry[e].lines :
                                Seeded[entry[e].lines[i].account].state = "live"
    BY <1>1, JournalAssumption DEF Squares
  <1>3. /\ acct = Seeded /\ plan = [t \in Txns |-> NoPlan] /\ want = [t \in Txns |-> Nil]
        /\ used = UNION {Uses(entry[e].lines) : e \in Entries}
    BY DEF Init, ChartInit
  <1>4. \A a \in used : acct[a].state = "live"
    BY <1>2, <1>3 DEF Uses
  <1>5. \A e \in Entries : Uses(entry[e].lines) \subseteq used
    BY <1>3
  <1>6. \A t \in Txns : plan[t].of # "insert" /\ want[t] = Nil
    BY <1>3 DEF NoPlan
  <1>. QED
    BY <1>2, <1>4, <1>5, <1>6 DEF KeptInv

\* Every step keeps them so.
LEMMA NextKept == IInv /\ ChartInv /\ KeptInv /\ [Next]_vars => KeptInv'
  <1> SUFFICES ASSUME IInv, ChartInv, KeptInv, [Next]_vars PROVE KeptInv'
    OBVIOUS
  <1>1. CASE UNCHANGED vars
    BY <1>1 DEF vars, KeptInv, There, Remain, Squares
  <1>2. CASE Next
    <2>1. PICK t \in Txns : Step(t)
      BY <1>2 DEF Next
    <2>2. Books /\ ChartTyped
      BY DEF IInv, ChartInv
    <2>3. \A e \in Entries : Squares(entry'[e].lines) /\ Uses(entry'[e].lines) \subseteq used'
      BY <2>1, <2>2, StepEntriesKept
    <2>4. \A a \in used' : acct'[a].state # "none"
      BY <2>1, <2>2, StepUsedKept
    <2>5. \A u \in Txns :
            /\ plan'[u].of = "insert" => Squares(plan'[u].new.lines) /\ There(plan[u].new.lines)'
            /\ want'[u] # Nil => Remain(seen'[u], want'[u])
      BY <2>1, <2>2, StepHandsKept
    <2>. QED
      BY <2>3, <2>4, <2>5 DEF KeptInv, Squares, There
  <1>. QED
    BY <1>1, <1>2

\* In every state of the books the statements agree with each other, whatever
\* the requests do to the chart and the journal and however they interleave.
THEOREM StatementsAlwaysAgree == Spec => []StatementsAgree
  <1>1. IInv /\ ChartInv /\ KeptInv => StatementsAgree
    <2> SUFFICES ASSUME IInv, ChartInv, KeptInv PROVE StatementsAgree
      OBVIOUS
    <2>1. Typed
      BY DEF Typed, IInv, Books, BookType, ChartInv, ChartTyped, ChartType, Chart
    <2>2. Even /\ Known
      BY DEF KeptInv, Squares, Even, Known
    <2>3. Rooted
      BY DEF KeptInv, Rooted, ChartInv, Sound, Chart
    <2>4. BalancesZero /\ SheetBalances /\ EquityExplained /\ CentresExplain
      BY <2>1, <2>2, TrialZero, SheetZero, EquityMoves, CentresAddUp
    <2>5. LedgersAgree /\ RootsAgree
      BY <2>1, <2>3, LedgersFollow, RootsFollow
    <2>6. TablesAddUp /\ CashExplained
      BY <2>1, <2>2, <2>3, TablesFollow, CashFollows
    <2>. QED
      BY <2>4, <2>5, <2>6 DEF StatementsAgree
  <1>. QED
    BY <1>1, InitChart, NextChart, InvariantHolds, InitKept, NextKept, PTL DEF Spec
=============================================================================
