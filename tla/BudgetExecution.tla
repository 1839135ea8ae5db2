--------------------------- MODULE BudgetExecution ---------------------------
(***************************************************************************)
(* The lines of the annual budget, what they plan for each month, and the  *)
(* monthly check-ins that say what came of it (backend/budget).  A month   *)
(* is reviewed through its close: lines nothing is known of get suggested  *)
(* check-ins, which the user accepts; a closed month is meant to stand.    *)
(*                                                                         *)
(* Income and expenses follow the same rules in functions of their own;    *)
(* "kind" tells them apart where they differ.  Amounts are in cents of the *)
(* base currency.  Saving a check-in takes two statements, the guard and   *)
(* the write; accepting suggestions takes one to read and one for each     *)
(* row, outside any transaction.  A close changes in one step here         *)
(* (MonthlyClose has its steps).                                           *)
(***************************************************************************)
EXTENDS BudgetMonths, FiniteSets, FiniteSetsExt, Functions, SequencesExt, TLC

CONSTANTS
  BudgetYears,
  BudgetLines,    \* bound: ids of lines
  LineForms,      \* what a line is created or edited with
  PatchedSums,    \* amounts a line is patched with, besides its own
  Answers,        \* what a check-in may say: [status, sum]
  AnswerCells,    \* bound: the months check-ins are entered for, <<year, month>>
  SlotBookings,   \* bound: <<slot, cell, total>> the ledger may come to show
  CloseCells,     \* bound: the months that are closed
  Visits,         \* requests in progress at a time
  MaxLineEdits    \* bound: editions and patches of lines

Unsaid == -1      \* a check-in without an amount
ASSUME BudgetAssumption ==
  /\ BudgetYears \subseteq Nat \ {0} /\ BudgetLines \subseteq Nat
  /\ AnswerCells \cup CloseCells \subseteq BudgetYears \X (1..LastMonth)
  /\ \A a \in Answers : a.status \in {"stated", "skipped", "estimated"} /\ a.sum \in Nat \cup {Unsaid}

VARIABLES
  budget,     \* line -> [kind, slot, profile, year, target, first, endYear, last, sum, monthly, active, mirror]
  lineEdits,  \* bound: editions so far
  checkins,   \* <<line, cell>> -> [status, sum]
  executed,   \* <<slot, cell>> -> total of the ledger's classified movements
  closed,     \* cell -> status of its close
  visit,      \* request -> what it is about to write; "found": the month it looked at,
              \* "late": history, the month it writes to was closed meanwhile
  reshaped    \* history: lines edited or patched while they had check-ins

budgetVars == <<budget, lineEdits, checkins, executed, closed, visit, reshaped>>

-----------------------------------------------------------------------------
(* What a line plans *)

YearMonths == 1..LastMonth
AnswerSums == {a.sum : a \in Answers}

\* What the tables of lines and of check-ins admit.
IsLine(s) ==
  /\ s.kind \in {"income", "expense"} /\ s.profile \in {"structural", "term", "one_off"}
  /\ {s.year, s.sum} \subseteq Nat /\ s.monthly \in BOOLEAN /\ s.active \in BOOLEAN /\ s.mirror \in BOOLEAN
AnswerRows == [status : {"stated", "skipped", "estimated"}, sum : Nat \cup {Unsaid}]

\* validate: what is asked of a form, and what is stored of it.
FormAccepted(s) ==
  /\ s.profile = "term" =>
       s.endYear >= s.year /\ (s.endYear = s.year => s.last >= s.first)
  /\ s.profile = "one_off" => s.target # Whenever
FormStored(s) ==
  [s EXCEPT !.first   = IF s.profile = "term" THEN @ ELSE 0,
            !.last    = IF s.profile = "term" THEN @ ELSE 0,
            !.endYear = IF s.profile = "term" THEN @ ELSE 0,
            !.target  = IF s.kind = "income" \/ s.profile = "one_off" THEN @ ELSE Whenever]
\* A request without a time profile takes the default of recurrent and one-off.
Patched(s, sum) ==
  FormStored([s EXCEPT !.sum = sum, !.profile = IF @ = "one_off" THEN @ ELSE "structural"])

PlansFor(l, c) == c[2] \in DOMAIN Distribution(budget[l], c[1])
PlannedIn(l, c) == Distribution(budget[l], c[1])[c[2]]

-----------------------------------------------------------------------------
(* What is known of a month *)

BudgetedSlot(l, c) == <<budget[l].slot, c>>
InLedger(l, c) == BudgetedSlot(l, c) \in DOMAIN executed
CheckedIn(l, c) == <<l, c>> \in DOMAIN checkins

\* _is_user_override_checkin
Overrides(l, c) ==
  CheckedIn(l, c) /\ checkins[<<l, c>>].status = "stated" /\ checkins[<<l, c>>].sum # Unsaid

\* effective_annual_*_entries, and the entries the summary expects in a month
Effective(y) == {l \in DOMAIN budget : budget[l].active /\ Applies(budget[l], y)}
Expected(c) == {l \in Effective(c[1]) : PlansFor(l, c)}
SlotMates(l, here) == {k \in here : budget[k].slot = budget[l].slot}

\* build_*_monthly_plan_vs_executed_summary: the ledger decides a slot it knows,
\* then the amounts the user stated, then every other check-in by itself.
PendingIn(c) ==
  LET here == Expected(c) IN
  {l \in here : /\ ~InLedger(l, c) /\ ~CheckedIn(l, c)
                /\ \A k \in SlotMates(l, here) : ~Overrides(k, c)}
CountedIn(c) ==
  LET here == Expected(c) IN
  {l \in here : /\ ~InLedger(l, c) /\ CheckedIn(l, c)
                /\ Overrides(l, c) \/ \A k \in SlotMates(l, here) : ~Overrides(k, c)}

\* _get_uncovered_income_entries_for_month, _get_uncovered_expense_entries_for_month
Uncovered(c) ==
  {l \in DOMAIN budget :
     /\ budget[l].active /\ ~InLedger(l, c) /\ ~CheckedIn(l, c)
     /\ PlansFor(l, c) /\ PlannedIn(l, c) > 0}

-----------------------------------------------------------------------------
Quiet == [op |-> "none"]
NewRow == <<0, 0>>    \* a check-in being created has no month yet
GoneRow == <<0, 1>>   \* the check-in being changed was deleted meanwhile
Save(l, at, to, row) == 
  [op |-> "save", line |-> l, found |-> at, at |-> at, to |-> to, row |-> row, late |-> FALSE]
Accept(c, todo) == [op |-> "accept", cell |-> c, todo |-> todo]
Free(v) == visit[v].op = "none"
Saving(v) == visit[v].op = "save"
WithRow(f, k, row) == [j \in DOMAIN f \cup {k} |-> IF j = k THEN row ELSE f[j]]
EndVisit(v) == visit' = [visit EXCEPT ![v] = Quiet]

BudgetInit ==
  /\ budget = <<>> /\ lineEdits = 0 /\ checkins = <<>> /\ executed = <<>> /\ reshaped = {}
  /\ closed = [c \in CloseCells |-> "draft"]
  /\ visit = [v \in Visits |-> Quiet]

StatusOfClose(c) == IF c \in CloseCells THEN closed[c] ELSE "draft"
\* fault: a locked month is not refused
FinalizedOnly(c) == StatusOfClose(c) = "finalized"
\* _assert_monthly_close_not_finalized
ClosedNow(c) == StatusOfClose(c) \in {"finalized", "locked"}

(* Lines *)

CreateLine(l, s) ==
  /\ l \notin DOMAIN budget /\ \A v \in Visits : Free(v)
  /\ FormAccepted(s)
  /\ budget' = WithRow(budget, l, FormStored(s))
  /\ UNCHANGED <<lineEdits, checkins, executed, closed, visit, reshaped>>

\* fault: check-ins outlive their line
RowsOutlive(l) == {}
RowsOfLine(l) == {k \in DOMAIN checkins : k[1] = l}
Awaited(l) == \E v \in Visits : \/ Saving(v) /\ visit[v].line = l
                                \/ visit[v].op = "accept" /\ \E r \in Range(visit[v].todo) : r[1] = l
Rewrite(l, s) ==
  /\ lineEdits < MaxLineEdits /\ lineEdits' = lineEdits + 1
  /\ budget' = [budget EXCEPT ![l] = s]
  /\ reshaped' = IF RowsOfLine(l) # {} \/ Awaited(l) THEN reshaped \cup {l} ELSE reshaped
  /\ UNCHANGED <<checkins, executed, closed, visit>>

\* A mirror of an asset or a liability keeps its term, whatever the form says.
EditLine(l, s) ==
  LET kept == IF budget[l].mirror
              THEN [s EXCEPT !.first = budget[l].first, !.last = budget[l].last,
                             !.endYear = budget[l].endYear, !.mirror = TRUE]
              ELSE s IN
  /\ ~s.mirror /\ s.kind = budget[l].kind /\ FormAccepted(kept)
  /\ Rewrite(l, FormStored(kept))
PatchLine(l, sum, on) == Rewrite(l, [Patched(budget[l], sum) EXCEPT !.active = on])

\* The check-ins go with their line, those of closed months too.
DeleteBudgetLine(l) ==
  /\ budget' = [k \in DOMAIN budget \ {l} |-> budget[k]]
  /\ checkins' = [k \in DOMAIN checkins \ RowsOfLine(l) |-> checkins[k]]
  /\ visit' = [v \in Visits |-> IF Saving(v) /\ visit[v].line = l THEN Quiet ELSE visit[v]]
  /\ reshaped' = reshaped \ {l}
  /\ UNCHANGED <<lineEdits, executed, closed>>

\* Movements of a slot are booked in a month, changed or deleted.
BookSlot(s, c, total) ==
  /\ executed' = IF <<s, c>> \in DOMAIN executed
                 THEN [k \in DOMAIN executed \ {<<s, c>>} |-> executed[k]]
                 ELSE (<<s, c>> :> total) @@ executed
  /\ UNCHANGED <<budget, lineEdits, checkins, closed, visit, reshaped>>

(* Check-ins *)

\* fault: a check-in is taken for any year and month
FitsAnyMonth(s, c) == TRUE
\* validate: the year of the line, the month it is aimed at
CheckinFits(s, c) ==
  /\ s.year = c[1]
  /\ s.target # Whenever => s.target = c[2]
AnswerStored(a) == IF a.status = "skipped" THEN [a EXCEPT !.sum = Unsaid] ELSE a

StartCreate(v, l, c, a) ==
  /\ Free(v) /\ CheckinFits(budget[l], c) /\ ~ClosedNow(c)
  /\ visit' = [visit EXCEPT ![v] = Save(l, NewRow, c, AnswerStored(a))]
  /\ UNCHANGED <<budget, lineEdits, checkins, executed, closed, reshaped>>
\* The guard looks at the month the check-in is in, not at the one it goes to.
StartUpdate(v, k, c, a) ==
  /\ Free(v) /\ CheckinFits(budget[k[1]], c) /\ ~ClosedNow(k[2])
  /\ visit' = [visit EXCEPT ![v] = Save(k[1], k[2], c, AnswerStored(a))]
  /\ UNCHANGED <<budget, lineEdits, checkins, executed, closed, reshaped>>

\* Where the requests that hold a check-in find it next.
Moved(from, to, v, w) == IF w # v /\ Saving(w) /\ visit[w].line = from[1] /\ visit[w].at = from[2]
                         THEN [visit[w] EXCEPT !.at = to] ELSE visit[w]
\* A row that has been deleted meanwhile is inserted again.  One row per line
\* and month: the write fails when another one is there.
WriteCheckin(v) ==
  LET s == visit[v]   from == <<s.line, s.at>>   to == <<s.line, s.to>>
      rest == [k \in DOMAIN checkins \ {from} |-> checkins[k]] IN
  /\ Saving(v)
  /\ IF to \in DOMAIN rest
     THEN EndVisit(v) /\ UNCHANGED checkins
     ELSE /\ checkins' = WithRow(rest, to, s.row)
          /\ visit' = [w \in Visits |-> IF w = v THEN Quiet ELSE Moved(from, s.to, v, w)]
  /\ UNCHANGED <<budget, lineEdits, executed, closed, reshaped>>

\* Deleting a check-in is not guarded.
DeleteCheckin(k) ==
  /\ checkins' = [j \in DOMAIN checkins \ {k} |-> checkins[j]]
  /\ visit' = [w \in Visits |-> Moved(k, GoneRow, 0, w)]
  /\ UNCHANGED <<budget, lineEdits, executed, closed, reshaped>>

(* Suggestions *)

\* compute_smart_distribution, as accepting calls it: what was planned, income
\* first, the newest line first.
Comes(a, b) == IF budget[a].kind = budget[b].kind THEN a > b ELSE budget[a].kind = "income"
Suggested(c) == LET ids == SetToSortSeq(Uncovered(c), Comes) IN
  [i \in DOMAIN ids |-> <<ids[i], PlannedIn(ids[i], c)>>]

StartAccept(v, c) ==
  /\ Free(v) /\ StatusOfClose(c) # "locked" /\ Uncovered(c) # {}
  /\ visit' = [visit EXCEPT ![v] = Accept(c, Suggested(c))]
  /\ UNCHANGED <<budget, lineEdits, checkins, executed, closed, reshaped>>
\* get_or_create, row by row; a line that is gone ends the request there.
AcceptRow(v) ==
  /\ visit[v].op = "accept"
  /\ LET l == Head(visit[v].todo)[1]   sum == Head(visit[v].todo)[2]
         rest == Tail(visit[v].todo)   k == <<l, visit[v].cell>> IN
     /\ checkins' = IF l \notin DOMAIN budget \/ k \in DOMAIN checkins THEN checkins
                    ELSE WithRow(checkins, k, [status |-> "estimated", sum |-> sum])
     /\ visit' = [visit EXCEPT ![v] = IF l \notin DOMAIN budget \/ rest = <<>> THEN Quiet
                                      ELSE [@ EXCEPT !.todo = rest]]
  /\ UNCHANGED <<budget, lineEdits, executed, closed, reshaped>>

(* Closes *)

After(c) == {d \in CloseCells : d[1] > c[1] \/ (d[1] = c[1] /\ d[2] > c[2])}
FinalizeMonth(c) ==
  /\ closed[c] = "draft" /\ closed' = [closed EXCEPT ![c] = "finalized"]
  /\ visit' = [v \in Visits |-> IF Saving(v) /\ visit[v].to = c
                                THEN [visit[v] EXCEPT !.late = TRUE] ELSE visit[v]]
  /\ UNCHANGED <<budget, lineEdits, checkins, executed, reshaped>>
LockMonth(c) ==
  /\ closed[c] = "finalized" /\ closed' = [closed EXCEPT ![c] = "locked"]
  /\ UNCHANGED <<budget, lineEdits, checkins, executed, visit, reshaped>>
ReopenMonth(c) ==
  /\ closed[c] = "finalized" /\ \A d \in After(c) : closed[d] # "locked"
  /\ closed' = [d \in CloseCells |-> IF d \in {c} \cup After(c) THEN "draft" ELSE closed[d]]
  /\ UNCHANGED <<budget, lineEdits, checkins, executed, visit, reshaped>>

BudgetNext ==
  \/ \E l \in BudgetLines, s \in LineForms : CreateLine(l, s)
  \/ \E l \in DOMAIN budget : (\E s \in LineForms : EditLine(l, s)) \/ DeleteBudgetLine(l)
                              \/ \E sum \in PatchedSums \cup {budget[l].sum}, on \in BOOLEAN : PatchLine(l, sum, on)
  \/ \E b \in SlotBookings : BookSlot(b[1], b[2], b[3])
  \/ \E v \in Visits, c \in AnswerCells, a \in Answers :
       \/ \E l \in DOMAIN budget : StartCreate(v, l, c, a)
       \/ \E k \in DOMAIN checkins : StartUpdate(v, k, c, a)
  \/ \E v \in Visits : WriteCheckin(v) \/ AcceptRow(v) \/ \E c \in AnswerCells : StartAccept(v, c)
  \/ \E k \in DOMAIN checkins : DeleteCheckin(k)
  \/ \E c \in CloseCells : FinalizeMonth(c) \/ LockMonth(c) \/ ReopenMonth(c)

BudgetSpec == BudgetInit /\ [][BudgetNext]_budgetVars

-----------------------------------------------------------------------------
BudgetTypeOK ==
  /\ DOMAIN budget \subseteq BudgetLines /\ reshaped \subseteq DOMAIN budget
  /\ \A l \in DOMAIN budget : IsLine(budget[l]) /\ DOMAIN Distribution(budget[l], 1) \subseteq YearMonths
  /\ \A k \in DOMAIN checkins : k[1] \in DOMAIN budget /\ checkins[k] \in AnswerRows
  /\ closed \in [CloseCells -> {"draft", "finalized", "locked"}]

\* What a month's summary counts as pending and what its close suggests to fill
\* in are the same lines, read from the rows in two ways: they differ only in
\* lines that plan nothing positive, and in slots the user already stated an
\* amount for through another line, which are filled in without being pending.
PendingIsSuggested ==
  \A c \in AnswerCells : LET pending == PendingIn(c)  filled == Uncovered(c) IN
    /\ \A l \in pending \ filled : PlannedIn(l, c) <= 0
    /\ \A l \in filled \ pending : \E k \in SlotMates(l, Expected(c)) \ {l} : Overrides(k, c)

\* A check-in that was let in counts: what it says is in the summary of its
\* month, unless the ledger or an amount stated for its slot decides there.
\* Not asked for: lines changed since, out of use or of nothing, and months
\* outside the term of a line, whose check-ins are let in and never counted.
CheckinsCount ==
  \A k \in DOMAIN checkins :
    LET l == k[1]  c == k[2]  s == budget[l] IN
    (/\ l \notin reshaped /\ s.active /\ YearSum(s, c[1]) > 0
     /\ s.profile = "term" => c[2] \in FirstOf(s, c[1])..EndOf(s, c[1]))
      => \/ l \in CountedIn(c) \/ InLedger(l, c)
         \/ l \in Expected(c) /\ \E m \in SlotMates(l, Expected(c)) : Overrides(m, c)

\* However lines and answers change, every month adds up: each answer counts in
\* its month, and what a close offers to fill in is what its summary lacks.
MonthsAddUp == PendingIsSuggested /\ CheckinsCount

\* The check-ins of a closed month are written only by requests that found it
\* open, by those that bring one over from an open month, and by an acceptance
\* of suggestions, which adds estimates where there is nothing.
ClosedCheckinsGuarded ==
  [][\A k \in DOMAIN checkins' :
       (StatusOfClose(k[2]) # "draft" /\ (k \in DOMAIN checkins => checkins'[k] # checkins[k]))
         => \E v \in Visits :
              \/ visit[v].op = "accept" /\ k \notin DOMAIN checkins /\ checkins'[k].status = "estimated"
              \/ /\ Saving(v) /\ visit[v].to = k[2]
                 /\ visit[v].late \/ visit[v].found \notin {NewRow, k[2]}]_budgetVars
=============================================================================
