------------------------------ MODULE PlanEvents ------------------------------
(***************************************************************************)
(* The decisions of the financial plan and the budget lines they own       *)
(* (backend/plan, backend/budget/plan_lineage.py).  A decision is foreseen *)
(* (a scenario that was accepted, or lines that the household grouped) or  *)
(* had already been taken; it is edited, cancelled, made real, retired     *)
(* from a date on, or undone.  A line belongs to a decision by its         *)
(* event_group.  Every request is one transaction.                         *)
(*                                                                         *)
(* Amounts are left out.  A line counts from January of its year: a        *)
(* retirement is in January or later in the year.                          *)
(***************************************************************************)
EXTENDS Integers, FiniteSets, FiniteSetsExt, Functions, SequencesExt

CONSTANTS
  OwnLines,   \* lines the household has entered: id -> [category, year, until, once, group]
  Drafts,     \* scenarios
  Terms,      \* years a debt may be paid in; {} is no debt
  PlanYears,  \* bound: years
  MaxEvents,  \* bound: decisions
  MaxLine     \* bound: lines, by id

NoGroup == 0
OwnGroup == -1
Always == 99
LiabilityGroup(e) == 1000 + e
Purposes == {"mortgage", "loan"}   \* default_debt_budget_mapping of the event type
ASSUME PlanAssumption ==
  /\ MaxEvents \in 1..900 /\ MaxLine \in Nat /\ PlanYears \subseteq 1..(Always - 1) /\ Terms \subseteq SUBSET PlanYears
  /\ DOMAIN OwnLines \subseteq 1..MaxLine
  /\ \A l \in DOMAIN OwnLines : OwnLines[l].group \in {NoGroup, OwnGroup}

VARIABLES
  planned,    \* decision -> [status, purpose, term, scenario, retired, adopted]
  issuedIds,  \* decisions there have ever been
  lines,      \* line -> [category, year, until, once, group, debtOf, by]
  drafts,     \* scenario -> its status
  liabilities,\* liabilities each decision has created
  patched     \* history: decisions whose fields were written by hand

planVars == <<planned, issuedIds, lines, drafts, liabilities, patched>>

-----------------------------------------------------------------------------
\* A decision that is cancelled is deleted.
IsDecision(d) == d.status \in {"planned", "occurred"} /\ d.purpose \in Purposes /\ d.term \in Terms /\ d.scenario \subseteq Drafts
DraftStates == {"draft", "accepted", "discarded"}
Decisions == DOMAIN planned
LinesOf(e) == {l \in DOMAIN lines : lines[l].group = e}
\* parse_plan_event_id, plan_lineage_for_entry
Claimed(l) == lines[l].group \in 1..MaxEvents
Managed(l) == lines[l].group \in Decisions

DebtLine(e, purpose, y, group, by) ==
  [category |-> purpose, year |-> y, until |-> y, once |-> FALSE,
   group |-> group, debtOf |-> e, by |-> by]

\* Rows get the ids that follow.
FirstId(f) == 1 + Max(DOMAIN f \cup {0})
Appended(f, rows) ==
  LET row == SetToSeq(rows)   first == FirstId(f) IN
  [i \in DOMAIN f \cup (first..(first + Len(row) - 1)) |->
     IF i \in DOMAIN f THEN f[i] ELSE row[i - first + 1]]
Bounded(f) == DOMAIN f \subseteq 1..MaxLine
WithDecision(e, row) == [d \in Decisions \cup {e} |-> IF d = e THEN row ELSE planned[d]]
Dropped(f, S) == [l \in DOMAIN f \ S |-> f[l]]

\* _replace_planned_decision_financing_entries, create_budget_entries_for_scenario
Forecast(e, purpose, term, by) == {DebtLine(e, purpose, y, e, by) : y \in term}
FinancingOf(e) == {l \in LinesOf(e) : lines[l].by = "plan"}
Regenerated(f, e, purpose, term) == Appended(Dropped(f, FinancingOf(e)), Forecast(e, purpose, term, "plan"))

-----------------------------------------------------------------------------
TypedIn(l) ==
  [category |-> l.category, year |-> l.year, until |-> l.until, once |-> l.once, group |-> l.group,
   debtOf |-> 0, by |-> "household"]
PlanInit ==
  /\ planned = <<>> /\ issuedIds = 0 /\ patched = {}
  /\ lines = [l \in DOMAIN OwnLines |-> TypedIn(OwnLines[l])]
  /\ drafts = [s \in Drafts |-> "draft"]
  /\ liabilities = [e \in 1..MaxEvents |-> 0]

NewDecision(e) == e = issuedIds + 1 /\ e <= MaxEvents /\ issuedIds' = e

\* ScenarioService.accept
AcceptScenario(e, s, purpose, term) ==
  /\ NewDecision(e) /\ drafts[s] = "draft"
  /\ planned' = WithDecision(e, [status |-> "planned", purpose |-> purpose, term |-> term,
                                  scenario |-> {s}, retired |-> 0, adopted |-> <<>>])
  /\ lines' = Appended(lines, Forecast(e, purpose, term, "scenario")) /\ Bounded(lines')
  /\ drafts' = [drafts EXCEPT ![s] = "accepted"]
  /\ UNCHANGED <<liabilities, patched>>

DiscardScenario(s) ==
  /\ drafts[s] # "accepted"
  /\ drafts' = [drafts EXCEPT ![s] = "discarded"]
  /\ UNCHANGED <<planned, issuedIds, lines, liabilities, patched>>

\* _adopt_budget_entries: one line that cannot be adopted refuses them all.
Adoptable(l) == ~Claimed(l) /\ lines[l].by # "liability"
Adopted(e, S) == [l \in DOMAIN lines |-> IF l \in S THEN [lines[l] EXCEPT !.group = e] ELSE lines[l]]
\* register_occurred_event, register_planned_decision
Register(e, S, status, purpose, term) ==
  /\ NewDecision(e) /\ \A l \in S : Adoptable(l)
  /\ planned' = WithDecision(e, [status |-> status, purpose |-> purpose, term |-> term,
                                  scenario |-> {}, retired |-> 0,
                                  adopted |-> [l \in S |-> lines[l].group]])
  /\ lines' = Appended(Adopted(e, S), IF status = "planned" THEN Forecast(e, purpose, term, "plan") ELSE {})
  /\ Bounded(lines')
  /\ UNCHANGED <<drafts, liabilities, patched>>

\* update_planned_decision, _update_scenario_backed_decision
EditDecision(e, purpose, term) ==
  /\ e \in Decisions /\ planned[e].status = "planned"
  /\ planned' = [planned EXCEPT ![e].purpose = purpose, ![e].term = term]
  /\ lines' = IF planned[e].scenario # {}
                THEN Appended(Dropped(lines, LinesOf(e)), Forecast(e, purpose, term, "scenario"))
                ELSE Regenerated(lines, e, purpose, term)
  /\ Bounded(lines')
  /\ UNCHANGED <<issuedIds, drafts, liabilities, patched>>

\* PATCH of the event: status, type and what it registered are written as sent,
\* and its lines stay.  Writing what it registered makes it occurred.
PatchDecision(e, status, purpose, forgotten) ==
  /\ e \in Decisions /\ (forgotten => status = "occurred")
  /\ planned' = [planned EXCEPT ![e].status = status, ![e].purpose = purpose,
                                ![e].adopted = IF forgotten THEN <<>> ELSE @]
  /\ patched' = patched \cup {e}
  /\ UNCHANGED <<issuedIds, lines, drafts, liabilities>>

Given(f, S, groups) == [l \in DOMAIN f |-> IF l \in S THEN [f[l] EXCEPT !.group = groups[l]] ELSE f[l]]

\* fault: the forecast is handed to the household too
AllHandedBack(e) == {}
\* The lines of the financing: the liability makes its own.
Superseded(e) ==
  IF planned[e].term = {} THEN {} ELSE {l \in LinesOf(e) : lines[l].category = planned[e].purpose}
\* materialize_plan_event: the liability starts on the real date.
Materialize(e, term) ==
  /\ e \in Decisions /\ planned[e].status = "planned" /\ (term = {} <=> planned[e].term = {})
  /\ LET kept == Dropped(lines, Superseded(e))
         back == Given(kept, LinesOf(e) \cap DOMAIN kept, [l \in DOMAIN kept |-> NoGroup])
     IN lines' = Appended(back, {DebtLine(e, planned[e].purpose, y, LiabilityGroup(e), "liability") : y \in term})
  /\ Bounded(lines')
  /\ planned' = [planned EXCEPT ![e].status = "occurred"]
  /\ liabilities' = [liabilities EXCEPT ![e] = IF term = {} THEN @ ELSE @ + 1]
  /\ liabilities[e] < 2
  /\ UNCHANGED <<issuedIds, drafts, patched>>

\* fault: every line goes with the decision
NoneReturned(e) == {}
Returned(e) == LinesOf(e) \cap DOMAIN planned[e].adopted
\* cancel_plan_event
Cancel(e) ==
  /\ e \in Decisions /\ planned[e].status = "planned"
  /\ lines' = Dropped(Given(lines, Returned(e), planned[e].adopted), LinesOf(e) \ Returned(e))
  /\ planned' = Dropped(planned, {e})
  /\ drafts' = [s \in Drafts |-> IF s \in planned[e].scenario THEN "draft" ELSE drafts[s]]
  /\ UNCHANGED <<issuedIds, liabilities, patched>>

\* release_occurred_event
Release(e) ==
  /\ e \in Decisions /\ planned[e].status = "occurred"
  /\ lines' = Given(lines, LinesOf(e) \cap DOMAIN planned[e].adopted, planned[e].adopted)
  /\ planned' = Dropped(planned, {e})
  /\ UNCHANGED <<issuedIds, drafts, liabilities, patched>>

\* _retire_budget_entries: from January of year y, or from a later month of it
Ended(l, y, january) ==
  ~lines[l].once /\ (lines[l].year > y \/ (lines[l].year = y /\ january))
Cut(l, y) == ~lines[l].once /\ lines[l].until >= y
UntilThen(l, y) == [lines[l] EXCEPT !.until = IF @ < y THEN @ ELSE IF lines[l].year < y THEN y - 1 ELSE y]
\* The months of the year the decision is retired in
Remainder(l, y) == [lines[l] EXCEPT !.year = y, !.until = y, !.by = "remainder"]
Retire(e, y, january) ==
  /\ e \in Decisions /\ planned[e].retired = 0
  /\ LET gone == {l \in LinesOf(e) : Ended(l, y, january)}
         cut  == {l \in LinesOf(e) \ gone : Cut(l, y)}
         rest == [l \in DOMAIN lines \ gone |-> IF l \in cut THEN UntilThen(l, y) ELSE lines[l]]
     IN lines' = Appended(rest, {Remainder(l, y) : l \in {c \in cut : ~january /\ lines[c].year < y}})
  /\ Bounded(lines')
  /\ planned' = [planned EXCEPT ![e].retired = y]
  /\ UNCHANGED <<issuedIds, drafts, liabilities, patched>>

\* A line that no decision manages is the household's to delete.
DeleteLine(l) ==
  /\ l \in DOMAIN lines /\ ~Managed(l) /\ lines[l].by # "liability"
  /\ lines' = Dropped(lines, {l})
  /\ UNCHANGED <<planned, issuedIds, drafts, liabilities, patched>>

PlanNext ==
  \/ \E e \in 1..MaxEvents, s \in Drafts, p \in Purposes, t \in Terms : AcceptScenario(e, s, p, t)
  \/ \E s \in Drafts : DiscardScenario(s)
  \/ \E e \in 1..MaxEvents, S \in SUBSET DOMAIN lines, p \in Purposes :
       \/ Register(e, S, "occurred", p, {})
       \/ \E t \in Terms : Register(e, S, "planned", p, t)
  \/ \E e \in 1..MaxEvents, p \in Purposes, t \in Terms : EditDecision(e, p, t)
  \/ \E e \in 1..MaxEvents, status \in {"planned", "occurred"}, p \in Purposes, forgotten \in BOOLEAN :
       PatchDecision(e, status, p, forgotten)
  \/ \E e \in 1..MaxEvents, t \in Terms : Materialize(e, t)
  \/ \E e \in 1..MaxEvents : Cancel(e) \/ Release(e)
  \/ \E e \in 1..MaxEvents, y \in PlanYears, january \in BOOLEAN : Retire(e, y, january)
  \/ \E l \in 1..MaxLine : DeleteLine(l)

PlanSpec == PlanInit /\ [][PlanNext]_planVars

-----------------------------------------------------------------------------
PlanTypeOK ==
  /\ Decisions \subseteq 1..issuedIds /\ issuedIds \in 0..MaxEvents /\ patched \subseteq 1..MaxEvents
  /\ \A e \in Decisions : IsDecision(planned[e])
  /\ DOMAIN lines \subseteq 1..MaxLine
  /\ \A l \in DOMAIN lines : lines[l].group \in {NoGroup, OwnGroup} \cup 1..MaxEvents \cup {LiabilityGroup(e) : e \in 1..MaxEvents}
  /\ drafts \in [Drafts -> DraftStates]

\* The debt of a decision is in the budget once: while it is foreseen, one line
\* of the plan for each year and no liability; when it has been made real, the
\* lines of its one liability.  Decisions that were retired or written by hand aside.
DebtCountedOnce ==
  \A e \in Decisions \ patched :
    LET shares == {l \in DOMAIN lines : lines[l].debtOf = e}
        foreseen == {l \in shares : lines[l].by \in {"plan", "scenario"}}
    IN planned[e].retired = 0 =>
         IF planned[e].status = "planned"
           THEN /\ shares = foreseen /\ liabilities[e] = 0
                /\ \A y \in PlanYears : Cardinality({l \in shares : lines[l].year = y})
                                          = IF y \in planned[e].term THEN 1 ELSE 0
           ELSE foreseen = {} /\ liabilities[e] = IF planned[e].term = {} THEN 0 ELSE 1

\* What the household entered and the plan took over is the household's still:
\* it only disappears when its decision is retired, or as the financing of a
\* decision that is made real; cancelling, editing and undoing return it.
\* Decisions that were written by hand aside.
OwnLinesStay ==
  [][\A l \in DOMAIN lines \ DOMAIN lines' :
       LET e == lines[l].group IN
       lines[l].by = "household" /\ Managed(l) /\ e \notin patched =>
         /\ e \in Decisions'
         /\ \/ planned'[e].retired # planned[e].retired
            \/ /\ planned[e].status = "planned" /\ planned'[e].status = "occurred"
               /\ lines[l].category = planned[e].purpose /\ planned[e].term # {}]_planVars
=============================================================================
