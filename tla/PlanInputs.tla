------------------------------ MODULE PlanInputs ------------------------------
(***************************************************************************)
(* What the projection of the financial plan starts from                   *)
(* (build_projection_inputs): the budget of the year that has begun, the   *)
(* lines of later years, the decisions that are foreseen and what the      *)
(* household owns and owes.  A decision is in the budget, by the lines     *)
(* its scenario makes when it is accepted, and among the decisions of the  *)
(* projection: each of its amounts must reach the projection by one of     *)
(* the two.  Which one changes as the calendar moves and when the decision *)
(* becomes real.                                                           *)
(*                                                                         *)
(* An event of a scenario has the fields of a Decision of the projection   *)
(* and "endMonth", the month it ends in.  Contributions that investments   *)
(* make by themselves are due on the first of a month.                     *)
(***************************************************************************)
EXTENDS PlanArithmetic

CONSTANTS
  Simulations,  \* scenarios: [sort, events]
  HouseLines,   \* sets of lines the household may have in its budget
  Estates,      \* what it may own and owe: [assets, debts, dues, repayYears]
  Aim,          \* the plan and its assumptions, as PlanProjection has them
  LastClock     \* bound: the last year that begins

NoUse == "inferred"   \* no use stated for a position
Nowhere == <<0, "nowhere">>   \* no position a debt is on
Outlays == {"vehicle", "housing", "renovation"}   \* the sorts that buy something
Functions == {"productive", "security", "family_use", "short_term_goal", "unknown"}
ScenarioEvent ==
  [start : Nat \ {0}, month : 1..LastMonth, end : Nat, endMonth : 1..LastMonth, stopYear : Nat, stopMonth : Nat,
   outflow : Nat, proceeds : Nat, expense : Int, income : Int, contribution : Nat,
   destination : {"productive", "security", "debt"}, asset : Nat, assetFor : Functions,
   sort : Outlays \cup {"studies", "business", "generic"}, debt : Nat, term : Nat,
   sold : Nat, soldFor : Functions, soldDebt : Nat, absorbed : {FALSE}]
Entry ==
  [of : {<<0, "household">>} \cup (Nat \X {"outlay", "financing", "expense", "contribution", "income"}),
   kind : {"income", "expense"}, role : {"operating", "temporary_commitment", "savings", "investment",
     "asset_purchase", "asset_sale", "tax_fee", "transfer", "other"},
   sum : Nat, profile : {"structural", "term", "one_off"}, year : Nat, endYear : Nat,
   first : 1..LastMonth, last : 1..LastMonth, target : 0..LastMonth,
   monthly : BOOLEAN, mirror : BOOLEAN, system : BOOLEAN, group : {"none", "sale", "plan", "liability"}]
HouseEntry == {l \in Entry : l.of[1] = 0 /\ l.group # "plan"}
\* Positions have names of their own, and what is owed on one is owed on a position there is.
IsEstate(h) ==
  /\ IsFiniteSet(h.assets) /\ IsFiniteSet(h.debts)
  /\ \A a \in h.assets : a.name # Nowhere /\ a.worth \in Int /\ a.use \in Functions \cup {NoUse}
  /\ \A a, b \in h.assets : a.name = b.name => a = b
  /\ \A d \in h.debts : d.owed \in Int /\ d.on \in {a.name : a \in h.assets} \cup {Nowhere}
ASSUME InputsAssumption ==
  /\ LastClock \in Nat \ {0} /\ LastClock <= Aim.horizon
  /\ \A s \in Simulations : s.events \in Seq(ScenarioEvent)
  /\ \A h \in HouseLines : \A l \in h : l \in HouseEntry
  /\ \A h \in Estates : IsEstate(h) /\ \A a \in h.assets : a.name[1] = 0

VARIABLES
  clock,     \* [year, month]: the month that runs
  simulated, \* the scenario of the household
  stage,     \* "draft", or the status of its decision
  since,     \* when it became real
  entries,   \* the lines of the budget
  estate     \* what the household owns and owes

inputVars == <<clock, simulated, stage, since, entries, estate>>

-----------------------------------------------------------------------------
(* The lines of a scenario *)

\* recurring_year_slots: a line for each year; without an end, the rest of the first year and then always.
YearSlot(y, first, last) == [profile |-> "term", year |-> y, endYear |-> y, first |-> first, last |-> last]
FromThenOn(y) == [profile |-> "structural", year |-> y, endYear |-> NoYear, first |-> 1, last |-> LastMonth]
SlotsOf(e) ==
  IF e.end = NoYear
  THEN IF e.month = 1 THEN {FromThenOn(e.start)}
       ELSE {YearSlot(e.start, e.month, LastMonth), FromThenOn(e.start + 1)}
  ELSE {YearSlot(y, IF y = e.start THEN e.month ELSE 1, IF y = e.end THEN e.endMonth ELSE LastMonth) :
          y \in e.start..e.end}

\* end_date_from_term
OverItsTerm(e) ==
  LET total == e.month + e.term * LastMonth - 2 IN
  [e EXCEPT !.end = e.start + total \div LastMonth, !.endMonth = (total % LastMonth) + 1]
\* debt_monthly_payment
Instalment(e) == HalfUpOf(e.debt, e.term * LastMonth)

EntryFor(of, kind, role, sum, s) ==
  [of |-> of, kind |-> kind, role |-> role, sum |-> sum, profile |-> s.profile, year |-> s.year,
   endYear |-> s.endYear, first |-> s.first, last |-> s.last, target |-> Whenever,
   monthly |-> FALSE, mirror |-> FALSE, system |-> kind = "expense", group |-> "plan"]
\* recurring_budget_lines, recurring_income_lines
MonthlyEntries(of, kind, role, monthly, e) ==
  IF monthly <= 0 THEN {}
  ELSE {EntryFor(of, kind, role, monthly * Greater(1, s.last - s.first + 1), s) : s \in SlotsOf(e)}

\* default_purchase_budget_mapping, and where contributions go
OutlayRole(sort) == IF sort \in Outlays THEN "asset_purchase" ELSE "operating"
ContributionRole(e) ==
  CASE e.destination = "security" -> "savings" [] e.destination = "debt" -> "temporary_commitment"
    [] OTHER -> "investment"

\* default_budget_lines_for_event
OutlayOf(sort, i, e) ==
  IF e.outflow <= 0 THEN {}
  ELSE {[EntryFor(<<i, "outlay">>, "expense", OutlayRole(sort), e.outflow,
                  [YearSlot(e.start, 1, LastMonth) EXCEPT !.profile = "one_off"]) EXCEPT !.target = e.month]}
FinancingEntries(i, e) ==
  IF e.debt <= 0 \/ e.term = 0 THEN {}
  ELSE MonthlyEntries(<<i, "financing">>, "expense", "temporary_commitment", Instalment(e), OverItsTerm(e))
EntriesOf(sort, i, e) ==
  OutlayOf(sort, i, e) \cup FinancingEntries(i, e)
  \cup MonthlyEntries(<<i, "expense">>, "expense", "operating", e.expense, e)
  \cup MonthlyEntries(<<i, "contribution">>, "expense", ContributionRole(e), e.contribution, e)
  \cup MonthlyEntries(<<i, "income">>, "income", "other", e.income, e)

Events == DOMAIN simulated.events
\* create_budget_entries_for_scenario, but for lines of nothing
ScenarioEntries == UNION {EntriesOf(simulated.sort, i, simulated.events[i]) : i \in Events}

-----------------------------------------------------------------------------
(* What is read of the budget: E is its lines, D the events of the decision while it is foreseen *)

ExpenseEntries(E) == {l \in E : l.kind = "expense"}
IncomeEntries(E) == {l \in E : l.kind = "income"}
InForceNow(E) == {l \in E : Applies(l, clock.year)}
SumOf(S) == Over(S, [l \in S |-> l.sum])
\* Of this year, the months that have not begun.
Coming(l, y) ==
  LET planned == Distribution(l, y) IN
  Over({m \in DOMAIN planned : y > clock.year \/ m > clock.month}, planned)
ComingOf(S, y) == Over(S, [l \in S |-> Coming(l, y)])

\* structural_income_entries, expense_buckets
Regular(E) == {l \in IncomeEntries(InForceNow(E)) : l.profile # "one_off"}
WithRole(E, role) == {l \in ExpenseEntries(E) : l.role = role}
Daily(E) == WithRole(InForceNow(E), "operating")

\* A fault: the instalments of a decision are commitments too.
NoneServed(D, l) == FALSE
\* financed_decision_event_groups: the projection pays these from the decision's own debt.
ServedByDebt(D, l) == l.group = "plan" /\ \E i \in DOMAIN D : D[i].debt > 0
CommitmentsOf(E, D) == {l \in WithRole(E, "temporary_commitment") : ~ServedByDebt(D, l)}
\* temporary_commitment_schedule: lines of the household with a term stand for the years that follow.
Repeats(l, y) == l.year = clock.year /\ ~l.system /\ (l.endYear = NoYear \/ y <= l.endYear)
CommittedIn(E, D, y) == SumOf({l \in CommitmentsOf(E, D) : l.year = y \/ Repeats(l, y)})

\* A fault: a decision is in the budget a year later.
AbsorbedLater(start) == start < clock.year
\* plan_event_payloads: the lines of its year are in the budget of the year that runs.
Absorbed(start) == start <= clock.year
PayloadsOf(D) == [i \in DOMAIN D |-> [D[i] EXCEPT !.absorbed = Absorbed(D[i].start)]]

\* planned_contribution_schedule: what a decision contributes is its own until one of its events begins.
\* The lines that mirror what investments make by themselves are left out.
Directing(E, D, role) ==
  {l \in WithRole(E, role) :
     ~l.mirror /\ (l.group = "plan" => \E i \in DOMAIN D : D[i].start <= clock.year)}
SomeTime(l) == l.profile = "one_off" /\ l.target = Whenever
DirectedBy(S, y) ==
  ComingOf(S, y)
  + SumOf({l \in S : SomeTime(l) /\ l.year = y /\ (y > clock.year \/ clock.month < LastMonth)})
DuesIn(y) == {d \in estate.dues : d.year = y /\ (y > clock.year \/ d.month > clock.month)}
DirectedIn(E, D, y) ==
  [security |-> DirectedBy(Directing(E, D, "savings"), y),
   productive |-> DirectedBy(Directing(E, D, "investment"), y)
                  + Over(DuesIn(y), [d \in DuesIn(y) |-> d.amount])]

\* one_off_flows: what has not happened, decisions and contributions aside, and no sale with its costs.
StillComing(l, y) ==
  /\ l.profile = "one_off" /\ l.year = y /\ l.group # "plan"
  /\ y > clock.year \/ l.target = Whenever \/ l.target > clock.month
SaleGroups(E) == {l.group : l \in {i \in IncomeEntries(E) : i.role = "asset_sale" /\ i.year >= clock.year}} \ {"none"}
Received(E, y) == {l \in IncomeEntries(E) : StillComing(l, y) /\ l.role # "asset_sale"}
Spent(E, y) ==
  {l \in ExpenseEntries(E) : /\ StillComing(l, y) /\ ~l.system
                        /\ l.group \notin SaleGroups(E) /\ l.role \notin {"savings", "investment"}}
FlowsIn(E, y) ==
  LET buying == WithRole(Spent(E, y), "asset_purchase") IN
  [income |-> SumOf(Received(E, y)), purchase |-> SumOf(buying), outflow |-> SumOf(Spent(E, y) \ buying)]

-----------------------------------------------------------------------------
(* What is read of positions *)

\* infer_function
InferredUse(a) ==
  CASE a.category \in {"investments", "second_home", "rental"} -> "productive"
    [] a.category = "cash" -> "security"
    [] a.category \in {"primary_home", "vehicle", "furnishings"} -> "family_use"
    [] OTHER -> "unknown"
UseOf(a) == IF a.use = NoUse THEN InferredUse(a) ELSE a.use
OwedOn(a) == LET on == {d \in estate.debts : d.on = a.name} IN Over(on, [d \in on |-> d.owed])
NetOf(a) == a.worth - OwedOn(a)
\* summarize: functions hold positions less what is owed on them.
UsedAs(uses) == LET S == {a \in estate.assets : UseOf(a) \in uses} IN Over(S, [a \in S |-> NetOf(a)])
OwedIn(S) == Over(S, [d \in S |-> d.owed])
\* asset_category_totals: categories hold all of them.
CategoryKind(a) ==
  CASE a.category = "cash" -> "liquidity" [] a.category = "investments" -> "investments"
    [] a.category \in {"primary_home", "second_home", "rental", "land"} -> "realEstate"
    [] a.category \in {"vehicle", "furnishings"} -> "furnishings"
    [] OTHER -> "rest"
KindTotals ==
  [k \in AssetKinds |-> LET S == {a \in estate.assets : CategoryKind(a) = k} IN Over(S, [a \in S |-> a.worth])]

-----------------------------------------------------------------------------
\* build_projection_inputs
Inputs(E, D) ==
  LET years == clock.year..Aim.horizon IN
  [today |-> clock.year, month |-> clock.month, target |-> Aim.target, horizon |-> Aim.horizon, worked |-> 0,
   need |-> Aim.need, preserve |-> Aim.preserve, pension |-> Aim.pension, otherIncome |-> Aim.otherIncome,
   pensionYear |-> Aim.pensionYear, rates |-> Aim.rates,
   productive |-> UsedAs({"productive"}), security |-> UsedAs({"security"}),
   other |-> UsedAs({"family_use", "short_term_goal", "unknown"}),
   tied |-> OwedIn({d \in estate.debts : d.on # Nowhere}), debts |-> OwedIn(estate.debts),
   repayYears |-> estate.repayYears, kinds |-> KindTotals,
   income |-> SumOf(Regular(E)), operating |-> SumOf(Daily(E)),
   commitments |-> [y \in years |-> IF y = clock.year THEN 0 ELSE CommittedIn(E, D, y)],
   directed |-> [y \in years |-> DirectedIn(E, D, y)],
   flows |-> [y \in years |-> FlowsIn(E, y)],
   rest |-> [income |-> ComingOf(Regular(E), clock.year), operating |-> ComingOf(Daily(E), clock.year),
             commitments |-> ComingOf(CommitmentsOf(InForceNow(E), D), clock.year)],
   events |-> PayloadsOf(D)]

Foreseen == IF stage = "planned" THEN simulated.events ELSE <<>>

InputsInit ==
  /\ clock = [year |-> 1, month |-> 1]
  /\ simulated \in Simulations /\ stage = "draft" /\ since = clock
  /\ entries \in HouseLines /\ estate \in Estates

MonthEnded ==
  /\ clock.year < LastClock \/ clock.month < LastMonth
  /\ clock' = IF clock.month < LastMonth THEN [clock EXCEPT !.month = @ + 1]
              ELSE [year |-> clock.year + 1, month |-> 1]
  /\ UNCHANGED <<simulated, stage, since, entries, estate>>
\* ScenarioService.accept
AcceptSimulation ==
  /\ stage = "draft" /\ stage' = "planned"
  /\ entries' = entries \cup ScenarioEntries
  /\ UNCHANGED <<clock, simulated, since, estate>>
\* _create_asset: a position with the function that was simulated
CategoryOf(sort) ==
  CASE sort = "vehicle" -> "vehicle" [] sort = "housing" -> "second_home"
    [] sort = "renovation" -> "primary_home" [] sort = "business" -> "investments" [] OTHER -> "other"
Buying == {i \in Events : simulated.events[i].asset > 0}
Borrowing == {i \in Events : simulated.events[i].debt > 0}
NewAsset(i) ==
  [name |-> <<i, "asset">>, category |-> CategoryOf(simulated.sort),
   use |-> simulated.events[i].assetFor, worth |-> simulated.events[i].asset]
\* _create_liability: on the position of its event, if it makes one
NewDebt(i) ==
  [of |-> <<i, "debt">>, on |-> IF i \in Buying THEN <<i, "asset">> ELSE Nowhere, owed |-> simulated.events[i].debt]
WithNew(h) ==
  [assets |-> h.assets \cup {NewAsset(i) : i \in Buying}, debts |-> h.debts \cup {NewDebt(i) : i \in Borrowing},
   dues |-> h.dues, repayYears |-> Max({h.repayYears} \cup {simulated.events[i].term : i \in Borrowing})]
\* materialize_plan_event: the liability makes its own lines, from the day it is taken out, and
\* takes the place of the decision's; the other lines are handed back.
LiabilityEntries ==
  UNION {{[l EXCEPT !.mirror = TRUE, !.group = "liability"] :
            l \in FinancingEntries(i, [simulated.events[i] EXCEPT !.start = clock.year, !.month = clock.month])} :
          i \in Borrowing}
HandedBack(S) == {[l EXCEPT !.group = IF @ = "plan" THEN "none" ELSE @] : l \in S}
MakeReal ==
  /\ stage = "planned" /\ Events # {} /\ stage' = "occurred" /\ since' = clock
  /\ entries' = HandedBack({l \in entries : l.group = "plan" => l.of[2] # "financing"}) \cup LiabilityEntries
  /\ estate' = WithNew(estate)
  /\ UNCHANGED <<clock, simulated>>
\* cancel_plan_event
CallOff ==
  /\ stage = "planned" /\ stage' = "draft"
  /\ entries' = {l \in entries : l.group # "plan"}
  /\ UNCHANGED <<clock, simulated, since, estate>>

InputsNext == MonthEnded \/ AcceptSimulation \/ MakeReal \/ CallOff
InputsSpec == InputsInit /\ [][InputsNext]_inputVars

-----------------------------------------------------------------------------
(* Properties *)

\* The lines are lines, and what belongs to the decision is its own.
InputsTypeOK ==
  /\ clock \in [year : 1..LastClock, month : 1..LastMonth] /\ since \in [year : 1..LastClock, month : 1..LastMonth]
  /\ simulated \in Simulations /\ IsEstate(estate) /\ stage \in {"draft", "planned", "occurred"}
  /\ \A l \in entries : l \in Entry /\ (l.of[1] # 0 => stage # "draft" /\ l.of[1] \in Events)

\* Of a year, the months an event lasts that have not begun.
MonthsLeft(e, y) ==
  {m \in 1..LastMonth :
     /\ y > e.start \/ (y = e.start /\ m >= e.month)
     /\ e.end # NoYear => y < e.end \/ (y = e.end /\ m <= e.endMonth)
     /\ y > clock.year \/ m > clock.month}
\* What a year of the projection takes, by the lines and by the decision
TakenAsExpense(p, y) ==
  (IF y = clock.year THEN p.rest.operating ELSE p.operating) + OperatingDelta(p, y)
TakenAsDebt(p, y) ==
  (IF y = clock.year THEN p.rest.commitments ELSE p.commitments[y]) + DebtService(p, y)
TakenAsContribution(p, y, d) == Directed(p, y)[d]

OwnEntries == {l \in entries : l.of[1] = 0}
WithIt == Inputs(entries, Foreseen)
WithoutIt == Inputs(OwnEntries, <<>>)
Costs(e, y, monthly) == monthly * Cardinality(MonthsLeft(e, y))
CostsOfAll(y, f) == Over(Events, [i \in Events |-> f[i]])
WholeYear(e) == e.month = 1 /\ (e.end = NoYear \/ e.endMonth = LastMonth)

\* The instalments of a decision are paid once in every year, from its debt while it is foreseen
\* and by the liability's lines when it is real.
DebtPaidOnce(y) ==
  LET Paid(i) ==
        LET e == simulated.events[i]
            d == IF stage = "occurred" THEN [e EXCEPT !.start = since.year, !.month = since.month] ELSE e
        IN IF e.debt = 0 THEN 0 ELSE Costs(OverItsTerm(d), y, Instalment(e))
  IN TakenAsDebt(WithIt, y) - TakenAsDebt(WithoutIt, y) = CostsOfAll(y, [i \in Events |-> Paid(i)])

\* What it costs every month is taken once: exactly for what is left of this year and, until it
\* begins, for every year; afterwards at most as a whole year.
ExpensesOnce(y) ==
  LET taken == TakenAsExpense(WithIt, y) - TakenAsExpense(WithoutIt, y)
      ahead == \A i \in Events : simulated.events[i].start > clock.year
  IN /\ y = clock.year \/ (ahead /\ \A i \in Events : LET e == simulated.events[i] IN e.end = NoYear \/ e.endMonth = LastMonth)
          => taken = CostsOfAll(y, [i \in Events |-> Costs(simulated.events[i], y, simulated.events[i].expense)])
     /\ taken <= LastMonth * CostsOfAll(y, [i \in Events |-> simulated.events[i].expense])

\* What it contributes is directed once: exactly when its events begin and end with a year.
ContributionsOnce(y) ==
  \A d \in {"security", "productive"} :
    LET taken == TakenAsContribution(WithIt, y, d) - TakenAsContribution(WithoutIt, y, d)
        Given(i) == IF simulated.events[i].destination = d THEN simulated.events[i].contribution ELSE 0
    IN /\ (\A i \in Events : WholeYear(simulated.events[i]))
            => taken = CostsOfAll(y, [i \in Events |-> Costs(simulated.events[i], y, Given(i))])
       /\ taken <= LastMonth * CostsOfAll(y, [i \in Events |-> Given(i)])

\* What is paid at once is paid by the decision, never as a flow of the budget.
OutlayOnce(y) == WithIt.flows[y] = WithoutIt.flows[y]

\* Events that the two ways have in common: they begin in the same year, buy something of their own
\* with what they pay at once, and contribute to capital.
InBothWays ==
  /\ \A i, j \in Events : simulated.events[i].start = simulated.events[j].start
  /\ \A i \in Events :
       /\ simulated.events[i].debt > 0 => simulated.events[i].term > 0
       /\ simulated.events[i].outflow = 0 \/ simulated.sort \in Outlays
       /\ simulated.events[i].contribution = 0 \/ simulated.events[i].destination # "debt"
\* Of a decision that is foreseen no amount has two ways: its instalments never come from the
\* budget, its other lines are not read before its year, and from then on its events add nothing.
NeverBothWays ==
  /\ \A y \in clock.year..Aim.horizon : Received(entries, y) \cup Spent(entries, y) \subseteq OwnEntries
  /\ stage = "planned" /\ InBothWays =>
       /\ CommitmentsOf(entries, Foreseen) \subseteq OwnEntries
       /\ (\A i \in Events : simulated.events[i].start > clock.year) =>
            Regular(entries) \cup Daily(entries)
              \cup Directing(entries, Foreseen, "savings") \cup Directing(entries, Foreseen, "investment")
            \subseteq OwnEntries
       /\ (\A i \in Events : simulated.events[i].start <= clock.year) =>
            \A y \in clock.year..Aim.horizon : OwnIn([events |-> PayloadsOf(Foreseen)], y) = {}

\* Foreseen, or its lines have begun: made real before, its monthly lines are not read until then.
LinesRead == stage = "planned" \/ \A i \in Events : simulated.events[i].start <= clock.year
\* Every amount of a decision that was accepted reaches the projection once, by the lines it made
\* or by its events, in every month it may be asked and whether it is foreseen or real
\* (build_projection_inputs, plan_event_payloads).
EachEuroOnce ==
  stage # "draft" /\ InBothWays =>
    \A y \in clock.year..Aim.horizon :
      DebtPaidOnce(y) /\ OutlayOnce(y) /\ (LinesRead => ExpensesOnce(y) /\ ContributionsOnce(y))
\* What is owned is in the functions, less what is owed on it, and in the categories, whole.
WealthOnce ==
  LET p == WithIt IN p.productive + p.security + p.other + p.tied = WorthOf(OpeningKinds(p), AssetKinds)

\* What is read is read once: no amount of a decision by two ways, and what the household owns is
\* the same wealth by function and by category, in every month and whatever becomes of the decision
\* (financed_decision_event_groups, one_off_flows, planned_contribution_schedule, asset_category_totals).
ReadOnce == stage # "draft" => NeverBothWays /\ WealthOnce
=============================================================================
