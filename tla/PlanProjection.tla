--------------------------- MODULE PlanProjection ---------------------------
(***************************************************************************)
(* The projection of the financial plan, year by year, and the search for  *)
(* the earliest retirement it sustains (ProjectionService.recalculate).    *)
(* Everything is calculated from what is read at the start: the steps are  *)
(* those of the loops in calculate_projection, earliest_sustainable_       *)
(* retirement_year and sustainable_readiness_month.                        *)
(***************************************************************************)
EXTENDS PlanArithmetic

CONSTANT Plans   \* what projections start from

\* Amounts have the sign their forms give them, and nothing is projected before it is today.
SingleFlow == [income : Nat, purchase : Nat, outflow : Nat]
Decision ==
  [start : Nat, month : Nat, end : Nat, stopYear : Nat, stopMonth : Nat, term : Nat,
   outflow : Nat, proceeds : Nat, expense : Int, income : Int, contribution : Nat,
   destination : {"productive", "security", "debt"}, sort : {"vehicle", "housing", "renovation", "other"},
   asset : Nat, assetFor : {"productive", "security", "family_use", "other"}, debt : Nat,
   sold : Nat, soldFor : {"productive", "security", "family_use", "other"}, soldDebt : Nat, absorbed : BOOLEAN]
Years(p) == p.today..p.horizon
\* What the financial plan says, and what is projected from it
AimTyped(p) ==
  {p.target, p.horizon} \subseteq Nat \ {0} /\ p.worked = 0 /\ {p.need, p.preserve} \subseteq Int
PlanTyped(p) ==
  /\ AimTyped(p) /\ p.today \in Nat \ {0} /\ p.today <= p.horizon
  /\ p.month \in 1..LastMonth /\ p.pensionYear \in Nat
  /\ {p.productive, p.security, p.other, p.tied, p.debts, p.repayYears,
       p.income, p.operating, p.pension, p.otherIncome,
       p.rest.income, p.rest.operating, p.rest.commitments} \subseteq Int
  /\ p.kinds \in [AssetKinds -> Int] /\ p.commitments \in [Years(p) -> Int]
  /\ p.directed \in [Years(p) -> [security : Nat, productive : Nat]]
  /\ p.flows \in [Years(p) -> SingleFlow]
  /\ p.events \in Seq(Decision)
\* A share of the cash, and factors of growth: no rate is below -100 %.
RatesTyped(p) ==
  /\ p.rates.share \in 0..100 /\ p.rates.securityYears \in Nat
  /\ {p.rates.return, p.rates.keeps, p.rates.appreciation} \subseteq Nat
  /\ \A y \in Years(p), factor \in {p.rates.inflation, p.rates.raises} \cup {GrowthOf(p, k) : k \in AssetKinds} :
       Compounded(factor, y - p.today) \in Nat
ASSUME PlansAssumption == \A p \in Plans : PlanTyped(p) /\ RatesTyped(p)

VARIABLES
  plan,     \* the projection's inputs
  walk,     \* the household in the year that is being projected
  step,     \* what comes next
  rows,     \* the years projected so far
  low, high,\* the bounds of a search
  earliest, \* the year of the earliest retirement, NoYear when there is none
  months    \* months of the year before that must be worked, NoYear when it cannot be said

projectionVars == <<plan, walk, step, rows, low, high, earliest, months>>

ProjectionInit ==
  /\ plan \in Plans
  /\ walk = FirstYear(plan) /\ step = "grow" /\ rows = <<>>
  /\ low = 0 /\ high = 0 /\ earliest = NoYear /\ months = NoYear

Walking == UNCHANGED <<plan, rows, low, high, earliest, months>>
GrowYear ==
  /\ step = "grow" /\ step' = "fund" /\ walk' = Grow(plan, walk)
  /\ Walking
FundYear ==
  /\ step = "fund" /\ step' = "withdraw" /\ walk' = ShareOut(plan, walk)
  /\ Walking
WithdrawYear ==
  /\ step = "withdraw" /\ step' = "decide" /\ walk' = Withdraw(plan, walk)
  /\ Walking
\* The cash of the next month with decisions, and then the decisions of that month.
NetDecisions ==
  /\ step = "decide" /\ DueIn(plan, walk) # {}
  /\ step' = "apply" /\ walk' = NetMonth(plan, walk)
  /\ Walking
ApplyDecision ==
  /\ step = "apply"
  /\ walk' = Apply(plan, walk, Min(Together(plan, walk)))
  /\ step' = IF Cardinality(Together(plan, walk)) = 1 THEN "decide" ELSE "apply"
  /\ Walking
CloseYear ==
  /\ step = "decide" /\ DueIn(plan, walk) = {}
  /\ LET done == Flow(plan, walk) IN
     /\ rows' = Append(rows, YearRow(plan, done))
     /\ walk' = IF walk.year < plan.horizon THEN [done EXCEPT !.year = @ + 1] ELSE done
     /\ step' = IF walk.year < plan.horizon THEN "grow" ELSE "ask"
  /\ UNCHANGED <<plan, low, high, earliest, months>>

\* earliest_sustainable_retirement_year
AskHorizon ==
  /\ step = "ask"
  /\ IF Sustains(Retiring(plan, plan.horizon, 0))
     THEN step' = "search" /\ low' = plan.today /\ high' = plan.horizon
     ELSE step' = "done" /\ UNCHANGED <<low, high>>
  /\ UNCHANGED <<plan, walk, rows, earliest, months>>
NarrowTooFar ==   \* a fault: a year that is sustained is left out of the search
  /\ step = "search" /\ low < high
  /\ LET mid == (low + high) \div 2 IN
     IF Sustains(Retiring(plan, mid, 0)) THEN high' = mid - 1 /\ UNCHANGED low
     ELSE low' = mid + 1 /\ UNCHANGED high
  /\ UNCHANGED <<plan, walk, step, rows, earliest, months>>
NarrowYears ==
  /\ step = "search" /\ low < high
  /\ LET mid == (low + high) \div 2 IN
     IF Sustains(Retiring(plan, mid, 0)) THEN high' = mid /\ UNCHANGED low
     ELSE low' = mid + 1 /\ UNCHANGED high
  /\ UNCHANGED <<plan, walk, step, rows, earliest, months>>
\* sustainable_readiness_month: the year that has begun is not divided again.
FoundYear ==
  /\ step = "search" /\ low = high
  /\ earliest' = low
  /\ IF low - 1 <= plan.today THEN step' = "done" /\ UNCHANGED <<low, high>>
     ELSE step' = "months" /\ low' = 1 /\ high' = LastMonth
  /\ UNCHANGED <<plan, walk, rows, months>>
NarrowMonths ==
  /\ step = "months" /\ low < high
  /\ LET mid == (low + high) \div 2 IN
     IF Sustains(Retiring(plan, earliest - 1, mid)) THEN high' = mid /\ UNCHANGED low
     ELSE low' = mid + 1 /\ UNCHANGED high
  /\ UNCHANGED <<plan, walk, step, rows, earliest, months>>
FoundMonth ==
  /\ step = "months" /\ low = high
  /\ months' = low /\ step' = "done"
  /\ UNCHANGED <<plan, walk, rows, low, high, earliest>>

ProjectionNext ==
  \/ GrowYear \/ FundYear \/ WithdrawYear
  \/ NetDecisions \/ ApplyDecision \/ CloseYear
  \/ AskHorizon \/ NarrowYears \/ FoundYear \/ NarrowMonths \/ FoundMonth

ProjectionSpec == ProjectionInit /\ [][ProjectionNext]_projectionVars

-----------------------------------------------------------------------------
(* Properties *)

Steps == {"grow", "fund", "withdraw", "decide", "apply", "ask", "search", "months", "done"}
Households ==
  [year : Nat, productive : Int, security : Int, other : Int, gap : Int, kinds : [AssetKinds -> Int],
   debts : Int, paid : Int, gone : Int, applied : SUBSET Nat, free : Int, funded : Int, automatic : Int]
\* The household of a year is made of amounts, its steps are those of the loops, a search stays in its bounds.
ProjectionTypeOK ==
  /\ plan \in Plans /\ step \in Steps
  /\ walk \in Households /\ walk.year \in Years(plan)
  /\ walk.applied \subseteq DOMAIN plan.events
  /\ low \in Nat /\ high \in Nat
  /\ step = "search" => plan.today <= low /\ low <= high /\ high <= plan.horizon
  /\ step = "months" => 1 <= low /\ low <= high /\ high <= LastMonth
  /\ earliest \in {NoYear} \cup (plan.today..plan.horizon)
  /\ months \in {NoYear} \cup (1..LastMonth)

Liquid(w) == w.productive + w.security - w.gap
CashStep ==
  /\ step = "fund" =>
       /\ Liquid(walk') = Liquid(walk) + walk'.free - (walk'.paid - walk.paid)
       /\ walk'.free >= 0 =>
            /\ walk'.security >= walk.security /\ walk'.productive >= walk.productive
            /\ walk'.gap <= walk.gap /\ walk'.paid >= walk.paid
  /\ step = "withdraw" =>
       Liquid(walk') \in {Liquid(walk), Liquid(walk) - Withdrawal(plan, walk.year), -walk.gap + walk.security}
  /\ step = "decide" /\ step' = "apply" => Liquid(walk') = Liquid(walk) + MonthNet(plan, Together(plan, walk))
  /\ step = "decide" /\ step' # "apply" =>
       LET flow == plan.flows[walk.year] IN
       /\ Liquid(walk') = Liquid(walk) + flow.income - flow.purchase - flow.outflow
       /\ walk'.other = walk.other + flow.purchase
\* Cash is neither made nor lost: the surplus of a year goes to the gap, to debts or to capital, and
\* adds to each of them or to none; a deficit, what decisions cost and single flows come from
\* capital or widen the gap; retirement takes what there is (calculate_projection).
CashAccounted == [][CashStep]_projectionVars

\* Decisions about what is neither liquid nor invested
Lasting(f) == f \notin {"productive", "security"}
OnlyLasting(p) ==
  \A i \in DOMAIN p.events :
    /\ p.events[i].asset > 0 => Lasting(p.events[i].assetFor)
    /\ p.events[i].sold > 0 => Lasting(p.events[i].soldFor)
\* While decisions buy and sell nothing else, what is liquid and what is invested is Security and
\* Productive, every year: the two accounts of the same cash are moved together.
KindsFollow ==
  /\ OnlyLasting(plan)
  /\ plan.productive >= 0 /\ plan.security >= 0
  /\ plan.kinds.liquidity = plan.security /\ plan.kinds.investments = plan.productive
  => walk.kinds.liquidity = walk.security /\ walk.kinds.investments = walk.productive

\* A gap is what neither Security nor Productive could pay: as long as there is one, there is
\* nothing in them (apply_cash_outflow, and who is paid first from every surplus).
GapIsLast ==
  OnlyLasting(plan) /\ plan.productive >= 0 /\ plan.security >= 0 =>
    /\ walk.gap >= 0 /\ walk.security >= 0 /\ walk.productive >= 0
    /\ walk.gap > 0 => walk.security = 0 /\ walk.productive = 0

\* What the household has to spend, by function and by category, stands every year.
CapitalStands == GapIsLast /\ KindsFollow

SustainedAt(p, y) == Sustains(Retiring(p, y, 0))
\* Once a retirement is sustained, every later one is.
OnceForAll(p) == \A y, z \in Years(p) : y < z /\ SustainedAt(p, y) => SustainedAt(p, z)
\* The year that is found is sustained, whatever the plan; and no earlier one is, if what the search
\* takes for granted is true of the plan (earliest_sustainable_retirement_year).
EarliestRetirement ==
  step \in {"months", "done"} =>
    /\ earliest # NoYear => SustainedAt(plan, earliest)
    /\ OnceForAll(plan) =>
         \A y \in Years(plan) : SustainedAt(plan, y) => earliest # NoYear /\ earliest <= y

ProductiveOf(p) == {<<w.year, w.productive>> : w \in Range(Trajectory(p))}
\* Working all the months of the target year is retiring a year later (sustainable_readiness_month).
FullYearIsNextYear(p) ==
  \A y \in (p.today + 1)..(p.horizon - 1) :
    ProductiveOf(Retiring(p, y, LastMonth)) = ProductiveOf(Retiring(p, y + 1, 0))

PaidUntil(p, e, y) ==
  Over(e.start..y, [t \in e.start..y |-> HalfUpOf(AnnualPayment(e) * DebtMonths(p, e, t), LastMonth)])
\* Twice what rounding may add up to: half a unit of the annual payment for every year of
\* the term, half a unit of what each year pays, and half a unit of the balance.
RepaySlack(e, y) ==
  LET years == y - e.start + 1 IN
  IF e.debt % (TermOf(e) * LastMonth) = 0 THEN 0
  ELSE Lesser(years, TermOf(e)) + Lesser(years, TermOf(e) + 1) + 1
\* What a decision's instalments have paid is what is no longer owed, at the end of every year: to
\* the unit when every month pays whole units, and else as far as the payments are rounded, for a
\* debt of 25 in three years is paid off with 24 (decision_debt_service_for_year,
\* event_debt_balance).
InstalmentsRepay(p) ==
  \A i \in Borrowers(p) :
    LET e == p.events[i] IN
    e.start > p.today \/ (e.start = p.today /\ e.month > p.month) =>
      \A y \in e.start..p.horizon :
        LET apart == PaidUntil(p, e, y) - (e.debt - BalanceOf(e, y)) IN
        2 * Greater(apart, -apart) <= RepaySlack(e, y)

\* A need that is not larger does not ask for more capital than the plan does, in the same year.
NeedsAskInOrder(p) ==
  p.events = <<>> =>
    \A y \in p.target..p.horizon, n \in 0..p.need :
      CapitalRequirement(p, n, y) + FloorOf(p) <= CapitalRequired(Retiring(p, y, 0), y)

\* What the projection says in two ways it says alike: the instalments of a decision's debt and its
\* balance, months worked and years worked, the capital of the plan's need and of another one.
FiguresAgree ==
  step = "done" => FullYearIsNextYear(plan) /\ InstalmentsRepay(plan) /\ NeedsAskInOrder(plan)
=============================================================================
