--------------------------- MODULE PlanArithmetic ---------------------------
(***************************************************************************)
(* What the financial plan works out for one year of its projection        *)
(* (backend/plan/services_projection.py): the surplus of the year, where   *)
(* it goes, what retirement takes, what decisions and single flows move,   *)
(* and the capital a need asks for.                                        *)
(*                                                                         *)
(* "p" is what a projection starts from (ProjectionInputs and the          *)
(* assumptions, in p.rates), "w" the household in a year of it.  Amounts   *)
(* are integers; rates of growth are whole factors, and the withdrawal     *)
(* rate is the number of years of a need its capital holds.  The code      *)
(* works with exact decimals: a quotient is rounded here, down unless the  *)
(* code rounds it itself.  Decisions borrow without interest.                  *)
(***************************************************************************)
EXTENDS BudgetMonths, FiniteSets, FiniteSetsExt, Functions, SequencesExt

NoFloor == -1      \* no wealth to preserve
NoYear == 0         \* no year
UsualTerm == 30    \* years of a debt that does not say

Lesser(a, b) == IF a < b THEN a ELSE b
Over(S, f) == SumFunctionOnSet(f, S)

\* inflate
Compounded(factor, years) == IF years = 0 THEN 1 ELSE factor ^ years
Inflated(p, sum, factor, y) == sum * Compounded(factor, y - p.today)

-----------------------------------------------------------------------------
(* What decisions add to a year *)

InForce(e, y) ==
  /\ e.start <= y
  /\ e.stopYear # NoYear => y <= e.stopYear
  /\ e.end # NoYear => y <= e.end
ActiveMonths(e, y) ==
  IF e.stopYear # NoYear /\ y = e.stopYear THEN Greater(0, e.stopMonth - 1) ELSE LastMonth
\* In the year it starts a decision costs from its month on.
ChargedMonths(e, y) ==
  IF y = e.start THEN Lesser(ActiveMonths(e, y), LastMonth + 1 - e.month) ELSE ActiveMonths(e, y)

ForceIn(p, y) == {i \in DOMAIN p.events : InForce(p.events[i], y)}
\* A decision whose year has come is in the budget already, and so in what the plan starts from.
OwnIn(p, y) == {i \in ForceIn(p, y) : ~p.events[i].absorbed}
OnWayTo(p, y, d) == {i \in OwnIn(p, y) : p.events[i].destination = d}

\* event_deltas_for_year
ExpenseDelta(p, y) ==
  Over(ForceIn(p, y), [i \in ForceIn(p, y) |-> p.events[i].expense * ActiveMonths(p.events[i], y)])
OperatingDelta(p, y) ==
  Over(OwnIn(p, y), [i \in OwnIn(p, y) |-> p.events[i].expense * ChargedMonths(p.events[i], y)])
IncomeDelta(p, y) ==
  Over(OwnIn(p, y), [i \in OwnIn(p, y) |-> p.events[i].income * ActiveMonths(p.events[i], y)])
ContributionDelta(p, y, d) ==
  Over(OnWayTo(p, y, d),
       [i \in OnWayTo(p, y, d) |-> p.events[i].contribution * ActiveMonths(p.events[i], y)])

TermOf(e) == IF e.term = 0 THEN UsualTerm ELSE e.term
\* active_debt_months_for_year: in months since the beginning, what is left of this year from next month on.
DebtMonths(p, e, y) ==
  LET first == e.start * LastMonth + e.month - 1
      opens == y * LastMonth + (IF y = p.today THEN p.month ELSE 0)
      closes == (y + 1) * LastMonth
  IN Greater(0, Lesser(closes, first + TermOf(e) * LastMonth) - Greater(opens, first))
\* debt_annual_payment, decision_debt_service_for_year
AnnualPayment(e) == HalfUpOf(e.debt, TermOf(e))
Borrowers(p) == {i \in DOMAIN p.events : p.events[i].debt > 0}
DebtService(p, y) ==
  Over(Borrowers(p), [i \in Borrowers(p) |->
         HalfUpOf(AnnualPayment(p.events[i]) * DebtMonths(p, p.events[i], y), LastMonth)])

\* A fault: the month it began in is forgotten.
BalanceWhole(e, y) ==
  LET years == TermOf(e) IN HalfUpOf(e.debt * (years - Greater(0, Lesser(years, y - e.start + 1))), years)
\* event_debt_balance: what is owed at the end of a year.
BalanceOf(e, y) ==
  LET months == TermOf(e) * LastMonth
      elapsed == Greater(0, Lesser(months, (y - e.start) * LastMonth + LastMonth + 1 - e.month))
  IN HalfUpOf(e.debt * (months - elapsed), months)

-----------------------------------------------------------------------------
(* Income, needs and targets *)

\* free_operating_surplus
Surplus(p, y) ==
  LET base == IF y = p.today THEN p.rest.income - p.rest.operating - p.rest.commitments
              ELSE Inflated(p, p.income, p.rates.raises, y) - Inflated(p, p.operating, p.rates.inflation, y)
                   - p.commitments[y]
  IN base - OperatingDelta(p, y) - DebtService(p, y)

\* future_income_for_year
FutureIncome(p, y) ==
  (IF y < p.target THEN Inflated(p, p.income, p.rates.raises, y) ELSE 0)
  + (IF p.pensionYear # NoYear /\ y >= p.pensionYear
       THEN Inflated(p, p.pension, p.rates.inflation, y) ELSE 0)
  + Inflated(p, p.otherIncome, p.rates.inflation, y)
NominalNeed(p, y) == Inflated(p, p.need, p.rates.inflation, y) + ExpenseDelta(p, y)

\* Part of the target year may still be worked.
PartlyWorked(p, y) == y = p.target /\ p.worked > 0
Withdrawal(p, y) ==
  LET all == IF y >= p.target THEN Greater(0, NominalNeed(p, y) - FutureIncome(p, y) - IncomeDelta(p, y)) ELSE 0
  IN IF PartlyWorked(p, y) THEN (all * (LastMonth - p.worked)) \div LastMonth ELSE all

\* security_target_for_year
SecurityTarget(p, y) == Inflated(p, p.operating, p.rates.inflation, y) * p.rates.securityYears

\* target_capital_for_year: the years until the pension, and what it leaves uncovered.
NeedFor(p, need, y, events) ==
  Inflated(p, need, p.rates.inflation, y) + (IF events THEN ExpenseDelta(p, y) ELSE 0)
IncomeFor(p, sum, y, events) ==
  Inflated(p, sum, p.rates.inflation, y) + (IF events THEN IncomeDelta(p, y) ELSE 0)
TargetCapital(p, need, candidate, events) ==
  LET y == Greater(candidate, p.target)
      Uncovered(t) == Greater(0, NeedFor(p, need, t, events) - IncomeFor(p, p.otherIncome, t, events))
      Lasting(t) ==
        Greater(0, NeedFor(p, need, t, events) - IncomeFor(p, p.pension + p.otherIncome, t, events))
        * p.rates.lasts
      bridge == y..(p.pensionYear - 1)
      growth == p.rates.return
  IN IF p.pensionYear = NoYear \/ y >= p.pensionYear THEN Lasting(y)
     ELSE HalfUpOf(Over(bridge, [t \in bridge |-> Uncovered(t) * Compounded(growth, p.pensionYear - t)])
                     + Lasting(p.pensionYear),
                   Compounded(growth, p.pensionYear - y))

\* capital_requirements: what another need would ask for
CapitalRequirement(p, need, y) == TargetCapital(p, need, IF y = NoYear THEN p.target ELSE y, FALSE)

FloorOf(p) == IF p.preserve = NoFloor THEN 0 ELSE p.preserve
CapitalRequired(p, y) == TargetCapital(p, p.need, y, TRUE) + FloorOf(p)

-----------------------------------------------------------------------------
(* Cash in and cash out *)

Reduced(kinds, k, sum) == IF sum <= 0 THEN kinds ELSE [kinds EXCEPT ![k] = Greater(0, @ - sum)]

\* apply_cash_outflow, and the categories it is taken from
Outflow(w, sum) ==
  LET fromSecurity == Lesser(w.security, sum)
      fromProductive == IF sum - fromSecurity > 0 THEN Lesser(w.productive, sum - fromSecurity) ELSE 0
  IN IF sum <= 0 THEN w
     ELSE [w EXCEPT !.security = @ - fromSecurity,
                    !.productive = @ - fromProductive,
                    !.gap = @ + (sum - fromSecurity - fromProductive),
                    !.kinds = Reduced(Reduced(@, "liquidity", fromSecurity), "investments", fromProductive)]

\* What there is room for in Security, of its share of the cash.
ToSecurity(p, w, cash) ==
  Lesser(Greater(0, SecurityTarget(p, w.year) - w.security), (cash * p.rates.share) \div 100)
Placed(w, toSecurity, toProductive) ==
  [w EXCEPT !.security = @ + toSecurity, !.productive = @ + toProductive,
            !.kinds.liquidity = @ + toSecurity, !.kinds.investments = @ + toProductive]

\* allocate_positive_cash
Inflow(p, w, sum) ==
  LET recovered == Lesser(sum, w.gap)
      cash == sum - recovered
      kept == ToSecurity(p, w, cash)
  IN IF sum <= 0 THEN w ELSE Placed([w EXCEPT !.gap = @ - recovered], kept, cash - kept)

NetCash(p, w, net) == IF net >= 0 THEN Inflow(p, w, net) ELSE Outflow(w, -net)

-----------------------------------------------------------------------------
(* A year, in the order of calculate_projection *)

AssetKinds == {"liquidity", "investments", "realEstate", "furnishings", "rest"}
LastingKinds == {"realEstate", "furnishings", "rest"}   \* what is neither liquid nor invested
WorthOf(kinds, K) == Over(K, kinds)

\* Without a composition the functions stand for it.
OpeningKinds(p) ==
  IF WorthOf(p.kinds, AssetKinds) # 0 THEN p.kinds
  ELSE [k \in AssetKinds |-> CASE k = "liquidity" -> p.security [] k = "investments" -> p.productive
                          [] k = "rest" -> p.other + p.tied [] OTHER -> 0]
FirstYear(p) ==
  [year |-> p.today, productive |-> p.productive, security |-> p.security, other |-> p.other,
   gap |-> 0, kinds |-> OpeningKinds(p), debts |-> p.debts, paid |-> 0, gone |-> 0, applied |-> {},
   free |-> 0, funded |-> 0, automatic |-> 0]

GrowthOf(p, k) ==
  CASE k = "investments" -> p.rates.return
    [] k = "furnishings" -> p.rates.keeps
    [] k \in {"realEstate", "rest"} -> p.rates.appreciation
    [] OTHER -> 1
\* projected_liability_balance
Repaid(p, w) ==
  IF p.debts <= 0 \/ p.repayYears <= 0 THEN 0 ELSE Greater(0, w.debts - p.debts \div p.repayYears)
\* What the household has grows before anything happens, but for the year that has begun.
Grow(p, w) ==
  LET grown == [k \in AssetKinds |-> w.kinds[k] * GrowthOf(p, k)] IN
  IF w.year = p.today THEN w
  ELSE [w EXCEPT !.productive = @ * p.rates.return, !.kinds = grown, !.debts = Repaid(p, w),
                 !.other = @ + WorthOf(grown, LastingKinds) - WorthOf(w.kinds, LastingKinds)]

\* contribution_allocation_for_year, with what decisions contribute
Directed(p, y) ==
  [security |-> p.directed[y].security + ContributionDelta(p, y, "security"),
   productive |-> p.directed[y].productive + ContributionDelta(p, y, "productive")]
FreeCash(p, y) ==
  CASE y < p.target -> Surplus(p, y)
    [] PartlyWorked(p, y) -> (Surplus(p, y) * p.worked) \div LastMonth
    [] OTHER -> 0

\* A fault: contributions are made in full, whatever is left for them.
FundWanted(w, cash, wanted) == wanted
FundedOf(w, cash, wanted) == Lesser(cash, wanted)
\* The surplus closes the gap, pays debts, funds what was planned and is then shared out.
Contribute(p, w, free) ==
  LET recovered == Lesser(free, w.gap)
      toDebt == Lesser(free - recovered, ContributionDelta(p, w.year, "debt"))
      cash == free - recovered - toDebt
      plan == Directed(p, w.year)
      wanted == plan.security + plan.productive
      funded == IF wanted > 0 THEN FundedOf(w, cash, wanted) ELSE 0
      fundedSecurity == IF wanted > 0 THEN (funded * plan.security) \div wanted ELSE 0
      v == Placed(w, fundedSecurity, funded - fundedSecurity)
      left == cash - funded
      kept == ToSecurity(p, v, left)
  IN IF free <= recovered THEN [w EXCEPT !.gap = @ - recovered]
     ELSE [Placed(v, kept, left - kept) EXCEPT
             !.gap = @ - recovered, !.paid = @ + toDebt, !.funded = funded, !.automatic = left]
ShareOut(p, w) ==
  LET free == FreeCash(p, w.year)
      v == [w EXCEPT !.free = free, !.funded = 0, !.automatic = 0]
  IN IF free > 0 THEN Contribute(p, v, free) ELSE Outflow(v, -free)

\* A fault: the categories are left as they are.
WithdrawnOnly(p, w) ==
  IF w.year < p.target \/ w.year = p.today THEN w
  ELSE [w EXCEPT !.productive = Greater(0, @ - Withdrawal(p, w.year))]
Withdraw(p, w) ==
  LET left == Greater(0, w.productive - Withdrawal(p, w.year)) IN
  IF w.year < p.target \/ w.year = p.today THEN w
  ELSE [w EXCEPT !.productive = left, !.kinds = Reduced(@, "investments", w.productive - left)]

\* apply_plan_event_one_offs_for_year: the cash of a month is netted, and then each decision
\* brings its asset and its debt, and takes what it sells.
DueIn(p, w) == {i \in DOMAIN p.events \ w.applied : p.events[i].start = w.year}
FirstMonth(p, w) == Min({p.events[i].month : i \in DueIn(p, w)})
Together(p, w) == {i \in DueIn(p, w) : p.events[i].month = FirstMonth(p, w)}
MonthNet(p, S) == Over(S, [i \in S |-> p.events[i].proceeds - p.events[i].outflow])
NetMonth(p, w) == NetCash(p, w, MonthNet(p, Together(p, w)))

\* event_asset_category
KindFor(e, function) ==
  CASE e.sort \in {"housing", "renovation"} -> "realEstate"
    [] e.sort = "vehicle" -> "furnishings"
    [] function = "productive" -> "investments"
    [] function = "security" -> "liquidity"
    [] OTHER -> "rest"
\* projected_category_value
GrownValue(p, e, y) == e.sold * Compounded(GrowthOf(p, KindFor(e, e.soldFor)), y - p.today)
Bought(e, w) ==
  IF e.asset <= 0 THEN w
  ELSE [w EXCEPT !.kinds[KindFor(e, e.assetFor)] = @ + e.asset,
                 !.productive = IF e.assetFor = "productive" THEN @ + e.asset ELSE @,
                 !.security = IF e.assetFor = "security" THEN @ + e.asset ELSE @,
                 !.other = IF e.assetFor \in {"productive", "security"} THEN @ ELSE @ + e.asset]
\* The functions hold what is sold less its debt, the categories hold all of it.
Sold(p, e, w) ==
  LET grown == GrownValue(p, e, w.year)
      net == Greater(0, grown - e.soldDebt)
  IN IF e.sold <= 0 THEN w
     ELSE [w EXCEPT !.kinds = Reduced(@, KindFor(e, e.soldFor), grown),
                    !.productive = IF e.soldFor = "productive" THEN Greater(0, @ - net) ELSE @,
                    !.security = IF e.soldFor = "security" THEN Greater(0, @ - net) ELSE @,
                    !.other = IF e.soldFor \in {"productive", "security"} THEN @ ELSE Greater(0, @ - net)]
Apply(p, w, i) ==
  LET e == p.events[i] IN
  [Sold(p, e, Bought(e, w)) EXCEPT !.gone = @ + e.soldDebt, !.applied = @ \cup {i}]

\* one_off_flow_for_year: an asset bought with cash stays in the household.
Flow(p, w) ==
  LET flow == p.flows[w.year]
      v == NetCash(p, w, flow.income - flow.purchase - flow.outflow)
  IN [v EXCEPT !.other = @ + flow.purchase, !.kinds.rest = @ + flow.purchase]

LiabilitiesOf(p, w) ==
  LET owing == w.applied \cap Borrowers(p) IN
  Greater(0, w.debts + Over(owing, [i \in owing |-> BalanceOf(p.events[i], w.year)])
             + w.gap - w.paid - w.gone)
NetWorth(p, w) == WorthOf(w.kinds, AssetKinds) - LiabilitiesOf(p, w)
Preserved(p, w) == p.preserve = NoFloor \/ NetWorth(p, w) >= p.preserve
YearRow(p, w) ==
  [year |-> w.year, productive |-> w.productive, security |-> w.security, gap |-> w.gap,
   free |-> w.free, funded |-> w.funded, automatic |-> w.automatic,
   netWorth |-> NetWorth(p, w), required |-> CapitalRequired(p, w.year), preserved |-> Preserved(p, w)]
\* The year the capital reaches what is required.
ReachedIn(rows) ==
  LET reached == {i \in DOMAIN rows : rows[i].productive >= rows[i].required /\ rows[i].preserved} IN
  IF reached = {} THEN NoYear ELSE rows[Min(reached)].year

-----------------------------------------------------------------------------
(* All the years at once *)

MonthDone(p, w) ==
  LET S == Together(p, w) IN
  FoldLeft(LAMBDA v, i : Apply(p, v, i), NetMonth(p, w), SetToSortSeq(S, <))
Decided(p, w) ==
  FoldLeft(LAMBDA v, m : IF DueIn(p, v) = {} THEN v ELSE MonthDone(p, v), w, [m \in 1..LastMonth |-> m])
YearDone(p, w) == Flow(p, Decided(p, Withdraw(p, ShareOut(p, Grow(p, w)))))
\* calculate_projection
Trajectory(p) ==
  FoldLeft(LAMBDA ws, y :
             Append(ws, YearDone(p, [IF ws = <<>> THEN FirstYear(p) ELSE ws[Len(ws)] EXCEPT !.year = y])),
           <<>>, [n \in 1..(p.horizon - p.today + 1) |-> p.today + n - 1])

\* with_retirement: income ends and withdrawals begin in the year; months of it may be worked.
Retiring(p, y, months) == [p EXCEPT !.target = y, !.worked = months]
Sustains(p) ==
  /\ p.target <= p.horizon
  /\ \A w \in Range(Trajectory(p)) :
       w.year >= p.target =>
         IF FloorOf(p) > 0 THEN w.productive >= FloorOf(p) ELSE w.productive > 0
=============================================================================
