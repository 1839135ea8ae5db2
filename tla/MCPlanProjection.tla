-------------------------- MODULE MCPlanProjection --------------------------
(* Households of four years, one in each behaviour. *)
EXTENDS PlanProjection

Rates(return, share) ==
  [inflation |-> 1, raises |-> 1, return |-> return, appreciation |-> 2, keeps |-> 0, lasts |-> 4,
   share |-> share, securityYears |-> 1]
Plain ==
  [start |-> 2, month |-> 1, end |-> NoYear, stopYear |-> NoYear, stopMonth |-> 1, outflow |-> 0,
   proceeds |-> 0, expense |-> 0, income |-> 0, contribution |-> 0, destination |-> "productive",
   asset |-> 0, assetFor |-> "family_use", sort |-> "vehicle", debt |-> 0, term |-> 0, sold |-> 0,
   soldFor |-> "family_use", soldDebt |-> 0, absorbed |-> FALSE]
Car(m) == [Plain EXCEPT !.month = m, !.outflow = 4, !.asset = 12, !.debt = 7, !.term = 2, !.expense = 1]
House == [Plain EXCEPT !.sort = "housing", !.outflow = 10, !.asset = 20, !.debt = 12, !.term = 2]
Sale == [Plain EXCEPT !.sort = "housing", !.proceeds = 9, !.sold = 4, !.soldDebt = 2]
SavingPlan(d) == [Plain EXCEPT !.contribution = 3, !.destination = d, !.end = 3, !.start = 1, !.month = 2]
Leave == [Plain EXCEPT !.start = 3, !.expense = 3, !.income = 1, !.stopYear = 4, !.stopMonth = 2]
Flat == [Plain EXCEPT !.sort = "other", !.asset = 6, !.assetFor = "productive", !.outflow = 6]
Old == [Car(1) EXCEPT !.start = 1, !.month = 2, !.term = 3, !.debt = 25, !.absorbed = TRUE]
SomeDecisions ==
  {<<>>, <<Car(2)>>, <<House, Sale>>, <<Sale, Car(1)>>, <<SavingPlan("debt"), Leave>>, <<SavingPlan("security")>>,
   <<Flat, Leave>>, <<Old, Car(1)>>}

Base(productive, security, income, decisions, rates, preserve, pensionYear) ==
  [today |-> 1, month |-> 1, target |-> 3, horizon |-> 4, worked |-> 0,
   need |-> 5, preserve |-> preserve,
   productive |-> productive, security |-> security, other |-> 6, tied |-> 2, debts |-> 4, repayYears |-> 4,
   kinds |-> [liquidity |-> security, investments |-> productive, realEstate |-> 6, furnishings |-> 2, rest |-> 0],
   income |-> income, pension |-> 4, otherIncome |-> 1, pensionYear |-> pensionYear,
   operating |-> 6, commitments |-> [y \in 1..4 |-> IF y = 2 THEN 2 ELSE 0],
   directed |-> [y \in 1..4 |-> [security |-> IF y = 1 THEN 0 ELSE 1, productive |-> IF y = 3 THEN 0 ELSE 2]],
   flows |-> [y \in 1..4 |-> [income |-> IF y = 3 THEN 5 ELSE 0, purchase |-> IF y = 2 THEN 1 ELSE 0, outflow |-> IF y = 2 THEN 2 ELSE 0]],
   rest |-> [income |-> income \div 2, operating |-> 3, commitments |-> 1],
   events |-> decisions, rates |-> rates]
Slow == Rates(1, 25)
Fast == [Rates(2, 50) EXCEPT !.inflation = 2, !.raises = 2]
Settings == {<<Slow, NoFloor, NoYear>>, <<Slow, 3, 4>>, <<Fast, NoFloor, 4>>, <<Fast, 3, NoYear>>}
Savings == {<<0, 5>>, <<7, 0>>, <<20, 0>>, <<20, 5>>}   \* productive and security capital
ThePlans ==
  {Base(c[1], c[2], i, d, x[1], x[2], x[3]) :
     c \in Savings, i \in {4, 12}, d \in SomeDecisions, x \in Settings}
=============================================================================
