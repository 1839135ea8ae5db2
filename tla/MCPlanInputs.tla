----------------------------- MODULE MCPlanInputs -----------------------------
(* A household with a budget of its own and one scenario. *)
EXTENDS PlanInputs

Event0 ==
  [start |-> 2, month |-> 1, end |-> NoYear, endMonth |-> 1, stopYear |-> NoYear, stopMonth |-> 1,
   outflow |-> 0, proceeds |-> 0, expense |-> 0, income |-> 0, contribution |-> 0, destination |-> "productive",
   asset |-> 0, assetFor |-> "family_use", sort |-> "generic", debt |-> 0, term |-> 0, sold |-> 0,
   soldFor |-> "family_use", soldDebt |-> 0, absorbed |-> FALSE]
Simulated(sort, events) == [sort |-> sort, events |-> [i \in DOMAIN events |-> [events[i] EXCEPT !.sort = sort]]]
NewCar(m) == [Event0 EXCEPT !.month = m, !.outflow = 5, !.asset = 20, !.debt = 24, !.term = 2, !.expense = 2]
Studies == [Event0 EXCEPT !.expense = 4, !.end = 3, !.endMonth = 3, !.month = 2]
Course == [Event0 EXCEPT !.expense = 1, !.end = 2, !.endMonth = 2, !.start = 1]
Saving0(d, y, m) == [Event0 EXCEPT !.contribution = 3, !.destination = d, !.start = y, !.month = m, !.end = 3, !.endMonth = 3]
Raise == [Event0 EXCEPT !.income = 2, !.start = 3]
SomeSimulations ==
  {Simulated("vehicle", <<NewCar(m)>>) : m \in {1, 3}}
  \cup {Simulated("studies", <<e>>) : e \in {Studies, Course, Raise}}
  \cup {Simulated("generic", <<Saving0(d, y, m)>>) : d \in {"security", "productive", "debt"}, y \in {1, 2}, m \in {1, 2}}
  \cup {Simulated("generic", <<Saving0("security", 2, 1), Studies>>), Simulated("housing", <<NewCar(2), Raise>>),
        Simulated("business", <<NewCar(1)>>)}

OfHousehold ==
  [of |-> <<0, "household">>, kind |-> "expense", role |-> "operating", sum |-> 9, profile |-> "structural",
   year |-> 1, endYear |-> NoYear, first |-> 1, last |-> 3, target |-> Whenever, monthly |-> FALSE,
   mirror |-> FALSE, system |-> FALSE, group |-> "none"]
Wages == [OfHousehold EXCEPT !.kind = "income", !.sum = 30]
Loan == [OfHousehold EXCEPT !.role = "temporary_commitment", !.profile = "term", !.endYear = 3, !.last = 2, !.sum = 6]
Mortgage(y) == [Loan EXCEPT !.year = y, !.endYear = y, !.last = 3, !.mirror = TRUE, !.system = TRUE, !.group = "liability"]
Taxes == [OfHousehold EXCEPT !.role = "tax_fee", !.profile = "one_off", !.year = 2, !.target = 2, !.sum = 4]
Deposit == [OfHousehold EXCEPT !.role = "savings", !.profile = "one_off", !.year = 2, !.sum = 2]
Fund0 == [OfHousehold EXCEPT !.role = "investment", !.sum = 6, !.mirror = TRUE, !.system = TRUE]
SaleOf == [Wages EXCEPT !.role = "asset_sale", !.profile = "one_off", !.year = 3, !.target = 1, !.group = "sale"]
SaleCosts == [Taxes EXCEPT !.year = 3, !.group = "sale"]
SomeBudgets == {{Wages, OfHousehold, Loan, Taxes}, {Wages, Mortgage(1), Mortgage(2), Deposit, Fund0, SaleOf, SaleCosts}}
OneSimulation == CHOOSE s \in SomeSimulations : TRUE
OneBudget == CHOOSE b \in SomeBudgets : TRUE

Owned(n, c, u, w) == [name |-> <<0, n>>, category |-> c, use |-> u, worth |-> w]
SomeEstates ==
  {[assets |-> {Owned("home", "primary_home", NoUse, 30), Owned("bank", "cash", NoUse, 5), Owned("fund", "investments", "short_term_goal", 8)},
    debts |-> {[of |-> <<0, "mortgage">>, on |-> <<0, "home">>, owed |-> 12], [of |-> <<0, "loan">>, on |-> Nowhere, owed |-> 3]},
    dues |-> {[year |-> y, month |-> 2, amount |-> 2] : y \in 1..4}, repayYears |-> 5]}
OneAim ==
  [target |-> 4, horizon |-> 5, need |-> 5, preserve |-> NoFloor, pension |-> 0, otherIncome |-> 0, pensionYear |-> NoYear,
   rates |-> [inflation |-> 1, raises |-> 1, return |-> 1, appreciation |-> 1, keeps |-> 1, lasts |-> 4,
              share |-> 25, securityYears |-> 1]]
=============================================================================
