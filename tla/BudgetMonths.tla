---------------------------- MODULE BudgetMonths ----------------------------
(***************************************************************************)
(* What a line of the annual budget plans for each month                   *)
(* (backend/budget/services.py).  The months of the budget, the inputs of  *)
(* the plan's projection and the monthly summaries all read lines through  *)
(* these functions.  Amounts are in cents.                                 *)
(***************************************************************************)
EXTENDS Integers, TLC

CONSTANT LastMonth   \* months in a year, 12 in the code
ASSUME MonthsAssumption == LastMonth \in Nat \ {0}

Whenever == 0        \* no target month

\* ROUND_HALF_UP of a quotient
HalfUpOf(a, n) == (2 * a + n) \div (2 * n)
Greater(a, b) == IF a > b THEN a ELSE b

\* _effective_annual_amount_for_term_entry
YearSum(s, y) ==
  IF ~s.monthly \/ s.profile # "term" \/ s.endYear # y THEN s.sum
  ELSE HalfUpOf(s.sum * (Greater(s.first, s.last) - s.first + 1), LastMonth)

Applies(s, y) ==
  \/ s.mirror /\ s.year = y
  \/ ~s.mirror /\ s.profile = "one_off" /\ s.year = y
  \/ ~s.mirror /\ s.profile # "one_off" /\ s.year <= y /\ (s.profile = "term" => s.endYear >= y)

\* What is spread starts and ends within the year.
FirstOf(s, y) == IF s.profile = "term" /\ s.year = y THEN s.first ELSE 1
EndOf(s, y) == IF s.profile = "term" /\ s.endYear = y THEN s.last ELSE LastMonth
Aimed(s, y) ==
  \/ s.profile = "one_off"
  \/ s.kind = "income" /\ s.target \in FirstOf(s, y)..EndOf(s, y)

\* The last month takes what rounding leaves over.
Spread(sum, first, last) ==
  LET base == HalfUpOf(sum, last - first + 1) IN
  [m \in first..last |-> IF m = last THEN sum - base * (last - first) ELSE base]

\* planned_income_monthly_distribution, planned_expense_monthly_distribution
Distribution(s, y) ==
  CASE YearSum(s, y) <= 0 \/ ~Applies(s, y) \/ (s.profile = "one_off" /\ s.target = Whenever) -> <<>>
    [] Aimed(s, y) -> s.target :> YearSum(s, y)
    [] OTHER -> Spread(YearSum(s, y), FirstOf(s, y), Greater(FirstOf(s, y), EndOf(s, y)))
=============================================================================
