------------------------- MODULE MCBudgetExecution -------------------------
(* Years of three months and four kinds of lines: two expenses of one slot, *)
(* one aimed at the second month; an income that comes in the second month; *)
(* and what a debt asks for in two months, which mirrors the debt.          *)
EXTENDS BudgetExecution

BudgetForm(kind, slot, profile, sum) ==
  [kind |-> kind, slot |-> slot, profile |-> profile, year |-> 1, target |-> Whenever,
   first |-> 1, endYear |-> 1, last |-> LastMonth, sum |-> sum,
   monthly |-> FALSE, active |-> TRUE, mirror |-> FALSE]
HouseForms ==
  {BudgetForm("expense", "home", "structural", 5),
   [BudgetForm("expense", "home", "one_off", 2) EXCEPT !.target = 2],
   [BudgetForm("income", "pay", "structural", 4) EXCEPT !.target = 2],
   [BudgetForm("expense", "debt", "term", 3) EXCEPT !.first = 2, !.monthly = TRUE, !.mirror = TRUE]}

TwoAnswers == {[status |-> "stated", sum |-> 1], [status |-> "skipped", sum |-> 0]}
OneAnswer == {[status |-> "stated", sum |-> 1]}
MonthTwos == {<<1, 2>>, <<2, 2>>}
FirstTwo == {<<1, 2>>}
HomeBooked == {<<"home", <<1, 2>>, 1>>}
=============================================================================
