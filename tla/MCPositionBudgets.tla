------------------------- MODULE MCPositionBudgets -------------------------
(* Two versions of a loan, one renamed and cancelled early, and of a savings plan. *)
EXTENDS PositionBudgets

Loan ==
  [kind |-> "debt", name |-> "loan", active |-> TRUE, amount |-> 26, months |-> 3, every |-> 1,
   start |-> 0, first |-> 1, cancelled |-> 0, paysLast |-> TRUE, fee |-> 0]
LoanCancelled == [Loan EXCEPT !.cancelled = 2, !.paysLast = FALSE, !.fee = 6]
LoanRenamed == [Loan EXCEPT !.name = "debt", !.amount = 27, !.cancelled = 2]

Deposit ==
  [kind |-> "savings", name |-> "deposit", active |-> TRUE, amount |-> 9, every |-> 1, first |-> 1,
   last |-> 0]
DepositUntil == [Deposit EXCEPT !.last = 2]
DepositStopped == [Deposit EXCEPT !.active = FALSE]

SomeDebts == {Loan, LoanCancelled, LoanRenamed}
SomeSavings == {Deposit, DepositUntil, DepositStopped}
=============================================================================
