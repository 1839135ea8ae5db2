------------------------- MODULE MCLedgerMovements -------------------------
(* Instances of LedgerMovements for TLC. *)
EXTENDS LedgerMovements, TLC

LBank == 1
LFund == 2
LFundUsd == 3
LLoan == 4
LBankTwo == 5
LIncome == 6
LExpense == 7
LExpenseUsd == 8
LEquity == 9

AllBooks == 1..9
AllBookTypes == <<"asset", "asset", "asset", "liability", "asset", "income", "expense", "expense", "equity">>
AllBookCurrencies == <<"EUR", "EUR", "USD", "EUR", "EUR", "EUR", "EUR", "USD", "EUR">>
AllBackings == <<"cash", "investments", "investments", "debt", "none", "none", "none", "none", "none">>
AllFeeBooks == [EUR |-> LExpense, USD |-> LExpenseUsd]
KeptBooks == {LIncome, LExpense, LExpenseUsd, LEquity}

Ask(kind, dir, a, b, x, d, f, g) ==
  [kind |-> kind, direction |-> dir, account |-> a, counter |-> b, amount |-> x, dest |-> d,
   fee |-> f, destFee |-> g, principal |-> 0, interest |-> 0, interestBook |-> LExpense]

AllRequests ==
  {Ask("income", "", LBank, LIncome, 2, Omitted, Omitted, Omitted),
   Ask("expense", "", LLoan, LExpense, 1, Omitted, Omitted, Omitted),
   Ask("transfer", "", LBank, LLoan, 1, Omitted, Omitted, Omitted),
   Ask("adjustment", "", LLoan, LEquity, 1, Omitted, Omitted, Omitted),
   Ask("revaluation", "", LFund, LExpense, -1, Omitted, Omitted, Omitted),
   Ask("investment", "inflow", LBank, LFund, 2, Omitted, 1, Omitted),
   Ask("investment", "inflow", LBankTwo, LFund, 2, Omitted, 1, Omitted),
   Ask("investment", "outflow", LBank, LFund, 1, Omitted, 2, Omitted),
   Ask("investment", "reinvestment", LFund, LFundUsd, 1, 2, 1, 1),
   Ask("investment", "reinvestment", LFund, LFundUsd, 1, Omitted, Omitted, Omitted),
   [Ask("debt_payment", "", LBank, LLoan, 3, Omitted, Omitted, Omitted)
     EXCEPT !.principal = 2, !.interest = 1]}

FewRequests == {r \in AllRequests : r.kind = "investment"}
=============================================================================
