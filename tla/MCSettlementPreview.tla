------------------------ MODULE MCSettlementPreview ------------------------
(* A household of two: Ana (1) and Ben (2) share an operating account that   *)
(* pays their credit card, a wallet and a savings account which joins later, *)
(* and each has an account of their own; Ana keeps a wallet too.             *)
EXTENDS SettlementPreview

TwoMembers == {1, 2}
OneThird == <<33, 67>>

AllAccounts == 1..7
AllRoles == <<"operating", "personal_destination", "personal_destination", "physical_cash",
              "physical_cash", "credit_card", "allocation_destination">>
AllOwners == <<0, 1, 2, 0, 1, 0, 0>>
AllMoney == <<100001, 50000, 20000, 0, 3000, -10000, 7000>>
AllBridges == <<0, 0, 0, 0, 1000, 0, 0>>

On(a, n) == [b \in AllAccounts |-> IF b = a THEN n ELSE 0]
Between(a, b, n) == [c \in AllAccounts |-> IF c = a THEN -n ELSE IF c = b THEN n ELSE 0]
Move(kind, flow, economic, own) == [kind |-> kind, flow |-> flow, economic |-> economic, own |-> own]
AnaPaysForBoth == Move("external", On(2, -15000), -15000, 0)
AllMoves ==
  {AnaPaysForBoth,
   Move("external", On(6, -9900), -9900, 0),       \* a purchase with the card
   Move("external", On(1, -5000), -10000, 0),      \* half of it paid from elsewhere
   Move("external", On(1, -5000), 0, 0),           \* not classified
   Move("external", On(2, -5000), 0, 0),           \* nor this one, Ana's
   Move("transfer", Between(1, 7, 5000), 0, 0),    \* to an account that may not have joined
   Move("normalization", Between(5, 4, 1000), 0, 0)}
AllBudgets == {[On(1, 40000) EXCEPT ![7] = 5000]}
=============================================================================
