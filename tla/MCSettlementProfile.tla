------------------------ MODULE MCSettlementProfile ------------------------
EXTENDS SettlementProfile
TheAssets == {"joint", "anas", "wallet", "purse", "fund"}
TheClass == [a \in TheAssets |-> IF a \in {"wallet", "purse"} THEN "wallet" ELSE "bank"]
TheHolder == [a \in TheAssets |-> IF a \in {"anas", "purse"} THEN "ana" ELSE Household]
TheWorth == [a \in TheAssets |-> [d \in 0..3 |-> CASE a = "wallet" -> 3 + d [] a = "purse" -> 1 [] OTHER -> 10 + d]]
Row(a, role, m, p, acc) == [asset |-> a, role |-> role, member |-> m, primary |-> p, accepted |-> acc]
Basic == {Row("joint", "operating", NoMember, FALSE, NotCounted), Row("anas", "personal_destination", "ana", TRUE, NotCounted)}
Cash == {Row("wallet", "physical_cash", NoMember, FALSE, 2), Row("purse", "physical_cash", NoMember, FALSE, 2)}
Shift == [on |-> 1, from |-> "wallet", to |-> "purse", amount |-> 1]
TheConfigurations ==
  {[rows |-> Basic, adjustments |-> {}, links |-> {}],
   [rows |-> Basic \cup Cash, adjustments |-> {}, links |-> {Shift}]}
TheRecounts ==
  {[date |-> d, cash |-> c, adjustments |-> {}, links |-> {}] :
      d \in 0..1, c \in {<<>>, [a \in {"wallet", "purse"} |-> IF a = "purse" THEN 1 ELSE 4]}}
Rent == [account |-> NoMember, source |-> NoMember, owner |-> Household, equal |-> FALSE, saves |-> FALSE, temporary |-> FALSE]
TheExpenses == {Rent, [Rent EXCEPT !.saves = TRUE], [Rent EXCEPT !.owner = "ana", !.temporary = TRUE]}
=============================================================================
