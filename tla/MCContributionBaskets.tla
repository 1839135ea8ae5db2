------------------------ MODULE MCContributionBaskets -----------------------
(* Two funds of a bank, one of them with a yearly quota, and a platform with *)
(* a purse, a minimum ticket and a monthly floor.                            *)
EXTENDS ContributionBaskets

CONSTANTS equity, bonds, fundBank, platform

SomeFunds == 1..3
SomeClasses == <<equity, bonds, equity>>
SomeContainers == <<fundBank, fundBank, platform>>
SomeRules ==
  <<[minimum |-> 0, step |-> 0, cost |-> 1, movable |-> TRUE, excluded |-> FALSE],
    [minimum |-> 0, step |-> 5, cost |-> 0, movable |-> FALSE, excluded |-> FALSE],
    [minimum |-> 30, step |-> 0, cost |-> 0, movable |-> FALSE, excluded |-> FALSE]>>

Shares(e, b, c) == (equity :> e) @@ (bonds :> b) @@ ("cash" :> c)
SomePolicies ==
  {[classes |-> Shares(5, 4, 1), own |-> (2 :> 10), minLine |-> 5, maxCost |-> <<1, 10>>],
   [classes |-> Shares(8, 2, 0), own |-> (2 :> 10) @@ (3 :> 4), minLine |-> 0, maxCost |-> <<1, 10>>]}

SomeCommitments ==
  {[kind |-> "position", to |-> 2, period |-> "year", amount |-> 60, breach |-> 5],
   [kind |-> "container", to |-> platform, period |-> "month", amount |-> 20, breach |-> 3]}

BeforeThisMonth == <<0, 12, 0>>
AtFirst == {<<0, 0, 0>>}
SomeMoves == {<<1, 70>>, <<3, 20>>}
SomeAccounts == {Bank, platform}
=============================================================================
