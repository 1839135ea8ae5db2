----------------------- MODULE MCSettlementExecution -----------------------
(* Instances of SettlementExecution: which close holds each recommendation, *)
(* for how much, and whether two of them use one route.                     *)
EXTENDS SettlementExecution, TLC

OneClose == [r \in Recs |-> 1]
LaterClose == [r \in Recs |-> 2]
AmountOne == [r \in Recs |-> 1]
AmountTwo == [r \in Recs |-> 2]
SharedRoute == [r \in Recs |-> "operating to ana"]
OwnRoutes == [r \in Recs |-> IF r = 1 THEN "operating to ana" ELSE "operating to ben"]

\* Requests being served differ in nothing but their name.
Interchangeable == Permutations(Procs)
=============================================================================
