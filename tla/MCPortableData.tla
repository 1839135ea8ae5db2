--------------------------- MODULE MCPortableData ---------------------------
EXTENDS PortableData

\* A couple: a flat and the mortgage that pays it, with the same number.
Couple ==
  [people |-> <<"ana", "bea">>,
   titles |-> <<[kind |-> "individual", who |-> {1}, basis |-> "fixed"],
                [kind |-> "individual", who |-> {2}, basis |-> "fixed"],
                [kind |-> "shared", who |-> {1, 2}, basis |-> "incomes"]>>,
   assets |-> 2 :> [name |-> "flat", book |-> 1],
   debts  |-> 2 :> [name |-> "mortgage", book |-> 2, financing |-> 2],
   books  |-> <<[name |-> "flat", of |-> <<"asset", 2>>], [name |-> "mortgage", of |-> <<"debt", 2>>],
                [name |-> "equity", of |-> NoPosition]>>,
   moves  |-> 1 :> [legs |-> {1, 3}, balanced |-> TRUE, opening |-> <<"asset", 2>>, title |-> 3]
           @@ 2 :> [legs |-> {2, 3}, balanced |-> TRUE, opening |-> <<"debt", 2>>, title |-> Nil],
   lines  |-> <<[name |-> "food", debt |-> Nil, planned |-> FALSE, title |-> 3],
                [name |-> "mortgage", debt |-> 2, planned |-> FALSE, title |-> 3]>>,
   links  |-> <<"asset", 2>> :> 1 @@ <<"debt", 2>> :> 3]

\* Somebody else, whose numbers are others' numbers here.
Single ==
  [people |-> 2 :> "cid",
   titles |-> 3 :> [kind |-> "individual", who |-> {2}, basis |-> "fixed"],
   assets |-> <<[name |-> "shares", book |-> 3]>>,
   debts  |-> 2 :> [name |-> "loan", book |-> 1, financing |-> 2],
   books  |-> 1 :> [name |-> "loan", of |-> <<"debt", 2>>] @@ 3 :> [name |-> "shares", of |-> <<"asset", 1>>]
           @@ 4 :> [name |-> "equity", of |-> NoPosition],
   moves  |-> 3 :> [legs |-> {3, 4}, balanced |-> FALSE, opening |-> <<"asset", 1>>, title |-> 3]
           @@ 5 :> [legs |-> {3}, balanced |-> FALSE, opening |-> NoPosition, title |-> Nil],
   lines  |-> <<>>,
   links  |-> <<"debt", 2>> :> 3]

FirstHomes == {Couple}
OtherFiles == {[rows |-> Single, premium |-> p, version |-> "ours"] : p \in BOOLEAN}
                \union {[rows |-> Single, premium |-> TRUE, version |-> "newer"]}
=============================================================================
