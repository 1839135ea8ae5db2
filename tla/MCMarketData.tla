---------------------------- MODULE MCMarketData ----------------------------
(* Crypto held in a household whose base currency is another one; the        *)
(* provider of rates between the others rests on the second day.             *)
EXTENDS MarketData

CONSTANTS eur, usd, btc

EveryDay == 1..LastDay
WorkingDays == EveryDay \ {2}

ProviderDays ==
  [s \in Series |->
     IF DatasetOf(s) # "fx" \/ s[2] \in Crypto THEN EveryDay
     ELSE IF s[3] \in Crypto THEN {} ELSE WorkingDays]

SomePositions == {<<btc, 1>>}
SomeConversions == {<<eur, btc, 1>>, <<eur, usd, 3>>, <<btc, usd, 1>>}
SomeStubs == {{1, 3}}
AskedFor == {<<"fx">>, <<"prices">>, <<"inflation">>}
=============================================================================
