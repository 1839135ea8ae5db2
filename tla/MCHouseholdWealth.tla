------------------------ MODULE MCHouseholdWealth ------------------------
(***************************************************************************)
(* The parts of the household's wealth that meet only through requests of  *)
(* their own, in one run: a behaviour is one of any of them, chosen in the *)
(* initial state, while the others stay as they begin.  It reaches the sum *)
(* of their states, each of which the part reaches by itself.              *)
(***************************************************************************)
EXTENDS
  PortfolioImport, PortfolioSync, MCLedgerMovements, LedgerPositions, PositionOwnership,
  MCPositionBudgets, MCMarketData, MCContributionBaskets

\* PortfolioImport
Operation(type, ref, spends) == [kind |-> type, ref |-> ref, spends |-> spends]
\* Two files with the same external id; one also holds a valuation and a
\* dividend.  The typed purchase competes for the cash.
Statement == <<Operation("trade", 1, 2), Operation("valuation", NoRef, 0)>>
Correction == <<Operation("trade", 1, 1), Operation("trade", NoRef, -1)>>
TwoFiles == {Statement, Correction}
TypedPurchase == {Operation("trade", NoRef, 2)}

\* PortfolioSync
TwoDates == {1, 2}
UpAndDown == {2, -3}
FeeOrNone == {0, 1}

\* LedgerPositions
AllHoldingKinds == {<<"cash", "cash">>, <<"debt", "investments">>}

\* PositionOwnership
ContractShares == [both |-> <<50, 50>>, moving |-> <<>>]
SaidShares == {(2 :> 100)}

-----------------------------------------------------------------------------
VARIABLE part   \* the one that moves

componentVars ==
  <<part, importVars, syncVars, ledgerVars, holdingVars, ownershipVars, commitmentsVars, marketVars,
   basketVars>>

WealthInit ==
  /\ part \in {"import", "sync", "ledger", "positions", "ownership", "commitments", "market", "contributions"}
  /\ ImportInit
  /\ SyncInit
  /\ LedgerInit
  /\ HoldingInit
  /\ OwnershipInit
  /\ CommitmentsInit
  /\ MarketInit
  /\ BasketInit
  /\ part = "positions" \/ kind = CHOOSE k \in HoldingKinds : TRUE
  /\ part = "contributions" \/ policy = CHOOSE version \in PolicyVersions : TRUE

ImportMoves ==
  /\ part = "import" /\ ImportNext
  /\ UNCHANGED <<part, syncVars, ledgerVars, holdingVars, ownershipVars, commitmentsVars, marketVars, basketVars>>
SyncMoves ==
  /\ part = "sync" /\ SyncNext
  /\ UNCHANGED <<part, importVars, ledgerVars, holdingVars, ownershipVars, commitmentsVars, marketVars, basketVars>>
LedgerMoves ==
  /\ part = "ledger" /\ LedgerNext
  /\ UNCHANGED <<part, importVars, syncVars, holdingVars, ownershipVars, commitmentsVars, marketVars, basketVars>>
HoldingMoves ==
  /\ part = "positions" /\ HoldingNext
  /\ UNCHANGED <<part, importVars, syncVars, ledgerVars, ownershipVars, commitmentsVars, marketVars, basketVars>>
OwnershipMoves ==
  /\ part = "ownership" /\ OwnershipNext
  /\ UNCHANGED <<part, importVars, syncVars, ledgerVars, holdingVars, commitmentsVars, marketVars, basketVars>>
CommitmentsMoves ==
  /\ part = "commitments" /\ CommitmentsNext
  /\ UNCHANGED <<part, importVars, syncVars, ledgerVars, holdingVars, ownershipVars, marketVars, basketVars>>
MarketMoves ==
  /\ part = "market" /\ MarketNext
  /\ UNCHANGED <<part, importVars, syncVars, ledgerVars, holdingVars, ownershipVars, commitmentsVars, basketVars>>
BasketMoves ==
  /\ part = "contributions" /\ BasketNext
  /\ UNCHANGED <<part, importVars, syncVars, ledgerVars, holdingVars, ownershipVars, commitmentsVars, marketVars>>

WealthNext ==
  \/ ImportMoves
  \/ SyncMoves
  \/ LedgerMoves
  \/ HoldingMoves
  \/ OwnershipMoves
  \/ CommitmentsMoves
  \/ MarketMoves
  \/ BasketMoves

WealthSpec == WealthInit /\ [][WealthNext]_componentVars

\* The variables of the part that moves keep their types.
WealthTypeOK ==
  /\ part = "import" => ImportTypeOK
  /\ part = "sync" => SyncTypeOK
  /\ part = "ledger" => LedgerTypeOK
  /\ part = "positions" => HoldingTypeOK
  /\ part = "ownership" => OwnershipTypeOK
  /\ part = "commitments" => CommitmentsTypeOK
  /\ part = "market" => MarketTypeOK
  /\ part = "contributions" => BasketTypeOK

\* Rates, indexes and prices, while synchronisations and conversions fetch them, stay whole; and rates
\* loaded beforehand and rates looked up one by one stand on the same quotes.
MarketHolds == part = "market" => HistoryIsWhole /\ ConversionsAgree

\* What is proposed for new money adds up to it and keeps to commitments and minimums, and booking it
\* overdraws no account.
MoneySharedOut == part = "contributions" => AddsUp /\ NothingOverdrawn
=============================================================================
