# Formal models of moneyplanner-core

TLA+ models of the backend of moneyplanner: how a household settles its months, and what
happens to its closes, ownerships, ledger, positions, plan, budget, portfolio, market data
and exported files when requests overlap, fail half way, come in any order or are repeated.
The models are checked with TLC on small instances; the properties that matter most are
proved with TLAPS for every value of the constants.

Everything runs in this directory: `tlc -config X.cfg M` for a run of the table below,
`tlapm M.tla` for the proofs of module `M`.  `PROJECT.json` lists the runs, the source lines
each definition models, the hazards, the findings and the theorems.

## The system

The backend is a Django application over PostgreSQL.  Each HTTP request is served by its
own worker; `transaction.atomic` blocks run under READ COMMITTED, so every *statement* sees
what is committed when it starts, and `select_for_update` is the only mutual exclusion.
There are no queues or messages: all concurrency is requests against shared rows, plus
callbacks that run in the thread of a request after it has committed (`on_commit`).

| component (under `src/backend/`) | state | operations | hard behaviour | what makes it correct | modelled in |
|---|---|---|---|---|---|
| settlement execution (`budget/services_settlement_execution.py`) | recommendations, their applied amount and status; links of ledger transactions | accept, apply, reconcile, cancel, reverse, apply-all | row locks without the close row, retries by key, batch atomicity, candidates read before they are locked | applied = ledger; never above the amount; history is never lost; a locked close is final | `SettlementExecution` |
| monthly close (`budget/services_monthly_close.py`) | a row per month: draft, finalized, locked, frozen figures | finalize, reopen, lock | one finalization reads in many statements; reopening cascades | each close opens where the previous one ended; closed months do not change | `MonthlyClose` |
| settlement snapshot (`budget/services_settlement_preview.py`) | one per closed month: positions, recommendations, allocation links | preview, freeze, clear | opening from the latest ready close; allocations shared by closes; compensations | nobody is asked twice; everybody ends with what is theirs | `MonthlyClose` (lifecycle), `SettlementPreview` (calculation) |
| settlement profile, wallet sweep (`budget/services_settlement.py`) | accounts, baseline, adjustments | configure, activate, rebaseline, disable | rebaselining against a finalization | a ready close never loses its baseline | `SettlementProfile`, `SettlementPreview` |
| ownership allocation (`memberships/services_allocations.py`) | a row per ownership and month, frozen or not | resolve, store, freeze, unfreeze | look-up and update are separate statements; rounding | a frozen row never changes; shares are the whole | `MonthlyClose`, `Memberships` |
| members, ownerships (`memberships/`) | members, ownerships, splits, links | create, change, delete, link | deletions guarded by separate look-ups | nothing names an owner who is gone | `Memberships` |
| ledger (`accounting/`) | accounts, transactions, entries, fees | quick entry, edit, fees, delete | a fee is found by the account that pays now | worth is what movements say; each fee once | `LedgerMovements` |
| net worth positions (`net_worth/`) | assets, debts, linked accounts, openings | save, link, read, delete | saves that stop half way; two ways of reading a value | one opening, for what is stated; both readings agree | `LedgerPositions` |
| budget lines of positions (`net_worth/services_*_budget.py`) | generated lines | save, synchronise, relink, hand edits | synchronisations without locks | lines add up to the debt | `PositionBudgets` |
| budget, check-ins (`budget/`, `net_worth/`) | lines, check-ins, closes | create, edit, accept suggestions | guard and write are two statements | months add up; closed months stay | `BudgetExecution`, `MonthlyClose` |
| position ownership (`portfolio/services.py`) | periods, issues | derive after commit, state, undo | lost and late callbacks | one owner a day; the past stands | `PositionOwnership` |
| portfolio imports (`portfolio/imports.py`, `operations.py`) | batches, rows, trades | upload, preview, confirm | preview without the batch's lock, deadlock | a trade per confirmed row | `PortfolioImport` |
| portfolio synchronisation (`portfolio/signals.py`, `valuations.py`) | valuations, trades, costs | callbacks after commit | any order, lost in a crash | what is derived follows the ledger | `PortfolioSync` |
| contributions (`portfolio/allocation.py`) | baskets | propose, confirm, discard | unlocked check-then-act; rounding in rounds | nothing given twice; confirmed is booked | `ContributionBaskets` |
| plan (`plan/`) | decisions, the lines they own | accept, register, materialise, cancel, retire | lines adopted and returned | a debt is counted once | `PlanEvents` |
| market data (`core/market_data.py`, `core/services.py`) | rates, indexes, prices, state rows | synchronise, convert | overlapping runs, interrupted ones | no holes; two look-ups agree | `MarketData` |
| portable data (`core/portable_data.py`, `frontend/src/domains/portable-data`) | a household in a file | export in pieces, import | identities in notes; renaming | what a file brings arrives, once | `PortableData` |
| plan projection (`plan/services_inputs.py`, `services_projection.py`, `services_scenarios.py`, `services_classification.py`, `services_lifecycle.py`) | what is read of the budget, decisions and positions; the household year by year | inputs, years, searches for the earliest retirement | amounts that reach it by two ways; partial years; two accounts of the same cash | each amount once; cash neither made nor lost; the year found is sustained | `BudgetMonths`, `PlanArithmetic`, `PlanInputs`, `PlanProjection` |
| performance, risk, exposure, timelines, foundations and quality of the plan | derived figures | calculation | none concurrent | numeric | no |
| accounts, frontend, deployment | identities, screens | get or create; I/O | unique constraint | | no |

They interact through calls and shared rows.  Finalizing a close (row lock on the close)
freezes a snapshot, which freezes allocation rows and creates recommendations; executing a
recommendation (row lock on the recommendation, *not* the close) writes ledger transactions
that refer to it with `PROTECT`; reopening (row locks on the close and all later ones) deletes
snapshot and recommendations, which the references must prevent, and unfreezes allocations
nobody refers to.  Saving a position writes openings in the ledger and lines in the budget;
a movement in the ledger pulls back the starting date of a position, and after it has
committed the portfolio derives valuations, trades and ownership periods from it.  Plan
decisions create, adopt and return budget lines, and a liability when they are made real; the projection of the plan
reads the lines, the decisions and the positions, where the same decision may show in all three.

## Modules

| module | models |
|---|---|
| `SettlementExecution` | recommendations, ledger links and close statuses under concurrent requests |
| `SettlementObligation` | abstract: a recommendation as a debt that is paid, refunded, cancelled or withdrawn; no requests, no locks |
| `MonthlyClose` | the chain of closes with snapshots, allocations, ledger figures and check-ins |
| `SettlementPreview` | what a settlement says each member owes, over a chain of closes that are carried out |
| `SettlementProfile` | accounts, baseline and activation of a settlement |
| `Memberships` | members, ownerships, links, shares that follow income |
| `LedgerMovements` | quick entries, edits, fees, deletions |
| `LedgerPositions` | positions that follow the ledger, their openings, their readings |
| `PositionBudgets` | budget lines generated by debts and savings |
| `BudgetMonths` | what a line of the budget plans for each month; used by `BudgetExecution` and the projection |
| `BudgetExecution` | budget lines, check-ins, suggestions, closes around them |
| `PositionOwnership` | ownership periods of an investment |
| `PortfolioImport`, `PortfolioSync`, `ContributionBaskets` | imports, derived valuations and trades, contributions |
| `PlanEvents` | decisions of the plan and their budget lines |
| `PlanArithmetic` | a year of the plan's projection, as operators |
| `PlanInputs` | what the projection starts from, while the calendar moves and a decision becomes real |
| `PlanProjection` | the years of a projection and the searches for the earliest retirement |
| `MarketData` | rates, indexes and prices kept from providers |
| `PortableData` | export and import of a household |
| `MCSettlementExecution`, `MCCloseRequests` | instances for TLC; `MCCloseRequests` joins four instances of `MonthlyClose` |
| `MCHouseholdPlanning` | `SettlementPreview`, `SettlementProfile`, `Memberships`, `PlanEvents`, `BudgetExecution`, `PortableData`, `PlanProjection` and `PlanInputs` in one run |
| `MCHouseholdWealth` | `PortfolioImport`, `PortfolioSync`, `LedgerMovements`, `LedgerPositions`, `PositionOwnership`, `PositionBudgets`, `MarketData` and `ContributionBaskets` in one run |
| the other `MC` modules | the instance of one component, for the household run that EXTENDS it |
| `SettlementExecutionProofs`, `SettlementBooksProofs` | theorems about the settlement: invariants and rows; sums of the ledger and the refinement |
| `MonthlyCloseProofs` | theorems about `MonthlyClose` |
| `PlanningProofs` | theorems about `SettlementProfile`, `Memberships`, `BudgetExecution` and `PlanEvents` |
| `ProjectionProofs` | theorems about `PlanProjection` and `PlanInputs` |
| `LedgerProofs`, `WealthProofs` | theorems about `PortfolioSync` and `LedgerPositions`; about `PortfolioImport`, `PositionOwnership` and `ContributionBaskets` |
| `SetLemmas` | facts about finite sets and sums the proofs share |

Definitions that are commented as a fault (`fault:`, `A fault:`) are not part of the specification: each is a
plausible mistake in the code (a dropped guard, a forgotten lock) with which a property is
shown to be violated, so that the property is known to depend on the code.

Some modules keep *history* variables, which no guard reads.  They record that one of the
things happened that the code does not defend against, and a property sets aside what it
touched; the sections below say which, and what the code does then.

### SettlementExecution

A request is a session in `sess[p]`.  Its steps are the statements at which other requests
may intervene:

* `RequestApply` and the others are the start of `_locked_recommendation`: the `SELECT ... FOR
  UPDATE OF self` with its join.  The status of the close is taken here (`seen`), because only
  the locked table is read again after a wait.
* `LockRow` gets the row lock (`held`), reads the current row, and runs
  `_validate_execution_state` on the old close and the new row.
* `Accept`, `Cancel`, `Apply`, `Reverse` are the rest of each service, committed at once: while
  the row is locked nobody else changes what it reads, but for keys.
* `ReadCandidates` and `Reconcile` are two steps, since the candidates are read without a lock
  before the transfer is locked.
* `StartApplyAll`, `BatchSelect`, `BatchApply`, `BatchReplay`, `BatchSkip`, `CommitAll`: one
  transaction over all recommendations of a close.  Its movements are `pending` (they hold their
  key but nobody sees them) until it commits.
* `ReopenCheck`, `ReopenCommit`: `reopen_monthly_close`, between whose check and deletion
  movements may be booked.  The deletion waits for the recommendation rows and fails if a
  movement refers to one (`PROTECT`).
* `Fail` is every validation error and early return that writes nothing; the transaction rolls
  back, and the batch's pending movements go with it.  A request whose key was already used
  returns the recommendation as it is, which writes nothing either, and so is a `Fail`.
* `PostTransfer`, `DeleteTransfer`, `DeleteLinked` are the ledger endpoints.  `DeleteLinked` is in
  `EditSpec` only: the other runs are about settlement, and the run on `EditSpec` shows what this
  endpoint does to it.

Amounts are integers (cents), a route stands for everything a candidate must match (accounts,
currency, ownership, dates).  `credit` is `settlement_amount`.  Deleted recommendations keep their
id and never come back; a new finalization creates new ones.  The number of ledger transactions
(`TxIds`) is the only bound on behaviour: a request that would book beyond it fails.

`SettlementObligation` says what all this promises: per recommendation an amount paid that goes
up and down within its bounds, a cancellation that is final, a withdrawal only of what no movement was ever
booked on.  `SettlementExecution!SettlesObligations` is the refinement: the paid amount is what the row says was
applied, an obligation has moved when a committed movement is linked to it, and its phase is read off the status
(applied, partially applied, accepted and recommended are all *open*: they differ only in the amount).  Requests,
locks, keys and pending movements are hidden.  With `OwnRouteConserves`, that the paid amount is what the ledger
holds, the two say that the books move only by steps of obligations.

### MonthlyClose

`finalize_monthly_close` is `FinalizeStart` (row lock), `ReadCurrent`, `ReadPrevious` (figures of this
month and the boundary of the previous one), `FirstPreview`, one `Resolve` and `Store` per allocation
row (look-up; then the `update_or_create` that waits for the row), `SecondPreview` and
`FinalizeCommit`.  `reopen_monthly_close` is `ReopenStart`, `SelectLater` (the snapshot of the statement
that selects later closes), `LockLater` (row locks, and the conditions looked at again), `Clear`, one
`Unfreeze` per row in the order of `clear_monthly_close_settlement`, `ReopenCommit`.
`AllocationStart`/`AllocationCommit` is the allocation preview endpoint, which stores what it shows.
`Rollback` ends any request at any point: refused, failed or disconnected.  `Settle` stands for a
recommendation applied through the other module.

The preview's arithmetic is a choice in `Modes` (disabled, not ready, ready), since readiness depends
on data the close cannot control; the executed liquidity is the month's ledger balance or the
check-in that overrides it (one liquidity position: check-ins of several are aggregated); the percentages of a month are the movements before it, so that they
change exactly when the code's would.  One ownership uses income allocation, and the settlement
starts at month 1.  `Row.source` records where the opening was read; the program does not store it.
Row locks of one statement are taken in one step (`LockLater`), in ascending order in the code.

A check-in is posted (`CheckinStart`) or edited (`EditStart`, which reads the row, then `EditLook`, the guard), and saved in a step of
its own (`SaveCheckin`, `update_or_create` or the save of the row that was read); `DeleteCheckin` is not guarded.  The guard of an edit
looks at the month the check-in *had*, and the serializer lets the month change, so an edit may carry a check-in into a closed
month.  A row that was deleted meanwhile is inserted again with its identity, and one check-in per month is the unique key: a
save that would make a second one fails (`Rollback`).  History: `behind` are the requests whose month's figures were read for a close
after they had looked, `unseen` the months that got a check-in by one of the two ways the guard leaves open, such a late save
or an edit from another month.  `ClosedCheckinsSeen` says that there is no third: of every other closed month that
shows a check-in, it is the figure the month was closed with.

### SettlementPreview

The calculation of `build_settlement_preview`: positions advance from the last ready close through the
posted movements (`Current`), a compensation is what one member paid for another (`CompensationOf`), and
recommendations bring every account to its target (`Recommended`), with a funded card (`IsDirect`) or
without one.  Movements come in a bag, since only sums matter; the *chain* is what the module adds: closes
are calculated, frozen (`CloseReady`) and carried out (`CarryOut`) one after another, with wallet sweeps,
newly joined accounts and movements posted late in between.  Movements without a category (`Unclassified`) are among them: a
payment booked by half may be made up for by one, and the preview is then ready though its compensations do not cancel out
(`preview.py:746-747` skips the second, 1619-1630 compares totals).  `CompensationsExplained` says what they add up to
instead: what the unclassified movements moved.  Amounts are in hundredths of a cent because an
opening baseline is not rounded and everything after it is.  Reserves are inputs.  History: `due` is what
each member has a right to, worked out from the movements alone (an unclassified one stays with the owner of its account, while
all share the booking it makes up for); `lapsed` says that a close replaced
recommendations nobody carried out; `idle` that nothing but recommendations has happened since the last close, with what that close left unexplained: as much may be
asked for again.

### SettlementProfile

`Read...` and `Write...` are the two halves of requests that do not lock the profile; `Rebaseline` and
`AddAccount` lock it and are one step.  `Calculate` and `Freeze` are a finalization, which locks the close
and not the profile.  `overtaken`: a request wrote after the baseline it had read was replaced.  The code
lets that happen (`services_settlement.py:893`), and `BaselineHolds` is about all other histories.

### Memberships

Every request is one transaction.  `Allocation` is the calculation of shares from income: rounding half
up to hundredths and the rest to the last member; with less than two months of income it cannot be
resolved.  `OwnersHold` covers deletions in any order; `SharesFollowIncome` compares the rounded shares
with the exact ones.

### PlanEvents

A decision (`PlannedEvent`) owns budget lines by their `event_group`.  `AcceptScenario` makes lines,
`Register` groups lines the household has, `Materialize` replaces the foreseen lines by those of a
liability, `Cancel` and `Release` return what was adopted, `Retire` cuts it, `PatchDecision` is the generic
endpoint, which writes fields by hand (`patched` sets such decisions aside).  Amounts are left out.

### PlanProjection

One projection is one behaviour: `plan` is what it starts from (`ProjectionInputs` and the assumptions), `walk` the household in
the year that is projected, `rows` the years done.  A year is `GrowYear` (returns, appreciation, what is repaid of old debts),
`FundYear` (the surplus pays the gap, debts and planned contributions, and the rest goes to Security up to its target and to
Productive),
`WithdrawYear` (what retirement takes), then month by month `NetDecisions` (the cash of all decisions of a month together) and
`ApplyDecision` (one decision: its asset, its debt, its sale), and `CloseYear` (single flows of the year, its row).
`AskHorizon`, `NarrowYears` and `FoundYear` are `earliest_sustainable_retirement_year`, `NarrowMonths` and `FoundMonth`
`sustainable_readiness_month`: bisections with `low` and `high`, each asking whether a whole trajectory is sustained.
Everything is read before the first year, so the steps are those of the loops and nothing intervenes.  `PlanArithmetic` has the
functions of one year.  The code calculates with exact decimals; here amounts are integers, growth is by whole factors
and a quotient is rounded.  Decisions borrow without interest and for whole years.

`CashAccounted` says where each euro of a year goes; `CapitalStands` relates what is liquid and invested as a *function*
(Security, Productive, the gap) to the same as a *category*, which the code keeps in separate variables; `EarliestRetirement`
says that the year found is sustained, and that it is the first one if what a bisection takes for granted is true of the plan
(`OnceForAll`); `FiguresAgree` compares figures the projection gives in two ways.  One of them, `InstalmentsRepay`, is what the
instalments of a decision's debt have paid and what its balance says is no longer owed.  They are not equal: the annual payment is
rounded (`services_projection.py:1513`) while the balance comes from the rates (1675-1678), so a debt of 25 in
three years is paid off with 24 and one of 7 in two with 8.  The property bounds the difference by that rounding
(`RepaySlack`: half a unit for each annual payment, each year's part of it and the balance) and asks for equality where every month pays
whole units.

### PlanInputs

`build_projection_inputs` reads, at any time, the lines of the budget, the decisions that are foreseen and the
positions.  The state is what it reads: `clock` (the month that runs), `simulated` (a scenario) with its `stage` and,
once real, `since` when, `entries` and `estate`.  `MonthEnded` moves the calendar, `AcceptSimulation` makes the
scenario's lines (`ScenarioEntries`), `MakeReal` replaces the lines of its financing by those of a liability, hands the
others back to the household and creates positions, `CallOff` deletes them.  `Inputs(E, D)` is the reading itself, field
by field: which lines are regular, committed, directed to capital, or flows still to come, and which decisions the
budget of the year has absorbed.  `ReadOnce` says that no amount of a decision has both ways into the projection and
that wealth by function is wealth by category; `EachEuroOnce` (a part of `CountedOnce`) that every amount arrives
exactly once, or at most once where the code charges whole years.  Lines whose metadata a client wrote by hand
(`budget_lines`, `one_off_items`) are left out; amounts have the sign their form gives them, which the serializer does
not check of a scenario's deltas; a position's worth does not change between months; a new asset has the function that
was simulated.

### BudgetExecution

A check-in is saved by a request that reads the close's guard in one step (`StartCreate`, `StartUpdate`) and writes in
another (`WriteCheckin`); accepting suggestions reads once (`StartAccept`) and writes row by row (`AcceptRow`), outside
any transaction.  `Distribution` is what a line plans for each month under its profile (structural, term, spread,
one-off), in cents, and is in `BudgetMonths`.  `MonthsAddUp` (a part of `CountedOnce`) relates the two readings of the
rows: what the summary counts as pending and what the close offers to fill in.  `late` marks a write into a month closed
after the guard looked; `reshaped` the lines changed while they had check-ins.

### LedgerMovements

A request is a record with the API's fields; `QuickEntry` validates and turns it into legs, `EditMovement`
replaces kind, direction and entries *without* the quick-entry rules, as the serializer does, and relocates
fees; `EditFees` finds a fee by the account that pays today; `DeleteMovement` and `DeleteBook` cascade.  History:
`said` is the request behind each movement, `handled` the movements somebody edited under their fees.

### LedgerPositions

`SaveHolding` commits the position, links its account and writes or removes its opening; `SaveInterrupted`
stops before the opening (`halfSaved`); movements pull the starting date back.  `FromEntries` and `FromCache`
are the two readings of a value.  `touchedUp`: an opening was edited by hand.  `Crossed` sets aside a position
whose opening stands on an account that another position follows, where the readings do differ.

### PositionOwnership

`DeriveOwnership` is the callback after a request that changed the link has committed, which may be lost
(`LoseCallback`); `StateStretch` states a period, closing the open one before it; `UndoStretch` deletes the last
one and reopens the one that ended on its eve.  `backdated`: a period was derived, on the day the position was
opened, when it already had others, which nothing compares with it.

### PositionBudgets

`Save` commits the position and leaves a synchronisation due; `Look` reads the lines, `Take` what it is to
write, `Finish` writes: without locks, so two of them may meet.  `Fail`,
`LinkNothing` and `Discard` are the ways it ends without writing.  One position, without interest.

The schedule of a debt is in `UnitsPerCent` per cent, and each year's line is rounded to cents (`Cents`), as is the
principal of a cancellation: the lines of a debt therefore repay it to within half a cent each (`SameMoney`), and
not exactly.  History: `met` are the synchronisations in progress that worked at the same time as another, or as an edit
by hand, or found contributions made twice (`MadeTwice`).  Those are set aside, for the code then writes lines twice;
`CommitmentsAddUp` is about every synchronisation that met no other, also after some that did: it puts right what they left,
but for contributions made twice, of which only one is kept in step.

### PortfolioImport, PortfolioSync, ContributionBaskets

`PortfolioImport` keeps the two lock orders: previewing locks the rows and then writes the batch, confirming the
batch and then its rows, so they can wait for each other and the database ends one (`EndDeadlock`).
`PortfolioSync` has callbacks as a set: they run in any order, read in one step and write in another, and
`Crash` loses them; `stale` and `missed` record that the ledger moved under or past one.  In
`ContributionBaskets` `Proposal` is the whole distribution (commitments, container floors, gaps, minimums, steps,
rounding); `ReadConfirm`/`CommitConfirm` and `ReadDiscard`/`DiscardBasket`/`SkipLines` are the requests, which lock
nothing (`overlapped`: two ran at once on a basket).

### MarketData

A synchronisation opens its scope, reads the bounds of what is stored, fetches the spans outside them and
writes row by row, each in its own transaction; `ProcessEnds` kills it anywhere; `Convert` fetches the one day it
lacks.  What a quote says is left to the provider: a series is its days.  `ConvertedCached` and `Converted` are the
two look-ups of a rate, in each of which a quote is found direct, inverse or in two legs through the pivot (btc to eur, with both stored
against usd only).  `torn`: series in which the code leaves, or may leave, a hole (see below).

### PortableData

`ReadTable` reads one table at the moment the browser asks for it; `Import` adds a bundle to the household or
puts it in its place in one transaction that renames identities.  `ImportCarries` compares by names: what was
kept, and what the file brings less the losses named in `Bringing`, row for row.

## Runs

| run | instance | properties | result |
|---|---|---|---|
| `SettlementSingle` | the later of two closes, 1 recommendation of 2 cents, 3 transactions, 2 requests, a client key | `TypeOK`, `RecommendationsStand`, `OneMovementPerKey`, `CancelledIsFinal`, `SettlesObligations`, `OnlyOldRequestsAfterLock` | hold |
| `SettlementBatch` | 1 close with 2 recommendations on routes of their own, 2 requests, fair | `OwnRouteConserves`, `RequestsEnd` | hold |
| `CloseRequests` | 2 months and 2 overlapping requests; the same with two check-ins and no settlement; 3 months, one request at a time, movements and check-ins; 3 months, closes that may not be ready | `CloseTypeOK`, `NoClosesWaiting`, `ChainHolds`, `ClosedStay`, `ClosedCheckinsSeen` | hold |
| `HouseholdPlanning` | `SettlementPreview`, `SettlementProfile`, `Memberships`, `PlanEvents`, `BudgetExecution`, `PortableData`, `PlanProjection`, `PlanInputs`, one of them in each behaviour | `PlanningTypeOK`, `RecommendationsSettle`, `BaselineHolds`, `OwnersHold`, `SharesFollowIncome`, `DebtCountedOnce`, `OwnLinesStay`, `CountedOnce`, `ReadOnce`, `ClosedCheckinsGuarded`, `OneOpening`, `ImportCarries`, `CashAccounted`, `CapitalStands`, `EarliestRetirement`, `FiguresAgree` | hold |
| `HouseholdWealth` | `PortfolioImport`, `PortfolioSync`, `LedgerMovements`, `LedgerPositions`, `PositionOwnership`, `PositionBudgets`, `MarketData`, `ContributionBaskets`, one of them in each behaviour | `WealthTypeOK`, `BatchesHold`, `DerivedFollowLedger`, `WorthExplained`, `PositionsAgree`, `OneTitleADay`, `PastStands`, `CommitmentsAddUp`, `MarketHolds`, `MoneySharedOut`, `BookedOnce` | hold |
| `SettlementDoubleLink` | 2 recommendations on one route | `TransferSettlesOnce` | violated |
| `SettlementLockRace` | 1 recommendation | `LockedCloseIsFrozen` | violated |
| `SettlementLedgerEdit` | 1 recommendation, deletion of linked movements | `LinkedCloseStays` | violated |
| `CloseBoundaryRace` | 2 months, 2 requests | `BoundaryHolds` | violated |
| `CloseFreezeRace` | 2 months, 2 requests | `FrozenAllocationsHold` | violated |
| `LedgerFeeMoved` | an investment, two paying accounts, a fee | `FeesFollowMovement` | violated |
| `BasketRest` | a basket with a source, two buys | `RestCanBeConfirmed` | violated |

`HouseholdPlanning` and `HouseholdWealth` explore the *sum* of their components and not the product: the initial
state chooses the component that moves, and the others stay as they begin.  The components meet only through
requests of their own, so each reaches there what it reaches by itself; what one of them assumes of another
(movements posted, an income earned, a close finalized) is an input of its own.  The type invariants are one
invariant per run.  `CloseRequests` joins four instances of one module in the same way.

Some properties are conjunctions of parts that concern one claim.  `RecommendationsStand` is `StatusAgrees` (the status
says how much of the amount was applied) and `HistoryKept` (movements refer to recommendations there are); `ClosedStay`
is `ClosedIsFrozen` and `MovedClosesStay`; `ChainHolds` is `BoundaryHolds`, `SettlementChainHolds` and
`FrozenAllocationsHold` while one request runs at a time; `RecommendationsSettle` is `CompensationsExplained` and
`SettledAsDue`; `CountedOnce` is `MonthsAddUp` and `EachEuroOnce`, of two modules; `ReadOnce` is `NeverBothWays` and
`WealthOnce`; `CapitalStands` is `GapIsLast` and `KindsFollow`; `FiguresAgree` is `FullYearIsNextYear`,
`InstalmentsRepay` and `NeedsAskInOrder`; `PositionsAgree` is `OpeningIsStated` and `ReadingsAgree`; `MarketHolds` is
`HistoryIsWhole` and `ConversionsAgree`; `MoneySharedOut` is `AddsUp` and `NothingOverdrawn`.

**Bounds.**  Two cents let a recommendation be applied partially, completed, reversed partially and over-requested;
three transactions let it be applied, reversed and retried, or reconciled with a transfer booked before.  Two
requests are the smallest number that race; the properties of settlement are about pairs of requests on one row, on
a close and a row, or on two closes, and the theorems cover any number.  Two closes are enough for a cascade; three
months are needed for a gap (a settlement that opens from a close two months earlier) and for allocations shared by
two closes.  A check-in of another month than the second would only change its own observed figure, from which the
later month opens in the same way (`CheckinMonths`); where requests overlap and check-ins move between months both
months have them, and two (`CheckinIds`) let one be edited while another is posted, deleted or in the way.  The components of the household runs are bounded by the number
of changes (`MaxPosted`, `MaxCloses`, `MaxTitles`, `MaxEvents`, `MaxLine`, `MaxLineEdits`, `MaxHomeEdits`, `MaxTransfers`,
`MaxOperations`, `MaxBookings`, `MaxEdits`, `MaxOwn`, `MaxEntries`, `MaxChanges`, `MaxByHand`, `MaxSaves`, `MaxRetouches`,
`MaxRuns`, `MaxAsked`, `MaxBaskets`, `MaxHappenings`) and by one or two objects of each kind, which is where the
hazards in `PROJECT.json` begin; each bound appears in the guard of the action it bounds.

A year has three months in the runs of the plan (`LastMonth`, 12 in the code): a first, a middle and a last one, which is what
partial years tell apart.  `PlanProjection` walks 256 plans of four years (four starting capitals, two incomes, eight sets of
decisions, four settings of rates, floor and pension), `PlanInputs` twenty scenarios with two budgets until the third year
(`LastClock`), so that a decision is foreseen, begins, ends and becomes real in each month.  `HouseholdPlanning` reaches
some 593,000 states in less than three minutes, `HouseholdWealth` 1,172,000 and `CloseRequests` 2,894,000 in less than four.

A cent has four units in `PositionBudgets` (`UnitsPerCent`, a million in the code, which calculates instalments with eight
decimals): what a line loses and gains when it is rounded to cents is then a quarter or half a cent, as in the code.  The three
debts of `PlanProjection`'s plans are one whose months pay whole units, one rounded up (7 over 2) and one rounded down (25 over 3).

Larger instances were explored once, with the same results, and are too long for a run to be repeated: settlement with
requests of 1 and 2 cents in the later close (5,821,984 states) and with two recommendations sharing a route over two
closes (1,271,514); the overlapping closes with modes *not ready* and *ready* over two months (3,387,465), and over three
months without ledger movements (2,470,000, *ready* only, and 12 million of an unfinished exploration with both); a chain of
one request at a time with check-ins of months 1 and 2 (5.4 million); `LedgerPositions` with two accounts at first and three
changes (731,760); `PlanEvents` with two decisions and a household line (6,053,198); `BudgetExecution` with two answers
(545,712) and, unfinished, with two requests (2.6 million); `PortableData` with three transfers (3,184,461);
`ContributionBaskets` with positions already worth something (115,731); `PositionOwnership` is explored completely for three days.

`SYMMETRY` is used only where no liveness property is checked.  `CHECK_DEADLOCK FALSE`: when the bounds are reached and
every request has ended nothing needs to happen.

**Fairness.**  `SettlementExecution!FairSpec` assumes that a request once started goes on (`WF` on its own steps: the code neither
sleeps nor waits but for rows) and that a request waiting for rows gets them if they become free again and again
(`SF` on `Waits`: PostgreSQL queues the waiters of a row lock).  Nobody is obliged to send a request.  The other modules
claim no liveness: their requests may be broken off, and nothing is retried by the program.

### What the violated properties say

1. **A transfer settles two recommendations** (`SettlementDoubleLink`).  Reconcile reads candidates at line 377, locks the
   transfer at 383 and links it without looking again.
2. **A movement on a locked close** (`SettlementLockRace`).  Requests on one recommendation lock its row and not the close.
   `OnlyOldRequestsAfterLock` bounds it: only a request that had already selected its row.
3. **A settled close is reopened** (`SettlementLedgerEdit`), after its movement was deleted through the ledger.
4. **A close on a boundary that is gone** (`CloseBoundaryRace`).  Reopening neither selects nor waits for a later close that
   is being finalized.
5. **Frozen percentages are replaced** (`CloseFreezeRace`) by a request that looked the row up before it was frozen.
6. **A fee stays behind** (`LedgerFeeMoved`).  Correcting a fee looks for it on the account that pays *now*; after the investment
   was edited onto another account the old fee is not found, and a second one is booked.
7. **The rest of a basket cannot be confirmed** (`BasketRest`).  Confirming works the proposal out again and compares its token;
   confirming a part changes balances and weights, so the rest is refused for ever.

`BoundaryHolds` and `FrozenAllocationsHold` are in a passing run too (`ChainHolds`): they hold as long as one request runs at a
time, so what breaks them is the overlap and nothing else.  `OwnRouteConserves` likewise holds where `TransferSettlesOnce` fails.

**Lock cycles.**  Finalization takes allocation rows in ascending order, clearing a snapshot takes them in descending order (the
default ordering of `OwnershipAllocationSnapshot`).  Two cycles exist, and PostgreSQL aborts one of the two requests: after a
finalization has linked a row that a reopening beside it unfroze (two months are enough), and, from three months on, when a
finalization waits to write a row over that another close froze after it was looked up (`services_allocations.py:352`) while
that close is reopened.  `NoCircularWait` sets both aside (`LinksFrozen`, `Overwrites`) and says that there is no other.

### What else the code does

Met while modelling, described here because no document of the repository says otherwise plainly enough for a run, or because
a property sets it aside.

*Settlement and closes.*  Without a funded card the preview's targets are positions: what was settled is recommended back by the
next ready close (`docs/tasks/monthly-close-settlement/phase-6-settlement-execution/terminados/backend.md:30,33` expects the
opposite).  The plan hook's exception is swallowed inside the atomic block of the finalization
(`services_monthly_close.py:964`).  Undoing a period of ownership reopens one that the user had closed.

*Budget.*  A term line with monthly amounts that crosses years plans too much in every year but the last
(`budget/services.py:187`).  Suggestions are shown scaled to the residual and booked unscaled
(`views_monthly_close.py:71-77`).  A PATCH can move a check-in, of a line or of liquidity (`net_worth/views.py:250-256`), into a closed month, and deleting one is not
guarded.  A PATCH of a term
line without `time_profile` makes it structural.  Editing a recurrent line from a later year's view moves its year and hides
earlier check-ins.  Check-ins outside a line's term are accepted and never counted.  Deleting a line deletes the check-ins of closed
months; a check-in deleted while it is being saved is written again.

*Ownership and ledger.*  Deriving ownership again for other owners, on the day the position was opened, completes the old
shares with the new ones: 150–200 % (`portfolio/services.py:226`).  Editing a movement does not check the quick-entry rules again
(`serializers.py:504`).  Updating a dynamic ownership resets its income rules (`memberships/services.py:256`).  Saving a position is
not one transaction; a GET writes (`services_assets_core.py:651`).

*Plan.*  Materialising deletes adopted household lines of the debt's category (`services_lifecycle.py:207`); a status may be patched
by hand (`plan/serializers.py:392`).

*The plan's projection.*  A retirement that is sustained need not be followed by sustained ones, though the bisection rests on it
(`services_projection.py:961-963`): what the search returns is sustained, and is the earliest where this is so.  A decision whose
outlay is not of a sort that buys something (vehicle, housing, renovation) makes a single line of daily spending, which is in
the base of its year beside the payload of its event.  When events of one decision begin in different years, what they contribute is
read both as lines and as deltas from the first of them on.  A contribution towards debts is a commitment of the budget and a
repayment of the decision.  A decision made real before the year it was planned for is in neither way until that year
comes: its monthly lines are not read.  Lines of a year that has been absorbed stay in the base of all later years, those that
end with it included.  Incomes a decision adds do not reach the surplus of the years before retirement.  A contribution is charged for
its whole first year.  `EachEuroOnce` sets these histories aside (`InBothWays`, `LinesRead`).

*Lines of positions.*  Renaming a debt makes its lines "customized", so their amounts are never updated again
(`services_liabilities_budget.py:347-372`); overlapping synchronisations double lines: every later save of a debt with doubled lines fails, and of doubled contributions one
is never updated again; lines are rounded to cents year by year, so 10,000 over three years without interest is budgeted as
9,999.99; a
deactivated debt keeps its lines; investment lines are not extended past next year until the position is saved again.

*Portfolio.*  The cash of an operation is checked before it is booked, without a lock (`operations.py:281`).  Overlapping
confirmations of a basket book its cash lines twice (purchases are refused by their fingerprint, `operations.py:76`); a basket
created without a source can never be confirmed; a container's floor may fill a position beyond its yearly quota
(`allocation.py:1023`).

*Market data.*  A synchronisation asks for what its bounds show it lacks: a crash half way, or a day fetched ahead by a
conversion, leaves a hole that is never filled (`docs/operations/market-data-sync.md:24` says historical gaps are).  A failed run may
overwrite what a successful one wrote to the state row.  A price in another currency takes whatever rates exist.  Rates loaded
without the pivot refuse conversions the database look-up makes.

*Portable data.*  Not carried: the direction of a reinvestment, fee links, allocation bases and income rules, owners of lines,
budget check-ins, first months of terms.  Generated lines come again after a restore.  Ownership links outlive deleted positions.
A file read in pieces may name rows that were deleted meanwhile.

## Proofs

The theorems hold for every value of the constants that satisfies the assumption of its module:

* `ConstantsAssumption` of `SettlementExecution`: ids and amounts are positive integers, there are finitely many transactions,
  every recommendation has a close, a positive amount and a route;
* `ConstantsAssumption` of `MonthlyClose`: at least one month, check-ins are positive, modes are the three there are;
* `OwnershipAssumption`: the days are an interval below `Endless`, every contract has shares;
* `ProfileAssumption`: every account has a class, a holder and a worth at each end of a month, where recounts are dated;
* `MembershipsAssumption`: ids are positive, splits and incomes are integers of members there can be;
* `BudgetAssumption`: cells are months of positive years, lines have ids, answers are amounts or left unsaid;
* `PlanAssumption`: at most 900 decisions (the groups of liabilities are numbered from 1001 on), years 1 to 98 (99 is *always*), the
  household's lines are among the `MaxLine` there can be and belong to no decision yet;
* `ImportAssumption`: files are finite and not empty, operations are of the three kinds;
* `SyncAssumption`: dates and amounts are integers, costs are naturals and an investment may cost nothing;
* `HoldingAssumption`: finitely many accounts, positive ids of accounts and positions, a set of days that is not empty.

* `MonthsAssumption`: a year has at least one month;
* `PlansAssumption`: plans start today or later and end at a horizon, decisions have the fields of the form, factors of
  growth are naturals (no rate is below -100 %);
* `InputsAssumption`: the calendar stops at the horizon at the latest, scenarios are sequences of events, lines of the
  household belong to no decision, positions have names of their own and what is owed on one is owed on a position there
  is;
* `FundsAssumption`: cash is no fund, policies, commitments and rules have the fields of their forms.

`LedgerAssumption`, `PositionAssumption` and `PreviewAssumption` belong to modules without a theorem.  TLC evaluates all of
them on the runs.

| module | theorem | statement |
|---|---|---|
| `SettlementExecutionProofs` | `TypeCorrect` | `Spec => []TypeOK` |
| | `InvCorrect` | `Spec => [](TypeInv /\ IInv)` |
| | `StatusCorrect`, `HistoryCorrect`, `KeysCorrect` | `Spec => []StatusAgrees`, `[]HistoryKept`, `[]OneMovementPerKey` |
| | `RecommendationsCorrect` | `Spec => []RecommendationsStand` |
| | `CancelledCorrect`, `LockCorrect` | `Spec => CancelledIsFinal`, `OnlyOldRequestsAfterLock` |
| `SettlementBooksProofs` | `BooksCorrect` | `Spec => []OwnRouteConserves` |
| | `ObligationsCorrect` | `ASSUME DistinctRoutes PROVE Spec => SettlesObligations` |
| | `AppliedCloseStays` | `ASSUME DistinctRoutes PROVE Spec => LinkedCloseStays` |
| `MonthlyCloseProofs` | `CloseInvCorrect`, `CloseTypeCorrect` | `Spec => []CloseInv`, `[]TypeOK` |
| | `FrozenCorrect`, `MovedCorrect`, `ClosedStayCorrect` | `Spec => ClosedIsFrozen`, `MovedClosesStay`, `ClosedStay` |
| | `WaitingCorrect` | `Spec => []NoCircularWait` |
| | `ChainCorrect` | `ASSUME OneRequest PROVE Spec => [](BoundaryHolds /\ SettlementChainHolds /\ FrozenAllocationsHold)` |
| | `CheckinsCorrect` | `Spec => []ClosedCheckinsSeen` |
| `PlanningProofs` | `BaselineCorrect` | `ProfileSpec => []BaselineHolds` |
| | `OwnersCorrect` | `MembershipsSpec => []OwnersHold` |
| | `CheckinsGuarded` | `BudgetSpec => ClosedCheckinsGuarded` |
| | `DebtCorrect`, `OwnLinesCorrect` | `PlanSpec => []DebtCountedOnce`, `OwnLinesStay` |
| `ProjectionProofs` | `ProjectionTypeCorrect` | `ProjectionSpec => []ProjectionTypeOK` |
| | `CashCorrect` | `ProjectionSpec => CashAccounted` |
| | `GapIsLastCorrect`, `KindsFollowCorrect`, `CapitalCorrect` | `ProjectionSpec => []GapIsLast`, `[]KindsFollow`, `[]CapitalStands` |
| | `EarliestCorrect` | `ProjectionSpec => []EarliestRetirement` |
| | `InputsTypeCorrect` | `InputsSpec => []InputsTypeOK` |
| | `NeverBothCorrect`, `WealthOnceCorrect`, `ReadOnceCorrect` | `InputsSpec => []NeverBothWays`, `[]WealthOnce`, `[]ReadOnce` |
| `WealthProofs` | `BatchesCorrect` | `ImportSpec => []BatchesHold` |
| | `OwnershipInvCorrect`, `OwnershipTypeCorrect` | `OwnershipSpec => []OwnershipInv`, `[]OwnershipTypeOK` |
| | `OneTitleCorrect`, `PastCorrect` | `OwnershipSpec => []OneTitleADay`, `PastStands` |
| | `BookedOnceCorrect` | `BasketSpec => []BookedOnce` |
| `LedgerProofs` | `SyncInvCorrect`, `SyncTypeCorrect` | `SyncSpec => []SyncInv`, `[]SyncTypeOK` |
| | `FollowCorrect` | `SyncSpec => []DerivedFollowLedger` |
| | `HoldingInvCorrect`, `HoldingTypeCorrect` | `HoldingSpec => []HoldingInv`, `[]HoldingTypeOK` |
| | `OpeningCorrect`, `ReadingsCorrect`, `PositionsCorrect` | `HoldingSpec => []OpeningIsStated`, `[]ReadingsAgree`, `[]PositionsAgree` |

### Settlement: requests and rows

`TypeOK` alone is not inductive: a session at `select` must name a recommendation, which `TypeInv` adds.  `StatusAgrees`
and `HistoryKept` are not either: an application writes `applied` from what it read when it got the lock, so the
invariant must say that what it read is still so.  `IInv` is the conjunction of

* `RowLocks`, `CloseLocks`: row locks are exclusive; a locked recommendation is neither deleted nor cancelled;
* `SessionsAgree`: what a request remembers (amount applied, close finalized, the transfer's amount within what remains)
  agrees with the rows it locked, and a batch's or a reopening's closes do not change under it;
* `RowsHaveClose`: a live recommendation belongs to a close that is not a draft;
* `LedgerPositive`, `StatusAgrees`, `HistoryKept`.

There is one lemma per group of actions (`ArrivesInv`, `WaitsInv`, `ProceedsInv`, `OthersInv`), one step per action; `SaveRow`
holds the argument shared by all actions that save a row.  The two action properties follow from `StepChanges`: which row a
step may change, and from what state.

`KeysCorrect` needs `KeyInv`: the keys of sessions are keys a client can send, and a reconciliation's key, which the code
makes of the recommendation and the transfer, is no key of another movement.  The unique index is over committed *and*
pending movements, and a batch commits only what already held its key.

### Settlement: the books

`BookInv` strengthens `OwnRouteConserves`.  A sum can only be kept if every writer's difference is the difference of the row, so
the invariant says for each request what it is about to write: `Carries` (the transfer a reconciliation will link is the
one it read, or has been deleted, or linked by another recommendation *of the same route*, which is why the property sets
shared routes aside); `PendingHeld` (a batch still holds the row of every movement it has pending, so nobody else has
changed what it computed from); `UnbookedRows`; `IdleHoldNothing`.

Sums are folds over sets of transactions.  What is needed of them does not follow by expansion, since the fold's definition
chooses an order: `SetLemmas` proves from the definition that a sum exists and is unique (`SumExists`, `SumUnique`), does not
depend on the order (`SumAnyOrder`), and what one element adds (`SumAdd`, `SumRemove`); each by taking a smallest set that
fails (`SmallestSet`), since the library's induction theorems take an operator as their parameter.  That is why `TxIds` is
assumed finite.

`ObligationsCorrect` is the refinement, from the same lemmas: each group of actions keeps `BookInv` *and* maps to a step of an
obligation or a stutter (`Settles`).  Applying and reconciling is `Pay` of one, the commit of a batch `Pay` of all it has
booked, reversing `Refund`, cancelling `Cancel`, finalizing `Open`, the end of a reopening `Withdraw`; every other step, those of
waiting, locking, reading, failing and rolling back among them, is a stutter.  Under `DistinctRoutes` the row's amount *is*
the ledger's, so that a withdrawal finds nothing paid.  Without it the refinement is false for the reason the run
`SettlementDoubleLink` shows.  `AppliedCloseStays` has `SettlementLedgerEdit`'s property as its conclusion, about `Spec`: it says
that the ledger endpoint, which only `EditSpec` has, is the only way to reopen a close over an applied amount.

### The chain of closes

`CloseInv` is about any number of overlapping requests: every request holds close rows in the state it found them
(`CloseLocks`), rows of closes and of allocations it is to unfreeze are held by one request (`LocksApart`), allocation rows are
taken from the earliest month on (`AllocationLocks`), a draft has no movement (`DraftsUnmoved`).  `FrozenCorrect` and `MovedCorrect`
follow because only the holder of a row writes it and the row is still a finalized one, and `WaitingCorrect` from the order:
of two finalizations the one that waits for the later row holds only earlier ones, a reopening that waits for close rows holds no
allocation yet, and two reopenings unfreeze different allocations.

`ChainInv` is what a chain of closes rests on, and it is inductive only when requests do not overlap (`OneRequest`).  It adds to the
three conjuncts of the theorem that drafts are blank and, in `UpToDate`, that what the request has read so far still is so: the
boundary (`Opens`), the settlement it follows (`Follows`), the allocations it found frozen or is to write (`Gathered`, `Uses`), all
later closes, and the allocations only they refer to.  Each of these is a read that no lock protects; the runs
`CloseBoundaryRace` and `CloseFreezeRace` break the theorem's conclusion at exactly these reads with two requests.  So the
theorem says, for chains of any length, that overlap is all there is to the two findings.

`CheckinsCorrect` is about overlapping requests.  `SeenInv` says of every finalization that has read its month what its figure has to
do with the check-in there is now (`FigureSeen`) and of every save still to come that it is `behind` if the figures of its month
have been read since it looked (`InTime`); a close row is written by its holder only, so that what was read is what is committed.

### Ownership periods, baseline, members

`OwnershipInv` says that periods are not empty and, in `OneTitleADay`, that they are disjoint and only the last is open; with the
types it is inductive as it stands.  Each action replaces one period or the last two, and one lemma per action says which days
change hands; `PastCorrect` reads the same lemmas.

`ProfileInv` is guarded by `overtaken`, as the property is: until a request writes after the baseline it read was replaced, an
activated settlement has one opening for each account (`BaselineStands`), and a request in progress has read the baseline its
result rests on (`ReadsStand`).  `MembershipsInv` says that an ownership is of one member or divided as a whole among members there
are (`Alone`, `Divided`), that every member has an ownership of their own, and that links and uses name ownerships there are; the
sum of a split is one of `SetLemmas`'s sums.  A member can be deleted only when no split names them, which keeps `Divided`.

### Check-ins and decisions of the plan

`ClosedCheckinsGuarded` is about a step, yet not every step that writes is guarded by what it needs: a request looks whether the
month is closed in one statement and writes in another.  `CheckinInv` therefore says of every request between the two
(`LooksElsewhere`) that, when the month it is to write to is closed and was so when it looked, it looked at another one, the month
the check-in had: the guard of the code is on that month only.  `RequestsMoveOn` gathers what all the other actions
leave of a request, so that each needs one step.

`PlanInv` says of each decision not written by hand what its lines are.  `Foreseen`: while it is planned, all lines of
its debt are its own, of its purpose, made by the service its origin calls for (`PlanBy`) and one for each year of the
term; that is what makes the three ways of replacing them (edit of a scenario's decision, edit of the others,
`Superseded` when made real) remove all of them and nothing else.  `KnowsItsOwn`: a line of the household in the
decision's group is one it adopted, and a scenario's decision has adopted none.  A step concerns one decision; that it
leaves the debt and the lines of the others alone is `Spares`, and `OneDecision` turns the two into the invariant.
`AppendedAdds` is about ids: rows are inserted after the highest one, each once, whatever order they come in.

`DebtCorrect` does not speak of retired decisions, as the property does not: a retirement cuts the lines and leaves the rest of the
year as a copy of a line, so the invariant must say that such copies only belong to decisions that are retired, or
descend from lines which were not the decision's own (second conjunct of `Spares`).

### Imports, derived rows, positions, baskets

`BatchesHold` is inductive with what previews and confirmations in progress know: a preview about to be stored agrees with its
batch on the rows that are confirmed (`PreviewsAgree`: the locks of the two keep it so), a confirmation is of a batch there is.

`SyncInv` is about callbacks that run after the commit in any order, some having read and not yet written.  What one has read is
what the ledger says unless the ledger moved under it (`ReadingsStand`), and a trade that does not say what its investment costs
has a callback to come, or one that has read the present cost (`CostsComing`).  So `DerivedFollowLedger` holds at rest because
there is none left.

`HoldingInv`: at most one opening of a position on an account (`OneOpeningEach`), and on the account it follows it states the amount
(`OpeningsStand`); an account that is deleted is not opened again (`FollowedOpened`), so that a position
which still names it finds no entries of others there.  `OpeningIsStated` is this, with a cardinality and a sum of one.
`ReadingsAgree` needs no invariant but the types: the entries until a day are the anchored ones and the others (`SumSplit`).

`BasketInv` is about requests that lock nothing.  A confirmation reads the pending lines and the source in one statement
and books in another, so that what it read must be said of the request: it still stands unless a second request ran on
the same basket (`RequestsKnown`), and two that did have marked it (`OverlapMarked`).  Even on a marked basket a
purchase is booked once: every one that was booked is registered under its fingerprint (`BookingsKnown`), which the
ledger refuses a second time; the cash lines have no such fingerprint, which is why the property speaks of overlap.
What `Proposal` distributes is not needed, only that it names its source.

### The projection and what it starts from

`ProjectionInv` adds to the types what each step of a year keeps.  `Solvent` (nothing is negative, and while there is a
gap there is nothing in Security nor in Productive) and `Matched` (categories say what functions say) are kept together
by the same case distinctions: a surplus goes to the gap first, an outflow takes Security, then Productive, then widens
the gap, and each of these moves the category by the same amount *because* neither side is clipped at zero; a gap on one
side only would break both.  They speak of plans that start solvent and whose decisions trade in nothing liquid, as the
properties do. `CashCorrect` needs no invariant but the types: one lemma per operator says what it adds to `Liquid`.  An
applied month needs that there is a decision to apply (`step = "apply"`): `StillDue` says that the minimum of a set of
due decisions is one of them, and is taken from the definition of `Min` with the least natural number of a set.

`SearchHolds` is the invariant of the bisection: `high` is sustained, always, and if sustained retirements are sustained for good,
every year below `low` is not.  The two halves are the two halves of `EarliestRetirement`; that the first needs nothing of the plan is
why it holds also where the second fails.

`InputsInv` says whose line each line is: the household's, or one of the lines that `EntriesOf` makes of an event
(`DecisionLine`) as long as the decision is foreseen.  `NeverBothWays` then follows for each of the readings, by what
they select on: roles, profiles, groups and the year.  `WealthOnce` is two partitions of one sum: positions by use, less
what is owed on each, and positions by category.  It rests on sums over finite sets (`SetLemmas`), on each debt being on
one position at most, and on a new debt being on the asset its own event made.

### Only model-checked

* `RequestsEnd`: liveness under fairness.
* `RecommendationsSettle` (sums over members, accounts and months of rounded amounts), `SharesFollowIncome` (rounding),
  `MoneySharedOut` (the distribution is several nested folds), `CountedOnce` (a spread over months equals what is left
  of it, by rounding and counting), `FiguresAgree` (whole trajectories compared, which are recursive), `WorthExplained`:
  what recursive or folded calculations give for every input is induction over data.  `SetLemmas` covers plain sums
  only.
* `NoClosesWaiting`, `ChainHolds`, `CloseTypeOK` are stated of the four instances of a run.  What they say of one
  instance is proved: of a circle of waiting requests by `WaitingCorrect`, of chains without overlap by `ChainCorrect`,
  of the types by `CloseTypeCorrect`.
* `PlanningTypeOK`, `WealthTypeOK`: one conjunct per component of a run; those of `PortfolioSync`, `LedgerPositions`,
  `PositionOwnership`, `PlanProjection` and `PlanInputs` are theorems.
* `OneOpening`, `ImportCarries` (a file's rows by name, through several renamings), `CommitmentsAddUp` (lines of a whole
  schedule) and `MarketHolds` (dates fetched around bounds): nothing known stands in the way; their invariants are not
  written.

## Not modelled, and why

* Numbers without a protocol: performance, risk, exposure and rebalancing of portfolios, foundations, overview and quality of the plan,
  timelines and amortization of positions, dashboards.  They are calculated from rows in one read, change nothing, and are too wide
  in their inputs for a model checker.
* Editing a linked ledger movement other than deleting it, the notes of a close, the plan hook of a finalization (a swallowed
  exception, listed under hazards), `accept_suggestions` of a close's estimated check-ins.
* Serialisation failures and dropped connections, other than a request that ends at any point with what it has committed.
* Parsing of uploaded files, quotes and tokens: what they stand for is an input.
* Authentication, the client (but for the order in which it reads a household to export it), containers.

`components` in `PROJECT.json` says the same for each part of the system, with its sources.

## Plan

1. *(done)* Settlement execution, obligations, the chain of closes; their invariants, the books, the refinement, the
   chain without overlap.
2. *(done)* Household planning and wealth: one module per component, in two runs.
3. *(done)* Ownership periods, baseline, members and ownerships proved for every value of their constants.
4. *(done)* The same for batches of imports, derived rows, positions that follow the ledger, check-ins of closed months
   and decisions of the plan.
5. *(done)* The projection of the plan and what it starts from, modelled and proved; baskets booked once; closed months
   that stay.
6. Next theorems: `OneOpening` (`PortableData`), `CommitmentsAddUp` (`PositionBudgets`), the half of `MarketHolds` that
   is about holes.
7. Then the sums: `WorthExplained` and the exact half of `EachEuroOnce`, from `SetLemmas`.
