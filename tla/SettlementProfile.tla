------------------------- MODULE SettlementProfile -------------------------
(***************************************************************************)
(* The settlement of a household before its months                         *)
(* (backend/budget/services_settlement.py): which accounts take part, what *)
(* each of them held when it was activated, and when all this may still be *)
(* rewritten.  Finalizations of months stand beside it: a ready one rests  *)
(* on the baseline that it read.                                           *)
(*                                                                         *)
(* A request that does not lock the profile reads it in one step (its      *)
(* validations) and writes in another; rebaselining and adding an account  *)
(* lock it and are one step.  Dates are the ends of months.                *)
(***************************************************************************)
EXTENDS Integers, FiniteSets, FiniteSetsExt, SequencesExt

CONSTANTS
  Assets,          \* assets of the user
  Class,           \* of each asset: "bank", "wallet" or "other"
  Holder,          \* the adult who owns an asset, Household, or NoMember
  Adults,          \* active adult members
  Blocked,         \* owners whose allocation cannot be resolved
  LedgerWorth,     \* LedgerWorth[a][d]: what the ledger says asset a holds at the end of month d
  Configurations,  \* requests: accounts, adjustments and normalizations
  Recounts,        \* requests to rebaseline: cash counted, adjustments, normalizations
  Expenses,        \* budgeted expenses
  BrokerCash,      \* assets that are cash of the portfolio
  Months           \* bound: months of the model

Household == "household"
NoMember == "nobody"
MonthEnds == 0..Months
Never == -1

ASSUME ProfileAssumption ==
  /\ Months \in Nat \ {0}
  /\ Class \in [Assets -> {"bank", "wallet", "other"}]
  /\ Holder \in [Assets -> Adults \cup {Household, NoMember}]
  /\ Household \notin Adults /\ NoMember \notin Adults
  /\ LedgerWorth \in [Assets -> [MonthEnds -> Int]]
  /\ \A r \in Recounts : r.date \in MonthEnds

VARIABLES
  accounts,     \* rows of configured accounts
  adjustments,  \* rows of opening adjustments
  linked,       \* wallet normalizations of the profile: [on, wallet, amount]
  enabled,      \* is_enabled
  activation,   \* activation_date: the end of the month before the first, or Never
  openings,     \* opening balances: [asset, amount, on]
  snapshots,    \* what finalizations stored, by month
  held,         \* the request that has read and not yet written
  overtaken     \* history: one wrote after the baseline it had read was replaced

profileVars == <<accounts, adjustments, linked, enabled, activation, openings, snapshots, held,
                 overtaken>>

-----------------------------------------------------------------------------
(* Configuration *)

Roles == {"operating", "personal_destination", "allocation_destination", "physical_cash"}
NotCounted == -1
AccountRows == [asset : Assets, role : Roles, member : Adults \cup {NoMember}, primary : BOOLEAN,
                accepted : Int]
\* What each account held at the activation, what explains a difference then, and transfers that
\* moved cash between wallets since.
ActivationDates == MonthEnds \cup {Never}
OpeningRows == [asset : Assets, amount : Int, on : MonthEnds]
AdjustmentRows == [asset : Assets, amount : Int, kind : {"manual", "wallet_normalization"}]
WalletTransfers == [from : Assets, to : Assets, amount : Int, on : MonthEnds]
AssetsOf(rows) == {r.asset : r \in rows}
RowOf(rows, a) == CHOOSE r \in rows : r.asset = a
AmountOf(rows) == MapThenSumSet(LAMBDA r : r.amount, rows)

ValidRow(r) ==
  /\ r.role # "allocation_destination" => Class[r.asset] # "other"
  /\ (r.role = "personal_destination") <=> (r.member # NoMember)
  /\ r.role = "physical_cash" => Class[r.asset] = "wallet"
  /\ (r.role = "physical_cash") <=> (r.accepted # NotCounted)
  /\ r.primary => r.role = "personal_destination"

ValidPayload(rows, adjusted) ==
  /\ Cardinality(AssetsOf(rows)) = Cardinality(rows)
  /\ \A r \in rows : ValidRow(r)
  /\ \A r, s \in rows : r.primary /\ s.primary /\ r.member = s.member => r = s
  /\ AmountOf(adjusted) = 0
  /\ \A j \in adjusted : j.asset \in AssetsOf(rows)

WalletsOf(rows) == {r \in rows : r.role = "physical_cash"}
\* Normalizations move cash between configured wallets only.
ValidLinks(rows, links) == \A n \in links : n.from \in AssetsOf(WalletsOf(rows)) /\ n.to \in AssetsOf(WalletsOf(rows))

-----------------------------------------------------------------------------
(* Where an expense is paid from *)

Fund(r, e) == r.role = "allocation_destination" /\ Holder[r.asset] = e.owner
IsIndividual(owner) == owner \in Adults
Destinations(rows, e) ==
  CASE e.account # NoMember -> {r \in rows : r.asset = e.account}
    [] e.account = NoMember /\ \E r \in rows : r.asset = e.source /\ r.role = "allocation_destination" ->
         {r \in rows : r.asset = e.source}
    [] OTHER ->
         IF e.equal
         THEN IF Cardinality({r \in rows : Fund(r, e)}) = 1 THEN {r \in rows : Fund(r, e)}
              ELSE {r \in rows : Fund(r, e) /\ Class[r.asset] = "bank"}
         ELSE IF IsIndividual(e.owner) THEN {r \in rows : r.primary /\ r.member = e.owner}
         ELSE {r \in rows : r.role = "operating" /\ ~e.saves}
Resolved(rows, e) == Cardinality(Destinations(rows, e)) = 1

Compatible(r, e) ==
  \/ IsIndividual(e.owner) /\ r.primary /\ r.member = e.owner
  \/ e.temporary /\ (r.role = "operating" \/ (IF e.equal THEN Fund(r, e) ELSE r.role = "allocation_destination"))
  \/ ~e.temporary /\ r.role = IF e.saves THEN "allocation_destination" ELSE "operating"

\* Savings without a place to go are only warned about.
Payable(rows, e) ==
  IF ~Resolved(rows, e) THEN e.saves
  ELSE \A r \in Destinations(rows, e) : Compatible(r, e)

-----------------------------------------------------------------------------
(* Readiness *)

LinkedAssets(links, a, after) ==
  MapThenSumSet(LAMBDA n : IF n.on <= after THEN 0 ELSE IF n.to = a THEN n.amount ELSE IF n.from = a THEN -n.amount ELSE 0, links)
Unexplained(r, links, date) == LedgerWorth[r.asset][date] - r.accepted + LinkedAssets(links, r.asset, date)

Readiness(rows, adjusted, links, hasBaseline, date) ==
  /\ \E r \in rows : r.role = "operating"
  /\ \A r \in rows : Holder[r.asset] # NoMember /\ Holder[r.asset] \notin Blocked
  /\ \A r \in WalletsOf(rows) :
       \/ Unexplained(r, links, date) = 0
       \/ \E j \in adjusted : j.asset = r.asset /\ j.kind = "wallet_normalization"
       \/ hasBaseline
  /\ \A m \in Adults : \E r \in rows : r.member = m /\ r.primary
  /\ \A e \in Expenses : Payable(rows, e)
  /\ AmountOf(adjusted) = 0

Opening(r, date) ==
  [asset |-> r.asset, on |-> date,
   amount |-> IF r.role = "physical_cash" THEN r.accepted ELSE LedgerWorth[r.asset][date]]

\* The normalizations are dated after the baseline, and it is taken only if
\* everything is ready.
Capturable(rows, adjusted, links, hasBaseline, date) ==
  /\ \A n \in links : n.on > date
  /\ Readiness(rows, adjusted, links, hasBaseline, date)
HasBaseline == openings # {}

-----------------------------------------------------------------------------
(* The rows of the profile as requests rewrite them *)

\* A rebaseline counts the cash of every wallet again.
Recounted(rows, cash) ==
  {IF r \in WalletsOf(rows) THEN [r EXCEPT !.accepted = cash[r.asset]] ELSE r : r \in rows}

ProfileInit ==
  /\ accounts = {} /\ adjustments = {} /\ linked = {}
  /\ enabled = FALSE /\ activation = Never /\ openings = {}
  /\ snapshots = <<>> /\ held = [kind |-> "none"] /\ overtaken = FALSE

Idle == held.kind = "none"
Released == held' = [kind |-> "none"]
\* What a held request read of the baseline is no longer so when it writes.
Stale == openings # {} /\ (held.seen = {} \/ ~(held.seen \subseteq openings))
Writes(kind) == held.kind = kind /\ Released /\ overtaken' = (overtaken \/ Stale)

\* fault: being disabled is enough
DisabledIsEnough == ~enabled
Configurable == ~enabled /\ ~HasBaseline
\* replace_settlement_configuration: a configuration with a baseline is history.
ReadConfiguration(c) ==
  /\ Idle /\ Configurable
  /\ ValidPayload(c.rows, c.adjustments) /\ ValidLinks(c.rows, c.links)
  /\ held' = [kind |-> "configure", payload |-> c, seen |-> openings]
  /\ UNCHANGED <<accounts, adjustments, linked, enabled, activation, openings, snapshots, overtaken>>

WriteConfiguration ==
  /\ Writes("configure")
  /\ accounts' = held.payload.rows
  /\ adjustments' = held.payload.adjustments /\ linked' = held.payload.links
  \* balances of the accounts it drops go with them
  /\ openings' = {o \in openings : o.asset \in AssetsOf(held.payload.rows)}
  /\ UNCHANGED <<enabled, activation, snapshots>>

\* activate_settlement_profile: with a baseline it only enables again.
Reactivate(date) ==
  /\ activation = date /\ HasBaseline
  /\ enabled' = TRUE
  /\ UNCHANGED <<accounts, adjustments, linked, activation, openings, snapshots, held, overtaken>>

ReadActivation(date) ==
  /\ Idle /\ (activation = Never \/ ~HasBaseline)
  /\ held' = [kind |-> "activate", date |-> date, seen |-> openings]
  /\ UNCHANGED <<accounts, adjustments, linked, enabled, activation, openings, snapshots, overtaken>>

WriteActivation ==
  /\ Writes("activate")
  /\ Capturable(accounts, adjustments, linked, HasBaseline, held.date)
  /\ openings' = {Opening(r, held.date) : r \in accounts}
  /\ enabled' = TRUE /\ activation' = held.date
  /\ UNCHANGED <<accounts, adjustments, linked, snapshots>>

RejectActivation ==
  /\ held.kind = "activate" /\ Released
  /\ ~Capturable(accounts, adjustments, linked, HasBaseline, held.date)
  /\ UNCHANGED <<accounts, adjustments, linked, enabled, activation, openings, snapshots, overtaken>>

ReadyMonths == {m \in DOMAIN snapshots : snapshots[m].ready}

\* fault: only the last month counts
LastMonthOnly == Len(snapshots) \notin ReadyMonths
\* can_rebaseline_settlement_profile
CanRebaseline == ReadyMonths = {}

\* rebaseline_settlement_profile, in one step under the lock.
Rebaseline(r) ==
  LET rows == Recounted(accounts, r.cash) IN
  /\ CanRebaseline
  /\ DOMAIN r.cash = AssetsOf(WalletsOf(accounts))
  /\ ValidPayload(rows, r.adjustments) /\ ValidLinks(rows, r.links)
  /\ Capturable(rows, r.adjustments, r.links, FALSE, r.date)
  /\ accounts' = rows /\ adjustments' = r.adjustments /\ linked' = r.links
  /\ openings' = {Opening(row, r.date) : row \in rows}
  /\ enabled' = TRUE /\ activation' = r.date
  /\ UNCHANGED <<snapshots, held, overtaken>>

\* disable_settlement_profile
Disable ==
  /\ enabled /\ enabled' = FALSE
  /\ UNCHANGED <<accounts, adjustments, linked, activation, openings, snapshots, held, overtaken>>

LastReady == Max(ReadyMonths)
Participating ==
  AssetsOf(accounts) \cup BrokerCash \cup (IF ReadyMonths = {} THEN {} ELSE snapshots[LastReady].assets)

\* add_settlement_account: it joins with what it held at the activation.
AddAccount(a) ==
  LET row == [asset |-> a, role |-> "allocation_destination", member |-> NoMember, primary |-> FALSE,
              accepted |-> NotCounted]
  IN
  /\ activation # Never /\ HasBaseline
  /\ Class[a] = "bank" /\ Holder[a] # NoMember /\ Holder[a] \notin Blocked
  /\ a \notin Participating
  /\ accounts' = accounts \cup {row} /\ openings' = openings \cup {Opening(row, activation)}
  /\ UNCHANGED <<adjustments, linked, enabled, activation, snapshots, held, overtaken>>

-----------------------------------------------------------------------------
(* Finalizing months, one after another *)

\* compute_monthly_close_settlement; whether balances reconcile is open here.
Calculated(m, reconciles) ==
  LET first == ReadyMonths = {} IN
  [ready |-> /\ reconciles
             /\ Readiness(accounts, adjustments, linked, HasBaseline, m)
             /\ ~(first /\ activation > m),
   after |-> IF first THEN 0 ELSE LastReady,
   basis |-> IF first THEN openings ELSE {},
   assets |-> AssetsOf(accounts)]

Calculate(reconciles) ==
  /\ Idle /\ enabled /\ Len(snapshots) < Months
  /\ held' = [kind |-> "finalize", result |-> Calculated(Len(snapshots) + 1, reconciles), seen |-> openings]
  /\ UNCHANGED <<accounts, adjustments, linked, enabled, activation, openings, snapshots, overtaken>>

\* freeze_monthly_close_settlement
Freeze ==
  /\ Writes("finalize")
  /\ snapshots' = Append(snapshots, held.result)
  /\ UNCHANGED <<accounts, adjustments, linked, enabled, activation, openings>>

\* A month that is finalized while the settlement is disabled has no snapshot.
NoSnapshot == [ready |-> FALSE, after |-> 0, basis |-> {}, assets |-> {}]
FinalizeDisabled ==
  /\ Idle /\ ~enabled /\ Len(snapshots) < Months
  /\ snapshots' = Append(snapshots, NoSnapshot)
  /\ UNCHANGED <<accounts, adjustments, linked, enabled, activation, openings, held, overtaken>>

\* Reopening the last month deletes its snapshot.
Reopen ==
  /\ Idle /\ snapshots # <<>>
  /\ snapshots' = Front(snapshots)
  /\ UNCHANGED <<accounts, adjustments, linked, enabled, activation, openings, held, overtaken>>

ProfileNext ==
  \/ \E c \in Configurations : ReadConfiguration(c)
  \/ WriteConfiguration
  \/ \E date \in 0..(Months - 1) : Reactivate(date) \/ ReadActivation(date)
  \/ WriteActivation \/ RejectActivation
  \/ \E r \in Recounts : Rebaseline(r)
  \/ Disable
  \/ \E a \in Assets : AddAccount(a)
  \/ \E reconciles \in BOOLEAN : Calculate(reconciles)
  \/ Freeze \/ FinalizeDisabled \/ Reopen

ProfileSpec == ProfileInit /\ [][ProfileNext]_profileVars

-----------------------------------------------------------------------------
ProfileTypeOK ==
  /\ accounts \subseteq AccountRows /\ enabled \in BOOLEAN /\ activation \in ActivationDates
  /\ openings \subseteq OpeningRows /\ adjustments \subseteq AdjustmentRows /\ linked \subseteq WalletTransfers
  /\ Len(snapshots) <= Months /\ \A m \in DOMAIN snapshots : snapshots[m].after < m
  /\ held.kind \in {"none", "configure", "activate", "finalize"} /\ overtaken \in BOOLEAN

\* A settlement that has been activated has exactly one opening balance for every
\* account that takes part, taken at its own activation date, however it was
\* configured, disabled, activated again, rebaselined and extended; and the first ready
\* close keeps the baseline it was calculated from ("a settlement with valid results
\* already finalized cannot be recalibrated").
BaselineHolds ==
  ~overtaken =>
    /\ IF activation = Never THEN openings = {} /\ ~enabled
                             ELSE openings = {Opening(r, activation) : r \in accounts}
    /\ \A m \in ReadyMonths : snapshots[m].after = 0 => snapshots[m].basis \subseteq openings
=============================================================================
