---------------------------- MODULE PortfolioSync ----------------------------
(***************************************************************************)
(* How the portfolio follows the movements booked on one of its positions  *)
(* (backend/portfolio/signals.py, valuations.py).  A revaluation in the    *)
(* ledger becomes a derived valuation, an investment becomes a trade with  *)
(* what it cost, both after the request that booked them has committed:    *)
(* the callbacks run outside its transaction, in the thread of the         *)
(* request, and are not tried again if it ends before them.  Pressing      *)
(* "update" derives all valuations again.                                  *)
(*                                                                         *)
(* A callback reads the ledger and then writes what it derived, statement  *)
(* by statement; requests that commit in between are steps of their own.   *)
(***************************************************************************)
EXTENDS Integers, FiniteSets, Functions

CONSTANTS
  BookingDates, \* booking dates
  Changes,     \* amounts of revaluations and investments
  Costs,       \* what an investment may cost, zero included
  MaxBookings, \* bound on the movements ever booked
  MaxEdits     \* bound on the edits and deletions

ASSUME SyncAssumption ==
  /\ BookingDates \subseteq Int /\ Changes \subseteq Int /\ Costs \subseteq Nat /\ 0 \in Costs
  /\ MaxBookings \in Nat /\ MaxEdits \in Nat

VARIABLES
  records,   \* movement -> [kind, date, change, posted, cost]
  derived,   \* valuations derived from revaluations: [date, value, of]
  tradeCosts, \* movement -> what the portfolio says it cost
  callbacks, \* waiting to run: [do, of]
  deriving,  \* valuations read by a callback and not yet written
  pairing,   \* movement -> the cost read for a trade not yet written
  edits,     \* how many there were
  stale,     \* history: the ledger moved under a callback, or past it
  missed     \* history: movements whose trade was written past a change

syncVars == <<records, derived, tradeCosts, callbacks, deriving, pairing, edits, stale, missed>>

Recorded == DOMAIN records
NewRecord == 1 + Cardinality(Recorded)
NoMovements == [t \in {} |-> 0]
Put(f, x, v) == [y \in DOMAIN f \cup {x} |-> IF y = x THEN v ELSE f[y]]
Removing(f, x) == [y \in DOMAIN f \ {x} |-> f[y]]

-----------------------------------------------------------------------------
(* import_legacy_position_valuations *)

\* Deleted movements keep their number and have no kind.
IsA(t, kind) == records[t].kind = kind
Upto(t) == {s \in Recorded : /\ records[s].posted
                           /\ \/ records[s].date < records[t].date
                              \/ records[s].date = records[t].date /\ s <= t}
Balance(t) == SumFunctionOnSet([s \in Recorded |-> records[s].change], Upto(t))
Revaluations == {t \in Recorded : IsA(t, "revaluation") /\ records[t].posted}
\* A balance below zero is not a value.
Readings == {[date |-> records[t].date, value |-> Balance(t), of |-> t] :
               t \in {u \in Revaluations : Balance(u) >= 0}}
\* One valuation per date: the last one written stays.
LastOfDate(rs) == {r \in rs : \A q \in rs : q.date = r.date => q.of <= r.of}
Overwrite(old, new) == {r \in old : \A n \in new : n.date # r.date} \cup new

\* fault: a valuation stays at the date its revaluation once had
SourcedOnce(r) == r.of \in Revaluations
\* sync_ledger_valuations: those whose revaluation is gone are dropped.
Sourced(r) == r.of \in Revaluations /\ records[r.of].date = r.date

\* Writing the reading of a deleted movement fails, and ends the callback.
Written(rs) == {r \in rs : \A q \in rs :
                  q.date < r.date \/ (q.date = r.date /\ q.of <= r.of) => ~IsA(q.of, "deleted")}
DerivedFrom(rs, old) ==
  LET kept == Overwrite(old, LastOfDate(Written(rs)))
  IN IF Written(rs) = rs THEN {r \in kept : Sourced(r)} ELSE kept

-----------------------------------------------------------------------------
(* Bookkeeping *)

SyncInit ==
  /\ records = NoMovements /\ derived = {} /\ tradeCosts = NoMovements
  /\ callbacks = {} /\ deriving = {} /\ pairing = NoMovements
  /\ edits = 0 /\ stale = FALSE /\ missed = {}

Schedule(do, t) == callbacks' = callbacks \cup {[do |-> do, of |-> t]}
\* A change of the ledger under a callback that has read it, or one that no
\* callback follows although a later revaluation contains it.
Contained(t) == IsA(t, "investment") /\ \E r \in Revaluations : t \in Upto(r)
Disturbed == stale \/ deriving # {}

Entry(kind, d, change, posted, cost) ==
  [kind |-> kind, date |-> d, change |-> change, posted |-> posted, cost |-> cost]

\* revaluation_saved, investment_saved
FollowUp(kind) == IF kind = "revaluation" THEN "derive" ELSE "pair"
BookMovement(kind, d, change, posted, cost) ==
  /\ NewRecord <= MaxBookings /\ (kind = "revaluation" => cost = 0)
  /\ records' = Put(records, NewRecord, Entry(kind, d, change, posted, cost))
  /\ stale' = (Disturbed \/ \E t \in Recorded' \ Recorded : Contained(t)')
  /\ Schedule(FollowUp(kind), NewRecord)
  /\ UNCHANGED <<derived, tradeCosts, deriving, pairing, edits, missed>>

\* confirm_operation books the movement and its trade together.
BookOperation(d, change, cost) ==
  /\ NewRecord <= MaxBookings
  /\ records' = Put(records, NewRecord, Entry("investment", d, change, TRUE, cost))
  /\ tradeCosts' = Put(tradeCosts, NewRecord, cost)
  /\ stale' = (Disturbed \/ \E t \in Recorded' \ Recorded : Contained(t)')
  /\ Schedule("pair", NewRecord)
  /\ UNCHANGED <<derived, deriving, pairing, edits, missed>>

\* Only revaluations are derived again when they are edited.
AfterEdit(t) == IF IsA(t, "revaluation") THEN Schedule("derive", t) ELSE UNCHANGED callbacks
EditRecord(t, d, change, posted) ==
  /\ edits < MaxEdits /\ edits' = edits + 1 /\ ~IsA(t, "deleted")
  /\ records' = [records EXCEPT ![t].date = d, ![t].change = change, ![t].posted = posted]
  /\ stale' = (Disturbed \/ Contained(t) \/ Contained(t)') /\ AfterEdit(t)
  /\ UNCHANGED <<derived, tradeCosts, deriving, pairing, missed>>

\* fault: the trade keeps the cost of a fee that was deleted
CostKept(t) == tradeCosts
\* trade_fee_deleted
CostGone(t) == [u \in DOMAIN tradeCosts |-> IF u = t THEN 0 ELSE tradeCosts[u]]
\* The fee of an investment is a movement of its own: saving it copies it to
\* the trade after the commit, deleting it empties the trade at once.
EditCost(t, cost) ==
  /\ edits < MaxEdits /\ edits' = edits + 1 /\ IsA(t, "investment") /\ cost # records[t].cost
  /\ records' = [records EXCEPT ![t].cost = cost]
  /\ IF cost > 0 THEN Schedule("cost", t) /\ UNCHANGED tradeCosts
     ELSE UNCHANGED callbacks /\ tradeCosts' = CostGone(t)
  /\ missed' = IF t \in DOMAIN pairing THEN missed \cup {t} ELSE missed
  /\ UNCHANGED <<derived, deriving, pairing, stale>>

\* Valuation and trade of a movement are deleted with it.
DeleteBooking(t) ==
  /\ edits < MaxEdits /\ edits' = edits + 1 /\ ~IsA(t, "deleted")
  /\ records' = [records EXCEPT ![t] = Entry("deleted", 0, 0, FALSE, 0)]
  /\ derived' = {r \in derived : r.of # t} /\ tradeCosts' = Removing(tradeCosts, t)
  /\ stale' = (Disturbed \/ Contained(t)) /\ AfterEdit(t)
  /\ UNCHANGED <<deriving, pairing, missed>>

-----------------------------------------------------------------------------
(* Callbacks *)

Runs(do, t) == [do |-> do, of |-> t] \in callbacks /\ callbacks' = callbacks \ {[do |-> do, of |-> t]}

\* _resync finds the position through the entries of a saved movement; when
\* a movement was deleted meanwhile its own callback derives the rest.
Derive(t) ==
  /\ Runs("derive", t) /\ deriving' = deriving \cup {Readings}
  /\ UNCHANGED <<records, derived, tradeCosts, pairing, edits, stale, missed>>
WriteDerived(rs) ==
  /\ rs \in deriving /\ deriving' = deriving \ {rs}
  /\ derived' = DerivedFrom(rs, derived)
  /\ UNCHANGED <<records, tradeCosts, callbacks, pairing, edits, stale, missed>>

\* resync_valuations derives everything again.
Update ==
  /\ derived' = DerivedFrom(Readings, derived)
  /\ stale' = IF deriving = {} THEN FALSE ELSE stale
  /\ UNCHANGED <<records, tradeCosts, callbacks, deriving, pairing, edits, missed>>

\* _record_trade_from_investment reads the fee and leaves the trade.
Unpaired(t) == IsA(t, "investment") /\ t \notin DOMAIN tradeCosts
Pair(t) ==
  /\ Runs("pair", t)
  /\ pairing' = IF Unpaired(t) THEN Put(pairing, t, records[t].cost) ELSE pairing
  /\ UNCHANGED <<records, derived, tradeCosts, deriving, edits, stale, missed>>
WriteTrade(t) ==
  /\ t \in DOMAIN pairing /\ pairing' = Removing(pairing, t)
  \* The movement may be gone, or the fee that was read.
  /\ tradeCosts' = IF IsA(t, "deleted") \/ (pairing[t] > 0 /\ records[t].cost = 0) THEN tradeCosts
               ELSE Put(tradeCosts, t, pairing[t])
  /\ UNCHANGED <<records, derived, callbacks, deriving, edits, stale, missed>>

\* _sync_trade_fee
CopyCost(t) ==
  /\ Runs("cost", t)
  /\ tradeCosts' = IF t \in DOMAIN tradeCosts /\ records[t].cost > 0 THEN [tradeCosts EXCEPT ![t] = records[t].cost] ELSE tradeCosts
  /\ UNCHANGED <<records, derived, deriving, pairing, edits, stale, missed>>

\* The process ends after the commit: what had not run never will.
Crash ==
  /\ callbacks # {} \/ deriving # {} \/ pairing # NoMovements
  /\ callbacks' = {} /\ deriving' = {} /\ pairing' = NoMovements
  /\ stale' = (stale \/ deriving # {} \/ \E c \in callbacks : c.do = "derive")
  /\ missed' = missed \cup DOMAIN pairing \cup {c.of : c \in callbacks}
  /\ UNCHANGED <<records, derived, tradeCosts, edits>>

SyncNext ==
  \/ \E d \in BookingDates, change \in Changes, posted \in BOOLEAN :
       \/ \E kind \in {"revaluation", "investment"}, cost \in Costs : BookMovement(kind, d, change, posted, cost)
       \/ \E t \in Recorded : EditRecord(t, d, change, posted)
  \/ \E d \in BookingDates, change \in Changes, cost \in Costs : BookOperation(d, change, cost)
  \/ \E t \in Recorded : \/ DeleteBooking(t) \/ Derive(t) \/ Pair(t) \/ WriteTrade(t) \/ CopyCost(t)
                       \/ \E cost \in Costs : EditCost(t, cost)
  \/ \E rs \in deriving : WriteDerived(rs)
  \/ Update \/ Crash

SyncSpec == SyncInit /\ [][SyncNext]_syncVars

-----------------------------------------------------------------------------
(* Invariants *)

RecordKinds == {"revaluation", "investment", "deleted"}
SyncTypeOK ==
  /\ Recorded \subseteq 1 .. MaxBookings /\ \A t \in Recorded : records[t].kind \in RecordKinds
  /\ \A r \in derived : r.value >= 0 /\ r.of \in Recorded
  /\ DOMAIN tradeCosts \subseteq Recorded /\ DOMAIN pairing \subseteq Recorded
  /\ edits \in 0 .. MaxEdits /\ stale \in BOOLEAN /\ missed \subseteq Recorded

Settled == deriving = {} /\ ~\E c \in callbacks : c.do = "derive"
\* When no callback is under way and nothing has gone past them, the derived
\* valuations are those of the ledger: the last revaluation of each date,
\* and none without one, save that a value stays when its revaluation comes
\* to leave a balance below zero (valuations.py:80, 151-167).
ValuationsFollowLedger ==
  Settled /\ ~stale =>
    /\ \A r \in LastOfDate(Readings) : r \in derived
    /\ \A r \in derived : r \in Readings \/ (Sourced(r) /\ Balance(r.of) < 0)

Paired(t) == t \notin DOMAIN pairing /\ ~\E c \in callbacks : c.of = t
\* Every investment whose callbacks have run has a trade, which says what the
\* investment costs now, in whichever order costs were added, corrected and
\* deleted (signals.py:102-224); no other movement has one.
TradesFollowLedger ==
  /\ \A t \in DOMAIN tradeCosts : IsA(t, "investment")
  /\ \A t \in Recorded \ missed : IsA(t, "investment") /\ Paired(t) =>
       t \in DOMAIN tradeCosts /\ tradeCosts[t] = records[t].cost

\* What is derived from the ledger, valuations and trades, follows it.
DerivedFollowLedger == ValuationsFollowLedger /\ TradesFollowLedger
=============================================================================
