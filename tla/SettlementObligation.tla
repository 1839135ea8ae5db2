------------------------ MODULE SettlementObligation ------------------------
(***************************************************************************)
(* What the settlement of a close promises about money: a recommendation   *)
(* is an obligation that is paid and refunded within its amount, is        *)
(* cancelled only while nothing is paid, and is withdrawn (its close       *)
(* reopened) only if no movement was ever booked on it.  No requests, no   *)
(* locks, no closes.                                                       *)
(***************************************************************************)
EXTENDS Integers

CONSTANTS Recs, Amount

VARIABLES
  phase,   \* where the obligation is in its life
  paid,    \* net amount paid on it
  moved    \* the obligations a movement was ever booked on

Init ==
  /\ phase = [r \in Recs |-> "none"]
  /\ paid = [r \in Recs |-> 0]
  /\ moved = {}

\* Finalizing a close opens the obligations of its snapshot.
Open(S) ==
  /\ \A r \in S : phase[r] = "none"
  /\ phase' = [r \in Recs |-> IF r \in S THEN "open" ELSE phase[r]]
  /\ UNCHANGED <<paid, moved>>

\* Several obligations may be paid at once, never beyond what is owed.
Pay(S) ==
  /\ \A r \in S : phase[r] = "open" /\ paid'[r] > paid[r] /\ paid'[r] <= Amount[r]
  /\ \A r \in Recs \ S : paid'[r] = paid[r]
  /\ paid' = [r \in Recs |-> paid'[r]]
  /\ moved' = moved \cup S
  /\ UNCHANGED phase

Refund(r) ==
  /\ phase[r] = "open" /\ r \in moved
  /\ paid'[r] \in 0..(paid[r] - 1)
  /\ paid' = [paid EXCEPT ![r] = paid'[r]]
  /\ UNCHANGED <<phase, moved>>

Cancel(r) ==
  /\ phase[r] = "open" /\ paid[r] = 0
  /\ phase' = [phase EXCEPT ![r] = "cancelled"]
  /\ UNCHANGED <<paid, moved>>

Withdraw(S) ==
  /\ \A r \in S : phase[r] \in {"open", "cancelled"} /\ r \notin moved /\ paid[r] = 0
  /\ phase' = [r \in Recs |-> IF r \in S THEN "withdrawn" ELSE phase[r]]
  /\ UNCHANGED <<paid, moved>>

Next ==
  \/ \E S \in SUBSET Recs : Open(S) \/ Pay(S) \/ Withdraw(S)
  \/ \E r \in Recs : Refund(r) \/ Cancel(r)

Spec == Init /\ [][Next]_<<phase, paid, moved>>
=============================================================================
