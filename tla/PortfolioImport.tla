-------------------------- MODULE PortfolioImport --------------------------
(***************************************************************************)
(* Operations of the portfolio that are typed in or come in CSV files      *)
(* (backend/portfolio/imports.py, operations.py).  A file is uploaded,     *)
(* previewed with a mapping as often as the user likes, and its valid rows *)
(* confirmed, all of them or some; each becomes a movement of the ledger.  *)
(*                                                                         *)
(* Confirming locks the batch and then its rows, previewing locks the rows *)
(* and then writes the batch, so the two can wait for each other and the   *)
(* database ends one of them.  Between two locks a transaction is one      *)
(* step: the checks of the cash and of what is registered are not repeated *)
(* under a lock by the code, and how two of them race is not modelled.     *)
(***************************************************************************)
EXTENDS Integers, FiniteSets, Sequences, Bags

CONSTANTS
  Files,      \* contents of files: sequences of operations
  Typed,      \* operations that are typed in
  StartCash,  \* what the cash account of the container holds
  MaxOperations   \* bound on the operations booked

\* kind: whether it leaves a trade, a valuation or another footprint;
\* ref: its external id or NoRef; spends: cash that must be there.
NoRef == 0
ASSUME ImportAssumption ==
  /\ StartCash \in Nat /\ MaxOperations \in Nat
  /\ \A f \in Files : Len(f) \in Nat \ {0} /\ DOMAIN f = 1..Len(f)
  /\ \A f \in Files : \A i \in DOMAIN f : f[i].kind \in {"trade", "valuation", "other"} /\ f[i].spends \in Int
  /\ \A op \in Typed : op.kind \in {"trade", "valuation", "other"} /\ op.spends \in Int

VARIABLES
  batches,     \* file -> its status and the status of each row
  previewing,  \* file -> the statuses a preview is about to store, or NotStored
  confirming,  \* file -> the rows a confirmation is about to book, or NotBooking
  tokens,      \* operations typed in and previewed in the last half hour
  cash,        \* of the container
  trades,      \* operations that left a trade, with the row they came from
  bookings     \* history: the bag of rows and typed operations booked

importVars == <<batches, previewing, confirming, tokens, cash, trades, bookings>>

NotStored == <<>>         \* no preview is running
NotBooking == {0}         \* no confirmation is running
Typing == <<>>            \* where an operation comes from that is not in a file
RowAt(f, i) == <<f, i>>

-----------------------------------------------------------------------------
(* One operation *)

\* _validate_payload: a purchase needs the cash it spends.
Affordable(op, balance) == op.spends > 0 => balance >= op.spends

IsTrade(t) == t.op.kind = "trade" /\ t.op.spends \in Int /\ (t.from = Typing \/ t.from[1] \in DOMAIN batches)
\* The same operation and the same external id are registered once.
Source(from) == IF from = Typing THEN "manual" ELSE "csv"
Registered(op, from, ts) ==
  \E t \in ts : /\ Source(t.from) = Source(from)
                /\ t.op = op \/ (op.kind = "trade" /\ op.ref # NoRef /\ t.op.ref = op.ref)
Bookable(op, from, s) == Affordable(op, s.cash) /\ ~Registered(op, from, s.trades)

\* confirm_operation
BookedFrom(op, from, s) ==
  [ok |-> TRUE, cash |-> s.cash - op.spends,
   trades |-> IF op.kind = "trade" THEN s.trades \cup {[op |-> op, from |-> from]} ELSE s.trades,
   bookings |-> s.bookings (+) SetToBag({from})]
Now == [ok |-> TRUE, cash |-> cash, trades |-> trades, bookings |-> bookings]
Failed(s) == [s EXCEPT !.ok = FALSE]

Book(op, from, s) == IF s.ok /\ Bookable(op, from, s) THEN BookedFrom(op, from, s) ELSE Failed(s)
Store(s) == cash' = s.cash /\ trades' = s.trades /\ bookings' = s.bookings
bookVars == <<cash, trades, bookings>>

-----------------------------------------------------------------------------
(* Typed operations *)

ImportInit ==
  /\ batches = [f \in {} |-> NotStored]
  /\ previewing = [f \in Files |-> NotStored] /\ confirming = [f \in Files |-> NotBooking]
  /\ tokens = {} /\ cash = StartCash /\ trades = {} /\ bookings = EmptyBag

PreviewOperation(op) ==
  /\ Affordable(op, cash)
  /\ tokens' = tokens \cup {op}
  /\ UNCHANGED <<batches, previewing, confirming, bookVars>>

\* The token is not used up: it expires.
ConfirmOperation(op) ==
  /\ op \in tokens /\ BagCardinality(bookings) < MaxOperations
  /\ Bookable(op, Typing, Now)
  /\ Store(BookedFrom(op, Typing, Now))
  /\ UNCHANGED <<batches, previewing, confirming, tokens>>

Expire(op) ==
  /\ op \in tokens /\ tokens' = tokens \ {op}
  /\ UNCHANGED <<batches, previewing, confirming, bookVars>>

\* A movement is deleted in the ledger, and its trade with it; an imported
\* row protects the trade it left.  Movements without a trade stay.
DeleteImported(t) ==
  /\ t \in trades /\ t.from = Typing
  /\ trades' = trades \ {t} /\ cash' = cash + t.op.spends
  /\ UNCHANGED <<batches, previewing, confirming, tokens, bookings>>

-----------------------------------------------------------------------------
(* Files *)

\* upload_csv: the same file is the same batch.
Upload(f) ==
  /\ f \notin DOMAIN batches
  /\ batches' = [g \in DOMAIN batches \cup {f} |->
                   IF g = f THEN [status |-> "uploaded", rows |-> [i \in DOMAIN f |-> "pending"]]
                   ELSE batches[g]]
  /\ UNCHANGED <<previewing, confirming, tokens, bookVars>>

RowsOf(f) == batches[f].rows
\* fault: rows already confirmed are examined again
ExaminedAgain(f, i, mapped) ==
  CASE ~mapped \/ ~Affordable(f[i], cash) -> "error"
    [] f[i].ref # NoRef /\ \E t \in trades : t.from # Typing /\ t.op.ref = f[i].ref -> "duplicate"
    [] OTHER -> "valid"
\* A mapping that fits none of the columns makes every row an error.
Examined(f, i, mapped) ==
  CASE RowsOf(f)[i] = "confirmed" -> "confirmed"
    [] RowsOf(f)[i] # "confirmed" /\ (~mapped \/ ~Affordable(f[i], cash)) -> "error"
    [] OTHER -> IF f[i].ref # NoRef /\ \E t \in trades : t.from # Typing /\ t.op.ref = f[i].ref
                  THEN "duplicate" ELSE "valid"

\* preview_import locks and examines the rows, ...
StartPreview(f, mapped) ==
  /\ f \in DOMAIN batches /\ previewing[f] = NotStored
  /\ previewing' = [previewing EXCEPT ![f] = [i \in DOMAIN f |-> Examined(f, i, mapped)]]
  /\ UNCHANGED <<batches, confirming, tokens, bookVars>>

\* fault: the status of a batch that was confirmed is kept
StatusKept(f) == IF batches[f].status = "confirmed" THEN "confirmed" ELSE "previewed"
PreviewStatus(f) == "previewed"
\* ... and stores them with the batch, which a confirmation may have locked.
EndPreview(f) ==
  /\ previewing[f] # NotStored /\ confirming[f] = NotBooking
  /\ batches' = [batches EXCEPT ![f] = [status |-> PreviewStatus(f), rows |-> previewing[f]]]
  /\ previewing' = [previewing EXCEPT ![f] = NotStored]
  /\ UNCHANGED <<confirming, tokens, bookVars>>

\* confirm_import locks the batch, ...
StartConfirm(f, chosen) ==
  /\ f \in DOMAIN batches /\ confirming[f] = NotBooking
  /\ batches[f].status \in {"previewed", "partial"}
  /\ confirming' = [confirming EXCEPT ![f] = chosen]
  /\ UNCHANGED <<batches, previewing, tokens, bookVars>>

\* ... waits for the rows and books those that are valid, all or none.
Selected(f) == {i \in DOMAIN f : RowsOf(f)[i] = "valid" /\ i \in confirming[f]}
Outcome(f) ==
  LET upTo[n \in 0..Len(f)] == IF n = 0 THEN Now
                               ELSE IF n \in Selected(f) THEN Book(f[n], RowAt(f, n), upTo[n - 1])
                                                         ELSE upTo[n - 1]
  IN  upTo[Len(f)]
RowsAfter(f) == [i \in DOMAIN f |-> IF i \in Selected(f) THEN "confirmed" ELSE RowsOf(f)[i]]
Remains(rows) == \E i \in DOMAIN rows : rows[i] \notin {"confirmed", "duplicate"}
SomeConfirmed(rows) == \E i \in DOMAIN rows : rows[i] = "confirmed"

Ends(f) == confirming' = [confirming EXCEPT ![f] = NotBooking]
Confirm(f) ==
  /\ confirming[f] # NotBooking /\ previewing[f] = NotStored /\ BagCardinality(bookings) + Cardinality(Selected(f)) <= MaxOperations
  /\ Outcome(f).ok /\ SomeConfirmed(RowsAfter(f))
  /\ batches' = [batches EXCEPT ![f] = [status |-> IF Remains(RowsAfter(f)) THEN "partial" ELSE "confirmed",
                                        rows |-> RowsAfter(f)]]
  /\ Store(Outcome(f)) /\ Ends(f)
  /\ UNCHANGED <<previewing, tokens>>

\* One row that fails takes the others with it.
RejectConfirm(f) ==
  /\ confirming[f] # NotBooking /\ previewing[f] = NotStored
  /\ ~Outcome(f).ok \/ ~SomeConfirmed(RowsAfter(f))
  /\ Ends(f)
  /\ UNCHANGED <<batches, previewing, tokens, bookVars>>

\* The database ends one of two transactions that wait for each other.
Deadlocked(f) == previewing[f] # NotStored /\ confirming[f] # NotBooking
EndDeadlock(f) ==
  /\ Deadlocked(f)
  /\ \/ Ends(f) /\ UNCHANGED previewing
     \/ previewing' = [previewing EXCEPT ![f] = NotStored] /\ UNCHANGED confirming
  /\ UNCHANGED <<batches, tokens, bookVars>>

ImportNext ==
  \/ \E op \in Typed : PreviewOperation(op) \/ ConfirmOperation(op) \/ Expire(op)
  \/ \E t \in trades : DeleteImported(t)
  \/ \E f \in Files : \/ Upload(f) \/ EndPreview(f) \/ Confirm(f) \/ RejectConfirm(f) \/ EndDeadlock(f)
                      \/ \E mapped \in BOOLEAN : StartPreview(f, mapped)
                      \/ \E chosen \in SUBSET DOMAIN f : StartConfirm(f, chosen)

-----------------------------------------------------------------------------
(* Invariants *)

Statuses == {"pending", "error", "duplicate", "valid", "confirmed"}
ImportTypeOK ==
  /\ DOMAIN batches \subseteq Files
  /\ \A f \in DOMAIN batches : /\ batches[f].status \in {"uploaded", "previewed", "partial", "confirmed"}
                              /\ RowsOf(f) \in [DOMAIN f -> Statuses]
  /\ \A f \in Files : /\ previewing[f] = NotStored \/ previewing[f] \in [DOMAIN f -> Statuses]
                      /\ confirming[f] = NotBooking \/ confirming[f] \subseteq DOMAIN f
  /\ \A t \in trades : IsTrade(t)
  /\ tokens \subseteq Typed /\ cash \in Int /\ BagCardinality(bookings) <= MaxOperations

Copies(from, bag) == IF BagIn(from, bag) THEN bag[from] ELSE 0

\* However often a file is uploaded, previewed and confirmed, and whatever
\* transaction of it the database ends, a row was booked exactly once if it
\* says so and never if it does not (imports.py:147-149, 180-200).
RowsBookedOnce ==
  \A f \in DOMAIN batches : \A i \in DOMAIN f :
    Copies(RowAt(f, i), bookings) = IF RowsOf(f)[i] = "confirmed" THEN 1 ELSE 0

\* A batch that says it is confirmed has nothing left to book, also after
\* it was previewed again with another mapping (imports.py:171, 201-206).
ConfirmedMeansAll ==
  \A f \in DOMAIN batches : batches[f].status = "confirmed" =>
    /\ SomeConfirmed(RowsOf(f)) /\ ~Remains(RowsOf(f))

\* The batches tell the truth about the ledger: every row is booked as often as it says,
\* and a confirmed batch leaves nothing to book.
BatchesHold == RowsBookedOnce /\ ConfirmedMeansAll

ImportSpec == ImportInit /\ [][ImportNext]_importVars
=============================================================================
