------------------------ MODULE SettlementExecution ------------------------
(***************************************************************************)
(* Execution of the settlement recommendations of finalized monthly closes *)
(* (backend/budget/services_settlement_execution.py), with the ledger rows *)
(* it writes and the close transitions it races with.                      *)
(*                                                                         *)
(* Every HTTP request runs in a database transaction of its own under READ *)
(* COMMITTED.  A request is a session: the statement that selects the      *)
(* recommendation row FOR UPDATE reads the status of the joined close from *)
(* its snapshot and then waits for the row; what the request writes is     *)
(* computed from the row it read, and becomes visible when it commits.     *)
(***************************************************************************)
EXTENDS Integers, FiniteSets, Functions

CONSTANTS
  Closes,      \* monthly closes, numbered in calendar order
  Recs,        \* ids of settlement recommendations, in sort order
  Routes,      \* source account, destination account, ownership and dates
  TxIds,       \* ids of ledger transactions (bounds how many are ever booked)
  Amounts,     \* amounts a user may type or book, in cents
  ClientKeys,  \* idempotency keys a client may send
  Procs,       \* requests being served at one time
  CloseOf,     \* the close whose snapshot holds the recommendation
  Amount,      \* amount of the recommendation
  Route        \* route of the recommendation

ASSUME ConstantsAssumption ==
  /\ Closes \subseteq Nat /\ Recs \subseteq Nat \ {0}
  /\ TxIds \subseteq Nat \ {0} /\ IsFiniteSet(TxIds)
  /\ Amounts \subseteq Nat \ {0}
  /\ CloseOf \in [Recs -> Closes]
  /\ Amount \in [Recs -> Nat \ {0}]
  /\ Routes # {} /\ Route \in [Recs -> Routes]

VARIABLES
  close,   \* MonthlyClose.status
  rec,     \* recommendation rows
  tx,      \* ledger transactions, with their settlement link
  sess     \* requests in progress

vars == <<close, rec, tx, sess>>

NoRec == 0
NoTx == 0

CloseStatuses == {"draft", "finalized", "locked"}
RecStatuses == {"absent", "recommended", "accepted", "applied",
                "partially_applied", "cancelled", "deleted"}
Actions == {"none", "application", "reconciliation", "reversal"}
Ops == {"none", "accept", "apply", "reconcile", "cancel", "reverse", "apply_all", "reopen"}

(***************************************************************************)
(* Idempotency keys.  The server derives a key when the client sends none. *)
(***************************************************************************)
Blank == <<>>
ClientKey(k) == <<"client", k>>
FullKey(r) == <<"full", r>>
ReverseFullKey(r) == <<"reverse:full", r>>
ReconcileKey(r, t) == <<"reconcile", r, t>>
SentKeys == {Blank} \cup {ClientKey(k) : k \in ClientKeys}
Keys == SentKeys \cup {FullKey(r) : r \in Recs} \cup {ReverseFullKey(r) : r \in Recs}
                 \cup {ReconcileKey(r, t) : r \in Recs, t \in TxIds}

RecRow == [status : RecStatuses, applied : Int, accepted : BOOLEAN]
AbsentRow == [status |-> "absent", applied |-> 0, accepted |-> FALSE]
NewRow == [status |-> "recommended", applied |-> 0, accepted |-> FALSE]
DeletedRow == [status |-> "deleted", applied |-> 0, accepted |-> FALSE]

TxRow == [status : {"none", "pending", "posted", "deleted"}, route : Routes, amount : Int,
          link : Recs \cup {NoRec}, action : Actions, key : Keys, credit : Int]
AnyRoute == CHOOSE rt \in Routes : TRUE
NoTxRow == [status |-> "none", route |-> AnyRoute, amount |-> 0, link |-> NoRec,
            action |-> "none", key |-> Blank, credit |-> 0]

(* want: the amount sent, 0 when omitted; applied, accepted: the row as     *)
(* read under its lock; held, closes: the rows this transaction has locked. *)
Session == [pc : {"idle", "select", "locked", "candidate", "batch", "reopen"}, op : Ops,
            rec : Recs \cup {NoRec}, seen : CloseStatuses, applied : Int, accepted : BOOLEAN,
            want : Int, key : Keys, tx : TxIds \cup {NoTx},
            held : SUBSET Recs, closes : SUBSET Closes, todo : SUBSET Recs]
Idle == [pc |-> "idle", op |-> "none", rec |-> NoRec, seen |-> "draft", applied |-> 0,
         accepted |-> FALSE, want |-> 0, key |-> Blank, tx |-> NoTx,
         held |-> {}, closes |-> {}, todo |-> {}]

TypeOK ==
  /\ close \in [Closes -> CloseStatuses]
  /\ rec \in [Recs -> RecRow]
  /\ tx \in [TxIds -> TxRow]
  /\ sess \in [Procs -> Session]

Init ==
  /\ close = [c \in Closes |-> "draft"]
  /\ rec = [r \in Recs |-> AbsentRow]
  /\ tx = [t \in TxIds |-> NoTxRow]
  /\ sess = [p \in Procs |-> Idle]

-----------------------------------------------------------------------------
(* Rows and locks *)

Live(r) == rec[r].status \notin {"absent", "deleted"}
RowFree(r) == \A p \in Procs : r \notin sess[p].held
NoCloseLock(c) == TRUE  \* fault: apply-all and lock do not exclude each other
CloseFree(c) == \A p \in Procs : c \notin sess[p].closes
RecsOf(cs) == {r \in Recs : CloseOf[r] \in cs /\ Live(r)}

KeyForgotten(k) == FALSE  \* fault: a retry is not recognised
\* Committed rows, and rows a transaction in progress has inserted.
KeyUsed(k) == \E t \in TxIds : tx[t].status \in {"posted", "pending"} /\ tx[t].key = k
LinkedTo(r) == {t \in TxIds : tx[t].status = "posted" /\ tx[t].link = r}
NextTx(t) == tx[t].status = "none" /\ \A u \in TxIds : u < t => tx[u].status # "none"
LedgerFull == \A t \in TxIds : tx[t].status # "none"

Remaining(r, applied) == Amount[r] - applied

\* fault: a status the model does not define
StatusForMisspelt(total, applied, accepted) == IF applied >= total THEN "paid" ELSE "recommended"
StatusFor(total, applied, accepted) ==
  IF applied >= total THEN "applied"
  ELSE IF applied > 0 THEN "partially_applied"
  ELSE IF accepted THEN "accepted" ELSE "recommended"

Row(r, applied, accepted) ==
  [status |-> StatusFor(Amount[r], applied, accepted),
   applied |-> applied, accepted |-> accepted]

Movement(r, status, amount, action, key) ==
  [status |-> status, route |-> Route[r], amount |-> amount, link |-> r,
   action |-> action, key |-> key, credit |-> amount]

Book(row) == \E t \in TxIds : NextTx(t) /\ tx' = [tx EXCEPT ![t] = row]
End(p) == sess' = [sess EXCEPT ![p] = Idle]

-----------------------------------------------------------------------------
(* A request on one recommendation *)

Request(p, op, r, want, key, t) ==
  /\ sess[p].pc = "idle"
  /\ Live(r)
  /\ sess' = [sess EXCEPT ![p] = [Idle EXCEPT !.pc = "select", !.op = op, !.rec = r,
                !.seen = close[CloseOf[r]], !.want = want, !.key = key, !.tx = t]]
  /\ UNCHANGED <<close, rec, tx>>

RequestAccept(p) == \E r \in Recs : Request(p, "accept", r, 0, Blank, NoTx)
RequestCancel(p) == \E r \in Recs : Request(p, "cancel", r, 0, Blank, NoTx)
RequestApply(p) == \E r \in Recs, want \in {0} \cup Amounts, key \in SentKeys :
                      Request(p, "apply", r, want, key, NoTx)
RequestReverse(p) == \E r \in Recs, want \in {0} \cup Amounts, key \in SentKeys :
                        Request(p, "reverse", r, want, key, NoTx)
RequestReconcile(p) == \E r \in Recs, t \in TxIds :
                          /\ tx[t].status = "posted"
                          /\ Request(p, "reconcile", r, 0, Blank, t)

\* fault: a cancelled recommendation is executed
ValidatedIfFinalized(s) == s.seen = "finalized" /\ Live(s.rec)
\* The close was read when the statement started; the row is the current one.
Validated(s) ==
  /\ s.seen = "finalized"
  /\ Live(s.rec)
  /\ rec[s.rec].status # "cancelled"

LockRow(p) ==
  LET s == sess[p] IN
  /\ s.pc = "select"
  /\ RowFree(s.rec)
  /\ Validated(s)
  /\ sess' = [sess EXCEPT ![p] = [s EXCEPT !.pc = "locked", !.held = @ \cup {s.rec},
                !.applied = rec[s.rec].applied, !.accepted = rec[s.rec].accepted]]
  /\ UNCHANGED <<close, rec, tx>>

Accept(p) ==
  LET s == sess[p] IN
  /\ s.pc = "locked" /\ s.op = "accept"
  /\ rec' = [rec EXCEPT ![s.rec] = Row(s.rec, s.applied, TRUE)]
  /\ End(p)
  /\ UNCHANGED <<close, tx>>

\* fault: an applied recommendation is cancelled without reversing it
CancelApplied(p) ==
  /\ sess[p].pc = "locked" /\ sess[p].op = "cancel"
  /\ rec' = [rec EXCEPT ![sess[p].rec].status = "cancelled"]
  /\ End(p) /\ UNCHANGED <<close, tx>>

Cancel(p) ==
  LET s == sess[p] IN
  /\ s.pc = "locked" /\ s.op = "cancel"
  /\ s.applied = 0
  /\ rec' = [rec EXCEPT ![s.rec].status = "cancelled"]
  /\ End(p)
  /\ UNCHANGED <<close, tx>>

ApplyAmount(s) == IF s.want = 0 THEN Remaining(s.rec, s.applied) ELSE s.want
ApplyKey(s) ==
  IF s.key = Blank /\ ApplyAmount(s) = Remaining(s.rec, s.applied)
    THEN FullKey(s.rec) ELSE s.key
\* fault: the amount is not compared with what remains
CanApplyBeyond(s) == ApplyKey(s) # Blank /\ ~KeyUsed(ApplyKey(s)) /\ ApplyAmount(s) > 0
CanApply(s) ==
  /\ ApplyKey(s) # Blank
  /\ ~KeyUsed(ApplyKey(s))
  /\ ApplyAmount(s) > 0
  /\ ApplyAmount(s) <= Remaining(s.rec, s.applied)

Apply(p) ==
  LET s == sess[p] IN
  /\ s.pc = "locked" /\ s.op = "apply"
  /\ CanApply(s)
  /\ Book(Movement(s.rec, "posted", ApplyAmount(s), "application", ApplyKey(s)))
  /\ rec' = [rec EXCEPT ![s.rec] = Row(s.rec, s.applied + ApplyAmount(s), TRUE)]
  /\ End(p)
  /\ UNCHANGED close

ReverseAmount(s) == IF s.want = 0 THEN s.applied ELSE s.want
ReverseKey(s) == IF s.key = Blank /\ s.want = 0 THEN ReverseFullKey(s.rec) ELSE s.key
\* A blank key is looked up like any other, and ordinary transactions have one.
CanReverse(s) ==
  /\ ~KeyUsed(ReverseKey(s))
  /\ ReverseAmount(s) > 0
  /\ ReverseAmount(s) <= s.applied

Reverse(p) ==
  LET s == sess[p] IN
  /\ s.pc = "locked" /\ s.op = "reverse"
  /\ CanReverse(s)
  /\ Book(Movement(s.rec, "posted", ReverseAmount(s), "reversal", ReverseKey(s)))
  /\ rec' = [rec EXCEPT ![s.rec] = Row(s.rec, s.applied - ReverseAmount(s), s.accepted)]
  /\ End(p)
  /\ UNCHANGED close

IsCandidate(t, r, applied) ==
  /\ tx[t].status = "posted"
  /\ tx[t].link = NoRec
  /\ tx[t].route = Route[r]
  /\ tx[t].amount <= Remaining(r, applied)

\* The list of candidates is read by statements of its own, which lock nothing
\* and see the close as it is then.
ReadCandidates(p) ==
  LET s == sess[p] IN
  /\ s.pc = "locked" /\ s.op = "reconcile"
  /\ close[CloseOf[s.rec]] = "finalized"
  /\ IsCandidate(s.tx, s.rec, s.applied)
  /\ sess' = [sess EXCEPT ![p] = [s EXCEPT !.pc = "candidate", !.want = tx[s.tx].amount]]
  /\ UNCHANGED <<close, rec, tx>>

\* The transfer is locked now and linked whatever its link has become.
Reconcile(p) ==
  LET s == sess[p] IN
  /\ s.pc = "candidate"
  /\ tx[s.tx].status = "posted"
  /\ tx' = [tx EXCEPT ![s.tx] = [@ EXCEPT !.link = s.rec, !.action = "reconciliation",
                                   !.key = ReconcileKey(s.rec, s.tx), !.credit = s.want]]
  /\ rec' = [rec EXCEPT ![s.rec] = Row(s.rec, s.applied + s.want, TRUE)]
  /\ End(p)
  /\ UNCHANGED close

-----------------------------------------------------------------------------
(* Apply-all: one transaction that holds the close row *)

StartApplyAll(p) ==
  \E c \in Closes :
    /\ sess[p].pc = "idle"
    /\ CloseFree(c)
    /\ close[c] = "finalized"
    /\ sess' = [sess EXCEPT ![p] = [Idle EXCEPT !.pc = "batch", !.op = "apply_all",
                  !.closes = {c},
                  !.todo = {r \in RecsOf({c}) : rec[r].status # "cancelled"}]]
    /\ UNCHANGED <<close, rec, tx>>

IsFirst(r, S) == r \in S /\ \A q \in S : r <= q

\* fault: a recommendation with nothing remaining stays on the list
BatchSkipStuck(p) ==
  \E r \in sess[p].todo :
    /\ sess[p].pc = "batch" /\ IsFirst(r, sess[p].todo)
    /\ Remaining(r, rec[r].applied) <= 0
    /\ UNCHANGED vars

\* The remaining amount is read without a lock before the row is selected.
BatchSkip(p) ==
  \E r \in sess[p].todo :
    /\ sess[p].pc = "batch" /\ IsFirst(r, sess[p].todo)
    /\ Remaining(r, rec[r].applied) <= 0
    /\ sess' = [sess EXCEPT ![p].todo = @ \ {r}]
    /\ UNCHANGED <<close, rec, tx>>

BatchSelect(p) ==
  LET s == sess[p] IN
  \E r \in s.todo :
    /\ s.pc = "batch" /\ IsFirst(r, s.todo)
    /\ Remaining(r, rec[r].applied) > 0
    /\ sess' = [sess EXCEPT ![p] = [s EXCEPT !.pc = "select", !.rec = r, !.todo = @ \ {r},
                  !.seen = close[CloseOf[r]]]]
    /\ UNCHANGED <<close, rec, tx>>

BatchApply(p) ==
  LET s == sess[p] IN
  /\ s.pc = "locked" /\ s.op = "apply_all"
  /\ CanApply(s)
  /\ Book(Movement(s.rec, "pending", ApplyAmount(s), "application", ApplyKey(s)))
  /\ sess' = [sess EXCEPT ![p] = [s EXCEPT !.pc = "batch"]]
  /\ UNCHANGED <<close, rec>>

BatchReplay(p) ==
  LET s == sess[p] IN
  /\ s.pc = "locked" /\ s.op = "apply_all"
  /\ KeyUsed(FullKey(s.rec))
  /\ sess' = [sess EXCEPT ![p] = [s EXCEPT !.pc = "batch"]]
  /\ UNCHANGED <<close, rec, tx>>

Posted(S) == [t \in TxIds |-> IF t \in S THEN [tx[t] EXCEPT !.status = "posted"] ELSE tx[t]]
Pending(p) == {t \in TxIds : tx[t].status = "pending" /\ tx[t].link \in sess[p].held}

\* fault: only the last recommendation of the batch is saved
CommitLast(p) ==
  LET s == sess[p] IN
  /\ s.pc = "batch" /\ s.todo = {} /\ s.held # {}
  /\ tx' = Posted(Pending(p))
  /\ rec' = [rec EXCEPT ![s.rec] = Row(s.rec, Amount[s.rec], TRUE)]
  /\ End(p) /\ UNCHANGED close

\* Each movement covers what remained of its recommendation.
CommitAll(p) ==
  LET s == sess[p]  paid == {tx[t].link : t \in Pending(p)} IN
  /\ s.pc = "batch" /\ s.todo = {}
  /\ tx' = Posted(Pending(p))
  /\ rec' = [r \in Recs |-> IF r \in paid THEN Row(r, Amount[r], TRUE) ELSE rec[r]]
  /\ End(p)
  /\ UNCHANGED close

-----------------------------------------------------------------------------
(* A request that ends without writing anything: the transaction rolls back *)

ReopenTargets(c) == {c} \cup {d \in Closes : d > c /\ close[d] \in {"finalized", "locked"}}
Linked(cs) == \E r \in RecsOf(cs) : LinkedTo(r) # {}

Fails(s) ==
  \/ /\ s.pc = "select" /\ RowFree(s.rec)
     /\ ~Validated(s)
  \/ /\ s.pc = "locked" /\ s.op = "cancel"
     /\ s.applied > 0
  \/ /\ s.pc = "locked" /\ s.op = "apply"
     /\ ~CanApply(s) \/ LedgerFull
  \/ /\ s.pc = "locked" /\ s.op = "reverse"
     /\ ~CanReverse(s) \/ LedgerFull
  \/ /\ s.pc = "locked" /\ s.op = "reconcile"
     /\ \/ close[CloseOf[s.rec]] # "finalized"
        \/ ~IsCandidate(s.tx, s.rec, s.applied)
  \/ /\ s.pc = "candidate"
     /\ tx[s.tx].status # "posted"
  \/ /\ s.pc = "locked" /\ s.op = "apply_all"
     /\ ~KeyUsed(FullKey(s.rec))
     /\ ~CanApply(s) \/ LedgerFull
  \/ /\ s.pc = "reopen"
     /\ \A r \in RecsOf(s.closes) : RowFree(r)
     /\ Linked(s.closes)

Fail(p) ==
  /\ Fails(sess[p])
  /\ tx' = [t \in TxIds |-> IF t \in Pending(p) THEN NoTxRow ELSE tx[t]]
  /\ End(p)
  /\ UNCHANGED <<close, rec>>

-----------------------------------------------------------------------------
(* Close transitions, as the recommendations see them *)

FinalizeClose(c) ==
  /\ CloseFree(c)
  /\ close[c] = "draft"
  /\ close' = [close EXCEPT ![c] = "finalized"]
  /\ \E S \in SUBSET {r \in Recs : CloseOf[r] = c /\ rec[r].status = "absent"} :
       rec' = [r \in Recs |-> IF r \in S THEN NewRow ELSE rec[r]]
  /\ UNCHANGED <<tx, sess>>

LockClose(c) ==
  /\ CloseFree(c)
  /\ close[c] = "finalized"
  /\ close' = [close EXCEPT ![c] = "locked"]
  /\ UNCHANGED <<rec, tx, sess>>

\* Reopening locks the close and every later finalized one, then looks for
\* linked movements.
ReopenCheck(p) ==
  \E c \in Closes :
    LET cs == ReopenTargets(c) IN
    /\ sess[p].pc = "idle"
    /\ close[c] = "finalized"
    /\ \A d \in cs : CloseFree(d) /\ close[d] # "locked"
    /\ ~Linked(cs)
    /\ sess' = [sess EXCEPT ![p] = [Idle EXCEPT !.pc = "reopen", !.op = "reopen", !.closes = cs]]
    /\ UNCHANGED <<close, rec, tx>>

\* The DELETE of the rows waits for their locks, and a movement that refers to
\* one of them makes it fail (PROTECT, and the foreign key at commit).
ReopenCommit(p) ==
  LET s == sess[p] IN
  /\ s.pc = "reopen"
  /\ \A r \in RecsOf(s.closes) : RowFree(r)
  /\ ~Linked(s.closes)
  /\ rec' = [r \in Recs |-> IF r \in RecsOf(s.closes) THEN DeletedRow ELSE rec[r]]
  /\ close' = [c \in Closes |-> IF c \in s.closes THEN "draft" ELSE close[c]]
  /\ End(p)
  /\ UNCHANGED tx

-----------------------------------------------------------------------------
(* The rest of the ledger: transfers the user books, imports or deletes *)

PostTransfer(rt, a) ==
  /\ Book([NoTxRow EXCEPT !.status = "posted", !.route = rt, !.amount = a])
  /\ UNCHANGED <<close, rec, sess>>

DeleteTransfer(t) ==
  /\ tx[t].status = "posted" /\ tx[t].link = NoRec
  /\ tx' = [tx EXCEPT ![t].status = "deleted"]
  /\ UNCHANGED <<close, rec, sess>>

\* Nothing in the ledger endpoints refuses to delete a linked movement.
DeleteLinked(t) ==
  /\ tx[t].status = "posted" /\ tx[t].link # NoRec
  /\ tx' = [tx EXCEPT ![t].status = "deleted"]
  /\ UNCHANGED <<close, rec, sess>>

-----------------------------------------------------------------------------
Waits(p) == LockRow(p) \/ ReopenCommit(p) \/ Fail(p)
Proceeds(p) ==
  \/ Accept(p) \/ Cancel(p) \/ Apply(p) \/ Reverse(p)
  \/ ReadCandidates(p) \/ Reconcile(p)
  \/ BatchSkip(p) \/ BatchSelect(p) \/ BatchApply(p) \/ BatchReplay(p) \/ CommitAll(p)
Arrives(p) ==
  \/ RequestAccept(p) \/ RequestCancel(p) \/ RequestApply(p)
  \/ RequestReverse(p) \/ RequestReconcile(p)
  \/ StartApplyAll(p) \/ ReopenCheck(p)

Next ==
  \/ \E p \in Procs : Arrives(p) \/ Waits(p) \/ Proceeds(p)
  \/ \E c \in Closes : FinalizeClose(c) \/ LockClose(c)
  \/ \E rt \in Routes, a \in Amounts : PostTransfer(rt, a)
  \/ \E t \in TxIds : DeleteTransfer(t)

Spec == Init /\ [][Next]_vars

\* DELETE on the ledger endpoint, with nothing to stop it.
EditSpec == Init /\ [][Next \/ \E t \in TxIds : DeleteLinked(t)]_vars

\* Requests run to their end; a row lock is granted to each waiter in turn, so
\* none is passed over for ever.  Nobody has to send a request.
Fairness == \A p \in Procs : WF_vars(Proceeds(p)) /\ SF_vars(Waits(p))
FairSpec == Spec /\ Fairness

-----------------------------------------------------------------------------
(* Properties *)

\* The amount applied never leaves 0..amount, and the status says what it is:
\* concurrent applications, reconciliations and reversals of one recommendation
\* never over-apply it, and a cancelled one has nothing applied.
StatusAgrees ==
  \A r \in Recs : Live(r) =>
    /\ rec[r].applied \in 0..Amount[r]
    /\ IF rec[r].status = "cancelled"
         THEN rec[r].applied = 0
         ELSE rec[r].status = StatusFor(Amount[r], rec[r].applied, rec[r].accepted)

\* Once a recommendation is cancelled no request, however early it started,
\* revives it or books a movement on it.
CancelledIsFinal ==
  [][\A r \in Recs : rec[r].status = "cancelled" =>
       /\ rec'[r].status \in {"cancelled", "deleted"}
       /\ LinkedTo(r)' \subseteq LinkedTo(r)]_vars

Signed(row) == IF row.action = "reversal" THEN -row.credit ELSE row.credit
Net(r) == SumFunctionOnSet([t \in TxIds |-> Signed(tx[t])], LinkedTo(r))
SharesRoute(r) == \E q \in Recs \ {r} : Route[q] = Route[r]

\* The obligations behind the recommendations: requests, locks and the status of
\* closes are left out, and a movement counts when it is committed.
Obligation == INSTANCE SettlementObligation WITH
  phase <- [r \in Recs |-> CASE rec[r].status = "absent" -> "none"
                               [] rec[r].status = "deleted" -> "withdrawn"
                               [] rec[r].status = "cancelled" -> "cancelled"
                               [] OTHER -> "open"],
  paid <- [r \in Recs |-> rec[r].applied],
  moved <- {r \in Recs : LinkedTo(r) # {}}

\* Where no two recommendations share a route, concurrent requests, retries,
\* batches and reopenings act on each recommendation like one of the steps of an
\* obligation: nothing is paid twice, lost, or withdrawn after a movement.
SettlesObligations == Obligation!Spec

\* What a recommendation says was applied is what the ledger holds for it:
\* applications and reconciled transfers minus reversals.
AppliedIsBooked(r) == Live(r) => rec[r].applied = Net(r)

\* It holds in every interleaving for a route only one recommendation uses.
OwnRouteConserves == \A r \in Recs : SharesRoute(r) \/ AppliedIsBooked(r)

\* "Compatible manual/imported transfers may be linked": a transfer settles at
\* most one recommendation, so every recommendation is backed by the ledger.
TransferSettlesOnce == \A r \in Recs : AppliedIsBooked(r)

\* "Once any linked movement exists, the close remains historical": a linked
\* movement never points at a deleted row or into a close back in draft, even
\* when it commits while the close is being reopened.
HistoryKept ==
  \A r \in Recs : LinkedTo(r) # {} => Live(r) /\ close[CloseOf[r]] # "draft"

\* What a recommendation says of itself is so, and what it says was applied has a close and a row to
\* belong to, whatever requests overlap.
RecommendationsStand == StatusAgrees /\ HistoryKept

\* A linked movement, once booked, keeps its close from being reopened.
LinkedCloseStays ==
  [][\A r \in Recs : (Live(r) /\ rec[r].applied > 0) => rec'[r].status # "deleted"]_vars

\* "Locked closes reject all settlement actions": no movement and no applied
\* amount of a locked close changes.
LockedCloseIsFrozen ==
  [][\A r \in Recs : close[CloseOf[r]] = "locked" =>
       rec'[r].applied = rec[r].applied /\ LinkedTo(r)' = LinkedTo(r)]_vars

\* A locked close still changes only through a request on one recommendation
\* that selected it before the lock; apply-all, which holds the close row, never
\* commits on it.
OnlyOldRequestsAfterLock ==
  [][\A r \in Recs : (close[CloseOf[r]] = "locked" /\ rec'[r] # rec[r]) =>
       \E p \in Procs : /\ sess[p].rec = r /\ sess[p].seen = "finalized"
                         /\ sess[p].op # "apply_all"]_vars

\* A retry moves no money: one committed movement per idempotency key, whichever
\* requests carry it and whatever recommendation they name.
OneMovementPerKey ==
  \A t, u \in TxIds :
    (tx[t].status = "posted" /\ tx[u].status = "posted" /\ tx[t].key = tx[u].key)
      => t = u \/ tx[t].key = Blank

\* Every request ends: no cycle of row and close locks, no waiter left behind.
RequestsEnd == \A p \in Procs : sess[p].pc # "idle" ~> sess[p].pc = "idle"

=============================================================================
