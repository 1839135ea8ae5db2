--------------------- MODULE SettlementExecutionProofs ---------------------
(***************************************************************************)
(* Proofs about SettlementExecution for any closes, recommendations,       *)
(* routes, amounts, keys and number of concurrent requests.                *)
(***************************************************************************)
EXTENDS SettlementExecution, TLAPS

\* The statuses a save can write.
LEMMA StatusForType ==
  ASSUME NEW total \in Int, NEW applied \in Int, NEW accepted \in BOOLEAN
  PROVE  /\ StatusFor(total, applied, accepted) \in
              {"recommended", "accepted", "applied", "partially_applied"}
         /\ StatusFor(total, applied, accepted) \in RecStatuses
BY DEF StatusFor, RecStatuses

LEMMA RowType ==
  ASSUME NEW r \in Recs, NEW applied \in Int, NEW accepted \in BOOLEAN
  PROVE  /\ Row(r, applied, accepted) \in RecRow
         /\ Row(r, applied, accepted).status \in
              {"recommended", "accepted", "applied", "partially_applied"}
BY StatusForType, ConstantsAssumption DEF Row, RecRow

LEMMA ConstantTypes ==
  /\ NoRec \notin Recs /\ NoTx \notin TxIds
  /\ AnyRoute \in Routes
  /\ \A r \in Recs : Amount[r] \in Nat /\ Amount[r] > 0 /\ CloseOf[r] \in Closes /\ Route[r] \in Routes
  /\ Blank \in Keys
  /\ \A r \in Recs : FullKey(r) \in Keys /\ ReverseFullKey(r) \in Keys
  /\ \A r \in Recs, t \in TxIds : ReconcileKey(r, t) \in Keys
  /\ SentKeys \subseteq Keys
BY ConstantsAssumption DEF NoRec, NoTx, AnyRoute, Keys, SentKeys, Blank

LEMMA IdleType == Idle \in Session
BY ConstantTypes DEF Idle, Session, Ops, CloseStatuses

LEMMA NoTxRowType == NoTxRow \in TxRow
BY ConstantTypes DEF NoTxRow, TxRow, Actions

\* A booked movement is a well-formed ledger row.
LEMMA MovementType ==
  ASSUME NEW r \in Recs, NEW status \in {"pending", "posted"}, NEW amount \in Int,
         NEW action \in Actions, NEW key \in Keys
  PROVE  Movement(r, status, amount, action, key) \in TxRow
BY ConstantTypes DEF Movement, TxRow

-----------------------------------------------------------------------------
(* Type correctness *)

\* A session that works on a recommendation names one, and only a reconciliation
\* looks for a transfer.
NamesRow(s) ==
  /\ s.pc \in {"select", "locked", "candidate"} => s.rec \in Recs
  /\ s.pc = "candidate" => s.op = "reconcile"
  /\ s.op = "reconcile" => s.tx \in TxIds
WorkingSession == {s \in Session : NamesRow(s)}

\* Inductive: the types of the variables and of the sessions at work.
TypeInv == TypeOK /\ sess \in [Procs -> WorkingSession]

LEMMA IdleWorks == Idle \in WorkingSession
BY IdleType DEF Idle, WorkingSession, NamesRow

LEMMA EndType ==
  ASSUME TypeInv, NEW p \in Procs, End(p)
  PROVE  sess' \in [Procs -> WorkingSession]
BY IdleWorks DEF End, TypeInv, TypeOK

LEMMA BookType ==
  ASSUME TypeInv, NEW row \in TxRow, Book(row)
  PROVE  tx' \in [TxIds -> TxRow]
BY DEF Book, TypeInv, TypeOK

LEMMA SetRowType ==
  ASSUME TypeInv, NEW r \in Recs, NEW applied \in Int, NEW accepted \in BOOLEAN,
         rec' = [rec EXCEPT ![r] = Row(r, applied, accepted)]
  PROVE  rec' \in [Recs -> RecRow]
BY RowType DEF TypeInv, TypeOK

\* A request names rows that exist and carries a key the client may send.
LEMMA RequestType ==
  ASSUME TypeInv, NEW p \in Procs, NEW op \in Ops, NEW r \in Recs, NEW want \in Int,
         NEW key \in SentKeys, NEW t \in TxIds \cup {NoTx}, op = "reconcile" => t \in TxIds,
         Request(p, op, r, want, key, t)
  PROVE  TypeInv'
<1>1. key \in Keys
  BY ConstantTypes
<1>2. close[CloseOf[r]] \in CloseStatuses
  BY ConstantTypes DEF TypeInv, TypeOK
<1> DEFINE new == [Idle EXCEPT !.pc = "select", !.op = op, !.rec = r,
                     !.seen = close[CloseOf[r]], !.want = want, !.key = key, !.tx = t]
<1>3. new \in Session
  BY <1>1, <1>2, IdleType DEF Session
<1>4. NamesRow(new)
  BY IdleType DEF Session, NamesRow
<1>5. sess' = [sess EXCEPT ![p] = new] /\ UNCHANGED <<close, rec, tx>>
  BY DEF Request
<1> HIDE DEF new
<1> QED
  BY <1>3, <1>4, <1>5 DEF TypeInv, TypeOK, WorkingSession

LEMMA ArrivesType ==
  ASSUME TypeInv, NEW p \in Procs, Arrives(p)
  PROVE  TypeInv'
<1>1. Blank \in SentKeys /\ 0 \in Int /\ \A a \in {0} \cup Amounts : a \in Int
  BY ConstantsAssumption DEF SentKeys
<1>2. CASE RequestAccept(p)
  <2>1. PICK r \in Recs : Request(p, "accept", r, 0, Blank, NoTx)
    BY <1>2 DEF RequestAccept
  <2> QED BY <1>1, <2>1, RequestType DEF Ops
<1>3. CASE RequestCancel(p)
  <2>1. PICK r \in Recs : Request(p, "cancel", r, 0, Blank, NoTx)
    BY <1>3 DEF RequestCancel
  <2> QED BY <1>1, <2>1, RequestType DEF Ops
<1>4. CASE RequestApply(p)
  <2>1. PICK r \in Recs, want \in {0} \cup Amounts, key \in SentKeys :
          Request(p, "apply", r, want, key, NoTx)
    BY <1>4 DEF RequestApply
  <2> QED BY <1>1, <2>1, RequestType DEF Ops
<1>5. CASE RequestReverse(p)
  <2>1. PICK r \in Recs, want \in {0} \cup Amounts, key \in SentKeys :
          Request(p, "reverse", r, want, key, NoTx)
    BY <1>5 DEF RequestReverse
  <2> QED BY <1>1, <2>1, RequestType DEF Ops
<1>6. CASE RequestReconcile(p)
  <2>1. PICK r \in Recs, t \in TxIds : Request(p, "reconcile", r, 0, Blank, t)
    BY <1>6 DEF RequestReconcile
  <2> QED BY <1>1, <2>1, RequestType DEF Ops
<1>7. CASE StartApplyAll(p)
  <2> DEFINE todo(c) == {r \in RecsOf({c}) : rec[r].status # "cancelled"}
             new(c) == [Idle EXCEPT !.pc = "batch", !.op = "apply_all", !.closes = {c},
                          !.todo = todo(c)]
  <2>1. PICK c \in Closes : sess' = [sess EXCEPT ![p] = new(c)]
    BY <1>7 DEF StartApplyAll
  <2>2. todo(c) \subseteq Recs
    BY DEF RecsOf
  <2> HIDE DEF todo
  <2>3. new(c) \in Session
    BY <2>2, IdleType DEF Session, Ops
  <2>4. NamesRow(new(c))
    BY IdleType DEF Session, NamesRow
  <2> HIDE DEF new
  <2>5. UNCHANGED <<close, rec, tx>>
    BY <1>7 DEF StartApplyAll
  <2> QED BY <2>1, <2>3, <2>4, <2>5 DEF TypeInv, TypeOK, WorkingSession
<1>8. CASE ReopenCheck(p)
  <2> DEFINE new(cs) == [Idle EXCEPT !.pc = "reopen", !.op = "reopen", !.closes = cs]
  <2>1. PICK c \in Closes : sess' = [sess EXCEPT ![p] = new(ReopenTargets(c))]
    BY <1>8 DEF ReopenCheck
  <2>2. ReopenTargets(c) \subseteq Closes
    BY DEF ReopenTargets
  <2>3. \A cs \in SUBSET Closes : new(cs) \in Session
    BY IdleType DEF Session, Ops
  <2>4. \A cs \in SUBSET Closes : NamesRow(new(cs))
    BY IdleType DEF Session, NamesRow
  <2> HIDE DEF new
  <2>5. UNCHANGED <<close, rec, tx>>
    BY <1>8 DEF ReopenCheck
  <2> QED BY <2>1, <2>2, <2>3, <2>4, <2>5 DEF TypeInv, TypeOK, WorkingSession
<1> QED
  BY <1>2, <1>3, <1>4, <1>5, <1>6, <1>7, <1>8 DEF Arrives

\* What a working session holds has the type of what its request writes.
LEMMA SessionFields ==
  ASSUME TypeInv, NEW p \in Procs
  PROVE  /\ sess[p] \in Session /\ NamesRow(sess[p])
         /\ sess[p].applied \in Int /\ sess[p].accepted \in BOOLEAN /\ sess[p].want \in Int
         /\ sess[p].key \in Keys /\ sess[p].op \in Ops
         /\ sess[p].held \subseteq Recs /\ sess[p].closes \subseteq Closes
         /\ sess[p].todo \subseteq Recs
BY DEF TypeInv, WorkingSession, Session

LEMMA AmountTypes ==
  ASSUME TypeInv, NEW p \in Procs, sess[p].rec \in Recs
  PROVE  /\ ApplyAmount(sess[p]) \in Int /\ ApplyKey(sess[p]) \in Keys
         /\ ReverseAmount(sess[p]) \in Int /\ ReverseKey(sess[p]) \in Keys
BY SessionFields, ConstantTypes DEF ApplyAmount, ApplyKey, ReverseAmount, ReverseKey, Remaining

\* A request that ends leaves an idle session; what it wrote has its type.
LEMMA EndTypeInv ==
  ASSUME TypeInv, NEW p \in Procs, End(p), close' = close,
         rec' \in [Recs -> RecRow], tx' \in [TxIds -> TxRow]
  PROVE  TypeInv'
<1>1. sess' \in [Procs -> WorkingSession]
  BY EndType
<1>2. WorkingSession \subseteq Session
  BY DEF WorkingSession
<1> QED
  BY <1>1, <1>2 DEF TypeInv, TypeOK

LEMMA PostedType ==
  ASSUME TypeInv, NEW S \in SUBSET TxIds
  PROVE  Posted(S) \in [TxIds -> TxRow]
<1>1. \A t \in TxIds : tx[t] \in TxRow /\ [tx[t] EXCEPT !.status = "posted"] \in TxRow
  BY DEF TypeInv, TypeOK, TxRow
<1> QED
  BY <1>1 DEF Posted

\* A step that changes nothing but the session of one request.
LEMMA StepSession ==
  ASSUME TypeInv, NEW p \in Procs, NEW new \in Session, NamesRow(new),
         sess' = [sess EXCEPT ![p] = new], close' = close,
         rec' = rec, tx' \in [TxIds -> TxRow]
  PROVE  TypeInv'
BY DEF TypeInv, TypeOK, WorkingSession

LEMMA WaitsType ==
  ASSUME TypeInv, NEW p \in Procs, Waits(p)
  PROVE  TypeInv'
<1> DEFINE s == sess[p]
<1>0. s \in Session /\ NamesRow(s)
  BY SessionFields
<1>1. CASE LockRow(p)
  <2> DEFINE new == [s EXCEPT !.pc = "locked", !.held = @ \cup {s.rec},
                       !.applied = rec[s.rec].applied, !.accepted = rec[s.rec].accepted]
  <2>1. s.pc = "select" /\ s.rec \in Recs /\ sess' = [sess EXCEPT ![p] = new]
    BY <1>0, <1>1 DEF LockRow, NamesRow
  <2>2. rec[s.rec].applied \in Int /\ rec[s.rec].accepted \in BOOLEAN
    BY <2>1 DEF TypeInv, TypeOK, RecRow
  <2>3. new \in Session
    BY <1>0, <2>1, <2>2 DEF Session
  <2>4. NamesRow(new)
    BY <1>0, <2>1 DEF Session, NamesRow
  <2>5. close' = close /\ rec' = rec /\ tx' \in [TxIds -> TxRow]
    BY <1>1 DEF LockRow, TypeInv, TypeOK
  <2> HIDE DEF new
  <2> QED BY <2>1, <2>3, <2>4, <2>5, StepSession
<1>2. CASE ReopenCommit(p)
  <2>1. rec' \in [Recs -> RecRow]
    BY <1>2 DEF ReopenCommit, TypeInv, TypeOK, RecRow, DeletedRow, RecStatuses
  <2>2. close' \in [Closes -> CloseStatuses]
    BY <1>2 DEF ReopenCommit, TypeInv, TypeOK, CloseStatuses
  <2>3. sess' \in [Procs -> WorkingSession] /\ tx' = tx
    BY <1>2, EndType DEF ReopenCommit
  <2> QED BY <2>1, <2>2, <2>3 DEF TypeInv, TypeOK, WorkingSession
<1>3. CASE Fail(p)
  <2>1. tx' \in [TxIds -> TxRow]
    BY <1>3, NoTxRowType DEF Fail, TypeInv, TypeOK
  <2> QED BY <1>3, <2>1, EndTypeInv DEF Fail, TypeInv, TypeOK
<1> QED
  BY <1>1, <1>2, <1>3 DEF Waits

LEMMA ProceedsType ==
  ASSUME TypeInv, NEW p \in Procs, Proceeds(p)
  PROVE  TypeInv'
<1> DEFINE s == sess[p]
<1>0. /\ s \in Session /\ NamesRow(s)
      /\ s.applied \in Int /\ s.accepted \in BOOLEAN /\ s.want \in Int /\ s.todo \subseteq Recs
  BY SessionFields
<1>00. s.pc \in {"select", "locked", "candidate"} => s.rec \in Recs
  BY <1>0 DEF NamesRow
<1>t. rec \in [Recs -> RecRow] /\ tx \in [TxIds -> TxRow] /\ close \in [Closes -> CloseStatuses]
  BY DEF TypeInv, TypeOK
<1>1. CASE Accept(p)
  BY <1>0, <1>00, <1>t, <1>1, SetRowType, EndTypeInv DEF Accept
<1>2. CASE Cancel(p)
  <2>1. rec' \in [Recs -> RecRow]
    BY <1>2, <1>t DEF Cancel, RecRow, RecStatuses
  <2> QED BY <1>2, <1>t, <2>1, EndTypeInv DEF Cancel
<1>3. CASE Apply(p)
  <2>1. s.rec \in Recs /\ ApplyAmount(s) \in Int /\ ApplyKey(s) \in Keys
    BY <1>00, <1>3, AmountTypes DEF Apply
  <2>2. Movement(s.rec, "posted", ApplyAmount(s), "application", ApplyKey(s)) \in TxRow
    BY <2>1, MovementType DEF Actions
  <2>3. tx' \in [TxIds -> TxRow]
    BY <1>3, <2>2, BookType DEF Apply
  <2>4. rec' \in [Recs -> RecRow]
    <3> DEFINE sum == s.applied + ApplyAmount(s)
    <3>1. sum \in Int
      BY <1>0, <2>1
    <3>2. rec' = [rec EXCEPT ![s.rec] = Row(s.rec, sum, TRUE)]
      BY <1>3 DEF Apply
    <3> HIDE DEF sum
    <3> QED BY <1>0, <2>1, <3>1, <3>2, SetRowType
  <2> QED BY <1>3, <2>3, <2>4, EndTypeInv DEF Apply
<1>4. CASE Reverse(p)
  <2>1. s.rec \in Recs /\ ReverseAmount(s) \in Int /\ ReverseKey(s) \in Keys
    BY <1>00, <1>4, AmountTypes DEF Reverse
  <2>2. Movement(s.rec, "posted", ReverseAmount(s), "reversal", ReverseKey(s)) \in TxRow
    BY <2>1, MovementType DEF Actions
  <2>3. tx' \in [TxIds -> TxRow]
    BY <1>4, <2>2, BookType DEF Reverse
  <2>4. rec' \in [Recs -> RecRow]
    <3> DEFINE sum == s.applied - ReverseAmount(s)
    <3>1. sum \in Int
      BY <1>0, <2>1
    <3>2. rec' = [rec EXCEPT ![s.rec] = Row(s.rec, sum, s.accepted)]
      BY <1>4 DEF Reverse
    <3> HIDE DEF sum
    <3> QED BY <1>0, <2>1, <3>1, <3>2, SetRowType
  <2> QED BY <1>4, <2>3, <2>4, EndTypeInv DEF Reverse
<1>5. CASE ReadCandidates(p)
  <2> DEFINE new(a) == [s EXCEPT !.pc = "candidate", !.want = a]
  <2>1. s.pc = "locked" /\ s.op = "reconcile" /\ sess' = [sess EXCEPT ![p] = new(tx[s.tx].amount)]
    BY <1>5 DEF ReadCandidates
  <2>2. tx[s.tx].amount \in Int
    BY <1>0, <1>t, <2>1 DEF NamesRow, TxRow
  <2>3. \A a \in Int : new(a) \in Session
    BY <1>0 DEF Session
  <2>4. \A a \in Int : NamesRow(new(a))
    BY <1>0, <2>1 DEF Session, NamesRow
  <2>5. close' = close /\ rec' = rec /\ tx' = tx
    BY <1>5 DEF ReadCandidates
  <2> HIDE DEF new
  <2> QED BY <1>t, <2>1, <2>2, <2>3, <2>4, <2>5, StepSession
<1>6. CASE Reconcile(p)
  <2>1. s.rec \in Recs /\ s.tx \in TxIds
    BY <1>0, <1>6 DEF Reconcile, NamesRow
  <2>2. ReconcileKey(s.rec, s.tx) \in Keys
    BY <2>1, ConstantTypes
  <2>3. tx' \in [TxIds -> TxRow]
    <3> DEFINE row == [tx[s.tx] EXCEPT !.link = s.rec, !.action = "reconciliation",
                         !.key = ReconcileKey(s.rec, s.tx), !.credit = s.want]
    <3>1. tx[s.tx] \in TxRow
      BY <1>t, <2>1
    <3>2. row \in TxRow
      BY <1>0, <2>1, <2>2, <3>1 DEF TxRow, Actions
    <3>3. tx' = [tx EXCEPT ![s.tx] = row]
      BY <1>6 DEF Reconcile
    <3> HIDE DEF row
    <3> QED BY <1>t, <3>2, <3>3
  <2>4. rec' \in [Recs -> RecRow]
    <3> DEFINE sum == s.applied + s.want
    <3>1. sum \in Int
      BY <1>0, <2>1
    <3>2. rec' = [rec EXCEPT ![s.rec] = Row(s.rec, sum, TRUE)]
      BY <1>6 DEF Reconcile
    <3> HIDE DEF sum
    <3> QED BY <1>0, <2>1, <3>1, <3>2, SetRowType
  <2> QED BY <1>6, <2>3, <2>4, EndTypeInv DEF Reconcile
<1>7. CASE BatchSkip(p)
  <2> DEFINE new(S) == [s EXCEPT !.todo = S]
  <2>1. PICK r \in s.todo : sess' = [sess EXCEPT ![p] = new(s.todo \ {r})]
    BY <1>7 DEF BatchSkip
  <2>2. \A S \in SUBSET Recs : new(S) \in Session
    BY <1>0 DEF Session
  <2>3. \A S \in SUBSET Recs : NamesRow(new(S))
    BY <1>0 DEF Session, NamesRow
  <2>4. close' = close /\ rec' = rec /\ tx' = tx
    BY <1>7 DEF BatchSkip
  <2> HIDE DEF new
  <2> QED BY <1>0, <1>t, <2>1, <2>2, <2>3, <2>4, StepSession
<1>8. CASE BatchSelect(p)
  <2> DEFINE new(r) == [s EXCEPT !.pc = "select", !.rec = r, !.todo = @ \ {r},
                          !.seen = close[CloseOf[r]]]
  <2>1. PICK r \in s.todo : sess' = [sess EXCEPT ![p] = new(r)]
    BY <1>8 DEF BatchSelect
  <2>2. r \in Recs /\ close[CloseOf[r]] \in CloseStatuses
    BY <1>0, <1>t, ConstantTypes
  <2>3. new(r) \in Session
    BY <1>0, <2>2 DEF Session
  <2>4. NamesRow(new(r))
    BY <1>0, <2>2 DEF Session, NamesRow
  <2>5. close' = close /\ rec' = rec /\ tx' = tx
    BY <1>8 DEF BatchSelect
  <2> HIDE DEF new
  <2> QED BY <1>t, <2>1, <2>3, <2>4, <2>5, StepSession
<1>9. CASE BatchApply(p) \/ BatchReplay(p)
  <2> DEFINE new == [s EXCEPT !.pc = "batch"]
  <2>1. sess' = [sess EXCEPT ![p] = new] /\ close' = close /\ rec' = rec
    BY <1>9 DEF BatchApply, BatchReplay
  <2>2. new \in Session
    BY <1>0 DEF Session
  <2>3. NamesRow(new)
    BY <1>0 DEF Session, NamesRow
  <2>4. tx' \in [TxIds -> TxRow]
    <3>1. CASE BatchApply(p)
      <4>1. s.rec \in Recs /\ ApplyAmount(s) \in Int /\ ApplyKey(s) \in Keys
        BY <1>00, <3>1, AmountTypes DEF BatchApply
      <4>2. Movement(s.rec, "pending", ApplyAmount(s), "application", ApplyKey(s)) \in TxRow
        BY <4>1, MovementType DEF Actions
      <4> QED BY <3>1, <4>2, BookType DEF BatchApply
    <3>2. CASE BatchReplay(p)
      BY <3>2, <1>t DEF BatchReplay
    <3> QED BY <1>9, <3>1, <3>2
  <2> HIDE DEF new
  <2> QED BY <2>1, <2>2, <2>3, <2>4, StepSession
<1>10. CASE CommitAll(p)
  <2>1. tx' \in [TxIds -> TxRow]
    BY <1>10, PostedType DEF CommitAll, Pending
  <2>2. \A r \in Recs : Row(r, Amount[r], TRUE) \in RecRow
    <3> TAKE r \in Recs
    <3>1. Amount[r] \in Int /\ TRUE \in BOOLEAN
      BY ConstantTypes
    <3> QED BY <3>1, RowType
  <2>3. rec' \in [Recs -> RecRow]
    BY <1>10, <1>t, <2>2 DEF CommitAll
  <2> QED BY <1>10, <2>1, <2>3, EndTypeInv DEF CommitAll
<1> QED
  BY <1>1, <1>2, <1>3, <1>4, <1>5, <1>6, <1>7, <1>8, <1>9, <1>10 DEF Proceeds

\* Close transitions and the rest of the ledger.
LEMMA OthersType ==
  ASSUME TypeInv,
         \/ \E c \in Closes : FinalizeClose(c) \/ LockClose(c)
         \/ \E rt \in Routes, a \in Amounts : PostTransfer(rt, a)
         \/ \E t \in TxIds : DeleteTransfer(t)
  PROVE  TypeInv'
<1>1. CASE \E c \in Closes : FinalizeClose(c) \/ LockClose(c)
  <2>1. close' \in [Closes -> CloseStatuses]
    BY <1>1 DEF FinalizeClose, LockClose, TypeInv, TypeOK, CloseStatuses
  <2>2. rec' \in [Recs -> RecRow]
    <3>1. NewRow \in RecRow /\ rec \in [Recs -> RecRow]
      BY DEF NewRow, RecRow, RecStatuses, TypeInv, TypeOK
    <3>2. CASE \E c \in Closes : FinalizeClose(c)
      BY <3>1, <3>2 DEF FinalizeClose
    <3>3. CASE \E c \in Closes : LockClose(c)
      BY <3>1, <3>3 DEF LockClose
    <3> QED BY <1>1, <3>2, <3>3
  <2>3. tx' = tx /\ sess' = sess
    BY <1>1 DEF FinalizeClose, LockClose
  <2> QED BY <2>1, <2>2, <2>3 DEF TypeInv, TypeOK
<1>2. CASE \E rt \in Routes, a \in Amounts : PostTransfer(rt, a)
  <2>1. PICK rt \in Routes, a \in Amounts : PostTransfer(rt, a)
    BY <1>2
  <2>2. [NoTxRow EXCEPT !.status = "posted", !.route = rt, !.amount = a] \in TxRow
    <3>1. rt \in Routes /\ a \in Int
      BY ConstantsAssumption
    <3> QED BY <3>1, NoTxRowType DEF TxRow
  <2>3. tx' \in [TxIds -> TxRow]
    BY <2>1, <2>2, BookType DEF PostTransfer
  <2> QED BY <2>1, <2>3 DEF PostTransfer, TypeInv, TypeOK
<1>3. CASE \E t \in TxIds : DeleteTransfer(t)
  BY <1>3 DEF DeleteTransfer, TypeInv, TypeOK, TxRow
<1> QED
  BY <1>1, <1>2, <1>3

LEMMA InitType == Init => TypeInv
BY IdleType, IdleWorks, NoTxRowType
   DEF Init, TypeInv, TypeOK, CloseStatuses, RecRow, RecStatuses, AbsentRow

LEMMA NextType == TypeInv /\ [Next]_vars => TypeInv'
<1> SUFFICES ASSUME TypeInv, [Next]_vars PROVE TypeInv'
  OBVIOUS
<1>1. CASE \E p \in Procs : Arrives(p) \/ Waits(p) \/ Proceeds(p)
  BY <1>1, ArrivesType, WaitsType, ProceedsType
<1>2. CASE UNCHANGED vars
  BY <1>2 DEF vars, TypeInv, TypeOK, WorkingSession
<1> QED
  BY <1>1, <1>2, OthersType DEF Next

\* The rows, the ledger and the requests in progress keep their types, whatever
\* requests are interleaved: no amount, key or link is ever malformed.
THEOREM TypeCorrect == Spec => []TypeOK
<1>1. Spec => []TypeInv
  BY InitType, NextType, PTL DEF Spec
<1> QED
  BY <1>1, PTL DEF TypeInv

-----------------------------------------------------------------------------
(* The invariant behind the safety properties *)

\* What a request knows is still so: the row it locked is as it read it, it read
\* the close as finalized, and apply-all and reopen keep the closes they locked
\* from changing.
Agrees(s) ==
  /\ s.pc \in {"idle", "select", "reopen"} /\ s.op # "apply_all" => s.held = {}
  /\ s.op \notin {"apply_all", "reopen"} => s.closes = {}
  /\ s.pc \in {"locked", "candidate"} =>
       /\ s.rec \in s.held
       /\ s.applied = rec[s.rec].applied /\ s.accepted = rec[s.rec].accepted
       /\ s.seen = "finalized"
  /\ s.pc = "candidate" => 0 <= s.want /\ s.want <= Remaining(s.rec, s.applied)
  /\ s.pc = "batch" => s.op = "apply_all"
  /\ s.op = "apply_all" => /\ \A r \in s.held \cup s.todo : CloseOf[r] \in s.closes
                           /\ s.pc \in {"select", "locked"} => CloseOf[s.rec] \in s.closes
                           /\ \A c \in s.closes : close[c] = "finalized"
  /\ s.pc = "reopen" <=> s.op = "reopen"
  /\ s.op = "reopen" => \A c \in s.closes : close[c] # "locked"

\* Row locks are exclusive, and a locked row can be neither deleted nor cancelled.
RowLocks ==
  /\ \A p, q \in Procs : p # q => sess[p].held \cap sess[q].held = {}
  /\ \A p \in Procs : \A r \in sess[p].held : Live(r) /\ rec[r].status # "cancelled"

CloseLocks == \A p, q \in Procs : p # q => sess[p].closes \cap sess[q].closes = {}

SessionsAgree == \A p \in Procs : Agrees(sess[p])

RowsHaveClose == \A r \in Recs : Live(r) => close[CloseOf[r]] # "draft"

LedgerPositive == \A t \in TxIds : tx[t].amount >= 0

IInv == /\ RowLocks /\ CloseLocks /\ SessionsAgree /\ RowsHaveClose /\ LedgerPositive
        /\ StatusAgrees /\ HistoryKept

LEMMA InitInv == Init => IInv
<1> SUFFICES ASSUME Init PROVE IInv
  OBVIOUS
<1>1. \A r \in Recs : ~Live(r)
  BY DEF Init, Live, AbsentRow
<1>2. \A p \in Procs : sess[p] = Idle
  BY DEF Init
<1>3. \A t \in TxIds : tx[t].status = "none" /\ tx[t].amount = 0
  BY DEF Init, NoTxRow
<1>4. Agrees(Idle)
  BY DEF Agrees, Idle
<1> QED
  BY <1>1, <1>2, <1>3, <1>4
     DEF IInv, RowLocks, CloseLocks, SessionsAgree, RowsHaveClose, LedgerPositive,
         StatusAgrees, HistoryKept, LinkedTo, Idle

\* A step that only moves one session: it may lock rows and closes that are free.
LEMMA StepInv ==
  ASSUME TypeInv, IInv, NEW p \in Procs, NEW new \in Session,
         sess' = [sess EXCEPT ![p] = new], close' = close, rec' = rec,
         Agrees(new),
         \A r \in new.held : \/ r \in sess[p].held
                             \/ RowFree(r) /\ Live(r) /\ rec[r].status # "cancelled",
         \A c \in new.closes : c \in sess[p].closes \/ CloseFree(c),
         \A r \in Recs : LinkedTo(r)' = LinkedTo(r),
         \A t \in TxIds : tx'[t].amount >= 0
  PROVE  IInv'
<1>0. sess \in [Procs -> Session] /\ sess'[p] = new /\ \A q \in Procs \ {p} : sess'[q] = sess[q]
  BY DEF TypeInv, TypeOK
<1>1. RowLocks'
  BY <1>0 DEF IInv, RowLocks, RowFree, Live
<1>2. CloseLocks'
  BY <1>0 DEF IInv, CloseLocks, CloseFree
<1>3. SessionsAgree'
  <2>1. \A q \in Procs : Agrees(sess'[q])
    BY <1>0 DEF IInv, SessionsAgree
  <2> QED BY <2>1 DEF SessionsAgree, Agrees, Remaining
<1>4. RowsHaveClose' /\ LedgerPositive' /\ StatusAgrees' /\ HistoryKept'
  BY DEF IInv, RowsHaveClose, LedgerPositive, StatusAgrees, HistoryKept, Live
<1> QED
  BY <1>1, <1>2, <1>3, <1>4 DEF IInv

\* A request that ends: it saved nothing but rows it had locked, and whatever it
\* linked is linked to one of them.
LEMMA EndInv ==
  ASSUME TypeInv, IInv, NEW p \in Procs, End(p), close' = close,
         \A r \in Recs \ sess[p].held : rec'[r] = rec[r],
         \A r \in sess[p].held : /\ Live(r)'
                                 /\ rec'[r].applied \in 0..Amount[r]
                                 /\ IF rec'[r].status = "cancelled" THEN rec'[r].applied = 0
                                    ELSE rec'[r].status =
                                           StatusFor(Amount[r], rec'[r].applied, rec'[r].accepted),
         \A r \in Recs \ sess[p].held : LinkedTo(r)' \subseteq LinkedTo(r),
         \A t \in TxIds : tx'[t].amount >= 0
  PROVE  IInv'
<1>0. /\ sess \in [Procs -> Session] /\ sess'[p] = Idle
      /\ \A q \in Procs \ {p} : sess'[q] = sess[q]
      /\ \A q \in Procs : sess[q].held \subseteq Recs
  BY SessionFields DEF TypeInv, TypeOK, End
<1>00. Idle.held = {} /\ Idle.closes = {} /\ Idle.todo = {} /\ Idle.pc = "idle" /\ Idle.op = "none"
  BY DEF Idle
<1>1. \A q \in Procs \ {p} : \A r \in sess[q].held : rec'[r] = rec[r]
  BY <1>0 DEF IInv, RowLocks
<1>2. \A r \in Recs : Live(r)' => Live(r)
  BY DEF IInv, RowLocks, Live
<1>3. RowLocks'
  BY <1>0, <1>00, <1>1 DEF IInv, RowLocks, Live
<1>4. CloseLocks'
  BY <1>0, <1>00 DEF IInv, CloseLocks
<1>5. SessionsAgree'
  <2>1. SUFFICES ASSUME NEW q \in Procs PROVE Agrees(sess[q])'
    BY DEF SessionsAgree
  <2>2. CASE q = p
    BY <1>0, <1>00, <2>2 DEF Agrees
  <2>3. CASE q # p
    <3>1. Agrees(sess[q]) /\ sess'[q] = sess[q]
      BY <1>0, <2>3 DEF IInv, SessionsAgree
    <3>2. sess[q].pc \in {"locked", "candidate"} => rec'[sess[q].rec] = rec[sess[q].rec]
      BY <1>1, <2>3, <3>1 DEF Agrees
    <3> QED BY <3>1, <3>2 DEF Agrees, Remaining
  <2> QED BY <2>2, <2>3
<1>6. RowsHaveClose'
  BY <1>2 DEF IInv, RowsHaveClose
<1>7. StatusAgrees'
  BY DEF IInv, StatusAgrees, Live
<1>8. HistoryKept'
  <2>1. SUFFICES ASSUME NEW r \in Recs, LinkedTo(r)' # {}
                 PROVE  Live(r)' /\ close'[CloseOf[r]] # "draft"
    BY DEF HistoryKept
  <2>2. CASE r \in sess[p].held
    BY <1>2, <1>0, <2>2 DEF IInv, RowsHaveClose
  <2>3. CASE r \notin sess[p].held
    BY <2>1, <2>3 DEF IInv, HistoryKept, Live
  <2> QED BY <2>2, <2>3
<1> QED
  BY <1>3, <1>4, <1>5, <1>6, <1>7, <1>8 DEF IInv, LedgerPositive

\* A movement is linked to its recommendation and to no other.
LEMMA BookLinks ==
  ASSUME TypeInv, NEW row \in TxRow, Book(row)
  PROVE  /\ \A r \in Recs : LinkedTo(r)' \subseteq LinkedTo(r) \/ (row.link = r /\ row.status = "posted")
         /\ row.status = "pending" => \A r \in Recs : LinkedTo(r)' = LinkedTo(r)
         /\ \A r \in Recs : LinkedTo(r) \subseteq LinkedTo(r)'
         /\ \A t \in TxIds : tx'[t] = tx[t] \/ tx'[t] = row
BY DEF Book, NextTx, LinkedTo, TypeInv, TypeOK

\* The row a request has locked is the one it read.
LEMMA LockedFacts ==
  ASSUME TypeInv, IInv, NEW p \in Procs, sess[p].pc \in {"locked", "candidate"}
  PROVE  /\ sess[p].rec \in Recs /\ sess[p].rec \in sess[p].held
         /\ Live(sess[p].rec) /\ rec[sess[p].rec].status # "cancelled"
         /\ sess[p].applied = rec[sess[p].rec].applied
         /\ sess[p].accepted = rec[sess[p].rec].accepted
         /\ sess[p].seen = "finalized"
         /\ Amount[sess[p].rec] \in Nat /\ Amount[sess[p].rec] > 0
         /\ sess[p].applied \in 0..Amount[sess[p].rec]
         /\ sess[p].accepted \in BOOLEAN
<1>1. sess[p].rec \in Recs /\ sess[p].accepted \in BOOLEAN
  BY SessionFields DEF NamesRow
<1>2. Agrees(sess[p])
  BY DEF IInv, SessionsAgree
<1>3. sess[p].rec \in sess[p].held
  BY <1>2 DEF Agrees
<1>4. Live(sess[p].rec) /\ rec[sess[p].rec].status # "cancelled"
  BY <1>3 DEF IInv, RowLocks
<1> QED
  BY <1>1, <1>2, <1>3, <1>4, ConstantTypes DEF Agrees, IInv, StatusAgrees

\* Saving the row a request has locked, with an amount within the recommendation.
LEMMA SaveRow ==
  ASSUME TypeInv, IInv, NEW p \in Procs, sess[p].pc \in {"locked", "candidate"},
         End(p), close' = close,
         NEW applied \in 0..Amount[sess[p].rec], NEW accepted \in BOOLEAN,
         rec' = [rec EXCEPT ![sess[p].rec] = Row(sess[p].rec, applied, accepted)],
         \A r \in Recs \ {sess[p].rec} : LinkedTo(r)' \subseteq LinkedTo(r),
         \A t \in TxIds : tx'[t].amount >= 0
  PROVE  IInv'
<1> DEFINE q == sess[p].rec
<1>1. q \in Recs /\ q \in sess[p].held /\ sess[p].held \subseteq Recs /\ applied \in Int
  BY LockedFacts, SessionFields
<1>2. rec'[q] = Row(q, applied, accepted) /\ \A r \in Recs \ {q} : rec'[r] = rec[r]
  BY <1>1 DEF TypeInv, TypeOK
<1>3. /\ rec'[q].applied = applied /\ rec'[q].accepted = accepted
      /\ rec'[q].status = StatusFor(Amount[q], applied, accepted)
      /\ rec'[q].status \in {"recommended", "accepted", "applied", "partially_applied"}
  BY <1>1, <1>2, RowType DEF Row
<1>4. \A r \in sess[p].held \ {q} :
        /\ Live(r) /\ rec[r].applied \in 0..Amount[r]
        /\ IF rec[r].status = "cancelled" THEN rec[r].applied = 0
           ELSE rec[r].status = StatusFor(Amount[r], rec[r].applied, rec[r].accepted)
  BY <1>1 DEF IInv, RowLocks, StatusAgrees
<1>5. \A r \in sess[p].held :
        /\ Live(r)' /\ rec'[r].applied \in 0..Amount[r]
        /\ IF rec'[r].status = "cancelled" THEN rec'[r].applied = 0
           ELSE rec'[r].status = StatusFor(Amount[r], rec'[r].applied, rec'[r].accepted)
  BY <1>1, <1>2, <1>3, <1>4 DEF Live
<1> QED
  BY <1>1, <1>2, <1>5, EndInv

LEMMA ArrivesInv ==
  ASSUME TypeInv, IInv, NEW p \in Procs, Arrives(p)
  PROVE  IInv'
<1>1. /\ Idle.held = {} /\ Idle.closes = {} /\ Idle.pc = "idle" /\ Idle.op = "none"
      /\ Idle \in Session
  BY IdleType DEF Idle
<1>2. ASSUME NEW op \in Ops \ {"apply_all", "reopen"}, NEW r \in Recs, NEW want, NEW key,
             NEW t, Request(p, op, r, want, key, t), want \in Int, key \in SentKeys,
             t \in TxIds \cup {NoTx}, op = "reconcile" => t \in TxIds
      PROVE  IInv'
  <2> DEFINE new == [Idle EXCEPT !.pc = "select", !.op = op, !.rec = r,
                       !.seen = close[CloseOf[r]], !.want = want, !.key = key, !.tx = t]
  <2>1. TypeInv'
    BY <1>2, RequestType
  <2>2. sess' = [sess EXCEPT ![p] = new] /\ UNCHANGED <<close, rec, tx>>
    BY <1>2 DEF Request
  <2>3. new.held = {} /\ new.closes = {} /\ new.pc = "select" /\ new.op = op
    BY <1>1 DEF Session
  <2> HIDE DEF new
  <2>4. new \in Session
    BY <2>1, <2>2 DEF TypeInv, TypeOK
  <2>5. Agrees(new)
    BY <1>2, <2>3 DEF Agrees
  <2>6. \A q \in Recs : LinkedTo(q)' = LinkedTo(q)
    BY <2>2 DEF LinkedTo
  <2> QED
    BY <2>2, <2>3, <2>4, <2>5, <2>6, StepInv DEF IInv, LedgerPositive
<1>3. Blank \in SentKeys /\ 0 \in Int /\ \A a \in {0} \cup Amounts : a \in Int
  BY ConstantsAssumption DEF SentKeys
<1>4. CASE RequestAccept(p) \/ RequestCancel(p)
  BY <1>2, <1>3, <1>4 DEF RequestAccept, RequestCancel, Ops
<1>5. CASE RequestApply(p) \/ RequestReverse(p)
  BY <1>2, <1>3, <1>5 DEF RequestApply, RequestReverse, Ops
<1>6. CASE RequestReconcile(p)
  BY <1>2, <1>3, <1>6 DEF RequestReconcile, Ops
<1>7. CASE StartApplyAll(p)
  <2> DEFINE todo(c) == {r \in RecsOf({c}) : rec[r].status # "cancelled"}
             new(c) == [Idle EXCEPT !.pc = "batch", !.op = "apply_all", !.closes = {c},
                          !.todo = todo(c)]
  <2>1. PICK c \in Closes : /\ sess' = [sess EXCEPT ![p] = new(c)]
                            /\ CloseFree(c) /\ close[c] = "finalized"
    BY <1>7 DEF StartApplyAll
  <2>2. \A r \in todo(c) : CloseOf[r] \in {c}
    BY DEF RecsOf
  <2>3. /\ new(c).held = {} /\ new(c).closes = {c} /\ new(c).pc = "batch"
        /\ new(c).op = "apply_all" /\ new(c).todo = todo(c)
    BY <1>1 DEF Session
  <2> HIDE DEF new, todo
  <2>4. UNCHANGED <<close, rec, tx>> /\ TypeInv'
    BY <1>7, ArrivesType DEF StartApplyAll
  <2>5. new(c) \in Session
    BY <2>1, <2>4 DEF TypeInv, TypeOK
  <2>6. Agrees(new(c))
    BY <2>1, <2>2, <2>3 DEF Agrees
  <2>7. \A q \in Recs : LinkedTo(q)' = LinkedTo(q)
    BY <2>4 DEF LinkedTo
  <2> QED
    BY <2>1, <2>3, <2>4, <2>5, <2>6, <2>7, StepInv DEF IInv, LedgerPositive
<1>8. CASE ReopenCheck(p)
  <2> DEFINE new(cs) == [Idle EXCEPT !.pc = "reopen", !.op = "reopen", !.closes = cs]
  <2>1. PICK c \in Closes :
          /\ sess' = [sess EXCEPT ![p] = new(ReopenTargets(c))]
          /\ \A d \in ReopenTargets(c) : CloseFree(d) /\ close[d] # "locked"
    BY <1>8 DEF ReopenCheck
  <2>2. \A cs : /\ new(cs).held = {} /\ new(cs).closes = cs /\ new(cs).pc = "reopen"
                /\ new(cs).op = "reopen"
    BY <1>1 DEF Session
  <2> HIDE DEF new
  <2> DEFINE n == new(ReopenTargets(c))
  <2>3. UNCHANGED <<close, rec, tx>> /\ TypeInv'
    BY <1>8, ArrivesType DEF ReopenCheck
  <2>4. n \in Session
    BY <2>1, <2>3 DEF TypeInv, TypeOK
  <2>5. n.held = {} /\ n.closes = ReopenTargets(c) /\ Agrees(n)
    BY <2>1, <2>2 DEF Agrees
  <2> HIDE DEF n
  <2>6. sess' = [sess EXCEPT ![p] = n]
    BY <2>1 DEF n
  <2>7. \A q \in Recs : LinkedTo(q)' = LinkedTo(q)
    BY <2>3 DEF LinkedTo
  <2>8. /\ \A d \in n.closes : CloseFree(d)
        /\ \A t \in TxIds : tx'[t].amount >= 0
        /\ close' = close /\ rec' = rec
    BY <2>1, <2>3, <2>5 DEF IInv, LedgerPositive
  <2> QED
    BY <2>4, <2>5, <2>6, <2>7, <2>8, StepInv
<1> QED
  BY <1>4, <1>5, <1>6, <1>7, <1>8 DEF Arrives

LEMMA WaitsInv ==
  ASSUME TypeInv, IInv, NEW p \in Procs, Waits(p)
  PROVE  IInv'
<1> DEFINE s == sess[p]
<1>0. /\ s \in Session /\ NamesRow(s) /\ Agrees(s) /\ s.held \subseteq Recs
      /\ sess \in [Procs -> Session] /\ rec \in [Recs -> RecRow]
      /\ tx \in [TxIds -> TxRow] /\ close \in [Closes -> CloseStatuses]
  BY SessionFields DEF IInv, SessionsAgree, TypeInv, TypeOK
<1>1. CASE LockRow(p)
  <2> DEFINE new == [s EXCEPT !.pc = "locked", !.held = @ \cup {s.rec},
                       !.applied = rec[s.rec].applied, !.accepted = rec[s.rec].accepted]
  <2>1. /\ s.pc = "select" /\ s.rec \in Recs /\ RowFree(s.rec) /\ Validated(s)
        /\ sess' = [sess EXCEPT ![p] = new] /\ close' = close /\ rec' = rec /\ tx' = tx
    BY <1>0, <1>1 DEF LockRow, NamesRow
  <2>2. new \in Session
    BY <1>0, <2>1 DEF Session, RecRow
  <2>3. /\ new.pc = "locked" /\ new.held = s.held \cup {s.rec} /\ new.rec = s.rec
        /\ new.applied = rec[s.rec].applied /\ new.accepted = rec[s.rec].accepted
        /\ new.seen = s.seen /\ new.closes = s.closes /\ new.op = s.op /\ new.todo = s.todo
    BY <1>0 DEF Session
  <2> HIDE DEF new
  <2>4. Agrees(new)
    BY <1>0, <2>1, <2>3 DEF Agrees, Validated
  <2>5. \A r \in Recs : LinkedTo(r)' = LinkedTo(r)
    BY <2>1 DEF LinkedTo
  <2>6. \A r \in new.held : r \in s.held \/ (RowFree(r) /\ Live(r) /\ rec[r].status # "cancelled")
    BY <2>1, <2>3 DEF Validated
  <2>7. \A t \in TxIds : tx'[t].amount >= 0
    BY <2>1 DEF IInv, LedgerPositive
  <2> QED BY <2>1, <2>2, <2>3, <2>4, <2>5, <2>6, <2>7, StepInv
<1>2. CASE ReopenCommit(p)
  <2>1. /\ s.pc = "reopen" /\ End(p) /\ tx' = tx
        /\ \A r \in RecsOf(s.closes) : RowFree(r)
        /\ ~Linked(s.closes)
        /\ rec' = [r \in Recs |-> IF r \in RecsOf(s.closes) THEN DeletedRow ELSE rec[r]]
        /\ close' = [c \in Closes |-> IF c \in s.closes THEN "draft" ELSE close[c]]
    BY <1>2 DEF ReopenCommit
  <2>2. /\ sess'[p] = Idle /\ \A q \in Procs \ {p} : sess'[q] = sess[q]
        /\ Idle.held = {} /\ Idle.closes = {} /\ Idle.todo = {}
        /\ Idle.pc = "idle" /\ Idle.op = "none"
    BY <1>0, <2>1 DEF End, Idle
  <2>3. \A q \in Procs : \A r \in sess[q].held : r \in Recs /\ rec'[r] = rec[r]
    BY <2>1, SessionFields DEF RowFree
  <2>4. \A q \in Procs \ {p} : \A c \in sess[q].closes : c \in Closes /\ close'[c] = close[c]
    BY <2>1, SessionFields DEF IInv, CloseLocks
  <2>5. \A r \in Recs : Live(r)' => rec'[r] = rec[r] /\ Live(r) /\ CloseOf[r] \notin s.closes
    BY <2>1 DEF Live, DeletedRow, RecsOf
  <2>6. RowLocks'
    BY <2>2, <2>3 DEF IInv, RowLocks, Live
  <2>7. CloseLocks'
    BY <2>2 DEF IInv, CloseLocks
  <2>8. SessionsAgree'
    <3>1. SUFFICES ASSUME NEW q \in Procs PROVE Agrees(sess[q])'
      BY DEF SessionsAgree
    <3>2. CASE q = p
      BY <2>2, <3>2 DEF Agrees
    <3>3. CASE q # p
      <4>1. Agrees(sess[q]) /\ sess'[q] = sess[q]
        BY <2>2, <3>3 DEF IInv, SessionsAgree
      <4>2. sess[q].pc \in {"locked", "candidate"} => rec'[sess[q].rec] = rec[sess[q].rec]
        BY <2>3, <4>1 DEF Agrees
      <4>3. \A c \in sess[q].closes : close'[c] = close[c]
        BY <2>4, <3>3
      <4> QED BY <4>1, <4>2, <4>3 DEF Agrees, Remaining
    <3> QED BY <3>2, <3>3
  <2>9. RowsHaveClose'
    BY <1>0, <2>1, <2>5, ConstantTypes DEF IInv, RowsHaveClose
  <2>10. LedgerPositive' /\ StatusAgrees'
    BY <2>1, <2>5 DEF IInv, LedgerPositive, StatusAgrees
  <2>11. HistoryKept'
    <3>1. SUFFICES ASSUME NEW r \in Recs, LinkedTo(r) # {}
                   PROVE  Live(r)' /\ close'[CloseOf[r]] # "draft"
      BY <2>1 DEF HistoryKept, LinkedTo
    <3>2. r \notin RecsOf(s.closes) /\ Live(r)
      BY <2>1, <3>1 DEF Linked, IInv, HistoryKept
    <3>3. CloseOf[r] \in Closes /\ CloseOf[r] \notin s.closes
      BY <3>2, ConstantTypes DEF RecsOf
    <3> QED BY <2>1, <3>1, <3>2, <3>3 DEF IInv, HistoryKept, Live
  <2> QED BY <2>6, <2>7, <2>8, <2>9, <2>10, <2>11 DEF IInv
<1>3. CASE Fail(p)
  <2>1. /\ End(p) /\ close' = close /\ rec' = rec
        /\ tx' = [t \in TxIds |-> IF t \in Pending(p) THEN NoTxRow ELSE tx[t]]
    BY <1>3 DEF Fail
  <2>2. \A r \in Recs : LinkedTo(r)' \subseteq LinkedTo(r)
    BY <2>1 DEF LinkedTo, NoTxRow
  <2>3. \A t \in TxIds : tx'[t].amount >= 0
    BY <2>1 DEF IInv, LedgerPositive, NoTxRow
  <2>4. \A r \in s.held : /\ Live(r)' /\ rec'[r].applied \in 0..Amount[r]
                          /\ rec[r].status # "cancelled"
                          /\ rec'[r].status = StatusFor(Amount[r], rec'[r].applied, rec'[r].accepted)
    BY <1>0, <2>1 DEF IInv, RowLocks, StatusAgrees, Live
  <2> QED BY <2>1, <2>2, <2>3, <2>4, EndInv
<1> QED
  BY <1>1, <1>2, <1>3 DEF Waits

LEMMA ProceedsInv ==
  ASSUME TypeInv, IInv, NEW p \in Procs, Proceeds(p)
  PROVE  IInv'
<1> DEFINE s == sess[p]
<1>0. /\ s \in Session /\ NamesRow(s) /\ Agrees(s) /\ s.held \subseteq Recs /\ s.todo \subseteq Recs
      /\ sess \in [Procs -> Session] /\ rec \in [Recs -> RecRow]
      /\ tx \in [TxIds -> TxRow] /\ s.want \in Int
      /\ \A t \in TxIds : tx[t].amount >= 0
  BY SessionFields DEF IInv, SessionsAgree, TypeInv, TypeOK, LedgerPositive
<1>1. CASE Accept(p)
  <2>1. \A r \in Recs : LinkedTo(r)' = LinkedTo(r)
    BY <1>1 DEF Accept, LinkedTo
  <2>2. s.pc = "locked" /\ tx' = tx /\ End(p) /\ close' = close
        /\ rec' = [rec EXCEPT ![s.rec] = Row(s.rec, s.applied, TRUE)]
    BY <1>1 DEF Accept
  <2> QED BY <1>0, <2>1, <2>2, LockedFacts, SaveRow
<1>2. CASE Cancel(p)
  <2>1. /\ s.pc = "locked" /\ s.applied = 0 /\ tx' = tx /\ End(p) /\ close' = close
        /\ rec' = [rec EXCEPT ![s.rec].status = "cancelled"]
    BY <1>2 DEF Cancel
  <2>2. /\ s.rec \in Recs /\ s.rec \in s.held /\ rec[s.rec].applied = 0
        /\ Amount[s.rec] \in Nat
    BY <2>1, LockedFacts
  <2>3. /\ rec'[s.rec].status = "cancelled" /\ rec'[s.rec].applied = 0
        /\ \A r \in Recs \ {s.rec} : rec'[r] = rec[r]
    BY <1>0, <2>1, <2>2 DEF RecRow
  <2>4. \A r \in s.held : /\ Live(r)' /\ rec'[r].applied \in 0..Amount[r]
                          /\ IF rec'[r].status = "cancelled" THEN rec'[r].applied = 0
                             ELSE rec'[r].status =
                                    StatusFor(Amount[r], rec'[r].applied, rec'[r].accepted)
    BY <1>0, <2>2, <2>3 DEF IInv, RowLocks, StatusAgrees, Live
  <2>5. \A r \in Recs : LinkedTo(r)' = LinkedTo(r)
    BY <2>1 DEF LinkedTo
  <2> QED BY <1>0, <2>1, <2>2, <2>3, <2>4, <2>5, EndInv
<1>3. CASE Apply(p)
  <2> DEFINE a == ApplyAmount(s)
             row == Movement(s.rec, "posted", a, "application", ApplyKey(s))
  <2>1. /\ s.pc = "locked" /\ CanApply(s) /\ Book(row) /\ End(p) /\ close' = close
        /\ rec' = [rec EXCEPT ![s.rec] = Row(s.rec, s.applied + a, TRUE)]
    BY <1>3 DEF Apply
  <2>2. s.rec \in Recs /\ a \in Int /\ ApplyKey(s) \in Keys
    BY <2>1, LockedFacts, AmountTypes
  <2>3. a > 0 /\ s.applied + a \in 0..Amount[s.rec]
    BY <2>1, <2>2, LockedFacts DEF CanApply, Remaining
  <2>4. row \in TxRow /\ row.link = s.rec /\ row.amount = a
    BY <2>2, MovementType DEF Actions, Movement
  <2>5. \A r \in Recs \ {s.rec} : LinkedTo(r)' \subseteq LinkedTo(r)
    BY <2>1, <2>4, BookLinks
  <2>6. \A t \in TxIds : tx'[t].amount >= 0
    <3>1. \A t \in TxIds : tx'[t] = tx[t] \/ tx'[t] = row
      BY <2>1, <2>4, BookLinks
    <3>2. row.amount >= 0
      BY <2>2, <2>3, <2>4
    <3> HIDE DEF row
    <3> QED BY <1>0, <3>1, <3>2
  <2> HIDE DEF a, row
  <2> QED BY <2>1, <2>3, <2>5, <2>6, SaveRow
<1>4. CASE Reverse(p)
  <2> DEFINE a == ReverseAmount(s)
             row == Movement(s.rec, "posted", a, "reversal", ReverseKey(s))
  <2>1. /\ s.pc = "locked" /\ CanReverse(s) /\ Book(row) /\ End(p) /\ close' = close
        /\ rec' = [rec EXCEPT ![s.rec] = Row(s.rec, s.applied - a, s.accepted)]
    BY <1>4 DEF Reverse
  <2>2. s.rec \in Recs /\ a \in Int /\ ReverseKey(s) \in Keys
    BY <2>1, LockedFacts, AmountTypes
  <2>3. a > 0 /\ s.applied - a \in 0..Amount[s.rec] /\ s.accepted \in BOOLEAN
    BY <2>1, <2>2, LockedFacts DEF CanReverse
  <2>4. row \in TxRow /\ row.link = s.rec /\ row.amount = a
    BY <2>2, MovementType DEF Actions, Movement
  <2>5. \A r \in Recs \ {s.rec} : LinkedTo(r)' \subseteq LinkedTo(r)
    BY <2>1, <2>4, BookLinks
  <2>6. \A t \in TxIds : tx'[t].amount >= 0
    <3>1. \A t \in TxIds : tx'[t] = tx[t] \/ tx'[t] = row
      BY <2>1, <2>4, BookLinks
    <3>2. row.amount >= 0
      BY <2>2, <2>3, <2>4
    <3> HIDE DEF row
    <3> QED BY <1>0, <3>1, <3>2
  <2> HIDE DEF a, row
  <2> QED BY <2>1, <2>3, <2>5, <2>6, SaveRow
<1>5. CASE ReadCandidates(p)
  <2> DEFINE a == tx[s.tx].amount
             new == [s EXCEPT !.pc = "candidate", !.want = a]
  <2>1. /\ s.pc = "locked" /\ s.op = "reconcile" /\ IsCandidate(s.tx, s.rec, s.applied)
        /\ sess' = [sess EXCEPT ![p] = new] /\ close' = close /\ rec' = rec /\ tx' = tx
    BY <1>5 DEF ReadCandidates
  <2>2. s.tx \in TxIds /\ a \in Int /\ 0 <= a /\ a <= Remaining(s.rec, s.applied)
    BY <1>0, <2>1 DEF NamesRow, TxRow, IsCandidate
  <2>3. /\ new.pc = "candidate" /\ new.want = a /\ new.held = s.held /\ new.rec = s.rec
        /\ new.applied = s.applied /\ new.accepted = s.accepted /\ new.seen = s.seen
        /\ new.closes = s.closes /\ new.op = s.op /\ new.todo = s.todo
    BY <1>0 DEF Session
  <2>4. new \in Session
    BY <1>0, <2>2 DEF Session
  <2> HIDE DEF new, a
  <2>5. Agrees(new)
    BY <1>0, <2>1, <2>2, <2>3 DEF Agrees
  <2>6. \A r \in Recs : LinkedTo(r)' = LinkedTo(r)
    BY <2>1 DEF LinkedTo
  <2> QED BY <1>0, <2>1, <2>3, <2>4, <2>5, <2>6, StepInv
<1>6. CASE Reconcile(p)
  <2> DEFINE sum == s.applied + s.want
  <2>1. /\ s.pc = "candidate" /\ End(p) /\ close' = close
        /\ tx[s.tx].status = "posted"
        /\ tx' = [tx EXCEPT ![s.tx] = [tx[s.tx] EXCEPT !.link = s.rec,
                    !.action = "reconciliation", !.key = ReconcileKey(s.rec, s.tx),
                    !.credit = s.want]]
        /\ rec' = [rec EXCEPT ![s.rec] = Row(s.rec, sum, TRUE)]
    BY <1>6 DEF Reconcile
  <2>2. s.rec \in Recs /\ s.tx \in TxIds
    BY <1>0, <2>1 DEF NamesRow
  <2>3. sum \in 0..Amount[s.rec]
    BY <1>0, <2>1, LockedFacts DEF Agrees, Remaining
  <2>4. /\ tx'[s.tx].link = s.rec /\ tx'[s.tx].amount = tx[s.tx].amount
        /\ \A t \in TxIds \ {s.tx} : tx'[t] = tx[t]
    BY <1>0, <2>1, <2>2 DEF TxRow
  <2>5. \A r \in Recs \ {s.rec} : LinkedTo(r)' \subseteq LinkedTo(r)
    BY <2>4 DEF LinkedTo
  <2>6. \A t \in TxIds : tx'[t].amount >= 0
    BY <1>0, <2>2, <2>4
  <2> HIDE DEF sum
  <2> QED BY <2>1, <2>3, <2>5, <2>6, SaveRow
<1>7. CASE BatchSkip(p)
  <2> DEFINE new(S) == [s EXCEPT !.todo = S]
  <2>1. PICK r \in s.todo : /\ s.pc = "batch" /\ sess' = [sess EXCEPT ![p] = new(s.todo \ {r})]
                            /\ close' = close /\ rec' = rec /\ tx' = tx
    BY <1>7 DEF BatchSkip
  <2>2. \A S \in SUBSET Recs :
          /\ new(S) \in Session /\ new(S).pc = s.pc /\ new(S).held = s.held
          /\ new(S).closes = s.closes /\ new(S).op = s.op /\ new(S).todo = S
    BY <1>0 DEF Session
  <2> HIDE DEF new
  <2>3. Agrees(new(s.todo \ {r}))
    BY <1>0, <2>1, <2>2 DEF Agrees
  <2>4. \A q \in Recs : LinkedTo(q)' = LinkedTo(q)
    BY <2>1 DEF LinkedTo
  <2>5. s.todo \ {r} \in SUBSET Recs
    BY <1>0 DEF Session
  <2>6. PICK t : /\ t = new(s.todo \ {r}) /\ t \in Session /\ t.pc = s.pc /\ t.held = s.held
                 /\ t.closes = s.closes /\ t.op = s.op /\ t.todo = s.todo \ {r}
    BY <2>2, <2>5
  <2>7. sess' = [sess EXCEPT ![p] = t] /\ Agrees(t)
    BY <2>1, <2>3, <2>6
  <2>8. \A i \in TxIds : tx'[i].amount >= 0
    BY <1>0, <2>1
  <2> QED BY <1>0, <2>1, <2>4, <2>6, <2>7, <2>8, StepInv
<1>8. CASE BatchSelect(p)
  <2> DEFINE new(r) == [s EXCEPT !.pc = "select", !.rec = r, !.todo = @ \ {r},
                          !.seen = close[CloseOf[r]]]
  <2>1. PICK r \in s.todo : /\ s.pc = "batch" /\ sess' = [sess EXCEPT ![p] = new(r)]
                            /\ close' = close /\ rec' = rec /\ tx' = tx
    BY <1>8 DEF BatchSelect
  <2>2. r \in Recs /\ close[CloseOf[r]] \in CloseStatuses
    BY <1>0, ConstantTypes DEF TypeInv, TypeOK
  <2>3. /\ new(r) \in Session /\ new(r).pc = "select" /\ new(r).held = s.held
        /\ new(r).closes = s.closes /\ new(r).op = s.op /\ new(r).todo = s.todo \ {r}
        /\ new(r).rec = r
    BY <1>0, <2>2 DEF Session
  <2> HIDE DEF new
  <2>4. Agrees(new(r))
    BY <1>0, <2>1, <2>2, <2>3 DEF Agrees
  <2>5. \A q \in Recs : LinkedTo(q)' = LinkedTo(q)
    BY <2>1 DEF LinkedTo
  <2> QED BY <1>0, <2>1, <2>3, <2>4, <2>5, StepInv
<1>9. CASE BatchApply(p) \/ BatchReplay(p)
  <2> DEFINE new == [s EXCEPT !.pc = "batch"]
  <2>1. /\ s.pc = "locked" /\ s.op = "apply_all"
        /\ sess' = [sess EXCEPT ![p] = new] /\ close' = close /\ rec' = rec
    BY <1>9 DEF BatchApply, BatchReplay
  <2>2. /\ new \in Session /\ new.pc = "batch" /\ new.held = s.held
        /\ new.closes = s.closes /\ new.op = s.op /\ new.todo = s.todo
    BY <1>0 DEF Session
  <2> HIDE DEF new
  <2>3. Agrees(new)
    BY <1>0, <2>1, <2>2 DEF Agrees
  <2>4. (\A q \in Recs : LinkedTo(q)' = LinkedTo(q)) /\ \A t \in TxIds : tx'[t].amount >= 0
    <3>1. CASE BatchReplay(p)
      BY <1>0, <3>1 DEF BatchReplay, LinkedTo
    <3>2. CASE BatchApply(p)
      <4> DEFINE a == ApplyAmount(s)
                 row == Movement(s.rec, "pending", a, "application", ApplyKey(s))
      <4>1. Book(row) /\ CanApply(s)
        BY <3>2 DEF BatchApply
      <4>2. s.rec \in Recs /\ a \in Int /\ ApplyKey(s) \in Keys /\ a > 0
        BY <2>1, <4>1, LockedFacts, AmountTypes DEF CanApply
      <4>3. row \in TxRow /\ row.status = "pending" /\ row.amount = a
        BY <4>2, MovementType DEF Actions, Movement
      <4> HIDE DEF a, row
      <4> QED BY <1>0, <4>1, <4>2, <4>3, BookLinks
    <3> QED BY <1>9, <3>1, <3>2
  <2> QED BY <1>0, <2>1, <2>2, <2>3, <2>4, StepInv
<1>10. CASE CommitAll(p)
  <2> DEFINE paid == {tx[t].link : t \in Pending(p)}
  <2>1. /\ tx' = Posted(Pending(p)) /\ End(p) /\ close' = close
        /\ rec' = [r \in Recs |-> IF r \in paid THEN Row(r, Amount[r], TRUE) ELSE rec[r]]
    BY <1>10 DEF CommitAll
  <2>2. paid \subseteq s.held
    BY DEF Pending
  <2>3. \A r \in Recs \ s.held : rec'[r] = rec[r] /\ LinkedTo(r)' \subseteq LinkedTo(r)
    BY <1>0, <2>1, <2>2 DEF LinkedTo, Posted, Pending, TxRow
  <2>4. \A t \in TxIds : tx'[t].amount >= 0
    BY <1>0, <2>1 DEF Posted, TxRow
  <2>5. \A r \in s.held \ paid :
          /\ Live(r)' /\ rec'[r].applied \in 0..Amount[r]
          /\ IF rec'[r].status = "cancelled" THEN rec'[r].applied = 0
             ELSE rec'[r].status = StatusFor(Amount[r], rec'[r].applied, rec'[r].accepted)
    BY <1>0, <2>1 DEF IInv, RowLocks, StatusAgrees, Live
  <2>6. \A r \in paid :
          /\ Live(r)' /\ rec'[r].applied \in 0..Amount[r] /\ rec'[r].status # "cancelled"
          /\ rec'[r].status = StatusFor(Amount[r], rec'[r].applied, rec'[r].accepted)
    <3> TAKE r \in paid
    <3>1. r \in Recs /\ Amount[r] \in Int /\ Amount[r] \in 0..Amount[r] /\ TRUE \in BOOLEAN
      BY <1>0, <2>2, ConstantTypes
    <3>2. rec'[r] = Row(r, Amount[r], TRUE)
      BY <2>1, <3>1
    <3>3. Row(r, Amount[r], TRUE).status \in
            {"recommended", "accepted", "applied", "partially_applied"}
      BY <3>1, RowType
    <3>4. /\ rec'[r].applied = Amount[r] /\ rec'[r].accepted = TRUE
          /\ rec'[r].status = StatusFor(Amount[r], Amount[r], TRUE)
      BY <3>2 DEF Row
    <3> QED BY <3>1, <3>2, <3>3, <3>4 DEF Live
  <2> HIDE DEF paid
  <2> QED BY <2>1, <2>3, <2>4, <2>5, <2>6, EndInv
<1> QED
  BY <1>1, <1>2, <1>3, <1>4, <1>5, <1>6, <1>7, <1>8, <1>9, <1>10 DEF Proceeds

LEMMA OthersInv ==
  ASSUME TypeInv, IInv,
         \/ \E c \in Closes : FinalizeClose(c) \/ LockClose(c)
         \/ \E rt \in Routes, a \in Amounts : PostTransfer(rt, a)
         \/ \E t \in TxIds : DeleteTransfer(t)
  PROVE  IInv'
<1>0. /\ rec \in [Recs -> RecRow] /\ tx \in [TxIds -> TxRow] /\ close \in [Closes -> CloseStatuses]
      /\ \A p \in Procs : sess[p].held \subseteq Recs /\ sess[p].closes \subseteq Closes
      /\ \A p \in Procs : NamesRow(sess[p])
  BY SessionFields DEF TypeInv, TypeOK
<1>1. ASSUME sess' = sess, rec' = rec, close' = close,
             \A r \in Recs : LinkedTo(r)' \subseteq LinkedTo(r),
             \A t \in TxIds : tx'[t].amount >= 0
      PROVE  IInv'
  BY <1>1 DEF IInv, RowLocks, CloseLocks, SessionsAgree, Agrees, Remaining, RowsHaveClose,
              LedgerPositive, StatusAgrees, HistoryKept, Live
<1>2. CASE \E rt \in Routes, a \in Amounts : PostTransfer(rt, a)
  <2>1. PICK rt \in Routes, a \in Amounts : PostTransfer(rt, a)
    BY <1>2
  <2> DEFINE row == [NoTxRow EXCEPT !.status = "posted", !.route = rt, !.amount = a]
  <2>2. a \in Int /\ a >= 0 /\ Book(row) /\ UNCHANGED <<close, rec, sess>>
    <3>1. a \in Int /\ a >= 0
      BY ConstantsAssumption
    <3>2. Book(row) /\ UNCHANGED <<close, rec, sess>>
      BY <2>1 DEF PostTransfer
    <3> QED BY <3>1, <3>2
  <2>3. row.link = NoRec /\ row.amount = a /\ row \in TxRow
    BY <2>2, NoTxRowType DEF NoTxRow, TxRow
  <2> HIDE DEF row
  <2>4. \A r \in Recs : LinkedTo(r)' \subseteq LinkedTo(r)
    BY <2>2, <2>3, BookLinks, ConstantTypes
  <2>5. \A t \in TxIds : tx'[t].amount >= 0
    <3>1. \A t \in TxIds : tx'[t] = tx[t] \/ tx'[t] = row
      BY <2>2, <2>3, BookLinks
    <3> QED BY <2>2, <2>3, <3>1 DEF IInv, LedgerPositive
  <2> QED BY <1>1, <2>2, <2>4, <2>5
<1>3. CASE \E t \in TxIds : DeleteTransfer(t)
  <2>1. PICK t \in TxIds : DeleteTransfer(t)
    BY <1>3
  <2>2. tx' = [tx EXCEPT ![t].status = "deleted"] /\ UNCHANGED <<close, rec, sess>>
    BY <2>1 DEF DeleteTransfer
  <2>3. \A r \in Recs : LinkedTo(r)' \subseteq LinkedTo(r)
    BY <1>0, <2>2 DEF LinkedTo, TxRow
  <2>4. \A u \in TxIds : tx'[u].amount >= 0
    BY <1>0, <2>2 DEF IInv, LedgerPositive, TxRow
  <2> QED BY <1>1, <2>2, <2>3, <2>4
<1>4. CASE \E c \in Closes : FinalizeClose(c) \/ LockClose(c)
  <2>1. PICK c \in Closes : FinalizeClose(c) \/ LockClose(c)
    BY <1>4
  <2>2. /\ CloseFree(c) /\ tx' = tx /\ sess' = sess
        /\ \A d \in Closes \ {c} : close'[d] = close[d]
        /\ close'[c] # "draft"
    BY <1>0, <2>1 DEF FinalizeClose, LockClose
  <2>3. \A r \in Recs : \/ rec'[r] = rec[r]
                        \/ ~Live(r) /\ CloseOf[r] = c /\ rec'[r] = NewRow
    BY <2>1 DEF FinalizeClose, LockClose, Live
  <2>4. \A p \in Procs : \A r \in sess[p].held : rec'[r] = rec[r]
    BY <1>0, <2>3 DEF IInv, RowLocks
  <2>5. \A p \in Procs : \A d \in sess[p].closes : close'[d] = close[d]
    BY <1>0, <2>2 DEF CloseFree
  <2>6. RowLocks' /\ CloseLocks' /\ LedgerPositive'
    BY <2>2, <2>4 DEF IInv, RowLocks, CloseLocks, LedgerPositive, Live
  <2>7. SessionsAgree'
    <3>1. SUFFICES ASSUME NEW p \in Procs PROVE Agrees(sess[p])'
      BY DEF SessionsAgree
    <3>2. Agrees(sess[p]) /\ sess'[p] = sess[p]
      BY <2>2 DEF IInv, SessionsAgree
    <3>3. sess[p].pc \in {"locked", "candidate"} => rec'[sess[p].rec] = rec[sess[p].rec]
      BY <2>4, <3>2 DEF Agrees
    <3> QED BY <2>5, <3>2, <3>3 DEF Agrees, Remaining
  <2>8. RowsHaveClose'
    BY <1>0, <2>2, <2>3, ConstantTypes DEF IInv, RowsHaveClose, Live
  <2>9. StatusAgrees'
    <3>1. SUFFICES ASSUME NEW r \in Recs, Live(r)'
                   PROVE  /\ rec'[r].applied \in 0..Amount[r]
                          /\ IF rec'[r].status = "cancelled" THEN rec'[r].applied = 0
                             ELSE rec'[r].status =
                                    StatusFor(Amount[r], rec'[r].applied, rec'[r].accepted)
      BY DEF StatusAgrees
    <3>2. CASE rec'[r] = rec[r]
      BY <3>1, <3>2 DEF IInv, StatusAgrees, Live
    <3>3. CASE rec'[r] = NewRow
      BY <3>3, ConstantTypes DEF NewRow, StatusFor
    <3> QED BY <2>3, <3>2, <3>3
  <2>10. HistoryKept'
    <3>1. SUFFICES ASSUME NEW r \in Recs, LinkedTo(r) # {}
                   PROVE  Live(r)' /\ close'[CloseOf[r]] # "draft"
      BY <2>2 DEF HistoryKept, LinkedTo
    <3>2. Live(r) /\ close[CloseOf[r]] # "draft"
      BY <3>1 DEF IInv, HistoryKept
    <3> QED BY <2>2, <2>3, <3>2, ConstantTypes DEF Live
  <2> QED BY <2>6, <2>7, <2>8, <2>9, <2>10 DEF IInv
<1> QED
  BY <1>2, <1>3, <1>4

LEMMA NextInv == TypeInv /\ IInv /\ [Next]_vars => IInv'
<1> SUFFICES ASSUME TypeInv, IInv, [Next]_vars PROVE IInv'
  OBVIOUS
<1>1. CASE \E p \in Procs : Arrives(p) \/ Waits(p) \/ Proceeds(p)
  BY <1>1, ArrivesInv, WaitsInv, ProceedsInv
<1>2. CASE UNCHANGED vars
  BY <1>2 DEF vars, IInv, RowLocks, CloseLocks, SessionsAgree, Agrees, Remaining,
              RowsHaveClose, LedgerPositive, StatusAgrees, HistoryKept, Live, LinkedTo
<1> QED
  BY <1>1, <1>2, OthersInv DEF Next

\* The invariant holds in every reachable state.
THEOREM InvCorrect == Spec => [](TypeInv /\ IInv)
<1>1. TypeInv /\ IInv /\ [Next]_vars => (TypeInv /\ IInv)'
  BY NextType, NextInv
<1> QED
  BY InitType, InitInv, <1>1, PTL DEF Spec

\* However many requests run at once, no recommendation is ever applied beyond
\* its amount, and its status says how much of it was applied.
THEOREM StatusCorrect == Spec => []StatusAgrees
<1>1. IInv => StatusAgrees
  BY DEF IInv
<1> QED
  BY <1>1, InvCorrect, PTL

\* Reopening a close never strands a movement: what is linked is linked to a row
\* that exists, of a close that is not in draft.
THEOREM HistoryCorrect == Spec => []HistoryKept
<1>1. IInv => HistoryKept
  BY DEF IInv
<1> QED
  BY <1>1, InvCorrect, PTL

\* The two together, as the run checks them.
THEOREM RecommendationsCorrect == Spec => []RecommendationsStand
<1>1. StatusAgrees /\ HistoryKept <=> RecommendationsStand
  BY DEF RecommendationsStand
<1> QED
  BY <1>1, StatusCorrect, HistoryCorrect, PTL

-----------------------------------------------------------------------------
(* What a step may do to a row and its movements *)

\* A request may write the row: it holds it, and either it is a batch or it names
\* this row and saw its close finalized.
Writer(p, r) ==
  /\ r \in sess[p].held
  /\ \/ sess[p].op = "apply_all"
     \/ sess[p].rec = r /\ sess[p].seen = "finalized"

MayChange(r) ==
  /\ \/ rec'[r] = rec[r]
     \/ rec[r].status = "absent" /\ close[CloseOf[r]] = "draft"
     \/ rec'[r].status = "deleted" /\ close[CloseOf[r]] # "locked"
     \/ \E p \in Procs : Writer(p, r)
  /\ LinkedTo(r)' \subseteq LinkedTo(r) \/ \E p \in Procs : r \in sess[p].held

LEMMA SaveChanges ==
  ASSUME TypeInv, IInv, NEW p \in Procs, sess[p].pc \in {"locked", "candidate"},
         \A r \in Recs \ {sess[p].rec} : rec'[r] = rec[r] /\ LinkedTo(r)' \subseteq LinkedTo(r)
  PROVE  \A r \in Recs : MayChange(r)
BY LockedFacts DEF MayChange, Writer

LEMMA StepChanges ==
  ASSUME TypeInv, IInv, [Next]_vars
  PROVE  \A r \in Recs : MayChange(r)
<1>0. /\ rec \in [Recs -> RecRow] /\ tx \in [TxIds -> TxRow]
      /\ \A p \in Procs : NamesRow(sess[p]) /\ sess[p].held \subseteq Recs /\ Agrees(sess[p])
  BY SessionFields DEF TypeInv, TypeOK, IInv, SessionsAgree
<1>1. ASSUME rec' = rec, tx' = tx
      PROVE  \A r \in Recs : MayChange(r)
  BY <1>1 DEF MayChange, LinkedTo
<1>2. ASSUME rec' = rec, \A r \in Recs : LinkedTo(r)' \subseteq LinkedTo(r)
      PROVE  \A r \in Recs : MayChange(r)
  BY <1>2 DEF MayChange
<1>3. CASE UNCHANGED vars
  BY <1>1, <1>3 DEF vars
<1>4. ASSUME NEW p \in Procs, Arrives(p)
      PROVE  \A r \in Recs : MayChange(r)
  <2>1. rec' = rec /\ tx' = tx
    BY <1>4 DEF Arrives, RequestAccept, RequestCancel, RequestApply, RequestReverse,
                RequestReconcile, Request, StartApplyAll, ReopenCheck
  <2> QED BY <1>1, <2>1
<1>5. ASSUME NEW p \in Procs, Waits(p)
      PROVE  \A r \in Recs : MayChange(r)
  <2>1. CASE LockRow(p)
    BY <1>1, <2>1 DEF LockRow
  <2>2. CASE Fail(p)
    <3>1. rec' = rec /\ \A r \in Recs : LinkedTo(r)' \subseteq LinkedTo(r)
      BY <2>2 DEF Fail, LinkedTo, NoTxRow
    <3> QED BY <1>2, <3>1
  <2>3. CASE ReopenCommit(p)
    <3>1. /\ tx' = tx /\ sess[p].op = "reopen"
          /\ rec' = [r \in Recs |-> IF r \in RecsOf(sess[p].closes) THEN DeletedRow ELSE rec[r]]
      BY <1>0, <2>3 DEF ReopenCommit, Agrees
    <3>2. \A r \in Recs : \/ rec'[r] = rec[r]
                          \/ rec'[r].status = "deleted" /\ close[CloseOf[r]] # "locked"
      BY <1>0, <3>1 DEF RecsOf, DeletedRow, Agrees
    <3>3. \A r \in Recs : LinkedTo(r)' \subseteq LinkedTo(r)
      BY <3>1 DEF LinkedTo
    <3> QED BY <3>2, <3>3 DEF MayChange
  <2> QED BY <1>5, <2>1, <2>2, <2>3 DEF Waits
<1>6. ASSUME NEW p \in Procs, Proceeds(p)
      PROVE  \A r \in Recs : MayChange(r)
  <2> DEFINE s == sess[p]
  <2>1. CASE Accept(p) \/ Cancel(p)
    <3>1. s.pc = "locked" /\ \A r \in Recs \ {s.rec} : rec'[r] = rec[r] /\ tx' = tx
      BY <1>0, <2>1 DEF Accept, Cancel
    <3>2. \A r \in Recs \ {s.rec} : LinkedTo(r)' \subseteq LinkedTo(r)
      BY <3>1 DEF LinkedTo
    <3> QED BY <3>1, <3>2, SaveChanges
  <2>2. CASE Apply(p)
    <3> DEFINE row == Movement(s.rec, "posted", ApplyAmount(s), "application", ApplyKey(s))
    <3>1. s.pc = "locked" /\ Book(row) /\ \A r \in Recs \ {s.rec} : rec'[r] = rec[r]
      BY <1>0, <2>2 DEF Apply
    <3>2. row \in TxRow /\ row.link = s.rec
      BY <3>1, LockedFacts, AmountTypes, MovementType DEF Actions, Movement
    <3>3. \A r \in Recs \ {s.rec} : LinkedTo(r)' \subseteq LinkedTo(r)
      BY <3>1, <3>2, BookLinks
    <3> HIDE DEF row
    <3> QED BY <3>1, <3>3, SaveChanges
  <2>3. CASE Reverse(p)
    <3> DEFINE row == Movement(s.rec, "posted", ReverseAmount(s), "reversal", ReverseKey(s))
    <3>1. s.pc = "locked" /\ Book(row) /\ \A r \in Recs \ {s.rec} : rec'[r] = rec[r]
      BY <1>0, <2>3 DEF Reverse
    <3>2. row \in TxRow /\ row.link = s.rec
      BY <3>1, LockedFacts, AmountTypes, MovementType DEF Actions, Movement
    <3>3. \A r \in Recs \ {s.rec} : LinkedTo(r)' \subseteq LinkedTo(r)
      BY <3>1, <3>2, BookLinks
    <3> HIDE DEF row
    <3> QED BY <3>1, <3>3, SaveChanges
  <2>4. CASE Reconcile(p)
    <3>1. s.pc = "candidate" /\ s.tx \in TxIds /\ \A r \in Recs \ {s.rec} : rec'[r] = rec[r]
      BY <1>0, <2>4 DEF Reconcile, NamesRow
    <3>2. tx'[s.tx].link = s.rec /\ \A t \in TxIds \ {s.tx} : tx'[t] = tx[t]
      BY <1>0, <2>4, <3>1 DEF Reconcile, TxRow
    <3>3. \A r \in Recs \ {s.rec} : LinkedTo(r)' \subseteq LinkedTo(r)
      BY <3>2 DEF LinkedTo
    <3> QED BY <3>1, <3>3, SaveChanges
  <2>5. CASE ReadCandidates(p) \/ BatchSkip(p) \/ BatchSelect(p) \/ BatchReplay(p)
    BY <1>1, <2>5 DEF ReadCandidates, BatchSkip, BatchSelect, BatchReplay
  <2>6. CASE BatchApply(p)
    <3> DEFINE row == Movement(s.rec, "pending", ApplyAmount(s), "application", ApplyKey(s))
    <3>1. s.pc = "locked" /\ Book(row) /\ rec' = rec
      BY <2>6 DEF BatchApply
    <3>2. row \in TxRow /\ row.status = "pending"
      BY <3>1, LockedFacts, AmountTypes, MovementType DEF Actions, Movement
    <3>3. \A r \in Recs : LinkedTo(r)' \subseteq LinkedTo(r)
      BY <3>1, <3>2, BookLinks
    <3> HIDE DEF row
    <3> QED BY <1>2, <3>1, <3>3
  <2>7. CASE CommitAll(p)
    <3>1. /\ tx' = Posted(Pending(p)) /\ s.op = "apply_all"
          /\ \A r \in Recs \ s.held : rec'[r] = rec[r]
      BY <1>0, <2>7 DEF CommitAll, Pending, Agrees
    <3>2. \A r \in Recs \ s.held : LinkedTo(r)' \subseteq LinkedTo(r)
      BY <1>0, <3>1 DEF LinkedTo, Posted, Pending, TxRow
    <3> QED BY <3>1, <3>2 DEF MayChange, Writer
  <2> QED BY <1>6, <2>1, <2>2, <2>3, <2>4, <2>5, <2>6, <2>7 DEF Proceeds
<1>7. ASSUME NEW c \in Closes, FinalizeClose(c) \/ LockClose(c)
      PROVE  \A r \in Recs : MayChange(r)
  <2>1. \A r \in Recs : \/ rec'[r] = rec[r]
                        \/ rec[r].status = "absent" /\ close[CloseOf[r]] = "draft"
    BY <1>7 DEF FinalizeClose, LockClose
  <2>2. \A r \in Recs : LinkedTo(r)' \subseteq LinkedTo(r)
    BY <1>7 DEF FinalizeClose, LockClose, LinkedTo
  <2> QED BY <2>1, <2>2 DEF MayChange
<1>8. ASSUME NEW rt \in Routes, NEW a \in Amounts, PostTransfer(rt, a)
      PROVE  \A r \in Recs : MayChange(r)
  <2> DEFINE row == [NoTxRow EXCEPT !.status = "posted", !.route = rt, !.amount = a]
  <2>1. Book(row) /\ rec' = rec /\ a \in Int
    BY <1>8, ConstantsAssumption DEF PostTransfer
  <2>2. row.link = NoRec /\ row \in TxRow
    BY <2>1, NoTxRowType DEF NoTxRow, TxRow
  <2> HIDE DEF row
  <2>3. \A r \in Recs : LinkedTo(r)' \subseteq LinkedTo(r)
    BY <2>1, <2>2, BookLinks, ConstantTypes
  <2> QED BY <1>2, <2>1, <2>3
<1>9. ASSUME NEW t \in TxIds, DeleteTransfer(t)
      PROVE  \A r \in Recs : MayChange(r)
  <2>1. tx' = [tx EXCEPT ![t].status = "deleted"] /\ rec' = rec
    BY <1>9 DEF DeleteTransfer
  <2>2. \A r \in Recs : LinkedTo(r)' \subseteq LinkedTo(r)
    BY <1>0, <2>1 DEF LinkedTo, TxRow
  <2> QED BY <1>2, <2>1, <2>2
<1> QED
  BY <1>3, <1>4, <1>5, <1>6, <1>7, <1>8, <1>9 DEF Next

\* A cancelled recommendation is never executed: a request that was waiting for
\* its row, or a batch that listed it before, finds it cancelled.
THEOREM CancelledCorrect == Spec => CancelledIsFinal
<1>1. TypeInv /\ IInv /\ [Next]_vars =>
        [\A r \in Recs : rec[r].status = "cancelled" =>
           /\ rec'[r].status \in {"cancelled", "deleted"}
           /\ LinkedTo(r)' \subseteq LinkedTo(r)]_vars
  <2> SUFFICES ASSUME TypeInv, IInv, [Next]_vars, NEW r \in Recs, rec[r].status = "cancelled"
               PROVE  /\ rec'[r].status \in {"cancelled", "deleted"}
                      /\ LinkedTo(r)' \subseteq LinkedTo(r)
    OBVIOUS
  <2>1. \A p \in Procs : r \notin sess[p].held
    BY DEF IInv, RowLocks
  <2> QED BY <2>1, StepChanges DEF MayChange, Writer
<1> QED
  BY <1>1, InvCorrect, PTL DEF Spec, CancelledIsFinal

\* Locking a close stops every batch and every later request; only a request that
\* read the close before may still save its one row.
THEOREM LockCorrect == Spec => OnlyOldRequestsAfterLock
<1>1. TypeInv /\ IInv /\ [Next]_vars =>
        [\A r \in Recs : (close[CloseOf[r]] = "locked" /\ rec'[r] # rec[r]) =>
           \E p \in Procs : /\ sess[p].rec = r /\ sess[p].seen = "finalized"
                             /\ sess[p].op # "apply_all"]_vars
  <2> SUFFICES ASSUME TypeInv, IInv, [Next]_vars, NEW r \in Recs,
                      close[CloseOf[r]] = "locked", rec'[r] # rec[r]
               PROVE  \E p \in Procs : /\ sess[p].rec = r /\ sess[p].seen = "finalized"
                                        /\ sess[p].op # "apply_all"
    OBVIOUS
  <2>1. close[CloseOf[r]] # "draft" /\ ~(rec'[r].status = "deleted" /\ close[CloseOf[r]] # "locked")
    OBVIOUS
  <2>2. PICK p \in Procs : Writer(p, r)
    BY <2>1, StepChanges DEF MayChange
  <2>3. sess[p].op # "apply_all"
    BY <2>2 DEF IInv, SessionsAgree, Agrees, Writer
  <2> QED BY <2>2, <2>3 DEF Writer
<1> QED
  BY <1>1, InvCorrect, PTL DEF Spec, OnlyOldRequestsAfterLock

-----------------------------------------------------------------------------
(* Idempotency keys *)

\* Keys a new movement may carry; a reconciled transfer gets one of its own.
BookedKeys == SentKeys \cup {FullKey(r) : r \in Recs} \cup {ReverseFullKey(r) : r \in Recs}
Active(t) == tx[t].status \in {"posted", "pending"}

\* Inductive: also what a batch has inserted and not yet committed uses its keys up.
KeyInv ==
  /\ \A p \in Procs : sess[p].key \in SentKeys
  /\ \A t \in TxIds : \/ tx[t].key \in BookedKeys
                       \/ \E r \in Recs : tx[t].key = ReconcileKey(r, t)
  /\ \A t, u \in TxIds :
       Active(t) /\ Active(u) /\ tx[t].key = tx[u].key /\ tx[t].key # Blank => t = u

\* A reconciliation key is no key of another transfer or of a booked movement.
LEMMA ReconcileKeysOwn ==
  /\ \A r, q \in Recs, t, u \in TxIds : ReconcileKey(r, t) = ReconcileKey(q, u) => t = u
  /\ \A r \in Recs, t \in TxIds : ReconcileKey(r, t) \notin BookedKeys
  /\ Blank \in BookedKeys
BY DEF ReconcileKey, BookedKeys, SentKeys, Blank, ClientKey, FullKey, ReverseFullKey

\* What a step may do to the keys of the ledger.
NewKey == \E t \in TxIds, k \in BookedKeys :
            /\ tx[t].status = "none" /\ tx'[t].key = k /\ (KeyUsed(k) => k = Blank)
            /\ \A u \in TxIds \ {t} : tx'[u] = tx[u]
OwnKey == \E t \in TxIds, r \in Recs :
            /\ tx'[t].key = ReconcileKey(r, t) /\ \A u \in TxIds \ {t} : tx'[u] = tx[u]
NoNewKey == \A t \in TxIds : \/ tx'[t].key = tx[t].key /\ (Active(t)' => Active(t))
                             \/ tx'[t] = NoTxRow

LEMMA KeysStep ==
  ASSUME TypeInv, KeyInv, \A p \in Procs : sess'[p].key \in SentKeys,
         NewKey \/ OwnKey \/ NoNewKey
  PROVE  KeyInv'
<1>1. \A t \in TxIds : \/ tx'[t].key \in BookedKeys
                       \/ \E r \in Recs : tx'[t].key = ReconcileKey(r, t)
  BY ReconcileKeysOwn DEF KeyInv, NewKey, OwnKey, NoNewKey, NoTxRow
<1>2. ASSUME NEW t \in TxIds, NEW u \in TxIds, Active(t)', Active(u)',
             tx'[t].key = tx'[u].key, tx'[t].key # Blank
      PROVE  t = u
  <2>1. CASE NewKey
    <3>1. PICK v \in TxIds, k \in BookedKeys :
            /\ tx[v].status = "none" /\ tx'[v].key = k /\ (KeyUsed(k) => k = Blank)
            /\ \A w \in TxIds \ {v} : tx'[w] = tx[w]
      BY <2>1 DEF NewKey
    <3>2. ASSUME NEW w \in TxIds \ {v}, Active(w)', tx'[w].key = k, k # Blank PROVE FALSE
      BY <3>1, <3>2 DEF KeyUsed, Active
    <3> QED
      BY <1>2, <3>1, <3>2 DEF KeyInv, Active
  <2>2. CASE OwnKey
    <3>1. PICK v \in TxIds, r \in Recs :
            /\ tx'[v].key = ReconcileKey(r, v) /\ \A w \in TxIds \ {v} : tx'[w] = tx[w]
      BY <2>2 DEF OwnKey
    <3>2. ASSUME NEW w \in TxIds \ {v}, tx'[w].key = ReconcileKey(r, v) PROVE FALSE
      BY <3>1, <3>2, ReconcileKeysOwn DEF KeyInv
    <3> QED
      BY <1>2, <3>1, <3>2 DEF KeyInv, Active
  <2>3. CASE NoNewKey
    BY <1>2, <2>3 DEF NoNewKey, NoTxRow, KeyInv, Active
  <2> QED BY <2>1, <2>2, <2>3
<1> QED
  BY <1>1, <1>2 DEF KeyInv

LEMMA BookNewKey ==
  ASSUME TypeInv, NEW row, Book(row), row.key \in BookedKeys,
         KeyUsed(row.key) => row.key = Blank
  PROVE  NewKey
BY DEF Book, NextTx, NewKey, TypeInv, TypeOK

\* The key of a request, or the one the server derives for it.
LEMMA RequestKeys ==
  ASSUME KeyInv, NEW p \in Procs, sess[p].rec \in Recs
  PROVE  ApplyKey(sess[p]) \in BookedKeys /\ ReverseKey(sess[p]) \in BookedKeys
BY DEF KeyInv, ApplyKey, ReverseKey, BookedKeys

LEMMA KeysKept == TypeInv /\ IInv /\ KeyInv /\ [Next]_vars => KeyInv'
<1> SUFFICES ASSUME TypeInv, IInv, KeyInv, [Next]_vars PROVE KeyInv'
  OBVIOUS
<1>0. /\ sess \in [Procs -> Session] /\ tx \in [TxIds -> TxRow]
      /\ \A p \in Procs : NamesRow(sess[p]) /\ sess[p].key \in SentKeys
      /\ Idle.key = Blank /\ Blank \in SentKeys
  BY SessionFields DEF TypeInv, TypeOK, KeyInv, Idle, SentKeys
<1>1. ASSUME UNCHANGED tx PROVE NoNewKey
  BY <1>1 DEF NoNewKey, Active
<1>2. ASSUME NEW p \in Procs, End(p) PROVE \A q \in Procs : sess'[q].key \in SentKeys
  BY <1>0, <1>2 DEF End
<1>3. ASSUME NEW p \in Procs, NEW new, new.key \in SentKeys, sess' = [sess EXCEPT ![p] = new]
      PROVE  \A q \in Procs : sess'[q].key \in SentKeys
  BY <1>0, <1>3
<1>4. CASE UNCHANGED vars
  BY <1>0, <1>1, <1>4, KeysStep DEF vars
<1>5. ASSUME NEW p \in Procs, Arrives(p) PROVE KeyInv'
  <2>1. ASSUME NEW op, NEW r, NEW want, NEW key \in SentKeys, NEW t, Request(p, op, r, want, key, t)
        PROVE  sess'[p].key \in SentKeys /\ \A q \in Procs \ {p} : sess'[q] = sess[q]
    BY <1>0, <2>1 DEF Request, Idle
  <2>2. \A q \in Procs : sess'[q].key \in SentKeys
    <3>1. CASE StartApplyAll(p) \/ ReopenCheck(p)
      <4>1. ASSUME NEW c, NEW todo
            PROVE  [Idle EXCEPT !.pc = "batch", !.op = "apply_all", !.closes = {c},
                                !.todo = todo].key \in SentKeys
        BY <1>0 DEF Idle
      <4>2. ASSUME NEW cs
            PROVE  [Idle EXCEPT !.pc = "reopen", !.op = "reopen", !.closes = cs].key \in SentKeys
        BY <1>0 DEF Idle
      <4>3. CASE StartApplyAll(p)
        BY <1>3, <4>1, <4>3 DEF StartApplyAll
      <4>4. CASE ReopenCheck(p)
        BY <1>3, <4>2, <4>4 DEF ReopenCheck
      <4> QED BY <3>1, <4>3, <4>4
    <3>2. CASE ~(StartApplyAll(p) \/ ReopenCheck(p))
      BY <1>0, <1>5, <2>1, <3>2 DEF Arrives, RequestAccept, RequestCancel, RequestApply,
         RequestReverse, RequestReconcile
    <3> QED BY <3>1, <3>2
  <2>3. UNCHANGED tx
    BY <1>5 DEF Arrives, RequestAccept, RequestCancel, RequestApply, RequestReverse,
       RequestReconcile, Request, StartApplyAll, ReopenCheck
  <2> QED BY <1>1, <2>2, <2>3, KeysStep
<1>6. ASSUME NEW p \in Procs, Waits(p) PROVE KeyInv'
  <2>1. CASE LockRow(p)
    <3>1. UNCHANGED tx /\ sess'[p].key = sess[p].key /\ \A q \in Procs \ {p} : sess'[q] = sess[q]
      BY <1>0, <2>1 DEF LockRow, Session
    <3> QED BY <1>0, <1>1, <3>1, KeysStep
  <2>2. CASE ReopenCommit(p)
    BY <1>1, <1>2, <2>2, KeysStep DEF ReopenCommit
  <2>3. CASE Fail(p)
    <3>1. NoNewKey
      BY <2>3 DEF Fail, NoNewKey, Active
    <3> QED BY <1>2, <2>3, <3>1, KeysStep DEF Fail
  <2> QED BY <1>6, <2>1, <2>2, <2>3 DEF Waits
<1>7. ASSUME NEW p \in Procs, Proceeds(p) PROVE KeyInv'
  <2> DEFINE s == sess[p]
  <2>1. CASE Accept(p) \/ Cancel(p)
    BY <1>1, <1>2, <2>1, KeysStep DEF Accept, Cancel
  <2>2. CASE Apply(p)
    <3> DEFINE row == Movement(s.rec, "posted", ApplyAmount(s), "application", ApplyKey(s))
    <3>1. Book(row) /\ row.key = ApplyKey(s) /\ ~KeyUsed(ApplyKey(s)) /\ End(p) /\ s.pc = "locked"
      BY <2>2 DEF Apply, CanApply, Movement
    <3>2. ApplyKey(s) \in BookedKeys
      BY <3>1, LockedFacts, RequestKeys
    <3> HIDE DEF row
    <3> QED BY <1>2, <3>1, <3>2, BookNewKey, KeysStep
  <2>3. CASE Reverse(p)
    <3> DEFINE row == Movement(s.rec, "posted", ReverseAmount(s), "reversal", ReverseKey(s))
    <3>1. /\ Book(row) /\ row.key = ReverseKey(s) /\ ~KeyUsed(ReverseKey(s)) /\ End(p)
          /\ s.pc = "locked"
      BY <2>3 DEF Reverse, CanReverse, Movement
    <3>2. ReverseKey(s) \in BookedKeys
      BY <3>1, LockedFacts, RequestKeys
    <3> HIDE DEF row
    <3> QED BY <1>2, <3>1, <3>2, BookNewKey, KeysStep
  <2>4. CASE ReadCandidates(p) \/ BatchSkip(p) \/ BatchSelect(p) \/ BatchReplay(p)
    <3>1. UNCHANGED tx /\ sess'[p].key = sess[p].key /\ \A q \in Procs \ {p} : sess'[q] = sess[q]
      <4>1. CASE ReadCandidates(p)
        BY <1>0, <4>1 DEF ReadCandidates, Session
      <4>2. CASE BatchSkip(p)
        BY <1>0, <4>2 DEF BatchSkip, Session
      <4>3. CASE BatchSelect(p)
        BY <1>0, <4>3 DEF BatchSelect, Session
      <4>4. CASE BatchReplay(p)
        BY <1>0, <4>4 DEF BatchReplay, Session
      <4> QED BY <2>4, <4>1, <4>2, <4>3, <4>4
    <3> QED BY <1>0, <1>1, <3>1, KeysStep
  <2>5. CASE Reconcile(p)
    <3>1. s.rec \in Recs /\ s.tx \in TxIds
      BY <1>0, <2>5 DEF Reconcile, NamesRow
    <3>2. OwnKey
      BY <1>0, <2>5, <3>1 DEF Reconcile, OwnKey, TxRow
    <3> QED BY <1>2, <2>5, <3>2, KeysStep DEF Reconcile
  <2>6. CASE BatchApply(p)
    <3> DEFINE row == Movement(s.rec, "pending", ApplyAmount(s), "application", ApplyKey(s))
    <3>1. Book(row) /\ row.key = ApplyKey(s) /\ ~KeyUsed(ApplyKey(s)) /\ s.pc = "locked"
      BY <2>6 DEF BatchApply, CanApply, Movement
    <3>2. ApplyKey(s) \in BookedKeys
      BY <3>1, LockedFacts, RequestKeys
    <3>3. sess'[p].key = sess[p].key /\ \A q \in Procs \ {p} : sess'[q] = sess[q]
      BY <1>0, <2>6 DEF BatchApply, Session
    <3> HIDE DEF row
    <3> QED BY <1>0, <3>1, <3>2, <3>3, BookNewKey, KeysStep
  <2>7. CASE CommitAll(p)
    <3>1. NoNewKey
      BY <1>0, <2>7 DEF CommitAll, Posted, Pending, NoNewKey, Active, TxRow
    <3> QED BY <1>2, <2>7, <3>1, KeysStep DEF CommitAll
  <2> QED BY <1>7, <2>1, <2>2, <2>3, <2>4, <2>5, <2>6, <2>7 DEF Proceeds
<1>8. ASSUME NEW c \in Closes, FinalizeClose(c) \/ LockClose(c) PROVE KeyInv'
  BY <1>0, <1>1, <1>8, KeysStep DEF FinalizeClose, LockClose
<1>9. ASSUME NEW rt \in Routes, NEW a \in Amounts, PostTransfer(rt, a) PROVE KeyInv'
  <2> DEFINE row == [NoTxRow EXCEPT !.status = "posted", !.route = rt, !.amount = a]
  <2>1. Book(row) /\ row.key = Blank /\ UNCHANGED sess
    BY <1>9 DEF PostTransfer, NoTxRow
  <2> HIDE DEF row
  <2> QED BY <1>0, <2>1, ReconcileKeysOwn, BookNewKey, KeysStep
<1>10. ASSUME NEW t \in TxIds, DeleteTransfer(t) PROVE KeyInv'
  <2>1. NoNewKey
    BY <1>0, <1>10 DEF DeleteTransfer, NoNewKey, Active, TxRow
  <2> QED BY <1>0, <1>10, <2>1, KeysStep DEF DeleteTransfer
<1> QED
  BY <1>4, <1>5, <1>6, <1>7, <1>8, <1>9, <1>10 DEF Next

LEMMA InitKeys == Init => KeyInv
<1> SUFFICES ASSUME Init PROVE KeyInv
  OBVIOUS
<1>1. /\ \A p \in Procs : sess[p].key = Blank
      /\ \A t \in TxIds : tx[t].key = Blank /\ tx[t].status = "none"
  BY DEF Init, Idle, NoTxRow
<1> QED
  BY <1>1, ReconcileKeysOwn DEF KeyInv, SentKeys, Active

\* A retry moves no money, whichever of the requests that carry a key is first and
\* whatever recommendation each of them names: the key is looked up among what is
\* committed and what batches in progress have inserted, and the keys the server
\* derives are never those of a client or of another transfer.
THEOREM KeysCorrect == Spec => []OneMovementPerKey
<1>1. KeyInv => OneMovementPerKey
  BY DEF KeyInv, OneMovementPerKey, Active
<1> QED
  BY <1>1, InitKeys, KeysKept, InvCorrect, PTL DEF Spec
=============================================================================
