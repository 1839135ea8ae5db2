------------------------- MODULE MonthlyCloseProofs -------------------------
(***************************************************************************)
(* Proofs about MonthlyClose for any months, movements, check-ins and      *)
(* number of requests at one time.                                         *)
(***************************************************************************)
EXTENDS MonthlyClose, SetLemmas, TLAPS

-----------------------------------------------------------------------------
(* The inductive invariant *)

\* Movements accumulate: the last month has seen them all.
LedgerGrows == \A k \in Months : ledger[k] <= ledger[LastMonth]

\* Which operation a request is in at each of its statements.
StagesOf(op) ==
  CASE op = "none" -> {"idle"}
    [] op = "finalize" -> {"current", "previous", "preview", "resolve", "store", "commit"}
    [] op = "allocation" -> {"resolve", "store"}
    [] op = "reopen" -> {"select", "wait", "clear", "unfreeze"}
    [] op = "checkin" -> {"look", "checkin"}

\* What a request has locked is as it found it: the draft it finalizes, the closes
\* it reopens, which are finalized and, while it deletes, without movements.  A
\* check-in has the month and the balance it is to save.
CloseLocks(s) ==
  /\ s.pc \in StagesOf(s.op) /\ ~s.snap.moved
  /\ s.op = "finalize" => s.month \in Months /\ s.rows = {s.month} /\ row[s.month].status = "draft"
  /\ s.op = "reopen" => s.month \in s.rows /\ \A d \in s.rows : row[d].status = "finalized"
  /\ s.op \notin {"finalize", "reopen"} => s.rows = {}
  /\ s.op = "checkin" => s.month \in Months /\ s.new.observed \in CheckinValues
  /\ s.pc \in {"select", "wait"} => s.rows = {s.month}
  /\ s.pc = "wait" => \A d \in s.later : d > s.month
  /\ s.pc = "unfreeze" => \A d \in s.rows : ~snap[d].moved

\* Allocation rows are taken from the earliest month on, before what is still to
\* be taken; a reopening takes those that only its own closes refer to.
LinksOf(S) == UNION {snap[d].links : d \in S}
AllocationLocks(s) ==
  /\ s.pc \notin {"resolve", "store", "commit", "unfreeze"} => s.held = {}
  /\ s.op \in {"finalize", "allocation"} => \A h \in s.held, a \in s.todo : h < a
  /\ s.pc = "unfreeze" => s.todo \cup s.held \subseteq LinksOf(s.rows)

Apart(s, t) ==
  /\ s.rows \cap t.rows = {}
  /\ s.pc = "unfreeze" /\ t.pc = "unfreeze" => (s.todo \cup s.held) \cap (t.todo \cup t.held) = {}
LocksApart == \A p, q \in Procs : p # q => Apart(sess[p], sess[q])

DraftsUnmoved == \A m \in Months : row[m].status = "draft" => ~snap[m].moved

\* Inductive.
CloseInv ==
  /\ StateTypeOK /\ LedgerGrows /\ LocksApart /\ DraftsUnmoved
  /\ \A p \in Procs : CloseLocks(sess[p]) /\ AllocationLocks(sess[p])
-----------------------------------------------------------------------------
(* Types of what the services read *)

LEMMA MonthFacts ==
  /\ LastMonth \in Nat /\ LastMonth >= 1 /\ MaxPosts \in Nat
  /\ Months \subseteq Nat /\ AllocMonths \subseteq Nat /\ Months \subseteq AllocMonths
  /\ NoMonth \notin Months /\ LastMonth \in Months
  /\ \A m \in Months : m >= 1 /\ m <= LastMonth /\ m + 1 \in AllocMonths
  /\ \A a \in AllocMonths : a >= 1 /\ (a # 1 => a - 1 \in Months)
  /\ CheckinValues \subseteq Nat /\ CheckinMonths \subseteq Months
BY ConstantsAssumption DEF Months, AllocMonths, NoMonth

LEMMA InitialTypes ==
  /\ Draft \in Row /\ NoSnapshot \in Snapshot /\ Idle \in Session
  /\ Draft.status = "draft" /\ ~NoSnapshot.moved /\ NoSnapshot.links = {}
BY MonthFacts
DEF Draft, Row, Statuses, NoSnapshot, Snapshot, Idle, Session, NoFigure, NoMonth, NoRow

LEMMA ExecutedType ==
  ASSUME StateTypeOK, NEW m \in Months
  PROVE  Executed(m) \in Nat
<1>1. checkin[m] # NoCheckin => checkin[m].figure \in CheckinValues
  BY DEF StateTypeOK, Checkin
<1>2. ledger[m] \in 0..MaxPosts /\ 0..MaxPosts \subseteq Nat /\ CheckinValues \subseteq Nat
  BY MonthFacts DEF StateTypeOK
<1> QED
  BY <1>1, <1>2 DEF Executed

LEMMA CalculatedType ==
  ASSUME StateTypeOK, NEW a \in AllocMonths
  PROVE  Calculated(a) \in Nat
BY MonthFacts DEF StateTypeOK, Calculated

LEMMA BoundaryType ==
  ASSUME StateTypeOK, NEW m \in Months
  PROVE  Boundary(m).opening \in Nat /\ Boundary(m).source \in {"none", "close", "live"}
<1>1. m - 1 \in Months => Executed(m - 1) \in Nat /\ row[m - 1].observed \in Nat
  BY ExecutedType DEF StateTypeOK, Row
<1> QED
  BY <1>1 DEF Boundary, NoFigure

LEMMA LatestType ==
  ASSUME NEW m \in Months
  PROVE  Latest(m) \in Months \cup {NoMonth} /\ Latest(m) < m
<1> DEFINE closes == {d \in Months : d < m /\ Closed(d) /\ snap[d].exists /\ snap[d].ready}
           T == {NoMonth} \cup closes
<1>1. T \in SUBSET Nat /\ T # {} /\ \A x \in T : x <= LastMonth
  BY MonthFacts DEF NoMonth, Months
<1>2. T \subseteq Months \cup {NoMonth} /\ \A x \in T : x < m
  BY MonthFacts DEF NoMonth
<1>3. Max(T) \in T
  <2> HIDE DEF T
  <2> QED BY <1>1, MonthFacts, GreatestNatural
<1> QED
  BY <1>2, <1>3 DEF Latest

LEMMA RefsType ==
  ASSUME NEW m \in Months, NEW d \in Months \cup {NoMonth}
  PROVE  Refs(m, d) \subseteq AllocMonths
BY MonthFacts DEF Refs, AllocMonths, NoMonth

LEMMA SessionFields ==
  ASSUME NEW s \in Session
  PROVE  /\ s.month \in Months \cup {NoMonth} /\ s.new \in Row /\ s.snap \in Snapshot
         /\ s.todo \in SUBSET AllocMonths /\ s.held \in SUBSET AllocMonths
         /\ s.mine \in [AllocMonths -> Nat]
         /\ s.later \in SUBSET Months /\ s.rows \in SUBSET Months
         /\ s.snap.links \in SUBSET AllocMonths /\ s.snap.moved \in BOOLEAN
         /\ s.snap.values \in [AllocMonths -> Nat] /\ s.snap.previous \in Months \cup {NoMonth}
BY DEF Session, Snapshot

-----------------------------------------------------------------------------
(* Steps that change one session and nothing else *)

LEMMA SessionStep ==
  ASSUME CloseInv, NEW p \in Procs, NEW t \in Session, Go(p, t),
         UNCHANGED <<row, snap, alloc, ledger, checkin>>,
         CloseLocks(t), AllocationLocks(t),
         \A q \in Procs \ {p} : Apart(t, sess[q])
  PROVE  CloseInv'
<1>1. /\ sess \in [Procs -> Session] /\ sess' \in [Procs -> Session] /\ sess'[p] = t
      /\ \A q \in Procs \ {p} : sess'[q] = sess[q]
  BY DEF CloseInv, StateTypeOK, Go
<1>2. \A s, u : Apart(s, u) => Apart(u, s)
  BY DEF Apart
<1>3. StateTypeOK'
  BY <1>1 DEF CloseInv, StateTypeOK
<1>4. LedgerGrows' /\ DraftsUnmoved'
  BY DEF CloseInv, LedgerGrows, DraftsUnmoved
<1>5. LocksApart'
  BY <1>1, <1>2 DEF CloseInv, LocksApart
<1>6. ASSUME NEW q \in Procs
      PROVE  CloseLocks(sess[q])' /\ AllocationLocks(sess[q])'
  <2>1. CloseLocks(sess'[q]) /\ AllocationLocks(sess'[q])
    BY <1>1 DEF CloseInv
  <2> QED BY <2>1 DEF CloseLocks, AllocationLocks, LinksOf
<1> QED
  BY <1>3, <1>4, <1>5, <1>6 DEF CloseInv

\* A request that locks a close row or starts without one.
LEMMA StartStep ==
  ASSUME CloseInv, NEW p \in Procs, NEW t \in Session, Go(p, t),
         UNCHANGED <<row, snap, alloc, ledger, checkin>>,
         CloseLocks(t), AllocationLocks(t), t.pc # "unfreeze",
         \A m \in t.rows : RowFree(m) \/ m \in sess[p].rows
  PROVE  CloseInv'
<1>1. ASSUME NEW q \in Procs \ {p} PROVE Apart(t, sess[q])
  BY DEF CloseInv, LocksApart, Apart, RowFree
<1> QED
  BY <1>1, SessionStep

LEMMA FinalizeStartKeeps ==
  ASSUME CloseInv, NEW p \in Procs, NEW m \in Months, FinalizeStart(p, m)
  PROVE  CloseInv'
<1> DEFINE t == [Idle EXCEPT !.pc = "current", !.op = "finalize", !.month = m, !.rows = {m}]
<1>1. /\ t \in Session /\ t.pc = "current" /\ t.op = "finalize" /\ t.month = m /\ t.rows = {m}
      /\ t.held = {} /\ t.todo = {} /\ ~t.snap.moved
  BY InitialTypes DEF Idle, Session
<1>2. CloseLocks(t) /\ AllocationLocks(t)
  BY <1>1 DEF FinalizeStart, CloseLocks, AllocationLocks, StagesOf
<1>3. Go(p, t) /\ RowFree(m) /\ UNCHANGED <<row, snap, alloc, ledger, checkin>>
  BY DEF FinalizeStart
<1> HIDE DEF t
<1> QED
  BY <1>1, <1>2, <1>3, StartStep

LEMMA ReopenStartKeeps ==
  ASSUME CloseInv, NEW p \in Procs, NEW m \in Months, ReopenStart(p, m)
  PROVE  CloseInv'
<1> DEFINE t == [Idle EXCEPT !.pc = "select", !.op = "reopen", !.month = m, !.rows = {m}]
<1>1. /\ t \in Session /\ t.pc = "select" /\ t.op = "reopen" /\ t.month = m /\ t.rows = {m}
      /\ t.held = {} /\ t.todo = {} /\ ~t.snap.moved
  BY InitialTypes DEF Idle, Session
<1>2. CloseLocks(t) /\ AllocationLocks(t)
  BY <1>1 DEF ReopenStart, CloseLocks, AllocationLocks, StagesOf
<1>3. Go(p, t) /\ RowFree(m) /\ UNCHANGED <<row, snap, alloc, ledger, checkin>>
  BY DEF ReopenStart
<1> HIDE DEF t
<1> QED
  BY <1>1, <1>2, <1>3, StartStep

LEMMA AllocationStartKeeps ==
  ASSUME CloseInv, NEW p \in Procs, NEW a \in AllocMonths, AllocationStart(p, a)
  PROVE  CloseInv'
<1> DEFINE t == [Idle EXCEPT !.pc = "resolve", !.op = "allocation", !.todo = {a}]
<1>1. /\ t \in Session /\ t.pc = "resolve" /\ t.op = "allocation" /\ t.rows = {}
      /\ t.held = {} /\ ~t.snap.moved
  BY InitialTypes DEF Idle, Session
<1>2. CloseLocks(t) /\ AllocationLocks(t)
  BY <1>1 DEF CloseLocks, AllocationLocks, StagesOf
<1>3. Go(p, t) /\ UNCHANGED <<row, snap, alloc, ledger, checkin>>
  BY DEF AllocationStart
<1> HIDE DEF t
<1> QED
  BY <1>1, <1>2, <1>3, StartStep

\* The session of a request that posts a check-in for month m.
CheckinOf(m, v) ==
  [Idle EXCEPT !.pc = "checkin", !.op = "checkin", !.month = m, !.from = m,
               !.new.observed = v]

LEMMA CheckinSession ==
  ASSUME CloseInv, NEW p \in Procs, NEW m \in CheckinMonths, NEW v \in CheckinValues,
         CheckinStart(p, m, v)
  PROVE  LET t == CheckinOf(m, v) IN
         /\ Go(p, t) /\ UNCHANGED <<row, snap, alloc, ledger, checkin, unseen>>
         /\ t \in Session /\ t.pc = "checkin" /\ t.op = "checkin" /\ t.rows = {}
         /\ t.month = m /\ t.new.observed = v /\ t.held = {} /\ ~t.snap.moved
         /\ m \in Months /\ ~Closed(m) /\ Looked(p, m)
<1> DEFINE new == [Draft EXCEPT !.observed = v]
           t == [Idle EXCEPT !.pc = "checkin", !.op = "checkin", !.month = m, !.from = m,
                             !.new = new]
<1>1. m \in Months /\ v \in Nat
  BY MonthFacts
<1>2. new \in Row /\ new.observed = v
  BY <1>1, InitialTypes DEF Draft, Row
<1>3. CheckinOf(m, v) = t
  BY DEF CheckinOf, Idle
<1> HIDE DEF new
<1>4. /\ t.pc = "checkin" /\ t.op = "checkin" /\ t.rows = {} /\ t.month = m /\ t.new = new
      /\ t.held = {} /\ t.snap = NoSnapshot
  BY DEF Idle
<1>5. t \in Session
  BY <1>1, <1>2, InitialTypes DEF Session
<1>6. /\ Go(p, t) /\ UNCHANGED <<row, snap, alloc, ledger, checkin, unseen>>
      /\ ~Closed(m) /\ Looked(p, m)
  BY <1>3 DEF CheckinStart, CheckinOf
<1> HIDE DEF t
<1> QED
  BY <1>1, <1>2, <1>3, <1>4, <1>5, <1>6, InitialTypes

LEMMA CheckinStartKeeps ==
  ASSUME CloseInv, NEW p \in Procs, NEW m \in CheckinMonths, NEW v \in CheckinValues,
         CheckinStart(p, m, v)
  PROVE  CloseInv'
<1> DEFINE t == CheckinOf(m, v)
<1>1. /\ t \in Session /\ t.pc = "checkin" /\ t.op = "checkin" /\ t.rows = {} /\ t.held = {}
      /\ t.month \in Months /\ t.new.observed \in CheckinValues /\ ~t.snap.moved
      /\ Go(p, t) /\ UNCHANGED <<row, snap, alloc, ledger, checkin>>
  BY CheckinSession
<1> HIDE DEF t
<1>2. CloseLocks(t) /\ AllocationLocks(t)
  BY <1>1 DEF CloseLocks, AllocationLocks, StagesOf
<1> QED
  BY <1>1, <1>2, StartStep

\* The session of a request that edits the check-in of month m.
EditOf(m, target, i, v) ==
  [Idle EXCEPT !.pc = "look", !.op = "checkin", !.month = target, !.from = m, !.id = i,
               !.new.observed = v]

LEMMA EditSession ==
  ASSUME CloseInv, NEW p \in Procs, NEW m \in CheckinMonths, NEW target \in CheckinMonths,
         NEW v \in CheckinValues, EditStart(p, m, target, v)
  PROVE  LET t == EditOf(m, target, checkin[m].id, v) IN
         /\ Go(p, t) /\ UNCHANGED <<row, snap, alloc, ledger, checkin, history>>
         /\ t \in Session /\ t.pc = "look" /\ t.op = "checkin" /\ t.rows = {}
         /\ t.month = target /\ t.new.observed = v /\ t.held = {} /\ ~t.snap.moved
         /\ target \in Months
<1> DEFINE i == checkin[m].id
           new == [Draft EXCEPT !.observed = v]
           t == [Idle EXCEPT !.pc = "look", !.op = "checkin", !.month = target, !.from = m,
                             !.id = i, !.new = new]
<1>1. m \in Months /\ target \in Months /\ v \in Nat
  BY MonthFacts
<1>2. i \in CheckinIds
  BY <1>1 DEF EditStart, CloseInv, StateTypeOK, Checkin
<1>3. new \in Row /\ new.observed = v
  BY <1>1, InitialTypes DEF Draft, Row
<1>4. EditOf(m, target, i, v) = t
  BY DEF EditOf, Idle
<1> HIDE DEF i, new
<1>5. /\ t.pc = "look" /\ t.op = "checkin" /\ t.rows = {} /\ t.month = target /\ t.new = new
      /\ t.held = {} /\ t.snap = NoSnapshot
  BY DEF Idle
<1>6. t \in Session
  BY <1>1, <1>2, <1>3, InitialTypes DEF Session
<1>7. Go(p, t) /\ UNCHANGED <<row, snap, alloc, ledger, checkin, history>>
  BY <1>4 DEF EditStart, EditOf, i
<1> HIDE DEF t
<1> QED
  BY <1>1, <1>3, <1>4, <1>5, <1>6, <1>7, InitialTypes DEF i

LEMMA EditStartKeeps ==
  ASSUME CloseInv, NEW p \in Procs, NEW m \in CheckinMonths, NEW target \in CheckinMonths,
         NEW v \in CheckinValues, EditStart(p, m, target, v)
  PROVE  CloseInv'
<1> DEFINE t == EditOf(m, target, checkin[m].id, v)
<1>1. /\ t \in Session /\ t.pc = "look" /\ t.op = "checkin" /\ t.rows = {} /\ t.held = {}
      /\ t.month \in Months /\ t.new.observed \in CheckinValues /\ ~t.snap.moved
      /\ Go(p, t) /\ UNCHANGED <<row, snap, alloc, ledger, checkin>>
  BY EditSession
<1> HIDE DEF t
<1>2. CloseLocks(t) /\ AllocationLocks(t)
  BY <1>1 DEF CloseLocks, AllocationLocks, StagesOf
<1> QED
  BY <1>1, <1>2, StartStep

\* A rollback ends the session; so do, with their writes, the commits.
LEMMA IdleSession ==
  ASSUME NEW q \in Procs, NEW s
  PROVE  CloseLocks(Idle) /\ AllocationLocks(Idle) /\ Apart(Idle, s) /\ Idle \in Session
BY InitialTypes DEF Idle, CloseLocks, AllocationLocks, Apart, StagesOf

LEMMA RollbackKeeps ==
  ASSUME CloseInv, NEW p \in Procs, Rollback(p)
  PROVE  CloseInv'
BY IdleSession, SessionStep DEF Rollback, End, Go

\* A request goes on with the rows it has.
LEMMA ProceedStep ==
  ASSUME CloseInv, NEW p \in Procs, NEW t \in Session, Go(p, t),
         UNCHANGED <<row, snap, alloc, ledger, checkin>>,
         CloseLocks(t), AllocationLocks(t), t.rows = sess[p].rows,
         t.pc = "unfreeze" => /\ sess[p].pc = "unfreeze"
                              /\ t.todo \cup t.held \subseteq sess[p].todo \cup sess[p].held
  PROVE  CloseInv'
<1>1. ASSUME NEW q \in Procs \ {p} PROVE Apart(t, sess[q])
  BY DEF CloseInv, LocksApart, Apart
<1> QED
  BY <1>1, SessionStep

\* What the invariant says of the session that takes a step.
LEMMA OwnSession ==
  ASSUME CloseInv, NEW p \in Procs
  PROVE  /\ StateTypeOK /\ sess[p] \in Session
         /\ CloseLocks(sess[p]) /\ AllocationLocks(sess[p])
         /\ sess[p].pc \in StagesOf(sess[p].op)
         /\ sess[p].op = "finalize" => sess[p].month \in Months
BY DEF CloseInv, StateTypeOK, CloseLocks

LEMMA EditLookKeeps ==
  ASSUME CloseInv, NEW p \in Procs, EditLook(p)
  PROVE  CloseInv'
<1> DEFINE s == sess[p]
           t == [s EXCEPT !.pc = "checkin"]
<1>1. s \in Session /\ s.op = "checkin" /\ s.pc = "look"
  BY OwnSession DEF EditLook, StagesOf, Session
<1>2. /\ t \in Session /\ t.pc = "checkin" /\ t.op = s.op /\ t.month = s.month
      /\ t.rows = s.rows /\ t.held = s.held /\ t.snap = s.snap /\ t.new = s.new
  BY <1>1 DEF Session
<1>3. CloseLocks(t) /\ AllocationLocks(t)
  BY <1>1, <1>2, OwnSession DEF CloseLocks, AllocationLocks, StagesOf
<1>4. Go(p, t) /\ UNCHANGED <<row, snap, alloc, ledger, checkin>>
  BY DEF EditLook
<1> HIDE DEF t
<1> QED
  BY <1>2, <1>3, <1>4, ProceedStep

LEMMA ReadCurrentKeeps ==
  ASSUME CloseInv, NEW p \in Procs, ReadCurrent(p)
  PROVE  CloseInv'
<1> DEFINE s == sess[p]
           t == [s EXCEPT !.pc = "previous", !.new.status = "finalized",
                          !.new.observed = Executed(s.month)]
<1>1. s \in Session /\ s.op = "finalize" /\ s.pc = "current" /\ s.month \in Months
  BY OwnSession DEF ReadCurrent, StagesOf, Session
<1>2. [s.new EXCEPT !.status = "finalized", !.observed = Executed(s.month)] \in Row
  BY <1>1, ExecutedType, OwnSession DEF Session, Row, Statuses
<1>3. /\ t \in Session /\ t.pc = "previous" /\ t.op = s.op /\ t.month = s.month
      /\ t.rows = s.rows /\ t.held = s.held /\ t.todo = s.todo /\ t.snap = s.snap
  BY <1>1, <1>2 DEF Session
<1>4. CloseLocks(t) /\ AllocationLocks(t)
  BY <1>1, <1>3, OwnSession DEF CloseLocks, AllocationLocks, StagesOf
<1>5. Go(p, t) /\ UNCHANGED <<row, snap, alloc, ledger, checkin>>
  BY DEF ReadCurrent
<1> HIDE DEF t
<1> QED
  BY <1>3, <1>4, <1>5, ProceedStep

LEMMA ReadPreviousKeeps ==
  ASSUME CloseInv, NEW p \in Procs, ReadPrevious(p)
  PROVE  CloseInv'
<1> DEFINE s == sess[p]
           b == Boundary(s.month)
           t == [s EXCEPT !.pc = "preview", !.new.opening = b.opening, !.new.source = b.source]
<1>1. s \in Session /\ s.op = "finalize" /\ s.pc = "previous" /\ s.month \in Months
  BY OwnSession DEF ReadPrevious, StagesOf, Session
<1>2. [s.new EXCEPT !.opening = b.opening, !.source = b.source] \in Row
  BY <1>1, BoundaryType, OwnSession DEF Session, Row
<1>3. /\ t \in Session /\ t.pc = "preview" /\ t.op = s.op /\ t.month = s.month
      /\ t.rows = s.rows /\ t.held = s.held /\ t.todo = s.todo /\ t.snap = s.snap
  BY <1>1, <1>2 DEF Session
<1>4. CloseLocks(t) /\ AllocationLocks(t)
  BY <1>1, <1>3, OwnSession DEF CloseLocks, AllocationLocks, StagesOf
<1>5. Go(p, t) /\ UNCHANGED <<row, snap, alloc, ledger, checkin>>
  BY DEF ReadPrevious
<1> HIDE DEF t
<1> QED
  BY <1>3, <1>4, <1>5, ProceedStep

LEMMA FirstPreviewKeeps ==
  ASSUME CloseInv, NEW p \in Procs, NEW mode \in Modes, FirstPreview(p, mode)
  PROVE  CloseInv'
<1> DEFINE s == sess[p]
           prev == Latest(s.month)
           skip == [s EXCEPT !.pc = "commit"]
           late == [s EXCEPT !.pc = "commit", !.snap.exists = TRUE, !.snap.previous = prev]
           full == [s EXCEPT !.pc = "resolve", !.snap.exists = TRUE, !.todo = Refs(s.month, prev)]
<1>1. /\ s \in Session /\ s.op = "finalize" /\ s.pc = "preview" /\ s.month \in Months
      /\ s.held = {}
  BY OwnSession DEF FirstPreview, StagesOf, Session, AllocationLocks
<1>2. prev \in Months \cup {NoMonth} /\ Refs(s.month, prev) \subseteq AllocMonths
  BY <1>1, LatestType, RefsType
<1>3. /\ [s.snap EXCEPT !.exists = TRUE, !.previous = prev] \in Snapshot
      /\ [s.snap EXCEPT !.exists = TRUE] \in Snapshot
  BY <1>1, <1>2 DEF Session, Snapshot
<1>4. mode \in {"disabled", "not_ready", "ready"}
  BY ConstantsAssumption
<1>5. PICK t \in {skip, late, full} : Go(p, t)
  BY <1>4 DEF FirstPreview
<1>6. t \in Session /\ t.pc \in {"commit", "resolve"}
  <2>1. CASE t = skip
    BY <1>1, <2>1 DEF Session
  <2>2. CASE t = late
    BY <1>1, <1>2, <1>3, <2>2 DEF Session
  <2>3. CASE t = full
    BY <1>1, <1>2, <1>3, <2>3 DEF Session
  <2> QED BY <1>5, <2>1, <2>2, <2>3
<1>7. /\ t.op = s.op /\ t.month = s.month /\ t.rows = s.rows /\ t.held = {}
      /\ t.snap.moved = s.snap.moved
  <2>1. CASE t = skip
    BY <1>1, <2>1 DEF Session
  <2>2. CASE t = late
    BY <1>1, <2>2 DEF Session, Snapshot
  <2>3. CASE t = full
    BY <1>1, <2>3 DEF Session, Snapshot
  <2> QED BY <1>5, <2>1, <2>2, <2>3
<1>8. CloseLocks(t) /\ AllocationLocks(t)
  BY <1>1, <1>6, <1>7, OwnSession DEF CloseLocks, AllocationLocks, StagesOf
<1> QED
  BY <1>5, <1>6, <1>7, <1>8, ProceedStep DEF FirstPreview

LEMMA ResolveKeeps ==
  ASSUME CloseInv, NEW p \in Procs, NEW a \in AllocMonths, Resolve(p, a)
  PROVE  CloseInv'
<1> DEFINE s == sess[p]
           seen == [s EXCEPT !.todo = @ \ {a}, !.snap.links = @ \cup {a}]
           calc == [s EXCEPT !.pc = "store", !.mine[a] = Calculated(a)]
<1>1. s \in Session /\ s.op \in {"finalize", "allocation"} /\ s.pc = "resolve"
  BY OwnSession DEF Resolve, StagesOf, Session
<1>2. [s.snap EXCEPT !.links = @ \cup {a}] \in Snapshot
  BY <1>1 DEF Session, Snapshot
<1>3. [s.mine EXCEPT ![a] = Calculated(a)] \in [AllocMonths -> Nat]
  BY <1>1, CalculatedType, OwnSession DEF Session
<1>4. PICK t \in {seen, calc} : Go(p, t)
  BY DEF Resolve
<1>5. t \in Session /\ t.pc \in {"resolve", "store"}
  <2>1. CASE t = seen
    BY <1>1, <1>2, <2>1 DEF Session
  <2>2. CASE t = calc
    BY <1>1, <1>3, <2>2 DEF Session
  <2> QED BY <1>4, <2>1, <2>2
<1>6. /\ t.op = s.op /\ t.month = s.month /\ t.rows = s.rows /\ t.held = s.held
      /\ t.snap.moved = s.snap.moved /\ t.todo \subseteq s.todo
  <2>1. CASE t = seen
    BY <1>1, <2>1 DEF Session, Snapshot
  <2>2. CASE t = calc
    BY <1>1, <2>2 DEF Session
  <2> QED BY <1>4, <2>1, <2>2
<1>7. CloseLocks(t) /\ AllocationLocks(t)
  BY <1>1, <1>5, <1>6, OwnSession DEF CloseLocks, AllocationLocks, StagesOf
<1> QED
  BY <1>4, <1>5, <1>6, <1>7, ProceedStep DEF Resolve

LEMMA StoreKeeps ==
  ASSUME CloseInv, NEW p \in Procs, NEW a \in AllocMonths, Store(p, a)
  PROVE  CloseInv'
<1> DEFINE s == sess[p]
           t == [s EXCEPT !.pc = "resolve", !.todo = @ \ {a}, !.held = @ \cup {a},
                          !.snap.links = @ \cup {a}]
<1>1. s \in Session /\ s.op \in {"finalize", "allocation"} /\ s.pc = "store"
  BY OwnSession DEF Store, StagesOf, Session
<1>2. [s.snap EXCEPT !.links = @ \cup {a}] \in Snapshot
  BY <1>1 DEF Session, Snapshot
<1>3. t \in Session /\ t.pc = "resolve"
  BY <1>1, <1>2 DEF Session
<1>4. /\ t.op = s.op /\ t.month = s.month /\ t.rows = s.rows /\ t.held = s.held \cup {a}
      /\ t.snap.moved = s.snap.moved /\ t.todo = s.todo \ {a}
  BY <1>1 DEF Session, Snapshot
<1>5. ASSUME NEW h \in t.held, NEW b \in t.todo PROVE h < b
  <2>1. h \in Nat /\ b \in Nat /\ a \in Nat
    BY <1>1, <1>4, SessionFields, MonthFacts
  <2>2. b # a /\ b \in s.todo /\ a <= b
    BY <1>4 DEF Store
  <2>3. CASE h = a
    BY <2>1, <2>2, <2>3
  <2>4. CASE h \in s.held
    BY <1>1, <2>2, <2>4, OwnSession DEF AllocationLocks
  <2> QED BY <1>4, <2>3, <2>4
<1>6. CloseLocks(t) /\ AllocationLocks(t)
  BY <1>1, <1>3, <1>4, <1>5, OwnSession DEF CloseLocks, AllocationLocks, StagesOf
<1>7. Go(p, t) /\ UNCHANGED <<row, snap, alloc, ledger, checkin>>
  BY DEF Store
<1> HIDE DEF t
<1> QED
  BY <1>3, <1>4, <1>6, <1>7, ProceedStep

LEMMA SecondPreviewKeeps ==
  ASSUME CloseInv, NEW p \in Procs, NEW mode \in Modes, SecondPreview(p, mode)
  PROVE  CloseInv'
<1> DEFINE s == sess[p]
           prev == Latest(s.month)
           value(a) == IF a \in s.held THEN s.mine[a]
                       ELSE IF alloc[a].frozen THEN alloc[a].value ELSE Calculated(a)
           values == [a \in AllocMonths |-> IF a \in Refs(s.month, prev) THEN value(a) ELSE 0]
           t == [s EXCEPT !.pc = "commit", !.snap.ready = (mode = "ready"),
                          !.snap.previous = prev, !.snap.values = values]
<1>1. /\ s \in Session /\ s.op = "finalize" /\ s.pc = "resolve" /\ s.month \in Months
  BY OwnSession DEF SecondPreview
<1>2. ASSUME NEW a \in AllocMonths PROVE value(a) \in Nat
  BY <1>1, SessionFields, CalculatedType, OwnSession DEF StateTypeOK, Alloc
<1>3. values \in [AllocMonths -> Nat]
  <2> HIDE DEF value
  <2> QED BY <1>2
<1> HIDE DEF values
<1>4. [s.snap EXCEPT !.ready = (mode = "ready"), !.previous = prev, !.values = values]
        \in Snapshot
  BY <1>1, <1>3, LatestType DEF Session, Snapshot
<1>5. t \in Session /\ t.pc = "commit"
  BY <1>1, <1>4 DEF Session
<1>6. /\ t.op = s.op /\ t.month = s.month /\ t.rows = s.rows /\ t.held = s.held
      /\ t.snap.moved = s.snap.moved /\ t.todo = s.todo
  BY <1>1 DEF Session, Snapshot
<1>7. CloseLocks(t) /\ AllocationLocks(t)
  BY <1>1, <1>5, <1>6, OwnSession DEF CloseLocks, AllocationLocks, StagesOf
<1>8. Go(p, t) /\ UNCHANGED <<row, snap, alloc, ledger, checkin>>
  BY DEF SecondPreview, values
<1> HIDE DEF t
<1> QED
  BY <1>5, <1>6, <1>7, <1>8, ProceedStep

-----------------------------------------------------------------------------
(* Commits: the session ends and only what it locked has changed *)

LEMMA EndStep ==
  ASSUME CloseInv, NEW p \in Procs, End(p),
         row' \in [Months -> Row], snap' \in [Months -> Snapshot],
         alloc' \in [AllocMonths -> Alloc], UNCHANGED ledger,
         checkin' \in [Months -> Checkin \cup {NoCheckin}],
         \A m \in Months : row'[m].status = "draft" => ~snap'[m].moved,
         \A m \in Months \ sess[p].rows : row'[m] = row[m] /\ snap'[m] = snap[m]
  PROVE  CloseInv'
<1>1. /\ sess \in [Procs -> Session] /\ sess' \in [Procs -> Session] /\ sess'[p] = Idle
      /\ \A q \in Procs \ {p} : sess'[q] = sess[q]
  BY IdleSession DEF CloseInv, StateTypeOK, End
<1>2. \A s, u : Apart(s, u) => Apart(u, s)
  BY DEF Apart
<1>3. StateTypeOK'
  BY <1>1 DEF CloseInv, StateTypeOK
<1>4. LedgerGrows' /\ DraftsUnmoved'
  BY DEF CloseInv, LedgerGrows, DraftsUnmoved
<1>5. LocksApart'
  BY <1>1, <1>2, IdleSession DEF CloseInv, LocksApart
<1>6. ASSUME NEW q \in Procs
      PROVE  CloseLocks(sess[q])' /\ AllocationLocks(sess[q])'
  <2>1. CASE q = p
    <3>1. /\ Idle.pc = "idle" /\ Idle.op = "none" /\ ~Idle.snap.moved /\ Idle.rows = {}
          /\ Idle.held = {}
      BY InitialTypes DEF Idle
    <3> QED
      BY <1>1, <2>1, <3>1 DEF CloseLocks, AllocationLocks, StagesOf
  <2>2. CASE q # p
    <3> DEFINE s == sess[q]
    <3>1. s \in Session /\ s.rows \cap sess[p].rows = {} /\ s.rows \subseteq Months
      BY <1>1, <2>2, SessionFields DEF CloseInv, LocksApart, Apart
    <3>2. \A d \in s.rows : row'[d] = row[d] /\ snap'[d] = snap[d]
      BY <3>1
    <3>3. CloseLocks(s) /\ AllocationLocks(s) /\ sess'[q] = s
      BY <1>1, <2>2 DEF CloseInv
    <3>4. CloseLocks(sess[q])'
      BY <3>2, <3>3 DEF CloseLocks
    <3>5. LinksOf(s.rows) = UNION {snap'[d].links : d \in s.rows}
      BY <3>2 DEF LinksOf
    <3>6. AllocationLocks(sess[q])'
      BY <3>3, <3>5 DEF AllocationLocks, LinksOf
    <3> QED BY <3>4, <3>6
  <2> QED BY <2>1, <2>2
<1> QED
  BY <1>3, <1>4, <1>5, <1>6 DEF CloseInv

LEMMA StoredType ==
  ASSUME StateTypeOK, NEW p \in Procs, NEW freeze \in BOOLEAN
  PROVE  Stored(sess[p], freeze) \in [AllocMonths -> Alloc]
<1>1. sess[p].mine \in [AllocMonths -> Nat] /\ alloc \in [AllocMonths -> Alloc]
  BY SessionFields DEF StateTypeOK
<1> QED
  BY <1>1 DEF Stored, Alloc

LEMMA FinalizeCommitKeeps ==
  ASSUME CloseInv, NEW p \in Procs, FinalizeCommit(p)
  PROVE  CloseInv'
<1> DEFINE s == sess[p]
<1>1. /\ s \in Session /\ s.month \in Months /\ s.rows = {s.month} /\ ~s.snap.moved
      /\ s.new \in Row /\ s.snap \in Snapshot
  <2>1. s \in Session /\ s.op = "finalize"
    BY OwnSession DEF FinalizeCommit, StagesOf, Session
  <2> QED
    BY <2>1, OwnSession, SessionFields DEF CloseLocks
<1>2. row' \in [Months -> Row] /\ snap' \in [Months -> Snapshot]
  BY <1>1, OwnSession DEF FinalizeCommit, StateTypeOK
<1>3. alloc' \in [AllocMonths -> Alloc] /\ UNCHANGED <<ledger, checkin>> /\ End(p)
  BY StoredType, OwnSession DEF FinalizeCommit
<1>4. \A m \in Months \ s.rows : row'[m] = row[m] /\ snap'[m] = snap[m]
  BY <1>1, OwnSession DEF FinalizeCommit, StateTypeOK
<1>5. snap'[s.month] = s.snap
  BY <1>1, OwnSession DEF FinalizeCommit, StateTypeOK
<1>6. \A m \in Months : row'[m].status = "draft" => ~snap'[m].moved
  BY <1>1, <1>4, <1>5 DEF CloseInv, DraftsUnmoved
<1> QED
  BY <1>2, <1>3, <1>4, <1>6, OwnSession, EndStep DEF StateTypeOK

LEMMA AllocationCommitKeeps ==
  ASSUME CloseInv, NEW p \in Procs, AllocationCommit(p)
  PROVE  CloseInv'
<1>1. alloc' \in [AllocMonths -> Alloc] /\ UNCHANGED <<row, snap, ledger, checkin>> /\ End(p)
  BY StoredType, OwnSession DEF AllocationCommit
<1> QED
  BY <1>1, OwnSession, EndStep DEF StateTypeOK, CloseInv, DraftsUnmoved

LEMMA ReopenCommitKeeps ==
  ASSUME CloseInv, NEW p \in Procs, ReopenCommit(p)
  PROVE  CloseInv'
<1> DEFINE s == sess[p]
<1>1. s \in Session /\ s.rows \subseteq Months
  BY OwnSession, SessionFields
<1>2. row' \in [Months -> Row] /\ snap' \in [Months -> Snapshot]
  BY InitialTypes, OwnSession DEF ReopenCommit, StateTypeOK
<1>3. alloc' \in [AllocMonths -> Alloc] /\ UNCHANGED <<ledger, checkin>> /\ End(p)
  BY OwnSession DEF ReopenCommit, StateTypeOK, Alloc
<1>4. \A m \in Months \ s.rows : row'[m] = row[m] /\ snap'[m] = snap[m]
  BY DEF ReopenCommit
<1>5. \A m \in Months : row'[m].status = "draft" => ~snap'[m].moved
  BY <1>1, InitialTypes DEF ReopenCommit, CloseInv, DraftsUnmoved
<1> QED
  BY <1>2, <1>3, <1>4, <1>5, OwnSession, EndStep DEF StateTypeOK

LEMMA SaveCheckinKeeps ==
  ASSUME CloseInv, NEW p \in Procs, NEW i \in CheckinIds, SaveCheckin(p, i)
  PROVE  CloseInv'
<1> DEFINE s == sess[p]
<1>1. s \in Session /\ s.op = "checkin"
  BY OwnSession DEF SaveCheckin, StagesOf, Session
<1>2. s.month \in Months /\ s.new.observed \in CheckinValues
  BY <1>1, OwnSession DEF CloseLocks
<1>3. checkin' \in [Months -> Checkin \cup {NoCheckin}]
  BY <1>2, OwnSession DEF SaveCheckin, StateTypeOK, Checkin
<1>4. UNCHANGED <<row, snap, alloc, ledger>> /\ End(p)
  BY DEF SaveCheckin
<1> QED
  BY <1>3, <1>4, OwnSession, EndStep DEF StateTypeOK, CloseInv, DraftsUnmoved

-----------------------------------------------------------------------------
(* Reopening *)

LEMMA SelectLaterKeeps ==
  ASSUME CloseInv, NEW p \in Procs, SelectLater(p)
  PROVE  CloseInv'
<1> DEFINE s == sess[p]
           later == {d \in Months : d > s.month /\ Closed(d)}
           t == [s EXCEPT !.pc = "wait", !.later = later]
<1>1. s \in Session /\ s.op = "reopen" /\ s.pc = "select"
  BY OwnSession DEF SelectLater, StagesOf, Session
<1>2. /\ t \in Session /\ t.pc = "wait" /\ t.op = "reopen" /\ t.month = s.month
      /\ t.rows = s.rows /\ t.held = s.held /\ t.snap = s.snap /\ t.later = later
  BY <1>1 DEF Session
<1>3. CloseLocks(t) /\ AllocationLocks(t)
  BY <1>1, <1>2, OwnSession DEF CloseLocks, AllocationLocks, StagesOf
<1>4. Go(p, t) /\ UNCHANGED <<row, snap, alloc, ledger, checkin>>
  BY DEF SelectLater
<1> HIDE DEF t
<1> QED
  BY <1>2, <1>3, <1>4, ProceedStep

LEMMA LockLaterKeeps ==
  ASSUME CloseInv, NEW p \in Procs, LockLater(p)
  PROVE  CloseInv'
<1> DEFINE s == sess[p]
           rows == s.rows \cup StillClosed(s)
           t == [s EXCEPT !.pc = "clear", !.rows = rows]
<1>1. s \in Session /\ s.op = "reopen" /\ s.pc = "wait"
  BY OwnSession DEF LockLater, StagesOf, Session
<1>2. StillClosed(s) \subseteq Months /\ rows \subseteq Months
  BY <1>1, SessionFields DEF StillClosed
<1>3. /\ t \in Session /\ t.pc = "clear" /\ t.op = "reopen" /\ t.month = s.month
      /\ t.rows = rows /\ t.held = s.held /\ t.snap = s.snap
  BY <1>1, <1>2 DEF Session
<1>4. \A d \in StillClosed(s) : RowFree(d) /\ row[d].status = "finalized"
  BY DEF LockLater, StillClosed, Closed
<1>5. CloseLocks(t) /\ AllocationLocks(t)
  BY <1>1, <1>3, <1>4, OwnSession DEF CloseLocks, AllocationLocks, StagesOf
<1>6. Go(p, t) /\ UNCHANGED <<row, snap, alloc, ledger, checkin>>
  BY DEF LockLater
<1> HIDE DEF t
<1> QED
  BY <1>3, <1>4, <1>5, <1>6, StartStep

\* Reopenings take allocation rows apart from each other: each only those that no
\* other close than its own refers to.
LEMMA ClearKeeps ==
  ASSUME CloseInv, NEW p \in Procs, Clear(p)
  PROVE  CloseInv'
<1> DEFINE s == sess[p]
           todo == LinksOf(s.rows) \ LinksOf(Months \ s.rows)
           t == [s EXCEPT !.pc = "unfreeze", !.todo = todo]
<1>1. s \in Session /\ s.op = "reopen" /\ s.pc = "clear" /\ s.held = {}
  BY OwnSession DEF Clear, StagesOf, Session, AllocationLocks
<1>2. todo \subseteq AllocMonths
  BY <1>1, SessionFields, OwnSession DEF LinksOf, StateTypeOK, Snapshot
<1>3. /\ t \in Session /\ t.pc = "unfreeze" /\ t.op = "reopen" /\ t.month = s.month
      /\ t.rows = s.rows /\ t.held = {} /\ t.todo = todo /\ t.snap = s.snap
  BY <1>1, <1>2 DEF Session
<1>4. CloseLocks(t) /\ AllocationLocks(t)
  BY <1>1, <1>3, OwnSession DEF Clear, CloseLocks, AllocationLocks, StagesOf
<1>5. ASSUME NEW q \in Procs \ {p} PROVE Apart(t, sess[q])
  <2> DEFINE u == sess[q]
  <2>1. u \in Session /\ s.rows \cap u.rows = {} /\ u.rows \subseteq Months
    BY SessionFields DEF CloseInv, StateTypeOK, LocksApart, Apart
  <2>2. u.pc = "unfreeze" => u.todo \cup u.held \subseteq LinksOf(u.rows)
    BY DEF CloseInv, AllocationLocks
  <2>3. LinksOf(u.rows) \subseteq LinksOf(Months \ s.rows)
    BY <2>1 DEF LinksOf
  <2> QED
    BY <1>3, <2>1, <2>2, <2>3 DEF Apart
<1>6. Go(p, t) /\ UNCHANGED <<row, snap, alloc, ledger, checkin>>
  BY DEF Clear, LinksOf
<1> HIDE DEF t
<1> QED
  BY <1>3, <1>4, <1>5, <1>6, SessionStep

LEMMA UnfreezeKeeps ==
  ASSUME CloseInv, NEW p \in Procs, NEW a \in AllocMonths, Unfreeze(p, a)
  PROVE  CloseInv'
<1> DEFINE s == sess[p]
           t == [s EXCEPT !.todo = @ \ {a}, !.held = @ \cup {a}]
<1>1. /\ s \in Session /\ s.op = "reopen" /\ s.pc = "unfreeze" /\ a \in s.todo
  BY OwnSession DEF Unfreeze, StagesOf, Session, UnfrozenNext
<1>2. /\ t \in Session /\ t.pc = "unfreeze" /\ t.op = "reopen" /\ t.month = s.month
      /\ t.rows = s.rows /\ t.snap = s.snap
      /\ t.held = s.held \cup {a} /\ t.todo = s.todo \ {a}
  BY <1>1 DEF Session
<1>3. CloseLocks(t) /\ AllocationLocks(t)
  BY <1>1, <1>2, OwnSession DEF CloseLocks, AllocationLocks, StagesOf
<1>4. Go(p, t) /\ UNCHANGED <<row, snap, alloc, ledger, checkin>>
  BY DEF Unfreeze
<1> HIDE DEF t
<1> QED
  BY <1>1, <1>2, <1>3, <1>4, ProceedStep

-----------------------------------------------------------------------------
(* One-statement operations *)

\* Nothing that a request has locked, and no session, is changed.
LEMMA StatementStep ==
  ASSUME CloseInv, UNCHANGED sess,
         row' \in [Months -> Row], snap' \in [Months -> Snapshot], UNCHANGED alloc,
         ledger' \in [Months -> 0..MaxPosts], LedgerGrows',
         checkin' \in [Months -> Checkin \cup {NoCheckin}],
         \A m \in Months : row'[m].status = "draft" => ~snap'[m].moved,
         \A m \in Months : snap'[m].links = snap[m].links,
         \A q \in Procs : \A d \in sess[q].rows :
           row'[d] = row[d] /\ (sess[q].pc = "unfreeze" => snap'[d].moved = snap[d].moved)
  PROVE  CloseInv'
<1>1. StateTypeOK' /\ LocksApart'
  BY DEF CloseInv, StateTypeOK, LocksApart, Apart
<1>2. DraftsUnmoved'
  BY DEF DraftsUnmoved
<1>3. ASSUME NEW q \in Procs
      PROVE  CloseLocks(sess[q])' /\ AllocationLocks(sess[q])'
  <2> DEFINE s == sess[q]
  <2>1. CloseLocks(s) /\ AllocationLocks(s) /\ s \in Session /\ s.rows \subseteq Months
    BY SessionFields DEF CloseInv, StateTypeOK
  <2>2. CloseLocks(sess[q])'
    BY <2>1 DEF CloseLocks
  <2>3. LinksOf(s.rows) = UNION {snap'[d].links : d \in s.rows}
    BY <2>1 DEF LinksOf
  <2>4. AllocationLocks(sess[q])'
    BY <2>1, <2>3 DEF AllocationLocks, LinksOf
  <2> QED BY <2>2, <2>4
<1> QED
  BY <1>1, <1>2, <1>3 DEF CloseInv

LEMMA LockCloseKeeps ==
  ASSUME CloseInv, NEW m \in Months, LockClose(m)
  PROVE  CloseInv'
<1>1. [row[m] EXCEPT !.status = "locked"] \in Row
  BY DEF CloseInv, StateTypeOK, Row, Statuses
<1>2. row' \in [Months -> Row] /\ \A d \in Months \ {m} : row'[d] = row[d]
  BY <1>1 DEF LockClose, CloseInv, StateTypeOK
<1>3. row'[m].status = "locked"
  BY <1>1 DEF LockClose, CloseInv, StateTypeOK, Row
<1>4. ASSUME NEW q \in Procs, NEW d \in sess[q].rows
      PROVE  row'[d] = row[d]
  BY <1>2, SessionFields DEF LockClose, RowFree, CloseInv, StateTypeOK
<1>5. \A d \in Months : row'[d].status = "draft" => ~snap'[d].moved
  BY <1>2, <1>3 DEF LockClose, CloseInv, DraftsUnmoved
<1>6. /\ UNCHANGED <<sess, snap, alloc, ledger, checkin>> /\ LedgerGrows'
      /\ snap \in [Months -> Snapshot] /\ ledger \in [Months -> 0..MaxPosts]
      /\ checkin \in [Months -> Checkin \cup {NoCheckin}]
  BY DEF LockClose, CloseInv, StateTypeOK, LedgerGrows
<1> QED
  BY <1>2, <1>4, <1>5, <1>6, StatementStep

LEMMA SettleKeeps ==
  ASSUME CloseInv, NEW m \in Months, Settle(m)
  PROVE  CloseInv'
<1>1. [snap[m] EXCEPT !.moved = TRUE] \in Snapshot
  BY DEF CloseInv, StateTypeOK, Snapshot
<1>2. snap' \in [Months -> Snapshot] /\ \A d \in Months \ {m} : snap'[d] = snap[d]
  BY <1>1 DEF Settle, CloseInv, StateTypeOK
<1>3. snap'[m].links = snap[m].links
  BY <1>1 DEF Settle, CloseInv, StateTypeOK, Snapshot
<1>4. ASSUME NEW q \in Procs, NEW d \in sess[q].rows, sess[q].pc = "unfreeze"
      PROVE  snap'[d].moved = snap[d].moved
  BY <1>2, <1>4, SessionFields DEF Settle, CloseInv, StateTypeOK
<1>5. \A d \in Months : row'[d].status = "draft" => ~snap'[d].moved
  BY <1>2 DEF Settle, CloseInv, DraftsUnmoved
<1>6. /\ UNCHANGED <<sess, row, alloc, ledger, checkin>> /\ LedgerGrows'
      /\ row \in [Months -> Row] /\ ledger \in [Months -> 0..MaxPosts]
      /\ checkin \in [Months -> Checkin \cup {NoCheckin}]
  BY DEF Settle, CloseInv, StateTypeOK, LedgerGrows
<1> QED
  BY <1>2, <1>3, <1>4, <1>5, <1>6, StatementStep

LEMMA PostMovementKeeps ==
  ASSUME CloseInv, NEW m \in Months, PostMovement(m)
  PROVE  CloseInv'
<1>1. \A k \in Months : ledger[k] \in 0..MaxPosts /\ ledger[k] <= ledger[LastMonth]
  BY DEF CloseInv, StateTypeOK, LedgerGrows
<1>2. \A k \in Months : ledger'[k] = IF k >= m THEN ledger[k] + 1 ELSE ledger[k]
  BY DEF PostMovement
<1>3. ledger[LastMonth] < MaxPosts
  BY DEF PostMovement
<1>4. ASSUME NEW k \in Months PROVE ledger'[k] \in 0..MaxPosts
  BY <1>1, <1>2, <1>3, MonthFacts
<1>5. ledger' \in [Months -> 0..MaxPosts]
  BY <1>4 DEF PostMovement
<1>6. LedgerGrows'
  BY <1>1, <1>2, MonthFacts DEF LedgerGrows
<1>7. /\ UNCHANGED <<sess, row, snap, alloc, checkin>>
      /\ row \in [Months -> Row] /\ snap \in [Months -> Snapshot]
      /\ checkin \in [Months -> Checkin \cup {NoCheckin}]
      /\ \A d \in Months : row[d].status = "draft" => ~snap[d].moved
  BY DEF PostMovement, CloseInv, StateTypeOK, DraftsUnmoved
<1> QED
  BY <1>5, <1>6, <1>7, StatementStep

LEMMA DeleteCheckinKeeps ==
  ASSUME CloseInv, NEW m \in Months, DeleteCheckin(m)
  PROVE  CloseInv'
<1>1. checkin' \in [Months -> Checkin \cup {NoCheckin}]
  BY DEF DeleteCheckin, CloseInv, StateTypeOK
<1>2. /\ UNCHANGED <<sess, row, snap, alloc, ledger>> /\ LedgerGrows'
      /\ row \in [Months -> Row] /\ snap \in [Months -> Snapshot]
      /\ ledger \in [Months -> 0..MaxPosts]
      /\ \A d \in Months : row[d].status = "draft" => ~snap[d].moved
  BY DEF DeleteCheckin, CloseInv, StateTypeOK, DraftsUnmoved, LedgerGrows
<1> QED
  BY <1>1, <1>2, StatementStep

-----------------------------------------------------------------------------
(* The invariant holds in every reachable state *)

LEMMA CloseInitially == Init => CloseInv
<1> SUFFICES ASSUME Init PROVE CloseInv
  OBVIOUS
<1>1. StateTypeOK
  BY InitialTypes, MonthFacts DEF Init, StateTypeOK, Alloc
<1>2. LedgerGrows /\ DraftsUnmoved
  BY InitialTypes, MonthFacts DEF Init, LedgerGrows, DraftsUnmoved
<1>3. \A p \in Procs : sess[p] = Idle
  BY DEF Init
<1>4. LocksApart
  BY <1>3, IdleSession DEF LocksApart
<1>5. \A p \in Procs : CloseLocks(sess[p]) /\ AllocationLocks(sess[p])
  BY <1>3, IdleSession
<1> QED
  BY <1>1, <1>2, <1>4, <1>5 DEF CloseInv

LEMMA CloseKept == CloseInv /\ [Next]_vars => CloseInv'
<1> SUFFICES ASSUME CloseInv, [Next]_vars PROVE CloseInv'
  OBVIOUS
<1>1. ASSUME NEW p \in Procs, Starts(p) PROVE CloseInv'
  BY <1>1, FinalizeStartKeeps, ReopenStartKeeps, CheckinStartKeeps, EditStartKeeps,
     AllocationStartKeeps
  DEF Starts
<1>2. ASSUME NEW p \in Procs, Proceeds(p) PROVE CloseInv'
  BY <1>2, ReadCurrentKeeps, ReadPreviousKeeps, FirstPreviewKeeps, SecondPreviewKeeps,
     ResolveKeeps, FinalizeCommitKeeps, AllocationCommitKeeps, SelectLaterKeeps, ClearKeeps,
     ReopenCommitKeeps, EditLookKeeps, SaveCheckinKeeps
  DEF Proceeds
<1>3. ASSUME NEW p \in Procs, Waits(p) PROVE CloseInv'
  BY <1>3, LockLaterKeeps, StoreKeeps, UnfreezeKeeps DEF Waits
<1>4. ASSUME NEW m \in Months, LockClose(m) \/ Settle(m) \/ PostMovement(m) \/ DeleteCheckin(m)
      PROVE  CloseInv'
  BY <1>4, LockCloseKeeps, SettleKeeps, PostMovementKeeps, DeleteCheckinKeeps
<1>5. CASE UNCHANGED vars
  <2>1. /\ UNCHANGED <<row, snap, alloc, ledger, checkin, sess>>
    BY <1>5 DEF vars
  <2> QED
    BY <2>1, StatementStep DEF CloseInv, StateTypeOK, LedgerGrows, DraftsUnmoved
<1> QED
  BY <1>1, <1>2, <1>3, <1>4, <1>5, RollbackKeeps DEF Next

\* Every request holds what it locked as it found it, and no two hold the same row
\* of a close, whatever requests are served at one time.
THEOREM CloseInvCorrect == Spec => []CloseInv
BY CloseInitially, CloseKept, PTL DEF Spec

\* The history speaks of requests and months that exist.
LEMMA HistoryKept ==
  ASSUME CloseInv, TypeOK, [Next]_vars
  PROVE  TypeOK'
<1>1. StateTypeOK'
  BY CloseKept DEF CloseInv
<1>2. ASSUME NEW p \in Procs, Starts(p) \/ Waits(p) \/ Rollback(p)
      PROVE  behind' \subseteq Procs /\ unseen' \subseteq Months
  BY <1>2 DEF Starts, FinalizeStart, ReopenStart, CheckinStart, EditStart, AllocationStart,
     Waits, LockLater, Store, Unfreeze, Rollback, Looked, history, TypeOK
<1>3. ASSUME NEW p \in Procs, Proceeds(p)
      PROVE  behind' \subseteq Procs /\ unseen' \subseteq Months
  <2>1. ASSUME NEW i \in CheckinIds, SaveCheckin(p, i) PROVE sess[p].month \in Months
    BY <2>1, OwnSession DEF SaveCheckin, CloseLocks, StagesOf, Session
  <2> QED
    BY <1>3, <2>1 DEF Proceeds, ReadCurrent, ReadPrevious, FirstPreview, SecondPreview, Resolve,
       FinalizeCommit, AllocationCommit, SelectLater, Clear, ReopenCommit, EditLook, SaveCheckin,
       Looked, history, TypeOK
<1>4. ASSUME NEW m \in Months, LockClose(m) \/ Settle(m) \/ PostMovement(m) \/ DeleteCheckin(m)
      PROVE  behind' \subseteq Procs /\ unseen' \subseteq Months
  BY <1>4 DEF LockClose, Settle, PostMovement, DeleteCheckin, history, TypeOK
<1>5. CASE UNCHANGED vars
  BY <1>1, <1>5 DEF vars, history, TypeOK
<1> QED
  BY <1>1, <1>2, <1>3, <1>4, <1>5 DEF Next, TypeOK

\* The variables keep their types: a preview, a boundary or an allocation is only
\* ever calculated of months that exist.
THEOREM CloseTypeCorrect == Spec => []TypeOK
<1>1. Init => TypeOK
  BY CloseInitially DEF Init, CloseInv, TypeOK
<1> QED
  BY <1>1, HistoryKept, CloseInvCorrect, PTL DEF Spec

-----------------------------------------------------------------------------
(* What happens to a close in a step *)

LEMMA OtherSteps ==
  ASSUME [Next]_vars
  PROVE  \/ UNCHANGED <<row, snap>>
         \/ \E p \in Procs : FinalizeCommit(p) \/ ReopenCommit(p)
         \/ \E m \in Months : LockClose(m) \/ Settle(m)
<1>1. ASSUME NEW p \in Procs, Starts(p) PROVE UNCHANGED <<row, snap>>
  BY <1>1 DEF Starts, FinalizeStart, ReopenStart, CheckinStart, EditStart,
     AllocationStart
<1>2. ASSUME NEW p \in Procs, Proceeds(p)
      PROVE  UNCHANGED <<row, snap>> \/ FinalizeCommit(p) \/ ReopenCommit(p)
  BY <1>2 DEF Proceeds, ReadCurrent, ReadPrevious, FirstPreview, SecondPreview, Resolve,
     AllocationCommit, SelectLater, Clear, EditLook, SaveCheckin
<1>3. ASSUME NEW p \in Procs, Waits(p) \/ Rollback(p) PROVE UNCHANGED <<row, snap>>
  BY <1>3 DEF Waits, LockLater, Store, Unfreeze, Rollback
<1>4. ASSUME NEW m \in Months, PostMovement(m) \/ DeleteCheckin(m) PROVE UNCHANGED <<row, snap>>
  BY <1>4 DEF PostMovement, DeleteCheckin
<1>5. CASE UNCHANGED vars
  BY <1>5 DEF vars
<1> QED
  BY <1>1, <1>2, <1>3, <1>4, <1>5 DEF Next

LEMMA FinalizedRow ==
  ASSUME CloseInv, NEW p \in Procs, FinalizeCommit(p)
  PROVE  /\ sess[p].month \in Months /\ row[sess[p].month].status = "draft"
         /\ \A m \in Months \ {sess[p].month} : row'[m] = row[m] /\ snap'[m] = snap[m]
<1>1. sess[p] \in Session /\ sess[p].op = "finalize"
  BY OwnSession DEF FinalizeCommit, StagesOf, Session
<1> QED
  BY <1>1, OwnSession DEF FinalizeCommit, StateTypeOK, CloseLocks

LEMMA ReopenedRows ==
  ASSUME CloseInv, NEW p \in Procs, ReopenCommit(p)
  PROVE  /\ \A m \in Months \ sess[p].rows : row'[m] = row[m] /\ snap'[m] = snap[m]
         /\ \A m \in Months \cap sess[p].rows :
              row[m].status = "finalized" /\ ~snap[m].moved /\ row'[m] = Draft
<1>1. sess[p] \in Session /\ sess[p].op = "reopen" /\ sess[p].pc = "unfreeze"
  BY OwnSession DEF ReopenCommit, StagesOf, Session
<1> QED
  BY <1>1, OwnSession DEF ReopenCommit, CloseLocks

\* A locked close never changes and a finalized one only ever becomes locked or a
\* draft without figures, however many requests finalize and reopen at one time:
\* each writes the close rows it locked, which are still as it found them.
THEOREM FrozenCorrect == Spec => ClosedIsFrozen
<1>1. ASSUME CloseInv, [Next]_vars, NEW m \in Months
      PROVE  /\ row[m].status = "locked" => row'[m] = row[m]
             /\ row[m].status = "finalized" =>
                  row'[m] \in {row[m], [row[m] EXCEPT !.status = "locked"], Draft}
  <2>1. ASSUME NEW p \in Procs, FinalizeCommit(p)
        PROVE  row[m].status # "draft" => row'[m] = row[m]
    BY <1>1, <2>1, FinalizedRow
  <2>2. ASSUME NEW p \in Procs, ReopenCommit(p)
        PROVE  row'[m] = row[m] \/ (row[m].status = "finalized" /\ row'[m] = Draft)
    BY <1>1, <2>2, ReopenedRows
  <2>3. ASSUME NEW d \in Months, LockClose(d)
        PROVE  \/ row'[m] = row[m]
               \/ row[m].status = "finalized" /\ row'[m] = [row[m] EXCEPT !.status = "locked"]
    BY <1>1, <2>3 DEF LockClose, CloseInv, StateTypeOK
  <2>4. ASSUME NEW d \in Months, Settle(d) PROVE row'[m] = row[m]
    BY <2>4 DEF Settle
  <2> QED
    BY <1>1, <2>1, <2>2, <2>3, <2>4, OtherSteps
<1>2. CloseInv /\ [Next]_vars =>
        [\A m \in Months :
           /\ row[m].status = "locked" => row'[m] = row[m]
           /\ row[m].status = "finalized" =>
                row'[m] \in {row[m], [row[m] EXCEPT !.status = "locked"], Draft}]_vars
  BY <1>1
<1> QED
  BY <1>2, CloseInvCorrect, PTL DEF Spec, ClosedIsFrozen

\* A close with a settlement movement stays closed and keeps its snapshot: a
\* reopening cannot take it, not even as a later month of another one or when the
\* movement is booked while the reopening runs.
THEOREM MovedCorrect == Spec => MovedClosesStay
<1>1. ASSUME CloseInv, [Next]_vars, NEW m \in Months, snap[m].moved
      PROVE  Closed(m) /\ Closed(m)' /\ snap'[m] = snap[m]
  <2>1. row[m].status \in Statuses \ {"draft"}
    BY <1>1 DEF CloseInv, StateTypeOK, Row, DraftsUnmoved
  <2>2. ASSUME NEW p \in Procs, FinalizeCommit(p)
        PROVE  row'[m] = row[m] /\ snap'[m] = snap[m]
    BY <1>1, <2>1, <2>2, FinalizedRow
  <2>3. ASSUME NEW p \in Procs, ReopenCommit(p)
        PROVE  row'[m] = row[m] /\ snap'[m] = snap[m]
    BY <1>1, <2>3, ReopenedRows
  <2>4. ASSUME NEW d \in Months, LockClose(d)
        PROVE  row'[m].status \in {row[m].status, "locked"} /\ snap'[m] = snap[m]
    <3>1. row'[d].status = "locked" /\ (m # d => row'[m] = row[m])
      BY <1>1, <2>4 DEF LockClose, CloseInv, StateTypeOK, Row
    <3> QED BY <2>4, <3>1 DEF LockClose
  <2>5. ASSUME NEW d \in Months, Settle(d)
        PROVE  row'[m] = row[m] /\ snap'[m] = snap[m]
    <3>1. snap[m].moved = TRUE
      BY <1>1 DEF CloseInv, StateTypeOK, Snapshot
    <3>2. [snap[m] EXCEPT !.moved = TRUE] = snap[m]
      BY <1>1, <3>1 DEF CloseInv, StateTypeOK, Snapshot
    <3> QED BY <1>1, <2>5, <3>2 DEF Settle, CloseInv, StateTypeOK
  <2> QED
    BY <1>1, <2>1, <2>2, <2>3, <2>4, <2>5, OtherSteps DEF Closed, Statuses
<1>2. CloseInv /\ [Next]_vars =>
        [\A m \in Months : snap[m].moved => Closed(m) /\ Closed(m)' /\ snap'[m] = snap[m]]_vars
  BY <1>1
<1> QED
  BY <1>2, CloseInvCorrect, PTL DEF Spec, MovedClosesStay

\* What is closed stays as it was closed, whatever requests overlap.
THEOREM ClosedStayCorrect == Spec => ClosedStay
  BY FrozenCorrect, MovedCorrect DEF ClosedStay

-----------------------------------------------------------------------------
(* Two requests never wait for each other *)

\* No two requests wait for each other, on close rows and allocation rows together,
\* as long as what closes refer to is frozen and not written over: finalizations
\* store allocations from the earliest month on, a reopening that waits for later
\* closes has no allocations yet, and reopenings unfreeze different allocations.
THEOREM WaitingCorrect == Spec => []NoCircularWait
<1>1. ASSUME CloseInv, LinksFrozen, NEW p \in Procs, NEW q \in Procs,
             ~Overwrites(p), ~Overwrites(q), WaitsFor(p, q), WaitsFor(q, p)
      PROVE  FALSE
  <2> DEFINE s == sess[p]
             t == sess[q]
  <2>1. p # q /\ Apart(s, t) /\ Apart(t, s)
    BY <1>1 DEF WaitsFor, CloseInv, LocksApart
  <2>2. /\ s \in Session /\ t \in Session
        /\ CloseLocks(s) /\ CloseLocks(t) /\ AllocationLocks(s) /\ AllocationLocks(t)
    BY <1>1, OwnSession
  <2>3. /\ s.pc \in {"store", "wait", "unfreeze"} /\ t.pc \in {"store", "wait", "unfreeze"}
        /\ (s.pc = "store" => s.op \in {"finalize", "allocation"})
        /\ (t.pc = "store" => t.op \in {"finalize", "allocation"})
        /\ (s.pc \in {"wait", "unfreeze"} => s.op = "reopen")
        /\ (t.pc \in {"wait", "unfreeze"} => t.op = "reopen")
    BY <1>1, <2>2 DEF WaitsFor, CloseLocks, StagesOf, Session
  <2>4. CASE s.pc = "store" /\ t.pc = "store"
    <3>1. PICK a \in s.todo \cap t.held : TRUE
      BY <1>1, <2>4 DEF WaitsFor
    <3>2. PICK b \in t.todo \cap s.held : TRUE
      BY <1>1, <2>4 DEF WaitsFor
    <3>3. a < b /\ b < a
      BY <2>2, <2>3, <2>4, <3>1, <3>2 DEF AllocationLocks
    <3>4. a \in Nat /\ b \in Nat
      <4>1. s.todo \subseteq AllocMonths /\ t.todo \subseteq AllocMonths
        BY <2>2, SessionFields
      <4> QED BY <4>1, <3>1, <3>2, MonthFacts
    <3> QED
      BY <3>3, <3>4
  <2>5. CASE s.pc = "wait" /\ t.pc = "wait"
    <3>1. s.rows = {s.month} /\ t.rows = {t.month}
      BY <2>2, <2>5 DEF CloseLocks
    <3>2. t.month \in s.later /\ s.month \in t.later
      BY <1>1, <2>5, <3>1 DEF WaitsFor
    <3>3. t.month > s.month /\ s.month > t.month
      BY <2>2, <2>5, <3>2 DEF CloseLocks
    <3>4. s.month \in Nat /\ t.month \in Nat
      <4>1. s.later \subseteq Months /\ t.later \subseteq Months
        BY <2>2, SessionFields
      <4> QED BY <4>1, <3>2, MonthFacts
    <3> QED
      BY <3>3, <3>4
  <2>6. CASE s.pc = "unfreeze" /\ t.pc = "unfreeze"
    <3>1. PICK a \in t.held : a \in s.todo
      BY <1>1, <2>6 DEF WaitsFor, UnfrozenNext
    <3> QED
      BY <2>1, <2>6, <3>1 DEF Apart
  <2>7. ASSUME NEW x \in Procs, NEW y \in Procs, WaitsFor(x, y), sess[y].pc = "wait",
               sess[x].pc # "wait"
        PROVE  FALSE
    <3>1. sess[y].held = {}
      BY <1>1, <2>7, OwnSession DEF AllocationLocks
    <3> QED
      BY <2>7, <3>1 DEF WaitsFor
  <2>8. ASSUME NEW x \in Procs, NEW y \in Procs, WaitsFor(x, y), ~Overwrites(y),
               sess[x].pc = "unfreeze", sess[y].op # "reopen"
        PROVE  FALSE
    <3>1. PICK a \in sess[y].held : a \in sess[x].todo
      BY <2>8 DEF WaitsFor, UnfrozenNext
    <3>2. a \in LinksOf(sess[x].rows)
      BY <1>1, <2>8, <3>1, OwnSession DEF AllocationLocks
    <3>3. alloc[a].frozen
      BY <1>1, <3>2, OwnSession, SessionFields DEF LinksFrozen, LinksOf
    <3> QED
      BY <2>8, <3>1, <3>3 DEF Overwrites
  <2> QED
    BY <1>1, <2>3, <2>4, <2>5, <2>6, <2>7, <2>8
<1>2. CloseInv => NoCircularWait
  BY <1>1 DEF NoCircularWait
<1> QED
  BY <1>2, CloseInvCorrect, PTL

-----------------------------------------------------------------------------
(* Requests that do not overlap *)

OneRequest == \A p, q \in Procs : p = q

DraftsBlank == \A m \in Months : row[m].status = "draft" => row[m] = Draft /\ snap[m] = NoSnapshot
OpensInside == \A m \in Months : row[m].source = "close" => m - 1 \in Months

\* What a request has read is still so, and what it has gathered is what it needs:
\* the boundary and the settlement it opens from, the allocations it found frozen or
\* is to write, all later closes and the allocations only they refer to.
Opens(s) ==
  s.new.source = "close" =>
    s.month - 1 \in Months /\ Closed(s.month - 1) /\ s.new.opening = row[s.month - 1].observed
Follows(s) ==
  s.snap.exists /\ s.snap.previous # NoMonth =>
    s.snap.previous < s.month /\ Closed(s.snap.previous) /\ snap[s.snap.previous].ready
Gathered(s) ==
  /\ s.held \subseteq s.snap.links
  /\ \A a \in s.snap.links : IF a \in s.held THEN ~alloc[a].frozen ELSE alloc[a].frozen
Uses(s) ==
  \A a \in s.snap.links : a \in Refs(s.month, s.snap.previous) =>
    s.snap.values[a] = IF a \in s.held THEN s.mine[a] ELSE alloc[a].value
UpToDate(s) ==
  /\ s.pc \in {"current", "previous", "preview"} => s.snap = NoSnapshot
  /\ s.op = "finalize" /\ s.pc # "current" => s.new.status = "finalized"
  /\ s.op = "finalize" /\ s.pc \in {"preview", "resolve", "store", "commit"} => Opens(s)
  /\ s.op \in {"finalize", "allocation"} => Gathered(s)
  /\ s.pc = "store" => \A a \in s.todo : (\A b \in s.todo : a <= b) => ~alloc[a].frozen
  /\ s.pc = "commit" => Follows(s) /\ Uses(s)
  /\ s.pc = "wait" => s.later = {d \in Months : d > s.month /\ Closed(d)}
  /\ s.pc \in {"clear", "unfreeze"} => s.rows = {d \in Months : d >= s.month /\ Closed(d)}
  /\ s.pc = "unfreeze" => s.todo \cup s.held = LinksOf(s.rows) \ LinksOf(Months \ s.rows)

ChainParts == BoundaryHolds /\ SettlementChainHolds /\ FrozenAllocationsHold
              /\ DraftsBlank /\ OpensInside

\* Inductive as long as requests do not overlap.
ChainInv == ChainParts /\ \A p \in Procs : UpToDate(sess[p])

-----------------------------------------------------------------------------
(* Steps of the request that change nothing but its session *)

LEMMA IdleUpToDate == UpToDate(Idle) /\ UpToDate(Idle)'
<1>1. Idle.pc = "idle" /\ Idle.op = "none"
  BY DEF Idle
<1> QED BY <1>1 DEF UpToDate

LEMMA AloneStep ==
  ASSUME OneRequest, CloseInv, ChainInv, NEW p \in Procs, NEW t \in Session, Go(p, t),
         UNCHANGED <<row, snap, alloc, ledger, checkin>>, UpToDate(t)
  PROVE  ChainInv'
<1>1. /\ sess' \in [Procs -> Session] /\ sess'[p] = t /\ \A q \in Procs : q = p
  BY DEF CloseInv, StateTypeOK, Go, OneRequest
<1>2. ChainParts'
  BY DEF ChainInv, ChainParts, BoundaryHolds, SettlementChainHolds, FrozenAllocationsHold,
     DraftsBlank, OpensInside, Closed
<1>3. ASSUME NEW q \in Procs PROVE UpToDate(sess[q])'
  <2>1. UpToDate(sess'[q])
    BY <1>1
  <2> QED BY <2>1 DEF UpToDate, Opens, Follows, Gathered, Uses, Closed, LinksOf
<1> QED
  BY <1>2, <1>3 DEF ChainInv

LEMMA LatestFacts ==
  ASSUME NEW m \in Months
  PROVE  Latest(m) # NoMonth =>
           /\ Latest(m) \in Months /\ Latest(m) < m
           /\ Closed(Latest(m)) /\ snap[Latest(m)].ready
<1> DEFINE closes == {d \in Months : d < m /\ Closed(d) /\ snap[d].exists /\ snap[d].ready}
           T == {NoMonth} \cup closes
<1>1. T \in SUBSET Nat /\ T # {} /\ \A x \in T : x <= LastMonth
  BY MonthFacts DEF NoMonth, Months
<1>2. \A x \in T : x # NoMonth => x \in Months /\ x < m /\ Closed(x) /\ snap[x].ready
  OBVIOUS
<1>3. Max(T) \in T
  <2> HIDE DEF T
  <2> QED BY <1>1, MonthFacts, GreatestNatural
<1>4. Latest(m) = Max(T)
  BY DEF Latest
<1> HIDE DEF T
<1> QED
  BY <1>2, <1>3, <1>4

\* What is known of the session that takes a step.
LEMMA OwnUpToDate ==
  ASSUME CloseInv, ChainInv, NEW p \in Procs
  PROVE  sess[p] \in Session /\ UpToDate(sess[p])
BY DEF CloseInv, StateTypeOK, ChainInv

LEMMA StartsUpToDate ==
  ASSUME OneRequest, CloseInv, ChainInv, NEW p \in Procs, Starts(p)
  PROVE  ChainInv'
<1> USE DEF UpToDate
<1>1. ASSUME NEW m \in Months, FinalizeStart(p, m) PROVE ChainInv'
  <2> DEFINE t == [Idle EXCEPT !.pc = "current", !.op = "finalize", !.month = m, !.rows = {m}]
  <2>1. /\ t \in Session /\ t.pc = "current" /\ t.op = "finalize"
        /\ t.held = {} /\ t.snap = NoSnapshot
    BY InitialTypes DEF Idle, Session
  <2>2. t.snap.links = {}
    BY <2>1, InitialTypes
  <2>3. UpToDate(t)
    BY <2>1, <2>2 DEF Gathered
  <2>4. Go(p, t) /\ UNCHANGED <<row, snap, alloc, ledger, checkin>>
    BY <1>1 DEF FinalizeStart
  <2> HIDE DEF t, UpToDate
  <2> QED BY <2>1, <2>3, <2>4, AloneStep
<1>2. ASSUME NEW m \in Months, ReopenStart(p, m) PROVE ChainInv'
  <2> DEFINE t == [Idle EXCEPT !.pc = "select", !.op = "reopen", !.month = m, !.rows = {m}]
  <2>1. t \in Session /\ t.pc = "select" /\ t.op = "reopen"
    BY InitialTypes DEF Idle, Session
  <2>2. UpToDate(t)
    BY <2>1
  <2>3. Go(p, t) /\ UNCHANGED <<row, snap, alloc, ledger, checkin>>
    BY <1>2 DEF ReopenStart
  <2> HIDE DEF t, UpToDate
  <2> QED BY <2>1, <2>2, <2>3, AloneStep
<1>3. ASSUME NEW a \in AllocMonths, AllocationStart(p, a) PROVE ChainInv'
  <2> DEFINE t == [Idle EXCEPT !.pc = "resolve", !.op = "allocation", !.todo = {a}]
  <2>1. /\ t \in Session /\ t.pc = "resolve" /\ t.op = "allocation"
        /\ t.held = {} /\ t.snap = NoSnapshot
    BY InitialTypes DEF Idle, Session
  <2>2. t.snap.links = {}
    BY <2>1, InitialTypes
  <2>3. UpToDate(t)
    BY <2>1, <2>2 DEF Gathered
  <2>4. Go(p, t) /\ UNCHANGED <<row, snap, alloc, ledger, checkin>>
    BY <1>3 DEF AllocationStart
  <2> HIDE DEF t, UpToDate
  <2> QED BY <2>1, <2>3, <2>4, AloneStep
<1>4. ASSUME NEW m \in CheckinMonths, NEW v \in CheckinValues, CheckinStart(p, m, v)
      PROVE  ChainInv'
  <2> DEFINE t == CheckinOf(m, v)
  <2>1. /\ t \in Session /\ t.pc = "checkin" /\ t.op = "checkin"
        /\ Go(p, t) /\ UNCHANGED <<row, snap, alloc, ledger, checkin>>
    BY <1>4, CheckinSession
  <2> HIDE DEF t
  <2>2. UpToDate(t)
    BY <2>1
  <2> HIDE DEF UpToDate
  <2> QED BY <2>1, <2>2, AloneStep
<1>5. ASSUME NEW m \in CheckinMonths, NEW target \in CheckinMonths, NEW v \in CheckinValues,
             EditStart(p, m, target, v)
      PROVE  ChainInv'
  <2> DEFINE t == EditOf(m, target, checkin[m].id, v)
  <2>1. /\ t \in Session /\ t.pc = "look" /\ t.op = "checkin"
        /\ Go(p, t) /\ UNCHANGED <<row, snap, alloc, ledger, checkin>>
    BY <1>5, EditSession
  <2> HIDE DEF t
  <2>2. UpToDate(t)
    BY <2>1
  <2> HIDE DEF UpToDate
  <2> QED BY <2>1, <2>2, AloneStep
<1> QED
  BY <1>1, <1>2, <1>3, <1>4, <1>5 DEF Starts

LEMMA EditLookUpToDate ==
  ASSUME OneRequest, CloseInv, ChainInv, NEW p \in Procs, EditLook(p)
  PROVE  ChainInv'
<1> DEFINE s == sess[p]
           t == [s EXCEPT !.pc = "checkin"]
<1>1. s \in Session /\ s.op = "checkin" /\ s.pc = "look"
  BY OwnSession DEF EditLook, StagesOf, Session
<1>2. t \in Session /\ t.pc = "checkin" /\ t.op = "checkin"
  BY <1>1 DEF Session
<1>3. UpToDate(t)
  BY <1>2 DEF UpToDate
<1>4. Go(p, t) /\ UNCHANGED <<row, snap, alloc, ledger, checkin>>
  BY DEF EditLook
<1> HIDE DEF t
<1> QED
  BY <1>2, <1>3, <1>4, AloneStep

LEMMA ReadCurrentUpToDate ==
  ASSUME OneRequest, CloseInv, ChainInv, NEW p \in Procs, ReadCurrent(p)
  PROVE  ChainInv'
<1> DEFINE s == sess[p]
           t == [s EXCEPT !.pc = "previous", !.new.status = "finalized",
                          !.new.observed = Executed(s.month)]
<1>1. s \in Session /\ s.op = "finalize" /\ s.pc = "current" /\ s.month \in Months
  BY OwnSession DEF ReadCurrent, StagesOf, Session
<1>2. [s.new EXCEPT !.status = "finalized", !.observed = Executed(s.month)] \in Row
  BY <1>1, ExecutedType, OwnSession DEF Session, Row, Statuses
<1>3. /\ t \in Session /\ t.pc = "previous" /\ t.op = "finalize" /\ t.new.status = "finalized"
      /\ t.held = s.held /\ t.snap = s.snap
  BY <1>1, <1>2 DEF Session, Row
<1>4. UpToDate(t)
  BY <1>1, <1>3, OwnUpToDate DEF UpToDate, Gathered
<1>5. Go(p, t) /\ UNCHANGED <<row, snap, alloc, ledger, checkin>>
  BY DEF ReadCurrent
<1> HIDE DEF t
<1> QED
  BY <1>3, <1>4, <1>5, AloneStep

LEMMA ReadPreviousUpToDate ==
  ASSUME OneRequest, CloseInv, ChainInv, NEW p \in Procs, ReadPrevious(p)
  PROVE  ChainInv'
<1> DEFINE s == sess[p]
           b == Boundary(s.month)
           t == [s EXCEPT !.pc = "preview", !.new.opening = b.opening, !.new.source = b.source]
<1>1. s \in Session /\ s.op = "finalize" /\ s.pc = "previous" /\ s.month \in Months
  BY OwnSession DEF ReadPrevious, StagesOf, Session
<1>2. [s.new EXCEPT !.opening = b.opening, !.source = b.source] \in Row
  BY <1>1, BoundaryType, OwnSession DEF Session, Row
<1>3. /\ t \in Session /\ t.pc = "preview" /\ t.op = "finalize" /\ t.month = s.month
      /\ t.new.status = s.new.status /\ t.new.opening = b.opening /\ t.new.source = b.source
      /\ t.held = s.held /\ t.snap = s.snap
  BY <1>1, <1>2 DEF Session, Row
<1>4. b.source = "close" => /\ s.month - 1 \in Months /\ Closed(s.month - 1)
                            /\ b.opening = row[s.month - 1].observed
  BY DEF Boundary
<1>5. UpToDate(t)
  BY <1>1, <1>3, <1>4, OwnUpToDate DEF UpToDate, Gathered, Opens
<1>6. Go(p, t) /\ UNCHANGED <<row, snap, alloc, ledger, checkin>>
  BY DEF ReadPrevious
<1> HIDE DEF t
<1> QED
  BY <1>3, <1>5, <1>6, AloneStep

LEMMA FirstPreviewUpToDate ==
  ASSUME OneRequest, CloseInv, ChainInv, NEW p \in Procs, NEW mode \in Modes, FirstPreview(p, mode)
  PROVE  ChainInv'
<1> DEFINE s == sess[p]
           prev == Latest(s.month)
           skip == [s EXCEPT !.pc = "commit"]
           late == [s EXCEPT !.pc = "commit", !.snap.exists = TRUE, !.snap.previous = prev]
           full == [s EXCEPT !.pc = "resolve", !.snap.exists = TRUE, !.todo = Refs(s.month, prev)]
<1>1. /\ s \in Session /\ s.op = "finalize" /\ s.pc = "preview" /\ s.month \in Months
      /\ s.held = {} /\ s.snap = NoSnapshot /\ UpToDate(s)
  BY OwnSession, OwnUpToDate DEF FirstPreview, StagesOf, Session, AllocationLocks, UpToDate
<1>2. s.snap.links = {} /\ ~s.snap.exists
  BY <1>1 DEF NoSnapshot
<1>3. prev \in Months \cup {NoMonth} /\ Refs(s.month, prev) \subseteq AllocMonths
  BY <1>1, LatestType, RefsType
<1>4. /\ [s.snap EXCEPT !.exists = TRUE, !.previous = prev] \in Snapshot
      /\ [s.snap EXCEPT !.exists = TRUE] \in Snapshot
  BY <1>1, <1>3 DEF Session, Snapshot
<1>5. mode \in {"disabled", "not_ready", "ready"}
  BY ConstantsAssumption
<1>6. PICK t \in {skip, late, full} : Go(p, t)
  BY <1>5 DEF FirstPreview
<1>7. t \in Session /\ t.pc \in {"commit", "resolve"}
  <2>1. CASE t = skip
    BY <1>1, <2>1 DEF Session
  <2>2. CASE t = late
    BY <1>1, <1>3, <1>4, <2>2 DEF Session
  <2>3. CASE t = full
    BY <1>1, <1>3, <1>4, <2>3 DEF Session
  <2> QED BY <1>6, <2>1, <2>2, <2>3
<1>8. /\ t.op = "finalize" /\ t.month = s.month /\ t.new = s.new /\ t.held = {}
      /\ t.snap.links = {} /\ (t.pc = "commit" /\ t.snap.exists => t.snap.previous = prev)
  <2>1. CASE t = skip
    BY <1>1, <1>2, <2>1 DEF Session
  <2>2. CASE t = late
    BY <1>1, <1>2, <2>2 DEF Session, Snapshot
  <2>3. CASE t = full
    BY <1>1, <1>2, <2>3 DEF Session, Snapshot
  <2> QED BY <1>6, <2>1, <2>2, <2>3
<1>9. Follows(t) \/ t.pc = "resolve"
  BY <1>1, <1>7, <1>8, LatestFacts DEF Follows
<1>10. s.new.status = "finalized" /\ Opens(s)
  BY <1>1 DEF UpToDate
<1>11. UpToDate(t)
  BY <1>7, <1>8, <1>9, <1>10 DEF UpToDate, Gathered, Uses, Opens
<1> QED
  BY <1>6, <1>7, <1>11, AloneStep DEF FirstPreview

LEMMA ResolveUpToDate ==
  ASSUME OneRequest, CloseInv, ChainInv, NEW p \in Procs, NEW a \in AllocMonths, Resolve(p, a)
  PROVE  ChainInv'
<1> DEFINE s == sess[p]
           seen == [s EXCEPT !.todo = @ \ {a}, !.snap.links = @ \cup {a}]
           calc == [s EXCEPT !.pc = "store", !.mine[a] = Calculated(a)]
<1>1. s \in Session /\ s.op \in {"finalize", "allocation"} /\ s.pc = "resolve" /\ UpToDate(s)
  BY OwnSession, OwnUpToDate DEF Resolve, StagesOf, Session
<1>2. a \in s.todo /\ a \notin s.held /\ \A b \in s.todo : a <= b
  <2>1. a \in Nat /\ a \in s.todo
    BY MonthFacts DEF Resolve
  <2>2. a \in s.held => a < a
    BY <1>1, <2>1, OwnSession DEF AllocationLocks
  <2> QED BY <2>1, <2>2 DEF Resolve
<1>3. UNCHANGED <<row, snap, alloc, ledger, checkin>>
  BY DEF Resolve
<1>4. CASE alloc[a].frozen
  <2>1. [s.snap EXCEPT !.links = @ \cup {a}] \in Snapshot
    BY <1>1 DEF Session, Snapshot
  <2>2. /\ seen \in Session /\ seen.pc = "resolve" /\ seen.op = s.op /\ seen.month = s.month
        /\ seen.new = s.new /\ seen.held = s.held /\ seen.snap.links = s.snap.links \cup {a}
    BY <1>1, <2>1 DEF Session, Snapshot
  <2> HIDE DEF seen
  <2>3. Gathered(seen)
    BY <1>1, <1>2, <1>4, <2>2 DEF UpToDate, Gathered
  <2>4. UpToDate(seen)
    BY <1>1, <2>2, <2>3 DEF UpToDate, Opens
  <2>5. Go(p, seen)
    BY <1>4 DEF Resolve, seen
  <2> QED BY <1>3, <2>2, <2>4, <2>5, AloneStep
<1>5. CASE ~alloc[a].frozen
  <2>1. [s.mine EXCEPT ![a] = Calculated(a)] \in [AllocMonths -> Nat]
    BY <1>1, CalculatedType, OwnSession DEF Session
  <2>2. /\ calc \in Session /\ calc.pc = "store" /\ calc.op = s.op /\ calc.month = s.month
        /\ calc.new = s.new /\ calc.held = s.held /\ calc.snap = s.snap /\ calc.todo = s.todo
    BY <1>1, <2>1 DEF Session
  <2> HIDE DEF calc
  <2>3. ASSUME NEW c \in calc.todo, \A b \in calc.todo : c <= b PROVE ~alloc[c].frozen
    <3>1. c <= a /\ a <= c
      BY <1>2, <2>2, <2>3
    <3>2. a \in Nat /\ c \in Nat
      BY <1>1, <2>2, <2>3, SessionFields, MonthFacts
    <3> QED BY <1>5, <3>1, <3>2
  <2>4. UpToDate(calc)
    BY <1>1, <2>2, <2>3 DEF UpToDate, Opens, Gathered
  <2>5. Go(p, calc)
    BY <1>5 DEF Resolve, calc
  <2> QED BY <1>3, <2>2, <2>4, <2>5, AloneStep
<1> QED
  BY <1>4, <1>5

LEMMA StoreUpToDate ==
  ASSUME OneRequest, CloseInv, ChainInv, NEW p \in Procs, NEW a \in AllocMonths, Store(p, a)
  PROVE  ChainInv'
<1> DEFINE s == sess[p]
           t == [s EXCEPT !.pc = "resolve", !.todo = @ \ {a}, !.held = @ \cup {a},
                          !.snap.links = @ \cup {a}]
<1>1. s \in Session /\ s.op \in {"finalize", "allocation"} /\ s.pc = "store" /\ UpToDate(s)
  BY OwnSession, OwnUpToDate DEF Store, StagesOf, Session
<1>2. [s.snap EXCEPT !.links = @ \cup {a}] \in Snapshot
  BY <1>1 DEF Session, Snapshot
<1>3. t \in Session /\ t.pc = "resolve"
  BY <1>1, <1>2 DEF Session
<1>4. /\ t.op = s.op /\ t.month = s.month /\ t.new = s.new /\ t.held = s.held \cup {a}
      /\ t.snap.links = s.snap.links \cup {a}
  BY <1>1 DEF Session, Snapshot
<1>5. ~alloc[a].frozen
  BY <1>1 DEF Store, UpToDate
<1> HIDE DEF t
<1>6. Gathered(t)
  BY <1>1, <1>4, <1>5 DEF UpToDate, Gathered
<1>7. UpToDate(t)
  BY <1>1, <1>3, <1>4, <1>6 DEF UpToDate, Opens
<1>8. Go(p, t) /\ UNCHANGED <<row, snap, alloc, ledger, checkin>>
  BY DEF Store, t
<1> QED
  BY <1>3, <1>7, <1>8, AloneStep

LEMMA SecondPreviewUpToDate ==
  ASSUME OneRequest, CloseInv, ChainInv, NEW p \in Procs, NEW mode \in Modes,
         SecondPreview(p, mode)
  PROVE  ChainInv'
<1> DEFINE s == sess[p]
           prev == Latest(s.month)
           value(a) == IF a \in s.held THEN s.mine[a]
                       ELSE IF alloc[a].frozen THEN alloc[a].value ELSE Calculated(a)
           values == [a \in AllocMonths |-> IF a \in Refs(s.month, prev) THEN value(a) ELSE 0]
           t == [s EXCEPT !.pc = "commit", !.snap.ready = (mode = "ready"),
                          !.snap.previous = prev, !.snap.values = values]
<1>1. /\ s \in Session /\ s.op = "finalize" /\ s.pc = "resolve" /\ s.month \in Months
      /\ UpToDate(s)
  BY OwnSession, OwnUpToDate DEF SecondPreview
<1>2. ASSUME NEW a \in AllocMonths PROVE value(a) \in Nat
  BY <1>1, SessionFields, CalculatedType, OwnSession DEF StateTypeOK, Alloc
<1>3. values \in [AllocMonths -> Nat]
  <2> HIDE DEF value
  <2> QED BY <1>2
<1>4. \A a \in AllocMonths : a \in Refs(s.month, prev) => values[a] = value(a)
  <2> HIDE DEF value
  <2> QED OBVIOUS
<1> HIDE DEF values
<1>5. [s.snap EXCEPT !.ready = (mode = "ready"), !.previous = prev, !.values = values]
        \in Snapshot
  BY <1>1, <1>3, LatestType DEF Session, Snapshot
<1>6. t \in Session /\ t.pc = "commit"
  BY <1>1, <1>5 DEF Session
<1>7. /\ t.op = "finalize" /\ t.month = s.month /\ t.new = s.new /\ t.held = s.held
      /\ t.mine = s.mine /\ t.snap.links = s.snap.links /\ t.snap.previous = prev
      /\ t.snap.values = values
  BY <1>1 DEF Session, Snapshot
<1>8. Go(p, t) /\ UNCHANGED <<row, snap, alloc, ledger, checkin>>
  BY DEF SecondPreview, values
<1> HIDE DEF t
<1>9. Follows(t)
  BY <1>1, <1>7, LatestFacts DEF Follows
<1>10. Gathered(s) /\ s.snap.links \subseteq AllocMonths
  BY <1>1, SessionFields DEF UpToDate
<1>11. ASSUME NEW a \in t.snap.links, a \in Refs(t.month, t.snap.previous)
       PROVE  t.snap.values[a] = IF a \in t.held THEN t.mine[a] ELSE alloc[a].value
  <2>1. a \in AllocMonths /\ values[a] = value(a) /\ (a \notin s.held => alloc[a].frozen)
    <3> HIDE DEF value
    <3> QED BY <1>4, <1>7, <1>10, <1>11 DEF Gathered
  <2> QED BY <1>7, <2>1
<1>12. UpToDate(t)
  BY <1>1, <1>6, <1>7, <1>9, <1>10, <1>11 DEF UpToDate, Opens, Gathered, Uses
<1> QED
  BY <1>6, <1>8, <1>12, AloneStep

LEMMA SelectLaterUpToDate ==
  ASSUME OneRequest, CloseInv, ChainInv, NEW p \in Procs, SelectLater(p)
  PROVE  ChainInv'
<1> DEFINE s == sess[p]
           later == {d \in Months : d > s.month /\ Closed(d)}
           t == [s EXCEPT !.pc = "wait", !.later = later]
<1>1. s \in Session /\ s.op = "reopen" /\ s.pc = "select"
  BY OwnSession DEF SelectLater, StagesOf, Session
<1>2. t \in Session /\ t.pc = "wait" /\ t.op = "reopen" /\ t.month = s.month /\ t.later = later
  BY <1>1 DEF Session
<1>3. UpToDate(t)
  BY <1>2 DEF UpToDate
<1>4. Go(p, t) /\ UNCHANGED <<row, snap, alloc, ledger, checkin>>
  BY DEF SelectLater
<1> HIDE DEF t
<1> QED
  BY <1>2, <1>3, <1>4, AloneStep

LEMMA LockLaterUpToDate ==
  ASSUME OneRequest, CloseInv, ChainInv, NEW p \in Procs, LockLater(p)
  PROVE  ChainInv'
<1> DEFINE s == sess[p]
           rows == s.rows \cup StillClosed(s)
           t == [s EXCEPT !.pc = "clear", !.rows = rows]
<1>1. s \in Session /\ s.op = "reopen" /\ s.pc = "wait" /\ UpToDate(s)
  BY OwnSession, OwnUpToDate DEF LockLater, StagesOf, Session
<1>2. s.rows = {s.month} /\ s.month \in Months /\ Closed(s.month)
  BY <1>1, OwnSession, SessionFields DEF CloseLocks, Closed
<1>3. s.later = {d \in Months : d > s.month /\ Closed(d)}
  BY <1>1 DEF UpToDate
<1>4. rows = {d \in Months : d >= s.month /\ Closed(d)}
  <2>1. StillClosed(s) = {d \in Months : d > s.month /\ Closed(d)}
    BY <1>3 DEF StillClosed
  <2>2. ASSUME NEW d \in Months PROVE d >= s.month <=> d = s.month \/ d > s.month
    <3>1. d \in Nat /\ s.month \in Nat
      BY <1>2, MonthFacts
    <3> QED BY <3>1
  <2> QED BY <1>2, <2>1, <2>2
<1> HIDE DEF rows
<1>5. t \in Session /\ t.pc = "clear" /\ t.op = "reopen" /\ t.month = s.month /\ t.rows = rows
  BY <1>1, <1>4 DEF Session
<1>6. UpToDate(t)
  BY <1>4, <1>5 DEF UpToDate
<1>7. Go(p, t) /\ UNCHANGED <<row, snap, alloc, ledger, checkin>>
  BY DEF LockLater, rows
<1> HIDE DEF t
<1> QED
  BY <1>5, <1>6, <1>7, AloneStep

LEMMA ClearUpToDate ==
  ASSUME OneRequest, CloseInv, ChainInv, NEW p \in Procs, Clear(p)
  PROVE  ChainInv'
<1> DEFINE s == sess[p]
           todo == LinksOf(s.rows) \ LinksOf(Months \ s.rows)
           t == [s EXCEPT !.pc = "unfreeze", !.todo = todo]
<1>1. s \in Session /\ s.op = "reopen" /\ s.pc = "clear" /\ s.held = {} /\ UpToDate(s)
  BY OwnSession, OwnUpToDate DEF Clear, StagesOf, Session, AllocationLocks
<1>2. todo \subseteq AllocMonths
  BY <1>1, SessionFields, OwnSession DEF LinksOf, StateTypeOK, Snapshot
<1>3. /\ t \in Session /\ t.pc = "unfreeze" /\ t.op = "reopen" /\ t.month = s.month
      /\ t.rows = s.rows /\ t.held = {} /\ t.todo = todo
  BY <1>1, <1>2 DEF Session
<1>4. Go(p, t) /\ UNCHANGED <<row, snap, alloc, ledger, checkin>>
  BY DEF Clear, LinksOf
<1> HIDE DEF t
<1>5. UpToDate(t)
  BY <1>1, <1>3 DEF UpToDate
<1> QED
  BY <1>3, <1>4, <1>5, AloneStep

LEMMA UnfreezeUpToDate ==
  ASSUME OneRequest, CloseInv, ChainInv, NEW p \in Procs, NEW a \in AllocMonths, Unfreeze(p, a)
  PROVE  ChainInv'
<1> DEFINE s == sess[p]
           t == [s EXCEPT !.todo = @ \ {a}, !.held = @ \cup {a}]
<1>1. /\ s \in Session /\ s.op = "reopen" /\ s.pc = "unfreeze" /\ a \in s.todo /\ UpToDate(s)
  BY OwnSession, OwnUpToDate DEF Unfreeze, StagesOf, Session, UnfrozenNext
<1>2. /\ t \in Session /\ t.pc = "unfreeze" /\ t.op = "reopen" /\ t.month = s.month
      /\ t.rows = s.rows /\ t.held = s.held \cup {a} /\ t.todo = s.todo \ {a}
  BY <1>1 DEF Session
<1>3. t.todo \cup t.held = s.todo \cup s.held
  BY <1>1, <1>2
<1>4. Go(p, t) /\ UNCHANGED <<row, snap, alloc, ledger, checkin>>
  BY DEF Unfreeze
<1> HIDE DEF t
<1>5. UpToDate(t)
  BY <1>1, <1>2, <1>3 DEF UpToDate
<1> QED
  BY <1>2, <1>4, <1>5, AloneStep
-----------------------------------------------------------------------------
(* Commits: the request ends and what it wrote is there at once *)

LEMMA AloneEnd ==
  ASSUME OneRequest, CloseInv, NEW p \in Procs, End(p), ChainParts'
  PROVE  ChainInv'
<1>1. \A q \in Procs : sess'[q] = Idle
  BY DEF CloseInv, StateTypeOK, End, OneRequest
<1>2. ASSUME NEW q \in Procs PROVE UpToDate(sess[q])'
  <2>1. sess'[q].pc = "idle" /\ sess'[q].op = "none"
    BY <1>1 DEF Idle
  <2> QED BY <2>1 DEF UpToDate
<1> QED
  BY <1>2 DEF ChainInv

LEMMA RollbackUpToDate ==
  ASSUME OneRequest, CloseInv, ChainInv, NEW p \in Procs, Rollback(p)
  PROVE  ChainInv'
BY AloneStep, IdleUpToDate, InitialTypes DEF Rollback, End, Go

LEMMA BlankFacts ==
  /\ Draft.status = "draft" /\ Draft.source = "none"
  /\ ~NoSnapshot.exists /\ NoSnapshot.links = {}
BY DEF Draft, NoSnapshot

\* The parts of the invariant month by month.
LEMMA PartsUse ==
  ASSUME CloseInv, ChainParts, NEW m \in Months
  PROVE  /\ row[m].status = "draft" => row[m] = Draft /\ snap[m] = NoSnapshot
         /\ ~Closed(m) => /\ row[m].source # "close" /\ ~snap[m].exists
                          /\ snap[m].links = {}
         /\ row[m].source = "close" =>
              m - 1 \in Months /\ Closed(m - 1) /\ row[m].opening = row[m - 1].observed
         /\ snap[m].exists /\ snap[m].previous # NoMonth =>
              /\ snap[m].previous \in Months /\ snap[m].previous < m
              /\ Closed(snap[m].previous) /\ snap[snap[m].previous].ready
         /\ \A a \in snap[m].links :
              /\ a \in AllocMonths /\ alloc[a].frozen
              /\ a \in Refs(m, snap[m].previous) => snap[m].values[a] = alloc[a].value
<1>1. row[m] \in Row /\ snap[m] \in Snapshot
  BY DEF CloseInv, StateTypeOK
<1>2. ~Closed(m) => row[m].status = "draft"
  BY <1>1 DEF Row, Statuses, Closed
<1>3. row[m].status = "draft" => row[m] = Draft /\ snap[m] = NoSnapshot
  BY DEF ChainParts, DraftsBlank
<1>4. ~Closed(m) => row[m].source # "close" /\ ~snap[m].exists /\ snap[m].links = {}
  BY <1>2, <1>3, BlankFacts
<1>5. row[m].source = "close" =>
        m - 1 \in Months /\ Closed(m - 1) /\ row[m].opening = row[m - 1].observed
  BY DEF ChainParts, OpensInside, BoundaryHolds
<1>6. snap[m].previous \in Months \cup {NoMonth} /\ snap[m].links \subseteq AllocMonths
  BY <1>1 DEF Snapshot
<1>7. snap[m].exists /\ snap[m].previous # NoMonth =>
        /\ snap[m].previous \in Months /\ snap[m].previous < m
        /\ Closed(snap[m].previous) /\ snap[snap[m].previous].ready
  BY <1>6 DEF ChainParts, SettlementChainHolds
<1>8. ASSUME NEW a \in snap[m].links
      PROVE  /\ a \in AllocMonths /\ alloc[a].frozen
             /\ a \in Refs(m, snap[m].previous) => snap[m].values[a] = alloc[a].value
  <2> DEFINE users == {k \in Months : a \in snap[k].links}
  <2>1. a \in AllocMonths /\ m \in users
    BY <1>6, <1>8
  <2>2. (alloc[a].frozen <=> users # {})
        /\ \A k \in users : a \in Refs(k, snap[k].previous) => snap[k].values[a] = alloc[a].value
    BY <2>1 DEF ChainParts, FrozenAllocationsHold
  <2> HIDE DEF users
  <2> QED BY <2>1, <2>2
<1> QED
  BY <1>3, <1>4, <1>5, <1>7, <1>8

\* and an allocation that is frozen is so for some close.
LEMMA FrozenUse ==
  ASSUME ChainParts, NEW a \in AllocMonths, alloc[a].frozen
  PROVE  \E m \in Months : a \in snap[m].links
BY DEF ChainParts, FrozenAllocationsHold

\* How the parts are shown to hold after a step.
LEMMA FrozenAfter ==
  ASSUME \A a \in AllocMonths : alloc'[a].frozen => \E m \in Months : a \in snap'[m].links,
         \A m \in Months : \A a \in AllocMonths : a \in snap'[m].links =>
           /\ alloc'[a].frozen
           /\ a \in Refs(m, snap'[m].previous) => snap'[m].values[a] = alloc'[a].value
  PROVE  FrozenAllocationsHold'
<1>1. ASSUME NEW a \in AllocMonths
      PROVE  LET users == {m \in Months : a \in snap'[m].links} IN
             /\ alloc'[a].frozen <=> users # {}
             /\ \A m \in users :
                  a \in Refs(m, snap'[m].previous) => snap'[m].values[a] = alloc'[a].value
  OBVIOUS
<1> QED
  BY <1>1 DEF FrozenAllocationsHold, Refs

LEMMA FinalizeCommitUpToDate ==
  ASSUME OneRequest, CloseInv, ChainInv, NEW p \in Procs, FinalizeCommit(p)
  PROVE  ChainInv'
<1> DEFINE s == sess[p]
           n == s.month
<1>1. s \in Session /\ s.op = "finalize" /\ s.pc = "commit" /\ UpToDate(s)
  BY OwnSession, OwnUpToDate DEF FinalizeCommit, StagesOf, Session
<1>2. /\ n \in Months /\ row[n].status = "draft" /\ ~Closed(n)
      /\ s.snap.previous \in Months \cup {NoMonth} /\ s.snap.links \subseteq AllocMonths
  BY <1>1, OwnSession, SessionFields DEF CloseLocks, Closed
<1>3. /\ s.new.status = "finalized" /\ Opens(s) /\ Gathered(s) /\ Follows(s) /\ Uses(s)
  BY <1>1 DEF UpToDate
<1>4. /\ row' = [row EXCEPT ![n] = s.new] /\ snap' = [snap EXCEPT ![n] = s.snap]
      /\ row \in [Months -> Row] /\ snap \in [Months -> Snapshot] /\ End(p)
  BY DEF FinalizeCommit, CloseInv, StateTypeOK
<1>5. /\ row'[n] = s.new /\ snap'[n] = s.snap
      /\ \A m \in Months \ {n} : row'[m] = row[m] /\ snap'[m] = snap[m]
  BY <1>2, <1>4
<1>6. \A m \in Months : Closed(m) => /\ m # n /\ Closed(m)' /\ row'[m] = row[m]
                                     /\ snap'[m] = snap[m]
  BY <1>2, <1>5 DEF Closed
<1>7. ASSUME NEW a \in AllocMonths
      PROVE  /\ alloc'[a].frozen <=> a \in s.held \/ alloc[a].frozen
             /\ alloc'[a].value = IF a \in s.held THEN s.mine[a] ELSE alloc[a].value
  BY DEF FinalizeCommit, Stored
<1>8. ChainParts
  BY DEF ChainInv
<1>9. BoundaryHolds'
  <2>1. ASSUME NEW m \in Months, row'[m].source = "close"
        PROVE  Closed(m - 1)' /\ row'[m].opening = row'[m - 1].observed
    <3>1. CASE m = n
      <4>1. n - 1 \in Months /\ Closed(n - 1) /\ s.new.opening = row[n - 1].observed
        BY <1>3, <1>5, <2>1, <3>1 DEF Opens
      <4> QED BY <1>5, <1>6, <3>1, <4>1
    <3>2. CASE m # n
      <4>1. m - 1 \in Months /\ Closed(m - 1) /\ row[m].opening = row[m - 1].observed
        BY <1>5, <1>8, <2>1, <3>2, PartsUse
      <4> QED BY <1>5, <1>6, <3>2, <4>1
    <3> QED BY <3>1, <3>2
  <2> QED BY <2>1 DEF BoundaryHolds
<1>10. SettlementChainHolds'
  <2>1. ASSUME NEW m \in Months, snap'[m].exists, snap'[m].previous # NoMonth
        PROVE  /\ snap'[m].previous < m
               /\ row'[snap'[m].previous].status \in {"finalized", "locked"}
               /\ snap'[snap'[m].previous].ready
    <3>1. CASE m = n
      <4>1. /\ s.snap.previous \in Months /\ s.snap.previous < n
            /\ Closed(s.snap.previous) /\ snap[s.snap.previous].ready
        BY <1>2, <1>3, <1>5, <2>1, <3>1 DEF Follows
      <4>2. row'[s.snap.previous] = row[s.snap.previous]
            /\ snap'[s.snap.previous] = snap[s.snap.previous]
        BY <1>6, <4>1
      <4> QED BY <1>5, <3>1, <4>1, <4>2 DEF Closed
    <3>2. CASE m # n
      <4>1. /\ snap[m].previous \in Months /\ snap[m].previous < m
            /\ Closed(snap[m].previous) /\ snap[snap[m].previous].ready
        BY <1>5, <1>8, <2>1, <3>2, PartsUse
      <4>2. row'[snap[m].previous] = row[snap[m].previous]
            /\ snap'[snap[m].previous] = snap[snap[m].previous]
        BY <1>6, <4>1
      <4> QED BY <1>5, <3>2, <4>1, <4>2 DEF Closed
    <3> QED BY <3>1, <3>2
  <2> QED BY <2>1 DEF SettlementChainHolds, Closed
<1>11. snap[n].links = {}
  BY <1>2, <1>8, PartsUse
<1>12. ASSUME NEW m \in Months, NEW a \in AllocMonths, a \in snap'[m].links
       PROVE  /\ alloc'[a].frozen
              /\ a \in Refs(m, snap'[m].previous) => snap'[m].values[a] = alloc'[a].value
  <2>1. CASE m = n
    BY <1>3, <1>5, <1>7, <1>12, <2>1 DEF Gathered, Uses
  <2>2. CASE m # n
    <3>1. /\ a \in snap[m].links /\ snap'[m] = snap[m] /\ alloc[a].frozen
          /\ a \in Refs(m, snap[m].previous) => snap[m].values[a] = alloc[a].value
      BY <1>5, <1>8, <1>12, <2>2, PartsUse
    <3>2. a \notin s.held
      BY <1>3, <3>1 DEF Gathered
    <3> QED BY <1>7, <3>1, <3>2
  <2> QED BY <2>1, <2>2
<1>13. ASSUME NEW a \in AllocMonths, alloc'[a].frozen
       PROVE  \E m \in Months : a \in snap'[m].links
  <2>1. CASE a \in s.held
    BY <1>2, <1>3, <1>5, <2>1 DEF Gathered
  <2>2. CASE a \notin s.held
    <3>1. PICK m \in Months : a \in snap[m].links
      BY <1>7, <1>8, <1>13, <2>2, FrozenUse
    <3> QED BY <1>5, <1>11, <3>1
  <2> QED BY <2>1, <2>2
<1>14. FrozenAllocationsHold'
  BY <1>12, <1>13, FrozenAfter
<1>15. DraftsBlank'
  BY <1>3, <1>5, <1>8 DEF DraftsBlank, ChainParts
<1>16. OpensInside'
  <2>1. ASSUME NEW m \in Months, row'[m].source = "close" PROVE m - 1 \in Months
    BY <1>3, <1>5, <1>8, <2>1, PartsUse DEF Opens
  <2> QED BY <2>1 DEF OpensInside, Months
<1> QED
  BY <1>4, <1>9, <1>10, <1>14, <1>15, <1>16, AloneEnd DEF ChainParts

LEMMA AllocationCommitUpToDate ==
  ASSUME OneRequest, CloseInv, ChainInv, NEW p \in Procs, AllocationCommit(p)
  PROVE  ChainInv'
<1> DEFINE s == sess[p]
<1>1. s \in Session /\ Gathered(s) /\ ChainParts
  BY OwnUpToDate DEF AllocationCommit, UpToDate, ChainInv
<1>2. UNCHANGED <<row, snap>> /\ End(p)
  BY DEF AllocationCommit
<1>3. ASSUME NEW a \in AllocMonths
      PROVE  /\ alloc'[a].frozen <=> alloc[a].frozen
             /\ alloc[a].frozen => alloc'[a] = alloc[a]
  BY <1>1 DEF AllocationCommit, Stored, Gathered
<1>4. ASSUME NEW m \in Months, NEW a \in AllocMonths, a \in snap'[m].links
      PROVE  /\ alloc'[a].frozen
             /\ a \in Refs(m, snap'[m].previous) => snap'[m].values[a] = alloc'[a].value
  BY <1>1, <1>2, <1>3, <1>4, PartsUse
<1>5. ASSUME NEW a \in AllocMonths, alloc'[a].frozen
      PROVE  \E m \in Months : a \in snap'[m].links
  BY <1>1, <1>2, <1>3, <1>5, FrozenUse
<1>6. FrozenAllocationsHold'
  BY <1>4, <1>5, FrozenAfter
<1>7. BoundaryHolds' /\ SettlementChainHolds' /\ DraftsBlank' /\ OpensInside'
  BY <1>1, <1>2 DEF ChainParts, BoundaryHolds, SettlementChainHolds, DraftsBlank, OpensInside,
     Closed
<1> QED
  BY <1>2, <1>6, <1>7, AloneEnd DEF ChainParts

LEMMA ReopenCommitUpToDate ==
  ASSUME OneRequest, CloseInv, ChainInv, NEW p \in Procs, ReopenCommit(p)
  PROVE  ChainInv'
<1> DEFINE s == sess[p]
           n == s.month
<1>1. /\ s \in Session /\ s.op = "reopen" /\ s.pc = "unfreeze" /\ s.todo = {} /\ UpToDate(s)
      /\ ChainParts
  BY OwnSession, OwnUpToDate DEF ReopenCommit, StagesOf, Session, ChainInv
<1>2. /\ s.rows = {d \in Months : d >= n /\ Closed(d)} /\ n \in Months
      /\ s.held = LinksOf(s.rows) \ LinksOf(Months \ s.rows)
  BY <1>1, OwnSession, SessionFields DEF UpToDate, CloseLocks
<1>3. /\ \A m \in s.rows : row'[m] = Draft /\ snap'[m] = NoSnapshot
      /\ \A m \in Months \ s.rows : row'[m] = row[m] /\ snap'[m] = snap[m]
      /\ \A a \in AllocMonths :
           alloc'[a] = IF a \in s.held THEN [alloc[a] EXCEPT !.frozen = FALSE] ELSE alloc[a]
      /\ End(p)
  BY <1>2 DEF ReopenCommit
\* Of what is left no close is later than the one reopened.
<1>4. ASSUME NEW m \in Months, row'[m].source = "close" \/ snap'[m].exists \/ snap'[m].links # {}
      PROVE  m \notin s.rows /\ row'[m] = row[m] /\ snap'[m] = snap[m] /\ m < n
  <2>1. m \notin s.rows /\ row'[m] = row[m] /\ snap'[m] = snap[m]
    BY <1>3, <1>4, BlankFacts
  <2>2. Closed(m)
    BY <1>1, <1>4, <2>1, PartsUse
  <2>3. ~(m >= n)
    BY <1>2, <2>1, <2>2
  <2>4. m \in Nat /\ n \in Nat
    BY <1>2, MonthFacts
  <2>5. m < n
    <3> HIDE DEF n
    <3> QED BY <2>3, <2>4
  <2> QED BY <2>1, <2>5
<1>5. \A m \in Months : m < n => m \notin s.rows /\ row'[m] = row[m] /\ snap'[m] = snap[m]
  BY <1>2, <1>3, MonthFacts
<1>6. BoundaryHolds' /\ OpensInside'
  <2>1. ASSUME NEW m \in Months, row'[m].source = "close"
        PROVE  /\ m - 1 \in Months /\ Closed(m - 1)'
               /\ row'[m].opening = row'[m - 1].observed
    <3>1. /\ m < n /\ row'[m] = row[m] /\ m - 1 \in Months /\ Closed(m - 1)
          /\ row[m].opening = row[m - 1].observed
      BY <1>1, <1>4, <2>1, PartsUse
    <3>2. m - 1 < n
      <4>1. m \in Nat /\ n \in Nat
        BY <1>2, MonthFacts
      <4> HIDE DEF n
      <4> QED BY <3>1, <4>1
    <3>3. row'[m - 1] = row[m - 1]
      BY <1>5, <3>1, <3>2
    <3> QED BY <3>1, <3>3 DEF Closed
  <2> QED BY <2>1 DEF BoundaryHolds, OpensInside, Months
<1>7. SettlementChainHolds'
  <2>1. ASSUME NEW m \in Months, snap'[m].exists, snap'[m].previous # NoMonth
        PROVE  /\ snap'[m].previous < m
               /\ row'[snap'[m].previous].status \in {"finalized", "locked"}
               /\ snap'[snap'[m].previous].ready
    <3> DEFINE d == snap[m].previous
    <3>1. /\ m < n /\ snap'[m] = snap[m] /\ d \in Months /\ d < m /\ Closed(d) /\ snap[d].ready
      BY <1>1, <1>4, <2>1, PartsUse
    <3>2. d < n
      <4>1. d \in Nat /\ m \in Nat /\ n \in Nat
        BY <1>2, <3>1, MonthFacts
      <4> HIDE DEF d
      <4> QED BY <3>1, <4>1
    <3>3. row'[d] = row[d] /\ snap'[d] = snap[d]
      BY <1>5, <3>1, <3>2
    <3> QED BY <3>1, <3>3 DEF Closed
  <2> QED BY <2>1 DEF SettlementChainHolds, Closed
<1>8. ASSUME NEW m \in Months, NEW a \in AllocMonths, a \in snap'[m].links
      PROVE  /\ alloc'[a].frozen
             /\ a \in Refs(m, snap'[m].previous) => snap'[m].values[a] = alloc'[a].value
  <2>1. m \notin s.rows /\ snap'[m] = snap[m] /\ a \in snap[m].links
    BY <1>4, <1>8
  <2>2. a \notin s.held
    BY <1>2, <2>1 DEF LinksOf
  <2>3. /\ alloc[a].frozen
        /\ a \in Refs(m, snap[m].previous) => snap[m].values[a] = alloc[a].value
    BY <1>1, <2>1, PartsUse
  <2>4. alloc'[a] = alloc[a]
    BY <1>3, <2>2
  <2> QED BY <2>1, <2>3, <2>4
<1>9. ASSUME NEW a \in AllocMonths, alloc'[a].frozen
      PROVE  \E m \in Months : a \in snap'[m].links
  <2>1. a \notin s.held /\ alloc[a].frozen
    <3>1. alloc[a] \in Alloc
      BY DEF CloseInv, StateTypeOK
    <3> QED BY <1>3, <1>9, <3>1 DEF Alloc
  <2>2. PICK m \in Months : a \in snap[m].links
    BY <1>1, <2>1, FrozenUse
  <2>3. CASE m \in s.rows
    BY <1>2, <1>3, <2>1, <2>2, <2>3 DEF LinksOf
  <2>4. CASE m \notin s.rows
    BY <1>3, <2>2, <2>4
  <2> QED BY <2>3, <2>4
<1>10. FrozenAllocationsHold'
  BY <1>8, <1>9, FrozenAfter
<1>11. DraftsBlank'
  BY <1>1, <1>2, <1>3 DEF DraftsBlank, ChainParts
<1> QED
  BY <1>3, <1>6, <1>7, <1>10, <1>11, AloneEnd DEF ChainParts

LEMMA SaveCheckinUpToDate ==
  ASSUME OneRequest, CloseInv, ChainInv, NEW p \in Procs, NEW i \in CheckinIds, SaveCheckin(p, i)
  PROVE  ChainInv'
<1>1. UNCHANGED <<row, snap, alloc>> /\ End(p)
  BY DEF SaveCheckin
<1>2. ChainParts'
  BY <1>1 DEF ChainInv, ChainParts, BoundaryHolds, SettlementChainHolds, FrozenAllocationsHold,
     DraftsBlank, OpensInside, Closed
<1> QED
  BY <1>1, <1>2, AloneEnd

-----------------------------------------------------------------------------
(* One-statement operations: nothing that a request has read or a close rests on *)

LEMMA StatementUpToDate ==
  ASSUME CloseInv, ChainInv, UNCHANGED <<sess, alloc>>,
         \A m \in Months :
           /\ Closed(m)' <=> Closed(m)
           /\ row'[m].status = "draft" => row'[m] = row[m] /\ snap'[m] = snap[m]
           /\ row'[m].observed = row[m].observed /\ row'[m].opening = row[m].opening
           /\ row'[m].source = row[m].source
           /\ snap'[m].exists = snap[m].exists /\ snap'[m].previous = snap[m].previous
           /\ snap'[m].ready = snap[m].ready
           /\ snap'[m].links = snap[m].links /\ snap'[m].values = snap[m].values
  PROVE  ChainInv'
<1>1. ChainParts
  BY DEF ChainInv
<1>2. BoundaryHolds' /\ OpensInside'
  <2>1. ASSUME NEW m \in Months, row'[m].source = "close"
        PROVE  /\ m - 1 \in Months /\ Closed(m - 1)'
               /\ row'[m].opening = row'[m - 1].observed
    BY <1>1, <2>1, PartsUse
  <2> QED BY <2>1 DEF BoundaryHolds, OpensInside, Months
<1>3. SettlementChainHolds'
  <2>1. ASSUME NEW m \in Months, snap'[m].exists, snap'[m].previous # NoMonth
        PROVE  /\ snap'[m].previous < m
               /\ row'[snap'[m].previous].status \in {"finalized", "locked"}
               /\ snap'[snap'[m].previous].ready
    <3> DEFINE d == snap[m].previous
    <3>1. /\ snap'[m].previous = d /\ d \in Months /\ d < m /\ Closed(d) /\ snap[d].ready
      BY <1>1, <2>1, PartsUse
    <3>2. Closed(d)' /\ snap'[d].ready
      BY <3>1 DEF Closed
    <3> HIDE DEF d
    <3> QED BY <3>1, <3>2 DEF Closed
  <2> QED BY <2>1 DEF SettlementChainHolds, Closed
<1>4. FrozenAllocationsHold'
  <2>1. ASSUME NEW m \in Months, NEW a \in AllocMonths, a \in snap'[m].links
        PROVE  /\ alloc'[a].frozen
               /\ a \in Refs(m, snap'[m].previous) => snap'[m].values[a] = alloc'[a].value
    BY <1>1, <2>1, PartsUse
  <2>2. ASSUME NEW a \in AllocMonths, alloc'[a].frozen
        PROVE  \E m \in Months : a \in snap'[m].links
    BY <1>1, <2>2, FrozenUse
  <2> QED BY <2>1, <2>2, FrozenAfter
<1>5. DraftsBlank'
  <2>1. ASSUME NEW m \in Months, row'[m].status = "draft"
        PROVE  row'[m] = Draft /\ snap'[m] = NoSnapshot
    BY <1>1, <2>1, PartsUse
  <2> QED BY <2>1 DEF DraftsBlank, Draft, NoSnapshot
<1>6. ASSUME NEW q \in Procs PROVE UpToDate(sess[q])'
  <2> DEFINE s == sess[q]
  <2>1. s \in Session /\ UpToDate(s) /\ sess'[q] = s /\ CloseLocks(s)
    BY OwnUpToDate, OwnSession
  <2>2. /\ s.snap.previous \in Months \cup {NoMonth} /\ s.rows \subseteq Months
        /\ s.month \in Months \cup {NoMonth}
    BY <2>1, SessionFields
  <2>3. Opens(s) => Opens(s)'
    BY <2>1, <2>2 DEF Opens
  <2>4. Follows(s) => Follows(s)'
    BY <2>1, <2>2 DEF Follows
  <2>5. (Gathered(s) => Gathered(s)') /\ (Uses(s) => Uses(s)')
    BY <2>1 DEF Gathered, Uses
  <2>6. \A S \in SUBSET Months : LinksOf(S) = UNION {snap'[d].links : d \in S}
    BY DEF LinksOf
  <2>7. LinksOf(s.rows)' = LinksOf(s.rows) /\ LinksOf(Months \ s.rows)' = LinksOf(Months \ s.rows)
    BY <2>1, <2>2, <2>6 DEF LinksOf
  <2>8. /\ {d \in Months : d > s.month /\ Closed(d)}'
             = {d \in Months : d > s.month /\ Closed(d)}
        /\ {d \in Months : d >= s.month /\ Closed(d)}'
             = {d \in Months : d >= s.month /\ Closed(d)}
    BY <2>1
  <2> QED
    BY <2>1, <2>3, <2>4, <2>5, <2>7, <2>8 DEF UpToDate
<1> QED
  BY <1>2, <1>3, <1>4, <1>5, <1>6 DEF ChainInv, ChainParts

LEMMA LockCloseUpToDate ==
  ASSUME CloseInv, ChainInv, NEW n \in Months, LockClose(n)
  PROVE  ChainInv'
<1>1. /\ UNCHANGED <<sess, snap, alloc>> /\ row[n].status = "finalized"
      /\ row' = [row EXCEPT ![n].status = "locked"] /\ row \in [Months -> Row]
  BY DEF LockClose, CloseInv, StateTypeOK
<1>2. ASSUME NEW m \in Months
      PROVE  /\ row'[m].status = IF m = n THEN "locked" ELSE row[m].status
             /\ m # n => row'[m] = row[m]
             /\ row'[m].observed = row[m].observed /\ row'[m].opening = row[m].opening
             /\ row'[m].source = row[m].source
  BY <1>1 DEF Row
<1> QED
  BY <1>1, <1>2, StatementUpToDate DEF Closed

LEMMA SettleUpToDate ==
  ASSUME CloseInv, ChainInv, NEW n \in Months, Settle(n)
  PROVE  ChainInv'
<1>1. /\ UNCHANGED <<sess, row, alloc>> /\ row[n].status = "finalized"
      /\ snap' = [snap EXCEPT ![n].moved = TRUE] /\ snap \in [Months -> Snapshot]
  BY DEF Settle, CloseInv, StateTypeOK
<1>2. ASSUME NEW m \in Months
      PROVE  /\ m # n => snap'[m] = snap[m]
             /\ snap'[m].exists = snap[m].exists /\ snap'[m].previous = snap[m].previous
             /\ snap'[m].ready = snap[m].ready
             /\ snap'[m].links = snap[m].links /\ snap'[m].values = snap[m].values
  BY <1>1 DEF Snapshot
<1> QED
  BY <1>1, <1>2, StatementUpToDate DEF Closed

-----------------------------------------------------------------------------
LEMMA ChainInitially == Init => ChainInv
<1> SUFFICES ASSUME Init PROVE ChainInv
  OBVIOUS
<1>1. /\ \A m \in Months : row[m] = Draft /\ snap[m] = NoSnapshot
      /\ \A a \in AllocMonths : ~alloc[a].frozen
      /\ \A q \in Procs : sess[q] = Idle
  BY DEF Init
<1>2. ChainParts
  BY <1>1, BlankFacts
  DEF ChainParts, BoundaryHolds, SettlementChainHolds, FrozenAllocationsHold, DraftsBlank,
      OpensInside
<1> QED
  BY <1>1, <1>2, IdleUpToDate DEF ChainInv

LEMMA ChainKept == ASSUME OneRequest PROVE CloseInv /\ ChainInv /\ [Next]_vars => ChainInv'
<1> SUFFICES ASSUME CloseInv, ChainInv, [Next]_vars PROVE ChainInv'
  OBVIOUS
<1>1. ASSUME NEW p \in Procs, Starts(p) PROVE ChainInv'
  BY <1>1, StartsUpToDate
<1>2. ASSUME NEW p \in Procs, Proceeds(p) PROVE ChainInv'
  BY <1>2, ReadCurrentUpToDate, ReadPreviousUpToDate, FirstPreviewUpToDate,
     SecondPreviewUpToDate, ResolveUpToDate, FinalizeCommitUpToDate, AllocationCommitUpToDate,
     SelectLaterUpToDate, ClearUpToDate, ReopenCommitUpToDate, EditLookUpToDate, SaveCheckinUpToDate
  DEF Proceeds
<1>3. ASSUME NEW p \in Procs, Waits(p) PROVE ChainInv'
  BY <1>3, LockLaterUpToDate, StoreUpToDate, UnfreezeUpToDate DEF Waits
<1>4. ASSUME UNCHANGED <<row, snap, alloc, sess>> PROVE ChainInv'
  BY <1>4, StatementUpToDate DEF Closed
<1>5. ASSUME NEW m \in Months, PostMovement(m) \/ DeleteCheckin(m) PROVE ChainInv'
  BY <1>4, <1>5 DEF PostMovement, DeleteCheckin
<1>6. CASE UNCHANGED vars
  BY <1>4, <1>6 DEF vars
<1> QED
  BY <1>1, <1>2, <1>3, <1>5, <1>6, RollbackUpToDate, LockCloseUpToDate, SettleUpToDate DEF Next

\* Requests that do not overlap keep what every close rests on, on a chain of any
\* length: the figure it opened with is the one the month before closed with, the
\* close whose settlement it follows is there and ready, and the allocations it
\* froze are frozen with the percentages it used, and no others are.
THEOREM ChainCorrect ==
  ASSUME OneRequest
  PROVE  Spec => [](BoundaryHolds /\ SettlementChainHolds /\ FrozenAllocationsHold)
<1>1. CloseInv /\ ChainInv /\ [Next]_vars => ChainInv'
  BY ChainKept
<1>2. ChainInv => BoundaryHolds /\ SettlementChainHolds /\ FrozenAllocationsHold
  BY DEF ChainInv, ChainParts
<1> QED
  BY <1>1, <1>2, ChainInitially, CloseInvCorrect, PTL DEF Spec

-----------------------------------------------------------------------------
(* What a closed month shows as its check-in, whatever requests overlap *)

\* A finalization that has read the figures of its month has the check-in, unless it
\* was saved since; and of a month whose check-in is being saved by a request that is
\* not behind, and not from another month, the figures are still to be read.
FigureSeen(s) ==
  s.op = "finalize" /\ s.pc # "current" /\ checkin[s.month] # NoCheckin /\ s.month \notin unseen
    => s.new.observed = checkin[s.month].figure
InTime(p) ==
  sess[p].pc = "checkin" /\ p \notin behind /\ sess[p].from = sess[p].month
    => ~Closed(sess[p].month) /\ \A q \in Procs : ~HasRead(q, sess[p].month)

\* Inductive.
SeenInv ==
  ClosedCheckinsSeen /\ \A p \in Procs : FigureSeen(sess[p]) /\ InTime(p)

\* A request goes on, or starts, without reading figures or looking at a close.
LEMMA QuietStep ==
  ASSUME CloseInv, SeenInv, NEW p \in Procs, NEW t,
         sess'[p] = t, \A q \in Procs \ {p} : sess'[q] = sess[q],
         UNCHANGED <<row, checkin, history>>, t.pc # "checkin",
         t.op = "finalize" /\ t.pc # "current" =>
           HasRead(p, t.month) /\ t.new.observed = sess[p].new.observed
  PROVE  SeenInv'
<1>1. /\ sess'[p] = t /\ \A q \in Procs \ {p} : sess'[q] = sess[q]
      /\ UNCHANGED <<behind, unseen>>
  BY DEF history
<1>2. \A q \in Procs : \A m : HasRead(q, m)' => HasRead(q, m)
  BY <1>1 DEF HasRead
<1>3. ClosedCheckinsSeen'
  BY <1>1 DEF SeenInv, ClosedCheckinsSeen, Closed
<1>4. ASSUME NEW q \in Procs PROVE FigureSeen(sess[q])'
  BY <1>1 DEF SeenInv, FigureSeen, HasRead
<1>5. ASSUME NEW q \in Procs PROVE InTime(q)'
  <2>1. sess'[q].pc = "checkin" => sess'[q] = sess[q]
    BY <1>1
  <2> QED BY <1>1, <1>2, <2>1 DEF SeenInv, InTime, Closed
<1> QED
  BY <1>3, <1>4, <1>5 DEF SeenInv

\* A request looks at its month, which is open, and notes whether it is too late.
LEMMA LookedSeen ==
  ASSUME CloseInv, SeenInv, NEW p \in Procs, NEW t, Go(p, t), Looked(p, t.month),
         UNCHANGED <<row, checkin, unseen>>, t.pc = "checkin", t.op = "checkin",
         t.from = t.month => ~Closed(t.month)
  PROVE  SeenInv'
<1>1. /\ sess'[p] = t /\ \A q \in Procs \ {p} : sess'[q] = sess[q]
      /\ behind \subseteq behind' /\ behind' \subseteq behind \cup {p}
  BY DEF CloseInv, StateTypeOK, Go, Looked
<1>2. \A q \in Procs : \A m : HasRead(q, m)' => HasRead(q, m)
  BY <1>1 DEF HasRead
<1>3. ClosedCheckinsSeen'
  BY DEF SeenInv, ClosedCheckinsSeen, Closed
<1>4. ASSUME NEW q \in Procs PROVE FigureSeen(sess[q])'
  BY <1>1 DEF SeenInv, FigureSeen
<1>5. ASSUME NEW q \in Procs PROVE InTime(q)'
  <2>1. CASE q = p
    <3>1. p \notin behind' => \A r \in Procs : ~HasRead(r, t.month)
      BY DEF Looked
    <3> QED BY <1>1, <1>2, <2>1, <3>1 DEF InTime, Closed
  <2>2. CASE q # p
    BY <1>1, <1>2, <2>2 DEF SeenInv, InTime, Closed
  <2> QED BY <2>1, <2>2
<1> QED
  BY <1>3, <1>4, <1>5 DEF SeenInv

LEMMA StartsSeen ==
  ASSUME CloseInv, SeenInv, NEW p \in Procs, Starts(p)
  PROVE  SeenInv'
<1>1. ASSUME NEW m \in Months, FinalizeStart(p, m) PROVE SeenInv'
  <2> DEFINE t == [Idle EXCEPT !.pc = "current", !.op = "finalize", !.month = m, !.rows = {m}]
  <2>1. t \in Session /\ t.pc = "current"
    BY InitialTypes DEF Idle, Session
  <2>2. /\ sess'[p] = t /\ \A q \in Procs \ {p} : sess'[q] = sess[q]
        /\ UNCHANGED <<row, checkin, history>>
    BY <1>1 DEF FinalizeStart, Go, CloseInv, StateTypeOK
  <2> HIDE DEF t
  <2> QED BY <2>1, <2>2, QuietStep
<1>2. ASSUME NEW m \in Months, ReopenStart(p, m) PROVE SeenInv'
  <2> DEFINE t == [Idle EXCEPT !.pc = "select", !.op = "reopen", !.month = m, !.rows = {m}]
  <2>1. t \in Session /\ t.pc = "select" /\ t.op = "reopen"
    BY InitialTypes DEF Idle, Session
  <2>2. /\ sess'[p] = t /\ \A q \in Procs \ {p} : sess'[q] = sess[q]
        /\ UNCHANGED <<row, checkin, history>>
    BY <1>2 DEF ReopenStart, Go, CloseInv, StateTypeOK
  <2> HIDE DEF t
  <2> QED BY <2>1, <2>2, QuietStep
<1>3. ASSUME NEW a \in AllocMonths, AllocationStart(p, a) PROVE SeenInv'
  <2> DEFINE t == [Idle EXCEPT !.pc = "resolve", !.op = "allocation", !.todo = {a}]
  <2>1. t \in Session /\ t.pc = "resolve" /\ t.op = "allocation"
    BY InitialTypes DEF Idle, Session
  <2>2. /\ sess'[p] = t /\ \A q \in Procs \ {p} : sess'[q] = sess[q]
        /\ UNCHANGED <<row, checkin, history>>
    BY <1>3 DEF AllocationStart, Go, CloseInv, StateTypeOK
  <2> HIDE DEF t
  <2> QED BY <2>1, <2>2, QuietStep
<1>4. ASSUME NEW m \in CheckinMonths, NEW target \in CheckinMonths, NEW v \in CheckinValues,
             EditStart(p, m, target, v)
      PROVE  SeenInv'
  <2> DEFINE t == EditOf(m, target, checkin[m].id, v)
  <2>1. /\ t.pc = "look" /\ t.op = "checkin"
        /\ Go(p, t) /\ UNCHANGED <<row, checkin, history>>
    BY <1>4, EditSession
  <2> HIDE DEF t
  <2>2. sess'[p] = t /\ \A q \in Procs \ {p} : sess'[q] = sess[q]
    BY <2>1 DEF Go, CloseInv, StateTypeOK
  <2> QED BY <2>1, <2>2, QuietStep
\* A check-in is posted: unless a finalization has read the figures, the request is
\* in time.
<1>5. ASSUME NEW m \in CheckinMonths, NEW v \in CheckinValues, CheckinStart(p, m, v)
      PROVE  SeenInv'
  <2> DEFINE t == CheckinOf(m, v)
  <2>1. /\ m \in Months /\ t.pc = "checkin" /\ t.op = "checkin" /\ t.month = m
        /\ Go(p, t) /\ Looked(p, m) /\ ~Closed(m) /\ UNCHANGED <<row, checkin, unseen>>
    BY <1>5, CheckinSession
  <2> HIDE DEF t
  <2> QED BY <2>1, LookedSeen
<1> QED
  BY <1>1, <1>2, <1>3, <1>4, <1>5 DEF Starts

LEMMA ReadCurrentSeen ==
  ASSUME CloseInv, SeenInv, NEW p \in Procs, ReadCurrent(p)
  PROVE  SeenInv'
<1> DEFINE s == sess[p]
           t == [s EXCEPT !.pc = "previous", !.new.status = "finalized",
                          !.new.observed = Executed(s.month)]
           n == s.month
<1>1. s \in Session /\ s.op = "finalize" /\ s.pc = "current" /\ n \in Months
  BY OwnSession DEF ReadCurrent, StagesOf, Session
<1>2. /\ t.pc = "previous" /\ t.op = "finalize" /\ t.month = n
      /\ t.new.observed = Executed(n)
  BY <1>1 DEF Session, Row
<1>3. /\ sess'[p] = t /\ \A q \in Procs \ {p} : sess'[q] = sess[q]
      /\ behind' = behind \cup {q \in Procs : sess[q].pc = "checkin" /\ sess[q].month = n}
      /\ unseen' = unseen \ {n} /\ UNCHANGED <<row, checkin>>
  BY DEF ReadCurrent, Go, CloseInv, StateTypeOK
<1> HIDE DEF t
\* The month is a draft, and nobody else is finalizing it.
<1>4. ~Closed(n) /\ \A q \in Procs \ {p} : sess[q].op = "finalize" => sess[q].month # n
  <2>1. s.rows = {n} /\ row[n].status = "draft"
    BY <1>1, OwnSession DEF CloseLocks
  <2>2. ASSUME NEW q \in Procs \ {p}, sess[q].op = "finalize" PROVE sess[q].month # n
    <3>1. sess[q].rows = {sess[q].month}
      BY <2>2, OwnSession DEF CloseLocks
    <3> QED BY <2>1, <3>1 DEF CloseInv, LocksApart, Apart
  <2> QED BY <2>1, <2>2 DEF Closed
<1>5. ClosedCheckinsSeen'
  BY <1>3, <1>4 DEF SeenInv, ClosedCheckinsSeen, Closed
<1>6. ASSUME NEW q \in Procs PROVE FigureSeen(sess[q])'
  <2>1. CASE q = p
    BY <1>2, <1>3, <2>1 DEF FigureSeen, Executed
  <2>2. CASE q # p
    BY <1>3, <1>4, <2>2 DEF SeenInv, FigureSeen
  <2> QED BY <2>1, <2>2
<1>7. \A q \in Procs : \A m : HasRead(q, m)' => m = n \/ HasRead(q, m)
  BY <1>2, <1>3 DEF HasRead
<1>8. ASSUME NEW q \in Procs PROVE InTime(q)'
  <2>1. CASE q = p
    BY <1>2, <1>3, <2>1 DEF InTime
  <2>2. CASE q # p
    <3>1. sess'[q] = sess[q]
      BY <1>3, <2>2
    <3>2. sess[q].pc = "checkin" /\ q \notin behind' => sess[q].month # n /\ q \notin behind
      BY <1>3
    <3> QED BY <1>3, <1>7, <3>1, <3>2 DEF SeenInv, InTime, Closed
  <2> QED BY <2>1, <2>2
<1> QED
  BY <1>5, <1>6, <1>8 DEF SeenInv

\* The other reads and calculations of a request leave its figures alone.
LEMMA ReadsSeen ==
  ASSUME CloseInv, SeenInv, NEW p \in Procs,
         \/ ReadPrevious(p)
         \/ \E mode \in Modes : FirstPreview(p, mode) \/ SecondPreview(p, mode)
         \/ \E a \in AllocMonths : Resolve(p, a) \/ Store(p, a) \/ Unfreeze(p, a)
         \/ SelectLater(p) \/ LockLater(p) \/ Clear(p)
  PROVE  SeenInv'
<1> DEFINE s == sess[p]
           t == sess'[p]
<1>1. s \in Session /\ s.pc \in StagesOf(s.op)
  BY OwnSession
<1>2. UNCHANGED <<row, checkin, history>>
  BY DEF ReadPrevious, FirstPreview, SecondPreview, Resolve, Store, Unfreeze, SelectLater,
     LockLater, Clear
<1> DEFINE Kept(u) == /\ u.op = s.op /\ u.month = s.month /\ u.new.observed = s.new.observed
                      /\ u.pc \in {"preview", "commit", "resolve", "store", "wait", "clear",
                                   "unfreeze"}
                      /\ s.op = "finalize" => s.pc # "current"
<1>3. \A u : Go(p, u) => t = u /\ \A q \in Procs \ {p} : sess'[q] = sess[q]
  BY OwnSession DEF Go, StateTypeOK
<1>4. ASSUME ReadPrevious(p) PROVE \E u : Go(p, u) /\ Kept(u)
  <2> DEFINE b == Boundary(s.month)
             u == [s EXCEPT !.pc = "preview", !.new.opening = b.opening, !.new.source = b.source]
  <2>1. Go(p, u) /\ Kept(u)
    BY <1>1, <1>4 DEF ReadPrevious, Session, Row
  <2> QED BY <2>1
<1>5. ASSUME NEW mode \in Modes, FirstPreview(p, mode) PROVE \E u : Go(p, u) /\ Kept(u)
  <2> DEFINE prev == Latest(s.month)
             skip == [s EXCEPT !.pc = "commit"]
             half == [s EXCEPT !.pc = "commit", !.snap.exists = TRUE, !.snap.previous = prev]
             full == [s EXCEPT !.pc = "resolve", !.snap.exists = TRUE,
                               !.todo = Refs(s.month, prev)]
  <2>1. Kept(skip) /\ Kept(half) /\ Kept(full)
    BY <1>1, <1>5 DEF FirstPreview, Session
  <2>2. mode \in {"disabled", "not_ready", "ready"}
    BY ConstantsAssumption
  <2>3. Go(p, skip) \/ Go(p, half) \/ Go(p, full)
    BY <1>5, <2>2 DEF FirstPreview
  <2> HIDE DEF Kept, skip, half, full
  <2> QED BY <2>1, <2>3
<1>6. ASSUME NEW mode \in Modes, SecondPreview(p, mode) PROVE \E u : Go(p, u) /\ Kept(u)
  <2>1. PICK values, prev :
          Go(p, [s EXCEPT !.pc = "commit", !.snap.ready = (mode = "ready"),
                          !.snap.previous = prev, !.snap.values = values])
    BY <1>6 DEF SecondPreview
  <2>2. Kept([s EXCEPT !.pc = "commit", !.snap.ready = (mode = "ready"),
                       !.snap.previous = prev, !.snap.values = values])
    BY <1>1, <1>6 DEF SecondPreview, Session
  <2> HIDE DEF Kept
  <2> QED BY <2>1, <2>2
<1>7. ASSUME NEW a \in AllocMonths, Resolve(p, a) PROVE \E u : Go(p, u) /\ Kept(u)
  <2> DEFINE seen == [s EXCEPT !.todo = @ \ {a}, !.snap.links = @ \cup {a}]
             calc == [s EXCEPT !.pc = "store", !.mine[a] = Calculated(a)]
  <2>1. Kept(seen) /\ Kept(calc)
    BY <1>1, <1>7 DEF Resolve, Session
  <2>2. Go(p, seen) \/ Go(p, calc)
    BY <1>7 DEF Resolve
  <2> HIDE DEF Kept, seen, calc
  <2> QED BY <2>1, <2>2
<1>8. ASSUME NEW a \in AllocMonths, Store(p, a) PROVE \E u : Go(p, u) /\ Kept(u)
  <2> DEFINE u == [s EXCEPT !.pc = "resolve", !.todo = @ \ {a}, !.held = @ \cup {a},
                            !.snap.links = @ \cup {a}]
  <2>1. Go(p, u) /\ Kept(u)
    BY <1>1, <1>8 DEF Store, Session
  <2> QED BY <2>1
<1>9. ASSUME NEW a \in AllocMonths, Unfreeze(p, a) PROVE \E u : Go(p, u) /\ Kept(u)
  <2> DEFINE u == [s EXCEPT !.todo = @ \ {a}, !.held = @ \cup {a}]
  <2>1. Go(p, u) /\ Kept(u)
    BY <1>1, <1>9 DEF Unfreeze, Session
  <2> QED BY <2>1
<1>10. ASSUME SelectLater(p) \/ LockLater(p) \/ Clear(p) PROVE \E u : Go(p, u) /\ Kept(u)
  <2> DEFINE select == [s EXCEPT !.pc = "wait",
                                 !.later = {d \in Months : d > s.month /\ Closed(d)}]
             lock == [s EXCEPT !.pc = "clear", !.rows = @ \cup StillClosed(s)]
             clear == [s EXCEPT !.pc = "unfreeze",
                                !.todo = LinksOf(s.rows) \ LinksOf(Months \ s.rows)]
  <2>1. s.op = "reopen"
    BY <1>1, <1>10 DEF SelectLater, LockLater, Clear, StagesOf, Session
  <2>2. Kept(select) /\ Kept(lock) /\ Kept(clear)
    BY <1>1, <2>1 DEF Session
  <2>3. Go(p, select) \/ Go(p, lock) \/ Go(p, clear)
    BY <1>10 DEF SelectLater, LockLater, Clear, LinksOf
  <2> HIDE DEF Kept, select, lock, clear
  <2> QED BY <2>2, <2>3
<1>11. PICK u : Go(p, u) /\ Kept(u)
  BY <1>4, <1>5, <1>6, <1>7, <1>8, <1>9, <1>10
<1> HIDE DEF Kept
<1>12. /\ sess'[p] = u /\ (u.op = "finalize" /\ u.pc # "current" => HasRead(p, u.month))
       /\ u.pc # "checkin" /\ u.new.observed = sess[p].new.observed
  BY <1>3, <1>11 DEF Kept, HasRead
<1> QED
  BY <1>2, <1>3, <1>11, <1>12, QuietStep

LEMMA EditLookSeen ==
  ASSUME CloseInv, SeenInv, NEW p \in Procs, EditLook(p)
  PROVE  SeenInv'
<1> DEFINE s == sess[p]
           t == [s EXCEPT !.pc = "checkin"]
<1>1. s \in Session /\ s.op = "checkin"
  BY OwnSession DEF EditLook, StagesOf, Session
<1>2. t.pc = "checkin" /\ t.op = "checkin" /\ t.month = s.month /\ t.from = s.from
  BY <1>1 DEF Session
<1>3. /\ Go(p, t) /\ Looked(p, s.month) /\ ~Closed(s.from)
      /\ UNCHANGED <<row, checkin, unseen>>
  BY DEF EditLook
<1> HIDE DEF t
<1> QED
  BY <1>2, <1>3, LookedSeen

\* A request ends, and closes nothing.
LEMMA EndsSeen ==
  ASSUME CloseInv, SeenInv, NEW p \in Procs, End(p), UNCHANGED <<checkin, unseen>>,
         behind \ {p} \subseteq behind',
         \A m \in Months : Closed(m)' => Closed(m) /\ row'[m].observed = row[m].observed
  PROVE  SeenInv'
<1>1. /\ sess'[p] = Idle /\ \A q \in Procs \ {p} : sess'[q] = sess[q]
      /\ Idle.pc = "idle" /\ Idle.op = "none"
  BY DEF CloseInv, StateTypeOK, End, Idle
<1>2. \A q \in Procs : \A m : HasRead(q, m)' => HasRead(q, m)
  BY <1>1 DEF HasRead
<1>3. ClosedCheckinsSeen'
  BY DEF SeenInv, ClosedCheckinsSeen
<1>4. ASSUME NEW q \in Procs PROVE FigureSeen(sess[q])'
  BY <1>1 DEF SeenInv, FigureSeen
<1>5. ASSUME NEW q \in Procs PROVE InTime(q)'
  <2>1. CASE q = p
    BY <1>1, <2>1 DEF InTime
  <2>2. CASE q # p
    <3> DEFINE u == sess[q]
    <3>1. sess'[q] = u /\ InTime(q) /\ (u.pc = "checkin" => u.month \in Months)
      BY <1>1, <2>2, OwnSession DEF SeenInv, CloseLocks, StagesOf, Session
    <3>2. u.pc = "checkin" /\ ~Closed(u.month) =>
            row'[u.month].status \notin {"finalized", "locked"}
      BY <3>1 DEF Closed
    <3> QED BY <1>2, <2>2, <3>1, <3>2 DEF InTime, Closed
  <2> QED BY <2>1, <2>2
<1> QED
  BY <1>3, <1>4, <1>5 DEF SeenInv

LEMMA CommitsSeen ==
  ASSUME CloseInv, SeenInv, NEW p \in Procs,
         Rollback(p) \/ AllocationCommit(p) \/ ReopenCommit(p)
  PROVE  SeenInv'
<1>1. End(p) /\ UNCHANGED <<checkin, unseen>> /\ behind \ {p} \subseteq behind'
  BY DEF Rollback, AllocationCommit, ReopenCommit, history
<1>2. ASSUME NEW m \in Months, Closed(m)'
      PROVE  Closed(m) /\ row'[m].observed = row[m].observed
  <2>1. CASE UNCHANGED row
    BY <1>2, <2>1 DEF Closed
  <2>2. CASE ReopenCommit(p)
    <3>1. row'[m] = row[m] \/ row'[m] = Draft
      BY <2>2, ReopenedRows
    <3> QED BY <1>2, <3>1, InitialTypes DEF Closed
  <2> QED BY <2>1, <2>2 DEF Rollback, AllocationCommit
<1> QED
  BY <1>1, <1>2, EndsSeen

\* The close has the figures the finalization read.
LEMMA FinalizeCommitSeen ==
  ASSUME CloseInv, SeenInv, NEW p \in Procs, FinalizeCommit(p)
  PROVE  SeenInv'
<1> DEFINE s == sess[p]
           n == s.month
<1>1. s \in Session /\ s.op = "finalize" /\ s.pc = "commit" /\ n \in Months
  BY OwnSession DEF FinalizeCommit, StagesOf, Session
<1>2. /\ sess'[p] = Idle /\ \A q \in Procs \ {p} : sess'[q] = sess[q]
      /\ Idle.pc = "idle" /\ Idle.op = "none"
      /\ UNCHANGED <<checkin, behind, unseen>>
      /\ row'[n] = s.new /\ \A m \in Months \ {n} : row'[m] = row[m]
  BY <1>1 DEF FinalizeCommit, CloseInv, StateTypeOK, End, Idle, history
<1>3. \A q \in Procs : \A m : HasRead(q, m)' => HasRead(q, m)
  BY <1>2 DEF HasRead
<1>4. HasRead(p, n) /\ FigureSeen(s)
  BY <1>1 DEF HasRead, SeenInv
<1>5. ClosedCheckinsSeen'
  <2>1. ASSUME NEW m \in Months, Closed(m)', checkin[m] # NoCheckin, m \notin unseen
        PROVE  row'[m].observed = checkin[m].figure
    <3>1. CASE m = n
      BY <1>1, <1>2, <1>4, <2>1, <3>1 DEF FigureSeen
    <3>2. CASE m # n
      BY <1>2, <2>1, <3>2 DEF SeenInv, ClosedCheckinsSeen, Closed
    <3> QED BY <3>1, <3>2
  <2> QED BY <1>2, <2>1 DEF ClosedCheckinsSeen
<1>6. ASSUME NEW q \in Procs PROVE FigureSeen(sess[q])'
  BY <1>2 DEF SeenInv, FigureSeen
<1>7. ASSUME NEW q \in Procs PROVE InTime(q)'
  <2>1. CASE q = p
    BY <1>2, <2>1 DEF InTime
  <2>2. CASE q # p
    <3>1. sess[q].pc = "checkin" => sess[q].month \in Months
      BY OwnSession DEF CloseLocks, StagesOf, Session
    <3> QED
      BY <1>2, <1>3, <1>4, <2>2, <3>1 DEF SeenInv, InTime, Closed
  <2> QED BY <2>1, <2>2
<1> QED
  BY <1>5, <1>6, <1>7 DEF SeenInv

\* A check-in is saved by a request in time into a month that is open and whose
\* figures are still to be read, or its month is marked; the month it leaves has none.
LEMMA SaveCheckinSeen ==
  ASSUME CloseInv, SeenInv, NEW p \in Procs, NEW i \in CheckinIds, SaveCheckin(p, i)
  PROVE  SeenInv'
<1> DEFINE s == sess[p]
           n == s.month
<1>1. s \in Session /\ s.pc = "checkin" /\ n \in Months
  BY OwnSession DEF SaveCheckin, CloseLocks, StagesOf, Session
<1>2. /\ sess'[p] = Idle /\ \A q \in Procs \ {p} : sess'[q] = sess[q]
      /\ Idle.pc = "idle" /\ Idle.op = "none"
      /\ UNCHANGED row /\ behind' = behind \ {p}
      /\ unseen \subseteq unseen' /\ (p \in behind \/ s.from # n => n \in unseen')
  BY DEF SaveCheckin, CloseInv, StateTypeOK, End, Idle
<1>3. \A m \in Months \ {n} : checkin'[m] \in {checkin[m], NoCheckin}
  BY DEF SaveCheckin
<1>4. n \in unseen' \/ (~Closed(n) /\ \A q \in Procs : ~HasRead(q, n))
  BY <1>1, <1>2 DEF SeenInv, InTime
<1>5. \A q \in Procs : \A m : HasRead(q, m)' => HasRead(q, m)
  BY <1>2 DEF HasRead
<1>6. ClosedCheckinsSeen'
  <2>1. ASSUME NEW m \in Months, Closed(m), checkin'[m] # NoCheckin, m \notin unseen'
        PROVE  row[m].observed = checkin'[m].figure
    <3>1. m # n
      BY <1>4, <2>1
    <3> QED BY <1>2, <1>3, <2>1, <3>1 DEF SeenInv, ClosedCheckinsSeen
  <2> QED BY <1>2, <2>1 DEF ClosedCheckinsSeen, Closed
<1>7. ASSUME NEW q \in Procs PROVE FigureSeen(sess[q])'
  <2>1. CASE q = p
    BY <1>2, <2>1 DEF FigureSeen
  <2>2. CASE q # p
    <3> DEFINE u == sess[q]
    <3>1. sess'[q] = u /\ FigureSeen(u) /\ (u.op = "finalize" => u.month \in Months)
      BY <1>2, <2>2, OwnSession DEF SeenInv
    <3>2. u.op = "finalize" /\ u.pc # "current" => HasRead(q, u.month)
      BY DEF HasRead
    <3> QED
      BY <1>2, <1>3, <1>4, <3>1, <3>2 DEF FigureSeen
  <2> QED BY <2>1, <2>2
<1>8. ASSUME NEW q \in Procs PROVE InTime(q)'
  <2>1. CASE q = p
    BY <1>2, <2>1 DEF InTime
  <2>2. CASE q # p
    BY <1>2, <1>5, <2>2 DEF SeenInv, InTime, Closed
  <2> QED BY <2>1, <2>2
<1> QED
  BY <1>6, <1>7, <1>8 DEF SeenInv

\* One-statement operations close nothing, and of check-ins they only delete one.
LEMMA StatementSeen ==
  ASSUME CloseInv, SeenInv, UNCHANGED <<sess, history>>,
         \A m : (Closed(m)' <=> Closed(m)) /\ (m \in Months => row'[m].observed = row[m].observed),
         \A m \in Months : checkin'[m] \in {checkin[m], NoCheckin}
  PROVE  SeenInv'
<1>1. UNCHANGED <<behind, unseen>>
  BY DEF history
<1>2. ClosedCheckinsSeen'
  BY <1>1 DEF SeenInv, ClosedCheckinsSeen
<1>3. ASSUME NEW q \in Procs PROVE FigureSeen(sess[q])'
  <2>1. sess[q].op = "finalize" => sess[q].month \in Months
    BY OwnSession
  <2> QED BY <1>1, <2>1 DEF SeenInv, FigureSeen
<1>4. ASSUME NEW q \in Procs PROVE InTime(q)'
  BY <1>1 DEF SeenInv, InTime, HasRead
<1> QED
  BY <1>2, <1>3, <1>4 DEF SeenInv

LEMMA StatementsSeen ==
  ASSUME CloseInv, SeenInv, NEW n \in Months,
         LockClose(n) \/ Settle(n) \/ PostMovement(n) \/ DeleteCheckin(n)
  PROVE  SeenInv'
<1>1. UNCHANGED <<sess, history>>
  BY DEF LockClose, Settle, PostMovement, DeleteCheckin
<1>2. \A m \in Months : checkin'[m] \in {checkin[m], NoCheckin}
  BY DEF LockClose, Settle, PostMovement, DeleteCheckin, CloseInv, StateTypeOK
<1>3. CASE LockClose(n)
  <2>1. /\ \A m \in Months : row'[m].observed = row[m].observed
        /\ \A m : m # n => row'[m] = row[m]
        /\ row[n].status = "finalized" /\ row'[n].status = "locked"
    BY <1>3 DEF LockClose, CloseInv, StateTypeOK, Row
  <2> QED BY <1>1, <1>2, <2>1, StatementSeen DEF Closed
<1>4. CASE UNCHANGED row
  BY <1>1, <1>2, <1>4, StatementSeen DEF Closed
<1> QED
  BY <1>3, <1>4 DEF Settle, PostMovement, DeleteCheckin

LEMMA SeenKept == CloseInv /\ SeenInv /\ [Next]_vars => SeenInv'
<1> SUFFICES ASSUME CloseInv, SeenInv, [Next]_vars PROVE SeenInv'
  OBVIOUS
<1>1. ASSUME NEW p \in Procs, Proceeds(p) PROVE SeenInv'
  BY <1>1, ReadCurrentSeen, ReadsSeen, CommitsSeen, FinalizeCommitSeen, EditLookSeen,
     SaveCheckinSeen
  DEF Proceeds
<1>2. ASSUME NEW p \in Procs, Waits(p) PROVE SeenInv'
  BY <1>2, ReadsSeen DEF Waits
<1>3. CASE UNCHANGED vars
  BY <1>3, StatementSeen DEF vars, Closed
<1> QED
  BY <1>1, <1>2, <1>3, StartsSeen, CommitsSeen, StatementsSeen DEF Next

\* What a closed month shows as its check-in is the figure it was closed with, on a
\* chain of any length and however many requests post, edit and delete check-ins,
\* finalize and reopen at one time, but for the two ways around the guard.
THEOREM CheckinsCorrect == Spec => []ClosedCheckinsSeen
<1>1. Init => SeenInv
  BY InitialTypes
  DEF Init, SeenInv, ClosedCheckinsSeen, FigureSeen, InTime, HasRead, Closed, Idle
<1>2. SeenInv => ClosedCheckinsSeen
  BY DEF SeenInv
<1> QED
  BY <1>1, <1>2, SeenKept, CloseInvCorrect, PTL DEF Spec
=============================================================================
