---------------------------- MODULE MonthlyClose ----------------------------
(***************************************************************************)
(* The chain of monthly closes of one user                                 *)
(* (backend/budget/services_monthly_close.py), with the settlement         *)
(* snapshot a finalization freezes (services_settlement_preview.py), the   *)
(* ownership allocations it freezes with it                                *)
(* (memberships/services_allocations.py) and the figures closes are made   *)
(* of: ledger movements and month-end check-ins.                           *)
(*                                                                         *)
(* A request is a session that reads in several statements, each of which  *)
(* sees what is committed when it starts (READ COMMITTED), and whose       *)
(* writes become visible at once when it commits.                          *)
(***************************************************************************)
EXTENDS Integers, FiniteSets, FiniteSetsExt

CONSTANTS
  LastMonth,      \* months are 1..LastMonth
  MaxPosts,       \* bound on the ledger movements posted
  CheckinValues,  \* balances a user may check in
  CheckinMonths,  \* bound: months with check-ins
  CheckinIds,     \* bound: rows of check-ins, those being saved among them
  Modes,          \* what a settlement preview may answer
  Procs           \* requests being served at one time

ASSUME ConstantsAssumption ==
  /\ LastMonth \in Nat \ {0} /\ MaxPosts \in Nat
  /\ CheckinValues \subseteq Nat \ {0} /\ CheckinMonths \subseteq 1..LastMonth
  /\ CheckinIds \subseteq Nat \ {0}
  /\ Modes \subseteq {"disabled", "not_ready", "ready"}

VARIABLES
  row,      \* MonthlyClose rows
  snap,     \* SettlementSnapshot of each close
  alloc,    \* OwnershipAllocationSnapshot of each month
  ledger,   \* liquidity at the end of each month according to the ledger
  checkin,  \* liquidity check-in of each month
  sess,     \* requests in progress
  behind,   \* history: requests saving a check-in of a month a finalization has read
  unseen    \* history: months whose check-in was saved after, or from another month

history == <<behind, unseen>>
vars == <<row, snap, alloc, ledger, checkin, sess, history>>

Months == 1..LastMonth
\* A close for m also allocates what is reserved for m + 1.
AllocMonths == 1..(LastMonth + 1)
NoFigure == 0   \* NULL
NoMonth == 0

Statuses == {"draft", "finalized", "locked"}
\* source: where the opening was read (history, not stored by the program).
Row == [status : Statuses, observed : Nat, opening : Nat, source : {"none", "close", "live"}]
Draft == [status |-> "draft", observed |-> NoFigure, opening |-> NoFigure, source |-> "none"]

(* values: the allocations in its payload; links: the allocation rows it    *)
(* froze; moved: whether one of its recommendations has a ledger movement.  *)
Snapshot == [exists : BOOLEAN, ready : BOOLEAN, previous : Months \cup {NoMonth},
             values : [AllocMonths -> Nat], links : SUBSET AllocMonths, moved : BOOLEAN]
NoSnapshot == [exists |-> FALSE, ready |-> FALSE, previous |-> NoMonth,
               values |-> [a \in AllocMonths |-> 0], links |-> {}, moved |-> FALSE]

Alloc == [value : Nat, frozen : BOOLEAN]

\* A check-in is one row for a month, and keeps its identity when its month is edited.
NoRow == 0
NoCheckin == [id |-> NoRow, figure |-> NoFigure]
Checkin == [id : CheckinIds, figure : CheckinValues]

(* new, snap: what the request is to write; held: the allocation rows it    *)
(* wrote, with mine in them; rows: the close rows it locked; later: the     *)
(* closes a reopening has selected; from, id: the month of the check-in it  *)
(* looked at, and the row it edits.                                         *)
Session == [pc : {"idle", "current", "previous", "preview", "resolve", "store", "commit",
                  "select", "wait", "clear", "unfreeze", "look", "checkin"},
            op : {"none", "finalize", "allocation", "reopen", "checkin"},
            month : Months \cup {NoMonth}, new : Row, snap : Snapshot,
            todo : SUBSET AllocMonths, held : SUBSET AllocMonths,
            mine : [AllocMonths -> Nat], later : SUBSET Months, rows : SUBSET Months,
            from : Months \cup {NoMonth}, id : CheckinIds \cup {NoRow}]
Idle == [pc |-> "idle", op |-> "none", month |-> NoMonth, new |-> Draft, snap |-> NoSnapshot,
         todo |-> {}, held |-> {}, mine |-> [a \in AllocMonths |-> 0], later |-> {}, rows |-> {},
         from |-> NoMonth, id |-> NoRow]

StateTypeOK ==
  /\ row \in [Months -> Row]
  /\ snap \in [Months -> Snapshot]
  /\ alloc \in [AllocMonths -> Alloc]
  /\ ledger \in [Months -> 0..MaxPosts]
  /\ checkin \in [Months -> Checkin \cup {NoCheckin}]
  /\ sess \in [Procs -> Session]
TypeOK == StateTypeOK /\ behind \subseteq Procs /\ unseen \subseteq Months

Init ==
  /\ row = [m \in Months |-> Draft]
  /\ snap = [m \in Months |-> NoSnapshot]
  /\ alloc = [a \in AllocMonths |-> [value |-> 0, frozen |-> FALSE]]
  /\ ledger = [m \in Months |-> 0]
  /\ checkin = [m \in Months |-> NoCheckin]
  /\ sess = [p \in Procs |-> Idle]
  /\ behind = {} /\ unseen = {}

-----------------------------------------------------------------------------
(* What the services read *)

Closed(m) == row[m].status \in {"finalized", "locked"}
RowFree(m) == \A p \in Procs : m \notin sess[p].rows
AllocFree(a) == \A p \in Procs : a \notin sess[p].held

\* A check-in overrides the ledger; with neither there is no figure.
Executed(m) == IF checkin[m] # NoCheckin THEN checkin[m].figure ELSE ledger[m]

\* The percentages of a month come from the movements of the months before it.
Calculated(a) == IF a = 1 THEN 0 ELSE ledger[a - 1]

\* fault: the change since the previous month is stored as the opening
BoundaryDelta(m) ==
  [opening |-> IF m - 1 \in Months THEN row[m - 1].observed - Executed(m) ELSE NoFigure,
   source |-> "none"]
\* fault: the boundary is recalculated even when the previous month is closed
BoundaryLive(m) ==
  IF m - 1 \in Months /\ Closed(m - 1) THEN [opening |-> Executed(m - 1), source |-> "close"]
  ELSE [opening |-> NoFigure, source |-> "none"]
Boundary(m) ==
  IF m - 1 \in Months /\ Closed(m - 1) /\ row[m - 1].observed # NoFigure
    THEN [opening |-> row[m - 1].observed, source |-> "close"]
  ELSE IF m - 1 \in Months /\ Executed(m - 1) # NoFigure
    THEN [opening |-> Executed(m - 1), source |-> "live"]
  ELSE [opening |-> NoFigure, source |-> "none"]

\* The settlement opens from the latest ready close, not always the month before.
Latest(m) == Max({NoMonth} \cup {d \in Months : d < m /\ Closed(d) /\ snap[d].exists /\ snap[d].ready})

\* Movements since the previous close, and the reserves of the next month.
Refs(m, previous) == (previous + 1)..(m + 1)

End(p) == sess' = [sess EXCEPT ![p] = Idle]
Go(p, s) == sess' = [sess EXCEPT ![p] = s]

-----------------------------------------------------------------------------
(* Finalization *)

FinalizeStart(p, m) ==
  /\ sess[p].pc = "idle"
  /\ RowFree(m)
  /\ row[m].status = "draft"
  /\ Go(p, [Idle EXCEPT !.pc = "current", !.op = "finalize", !.month = m, !.rows = {m}])
  /\ UNCHANGED <<row, snap, alloc, ledger, checkin, history>>

ReadCurrent(p) ==
  LET s == sess[p] IN
  /\ s.pc = "current"
  /\ Go(p, [s EXCEPT !.pc = "previous", !.new.status = "finalized",
                     !.new.observed = Executed(s.month)])
  /\ behind' = behind \cup {q \in Procs : sess[q].pc = "checkin" /\ sess[q].month = s.month}
  /\ unseen' = unseen \ {s.month}
  /\ UNCHANGED <<row, snap, alloc, ledger, checkin>>

ReadPrevious(p) ==
  LET s == sess[p]  b == Boundary(s.month) IN
  /\ s.pc = "previous"
  /\ Go(p, [s EXCEPT !.pc = "preview", !.new.opening = b.opening, !.new.source = b.source])
  /\ UNCHANGED <<row, snap, alloc, ledger, checkin, history>>

\* The first preview says whether there is anything to freeze, and which
\* allocations.
FirstPreview(p, mode) ==
  LET s == sess[p]  prev == Latest(s.month) IN
  /\ s.pc = "preview"
  /\ CASE mode = "disabled" -> Go(p, [s EXCEPT !.pc = "commit"])
       [] mode = "not_ready" -> Go(p, [s EXCEPT !.pc = "commit", !.snap.exists = TRUE,
                                                !.snap.previous = prev])
       [] mode = "ready" -> Go(p, [s EXCEPT !.pc = "resolve", !.snap.exists = TRUE,
                                            !.todo = Refs(s.month, prev)])
  /\ UNCHANGED <<row, snap, alloc, ledger, checkin, history>>

\* A row seen frozen is taken as it is; another one is calculated now and stored
\* later.
Resolve(p, a) ==
  LET s == sess[p] IN
  /\ s.pc = "resolve" /\ a \in s.todo /\ \A b \in s.todo : a <= b
  /\ IF alloc[a].frozen
       THEN Go(p, [s EXCEPT !.todo = @ \ {a}, !.snap.links = @ \cup {a}])
       ELSE Go(p, [s EXCEPT !.pc = "store", !.mine[a] = Calculated(a)])
  /\ UNCHANGED <<row, snap, alloc, ledger, checkin, history>>

\* The update waits for the row, and does not look whether it was frozen since.
Store(p, a) ==
  LET s == sess[p] IN
  /\ s.pc = "store" /\ a \in s.todo /\ \A b \in s.todo : a <= b
  /\ AllocFree(a)
  /\ Go(p, [s EXCEPT !.pc = "resolve", !.todo = @ \ {a}, !.held = @ \cup {a},
                     !.snap.links = @ \cup {a}])
  /\ UNCHANGED <<row, snap, alloc, ledger, checkin, history>>

\* The preview is calculated again on the frozen allocations, from scratch.
SecondPreview(p, mode) ==
  LET s == sess[p]  prev == Latest(s.month)
      value(a) == IF a \in s.held THEN s.mine[a]
                  ELSE IF alloc[a].frozen THEN alloc[a].value ELSE Calculated(a)
  IN
  /\ s.pc = "resolve" /\ s.op = "finalize" /\ s.todo = {}
  /\ mode # "disabled"
  /\ Go(p, [s EXCEPT !.pc = "commit", !.snap.ready = (mode = "ready"), !.snap.previous = prev,
                     !.snap.values = [a \in AllocMonths |->
                                        IF a \in Refs(s.month, prev) THEN value(a) ELSE 0]])
  /\ UNCHANGED <<row, snap, alloc, ledger, checkin, history>>

Stored(s, freeze) ==
  [a \in AllocMonths |-> IF a \in s.held
                           THEN [value |-> s.mine[a], frozen |-> freeze \/ alloc[a].frozen]
                           ELSE alloc[a]]

FinalizeCommit(p) ==
  LET s == sess[p] IN
  /\ s.pc = "commit"
  /\ row' = [row EXCEPT ![s.month] = s.new]
  /\ snap' = [snap EXCEPT ![s.month] = s.snap]
  /\ alloc' = Stored(s, TRUE)
  /\ End(p)
  /\ UNCHANGED <<ledger, checkin, history>>

-----------------------------------------------------------------------------
(* GET allocation-preview stores what it calculates, without freezing it *)

AllocationStart(p, a) ==
  /\ sess[p].pc = "idle"
  /\ Go(p, [Idle EXCEPT !.pc = "resolve", !.op = "allocation", !.todo = {a}])
  /\ UNCHANGED <<row, snap, alloc, ledger, checkin, history>>

AllocationCommit(p) ==
  LET s == sess[p] IN
  /\ s.pc = "resolve" /\ s.op = "allocation" /\ s.todo = {}
  /\ alloc' = Stored(s, FALSE)
  /\ End(p)
  /\ UNCHANGED <<row, snap, ledger, checkin, history>>

-----------------------------------------------------------------------------
(* Reopening *)

ReopenStart(p, m) ==
  /\ sess[p].pc = "idle"
  /\ RowFree(m)
  /\ row[m].status = "finalized"
  /\ Go(p, [Idle EXCEPT !.pc = "select", !.op = "reopen", !.month = m, !.rows = {m}])
  /\ UNCHANGED <<row, snap, alloc, ledger, checkin, history>>

\* fault: only the next month is invalidated
SelectNext(p) ==
  /\ sess[p].pc = "select"
  /\ Go(p, [sess[p] EXCEPT !.pc = "wait",
              !.later = {d \in Months : d = sess[p].month + 1 /\ Closed(d)}])
  /\ UNCHANGED <<row, snap, alloc, ledger, checkin, history>>

\* fault: earlier closes are selected too
SelectOthers(p) ==
  /\ sess[p].pc = "select"
  /\ Go(p, [sess[p] EXCEPT !.pc = "wait",
              !.later = {d \in Months : d # sess[p].month /\ Closed(d)}])
  /\ UNCHANGED <<row, snap, alloc, ledger, checkin, history>>

\* A finalization in progress is still a draft here: it is neither selected nor
\* waited for.
SelectLater(p) ==
  LET s == sess[p] IN
  /\ s.pc = "select"
  /\ Go(p, [s EXCEPT !.pc = "wait", !.later = {d \in Months : d > s.month /\ Closed(d)}])
  /\ UNCHANGED <<row, snap, alloc, ledger, checkin, history>>

\* Selected rows are locked as they become free, and looked at again then.
StillClosed(s) == {d \in s.later : Closed(d)}
LockLater(p) ==
  LET s == sess[p] IN
  /\ s.pc = "wait"
  /\ \A d \in s.later : RowFree(d)
  /\ \A d \in StillClosed(s) : row[d].status # "locked"
  /\ \A d \in s.rows \cup StillClosed(s) : ~snap[d].moved
  /\ Go(p, [s EXCEPT !.pc = "clear", !.rows = @ \cup StillClosed(s)])
  /\ UNCHANGED <<row, snap, alloc, ledger, checkin, history>>

\* fault: the snapshots are deleted whatever was booked since the check
ClearUnguarded(p) ==
  /\ sess[p].pc = "clear"
  /\ Go(p, [sess[p] EXCEPT !.pc = "unfreeze"])
  /\ UNCHANGED <<row, snap, alloc, ledger, checkin, history>>

\* fault: an allocation another close still refers to is unfrozen
ClearShared(p) ==
  LET s == sess[p] IN
  /\ s.pc = "clear" /\ \A d \in s.rows : ~snap[d].moved
  /\ Go(p, [s EXCEPT !.pc = "unfreeze", !.todo = UNION {snap[d].links : d \in s.rows}])
  /\ UNCHANGED <<row, snap, alloc, ledger, checkin, history>>

\* Deleting the snapshots fails if a movement refers to a recommendation; their
\* allocations are to be unfrozen unless another snapshot refers to them.
Clear(p) ==
  LET s == sess[p]
      links(S) == UNION {snap[d].links : d \in S}
  IN
  /\ s.pc = "clear"
  /\ \A d \in s.rows : ~snap[d].moved
  /\ Go(p, [s EXCEPT !.pc = "unfreeze", !.todo = links(s.rows) \ links(Months \ s.rows)])
  /\ UNCHANGED <<row, snap, alloc, ledger, checkin, history>>

\* Close by close, and of one close the latest month first.
UnfrozenNext(s, a) ==
  LET last(b) == Max({d \in s.rows : b \in snap[d].links}) IN
  /\ a \in s.todo
  /\ \A b \in s.todo : last(a) < last(b) \/ (last(a) = last(b) /\ a >= b)

Unfreeze(p, a) ==
  LET s == sess[p] IN
  /\ s.pc = "unfreeze" /\ UnfrozenNext(s, a)
  /\ AllocFree(a)
  /\ Go(p, [s EXCEPT !.todo = @ \ {a}, !.held = @ \cup {a}])
  /\ UNCHANGED <<row, snap, alloc, ledger, checkin, history>>

ReopenCommit(p) ==
  LET s == sess[p] IN
  /\ s.pc = "unfreeze" /\ s.todo = {}
  /\ row' = [m \in Months |-> IF m \in s.rows THEN Draft ELSE row[m]]
  /\ snap' = [m \in Months |-> IF m \in s.rows THEN NoSnapshot ELSE snap[m]]
  /\ alloc' = [a \in AllocMonths |->
                 IF a \in s.held THEN [alloc[a] EXCEPT !.frozen = FALSE] ELSE alloc[a]]
  /\ End(p)
  /\ UNCHANGED <<ledger, checkin, history>>

-----------------------------------------------------------------------------
(* A request that ends without writing anything *)

\* Refused (a later close is locked, or one has movements), or broken off by an
\* error or the loss of its connection.
Rollback(p) ==
  /\ sess[p].pc # "idle"
  /\ End(p)
  /\ behind' = behind \ {p}
  /\ UNCHANGED <<row, snap, alloc, ledger, checkin, unseen>>

-----------------------------------------------------------------------------
(* One-statement operations *)

LockClose(m) ==
  /\ RowFree(m)
  /\ row[m].status = "finalized"
  /\ row' = [row EXCEPT ![m].status = "locked"]
  /\ UNCHANGED <<snap, alloc, ledger, checkin, sess, history>>

\* A recommendation is applied (module SettlementExecution).  It does not lock
\* the close; once its recommendation is being deleted it waits and finds none.
Settle(m) ==
  /\ row[m].status = "finalized" /\ snap[m].ready
  /\ \A p \in Procs : sess[p].pc = "unfreeze" => m \notin sess[p].rows
  /\ snap' = [snap EXCEPT ![m].moved = TRUE]
  /\ UNCHANGED <<row, alloc, ledger, checkin, sess, history>>

\* Movements may be dated in any month, closed or not.
PostMovement(m) ==
  /\ ledger[LastMonth] < MaxPosts
  /\ ledger' = [k \in Months |-> IF k >= m THEN ledger[k] + 1 ELSE ledger[k]]
  /\ UNCHANGED <<row, snap, alloc, checkin, sess, history>>

-----------------------------------------------------------------------------
(* Check-ins.  The guard reads the close in a statement of its own, which does *)
(* not wait for a finalization in progress.                                    *)

HasRead(p, m) == sess[p].op = "finalize" /\ sess[p].month = m /\ sess[p].pc # "current"
Looked(p, m) == behind' = IF \E q \in Procs : HasRead(q, m) THEN behind \cup {p} ELSE behind

\* fault: check-ins are saved whatever the status of the close
CheckinStartUnguarded(p, m, v) ==
  /\ sess[p].pc = "idle"
  /\ Go(p, [Idle EXCEPT !.pc = "checkin", !.op = "checkin", !.month = m, !.from = m,
                        !.new.observed = v])
  /\ Looked(p, m)
  /\ UNCHANGED <<row, snap, alloc, ledger, checkin, unseen>>

\* A check-in is posted for a month.
CheckinStart(p, m, v) ==
  /\ sess[p].pc = "idle"
  /\ ~Closed(m)
  /\ Go(p, [Idle EXCEPT !.pc = "checkin", !.op = "checkin", !.month = m, !.from = m,
                        !.new.observed = v])
  /\ Looked(p, m)
  /\ UNCHANGED <<row, snap, alloc, ledger, checkin, unseen>>

\* The check-in of month m is edited, its month among the rest.
EditStart(p, m, target, v) ==
  /\ sess[p].pc = "idle"
  /\ checkin[m] # NoCheckin
  /\ Go(p, [Idle EXCEPT !.pc = "look", !.op = "checkin", !.month = target, !.from = m,
                        !.id = checkin[m].id, !.new.observed = v])
  /\ UNCHANGED <<row, snap, alloc, ledger, checkin, history>>

\* The guard looks at the month the check-in had, not at the one it is given.
EditLook(p) ==
  LET s == sess[p] IN
  /\ s.pc = "look"
  /\ ~Closed(s.from)
  /\ Go(p, [s EXCEPT !.pc = "checkin"])
  /\ Looked(p, s.month)
  /\ UNCHANGED <<row, snap, alloc, ledger, checkin, unseen>>

\* The row written: the one edited, or inserted again with its identity if it is
\* gone; of a month posted the one it has, or else a new one.
Unused(i) == (\A m \in Months : checkin[m].id # i) /\ (\A q \in Procs : sess[q].id # i)
Written(s, i) ==
  IF s.id # NoRow THEN i = s.id
  ELSE IF checkin[s.month] # NoCheckin THEN i = checkin[s.month].id
  ELSE Unused(i) /\ \A j \in CheckinIds : Unused(j) => i <= j

\* A month has one check-in: an edit onto another one's month fails.
SaveCheckin(p, i) ==
  LET s == sess[p] IN
  /\ s.pc = "checkin"
  /\ Written(s, i) /\ checkin[s.month].id \in {NoRow, i}
  /\ checkin' = [m \in Months |->
                   IF m = s.month THEN [id |-> i, figure |-> s.new.observed]
                   ELSE IF checkin[m].id = i THEN NoCheckin ELSE checkin[m]]
  /\ unseen' = IF p \in behind \/ s.from # s.month THEN unseen \cup {s.month} ELSE unseen
  /\ behind' = behind \ {p}
  /\ End(p)
  /\ UNCHANGED <<row, snap, alloc, ledger>>

\* Deleting a check-in is not guarded.
DeleteCheckin(m) ==
  /\ checkin[m] # NoCheckin
  /\ checkin' = [checkin EXCEPT ![m] = NoCheckin]
  /\ UNCHANGED <<row, snap, alloc, ledger, sess, history>>

-----------------------------------------------------------------------------
Starts(p) ==
  \/ \E m \in Months : FinalizeStart(p, m) \/ ReopenStart(p, m)
  \/ \E m \in CheckinMonths, v \in CheckinValues :
       CheckinStart(p, m, v) \/ \E target \in CheckinMonths : EditStart(p, m, target, v)
  \/ \E a \in AllocMonths : AllocationStart(p, a)
Proceeds(p) ==
  \/ ReadCurrent(p) \/ ReadPrevious(p)
  \/ \E mode \in Modes : FirstPreview(p, mode) \/ SecondPreview(p, mode)
  \/ \E a \in AllocMonths : Resolve(p, a)
  \/ FinalizeCommit(p) \/ AllocationCommit(p)
  \/ SelectLater(p) \/ Clear(p) \/ ReopenCommit(p)
  \/ EditLook(p) \/ \E i \in CheckinIds : SaveCheckin(p, i)
Waits(p) ==
  LockLater(p) \/ \E a \in AllocMonths : Store(p, a) \/ Unfreeze(p, a)

Next ==
  \/ \E p \in Procs : Starts(p) \/ Proceeds(p) \/ Waits(p) \/ Rollback(p)
  \/ \E m \in Months : LockClose(m) \/ Settle(m) \/ PostMovement(m) \/ DeleteCheckin(m)

Spec == Init /\ [][Next]_vars

-----------------------------------------------------------------------------
(* Properties *)

\* "The observed close becomes the opening boundary for the next month" and
\* "reopening a finalized month invalidates every later finalized close": a close
\* that opened from the previous month's close still does.
BoundaryHolds ==
  \A m \in Months : row[m].source = "close" =>
    Closed(m - 1) /\ row[m].opening = row[m - 1].observed

\* A settlement that opened from an earlier close still has it, however many
\* months lie between them and in whatever order they were finalized.
SettlementChainHolds ==
  \A m \in Months : (snap[m].exists /\ snap[m].previous # NoMonth) =>
    LET d == snap[m].previous IN d < m /\ Closed(d) /\ snap[d].ready

\* "Frozen snapshots are immutable inputs for finalized monthly closes": the
\* allocations a close froze are frozen with the percentages it used, and no
\* allocation stays frozen without a close that needs it.
FrozenAllocationsHold ==
  \A a \in AllocMonths :
    LET users == {m \in Months : a \in snap[m].links} IN
    /\ alloc[a].frozen <=> users # {}
    /\ \A m \in users : a \in Refs(m, snap[m].previous) => snap[m].values[a] = alloc[a].value

\* What a closed month shows as its check-in is the figure it was closed with,
\* whatever is posted, edited, deleted, finalized and reopened beside it.  Two ways
\* around the guard are set aside, and only those: a check-in looked at before the
\* close was committed and saved after its figures were read, and one that was
\* another month's and is edited onto the closed one, which nothing guards.
ClosedCheckinsSeen ==
  \A m \in Months :
    Closed(m) /\ checkin[m] # NoCheckin /\ m \notin unseen => row[m].observed = checkin[m].figure

\* Whatever runs beside it, a locked close never changes, and a finalized one
\* keeps the figures it froze until it is back in draft without any.
ClosedIsFrozen ==
  [][\A m \in Months :
       /\ row[m].status = "locked" => row'[m] = row[m]
       /\ row[m].status = "finalized" =>
            row'[m] \in {row[m], [row[m] EXCEPT !.status = "locked"], Draft}]_vars

\* A close with a settlement movement is never reopened, not even as a later month
\* of another reopening or by a movement booked while the reopening runs.
MovedClosesStay ==
  [][\A m \in Months : snap[m].moved => Closed(m) /\ Closed(m)' /\ snap'[m] = snap[m]]_vars

\* What is closed stays as it was closed: a locked or finalized close keeps its figures, and one
\* with a movement its snapshot, whatever finalizes, reopens and books beside it (finalize_monthly_close,
\* reopen_monthly_close, lock_monthly_close).
ClosedStay == ClosedIsFrozen /\ MovedClosesStay

WaitsFor(p, q) ==
  LET s == sess[p] IN
  /\ p # q
  /\ \/ s.pc = "store" /\ \E a \in s.todo \cap sess[q].held : \A b \in s.todo : a <= b
     \/ s.pc = "wait" /\ s.later \cap sess[q].rows # {}
     \/ s.pc = "unfreeze" /\ \E a \in sess[q].held : UnfrozenNext(s, a)

\* A row was seen unfrozen and is being written over after another close froze it.
Overwrites(p) == sess[p].op # "reopen" /\ \E a \in sess[p].held : alloc[a].frozen
LinksFrozen == \A m \in Months : \A a \in snap[m].links : alloc[a].frozen

\* Finalizations take allocation rows from the earliest month on, reopenings from
\* the latest on.  Even so no two requests wait for each other, on close rows and
\* allocation rows together, and none is aborted as the victim of a deadlock, as
\* long as what closes refer to is frozen and neither of the two writes over what
\* another close froze.
NoCircularWait ==
  LinksFrozen => \A p, q \in Procs :
                   ~Overwrites(p) /\ ~Overwrites(q) => ~(WaitsFor(p, q) /\ WaitsFor(q, p))

=============================================================================
