----------------------- MODULE SettlementBooksProofs -----------------------
(***************************************************************************)
(* What the recommendations say was applied, and what the ledger holds for *)
(* them: the books agree in every interleaving of requests on routes that  *)
(* belong to one recommendation, and SettlementExecution then implements   *)
(* SettlementObligation.  BookInv is the inductive invariant; Settles says *)
(* of one step that it keeps BookInv and is a step of the obligations.     *)
(***************************************************************************)
EXTENDS SettlementExecutionProofs, SetLemmas

-----------------------------------------------------------------------------
(* What the ledger holds for a recommendation *)

\* A row has a positive amount, and is linked to a recommendation of its route.
Sound(row) ==
  /\ row.status # "none" => row.amount > 0
  /\ row.status \in {"pending", "posted"} /\ row.link # NoRec => row.route = Route[row.link]
RowsSound == \A t \in TxIds : Sound(tx[t])

\* What a recommendation says was applied is booked for it, unless its route is shared.
BooksAgree == \A r \in Recs : SharesRoute(r) \/ rec[r].applied = Net(r)

UnbookedRows == \A r \in Recs : ~Live(r) => rec[r].applied = 0

\* The transfer a request is about to link has at most been deleted since it was
\* listed, or linked to another recommendation of its route.  A batch sends nothing.
Carries(s) ==
  /\ s.pc = "candidate" =>
       /\ tx[s.tx].status \in {"posted", "deleted"}
       /\ tx[s.tx].route = Route[s.rec] /\ tx[s.tx].amount = s.want
       /\ SharesRoute(s.rec) \/ tx[s.tx].link = NoRec
  /\ s.op = "apply_all" => s.want = 0 /\ s.key = Blank
SessionsCarry == \A p \in Procs : Carries(sess[p])

\* What a batch has inserted pays the rest of a row it holds.
PaysRest(row) ==
  /\ row.action = "application" /\ row.key = FullKey(row.link) /\ row.credit > 0
  /\ rec[row.link].applied + row.credit = Amount[row.link]
  /\ \E p \in Procs : row.link \in sess[p].held /\ sess[p].op = "apply_all"
PendingHeld == \A t \in TxIds : tx[t].status = "pending" => PaysRest(tx[t])

IdleHoldNothing == \A p \in Procs : sess[p].pc = "idle" => sess[p].held = {}

\* Inductive.
BookInv == /\ RowsSound /\ BooksAgree /\ UnbookedRows /\ SessionsCarry /\ PendingHeld
           /\ IdleHoldNothing

LEMMA NetType ==
  ASSUME TypeInv, NEW r \in Recs
  PROVE  /\ IsFiniteSet(LinkedTo(r)) /\ LinkedTo(r) \subseteq TxIds
         /\ \A t \in TxIds : Signed(tx[t]) \in Int
         /\ Net(r) \in Int /\ (LinkedTo(r) = {} => Net(r) = 0)
<1>1. LinkedTo(r) \in SUBSET TxIds
  BY DEF LinkedTo
<1>2. IsFiniteSet(LinkedTo(r))
  BY <1>1, ConstantsAssumption, FS_Subset
<1>3. \A t \in TxIds : Signed(tx[t]) \in Int
  BY DEF TypeInv, TypeOK, TxRow, Signed
<1>4. PICK f : f = [t \in TxIds |-> Signed(tx[t])]
  OBVIOUS
<1>5. \A t \in LinkedTo(r) : f[t] \in Int
  BY <1>1, <1>3, <1>4
<1>6. SumFunctionOnSet(f, LinkedTo(r)) \in Int
  BY <1>2, <1>5, SumInt
<1>7. Net(r) = SumFunctionOnSet(f, LinkedTo(r))
  BY <1>4 DEF Net
<1> QED
  BY <1>1, <1>2, <1>3, <1>6, <1>7, SumEmpty

\* What a step may do to the movements of a recommendation.
LinksKept(r) == LinkedTo(r)' = LinkedTo(r) /\ \A t \in LinkedTo(r) : Signed(tx'[t]) = Signed(tx[t])
LinkAdded(r, t, c) ==
  /\ t \notin LinkedTo(r) /\ LinkedTo(r)' = LinkedTo(r) \cup {t} /\ Signed(tx'[t]) = c
  /\ \A u \in LinkedTo(r) : Signed(tx'[u]) = Signed(tx[u])
BooksKept(r) ==
  \/ LinksKept(r) /\ rec'[r].applied = rec[r].applied
  \/ \E t \in TxIds, c \in Int : LinkAdded(r, t, c) /\ rec'[r].applied = rec[r].applied + c
  \/ LinkedTo(r)' = {} /\ rec'[r].applied = 0

LEMMA NetKept ==
  ASSUME TypeInv, NEW r \in Recs, LinksKept(r)
  PROVE  Net(r)' = Net(r)
<1>1. PICK f : f = [t \in TxIds |-> Signed(tx[t])]
  OBVIOUS
<1>2. PICK g : g = [t \in TxIds |-> Signed(tx'[t])]
  OBVIOUS
<1>3. PICK S : S = LinkedTo(r)
  OBVIOUS
<1>4. \A t \in S : f[t] = g[t]
  BY <1>1, <1>2, <1>3, NetType DEF LinksKept
<1>5. Net(r) = SumFunctionOnSet(f, S)
  BY <1>1, <1>3 DEF Net
<1>6. Net(r)' = SumFunctionOnSet(g, S)
  BY <1>2, <1>3 DEF Net, LinksKept
<1> QED
  BY <1>3, <1>4, <1>5, <1>6, NetType, SumSame

LEMMA NetAdded ==
  ASSUME TypeInv, NEW r \in Recs, NEW t \in TxIds, NEW c \in Int, LinkAdded(r, t, c)
  PROVE  Net(r)' = Net(r) + c
<1>1. PICK f : f = [u \in TxIds |-> Signed(tx[u])]
  OBVIOUS
<1>2. PICK g : g = [u \in TxIds |-> Signed(tx'[u])]
  OBVIOUS
<1>3. PICK S : S = LinkedTo(r)
  OBVIOUS
<1>4. /\ IsFiniteSet(S) /\ S \subseteq TxIds /\ t \notin S
      /\ \A u \in S : f[u] = g[u] /\ g[u] \in Int
      /\ g[t] = c
  BY <1>1, <1>2, <1>3, NetType DEF LinkAdded
<1>5. Net(r) = SumFunctionOnSet(f, S) /\ Net(r) \in Int
  BY <1>1, <1>3, NetType DEF Net
<1>6. Net(r)' = SumFunctionOnSet(g, S \cup {t})
  BY <1>2, <1>3 DEF Net, LinkAdded
<1>7. SumFunctionOnSet(f, S) = SumFunctionOnSet(g, S)
  BY <1>4, SumSame
<1>8. SumFunctionOnSet(g, S \cup {t}) = g[t] + SumFunctionOnSet(g, S)
  <2>1. \A u \in S \cup {t} : g[u] \in Int
    BY <1>4
  <2> QED BY <1>4, <2>1, SumAdd
<1>9. PICK n \in Int : n = Net(r)
  BY <1>5
<1> QED
  BY <1>4, <1>5, <1>6, <1>7, <1>8, <1>9

LEMMA NetEmptied ==
  ASSUME NEW r \in Recs, LinkedTo(r)' = {}
  PROVE  Net(r)' = 0
<1>1. PICK g : g = [u \in TxIds |-> Signed(tx'[u])]
  OBVIOUS
<1>2. Net(r)' = SumFunctionOnSet(g, {})
  BY <1>1 DEF Net
<1> QED
  BY <1>2, SumEmpty

LEMMA BooksStep ==
  ASSUME TypeInv, BooksAgree, \A r \in Recs : SharesRoute(r) \/ BooksKept(r)
  PROVE  BooksAgree'
<1>1. ASSUME NEW r \in Recs, ~SharesRoute(r) PROVE rec'[r].applied = Net(r)'
  <2>1. BooksKept(r) /\ rec[r].applied = Net(r)
    BY <1>1 DEF BooksAgree
  <2>2. CASE LinksKept(r) /\ rec'[r].applied = rec[r].applied
    BY <2>1, <2>2, NetKept
  <2>3. ASSUME NEW t \in TxIds, NEW c \in Int, LinkAdded(r, t, c),
               rec'[r].applied = rec[r].applied + c
        PROVE  rec'[r].applied = Net(r)'
    <3>1. Net(r)' = Net(r) + c
      BY <2>3, NetAdded
    <3> QED BY <2>1, <2>3, <3>1
  <2>4. CASE LinkedTo(r)' = {} /\ rec'[r].applied = 0
    BY <2>4, NetEmptied
  <2> QED BY <2>1, <2>2, <2>3, <2>4 DEF BooksKept
<1>2. \A r \in Recs : SharesRoute(r)' <=> SharesRoute(r)
  BY DEF SharesRoute
<1> QED
  BY <1>1, <1>2 DEF BooksAgree

\* A session whose candidate is left alone, or only deleted, keeps it.
LEMMA CandidateKept ==
  ASSUME TypeInv, BookInv, NEW q \in Procs, sess'[q] = sess[q],
         sess[q].pc = "candidate" => \/ tx'[sess[q].tx] = tx[sess[q].tx]
                                     \/ tx'[sess[q].tx] = [tx[sess[q].tx] EXCEPT !.status = "deleted"]
  PROVE  Carries(sess[q])'
<1>1. sess[q].pc = "candidate" => tx[sess[q].tx] \in TxRow
  BY SessionFields DEF TypeInv, TypeOK, NamesRow
<1>2. Carries(sess[q])
  BY DEF BookInv, SessionsCarry
<1> QED
  BY <1>1, <1>2 DEF Carries, TxRow, SharesRoute

\* Booking takes a number that was never used.
LEMMA BookFacts ==
  ASSUME TypeInv, IInv, BookInv, NEW row \in TxRow, Book(row), Sound(row),
         row.status \in {"posted", "pending"}
  PROVE  /\ RowsSound'
         /\ \A t \in TxIds : tx[t].status # "none" => tx'[t] = tx[t]
         /\ \A t \in TxIds : tx'[t] # tx[t] => tx'[t] = row
         /\ \A q \in Procs : sess'[q] = sess[q] => Carries(sess[q])'
         /\ \A r \in Recs : row.status = "pending" \/ row.link # r => LinksKept(r)
         /\ row.status = "posted" =>
              \A r \in Recs : row.link = r => \E t \in TxIds : LinkAdded(r, t, Signed(row))
<1>1. PICK t \in TxIds : NextTx(t) /\ tx' = [tx EXCEPT ![t] = row]
  BY DEF Book
<1>2. tx[t].status = "none" /\ tx'[t] = row /\ \A u \in TxIds \ {t} : tx'[u] = tx[u]
  BY <1>1 DEF NextTx, TypeInv, TypeOK
<1>3. \A q \in Procs : sess[q].pc = "candidate" => sess[q].tx \in TxIds /\ sess[q].tx # t
  BY <1>2, SessionFields DEF BookInv, SessionsCarry, Carries, NamesRow
<1>4. \A q \in Procs : sess'[q] = sess[q] => Carries(sess[q])'
  BY <1>2, <1>3, CandidateKept
<1>5. RowsSound'
  BY <1>2 DEF BookInv, RowsSound, Sound
<1>6. \A r \in Recs : t \notin LinkedTo(r) /\ LinkedTo(r) \subseteq TxIds
  BY <1>2 DEF LinkedTo
<1>7. ASSUME NEW r \in Recs, row.status = "pending" \/ row.link # r PROVE LinksKept(r)
  <2>1. LinkedTo(r)' = LinkedTo(r)
    BY <1>2, <1>7 DEF LinkedTo
  <2> QED BY <1>2, <1>6, <2>1 DEF LinksKept
<1>8. ASSUME NEW r \in Recs, row.status = "posted", row.link = r PROVE LinkAdded(r, t, Signed(row))
  <2>1. LinkedTo(r)' = LinkedTo(r) \cup {t}
    BY <1>2, <1>8 DEF LinkedTo
  <2> QED BY <1>2, <1>6, <2>1 DEF LinkAdded
<1> QED
  BY <1>2, <1>4, <1>5, <1>7, <1>8

-----------------------------------------------------------------------------
(* The obligations *)

\* The obligation behind a recommendation.
Phase(r) ==
  CASE rec[r].status = "absent" -> "none"
    [] rec[r].status = "deleted" -> "withdrawn"
    [] rec[r].status = "cancelled" -> "cancelled"
    [] OTHER -> "open"
Moved == {r \in Recs : LinkedTo(r) # {}}

DistinctRoutes == \A r, q \in Recs : Route[r] = Route[q] => r = q
PhasesStay == \A r \in Recs : Phase(r)' = Phase(r)

LEMMA ObligationsSame ==
  ASSUME PhasesStay, \A r \in Recs : rec'[r].applied = rec[r].applied, Moved' = Moved
  PROVE  UNCHANGED <<[r \in Recs |-> Phase(r)], [r \in Recs |-> rec[r].applied], Moved>>
BY DEF PhasesStay

LEMMA ObligationOpen ==
  ASSUME NEW S \in SUBSET Recs,
         \A r \in S : Phase(r) = "none" /\ Phase(r)' = "open",
         \A r \in Recs \ S : Phase(r)' = Phase(r),
         \A r \in Recs : rec'[r].applied = rec[r].applied, Moved' = Moved
  PROVE  Obligation!Open(S)
BY DEF Obligation!Open, Phase, Moved

LEMMA ObligationPay ==
  ASSUME PhasesStay, NEW S \in SUBSET Recs,
         \A r \in S : /\ Phase(r) = "open" /\ rec'[r].applied > rec[r].applied
                      /\ rec'[r].applied <= Amount[r],
         \A r \in Recs \ S : rec'[r].applied = rec[r].applied, Moved' = Moved \cup S
  PROVE  Obligation!Pay(S)
BY DEF PhasesStay, Obligation!Pay, Phase, Moved

LEMMA ObligationRefund ==
  ASSUME PhasesStay, NEW r \in Recs, Phase(r) = "open", r \in Moved,
         rec'[r].applied \in 0..(rec[r].applied - 1),
         \A q \in Recs \ {r} : rec'[q].applied = rec[q].applied, Moved' = Moved
  PROVE  Obligation!Refund(r)
BY DEF PhasesStay, Obligation!Refund, Phase, Moved

LEMMA ObligationCancel ==
  ASSUME NEW r \in Recs, Phase(r) = "open", Phase(r)' = "cancelled", rec[r].applied = 0,
         \A q \in Recs \ {r} : Phase(q)' = Phase(q),
         \A q \in Recs : rec'[q].applied = rec[q].applied, Moved' = Moved
  PROVE  Obligation!Cancel(r)
BY DEF Obligation!Cancel, Phase, Moved

LEMMA ObligationWithdraw ==
  ASSUME NEW S \in SUBSET Recs,
         \A r \in S : /\ Phase(r) \in {"open", "cancelled"} /\ Phase(r)' = "withdrawn"
                      /\ r \notin Moved /\ rec[r].applied = 0,
         \A r \in Recs \ S : Phase(r)' = Phase(r),
         \A r \in Recs : rec'[r].applied = rec[r].applied, Moved' = Moved
  PROVE  Obligation!Withdraw(S)
BY DEF Obligation!Withdraw, Phase, Moved

\* With a route of its own, what is applied on a recommendation is linked to it.
LEMMA AppliedIsLinked ==
  ASSUME TypeInv, BookInv, DistinctRoutes, NEW r \in Recs
  PROVE  rec[r].applied = Net(r) /\ (LinkedTo(r) = {} => rec[r].applied = 0)
<1>1. ~SharesRoute(r)
  BY DEF SharesRoute, DistinctRoutes
<1> QED
  BY <1>1, NetType DEF BookInv, BooksAgree

-----------------------------------------------------------------------------
(* Requests that arrive, wait or fail *)

ObligationVars == <<[r \in Recs |-> Phase(r)], [r \in Recs |-> rec[r].applied], Moved>>
Settles == BookInv' /\ (DistinctRoutes => [Obligation!Next]_ObligationVars)

LEMMA ObligationStutters ==
  ASSUME PhasesStay, \A r \in Recs : rec'[r].applied = rec[r].applied, Moved' = Moved
  PROVE  [Obligation!Next]_ObligationVars
BY ObligationsSame DEF ObligationVars

\* A step that leaves every recommendation and the movements linked to it alone.
LEMMA LinksStutter ==
  ASSUME rec' = rec, \A r \in Recs : LinkedTo(r)' = LinkedTo(r)
  PROVE  [Obligation!Next]_ObligationVars
<1>1. PhasesStay /\ Moved' = Moved /\ \A r \in Recs : rec'[r].applied = rec[r].applied
  BY DEF PhasesStay, Phase, Moved
<1> QED
  BY <1>1, ObligationStutters

LEMMA LedgerSame ==
  ASSUME TypeInv, BookInv, tx' = tx
  PROVE  /\ RowsSound' /\ \A r \in Recs : LinkedTo(r)' = LinkedTo(r) /\ LinksKept(r)
         /\ \A q \in Procs : sess'[q] = sess[q] => Carries(sess[q])'
<1>1. RowsSound' /\ \A r \in Recs : LinkedTo(r)' = LinkedTo(r) /\ LinksKept(r)
  BY DEF BookInv, RowsSound, LinkedTo, LinksKept
<1> QED
  BY <1>1, CandidateKept

\* What the others hold pending stays theirs to pay.
LEMMA PendingKept ==
  ASSUME TypeInv, IInv, BookInv, NEW p \in Procs,
         \A q \in Procs \ {p} : sess'[q] = sess[q] /\ \A r \in sess[q].held : rec'[r] = rec[r],
         \A t \in TxIds : tx'[t].status = "pending" =>
           /\ tx'[t] = tx[t]
           /\ tx[t].link \notin sess[p].held \/ sess[p].op # "apply_all"
  PROVE  PendingHeld'
<1>1. ASSUME NEW t \in TxIds, tx'[t].status = "pending" PROVE PaysRest(tx[t])'
  <2>1. tx'[t] = tx[t] /\ PaysRest(tx[t])
    BY <1>1 DEF BookInv, PendingHeld
  <2>2. PICK q \in Procs : tx[t].link \in sess[q].held /\ sess[q].op = "apply_all"
    BY <2>1 DEF PaysRest
  <2>3. q # p
    BY <1>1, <2>2
  <2> QED BY <2>1, <2>2, <2>3 DEF PaysRest
<1> QED
  BY <1>1 DEF PendingHeld

\* A step of one session that changes neither rows nor the ledger.
LEMMA SessionStep ==
  ASSUME TypeInv, IInv, BookInv, NEW p \in Procs, NEW new, sess' = [sess EXCEPT ![p] = new],
         rec' = rec, tx' = tx, Carries(new), sess[p].held \subseteq new.held, new.pc # "idle",
         sess[p].op = "apply_all" => new.op = "apply_all" \/ sess[p].held = {}
  PROVE  Settles
<1>1. sess'[p] = new /\ \A q \in Procs \ {p} : sess'[q] = sess[q]
  BY DEF TypeInv, TypeOK
<1>2. UnbookedRows' /\ BooksAgree'
  <2>1. BooksAgree'
    BY LedgerSame, BooksStep DEF BookInv, BooksKept
  <2> QED BY <2>1 DEF BookInv, UnbookedRows, Live
<1>3. ASSUME NEW q \in Procs PROVE Carries(sess[q])'
  <2>1. CASE q = p
    BY <1>1, <2>1 DEF Carries, SharesRoute
  <2>2. CASE q # p
    BY <1>1, <2>2, LedgerSame
  <2> QED BY <2>1, <2>2
<1>4. PendingHeld'
  BY <1>1 DEF BookInv, PendingHeld, PaysRest
<1>5. IdleHoldNothing'
  BY <1>1 DEF BookInv, IdleHoldNothing
<1>6. BookInv'
  BY <1>2, <1>3, <1>4, <1>5, LedgerSame DEF BookInv, SessionsCarry
<1> QED
  BY <1>6, LedgerSame, LinksStutter DEF Settles

LEMMA ArrivesSettles ==
  ASSUME TypeInv, IInv, BookInv, NEW p \in Procs, Arrives(p)
  PROVE  Settles
<1>1. ASSUME sess[p].pc = "idle" PROVE sess[p].held = {}
  BY <1>1 DEF BookInv, IdleHoldNothing
<1>2. ASSUME NEW new, new.pc \notin {"idle", "candidate"},
             new.op = "apply_all" => new.want = 0 /\ new.key = Blank,
             sess[p].pc = "idle", sess' = [sess EXCEPT ![p] = new], rec' = rec, tx' = tx
      PROVE  Settles
  <2>1. Carries(new) /\ sess[p].held \subseteq new.held
    BY <1>1, <1>2 DEF Carries
  <2> QED BY <1>1, <1>2, <2>1, SessionStep
<1>3. Idle \in Session /\ Idle.want = 0 /\ Idle.key = Blank
  BY IdleType DEF Idle
<1>4. ASSUME NEW op, op # "apply_all", NEW r, NEW want, NEW key, NEW t,
             Request(p, op, r, want, key, t)
      PROVE  Settles
  <2> DEFINE new == [Idle EXCEPT !.pc = "select", !.op = op, !.rec = r,
                       !.seen = close[CloseOf[r]], !.want = want, !.key = key, !.tx = t]
  <2>1. sess[p].pc = "idle" /\ sess' = [sess EXCEPT ![p] = new] /\ rec' = rec /\ tx' = tx
    BY <1>4 DEF Request
  <2>2. new.pc = "select" /\ new.op # "apply_all"
    BY <1>3, <1>4 DEF Session
  <2> HIDE DEF new
  <2> QED BY <1>2, <2>1, <2>2
<1>5. CASE StartApplyAll(p)
  <2> DEFINE todo(c) == {r \in RecsOf({c}) : rec[r].status # "cancelled"}
             new(c) == [Idle EXCEPT !.pc = "batch", !.op = "apply_all", !.closes = {c},
                          !.todo = todo(c)]
  <2>1. PICK c \in Closes : /\ sess[p].pc = "idle" /\ sess' = [sess EXCEPT ![p] = new(c)]
                            /\ rec' = rec /\ tx' = tx
    BY <1>5 DEF StartApplyAll
  <2> HIDE DEF todo
  <2>2. new(c).pc = "batch" /\ new(c).want = 0 /\ new(c).key = Blank
    BY <1>3 DEF Session
  <2> HIDE DEF new
  <2> QED BY <1>2, <2>1, <2>2
<1>6. CASE ReopenCheck(p)
  <2> DEFINE new(cs) == [Idle EXCEPT !.pc = "reopen", !.op = "reopen", !.closes = cs]
  <2>1. PICK c \in Closes : /\ sess[p].pc = "idle" /\ rec' = rec /\ tx' = tx
                            /\ sess' = [sess EXCEPT ![p] = new(ReopenTargets(c))]
    BY <1>6 DEF ReopenCheck
  <2>2. new(ReopenTargets(c)).pc = "reopen" /\ new(ReopenTargets(c)).op # "apply_all"
    BY <1>3 DEF Session
  <2> HIDE DEF new
  <2> QED BY <1>2, <2>1, <2>2
<1> QED
  BY <1>4, <1>5, <1>6 DEF Arrives, RequestAccept, RequestCancel, RequestApply, RequestReverse,
     RequestReconcile

\* A request that ends: it wrote only rows it held, and what it linked or booked
\* leaves the candidates of the others alone.
LEMMA EndBooks ==
  ASSUME TypeInv, IInv, BookInv, NEW p \in Procs, End(p),
         \A q \in Procs \ {p} : /\ \A r \in sess[q].held : rec'[r] = rec[r]
                                /\ Carries(sess[q])',
         \A t \in TxIds : tx'[t].status = "pending" =>
           /\ tx'[t] = tx[t]
           /\ tx[t].link \notin sess[p].held \/ sess[p].op # "apply_all",
         \A r \in Recs : SharesRoute(r) \/ BooksKept(r),
         RowsSound', UnbookedRows'
  PROVE  BookInv'
<1>1. sess'[p] = Idle /\ \A q \in Procs \ {p} : sess'[q] = sess[q]
  BY DEF End, TypeInv, TypeOK
<1>2. Idle.pc = "idle" /\ Idle.held = {} /\ Idle.op = "none"
  BY DEF Idle
<1>3. SessionsCarry'
  <2>1. Carries(sess[p])'
    BY <1>1, <1>2 DEF Carries
  <2> QED BY <2>1 DEF SessionsCarry
<1>4. PendingHeld'
  BY <1>1, PendingKept
<1>5. IdleHoldNothing'
  BY <1>1, <1>2 DEF BookInv, IdleHoldNothing
<1>6. BooksAgree'
  BY BooksStep DEF BookInv
<1> QED
  BY <1>3, <1>4, <1>5, <1>6 DEF BookInv

LEMMA WaitsSettles ==
  ASSUME TypeInv, IInv, BookInv, NEW p \in Procs, Waits(p)
  PROVE  Settles
<1> DEFINE s == sess[p]
<1>0. /\ s \in Session /\ Agrees(s) /\ Carries(s)
      /\ tx \in [TxIds -> TxRow] /\ rec \in [Recs -> RecRow]
      /\ \A q \in Procs : sess[q].held \subseteq Recs
  BY SessionFields DEF IInv, SessionsAgree, TypeInv, TypeOK, BookInv, SessionsCarry
<1>00. ASSUME End(p) PROVE \A q \in Procs \ {p} : sess'[q] = sess[q]
  BY <1>00 DEF End, TypeInv, TypeOK
<1>1. CASE LockRow(p)
  <2> DEFINE new == [s EXCEPT !.pc = "locked", !.held = @ \cup {s.rec},
                       !.applied = rec[s.rec].applied, !.accepted = rec[s.rec].accepted]
  <2>1. /\ s.pc = "select" /\ sess' = [sess EXCEPT ![p] = new] /\ rec' = rec /\ tx' = tx
    BY <1>1 DEF LockRow
  <2>2. /\ new.pc = "locked" /\ new.held = s.held \cup {s.rec} /\ new.op = s.op
        /\ new.want = s.want /\ new.key = s.key
    BY <1>0 DEF Session
  <2> HIDE DEF new
  <2>3. Carries(new)
    BY <1>0, <2>2 DEF Carries
  <2> QED BY <2>1, <2>2, <2>3, SessionStep
<1>2. CASE ReopenCommit(p)
  <2>0. PICK S \in SUBSET Recs : S = RecsOf(s.closes)
    BY DEF RecsOf
  <2>1. /\ s.pc = "reopen" /\ End(p) /\ tx' = tx
        /\ \A r \in S : RowFree(r) /\ Live(r) /\ LinkedTo(r) = {}
        /\ rec' = [r \in Recs |-> IF r \in S THEN DeletedRow ELSE rec[r]]
    BY <1>2, <2>0 DEF ReopenCommit, RecsOf, Linked
  <2>2. s.op = "reopen"
    BY <1>0, <2>1 DEF Agrees
  <2>3. /\ \A r \in S : rec'[r].applied = 0 /\ rec'[r].status = "deleted"
        /\ \A r \in Recs \ S : rec'[r] = rec[r]
    BY <2>1 DEF DeletedRow
  <2>4. \A q \in Procs \ {p} : (\A r \in sess[q].held : rec'[r] = rec[r]) /\ Carries(sess[q])'
    <3>1. ASSUME NEW q \in Procs \ {p} PROVE Carries(sess[q])'
      BY <1>00, <2>1, LedgerSame
    <3>2. ASSUME NEW q \in Procs \ {p}, NEW r \in sess[q].held PROVE rec'[r] = rec[r]
      BY <1>0, <2>1, <2>3 DEF RowFree
    <3> QED BY <3>1, <3>2
  <2>5. \A r \in Recs : LinkedTo(r)' = LinkedTo(r) /\ LinksKept(r)
    BY <2>1, LedgerSame
  <2>6. UnbookedRows' /\ RowsSound'
    BY <2>1, <2>3, LedgerSame DEF BookInv, UnbookedRows, Live
  <2>7. \A r \in Recs : BooksKept(r)
    BY <2>1, <2>3, <2>5 DEF BooksKept
  <2>8. BookInv'
    BY <2>1, <2>2, <2>4, <2>6, <2>7, EndBooks
  <2>9. ASSUME DistinctRoutes PROVE Obligation!Withdraw(S)
    <3>0. \A r \in S : rec[r].applied = 0
      BY <2>1, <2>9, AppliedIsLinked
    <3>1. \A r \in S : /\ Phase(r) \in {"open", "cancelled"} /\ Phase(r)' = "withdrawn"
                       /\ r \notin Moved /\ rec[r].applied = 0
      BY <2>1, <2>3, <3>0 DEF Phase, Moved, Live
    <3>2. \A r \in Recs \ S : Phase(r)' = Phase(r)
      BY <2>3 DEF Phase
    <3>3. (\A r \in Recs : rec'[r].applied = rec[r].applied) /\ Moved' = Moved
      BY <2>3, <2>5, <3>0 DEF Moved
    <3> QED BY <2>1, <3>1, <3>2, <3>3, ObligationWithdraw
  <2> QED BY <2>1, <2>8, <2>9 DEF Settles, Obligation!Next
<1>3. CASE Fail(p)
  <2>1. /\ End(p) /\ rec' = rec
        /\ tx' = [t \in TxIds |-> IF t \in Pending(p) THEN NoTxRow ELSE tx[t]]
    BY <1>3 DEF Fail
  <2>2. \A t \in TxIds : tx'[t] = tx[t] \/ (tx[t].status = "pending" /\ tx'[t].status = "none")
    BY <2>1 DEF Pending, NoTxRow
  <2>3. \A r \in Recs : LinkedTo(r)' = LinkedTo(r) /\ LinksKept(r)
    BY <2>2 DEF LinkedTo, LinksKept
  <2>4. ASSUME NEW q \in Procs \ {p} PROVE Carries(sess[q])'
    <3>1. sess[q].pc = "candidate" => sess[q].tx \in TxIds /\ tx[sess[q].tx].status # "pending"
      BY SessionFields DEF NamesRow, BookInv, SessionsCarry, Carries
    <3> QED BY <1>00, <2>1, <2>2, <3>1, CandidateKept
  <2>5. \A t \in TxIds : tx'[t].status = "pending" => tx'[t] = tx[t] /\ tx[t].link \notin s.held
    BY <2>1 DEF Pending, NoTxRow
  <2>6. UnbookedRows' /\ RowsSound'
    BY <2>1, <2>2 DEF BookInv, UnbookedRows, Live, RowsSound, Sound
  <2>7. \A r \in Recs : BooksKept(r)
    BY <2>1, <2>3 DEF BooksKept
  <2>8. BookInv'
    BY <2>1, <2>4, <2>5, <2>6, <2>7, EndBooks
  <2> QED BY <2>1, <2>3, <2>8, LinksStutter DEF Settles
<1> QED
  BY <1>1, <1>2, <1>3 DEF Waits

-----------------------------------------------------------------------------
(* Requests on one recommendation *)

Executable == {"recommended", "accepted", "applied", "partially_applied"}
LEMMA RowSaved ==
  ASSUME NEW r \in Recs, NEW applied \in Int, NEW accepted \in BOOLEAN
  PROVE  \E saved \in RecRow : /\ saved = Row(r, applied, accepted)
                               /\ saved.applied = applied /\ saved.status \in Executable
<1>1. Row(r, applied, accepted).applied = applied
  BY DEF Row
<1> QED
  BY <1>1, RowType DEF Executable

\* A request saves the row it has locked: the obligation stays open.
LEMMA SavedRow ==
  ASSUME TypeInv, IInv, BookInv, NEW p \in Procs, sess[p].pc \in {"locked", "candidate"},
         NEW r0 \in Recs, r0 = sess[p].rec, NEW saved \in RecRow, saved.status \in Executable,
         rec' = [rec EXCEPT ![r0] = saved]
  PROVE  /\ PhasesStay /\ UnbookedRows' /\ Phase(r0) = "open"
         /\ \A r \in Recs \ {r0} : rec'[r] = rec[r]
         /\ \A q \in Procs \ {p} : \A r \in sess[q].held : rec'[r] = rec[r]
<1>1. r0 \in Recs /\ r0 \in sess[p].held /\ Live(r0) /\ rec[r0].status # "cancelled"
  BY LockedFacts
<1>2. rec'[r0] = saved /\ \A r \in Recs \ {r0} : rec'[r] = rec[r]
  BY <1>1 DEF TypeInv, TypeOK
<1>3. rec'[r0].status \in {"recommended", "accepted", "applied", "partially_applied"}
  BY <1>2 DEF Executable
<1>4. Phase(r0) = "open" /\ Phase(r0)' = "open"
  BY <1>1, <1>3 DEF Phase, Live
<1>5. PhasesStay
  BY <1>2, <1>4 DEF PhasesStay, Phase
<1>6. UnbookedRows'
  BY <1>2, <1>3 DEF BookInv, UnbookedRows, Live
<1>7. \A q \in Procs \ {p} : \A r \in sess[q].held : r \in Recs /\ r # r0
  BY <1>1, SessionFields DEF IInv, RowLocks
<1> QED
  BY <1>2, <1>3, <1>4, <1>5, <1>6, <1>7

\* A request that books one posted movement on the row it has locked, and says so.
LEMMA BookedRow ==
  ASSUME TypeInv, IInv, BookInv, NEW p \in Procs, sess[p].pc = "locked", End(p),
         sess[p].op # "apply_all",
         NEW r0 \in Recs, r0 = sess[p].rec,
         NEW row \in TxRow, Book(row), row.link = r0, row.status = "posted", Sound(row),
         NEW saved \in RecRow, saved.status \in Executable, rec' = [rec EXCEPT ![r0] = saved],
         saved.applied = rec[r0].applied + Signed(row)
  PROVE  BookInv' /\ Moved' = Moved \cup {r0}
<1>1. /\ RowsSound' /\ \A t \in TxIds : tx'[t] # tx[t] => tx'[t] = row
      /\ \A q \in Procs : sess'[q] = sess[q] => Carries(sess[q])'
      /\ \A r \in Recs : r # r0 => LinksKept(r)
      /\ \E t \in TxIds : LinkAdded(r0, t, Signed(row))
  BY BookFacts
<1>2. \A q \in Procs \ {p} : Carries(sess[q])'
  <2>1. \A q \in Procs \ {p} : sess'[q] = sess[q]
    BY DEF End, TypeInv, TypeOK
  <2> QED BY <1>1, <2>1
<1>3. /\ UnbookedRows' /\ \A r \in Recs \ {r0} : rec'[r] = rec[r]
      /\ \A q \in Procs \ {p} : \A r \in sess[q].held : rec'[r] = rec[r]
  <2>1. sess[p].pc \in {"locked", "candidate"}
    OBVIOUS
  <2> QED BY <2>1, SavedRow
<1>4. \A r \in Recs : BooksKept(r)
  <2>1. ASSUME NEW r \in Recs \ {r0} PROVE BooksKept(r)
    BY <1>1, <1>3 DEF BooksKept
  <2>2. BooksKept(r0)
    <3>1. rec'[r0] = saved
      BY DEF TypeInv, TypeOK
    <3>2. PICK c \in Int : c = Signed(row)
      BY DEF Signed, TxRow
    <3>3. PICK t \in TxIds : LinkAdded(r0, t, c)
      BY <1>1, <3>2
    <3>4. rec'[r0].applied = rec[r0].applied + c
      BY <3>1, <3>2
    <3> QED BY <3>2, <3>3, <3>4 DEF BooksKept
  <2> QED BY <2>1, <2>2
<1>5. \A t \in TxIds : tx'[t].status = "pending" => tx'[t] = tx[t]
  BY <1>1
<1>6. BookInv'
  BY <1>1, <1>2, <1>3, <1>4, <1>5, EndBooks
<1>7. Moved' = Moved \cup {r0}
  <2>1. \A r \in Recs : r # r0 => LinkedTo(r)' = LinkedTo(r)
    BY <1>1 DEF LinksKept
  <2>2. LinkedTo(r0)' # {}
    BY <1>1 DEF LinkAdded
  <2> QED BY <2>1, <2>2 DEF Moved
<1> QED
  BY <1>6, <1>7

LEMMA MovementSound ==
  ASSUME NEW r \in Recs, NEW status, status \in {"pending", "posted"}, NEW amount \in Int,
         amount > 0, NEW action, NEW key
  PROVE  /\ Sound(Movement(r, status, amount, action, key))
         /\ Movement(r, status, amount, action, key).link = r
         /\ Movement(r, status, amount, action, key).status = status
         /\ Movement(r, status, amount, action, key).amount = amount
         /\ Movement(r, status, amount, action, key).credit = amount
         /\ Movement(r, status, amount, action, key).action = action
         /\ Movement(r, status, amount, action, key).key = key
BY DEF Movement, Sound

LEMMA SaveSettles ==
  ASSUME TypeInv, IInv, BookInv, NEW p \in Procs, Accept(p) \/ Cancel(p)
  PROVE  Settles
<1> DEFINE s == sess[p]
<1>0. /\ s \in Session /\ rec \in [Recs -> RecRow]
      /\ \A q \in Procs : sess[q].held \subseteq Recs
  BY SessionFields DEF TypeInv, TypeOK
<1>00. ASSUME End(p), tx' = tx PROVE \A q \in Procs \ {p} : Carries(sess[q])'
  <2>1. \A q \in Procs \ {p} : sess'[q] = sess[q]
    BY <1>00 DEF End, TypeInv, TypeOK
  <2> QED BY <1>00, <2>1, LedgerSame
<1>1. CASE Accept(p)
  <2>1. /\ s.pc = "locked" /\ s.op = "accept" /\ tx' = tx /\ End(p)
        /\ rec' = [rec EXCEPT ![s.rec] = Row(s.rec, s.applied, TRUE)]
    BY <1>1 DEF Accept
  <2>2. PICK r0 \in Recs, a \in Int : r0 = s.rec /\ a = s.applied /\ a = rec[r0].applied
    BY <2>1, LockedFacts, SessionFields
  <2>3. PICK saved \in RecRow :
          saved = Row(r0, a, TRUE) /\ saved.applied = a /\ saved.status \in Executable
    BY RowSaved
  <2>4. /\ rec' = [rec EXCEPT ![r0] = saved] /\ saved.status \in Executable
        /\ s.pc \in {"locked", "candidate"}
    BY <2>1, <2>2, <2>3
  <2>5. /\ PhasesStay /\ UnbookedRows' /\ \A r \in Recs : rec'[r].applied = rec[r].applied
        /\ \A q \in Procs \ {p} : \A r \in sess[q].held : rec'[r] = rec[r]
    <3>1. /\ PhasesStay /\ UnbookedRows'
          /\ \A r \in Recs \ {r0} : rec'[r] = rec[r]
          /\ \A q \in Procs \ {p} : \A r \in sess[q].held : rec'[r] = rec[r]
      BY <2>2, <2>4, SavedRow
    <3> QED BY <1>0, <2>4, <2>2, <2>3, <3>1
  <2>6. RowsSound' /\ \A r \in Recs : LinkedTo(r)' = LinkedTo(r) /\ LinksKept(r)
    BY <2>1, LedgerSame
  <2>7. BookInv'
    <3>1. \A r \in Recs : BooksKept(r)
      BY <2>5, <2>6 DEF BooksKept
    <3>2. \A t \in TxIds : tx'[t] = tx[t]
      BY <2>1
    <3> QED BY <1>00, <2>1, <2>5, <2>6, <3>1, <3>2, EndBooks
  <2>8. Moved' = Moved
    BY <2>6 DEF Moved
  <2> QED BY <2>5, <2>7, <2>8, ObligationStutters DEF Settles
<1>2. CASE Cancel(p)
  <2>1. /\ s.pc = "locked" /\ s.op = "cancel" /\ s.applied = 0 /\ tx' = tx /\ End(p)
        /\ rec' = [rec EXCEPT ![s.rec].status = "cancelled"]
    BY <1>2 DEF Cancel
  <2>2. PICK r0 \in Recs : r0 = s.rec
    BY <2>1, LockedFacts
  <2>3. r0 \in s.held /\ rec[r0].applied = 0 /\ Live(r0) /\ rec[r0].status # "cancelled"
    BY <2>1, <2>2, LockedFacts
  <2>4. /\ rec'[r0].status = "cancelled" /\ rec'[r0].applied = 0
        /\ \A r \in Recs \ {r0} : rec'[r] = rec[r]
    BY <1>0, <2>1, <2>2, <2>3 DEF RecRow
  <2>5. RowsSound' /\ \A r \in Recs : LinkedTo(r)' = LinkedTo(r) /\ LinksKept(r)
    BY <2>1, LedgerSame
  <2>6. \A q \in Procs \ {p} : \A r \in sess[q].held : rec'[r] = rec[r]
    <3>1. \A q \in Procs \ {p} : r0 \notin sess[q].held
      BY <2>2, <2>3 DEF IInv, RowLocks
    <3> QED BY <1>0, <2>4, <3>1
  <2>7. UnbookedRows' /\ \A r \in Recs : rec'[r].applied = rec[r].applied
    BY <2>3, <2>4 DEF BookInv, UnbookedRows, Live
  <2>8. BookInv'
    <3>1. \A r \in Recs : BooksKept(r)
      BY <2>5, <2>7 DEF BooksKept
    <3>2. \A t \in TxIds : tx'[t] = tx[t]
      BY <2>1
    <3> QED BY <1>00, <2>1, <2>5, <2>6, <2>7, <3>1, <3>2, EndBooks
  <2>9. Obligation!Cancel(r0)
    <3>1. Phase(r0) = "open" /\ Phase(r0)' = "cancelled"
      BY <2>3, <2>4 DEF Phase, Live
    <3>2. \A r \in Recs \ {r0} : Phase(r)' = Phase(r)
      BY <2>4 DEF Phase
    <3>3. Moved' = Moved
      BY <2>5 DEF Moved
    <3> QED BY <2>3, <2>7, <3>1, <3>2, <3>3, ObligationCancel
  <2> QED BY <2>8, <2>9 DEF Settles, Obligation!Next
<1> QED
  BY <1>1, <1>2

LEMMA MoveSettles ==
  ASSUME TypeInv, IInv, BookInv, NEW p \in Procs, Apply(p) \/ Reverse(p)
  PROVE  Settles
<1> DEFINE s == sess[p]
<1>0. rec \in [Recs -> RecRow]
  BY DEF TypeInv, TypeOK
<1>1. CASE Apply(p)
  <2> DEFINE row == Movement(s.rec, "posted", ApplyAmount(s), "application", ApplyKey(s))
  <2>1. /\ s.pc = "locked" /\ s.op = "apply" /\ CanApply(s) /\ Book(row) /\ End(p)
        /\ rec' = [rec EXCEPT ![s.rec] = Row(s.rec, s.applied + ApplyAmount(s), TRUE)]
    BY <1>1 DEF Apply
  <2>2. PICK r0 \in Recs, a \in Int : r0 = s.rec /\ a = ApplyAmount(s)
    BY <2>1, LockedFacts, AmountTypes
  <2>3. /\ s.applied \in Int /\ s.applied = rec[r0].applied /\ a > 0 /\ Amount[r0] \in Int
        /\ s.applied + a <= Amount[r0] /\ s.applied + a \in Int
    BY <2>1, <2>2, LockedFacts, ConstantTypes, SessionFields DEF CanApply, Remaining
  <2>4. row \in TxRow
    BY <2>1, <2>2, AmountTypes, MovementType DEF Actions
  <2>5. /\ row.link = r0 /\ row.status = "posted" /\ Sound(row) /\ row.credit = a
        /\ row.action = "application"
    BY <2>2, <2>3, MovementSound
  <2> HIDE DEF row
  <2>6. a = Signed(row)
    BY <2>5 DEF Signed
  <2>7. PICK n \in Int : n = s.applied + a
    BY <2>3
  <2>8. PICK saved \in RecRow :
          saved = Row(r0, n, TRUE) /\ saved.applied = n /\ saved.status \in Executable
    BY RowSaved
  <2>9. /\ rec' = [rec EXCEPT ![r0] = saved] /\ saved.status \in Executable
        /\ s.pc \in {"locked", "candidate"} /\ saved.applied = rec[r0].applied + a
    BY <2>1, <2>2, <2>3, <2>7, <2>8
  <2>10. BookInv' /\ Moved' = Moved \cup {r0}
    <3>1. sess[p].pc = "locked" /\ sess[p].op # "apply_all" /\ End(p) /\ Book(row)
      BY <2>1
    <3>2. saved.applied = rec[r0].applied + Signed(row)
      BY <2>6, <2>9
    <3>3. r0 = sess[p].rec
      BY <2>2
    <3> QED BY <2>4, <2>5, <2>9, <3>1, <3>2, <3>3, BookedRow
  <2>11. /\ PhasesStay /\ Phase(r0) = "open" /\ rec'[r0].applied = rec[r0].applied + a
         /\ \A r \in Recs \ {r0} : rec'[r] = rec[r]
    <3>1. PhasesStay /\ Phase(r0) = "open" /\ \A r \in Recs \ {r0} : rec'[r] = rec[r]
      BY <2>2, <2>9, SavedRow
    <3> QED BY <1>0, <2>9, <3>1
  <2>12. Obligation!Pay({r0})
    BY <2>2, <2>3, <2>10, <2>11, ObligationPay
  <2> QED BY <2>2, <2>10, <2>12 DEF Settles, Obligation!Next
<1>2. CASE Reverse(p)
  <2> DEFINE row == Movement(s.rec, "posted", ReverseAmount(s), "reversal", ReverseKey(s))
  <2>1. /\ s.pc = "locked" /\ s.op = "reverse" /\ CanReverse(s) /\ Book(row) /\ End(p)
        /\ rec' = [rec EXCEPT ![s.rec] = Row(s.rec, s.applied - ReverseAmount(s), s.accepted)]
    BY <1>2 DEF Reverse
  <2>2. PICK r0 \in Recs, a \in Int : r0 = s.rec /\ a = ReverseAmount(s)
    BY <2>1, LockedFacts, AmountTypes
  <2>3. /\ s.applied \in Int /\ s.applied = rec[r0].applied /\ s.accepted \in BOOLEAN
        /\ a > 0 /\ a <= s.applied /\ s.applied - a \in Int
    BY <2>1, <2>2, LockedFacts, SessionFields DEF CanReverse
  <2>4. row \in TxRow
    BY <2>1, <2>2, AmountTypes, MovementType DEF Actions
  <2>5. /\ row.link = r0 /\ row.status = "posted" /\ Sound(row) /\ row.credit = a
        /\ row.action = "reversal"
    BY <2>2, <2>3, MovementSound
  <2> HIDE DEF row
  <2>6. -a \in Int /\ -a = Signed(row)
    BY <2>5 DEF Signed
  <2>7. PICK n \in Int, b \in BOOLEAN : n = s.applied - a /\ b = s.accepted
    BY <2>3
  <2>8. PICK saved \in RecRow :
           saved = Row(r0, n, b) /\ saved.applied = n /\ saved.status \in Executable
    BY RowSaved
  <2>9. /\ rec' = [rec EXCEPT ![r0] = saved] /\ saved.status \in Executable
        /\ s.pc \in {"locked", "candidate"} /\ saved.applied = rec[r0].applied + (-a)
    BY <2>1, <2>2, <2>3, <2>7, <2>8
  <2>10. BookInv' /\ Moved' = Moved \cup {r0}
    <3>1. sess[p].pc = "locked" /\ sess[p].op # "apply_all" /\ End(p) /\ Book(row)
      BY <2>1
    <3>2. saved.applied = rec[r0].applied + Signed(row)
      BY <2>6, <2>9
    <3>3. r0 = sess[p].rec
      BY <2>2
    <3> QED BY <2>4, <2>5, <2>9, <3>1, <3>2, <3>3, BookedRow
  <2>11. ASSUME DistinctRoutes PROVE r0 \in Moved /\ Moved' = Moved
    <3>1. LinkedTo(r0) # {}
      BY <2>3, <2>11, AppliedIsLinked
    <3> QED BY <2>10, <3>1 DEF Moved
  <2>12. /\ PhasesStay /\ Phase(r0) = "open" /\ rec'[r0].applied = rec[r0].applied - a
         /\ \A r \in Recs \ {r0} : rec'[r] = rec[r]
    <3>1. PhasesStay /\ Phase(r0) = "open" /\ \A r \in Recs \ {r0} : rec'[r] = rec[r]
      BY <2>2, <2>9, SavedRow
    <3> QED BY <1>0, <2>3, <2>9, <3>1
  <2>13. ASSUME DistinctRoutes PROVE Obligation!Refund(r0)
    BY <2>2, <2>3, <2>11, <2>12, <2>13, ObligationRefund
  <2> QED BY <2>10, <2>13 DEF Settles, Obligation!Next
<1> QED
  BY <1>1, <1>2

LEMMA LinkSettles ==
  ASSUME TypeInv, IInv, BookInv, NEW p \in Procs, ReadCandidates(p) \/ Reconcile(p)
  PROVE  Settles
<1> DEFINE s == sess[p]
<1>0. /\ s \in Session /\ Agrees(s) /\ NamesRow(s) /\ Carries(s)
      /\ tx \in [TxIds -> TxRow] /\ rec \in [Recs -> RecRow] /\ s.want \in Int
  BY SessionFields DEF IInv, SessionsAgree, TypeInv, TypeOK, BookInv, SessionsCarry
<1>1. CASE ReadCandidates(p)
  <2> DEFINE new == [s EXCEPT !.pc = "candidate", !.want = tx[s.tx].amount]
  <2>1. /\ s.op = "reconcile" /\ IsCandidate(s.tx, s.rec, s.applied)
        /\ sess' = [sess EXCEPT ![p] = new] /\ rec' = rec /\ tx' = tx
    BY <1>1 DEF ReadCandidates
  <2>2. /\ new.pc = "candidate" /\ new.held = s.held /\ new.tx = s.tx /\ new.rec = s.rec
        /\ new.want = tx[s.tx].amount /\ new.op = s.op
    BY <1>0 DEF Session
  <2> HIDE DEF new
  <2>3. Carries(new)
    BY <2>1, <2>2 DEF Carries, IsCandidate
  <2> QED BY <2>1, <2>2, <2>3, SessionStep
<1>2. CASE Reconcile(p)
  <2>1. /\ s.pc = "candidate" /\ s.op = "reconcile" /\ tx[s.tx].status = "posted" /\ End(p)
        /\ tx' = [tx EXCEPT ![s.tx] = [tx[s.tx] EXCEPT !.link = s.rec, !.action = "reconciliation",
                    !.key = ReconcileKey(s.rec, s.tx), !.credit = s.want]]
        /\ rec' = [rec EXCEPT ![s.rec] = Row(s.rec, s.applied + s.want, TRUE)]
    BY <1>0, <1>2 DEF Reconcile, NamesRow
  <2>2. PICK r0 \in Recs, t0 \in TxIds, a \in Int : r0 = s.rec /\ t0 = s.tx /\ a = s.want
    BY <1>0, <2>1 DEF NamesRow
  <2>3. /\ tx[t0].route = Route[r0] /\ tx[t0].amount = a /\ tx[t0].status = "posted"
        /\ SharesRoute(r0) \/ tx[t0].link = NoRec
    BY <1>0, <2>1, <2>2 DEF Carries
  <2>4. /\ s.applied \in Int /\ s.applied = rec[r0].applied /\ Amount[r0] \in Int
        /\ a > 0 /\ s.applied + a <= Amount[r0] /\ s.applied + a \in Int
    BY <1>0, <2>1, <2>2, <2>3, LockedFacts, ConstantTypes, SessionFields
    DEF Agrees, Remaining, BookInv, RowsSound, Sound
  <2>5. /\ tx'[t0].status = "posted" /\ tx'[t0].link = r0 /\ tx'[t0].amount = a
        /\ tx'[t0].route = Route[r0] /\ tx'[t0].credit = a /\ tx'[t0].action = "reconciliation"
        /\ \A t \in TxIds \ {t0} : tx'[t] = tx[t]
    BY <1>0, <2>1, <2>2, <2>3 DEF TxRow
  <2>6. PICK n \in Int : n = s.applied + a
    BY <2>4
  <2>7. PICK saved \in RecRow :
          saved = Row(r0, n, TRUE) /\ saved.applied = n /\ saved.status \in Executable
    BY RowSaved
  <2>8. /\ rec' = [rec EXCEPT ![r0] = saved] /\ saved.status \in Executable
        /\ s.pc \in {"locked", "candidate"}
    BY <2>1, <2>2, <2>6, <2>7
  <2>9. /\ PhasesStay /\ UnbookedRows' /\ Phase(r0) = "open"
        /\ rec'[r0].applied = rec[r0].applied + a
        /\ \A r \in Recs \ {r0} : rec'[r] = rec[r]
        /\ \A q \in Procs \ {p} : \A r \in sess[q].held : rec'[r] = rec[r]
    <3>1. /\ PhasesStay /\ UnbookedRows' /\ Phase(r0) = "open"
          /\ \A r \in Recs \ {r0} : rec'[r] = rec[r]
          /\ \A q \in Procs \ {p} : \A r \in sess[q].held : rec'[r] = rec[r]
      BY <2>2, <2>8, SavedRow
    <3> QED BY <1>0, <2>4, <2>6, <2>7, <2>8, <3>1
  <2>10. ASSUME NEW q \in Procs \ {p} PROVE Carries(sess[q])'
    <3>1. sess'[q] = sess[q] /\ Carries(sess[q])
      BY <2>1 DEF End, TypeInv, TypeOK, BookInv, SessionsCarry
    <3>2. CASE sess[q].pc = "candidate" /\ sess[q].tx = t0
      <4>1. sess[q].rec \in Recs /\ sess[q].rec \in sess[q].held /\ r0 \in s.held
        BY <2>1, <2>2, <3>2, LockedFacts
      <4>2. sess[q].rec # r0
        BY <4>1 DEF IInv, RowLocks
      <4>3. Route[sess[q].rec] = Route[r0]
        BY <2>3, <3>1, <3>2 DEF Carries
      <4>4. SharesRoute(sess[q].rec)
        BY <4>1, <4>2, <4>3 DEF SharesRoute
      <4> QED BY <2>3, <2>5, <3>1, <3>2, <4>4 DEF Carries, SharesRoute
    <3>3. CASE ~(sess[q].pc = "candidate" /\ sess[q].tx = t0)
      <4>1. sess[q].pc = "candidate" => sess[q].tx \in TxIds \ {t0}
        BY <3>3, SessionFields DEF NamesRow
      <4> QED BY <2>5, <3>1, <4>1 DEF Carries, SharesRoute
    <3> QED BY <3>2, <3>3
  <2>11. RowsSound'
    BY <2>4, <2>5 DEF BookInv, RowsSound, Sound
  <2>12. ASSUME NEW r \in Recs, ~SharesRoute(r), r # r0 PROVE LinksKept(r)
    <3>1. t0 \notin LinkedTo(r)
      BY <2>2, <2>3, <2>12, ConstantTypes DEF BookInv, RowsSound, Sound, LinkedTo, SharesRoute
    <3>2. LinkedTo(r)' = LinkedTo(r)
      BY <2>5, <2>12, <3>1 DEF LinkedTo
    <3>3. LinkedTo(r) \subseteq TxIds
      BY DEF LinkedTo
    <3> QED BY <2>5, <3>1, <3>2, <3>3 DEF LinksKept
  <2>13. ASSUME ~SharesRoute(r0) PROVE LinkAdded(r0, t0, a)
    <3>1. t0 \notin LinkedTo(r0) /\ LinkedTo(r0) \subseteq TxIds
      BY <2>3, <2>13, ConstantTypes DEF LinkedTo
    <3>2. LinkedTo(r0)' = LinkedTo(r0) \cup {t0}
      BY <2>5, <3>1 DEF LinkedTo
    <3>3. Signed(tx'[t0]) = a
      BY <2>5 DEF Signed
    <3> QED BY <2>5, <3>1, <3>2, <3>3 DEF LinkAdded
  <2>14. \A r \in Recs : SharesRoute(r) \/ BooksKept(r)
    BY <2>9, <2>12, <2>13 DEF BooksKept
  <2>15. \A t \in TxIds : tx'[t].status = "pending" => tx'[t] = tx[t]
    BY <2>5
  <2>16. BookInv'
    BY <2>1, <2>9, <2>10, <2>11, <2>14, <2>15, EndBooks
  <2>17. ASSUME DistinctRoutes PROVE Obligation!Pay({r0})
    <3>1. \A r \in Recs : ~SharesRoute(r)
      BY <2>17 DEF SharesRoute, DistinctRoutes
    <3>2. \A r \in Recs : r # r0 => LinkedTo(r)' = LinkedTo(r)
      BY <2>12, <3>1 DEF LinksKept
    <3>3. LinkedTo(r0)' # {}
      BY <2>13, <3>1 DEF LinkAdded
    <3>4. Moved' = Moved \cup {r0}
      BY <3>2, <3>3 DEF Moved
    <3> QED BY <2>2, <2>4, <2>9, <3>4, ObligationPay
  <2> QED BY <2>2, <2>16, <2>17 DEF Settles, Obligation!Next
<1> QED
  BY <1>1, <1>2

-----------------------------------------------------------------------------
(* Batches *)

LEMMA BatchTurns ==
  ASSUME TypeInv, IInv, BookInv, NEW p \in Procs, BatchSkip(p) \/ BatchSelect(p) \/ BatchReplay(p)
  PROVE  Settles
<1> DEFINE s == sess[p]
<1>0. s \in Session /\ Carries(s)
  BY SessionFields DEF BookInv, SessionsCarry
<1>1. PICK new : /\ sess' = [sess EXCEPT ![p] = new] /\ rec' = rec /\ tx' = tx
                 /\ \/ new = [s EXCEPT !.pc = "batch"]
                    \/ \E r \in s.todo : \/ new = [s EXCEPT !.todo = @ \ {r}] /\ s.pc = "batch"
                                         \/ new = [s EXCEPT !.pc = "select", !.rec = r,
                                                     !.todo = @ \ {r}, !.seen = close[CloseOf[r]]]
  BY DEF BatchSkip, BatchSelect, BatchReplay
<1>2. /\ new.pc \in {"batch", "select"} /\ new.held = s.held /\ new.op = s.op
      /\ new.want = s.want /\ new.key = s.key
  <2>1. CASE new = [s EXCEPT !.pc = "batch"]
    BY <1>0, <2>1 DEF Session
  <2>2. ASSUME NEW r, new = [s EXCEPT !.todo = @ \ {r}], s.pc = "batch"
        PROVE  /\ new.pc \in {"batch", "select"} /\ new.held = s.held /\ new.op = s.op
               /\ new.want = s.want /\ new.key = s.key
    BY <1>0, <2>2 DEF Session
  <2>3. ASSUME NEW r, new = [s EXCEPT !.pc = "select", !.rec = r,
                                !.todo = @ \ {r}, !.seen = close[CloseOf[r]]]
        PROVE  /\ new.pc \in {"batch", "select"} /\ new.held = s.held /\ new.op = s.op
               /\ new.want = s.want /\ new.key = s.key
    BY <1>0, <2>3 DEF Session
  <2> QED BY <1>1, <2>1, <2>2, <2>3
<1>3. Carries(new)
  BY <1>0, <1>2 DEF Carries
<1> QED
  BY <1>1, <1>2, <1>3, SessionStep

\* A batch books what remains of the row it has locked, under the key of a full payment.
LEMMA BatchBooks ==
  ASSUME TypeInv, IInv, BookInv, NEW p \in Procs, BatchApply(p)
  PROVE  Settles
<1> DEFINE s == sess[p]
           row == Movement(s.rec, "pending", ApplyAmount(s), "application", ApplyKey(s))
           new == [s EXCEPT !.pc = "batch"]
<1>0. s \in Session /\ Carries(s)
  BY SessionFields DEF BookInv, SessionsCarry
<1>1. /\ s.pc = "locked" /\ s.op = "apply_all" /\ CanApply(s) /\ Book(row)
      /\ sess' = [sess EXCEPT ![p] = new] /\ rec' = rec
  BY DEF BatchApply
<1>2. PICK r0 \in Recs, a \in Int : r0 = s.rec /\ a = ApplyAmount(s)
  BY <1>1, LockedFacts, AmountTypes
<1>3. /\ a > 0 /\ r0 \in s.held /\ a = Amount[r0] - rec[r0].applied /\ ApplyKey(s) = FullKey(r0)
      /\ rec[r0].applied \in Int /\ Amount[r0] \in Int
  <2>1. s.want = 0 /\ s.key = Blank /\ s.applied = rec[r0].applied /\ r0 \in s.held
    BY <1>0, <1>1, <1>2, LockedFacts DEF Carries
  <2>2. a = Remaining(r0, s.applied) /\ ApplyKey(s) = FullKey(r0)
    BY <1>2, <2>1 DEF ApplyAmount, ApplyKey
  <2>3. a > 0
    BY <1>1, <1>2 DEF CanApply
  <2> QED BY <2>1, <2>2, <2>3, SessionFields, ConstantTypes DEF Remaining
<1>4. row \in TxRow
  BY <1>1, <1>2, AmountTypes, MovementType DEF Actions
<1>5. /\ row.link = r0 /\ row.status = "pending" /\ Sound(row) /\ row.credit = a
      /\ row.action = "application" /\ row.key = FullKey(r0)
  BY <1>2, <1>3, MovementSound
<1>6. /\ new.pc = "batch" /\ new.held = s.held /\ new.op = s.op /\ new.want = s.want
      /\ new.key = s.key
  BY <1>0 DEF Session
<1> HIDE DEF row, new
<1>7. sess'[p] = new /\ \A q \in Procs \ {p} : sess'[q] = sess[q]
  BY <1>1 DEF TypeInv, TypeOK
<1>8. /\ RowsSound'
      /\ \A t \in TxIds : tx'[t] # tx[t] => tx'[t] = row
      /\ \A q \in Procs : sess'[q] = sess[q] => Carries(sess[q])'
      /\ \A r \in Recs : LinksKept(r)
  BY <1>1, <1>4, <1>5, BookFacts
<1>9. SessionsCarry'
  <2>1. Carries(sess[p])'
    BY <1>0, <1>6, <1>7 DEF Carries
  <2> QED BY <1>7, <1>8, <2>1 DEF SessionsCarry
<1>10. ASSUME NEW t \in TxIds, tx'[t].status = "pending" PROVE PaysRest(tx[t])'
  <2>1. CASE tx'[t] = row
    <3>1. rec'[r0].applied + row.credit = Amount[r0]
      BY <1>1, <1>3, <1>5
    <3>2. r0 \in sess'[p].held /\ sess'[p].op = "apply_all"
      BY <1>1, <1>3, <1>6, <1>7
    <3> QED BY <1>3, <1>5, <2>1, <3>1, <3>2 DEF PaysRest
  <2>2. CASE tx'[t] = tx[t]
    <3>1. PaysRest(tx[t])
      BY <1>10, <2>2 DEF BookInv, PendingHeld
    <3>2. \E q \in Procs : tx[t].link \in sess'[q].held /\ sess'[q].op = "apply_all"
      BY <1>6, <1>7, <3>1 DEF PaysRest
    <3> QED BY <1>1, <2>2, <3>1, <3>2 DEF PaysRest
  <2> QED BY <1>8, <2>1, <2>2
<1>11. BookInv'
  <2>1. UnbookedRows' /\ IdleHoldNothing'
    BY <1>1, <1>6, <1>7 DEF BookInv, UnbookedRows, Live, IdleHoldNothing
  <2>2. BooksAgree'
    BY <1>1, <1>8, BooksStep DEF BookInv, BooksKept
  <2> QED BY <1>8, <1>9, <1>10, <2>1, <2>2 DEF BookInv, PendingHeld
<1> QED
  BY <1>1, <1>8, <1>11, LinksStutter DEF Settles, LinksKept

\* What a batch has inserted is committed with the rows it pays: one movement for
\* each of them, because they share the key of a full payment.
LEMMA CommitSettles ==
  ASSUME TypeInv, IInv, KeyInv, BookInv, NEW p \in Procs, CommitAll(p)
  PROVE  Settles
<1> DEFINE s == sess[p]
<1>0. /\ s \in Session /\ Agrees(s)
      /\ tx \in [TxIds -> TxRow] /\ rec \in [Recs -> RecRow]
      /\ \A q \in Procs : sess[q].held \subseteq Recs
  BY SessionFields DEF IInv, SessionsAgree, TypeInv, TypeOK
<1>1. PICK P \in SUBSET TxIds : P = Pending(p)
  BY DEF Pending
<1>2. PICK S \in SUBSET Recs : S = {tx[t].link : t \in P}
  BY <1>0, <1>1 DEF Pending
<1>3. /\ s.pc = "batch" /\ tx' = Posted(P) /\ End(p)
      /\ rec' = [r \in Recs |-> IF r \in S THEN Row(r, Amount[r], TRUE) ELSE rec[r]]
  BY <1>1, <1>2 DEF CommitAll
<1>4. \A t \in P : tx[t].status = "pending" /\ tx[t].link \in s.held /\ PaysRest(tx[t])
  BY <1>1 DEF Pending, BookInv, PendingHeld
<1>5. s.op = "apply_all" /\ S \subseteq s.held /\ \A r \in S : Live(r) /\ rec[r].status # "cancelled"
  <2>1. s.op = "apply_all" /\ S \subseteq s.held
    BY <1>0, <1>2, <1>3, <1>4 DEF Agrees
  <2> QED BY <2>1 DEF IInv, RowLocks
<1>6. ASSUME NEW r \in S
      PROVE  /\ rec'[r].applied = Amount[r]
             /\ rec'[r].status \in {"recommended", "accepted", "applied", "partially_applied"}
  <2>1. Amount[r] \in Int /\ r \in Recs
    BY ConstantTypes
  <2>2. PICK saved \in RecRow : /\ saved = Row(r, Amount[r], TRUE)
                                /\ saved.applied = Amount[r] /\ saved.status \in Executable
    BY <2>1, RowSaved
  <2>3. rec'[r] = saved
    BY <1>3, <2>1, <2>2
  <2> QED BY <2>2, <2>3 DEF Executable
<1>7. \A r \in Recs \ S : rec'[r] = rec[r]
  BY <1>3
<1>8. /\ \A t \in TxIds \ P : tx'[t] = tx[t]
      /\ \A t \in P : /\ tx'[t].status = "posted" /\ tx'[t].link = tx[t].link
                      /\ tx'[t].action = tx[t].action /\ tx'[t].credit = tx[t].credit
                      /\ tx'[t].amount = tx[t].amount /\ tx'[t].route = tx[t].route
  BY <1>0, <1>3 DEF Posted, TxRow
<1>9. ASSUME NEW r \in S
      PROVE  \E t \in P : /\ LinkAdded(r, t, tx[t].credit) /\ tx[t].credit \in Int
                          /\ tx[t].credit > 0 /\ rec[r].applied + tx[t].credit = Amount[r]
  <2>1. PICK t \in P : tx[t].link = r
    BY <1>2
  <2>2. /\ tx[t].action = "application" /\ tx[t].key = FullKey(r) /\ tx[t].credit > 0
        /\ rec[r].applied + tx[t].credit = Amount[r] /\ tx[t].credit \in Int
    BY <1>0, <1>4, <2>1 DEF PaysRest, TxRow
  <2>3. ASSUME NEW u \in P, tx[u].link = r PROVE u = t
    <3>1. tx[u].key = FullKey(r) /\ FullKey(r) # Blank
      BY <1>4, <2>3 DEF PaysRest, FullKey, Blank
    <3> QED BY <1>4, <2>2, <3>1 DEF KeyInv, Active
  <2>4. t \notin LinkedTo(r) /\ LinkedTo(r) \subseteq TxIds \ P
    BY <1>4 DEF LinkedTo
  <2>5. LinkedTo(r)' = LinkedTo(r) \cup {t}
    BY <1>8, <2>1, <2>3, <2>4 DEF LinkedTo
  <2>6. Signed(tx'[t]) = tx[t].credit
    BY <1>8, <2>2 DEF Signed
  <2>7. LinkAdded(r, t, tx[t].credit)
    BY <1>8, <2>4, <2>5, <2>6 DEF LinkAdded
  <2> QED BY <2>2, <2>7
<1>10. ASSUME NEW r \in Recs \ S PROVE LinksKept(r)
  <2>1. LinkedTo(r) \subseteq TxIds \ P
    BY <1>4 DEF LinkedTo
  <2>2. LinkedTo(r)' = LinkedTo(r)
    BY <1>2, <1>8, <2>1 DEF LinkedTo
  <2> QED BY <1>8, <2>1, <2>2 DEF LinksKept
<1>11. \A r \in Recs : BooksKept(r)
  <2>1. ASSUME NEW r \in Recs \ S PROVE BooksKept(r)
    BY <1>7, <1>10 DEF BooksKept
  <2>2. ASSUME NEW r \in S PROVE BooksKept(r)
    <3>1. PICK t \in P : /\ LinkAdded(r, t, tx[t].credit) /\ tx[t].credit \in Int
                         /\ rec[r].applied + tx[t].credit = Amount[r]
      BY <1>9
    <3>2. rec'[r].applied = rec[r].applied + tx[t].credit
      BY <1>6, <3>1
    <3> QED BY <3>1, <3>2 DEF BooksKept
  <2> QED BY <2>1, <2>2
<1>12. \A q \in Procs \ {p} : Carries(sess[q])' /\ \A r \in sess[q].held : rec'[r] = rec[r]
  <2>1. ASSUME NEW q \in Procs \ {p} PROVE Carries(sess[q])'
    <3>1. sess'[q] = sess[q]
      BY <1>3 DEF End, TypeInv, TypeOK
    <3>2. sess[q].pc = "candidate" => sess[q].tx \in TxIds \ P
      BY <1>4, SessionFields DEF NamesRow, BookInv, SessionsCarry, Carries
    <3> QED BY <1>8, <3>1, <3>2, CandidateKept
  <2>2. ASSUME NEW q \in Procs \ {p}, NEW r \in sess[q].held PROVE rec'[r] = rec[r]
    BY <1>0, <1>5, <1>7 DEF IInv, RowLocks
  <2> QED BY <2>1, <2>2
<1>13. \A t \in TxIds : tx'[t].status = "pending" => tx'[t] = tx[t] /\ tx[t].link \notin s.held
  BY <1>1, <1>8 DEF Pending
<1>14. RowsSound' /\ UnbookedRows'
  <2>1. RowsSound'
    BY <1>4, <1>8 DEF BookInv, RowsSound, Sound
  <2> QED BY <1>6, <1>7, <2>1 DEF BookInv, UnbookedRows, Live
<1>15. BookInv'
  BY <1>3, <1>11, <1>12, <1>13, <1>14, EndBooks
<1>16. Obligation!Pay(S)
  <2>1. \A r \in S : /\ Phase(r) = "open" /\ Phase(r)' = "open"
                     /\ rec'[r].applied > rec[r].applied /\ rec'[r].applied <= Amount[r]
    <3>1. \A r \in S : Phase(r) = "open" /\ Phase(r)' = "open"
      BY <1>5, <1>6 DEF Phase, Live
    <3>2. ASSUME NEW r \in S PROVE rec'[r].applied > rec[r].applied /\ rec'[r].applied <= Amount[r]
      <4>1. rec[r].applied \in Int /\ Amount[r] \in Int /\ rec'[r].applied = Amount[r]
        BY <1>0, <1>6, ConstantTypes DEF RecRow
      <4>2. PICK c \in Int : c > 0 /\ rec[r].applied + c = Amount[r]
        BY <1>9
      <4> QED BY <4>1, <4>2
    <3> QED BY <3>1, <3>2
  <2>2. PhasesStay
    BY <1>7, <2>1 DEF PhasesStay, Phase
  <2>3. Moved' = Moved \cup S
    <3>1. \A r \in S : LinkedTo(r)' # {}
      BY <1>9 DEF LinkAdded
    <3> QED BY <1>10, <3>1 DEF Moved, LinksKept
  <2> QED BY <1>7, <2>1, <2>2, <2>3, ObligationPay
<1> QED
  BY <1>15, <1>16 DEF Settles, Obligation!Next

LEMMA ProceedsSettles ==
  ASSUME TypeInv, IInv, KeyInv, BookInv, NEW p \in Procs, Proceeds(p)
  PROVE  Settles
BY SaveSettles, MoveSettles, LinkSettles, BatchTurns, BatchBooks, CommitSettles DEF Proceeds

-----------------------------------------------------------------------------
(* The rest of the ledger, and the theorems *)

\* A step outside the requests leaves the sessions and the rows they hold alone.
LEMMA OutsideBooks ==
  ASSUME TypeInv, IInv, BookInv, sess' = sess, RowsSound',
         \A p \in Procs : (\A r \in sess[p].held : rec'[r] = rec[r]) /\ Carries(sess[p])',
         \A t \in TxIds : tx'[t].status = "pending" => tx'[t] = tx[t],
         \A r \in Recs : BooksKept(r), UnbookedRows'
  PROVE  BookInv'
<1>1. SessionsCarry'
  BY DEF SessionsCarry
<1>2. PendingHeld'
  <2>1. ASSUME NEW t \in TxIds, tx'[t].status = "pending" PROVE PaysRest(tx[t])'
    <3>1. tx'[t] = tx[t] /\ PaysRest(tx[t])
      BY <2>1 DEF BookInv, PendingHeld
    <3> QED BY <3>1 DEF PaysRest
  <2> QED BY <2>1 DEF PendingHeld
<1>3. IdleHoldNothing'
  BY DEF BookInv, IdleHoldNothing
<1>4. BooksAgree'
  BY BooksStep DEF BookInv
<1> QED
  BY <1>1, <1>2, <1>3, <1>4 DEF BookInv

LEMMA OthersSettle ==
  ASSUME TypeInv, IInv, BookInv,
         \/ \E c \in Closes : FinalizeClose(c) \/ LockClose(c)
         \/ \E rt \in Routes, a \in Amounts : PostTransfer(rt, a)
         \/ \E t \in TxIds : DeleteTransfer(t)
  PROVE  Settles
<1>0. /\ tx \in [TxIds -> TxRow] /\ rec \in [Recs -> RecRow]
      /\ \A q \in Procs : sess[q].held \subseteq Recs
      /\ \A q \in Procs : sess[q].pc = "candidate" => sess[q].tx \in TxIds
  BY SessionFields DEF TypeInv, TypeOK, NamesRow
<1>1. ASSUME NEW c \in Closes, FinalizeClose(c) PROVE Settles
  <2>1. PICK S \in SUBSET {r \in Recs : CloseOf[r] = c /\ rec[r].status = "absent"} :
          rec' = [r \in Recs |-> IF r \in S THEN NewRow ELSE rec[r]]
    BY <1>1 DEF FinalizeClose
  <2>2. tx' = tx /\ sess' = sess /\ S \in SUBSET Recs
    BY <1>1, <2>1 DEF FinalizeClose
  <2>3. /\ \A r \in S : /\ rec[r].status = "absent" /\ rec[r].applied = 0
                        /\ rec'[r].status = "recommended" /\ rec'[r].applied = 0
        /\ \A r \in Recs \ S : rec'[r] = rec[r]
    BY <2>1 DEF NewRow, BookInv, UnbookedRows, Live
  <2>4. /\ \A q \in Procs : (\A r \in sess[q].held : rec'[r] = rec[r]) /\ Carries(sess[q])'
        /\ RowsSound' /\ \A r \in Recs : LinkedTo(r)' = LinkedTo(r) /\ LinksKept(r)
    <3>1. \A q \in Procs : \A r \in sess[q].held : rec'[r] = rec[r]
      BY <1>0, <2>3 DEF IInv, RowLocks, Live
    <3> QED BY <2>2, <3>1, LedgerSame
  <2>5. UnbookedRows' /\ \A r \in Recs : BooksKept(r)
    BY <2>3, <2>4 DEF BookInv, UnbookedRows, Live, BooksKept
  <2>6. BookInv'
    BY <2>2, <2>4, <2>5, OutsideBooks
  <2>7. Obligation!Open(S)
    <3>1. \A r \in S : Phase(r) = "none" /\ Phase(r)' = "open"
      BY <2>3 DEF Phase
    <3>2. \A r \in Recs \ S : Phase(r)' = Phase(r)
      BY <2>3 DEF Phase
    <3>3. (\A r \in Recs : rec'[r].applied = rec[r].applied) /\ Moved' = Moved
      BY <2>3, <2>4 DEF Moved
    <3> QED BY <2>2, <3>1, <3>2, <3>3, ObligationOpen
  <2> QED BY <2>2, <2>6, <2>7 DEF Settles, Obligation!Next
<1>2. ASSUME rec' = rec, sess' = sess, RowsSound', \A q \in Procs : Carries(sess[q])',
             \A t \in TxIds : tx'[t].status = "pending" => tx'[t] = tx[t],
             \A r \in Recs : LinksKept(r)
      PROVE  Settles
  <2>1. UnbookedRows' /\ \A r \in Recs : BooksKept(r)
    BY <1>2 DEF BookInv, UnbookedRows, Live, BooksKept
  <2>2. BookInv'
    BY <1>2, <2>1, OutsideBooks
  <2> QED BY <1>2, <2>2, LinksStutter DEF Settles, LinksKept
<1>3. ASSUME NEW c \in Closes, LockClose(c) PROVE Settles
  <2>1. rec' = rec /\ sess' = sess /\ tx' = tx
    BY <1>3 DEF LockClose
  <2> QED BY <1>2, <2>1, LedgerSame
<1>4. ASSUME NEW rt \in Routes, NEW a \in Amounts, PostTransfer(rt, a) PROVE Settles
  <2> DEFINE row == [NoTxRow EXCEPT !.status = "posted", !.route = rt, !.amount = a]
  <2>1. Book(row) /\ rec' = rec /\ sess' = sess /\ a \in Nat \ {0}
    BY <1>4, ConstantsAssumption DEF PostTransfer
  <2>2. row \in TxRow
    <3>1. a \in Int
      BY <2>1
    <3> QED BY <3>1, NoTxRowType DEF NoTxRow, TxRow
  <2>3. row.status = "posted" /\ row.link = NoRec /\ row.amount = a
    BY DEF NoTxRow
  <2> HIDE DEF row
  <2>4. Sound(row)
    BY <2>1, <2>3 DEF Sound
  <2>5. /\ RowsSound' /\ \A t \in TxIds : tx'[t] # tx[t] => tx'[t] = row
        /\ \A q \in Procs : Carries(sess[q])'
        /\ \A r \in Recs : LinksKept(r)
    BY <2>1, <2>2, <2>3, <2>4, BookFacts, ConstantTypes
  <2>6. \A t \in TxIds : tx'[t].status = "pending" => tx'[t] = tx[t]
    BY <2>3, <2>5
  <2> QED BY <1>2, <2>1, <2>5, <2>6
<1>5. ASSUME NEW t \in TxIds, DeleteTransfer(t) PROVE Settles
  <2>1. /\ rec' = rec /\ sess' = sess /\ tx[t].status = "posted" /\ tx[t].link = NoRec
        /\ tx' = [tx EXCEPT ![t].status = "deleted"]
    BY <1>5 DEF DeleteTransfer
  <2>2. /\ tx'[t] = [tx[t] EXCEPT !.status = "deleted"]
        /\ tx'[t].status = "deleted" /\ tx'[t].link = NoRec /\ tx'[t].amount = tx[t].amount
        /\ \A u \in TxIds \ {t} : tx'[u] = tx[u]
    BY <1>0, <2>1 DEF TxRow
  <2>3. \A q \in Procs : Carries(sess[q])'
    <3>1. \A q \in Procs : sess[q].pc = "candidate" =>
             \/ tx'[sess[q].tx] = tx[sess[q].tx]
             \/ tx'[sess[q].tx] = [tx[sess[q].tx] EXCEPT !.status = "deleted"]
      BY <1>0, <2>2
    <3> QED BY <2>1, <3>1, CandidateKept
  <2>4. RowsSound' /\ \A u \in TxIds : tx'[u].status = "pending" => tx'[u] = tx[u]
    BY <2>1, <2>2 DEF BookInv, RowsSound, Sound
  <2>5. \A r \in Recs : LinksKept(r)
    <3>1. ASSUME NEW r \in Recs PROVE LinksKept(r)
      <4>1. LinkedTo(r) \subseteq TxIds \ {t}
        BY <2>1, ConstantTypes DEF LinkedTo
      <4>2. LinkedTo(r)' = LinkedTo(r)
        BY <2>2, <4>1 DEF LinkedTo
      <4> QED BY <2>2, <4>1, <4>2 DEF LinksKept
    <3> QED BY <3>1
  <2> QED BY <1>2, <2>1, <2>3, <2>4, <2>5
<1> QED
  BY <1>1, <1>3, <1>4, <1>5

LEMMA NextSettles == TypeInv /\ IInv /\ KeyInv /\ BookInv /\ [Next]_vars => Settles
<1> SUFFICES ASSUME TypeInv, IInv, KeyInv, BookInv, [Next]_vars PROVE Settles
  OBVIOUS
<1>1. CASE UNCHANGED vars
  <2>1. rec' = rec /\ tx' = tx /\ sess' = sess
    BY <1>1 DEF vars
  <2>2. /\ RowsSound' /\ \A r \in Recs : LinkedTo(r)' = LinkedTo(r) /\ LinksKept(r)
        /\ \A q \in Procs : Carries(sess[q])'
    BY <2>1, LedgerSame
  <2>3. UnbookedRows' /\ \A r \in Recs : BooksKept(r)
    BY <2>1, <2>2 DEF BookInv, UnbookedRows, Live, BooksKept
  <2>4. BookInv'
    BY <2>1, <2>2, <2>3, OutsideBooks
  <2> QED BY <2>1, <2>2, <2>4, LinksStutter DEF Settles
<1>2. CASE Next
  BY <1>2, ArrivesSettles, WaitsSettles, ProceedsSettles, OthersSettle DEF Next
<1> QED
  BY <1>1, <1>2

LEMMA InitBooks == Init => KeyInv /\ BookInv /\ Obligation!Init
<1> SUFFICES ASSUME Init PROVE KeyInv /\ BookInv /\ Obligation!Init
  OBVIOUS
<1>1. /\ \A r \in Recs : rec[r] = AbsentRow
      /\ \A t \in TxIds : tx[t].status = "none"
      /\ \A p \in Procs : sess[p] = Idle
  BY DEF Init, NoTxRow
<1>2. \A r \in Recs : LinkedTo(r) = {}
  BY <1>1 DEF LinkedTo
<1>3. \A r \in Recs : rec[r].applied = 0 /\ rec[r].status = "absent"
  BY <1>1 DEF AbsentRow
<1>4. \A p \in Procs : sess[p].pc = "idle" /\ sess[p].held = {} /\ sess[p].op = "none"
  BY <1>1 DEF Idle
<1>5. BooksAgree
  BY <1>2, <1>3, InitType, NetType DEF BooksAgree
<1>6. BookInv
  BY <1>1, <1>3, <1>4, <1>5 DEF BookInv, RowsSound, Sound, UnbookedRows, SessionsCarry, Carries,
     PendingHeld, IdleHoldNothing
<1>7. Obligation!Init
  BY <1>2, <1>3 DEF Obligation!Init
<1> QED
  BY <1>6, <1>7, InitKeys

LEMMA BooksHold == Spec => [](TypeInv /\ IInv /\ KeyInv /\ BookInv)
<1>1. TypeInv /\ IInv /\ KeyInv /\ BookInv /\ [Next]_vars => (TypeInv /\ IInv /\ KeyInv /\ BookInv)'
  BY NextType, NextInv, KeysKept, NextSettles DEF Settles
<1> QED
  BY InitType, InitInv, InitBooks, <1>1, PTL DEF Spec

\* Where a route belongs to one recommendation, what its row says was applied is
\* the sum of what the ledger holds for it, after any number of applications,
\* reversals, reconciled transfers and batches, whichever of them overlap: what a
\* request writes is computed from the row it keeps locked until it commits.
THEOREM BooksCorrect == Spec => []OwnRouteConserves
<1>1. BookInv => OwnRouteConserves
  BY DEF BookInv, BooksAgree, OwnRouteConserves, AppliedIsBooked
<1> QED
  BY <1>1, BooksHold, PTL

\* Where no two recommendations share a route, whatever the requests, retries,
\* batches and reopenings do at the same time is a sequence of steps of the
\* obligations.  With a shared route it is false: a request links a transfer that
\* another has linked since, and the obligation of the other loses its payment.
THEOREM ObligationsCorrect == ASSUME DistinctRoutes PROVE Spec => SettlesObligations
<1>1. TypeInv /\ IInv /\ KeyInv /\ BookInv /\ [Next]_vars => [Obligation!Next]_ObligationVars
  BY NextSettles DEF Settles
<1>2. Spec => Obligation!Init /\ [][Obligation!Next]_ObligationVars
  BY InitBooks, BooksHold, <1>1, PTL DEF Spec
<1> QED
  BY <1>2, PTL DEF SettlesObligations, Obligation!Spec, ObligationVars, Phase, Moved

\* Without the edits of the ledger endpoint, a close with money applied on one of
\* its recommendations is never reopened over it.
THEOREM AppliedCloseStays == ASSUME DistinctRoutes PROVE Spec => LinkedCloseStays
<1>1. TypeInv /\ IInv /\ KeyInv /\ BookInv /\ [Next]_vars =>
        [\A r \in Recs : (Live(r) /\ rec[r].applied > 0) => rec'[r].status # "deleted"]_vars
  <2> SUFFICES ASSUME TypeInv, IInv, KeyInv, BookInv, [Next]_vars, NEW r \in Recs, Live(r),
                      rec[r].applied > 0, rec'[r].status = "deleted"
               PROVE  FALSE
    OBVIOUS
  <2>1. [Obligation!Next]_ObligationVars
    BY NextSettles DEF Settles
  <2>2. Phase(r) \in {"open", "cancelled"} /\ Phase(r)' = "withdrawn"
    BY DEF Phase, Live
  <2>3. CASE ObligationVars' = ObligationVars
    <3>1. [q \in Recs |-> Phase(q)]' = [q \in Recs |-> Phase(q)]
      BY <2>3 DEF ObligationVars
    <3> QED BY <2>2, <3>1
  <2>4. CASE Obligation!Next
    <3>1. ASSUME [q \in Recs |-> Phase(q)]' = [q \in Recs |-> Phase(q)] PROVE FALSE
      BY <2>2, <3>1
    <3>2. ASSUME NEW S \in SUBSET Recs, Obligation!Open(S) PROVE FALSE
      <4>1. [q \in Recs |-> Phase(q)]' = [q \in Recs |-> IF q \in S THEN "open" ELSE Phase(q)]
        BY <3>2 DEF Obligation!Open, Phase
      <4> QED BY <2>2, <4>1
    <3>3. ASSUME NEW S \in SUBSET Recs, Obligation!Withdraw(S) PROVE FALSE
      <4>1. [q \in Recs |-> Phase(q)]' = [q \in Recs |-> IF q \in S THEN "withdrawn" ELSE Phase(q)]
        BY <3>3 DEF Obligation!Withdraw, Phase
      <4>2. \A q \in S : rec[q].applied = 0
        BY <3>3 DEF Obligation!Withdraw
      <4> QED BY <2>2, <4>1, <4>2
    <3>4. ASSUME NEW q \in Recs, Obligation!Cancel(q) PROVE FALSE
      <4>1. [x \in Recs |-> Phase(x)]' = [[x \in Recs |-> Phase(x)] EXCEPT ![q] = "cancelled"]
        BY <3>4 DEF Obligation!Cancel, Phase
      <4> QED BY <2>2, <4>1
    <3>5. ASSUME NEW S \in SUBSET Recs, Obligation!Pay(S) PROVE FALSE
      BY <3>1, <3>5 DEF Obligation!Pay, Phase
    <3>6. ASSUME NEW q \in Recs, Obligation!Refund(q) PROVE FALSE
      BY <3>1, <3>6 DEF Obligation!Refund, Phase
    <3> QED BY <2>4, <3>2, <3>3, <3>4, <3>5, <3>6 DEF Obligation!Next
  <2> QED BY <2>1, <2>3, <2>4
<1> QED
  BY <1>1, BooksHold, PTL DEF Spec, LinkedCloseStays
=============================================================================
