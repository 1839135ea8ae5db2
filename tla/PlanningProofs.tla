---------------------------- MODULE PlanningProofs ----------------------------
(***************************************************************************)
(* Proofs about parts of the household's planning that are reached by      *)
(* requests of their own: the settlement profile and its baseline, members *)
(* and ownerships, the check-ins of the budget, and the decisions of the   *)
(* financial plan, for any accounts, requests, members, splits and lines.  *)
(***************************************************************************)
EXTENDS SettlementProfile, Memberships, BudgetExecution, PlanEvents, SetLemmas, TLAPS

-----------------------------------------------------------------------------
(* The settlement profile *)

\* As long as no request has written after the baseline it read was replaced: an
\* activated settlement has accounts and one opening for each, a request that is to
\* write the profile has found no baseline, and one that finalizes rests on the
\* baseline it has read.
BaselineStands ==
  /\ IF activation = Never THEN openings = {} /\ ~enabled
                           ELSE openings = {Opening(r, activation) : r \in accounts}
  /\ activation # Never => accounts # {}
  /\ \A m \in ReadyMonths : snapshots[m].after = 0 => snapshots[m].basis \subseteq openings
ReadsStand ==
  /\ held.kind \in {"configure", "activate"} => held.seen = {}
  /\ held.kind = "activate" => held.date # Never
  /\ held.kind = "finalize" => /\ held.result.basis \subseteq held.seen
                               /\ openings = {} => held.seen = {}

\* Inductive.
ProfileInv ==
  /\ \E S : snapshots \in Seq(S)
  /\ ~overtaken => BaselineStands /\ ReadsStand

LEMMA ActivatedHasBaseline ==
  ASSUME BaselineStands
  PROVE  /\ openings = {} <=> activation = Never
         /\ openings = {} => ~enabled
<1>1. accounts # {} => {Opening(r, activation) : r \in accounts} # {}
  OBVIOUS
<1> QED
  BY <1>1 DEF BaselineStands

\* What is added to a sequence and taken from its end leaves the rest as it was.
LEMMA AppendFacts ==
  ASSUME NEW s, NEW e, \E S : s \in Seq(S)
  PROVE  /\ \E S : Append(s, e) \in Seq(S)
         /\ \A m \in DOMAIN Append(s, e) :
              Append(s, e)[m] = IF m \in DOMAIN s THEN s[m] ELSE e
<1>1. PICK S : s \in Seq(S)
  OBVIOUS
<1>2. s \in Seq(S \cup {e}) /\ e \in S \cup {e}
  BY <1>1
<1> QED
  BY <1>2

LEMMA FrontFacts ==
  ASSUME NEW s, \E S : s \in Seq(S), s # <<>>
  PROVE  /\ \E S : Front(s) \in Seq(S)
         /\ \A m \in DOMAIN Front(s) : m \in DOMAIN s /\ Front(s)[m] = s[m]
<1>1. PICK S : s \in Seq(S)
  OBVIOUS
<1>2. Len(s) \in Nat \ {0} /\ Front(s) = SubSeq(s, 1, Len(s) - 1)
  BY <1>1 DEF Front
<1>3. \A i \in 1..(Len(s) - 1) : s[i] \in S
  BY <1>1, <1>2
<1>4. /\ Front(s) \in Seq(S) /\ Len(Front(s)) = Len(s) - 1
      /\ \A i \in 1..(Len(s) - 1) : Front(s)[i] = s[i]
  <2>1. PICK n \in Nat : n = Len(s) - 1
    BY <1>2
  <2>2. \A i \in 1..n : s[i] \in S
    BY <1>3, <2>1
  <2>3. /\ SubSeq(s, 1, n) \in Seq(S) /\ Len(SubSeq(s, 1, n)) = n
        /\ \A i \in 1..n : SubSeq(s, 1, n)[i] = s[i]
    BY <2>2
  <2> QED BY <1>2, <2>1, <2>3
<1>5. DOMAIN Front(s) = 1..(Len(s) - 1) /\ DOMAIN s = 1..Len(s)
  BY <1>1, <1>4
<1>6. \A m \in DOMAIN Front(s) : m \in DOMAIN s /\ Front(s)[m] = s[m]
  BY <1>2, <1>4, <1>5
<1> QED
  BY <1>4, <1>6

\* Steps that leave months and what is read as they are.
LEMMA ProfileKept ==
  ASSUME ProfileInv, ProfileNext
  PROVE  ProfileInv'
<1> DEFINE shape == \E S : snapshots \in Seq(S)
<1>a. shape
  BY DEF ProfileInv
<1>b. ASSUME UNCHANGED snapshots, ~overtaken' => BaselineStands' /\ ReadsStand'
      PROVE  ProfileInv'
  BY <1>a, <1>b DEF ProfileInv
<1>1. ASSUME NEW c \in Configurations, ReadConfiguration(c) PROVE ProfileInv'
  <2>1. UNCHANGED <<accounts, enabled, activation, openings, snapshots, overtaken>>
        /\ held'.kind = "configure" /\ held'.seen = {}
    BY <1>1 DEF ReadConfiguration, Configurable, HasBaseline
  <2>2. ~overtaken' => BaselineStands'
    BY <2>1 DEF ProfileInv, BaselineStands, ReadyMonths
  <2>3. ReadsStand'
    BY <2>1 DEF ReadsStand
  <2> QED BY <1>b, <2>1, <2>2, <2>3
<1>2. CASE WriteConfiguration
  <2>1. /\ held.kind = "configure" /\ held' = [kind |-> "none"]
        /\ overtaken' = (overtaken \/ Stale)
        /\ openings' \subseteq openings /\ UNCHANGED <<enabled, activation, snapshots>>
    BY <1>2 DEF WriteConfiguration, Writes, Released
  <2>2. ASSUME ~overtaken' PROVE BaselineStands'
    <3>1. ~overtaken /\ ~Stale /\ BaselineStands /\ ReadsStand
      BY <2>1, <2>2 DEF ProfileInv
    <3>2. openings = {}
      BY <2>1, <3>1 DEF ReadsStand, Stale
    <3>3. activation = Never /\ ~enabled /\ openings' = {}
      BY <2>1, <3>1, <3>2, ActivatedHasBaseline
    <3> QED
      BY <2>1, <3>1, <3>2, <3>3 DEF BaselineStands, ReadyMonths
  <2>3. ReadsStand'
    BY <2>1 DEF ReadsStand
  <2> QED BY <1>b, <2>1, <2>2, <2>3
<1>3. ASSUME NEW date \in 0..(Months - 1), Reactivate(date) PROVE ProfileInv'
  <2>1. /\ UNCHANGED <<accounts, activation, openings, snapshots, held, overtaken>>
        /\ activation # Never
    BY <1>3 DEF Reactivate, Never
  <2>2. ~overtaken' => BaselineStands'
    BY <2>1 DEF ProfileInv, BaselineStands, ReadyMonths
  <2>3. ~overtaken' => ReadsStand'
    BY <2>1 DEF ProfileInv, ReadsStand
  <2> QED BY <1>b, <2>1, <2>2, <2>3
<1>4. ASSUME NEW date \in 0..(Months - 1), ReadActivation(date) PROVE ProfileInv'
  <2>1. /\ UNCHANGED <<accounts, enabled, activation, openings, snapshots, overtaken>>
        /\ held'.kind = "activate" /\ held'.seen = openings /\ held'.date = date
        /\ activation = Never \/ openings = {}
    BY <1>4 DEF ReadActivation, HasBaseline
  <2>2. ~overtaken' => BaselineStands'
    BY <2>1 DEF ProfileInv, BaselineStands, ReadyMonths
  <2>3. date # Never
    BY DEF Never
  <2>4. ASSUME ~overtaken' PROVE ReadsStand'
    <3>1. openings = {}
      BY <2>1, <2>4, ActivatedHasBaseline DEF ProfileInv
    <3> QED BY <2>1, <2>3, <3>1 DEF ReadsStand
  <2> QED BY <1>b, <2>1, <2>2, <2>4
<1>5. CASE WriteActivation
  <2>1. /\ held.kind = "activate" /\ held' = [kind |-> "none"]
        /\ overtaken' = (overtaken \/ Stale)
        /\ openings' = {Opening(r, held.date) : r \in accounts}
        /\ activation' = held.date /\ UNCHANGED <<accounts, snapshots>> /\ accounts # {}
    BY <1>5 DEF WriteActivation, Writes, Released, Capturable, Readiness
  <2>2. ASSUME ~overtaken' PROVE BaselineStands'
    <3>1. ~overtaken /\ ~Stale /\ BaselineStands /\ ReadsStand
      BY <2>1, <2>2 DEF ProfileInv
    <3>2. openings = {} /\ held.date # Never
      BY <2>1, <3>1 DEF ReadsStand, Stale
    <3>3. \A m \in ReadyMonths : snapshots[m].after = 0 => snapshots[m].basis \subseteq openings'
      BY <3>1, <3>2 DEF BaselineStands
    <3>4. openings' = {Opening(r, activation') : r \in accounts'}
      BY <2>1
    <3> QED
      BY <2>1, <3>2, <3>3, <3>4 DEF BaselineStands, ReadyMonths
  <2>3. ReadsStand'
    BY <2>1 DEF ReadsStand
  <2> QED BY <1>b, <2>1, <2>2, <2>3
<1>6. CASE RejectActivation
  <2>1. /\ UNCHANGED <<accounts, enabled, activation, openings, snapshots, overtaken>>
        /\ held'.kind = "none"
    BY <1>6 DEF RejectActivation, Released
  <2>2. ~overtaken' => BaselineStands'
    BY <2>1 DEF ProfileInv, BaselineStands, ReadyMonths
  <2>3. ReadsStand'
    BY <2>1 DEF ReadsStand
  <2> QED BY <1>b, <2>1, <2>2, <2>3
<1>7. ASSUME NEW r \in Recounts, Rebaseline(r) PROVE ProfileInv'
  <2>1. PICK rows : rows = Recounted(accounts, r.cash)
    OBVIOUS
  <2>2. /\ ReadyMonths = {} /\ rows # {} /\ accounts' = rows
        /\ openings' = {Opening(row, r.date) : row \in rows}
        /\ activation' = r.date /\ UNCHANGED <<snapshots, held, overtaken>>
    BY <1>7, <2>1 DEF Rebaseline, CanRebaseline, Capturable, Readiness
  <2>3. r.date # Never
    BY ProfileAssumption DEF Never, MonthEnds
  <2>4. BaselineStands' /\ openings' # {}
    BY <2>2, <2>3 DEF BaselineStands, ReadyMonths
  <2>5. ~overtaken' => ReadsStand'
    BY <2>2, <2>4 DEF ProfileInv, ReadsStand
  <2> QED BY <1>b, <2>2, <2>4, <2>5
<1>8. CASE Disable
  <2>1. UNCHANGED <<accounts, activation, openings, snapshots, held, overtaken>> /\ enabled' = FALSE
    BY <1>8 DEF Disable
  <2>2. ~overtaken' => BaselineStands'
    BY <2>1 DEF ProfileInv, BaselineStands, ReadyMonths
  <2>3. ~overtaken' => ReadsStand'
    BY <2>1 DEF ProfileInv, ReadsStand
  <2> QED BY <1>b, <2>1, <2>2, <2>3
<1>9. ASSUME NEW a \in Assets, AddAccount(a) PROVE ProfileInv'
  <2>1. PICK row : row = [asset |-> a, role |-> "allocation_destination", member |-> NoMember,
                          primary |-> FALSE, accepted |-> NotCounted]
    OBVIOUS
  <2>2. /\ activation # Never /\ openings # {}
        /\ accounts' = accounts \cup {row}
        /\ openings' = openings \cup {Opening(row, activation)}
        /\ UNCHANGED <<activation, snapshots, held, overtaken>>
    BY <1>9, <2>1 DEF AddAccount, HasBaseline
  <2>3. ~overtaken' => BaselineStands'
    BY <2>2 DEF ProfileInv, BaselineStands, ReadyMonths
  <2>4. ~overtaken' => ReadsStand'
    BY <2>2 DEF ProfileInv, ReadsStand
  <2> QED BY <1>b, <2>2, <2>3, <2>4
<1>10. ASSUME NEW reconciles \in BOOLEAN, Calculate(reconciles) PROVE ProfileInv'
  <2>1. /\ UNCHANGED <<accounts, enabled, activation, openings, snapshots, overtaken>>
        /\ held' = [kind |-> "finalize", seen |-> openings,
                    result |-> Calculated(Len(snapshots) + 1, reconciles)]
    BY <1>10 DEF Calculate
  <2>2. Calculated(Len(snapshots) + 1, reconciles).basis \subseteq openings
    BY DEF Calculated
  <2>3. ~overtaken' => BaselineStands'
    BY <2>1 DEF ProfileInv, BaselineStands, ReadyMonths
  <2>4. ReadsStand'
    BY <2>1, <2>2 DEF ReadsStand
  <2> QED BY <1>b, <2>1, <2>3, <2>4
\* Steps that change the months
<1>c. ASSUME UNCHANGED <<accounts, enabled, activation, openings>>, held'.kind = "none",
             (\E S : snapshots \in Seq(S))', ~overtaken' => ~overtaken,
             ASSUME NEW m \in DOMAIN snapshots',
                    m \notin DOMAIN snapshots \/ snapshots'[m] # snapshots[m],
                    ~overtaken', snapshots'[m].ready, snapshots'[m].after = 0
             PROVE  snapshots'[m].basis \subseteq openings
      PROVE  ProfileInv'
  <2>1. ReadsStand'
    BY <1>c DEF ReadsStand
  <2>2. ASSUME ~overtaken', NEW m \in DOMAIN snapshots', snapshots'[m].ready,
               snapshots'[m].after = 0
        PROVE  snapshots'[m].basis \subseteq openings
    BY <1>c, <2>2 DEF ProfileInv, BaselineStands, ReadyMonths
  <2>3. ~overtaken' => BaselineStands'
    BY <1>c, <2>2 DEF ProfileInv, BaselineStands, ReadyMonths
  <2> QED BY <1>c, <2>1, <2>3 DEF ProfileInv
<1>11. CASE Freeze
  <2>1. /\ held.kind = "finalize" /\ held' = [kind |-> "none"]
        /\ overtaken' = (overtaken \/ Stale)
        /\ snapshots' = Append(snapshots, held.result)
        /\ UNCHANGED <<accounts, enabled, activation, openings>>
    BY <1>11 DEF Freeze, Writes, Released
  <2>2. ASSUME ~overtaken' PROVE held.result.basis \subseteq openings
    <3>1. ~Stale /\ ReadsStand
      BY <2>1, <2>2 DEF ProfileInv
    <3> QED BY <2>1, <3>1 DEF ReadsStand, Stale
  <2>3. /\ \E S : Append(snapshots, held.result) \in Seq(S)
        /\ \A m \in DOMAIN Append(snapshots, held.result) :
             Append(snapshots, held.result)[m] =
               IF m \in DOMAIN snapshots THEN snapshots[m] ELSE held.result
    BY <1>a, AppendFacts
  <2> QED BY <1>c, <2>1, <2>2, <2>3
<1>12. CASE FinalizeDisabled
  <2>1. /\ held.kind = "none" /\ snapshots' = Append(snapshots, NoSnapshot)
        /\ UNCHANGED <<accounts, enabled, activation, openings, held, overtaken>>
    BY <1>12 DEF FinalizeDisabled, Idle
  <2>2. /\ \E S : Append(snapshots, NoSnapshot) \in Seq(S)
        /\ \A m \in DOMAIN Append(snapshots, NoSnapshot) :
             Append(snapshots, NoSnapshot)[m] =
               IF m \in DOMAIN snapshots THEN snapshots[m] ELSE NoSnapshot
    BY <1>a, AppendFacts
  <2>3. ~NoSnapshot.ready
    BY DEF NoSnapshot
  <2> QED BY <1>c, <2>1, <2>2, <2>3
<1>13. CASE Reopen
  <2>1. /\ held.kind = "none" /\ snapshots # <<>> /\ snapshots' = Front(snapshots)
        /\ UNCHANGED <<accounts, enabled, activation, openings, held, overtaken>>
    BY <1>13 DEF Reopen, Idle
  <2>2. /\ \E S : Front(snapshots) \in Seq(S)
        /\ \A m \in DOMAIN Front(snapshots) :
             m \in DOMAIN snapshots /\ Front(snapshots)[m] = snapshots[m]
    BY <1>a, <2>1, FrontFacts
  <2> QED BY <1>c, <2>1, <2>2
<1> QED
  BY <1>1, <1>2, <1>3, <1>4, <1>5, <1>6, <1>7, <1>8, <1>9, <1>10, <1>11, <1>12, <1>13
  DEF ProfileNext

LEMMA ProfileInitially == ProfileInit => ProfileInv
<1> SUFFICES ASSUME ProfileInit PROVE ProfileInv
  OBVIOUS
<1>1. \E S : snapshots \in Seq(S)
  <2>1. snapshots \in Seq({})
    BY DEF ProfileInit
  <2> QED BY <2>1
<1>2. BaselineStands /\ ReadsStand
  BY DEF ProfileInit, BaselineStands, ReadsStand, ReadyMonths
<1> QED
  BY <1>1, <1>2 DEF ProfileInv

LEMMA ProfileStutter == ProfileInv /\ UNCHANGED profileVars => ProfileInv'
<1> SUFFICES ASSUME ProfileInv, UNCHANGED profileVars PROVE ProfileInv'
  OBVIOUS
<1>1. UNCHANGED <<accounts, enabled, activation, openings, snapshots, held, overtaken>>
  BY DEF profileVars
<1>2. (\E S : snapshots \in Seq(S))'
  BY <1>1 DEF ProfileInv
<1>3. ~overtaken' => BaselineStands' /\ ReadsStand'
  BY <1>1 DEF ProfileInv, BaselineStands, ReadsStand, ReadyMonths
<1> QED
  BY <1>2, <1>3 DEF ProfileInv

\* However a settlement is configured, activated, disabled, rebaselined, extended and
\* closed, and whichever requests overlap, it has one opening for every account that
\* takes part, and the first ready close keeps the baseline it rests on, until a
\* request writes on what it had read of a baseline that has been replaced.
THEOREM BaselineCorrect == ProfileSpec => []BaselineHolds
<1>1. ProfileInv /\ [ProfileNext]_profileVars => ProfileInv'
  BY ProfileKept, ProfileStutter
<1>2. ProfileInv => BaselineHolds
  BY DEF ProfileInv, BaselineStands, BaselineHolds
<1> QED
  BY <1>1, <1>2, ProfileInitially, PTL DEF ProfileSpec

-----------------------------------------------------------------------------
(* Members and ownerships *)

\* An ownership is of one member, or divided as a whole among members there are.
Alone(v) == /\ v.kind = "individual" /\ v.member \in DOMAIN members
            /\ v.splits = <<>> /\ v.dynamic = FALSE
Divided(v) == /\ v.kind = "shared" /\ v.member = NoOne
              /\ DOMAIN v.splits \subseteq DOMAIN members
              /\ SumUp(v.splits, DOMAIN v.splits) = Whole

\* Inductive.
MembershipsInv ==
  /\ DOMAIN members \subseteq Persons /\ DOMAIN ownerships \subseteq Titles
  /\ used \subseteq DOMAIN ownerships
  /\ \A p \in Positions : holds[p] \in DOMAIN ownerships \cup {NoOne}
  /\ holds = [p \in Positions |-> holds[p]]
  /\ \A o \in DOMAIN ownerships : Alone(ownerships[o]) \/ Divided(ownerships[o])
  /\ \A m \in DOMAIN members : \E o \in DOMAIN ownerships :
       ownerships[o].kind = "individual" /\ ownerships[o].member = m

LEMMA SumOfOne == ASSUME NEW m PROVE SumUp([n \in {m} |-> Whole], {m}) = Whole
<1> DEFINE f == [n \in {m} |-> Whole]
<1>1. SumUp(f, {m}) = SumFunctionOnSet(f, {m})
  BY DEF SumUp, MapThenSumSet, SumFunctionOnSet, FoldFunctionOnSet
<1>2. f[m] = Whole /\ Whole \in Int
  BY DEF Whole
<1> HIDE DEF f
<1>3. SumFunctionOnSet(f, {m}) = f[m] + SumFunctionOnSet(f, {})
  <2>1. IsFiniteSet({}) /\ m \notin {} /\ \A x \in {} \cup {m} : f[x] \in Int
    BY <1>2, FS_EmptySet
  <2>2. {} \cup {m} = {m}
    OBVIOUS
  <2>3. SumFunctionOnSet(f, {} \cup {m}) = f[m] + SumFunctionOnSet(f, {})
    BY <2>1, SumAdd
  <2> QED BY <2>2, <2>3
<1>4. SumFunctionOnSet(f, {}) = 0
  BY SumEmpty
<1>5. SumUp(f, {m}) = Whole
  BY <1>1, <1>2, <1>3, <1>4
<1> QED
  BY <1>5 DEF f

\* Ids that follow are new.
LEMMA NewId ==
  ASSUME NEW ids \in SUBSET Nat, NEW f, DOMAIN f \subseteq ids, NEW i, IsNext(i, ids, f)
  PROVE  i \in ids /\ i \notin DOMAIN f
<1> DEFINE T == NextIds(ids, f)
<1>1. T \subseteq ids /\ T # {} /\ i = Min(T)
  BY DEF IsNext, NextIds
<1>2. \E x \in T : \A y \in T : x <= y
  <2> HIDE DEF T
  <2> QED BY <1>1, LeastNatural
<1>3. Min(T) \in T
  BY <1>2 DEF Min
<1>4. i \in ids /\ \A j \in DOMAIN f : j < i
  BY <1>1, <1>3 DEF NextIds
<1>5. i \in Nat /\ ~(i < i)
  BY <1>4
<1> QED
  BY <1>4, <1>5

LEMMA ValidDivides ==
  ASSUME NEW v, Valid(v)
  PROVE  Alone(v) \/ Divided(v)
BY DEF Valid, Alone, Divided

LEMMA AddMemberKeeps ==
  ASSUME MembershipsInv, NEW m \in Persons, NEW o \in Titles, NEW role, AddMember(m, o, role),
         UNCHANGED <<holds, used>>
  PROVE  MembershipsInv'
<1>1. /\ o \notin DOMAIN ownerships
      /\ members' = Entered(members, m, role) /\ ownerships' = Entered(ownerships, o, OwnedBy(m))
  BY NewId, MembershipsAssumption DEF AddMember, MembershipsInv
<1>2. /\ DOMAIN members' = DOMAIN members \cup {m}
      /\ DOMAIN ownerships' = DOMAIN ownerships \cup {o} /\ ownerships'[o] = OwnedBy(m)
      /\ \A x \in DOMAIN ownerships : ownerships'[x] = ownerships[x]
  BY <1>1 DEF Entered
<1>3. /\ OwnedBy(m).kind = "individual" /\ OwnedBy(m).member = m
      /\ OwnedBy(m).splits = <<>> /\ OwnedBy(m).dynamic = FALSE
  BY DEF OwnedBy
<1>4. ASSUME NEW x \in DOMAIN ownerships'
      PROVE  Alone(ownerships[x])' \/ Divided(ownerships[x])'
  <2>1. CASE x = o
    BY <1>2, <1>3, <2>1 DEF Alone
  <2>2. CASE x # o
    <3>1. ownerships'[x] = ownerships[x] /\ (Alone(ownerships[x]) \/ Divided(ownerships[x]))
      BY <1>2, <2>2 DEF MembershipsInv
    <3> QED BY <1>2, <3>1 DEF Alone, Divided
  <2> QED BY <2>1, <2>2
<1>5. \A p \in Positions : holds'[p] \in DOMAIN ownerships' \cup {NoOne}
  BY <1>2 DEF MembershipsInv
<1>6. \A n \in DOMAIN members' : \E x \in DOMAIN ownerships' :
        ownerships'[x].kind = "individual" /\ ownerships'[x].member = n
  BY <1>2, <1>3 DEF MembershipsInv
<1> QED
  BY <1>2, <1>4, <1>5, <1>6 DEF MembershipsInv

LEMMA DeleteMemberKeeps ==
  ASSUME MembershipsInv, NEW m \in Persons, DeleteMember(m)
  PROVE  MembershipsInv'
<1>1. /\ members' = Removed(members, {m}) /\ ownerships' = Removed(ownerships, OwnershipsOf(m))
      /\ UNCHANGED <<holds, used>>
      /\ \A o \in DOMAIN ownerships : m \notin DOMAIN ownerships[o].splits
      /\ \A o \in OwnershipsOf(m) : o \notin used /\ \A p \in Positions : holds[p] # o
  BY DEF DeleteMember, Deletable, InUse
<1>2. /\ DOMAIN members' = DOMAIN members \ {m}
      /\ DOMAIN ownerships' = DOMAIN ownerships \ OwnershipsOf(m)
      /\ \A x \in DOMAIN ownerships' : ownerships'[x] = ownerships[x]
      /\ \A x \in DOMAIN ownerships' : ownerships[x].member # m
  BY <1>1 DEF Removed, OwnershipsOf
<1>3. ASSUME NEW x \in DOMAIN ownerships'
      PROVE  Alone(ownerships[x])' \/ Divided(ownerships[x])'
  <2>1. /\ ownerships'[x] = ownerships[x] /\ x \in DOMAIN ownerships
        /\ ownerships[x].member # m /\ m \notin DOMAIN ownerships[x].splits
        /\ Alone(ownerships[x]) \/ Divided(ownerships[x])
    BY <1>1, <1>2 DEF MembershipsInv
  <2> QED BY <1>2, <2>1 DEF Alone, Divided
<1>4. ASSUME NEW n \in DOMAIN members'
      PROVE  \E o \in DOMAIN ownerships' :
               ownerships'[o].kind = "individual" /\ ownerships'[o].member = n
  <2>1. PICK o \in DOMAIN ownerships :
          ownerships[o].kind = "individual" /\ ownerships[o].member = n
    BY <1>2 DEF MembershipsInv
  <2>2. o \in DOMAIN ownerships'
    BY <1>2, <2>1 DEF OwnershipsOf
  <2> QED BY <1>2, <2>1, <2>2
<1>5. \A p \in Positions : holds'[p] \in DOMAIN ownerships' \cup {NoOne}
  BY <1>1, <1>2 DEF MembershipsInv
<1> QED
  BY <1>1, <1>2, <1>3, <1>4, <1>5 DEF MembershipsInv

\* Requests that change ownerships and no members.
LEMMA OwnershipStep ==
  ASSUME MembershipsInv, UNCHANGED <<members, holds, used>>,
         DOMAIN ownerships' \subseteq Titles, used \subseteq DOMAIN ownerships',
         \A p \in Positions : holds[p] \in DOMAIN ownerships' \cup {NoOne},
         \A x \in DOMAIN ownerships' : Alone(ownerships'[x]) \/ Divided(ownerships'[x]),
         \A x \in DOMAIN ownerships : ownerships[x].kind = "individual" =>
           x \in DOMAIN ownerships' /\ ownerships'[x] = ownerships[x]
  PROVE  MembershipsInv'
<1>1. ASSUME NEW x \in DOMAIN ownerships'
      PROVE  Alone(ownerships[x])' \/ Divided(ownerships[x])'
  BY DEF Alone, Divided
<1>2. \A m \in DOMAIN members' : \E x \in DOMAIN ownerships' :
        ownerships'[x].kind = "individual" /\ ownerships'[x].member = m
  BY DEF MembershipsInv
<1> QED
  BY <1>1, <1>2 DEF MembershipsInv

LEMMA CreateOwnershipKeeps ==
  ASSUME MembershipsInv, NEW o \in Titles, NEW v, CreateOwnership(o, v)
  PROVE  MembershipsInv'
<1>1. /\ o \notin DOMAIN ownerships /\ ownerships' = Entered(ownerships, o, v)
      /\ UNCHANGED <<members, holds, used>> /\ Valid(v)
  BY NewId, MembershipsAssumption DEF CreateOwnership, MembershipsInv
<1>2. /\ DOMAIN ownerships' = DOMAIN ownerships \cup {o} /\ ownerships'[o] = v
      /\ \A x \in DOMAIN ownerships : ownerships'[x] = ownerships[x]
  BY <1>1 DEF Entered
<1>3. \A x \in DOMAIN ownerships' : Alone(ownerships'[x]) \/ Divided(ownerships'[x])
  BY <1>1, <1>2, ValidDivides DEF MembershipsInv
<1> QED
  BY <1>1, <1>2, <1>3, OwnershipStep DEF MembershipsInv

LEMMA UpdateOwnershipKeeps ==
  ASSUME MembershipsInv, NEW o \in Titles, NEW v, UpdateOwnership(o, v)
  PROVE  MembershipsInv'
<1>1. /\ o \in DOMAIN ownerships /\ ownerships[o].kind = "shared" /\ Valid(v)
      /\ ownerships' = [ownerships EXCEPT ![o] = v] /\ UNCHANGED <<members, holds, used>>
  BY DEF UpdateOwnership, MayBecome, IsShared
<1>2. /\ DOMAIN ownerships' = DOMAIN ownerships /\ ownerships'[o] = v
      /\ \A x \in DOMAIN ownerships \ {o} : ownerships'[x] = ownerships[x]
  BY <1>1
<1>3. \A x \in DOMAIN ownerships' : Alone(ownerships'[x]) \/ Divided(ownerships'[x])
  BY <1>1, <1>2, ValidDivides DEF MembershipsInv
<1> QED
  BY <1>1, <1>2, <1>3, OwnershipStep DEF MembershipsInv

LEMMA DeleteOwnershipKeeps ==
  ASSUME MembershipsInv, NEW o \in Titles, DeleteOwnership(o)
  PROVE  MembershipsInv'
<1>1. /\ o \in DOMAIN ownerships /\ ownerships[o].kind = "shared"
      /\ o \notin used /\ \A p \in Positions : holds[p] # o
      /\ ownerships' = Removed(ownerships, {o}) /\ UNCHANGED <<members, holds, used>>
  BY DEF DeleteOwnership, MayBeDeleted, IsShared, InUse
<1>2. /\ DOMAIN ownerships' = DOMAIN ownerships \ {o}
      /\ \A x \in DOMAIN ownerships' : ownerships'[x] = ownerships[x]
  BY <1>1 DEF Removed
<1>3. \A x \in DOMAIN ownerships' : Alone(ownerships'[x]) \/ Divided(ownerships'[x])
  BY <1>1, <1>2 DEF MembershipsInv
<1> QED
  BY <1>1, <1>2, <1>3, OwnershipStep DEF MembershipsInv

LEMMA MembershipsKept == MembershipsInv /\ [MembershipsNext]_membershipVars => MembershipsInv'
<1> SUFFICES ASSUME MembershipsInv, [MembershipsNext]_membershipVars PROVE MembershipsInv'
  OBVIOUS
<1>1. ASSUME NEW m \in Persons, NEW o \in Titles, NEW role,
             CreateMember(m, o, role) \/ EnsurePrimary(m, o)
      PROVE  MembershipsInv'
  BY <1>1, AddMemberKeeps DEF CreateMember, EnsurePrimary
<1>2. ASSUME NEW m \in Persons, NEW role, ChangeRole(m, role) PROVE MembershipsInv'
  BY <1>2 DEF ChangeRole, MembershipsInv, Alone, Divided
<1>3. ASSUME NEW p \in Positions, NEW o, Link(p, o) PROVE MembershipsInv'
  BY <1>3 DEF Link, MembershipsInv, Alone, Divided
<1>4. ASSUME NEW o \in Titles, Name(o) PROVE MembershipsInv'
  BY <1>4 DEF Name, MembershipsInv, Alone, Divided
<1>5. ASSUME UNCHANGED <<members, ownerships, holds, used>> PROVE MembershipsInv'
  BY <1>5 DEF MembershipsInv, Alone, Divided
<1>6. CASE UNCHANGED membershipVars
  BY <1>5, <1>6 DEF membershipVars
<1>7. ASSUME NEW e \in Earnings, NEW months, Earn(e, months) PROVE MembershipsInv'
  BY <1>5, <1>7 DEF Earn
<1> QED
  BY <1>1, <1>2, <1>3, <1>4, <1>6, <1>7, DeleteMemberKeeps, CreateOwnershipKeeps,
     UpdateOwnershipKeeps, DeleteOwnershipKeeps
  DEF MembershipsNext

LEMMA MembershipsInitially == MembershipsInit => MembershipsInv
BY DEF MembershipsInit, MembershipsInv

\* Whatever members and ownerships are created, changed, linked and deleted, in whatever
\* order, nothing names an ownership that is gone, every ownership is divided as a whole
\* among members there are, and every member can own something alone.
THEOREM OwnersCorrect == MembershipsSpec => []OwnersHold
<1>1. ASSUME MembershipsInv PROVE OwnersHold
  <2>1. used \cup {holds[p] : p \in Positions} \subseteq DOMAIN ownerships \cup {NoOne}
    BY <1>1 DEF MembershipsInv
  <2>2. ASSUME NEW o \in DOMAIN ownerships, NEW splits,
               splits = IF ownerships[o].dynamic THEN ownerships[o].splits
                        ELSE Allocation(ownerships[o])
        PROVE  DOMAIN splits \subseteq DOMAIN members /\ SumUp(splits, DOMAIN splits) = Whole
    <3> DEFINE v == ownerships[o]
    <3>1. CASE Alone(v)
      <4>1. splits = [n \in {v.member} |-> Whole] /\ v.member \in DOMAIN members
        BY <2>2, <3>1 DEF Alone, Allocation
      <4>2. DOMAIN splits = {v.member}
        BY <4>1
      <4> QED BY <4>1, <4>2, SumOfOne
    <3>2. CASE Divided(v)
      <4>1. splits = v.splits
        BY <2>2, <3>2 DEF Divided, Allocation
      <4> QED BY <3>2, <4>1 DEF Divided
    <3> QED BY <1>1, <3>1, <3>2 DEF MembershipsInv
  <2>3. \A m \in DOMAIN members : OwnershipsOf(m) # {}
    BY <1>1 DEF MembershipsInv, OwnershipsOf
  <2> QED BY <2>1, <2>2, <2>3 DEF OwnersHold
<1> QED
  BY <1>1, MembershipsInitially, MembershipsKept, PTL DEF MembershipsSpec
-----------------------------------------------------------------------------
(* Check-ins of closed months *)

SaveVisits ==
  [op : {"save"}, line : BudgetLines, found : AnswerCells \cup {NewRow}, to : AnswerCells,
   at : AnswerCells \cup {NewRow, GoneRow}, row : {AnswerStored(a) : a \in Answers}, late : BOOLEAN]

\* A request is at rest, saves a check-in, or accepts the suggestions of a month.
VisitTyped(r) ==
  \/ r = Quiet
  \/ r \in SaveVisits
  \/ r.op = "accept" /\ DOMAIN r = {"op", "cell", "todo"} /\ r.cell \in AnswerCells

\* A request that brings a check-in to a month that is closed now looked at the month
\* while it was open, or at another one.
LooksElsewhere(r) ==
  r.op = "save" /\ StatusOfClose(r.to) # "draft" /\ ~r.late => r.found \notin {NewRow, r.to}

\* Inductive.
CheckinInv ==
  /\ DOMAIN budget \subseteq BudgetLines
  /\ DOMAIN checkins \subseteq BudgetLines \X AnswerCells
  /\ closed \in [CloseCells -> {"draft", "finalized", "locked"}]
  /\ DOMAIN visit = Visits
  /\ \A v \in Visits : VisitTyped(visit[v])
  /\ \A v \in Visits : LooksElsewhere(visit[v])

LEMMA CellsAreMonths ==
  /\ NewRow \notin AnswerCells
  /\ \A c \in AnswerCells : GoneRow # c
BY BudgetAssumption DEF NewRow, GoneRow

LEMMA OpsDiffer ==
  ASSUME NEW r, VisitTyped(r)
  PROVE  /\ r.op = "save" => r \in SaveVisits
         /\ r.op = "accept" => DOMAIN r = {"op", "cell", "todo"} /\ r.cell \in AnswerCells
BY DEF VisitTyped, Quiet, SaveVisits

\* A month that the guard lets through is open.
LEMMA OpenIsDraft ==
  ASSUME closed \in [CloseCells -> {"draft", "finalized", "locked"}], NEW c, ~ClosedNow(c)
  PROVE  StatusOfClose(c) = "draft"
BY DEF ClosedNow, StatusOfClose

LEMMA CheckinInitially == BudgetInit => CheckinInv
BY DEF BudgetInit, CheckinInv, VisitTyped, LooksElsewhere, Quiet

\* A request that begins to save.
LEMMA BeginSave ==
  ASSUME CheckinInv, NEW v \in Visits, NEW l \in BudgetLines, NEW f \in AnswerCells \cup {NewRow},
         NEW c \in AnswerCells, NEW a \in Answers,
         StatusOfClose(c) # "draft" => f \notin {NewRow, c},
         visit' = [visit EXCEPT ![v] = Save(l, f, c, AnswerStored(a))],
         UNCHANGED <<budget, checkins, closed>>
  PROVE  CheckinInv'
<1> DEFINE r == Save(l, f, c, AnswerStored(a))
<1>1. r \in SaveVisits /\ r.op = "save" /\ r.to = c /\ r.found = f
  BY DEF Save, SaveVisits
<1> HIDE DEF r
<1>2. \A x : LooksElsewhere(x)' <=> LooksElsewhere(x)
  BY DEF LooksElsewhere, StatusOfClose
<1>3. DOMAIN visit' = Visits /\ visit'[v] = r /\ \A w \in Visits \ {v} : visit'[w] = visit[w]
  BY DEF CheckinInv, r
<1>4. VisitTyped(r) /\ LooksElsewhere(r)
  BY <1>1 DEF VisitTyped, LooksElsewhere
<1>5. ASSUME NEW w \in Visits PROVE VisitTyped(visit'[w]) /\ LooksElsewhere(visit'[w])
  BY <1>3, <1>4 DEF CheckinInv
<1>6. \A w \in Visits : VisitTyped(visit[w])' /\ LooksElsewhere(visit[w])'
  BY <1>2, <1>5 DEF VisitTyped, LooksElsewhere, StatusOfClose, CheckinInv
<1> QED
  BY <1>3, <1>6 DEF CheckinInv

\* A request that moves on without another month in view.
Onward(r, s) ==
  \/ s = r \/ s = Quiet
  \/ s.op = "accept" /\ VisitTyped(s)
  \/ r.op = "save" /\ \E at \in AnswerCells \cup {NewRow, GoneRow} : s = [r EXCEPT !.at = at]

LEMMA OnwardKeeps ==
  ASSUME CheckinInv, UNCHANGED closed, NEW v \in Visits, Onward(visit[v], visit'[v])
  PROVE  VisitTyped(visit'[v]) /\ LooksElsewhere(visit[v])'
<1>1. PICK r, s : r = visit[v] /\ s = visit'[v]
  OBVIOUS
<1>2. VisitTyped(r) /\ LooksElsewhere(r) /\ Onward(r, s)
  BY <1>1 DEF CheckinInv
<1>3. VisitTyped(s) /\ LooksElsewhere(s)
  <2>1. CASE s = r \/ s = Quiet
    BY <1>2, <2>1 DEF VisitTyped, LooksElsewhere, Quiet
  <2>2. CASE s.op = "accept" /\ VisitTyped(s)
    BY <2>2 DEF LooksElsewhere
  <2>3. ASSUME r.op = "save", NEW at \in AnswerCells \cup {NewRow, GoneRow}, s = [r EXCEPT !.at = at]
        PROVE  VisitTyped(s) /\ LooksElsewhere(s)
    <3>1. r \in SaveVisits
      BY <1>2, <2>3, OpsDiffer
    <3>2. s \in SaveVisits /\ s.op = r.op /\ s.to = r.to /\ s.found = r.found /\ s.late = r.late
      BY <2>3, <3>1 DEF SaveVisits
    <3> QED BY <1>2, <3>2 DEF VisitTyped, LooksElsewhere
  <2> QED BY <1>2, <2>1, <2>2, <2>3 DEF Onward
<1> QED
  BY <1>1, <1>3 DEF LooksElsewhere, StatusOfClose

LEMMA RequestsMoveOn ==
  ASSUME CheckinInv, UNCHANGED closed,
         DOMAIN budget' \subseteq BudgetLines, DOMAIN checkins' \subseteq BudgetLines \X AnswerCells,
         DOMAIN visit' = Visits, \A v \in Visits : Onward(visit[v], visit'[v])
  PROVE  CheckinInv'
<1>1. \A v \in Visits : VisitTyped(visit[v])' /\ LooksElsewhere(visit[v])'
  BY OnwardKeeps DEF VisitTyped
<1>2. closed' \in [CloseCells -> {"draft", "finalized", "locked"}]
  BY DEF CheckinInv
<1> QED
  BY <1>1, <1>2 DEF CheckinInv

LEMMA LinesKeep ==
  ASSUME CheckinInv,
         \/ \E l \in BudgetLines, s \in LineForms : CreateLine(l, s)
         \/ \E l \in DOMAIN budget : (\E s \in LineForms : EditLine(l, s)) \/ DeleteBudgetLine(l)
         \/ \E l \in DOMAIN budget : \E sum : \E on \in BOOLEAN : PatchLine(l, sum, on)
         \/ \E b \in SlotBookings : BookSlot(b[1], b[2], b[3])
  PROVE  CheckinInv'
<1>1. ASSUME NEW l \in BudgetLines, NEW s, CreateLine(l, s) PROVE CheckinInv'
  <2>1. DOMAIN budget' \subseteq BudgetLines /\ UNCHANGED <<checkins, closed, visit>>
    BY <1>1 DEF CreateLine, WithRow, CheckinInv
  <2> QED BY <2>1, RequestsMoveOn DEF Onward, CheckinInv
<1>2. ASSUME NEW l \in DOMAIN budget, NEW s, Rewrite(l, s) PROVE CheckinInv'
  <2>1. DOMAIN budget' \subseteq BudgetLines /\ UNCHANGED <<checkins, closed, visit>>
    BY <1>2 DEF Rewrite, CheckinInv
  <2> QED BY <2>1, RequestsMoveOn DEF Onward, CheckinInv
<1>3. ASSUME NEW l \in DOMAIN budget, DeleteBudgetLine(l) PROVE CheckinInv'
  <2>1. DOMAIN budget' \subseteq BudgetLines /\ DOMAIN checkins' \subseteq BudgetLines \X AnswerCells
    BY <1>3 DEF DeleteBudgetLine, CheckinInv
  <2>2. DOMAIN visit' = Visits /\ UNCHANGED closed /\ \A v \in Visits : visit'[v] \in {visit[v], Quiet}
    BY <1>3 DEF DeleteBudgetLine
  <2> QED BY <2>1, <2>2, RequestsMoveOn DEF Onward
<1>4. ASSUME NEW s, NEW c, NEW total, BookSlot(s, c, total) PROVE CheckinInv'
  <2>1. UNCHANGED <<budget, checkins, closed, visit>>
    BY <1>4 DEF BookSlot
  <2> QED BY <2>1, RequestsMoveOn DEF Onward, CheckinInv
<1> QED
  BY <1>1, <1>2, <1>3, <1>4 DEF EditLine, PatchLine

\* Saving: the guard, the write and the deletion.
LEMMA StartCreateKeeps ==
  ASSUME CheckinInv, NEW v \in Visits, NEW l \in DOMAIN budget, NEW c \in AnswerCells, NEW a \in Answers,
         StartCreate(v, l, c, a)
  PROVE  CheckinInv'
<1>1. StatusOfClose(c) = "draft"
  BY OpenIsDraft DEF StartCreate, CheckinInv
<1>2. l \in BudgetLines /\ NewRow \in AnswerCells \cup {NewRow}
  BY DEF CheckinInv
<1> QED
  BY <1>1, <1>2, BeginSave DEF StartCreate

LEMMA StartUpdateKeeps ==
  ASSUME CheckinInv, NEW v \in Visits, NEW k \in DOMAIN checkins, NEW c \in AnswerCells, NEW a \in Answers,
         StartUpdate(v, k, c, a)
  PROVE  CheckinInv'
<1>1. k[1] \in BudgetLines /\ k[2] \in AnswerCells
  BY DEF CheckinInv
<1>2. StatusOfClose(k[2]) = "draft"
  BY OpenIsDraft DEF StartUpdate, CheckinInv
<1>3. StatusOfClose(c) # "draft" => k[2] \notin {NewRow, c}
  BY <1>1, <1>2, CellsAreMonths
<1> QED
  BY <1>1, <1>3, BeginSave DEF StartUpdate

LEMMA WriteKeeps ==
  ASSUME CheckinInv, NEW v \in Visits, WriteCheckin(v)
  PROVE  CheckinInv'
<1>1. visit[v] \in SaveVisits
  BY OpsDiffer DEF WriteCheckin, Saving, CheckinInv
<1>2. <<visit[v].line, visit[v].to>> \in BudgetLines \X AnswerCells
  BY <1>1 DEF SaveVisits
<1>3. DOMAIN checkins' \subseteq BudgetLines \X AnswerCells
  BY <1>2 DEF WriteCheckin, WithRow, CheckinInv
<1>4. DOMAIN visit' = Visits /\ UNCHANGED <<budget, closed>>
  BY DEF WriteCheckin, EndVisit, CheckinInv
<1>5. ASSUME NEW w \in Visits PROVE Onward(visit[w], visit'[w])
  BY <1>1 DEF WriteCheckin, EndVisit, Moved, Onward, Saving, SaveVisits, CheckinInv
<1> QED
  BY <1>3, <1>4, <1>5, RequestsMoveOn DEF CheckinInv

LEMMA DeleteCheckinKeeps ==
  ASSUME CheckinInv, NEW k \in DOMAIN checkins, DeleteCheckin(k)
  PROVE  CheckinInv'
<1>1. DOMAIN checkins' \subseteq BudgetLines \X AnswerCells /\ UNCHANGED <<budget, closed>>
  BY DEF DeleteCheckin, CheckinInv
<1>2. DOMAIN visit' = Visits /\ \A w \in Visits : Onward(visit[w], visit'[w])
  BY DEF DeleteCheckin, Moved, Onward, Saving
<1> QED
  BY <1>1, <1>2, RequestsMoveOn DEF CheckinInv

\* Accepting what was suggested.
LEMMA StartAcceptKeeps ==
  ASSUME CheckinInv, NEW v \in Visits, NEW c \in AnswerCells, StartAccept(v, c)
  PROVE  CheckinInv'
<1>1. VisitTyped(Accept(c, Suggested(c))) /\ Accept(c, Suggested(c)).op = "accept"
  BY DEF VisitTyped, Accept
<1>2. DOMAIN visit' = Visits /\ \A w \in Visits : Onward(visit[w], visit'[w])
  BY <1>1 DEF StartAccept, Onward, CheckinInv
<1> QED
  BY <1>2, RequestsMoveOn DEF StartAccept, CheckinInv

LEMMA AcceptRowKeeps ==
  ASSUME CheckinInv, NEW v \in Visits, AcceptRow(v)
  PROVE  CheckinInv'
<1>1. DOMAIN visit[v] = {"op", "cell", "todo"} /\ visit[v].cell \in AnswerCells /\ visit[v].op = "accept"
  BY OpsDiffer DEF AcceptRow, CheckinInv
<1>2. PICK l, k : k = <<l, visit[v].cell>> /\ DOMAIN checkins' \subseteq DOMAIN checkins \cup {k}
                  /\ (l \notin DOMAIN budget => checkins' = checkins)
  BY DEF AcceptRow, WithRow
<1>3. DOMAIN checkins' \subseteq BudgetLines \X AnswerCells
  BY <1>1, <1>2 DEF CheckinInv
<1>4. PICK rest : visit' \in {[visit EXCEPT ![v] = Quiet], [visit EXCEPT ![v] = [@ EXCEPT !.todo = rest]]}
  BY DEF AcceptRow
<1>5. VisitTyped([visit[v] EXCEPT !.todo = rest]) /\ [visit[v] EXCEPT !.todo = rest].op = "accept"
  BY <1>1 DEF VisitTyped
<1>6. DOMAIN visit' = Visits /\ \A w \in Visits : Onward(visit[w], visit'[w])
  BY <1>4, <1>5 DEF Onward, CheckinInv
<1> QED
  BY <1>3, <1>6, RequestsMoveOn DEF AcceptRow, CheckinInv

\* Closes: a month that is finalized marks the requests that are to write to it.
LEMMA FinalizeMonthKeeps ==
  ASSUME CheckinInv, NEW c \in CloseCells, FinalizeMonth(c)
  PROVE  CheckinInv'
<1>1. closed' \in [CloseCells -> {"draft", "finalized", "locked"}] /\ \A d : d # c => StatusOfClose(d)' = StatusOfClose(d)
  BY DEF FinalizeMonth, CheckinInv, StatusOfClose
<1>2. ASSUME NEW v \in Visits PROVE VisitTyped(visit'[v]) /\ LooksElsewhere(visit[v])'
  <2>1. CASE Saving(v) /\ visit[v].to = c
    <3>1. visit'[v] = [visit[v] EXCEPT !.late = TRUE]
      BY <2>1 DEF FinalizeMonth
    <3>2. visit[v] \in SaveVisits
      BY <2>1, OpsDiffer DEF Saving, CheckinInv
    <3>3. visit'[v] \in SaveVisits /\ visit'[v].late
      BY <3>1, <3>2 DEF SaveVisits
    <3> QED BY <3>3 DEF VisitTyped, LooksElsewhere
  <2>2. CASE ~(Saving(v) /\ visit[v].to = c)
    <3>1. visit'[v] = visit[v]
      BY <2>2 DEF FinalizeMonth
    <3> QED BY <1>1, <2>2, <3>1 DEF CheckinInv, LooksElsewhere, Saving
  <2> QED BY <2>1, <2>2
<1>3. \A v \in Visits : VisitTyped(visit[v])' /\ LooksElsewhere(visit[v])'
  BY <1>2 DEF VisitTyped
<1> QED
  BY <1>1, <1>3 DEF FinalizeMonth, CheckinInv

LEMMA OtherClosesKeep ==
  ASSUME CheckinInv, NEW c \in CloseCells, LockMonth(c) \/ ReopenMonth(c)
  PROVE  CheckinInv'
<1>1. closed' \in [CloseCells -> {"draft", "finalized", "locked"}] /\ UNCHANGED <<budget, checkins, visit>>
  BY DEF LockMonth, ReopenMonth, CheckinInv
<1>2. \A d : StatusOfClose(d)' # "draft" => StatusOfClose(d) # "draft"
  BY DEF LockMonth, ReopenMonth, StatusOfClose, CheckinInv
<1>3. ASSUME NEW v \in Visits PROVE VisitTyped(visit[v])' /\ LooksElsewhere(visit[v])'
  BY <1>1, <1>2 DEF VisitTyped, LooksElsewhere, CheckinInv
<1> QED
  BY <1>1, <1>3 DEF CheckinInv

LEMMA CheckinStep == CheckinInv /\ [BudgetNext]_budgetVars => CheckinInv'
<1> SUFFICES ASSUME CheckinInv, [BudgetNext]_budgetVars PROVE CheckinInv'
  OBVIOUS
<1>1. CASE UNCHANGED budgetVars
  BY <1>1, RequestsMoveOn DEF budgetVars, Onward, CheckinInv
<1>2. CASE BudgetNext
  <2>1. CASE \E l \in BudgetLines, s \in LineForms : CreateLine(l, s)
    BY <2>1, LinesKeep
  <2>6. CASE \E l \in DOMAIN budget : (\E s \in LineForms : EditLine(l, s)) \/ DeleteBudgetLine(l)
                              \/ \E sum \in PatchedSums \cup {budget[l].sum}, on \in BOOLEAN : PatchLine(l, sum, on)
    <3>1. PICK l \in DOMAIN budget : \/ \E s \in LineForms : EditLine(l, s)
                                    \/ DeleteBudgetLine(l)
                                    \/ \E sum : \E on \in BOOLEAN : PatchLine(l, sum, on)
      BY <2>6
    <3> QED BY <3>1, LinesKeep
  <2>7. CASE \E b \in SlotBookings : BookSlot(b[1], b[2], b[3])
    BY <2>7, LinesKeep
  <2>2. CASE \E v \in Visits, c \in AnswerCells, a \in Answers :
               \/ \E l \in DOMAIN budget : StartCreate(v, l, c, a)
               \/ \E k \in DOMAIN checkins : StartUpdate(v, k, c, a)
    BY <2>2, StartCreateKeeps, StartUpdateKeeps
  <2>3. CASE \E v \in Visits : WriteCheckin(v) \/ AcceptRow(v) \/ \E c \in AnswerCells : StartAccept(v, c)
    BY <2>3, WriteKeeps, AcceptRowKeeps, StartAcceptKeeps
  <2>4. CASE \E k \in DOMAIN checkins : DeleteCheckin(k)
    BY <2>4, DeleteCheckinKeeps
  <2>5. CASE \E c \in CloseCells : FinalizeMonth(c) \/ LockMonth(c) \/ ReopenMonth(c)
    BY <2>5, FinalizeMonthKeeps, OtherClosesKeep
  <2> QED BY ONLY <1>2, <2>1, <2>2, <2>3, <2>4, <2>5, <2>6, <2>7 DEF BudgetNext
<1> QED
  BY <1>1, <1>2

\* Who wrote a check-in.
LEMMA WrittenBy ==
  ASSUME CheckinInv, BudgetNext, NEW k \in DOMAIN checkins', k \in DOMAIN checkins => checkins'[k] # checkins[k]
  PROVE  \E v \in Visits :
           \/ visit[v].op = "accept" /\ k \notin DOMAIN checkins /\ checkins'[k].status = "estimated"
           \/ Saving(v) /\ visit[v].to = k[2]
<1>1. CASE UNCHANGED checkins
  BY <1>1
<1>2. ASSUME NEW v \in Visits, WriteCheckin(v), ~UNCHANGED checkins
      PROVE  Saving(v) /\ visit[v].to = k[2]
  <2> DEFINE to == <<visit[v].line, visit[v].to>>
             rest == [j \in DOMAIN checkins \ {<<visit[v].line, visit[v].at>>} |-> checkins[j]]
  <2>1. Saving(v) /\ checkins' = WithRow(rest, to, visit[v].row)
    BY <1>2 DEF WriteCheckin
  <2>2. CASE k = to
    BY <2>1, <2>2
  <2>3. CASE k # to
    <3>1. k \in DOMAIN rest /\ checkins'[k] = rest[k]
      BY <2>1, <2>3 DEF WithRow
    <3> QED BY <3>1
  <2> QED BY <2>2, <2>3
<1>3. ASSUME NEW v \in Visits, AcceptRow(v), ~UNCHANGED checkins
      PROVE  visit[v].op = "accept" /\ k \notin DOMAIN checkins /\ checkins'[k].status = "estimated"
  BY <1>3 DEF AcceptRow, WithRow
<1>4. ASSUME NEW l, DeleteBudgetLine(l) PROVE FALSE
  BY <1>4 DEF DeleteBudgetLine
<1>5. ASSUME NEW j, DeleteCheckin(j) PROVE FALSE
  BY <1>5 DEF DeleteCheckin
<1> QED
  BY <1>1, <1>2, <1>3, <1>4, <1>5
  DEF BudgetNext, CreateLine, EditLine, PatchLine, Rewrite, BookSlot, StartCreate, StartUpdate, StartAccept,
      FinalizeMonth, LockMonth, ReopenMonth

\* A check-in of a closed month is written only by a request that found the month open
\* or brings the check-in over from an open one, or as an estimate where there was
\* nothing, however many requests are under way (budget/serializers.py, views.py).
THEOREM CheckinsGuarded == BudgetSpec => ClosedCheckinsGuarded
<1>1. CheckinInv /\ [BudgetNext]_budgetVars =>
        [\A k \in DOMAIN checkins' :
           (StatusOfClose(k[2]) # "draft" /\ (k \in DOMAIN checkins => checkins'[k] # checkins[k]))
             => \E v \in Visits :
                  \/ visit[v].op = "accept" /\ k \notin DOMAIN checkins /\ checkins'[k].status = "estimated"
                  \/ /\ Saving(v) /\ visit[v].to = k[2]
                     /\ visit[v].late \/ visit[v].found \notin {NewRow, k[2]}]_budgetVars
  <2> SUFFICES ASSUME CheckinInv, BudgetNext, NEW k \in DOMAIN checkins', StatusOfClose(k[2]) # "draft",
                      k \in DOMAIN checkins => checkins'[k] # checkins[k]
               PROVE  \E v \in Visits :
                        \/ visit[v].op = "accept" /\ k \notin DOMAIN checkins /\ checkins'[k].status = "estimated"
                        \/ /\ Saving(v) /\ visit[v].to = k[2]
                           /\ visit[v].late \/ visit[v].found \notin {NewRow, k[2]}
    OBVIOUS
  <2>1. \A v \in Visits : Saving(v) /\ visit[v].to = k[2] =>
          visit[v].late \/ visit[v].found \notin {NewRow, k[2]}
    BY DEF CheckinInv, LooksElsewhere, Saving
  <2> QED BY <2>1, WrittenBy
<1> QED
  BY <1>1, CheckinInitially, CheckinStep, PTL DEF BudgetSpec, ClosedCheckinsGuarded
-----------------------------------------------------------------------------
(* Decisions of the financial plan *)

\* What is kept of a decision, and of a line when so many decisions have been issued.
DecisionTyped(r) ==
  /\ DOMAIN r = {"status", "purpose", "term", "scenario", "retired", "adopted"}
  /\ r.status \in {"planned", "occurred"} /\ r.term \subseteq PlanYears
  /\ \A l \in DOMAIN r.adopted : r.adopted[l] \notin 1..MaxEvents
LineFields == {"category", "year", "until", "once", "group", "debtOf", "by"}
LineTyped(r, issued) ==
  /\ DOMAIN r = LineFields
  /\ r.group \in 1..MaxEvents => r.group \in 1..issued
  /\ r.debtOf \in 0..issued

PlanTyped ==
  /\ issuedIds \in 0..MaxEvents /\ Decisions \subseteq 1..issuedIds /\ DOMAIN lines \subseteq 1..MaxLine
  /\ liabilities \in [1..MaxEvents -> Nat]
  /\ \A e \in 1..MaxEvents : e > issuedIds => liabilities[e] = 0
  /\ \A e \in Decisions : DecisionTyped(planned[e])
  /\ \A l \in DOMAIN lines : LineTyped(lines[l], issuedIds)

\* A line of the household that is a decision's is one the decision adopted; a
\* decision that came from a scenario adopted none.
KnowsItsOwn(f, e, r) ==
  /\ r.scenario # {} => DOMAIN r.adopted = {}
  /\ \A l \in DOMAIN f : f[l].group = e /\ f[l].by = "household" => l \in DOMAIN r.adopted

PlanBy(r) == IF r.scenario = {} THEN "plan" ELSE "scenario"

\* The lines that foresee the debt of a decision: its own, one for each year.
Foreseen(f, e, r) ==
  /\ \A l \in DOMAIN f : f[l].debtOf = e => /\ f[l].group = e /\ f[l].category = r.purpose
                                            /\ f[l].by = PlanBy(r) /\ f[l].year \in r.term
  /\ \A y \in r.term : \E l \in DOMAIN f : f[l].debtOf = e /\ f[l].year = y
  /\ \A l, m \in DOMAIN f : f[l].debtOf = e /\ f[m].debtOf = e /\ f[l].year = f[m].year => l = m

DebtStands(f, e, r, owed) ==
  r.retired = 0 =>
    IF r.status = "planned" THEN Foreseen(f, e, r) /\ owed = 0
    ELSE /\ \A l \in DOMAIN f : f[l].debtOf = e => f[l].by \notin {"plan", "scenario"}
         /\ owed = IF r.term = {} THEN 0 ELSE 1

\* Inductive.
PlanInv ==
  /\ PlanTyped
  /\ \A e \in Decisions \ patched :
       KnowsItsOwn(lines, e, planned[e]) /\ DebtStands(lines, e, planned[e], liabilities[e])

\* The lines g that follow f leave the debt and the adopted lines of d alone.
Spares(f, g, d) ==
  /\ \A l \in DOMAIN f : f[l].debtOf = d /\ f[l].group = d => l \in DOMAIN g /\ g[l] = f[l]
  /\ \A l \in DOMAIN g : g[l].debtOf = d =>
       \/ l \in DOMAIN f /\ f[l].debtOf = d /\ g[l].by = f[l].by /\ (f[l].group = d => g[l] = f[l])
       \/ g[l].by = "remainder" /\ \E m \in DOMAIN f : f[m].debtOf = d /\ f[m].group # d
  /\ \A l \in DOMAIN g : g[l].group = d /\ g[l].by = "household" =>
       l \in DOMAIN f /\ f[l].group = d /\ f[l].by = "household"

LEMMA SparedStands ==
  ASSUME NEW f, NEW g, NEW d, NEW r, NEW owed, Spares(f, g, d), KnowsItsOwn(f, d, r), DebtStands(f, d, r, owed)
  PROVE  KnowsItsOwn(g, d, r) /\ DebtStands(g, d, r, owed)
<1>1. KnowsItsOwn(g, d, r)
  BY DEF KnowsItsOwn, Spares
<1>2. ASSUME r.retired = 0, r.status = "planned" PROVE Foreseen(g, d, r) /\ owed = 0
  <2>1. Foreseen(f, d, r) /\ owed = 0
    BY <1>2 DEF DebtStands
  <2>2. \A l : l \in DOMAIN f /\ f[l].debtOf = d <=> l \in DOMAIN g /\ g[l].debtOf = d
    BY <2>1 DEF Foreseen, Spares
  <2>3. \A l \in DOMAIN f : f[l].debtOf = d => g[l] = f[l]
    BY <2>1 DEF Foreseen, Spares
  <2> QED BY <2>1, <2>2, <2>3 DEF Foreseen
<1>3. ASSUME r.retired = 0, r.status # "planned"
      PROVE  /\ \A l \in DOMAIN g : g[l].debtOf = d => g[l].by \notin {"plan", "scenario"}
             /\ owed = IF r.term = {} THEN 0 ELSE 1
  BY <1>3 DEF DebtStands, Spares
<1> QED
  BY <1>1, <1>2, <1>3 DEF DebtStands

\* What is said of a step by OwnLinesStay.
OwnLinesKept ==
  \A l \in DOMAIN lines \ DOMAIN lines' :
       LET e == lines[l].group IN
       lines[l].by = "household" /\ Managed(l) /\ e \notin patched =>
         /\ e \in Decisions'
         /\ \/ planned'[e].retired # planned[e].retired
            \/ /\ planned[e].status = "planned" /\ planned'[e].status = "occurred"
               /\ lines[l].category = planned[e].purpose /\ planned[e].term # {}

\* A step is about one decision and spares the others.
LEMMA OneDecision ==
  ASSUME PlanInv, PlanTyped', NEW e,
         \A d \in (Decisions \ patched)' : d # e =>
           /\ d \in Decisions \ patched /\ planned'[d] = planned[d] /\ liabilities'[d] = liabilities[d]
           /\ Spares(lines, lines', d),
         e \in (Decisions \ patched)' =>
           KnowsItsOwn(lines', e, planned'[e]) /\ DebtStands(lines', e, planned'[e], liabilities'[e])
  PROVE  PlanInv'
<1>1. ASSUME NEW d \in (Decisions \ patched)'
      PROVE  KnowsItsOwn(lines', d, planned'[d]) /\ DebtStands(lines', d, planned'[d], liabilities'[d])
  <2>1. CASE d = e
    BY <2>1
  <2>2. CASE d # e
    <3>1. d \in Decisions \ patched /\ planned'[d] = planned[d] /\ liabilities'[d] = liabilities[d]
      BY <2>2
    <3>2. KnowsItsOwn(lines, d, planned[d]) /\ DebtStands(lines, d, planned[d], liabilities[d])
      BY <3>1 DEF PlanInv
    <3>3. Spares(lines, lines', d)
      BY <2>2
    <3>4. PICK f, g, r, owed : f = lines /\ g = lines' /\ r = planned[d] /\ owed = liabilities[d]
      OBVIOUS
    <3>5. Spares(f, g, d) /\ KnowsItsOwn(f, d, r) /\ DebtStands(f, d, r, owed)
      BY <3>2, <3>3, <3>4
    <3>6. KnowsItsOwn(g, d, r) /\ DebtStands(g, d, r, owed)
      BY ONLY <3>5, SparedStands
    <3> QED BY <3>1, <3>4, <3>6
  <2> QED BY <2>1, <2>2
<1>2. \A d \in (Decisions \ patched)' :
        KnowsItsOwn(lines, d, planned[d])' /\ DebtStands(lines, d, planned[d], liabilities[d])'
  BY <1>1 DEF KnowsItsOwn, DebtStands, Foreseen
<1> QED
  BY <1>2 DEF PlanInv

\* Rows are added under identities of their own, each of them once.
Adds(f, rows, g) ==
  /\ DOMAIN f \subseteq DOMAIN g /\ \A l \in DOMAIN f : g[l] = f[l]
  /\ \A l \in DOMAIN g \ DOMAIN f : g[l] \in rows
  /\ \A row \in rows : \E l \in DOMAIN g \ DOMAIN f : g[l] = row
  /\ \A l, m \in DOMAIN g \ DOMAIN f : g[l] = g[m] => l = m

LEMMA AppendedAdds ==
  ASSUME NEW f, NEW n \in Nat, DOMAIN f \subseteq 1..n, NEW rows, IsFiniteSet(rows)
  PROVE  Adds(f, rows, Appended(f, rows))
<1> DEFINE row == SetToSeq(rows)
           first == FirstId(f)
           k == Cardinality(rows)
           g == Appended(f, rows)
<1>1. k \in Nat /\ ExistsBijection(1..k, rows)
  BY FS_CountingElements, FS_CardinalityType
<1>2. \E h \in [1..k -> rows] : IsInjective(h)
  BY <1>1 DEF ExistsBijection, Bijection, Injection
<1>3. row \in [1..k -> rows] /\ IsInjective(row)
  BY <1>2 DEF SetToSeq
<1>4. row \in Surjection(1..k, rows)
  <2>1. row \in Injection(1..k, rows)
    BY <1>3 DEF Injection
  <2>2. Cardinality(1..k) = k
    BY <1>1, FS_Interval
  <2> QED BY <2>1, <2>2, FS_Injection
<1>5. first \in Nat /\ \A l \in DOMAIN f : l < first
  <2>1. DOMAIN f \cup {0} \in SUBSET Nat /\ DOMAIN f \cup {0} # {} /\ \A l \in DOMAIN f \cup {0} : l <= n
    OBVIOUS
  <2>2. Max(DOMAIN f \cup {0}) \in DOMAIN f \cup {0} /\ \A l \in DOMAIN f \cup {0} : l <= Max(DOMAIN f \cup {0})
    BY <2>1, GreatestNatural
  <2>3. PICK top \in Nat : top = Max(DOMAIN f \cup {0}) /\ \A l \in DOMAIN f : l <= top /\ l \in Nat
    BY <2>1, <2>2
  <2> QED BY <2>3 DEF FirstId
<1>6. Len(row) = k
  <2>1. row \in Seq(rows)
    BY <1>1, <1>3
  <2>2. DOMAIN row = 1..Len(row) /\ DOMAIN row = 1..k /\ Len(row) \in Nat
    BY <1>3, <2>1
  <2> QED BY <1>1, <2>2
<1>7. DOMAIN g = DOMAIN f \cup (first..(first + k - 1))
  BY <1>6 DEF Appended
<1>8. \A l \in DOMAIN f : g[l] = f[l]
  BY <1>7 DEF Appended
<1>9. \A i \in 1..k : first + i - 1 \in DOMAIN g \ DOMAIN f /\ g[first + i - 1] = row[i]
  <2> SUFFICES ASSUME NEW i \in 1..k
               PROVE  first + i - 1 \in DOMAIN g \ DOMAIN f /\ g[first + i - 1] = row[i]
    OBVIOUS
  <2>1. PICK low \in Nat, high \in Nat : low = first /\ high = k
    BY <1>1, <1>5
  <2>2. i \in 1..high
    BY <2>1
  <2>3. PICK j \in Nat : j = low + i - 1
    BY <2>2
  <2>4. j \in low..(low + high - 1) /\ j - low + 1 = i
    BY <2>2, <2>3
  <2>5. j = first + i - 1 /\ j \in first..(first + k - 1) /\ j - first + 1 = i
    BY <2>1, <2>3, <2>4
  <2>6. j \in DOMAIN g /\ j \notin DOMAIN f
    BY <1>5, <1>7, <2>5
  <2>7. g[j] = row[j - first + 1]
    BY <1>6, <2>6 DEF Appended
  <2> QED BY <2>5, <2>6, <2>7
<1>10. ASSUME NEW l \in DOMAIN g \ DOMAIN f PROVE \E i \in 1..k : l = first + i - 1
  <2>1. l \in first..(first + k - 1)
    BY <1>7
  <2>2. l - first + 1 \in 1..k /\ l = first + (l - first + 1) - 1
    BY <1>1, <1>5, <2>1
  <2> QED BY <2>2
<1> HIDE DEF row, first, k, g
<1>11. \A l \in DOMAIN g \ DOMAIN f : g[l] \in rows
  BY <1>3, <1>9, <1>10
<1>12. ASSUME NEW r \in rows PROVE \E l \in DOMAIN g \ DOMAIN f : g[l] = r
  <2>1. PICK i \in 1..k : row[i] = r
    BY <1>4 DEF Surjection
  <2> QED BY <1>9, <2>1
<1>13. ASSUME NEW l \in DOMAIN g \ DOMAIN f, NEW m \in DOMAIN g \ DOMAIN f, g[l] = g[m] PROVE l = m
  <2>1. PICK i \in 1..k : l = first + i - 1
    BY <1>10
  <2>2. PICK j \in 1..k : m = first + j - 1
    BY <1>10
  <2>3. row[i] = row[j]
    BY <1>9, <1>13, <2>1, <2>2
  <2>4. i = j
    BY <1>3, <2>3 DEF IsInjective
  <2> QED BY <2>1, <2>2, <2>4
<1>14. Adds(f, rows, g)
  BY <1>7, <1>8, <1>11, <1>12, <1>13 DEF Adds
<1> QED
  BY <1>14 DEF g

LEMMA PlanBounds ==
  /\ MaxEvents \in Nat /\ MaxEvents <= 900 /\ MaxLine \in Nat
  /\ \A term \in SUBSET PlanYears : IsFiniteSet(term)
  /\ \A y \in PlanYears : y \in 1..98
<1>1. PlanYears \subseteq 1..98
  BY PlanAssumption DEF Always
<1>2. IsFiniteSet(1..98)
  <2>1. PICK n \in Nat : n = 98
    OBVIOUS
  <2>2. IsFiniteSet(1..n)
    BY FS_Interval
  <2> QED BY <2>1, <2>2
<1>3. \A term \in SUBSET PlanYears : IsFiniteSet(term)
  <2> SUFFICES ASSUME NEW term \in SUBSET PlanYears PROVE IsFiniteSet(term)
    OBVIOUS
  <2>1. term \subseteq 1..98
    BY <1>1
  <2> QED BY <1>2, <2>1, FS_Subset
<1>4. MaxEvents \in Nat /\ MaxEvents <= 900 /\ MaxLine \in Nat
  BY PlanAssumption
<1> QED
  BY <1>1, <1>3, <1>4

\* Lines of a debt, one for each year.
LEMMA DebtLinesAdd ==
  ASSUME NEW f, DOMAIN f \subseteq 1..MaxLine, NEW e, NEW purpose, NEW term \in SUBSET PlanYears,
         NEW group, NEW by, NEW rows, rows = {DebtLine(e, purpose, y, group, by) : y \in term}
  PROVE  /\ Adds(f, rows, Appended(f, rows))
         /\ \A row \in rows :
              /\ DOMAIN row = LineFields /\ row.debtOf = e /\ row.group = group /\ row.by = by
              /\ row.category = purpose /\ row.year \in term
              /\ row = DebtLine(e, purpose, row.year, group, by)
         /\ \A y \in term : DebtLine(e, purpose, y, group, by) \in rows /\ DebtLine(e, purpose, y, group, by).year = y
<1>1. IsFiniteSet(rows)
  <2> DEFINE line == [y \in term |-> DebtLine(e, purpose, y, group, by)]
  <2>1. rows = {line[y] : y \in term}
    OBVIOUS
  <2>2. IsFiniteSet(term)
    BY PlanBounds
  <2> HIDE DEF line
  <2> QED BY <2>1, <2>2, FiniteImage
<1>2. Adds(f, rows, Appended(f, rows))
  BY <1>1, PlanBounds, AppendedAdds
<1>3. ASSUME NEW row \in rows
      PROVE  /\ DOMAIN row = LineFields /\ row.debtOf = e /\ row.group = group /\ row.by = by
             /\ row.category = purpose /\ row.year \in term
             /\ row = DebtLine(e, purpose, row.year, group, by)
  BY DEF DebtLine, LineFields
<1>4. \A y \in term : DebtLine(e, purpose, y, group, by) \in rows /\ DebtLine(e, purpose, y, group, by).year = y
  BY DEF DebtLine
<1> QED
  BY <1>2, <1>3, <1>4

\* The forecast of a decision, in a budget without a line of its debt.
LEMMA ForecastStands ==
  ASSUME NEW f, DOMAIN f \subseteq 1..MaxLine, NEW e, \A l \in DOMAIN f : f[l].debtOf # e,
         NEW purpose, NEW term \in SUBSET PlanYears, NEW by, NEW r,
         r.purpose = purpose, r.term = term, PlanBy(r) = by,
         NEW g, g = Appended(f, Forecast(e, purpose, term, by))
  PROVE  Foreseen(g, e, r)
<1> DEFINE rows == Forecast(e, purpose, term, by)
<1>1. /\ Adds(f, rows, g)
      /\ \A row \in rows :
              /\ DOMAIN row = LineFields /\ row.debtOf = e /\ row.group = e /\ row.by = by
              /\ row.category = purpose /\ row.year \in term
              /\ row = DebtLine(e, purpose, row.year, e, by)
      /\ \A y \in term : DebtLine(e, purpose, y, e, by) \in rows /\ DebtLine(e, purpose, y, e, by).year = y
  <2>1. rows = {DebtLine(e, purpose, y, e, by) : y \in term}
    BY DEF Forecast
  <2> HIDE DEF rows
  <2>2. PICK all, group : all = rows /\ group = e
    OBVIOUS
  <2>3. all = {DebtLine(e, purpose, y, group, by) : y \in term}
    BY <2>1, <2>2
  <2>5. /\ Adds(f, all, Appended(f, all))
        /\ \A row \in all :
              /\ DOMAIN row = LineFields /\ row.debtOf = e /\ row.group = group /\ row.by = by
              /\ row.category = purpose /\ row.year \in term
              /\ row = DebtLine(e, purpose, row.year, group, by)
        /\ \A y \in term : DebtLine(e, purpose, y, group, by) \in all /\ DebtLine(e, purpose, y, group, by).year = y
    BY <2>3, DebtLinesAdd
  <2>4. g = Appended(f, rows)
    BY DEF rows
  <2> QED BY <2>2, <2>4, <2>5
<1> HIDE DEF rows
<1>5. DOMAIN f \subseteq DOMAIN g /\ \A l \in DOMAIN f : g[l] = f[l]
  BY <1>1 DEF Adds
<1>6. \A l \in DOMAIN g \ DOMAIN f : g[l] \in rows
  BY <1>1 DEF Adds
<1>7. \A l \in DOMAIN g : g[l].debtOf = e => l \in DOMAIN g \ DOMAIN f
  BY <1>5
<1>8. \A y \in term : \E l \in DOMAIN g : g[l].debtOf = e /\ g[l].year = y
  <2> SUFFICES ASSUME NEW y \in term PROVE \E l \in DOMAIN g : g[l].debtOf = e /\ g[l].year = y
    OBVIOUS
  <2>1. PICK l \in DOMAIN g \ DOMAIN f : g[l] = DebtLine(e, purpose, y, e, by)
    BY <1>1 DEF Adds
  <2> QED BY <1>1, <1>6, <2>1
<1>9. ASSUME NEW l \in DOMAIN g, NEW m \in DOMAIN g, g[l].debtOf = e, g[m].debtOf = e, g[l].year = g[m].year
      PROVE  l = m
  <2>1. l \in DOMAIN g \ DOMAIN f /\ m \in DOMAIN g \ DOMAIN f
    BY <1>7, <1>9
  <2>2. g[l] = g[m]
    BY <1>1, <1>6, <1>9, <2>1
  <2> QED BY <1>1, <2>1, <2>2 DEF Adds
<1> QED
  BY <1>1, <1>6, <1>7, <1>8, <1>9 DEF Foreseen

\* What a forecast adds.
LEMMA ForecastAdds ==
  ASSUME NEW f, DOMAIN f \subseteq 1..MaxLine, NEW e, NEW purpose, NEW term \in SUBSET PlanYears, NEW by,
         NEW g, g = Appended(f, Forecast(e, purpose, term, by))
  PROVE  /\ DOMAIN f \subseteq DOMAIN g
         /\ \A l \in DOMAIN f : g[l] = f[l]
         /\ \A l \in DOMAIN g \ DOMAIN f :
              DOMAIN g[l] = LineFields /\ g[l].debtOf = e /\ g[l].group = e /\ g[l].by = by
<1>1. PICK rows, group : rows = {DebtLine(e, purpose, y, e, by) : y \in term} /\ group = e
  OBVIOUS
<1>2. g = Appended(f, rows) /\ rows = {DebtLine(e, purpose, y, group, by) : y \in term}
  BY <1>1 DEF Forecast
<1>3. Adds(f, rows, g) /\ \A row \in rows : DOMAIN row = LineFields /\ row.debtOf = e /\ row.group = group /\ row.by = by
  BY <1>2, DebtLinesAdd
<1> QED
  BY <1>1, <1>3 DEF Adds

\* A decision yet to be issued has no line and no liability.
LEMMA NotIssuedYet ==
  ASSUME PlanInv, NEW e \in 1..MaxEvents, NewDecision(e)
  PROVE  /\ e = issuedIds + 1 /\ e \notin Decisions /\ liabilities[e] = 0
         /\ issuedIds' = e /\ 1..issuedIds \subseteq 1..e
         /\ \A l \in DOMAIN lines : lines[l].debtOf # e /\ lines[l].group # e
<1>1. issuedIds \in Nat /\ e = issuedIds + 1 /\ issuedIds' = e
  BY PlanBounds DEF PlanInv, PlanTyped, NewDecision
<1> QED
  BY <1>1, PlanBounds DEF PlanInv, PlanTyped, LineTyped

LEMMA AcceptScenarioKeeps ==
  ASSUME PlanInv, NEW e \in 1..MaxEvents, NEW s \in Drafts, NEW purpose, NEW term \in Terms,
         AcceptScenario(e, s, purpose, term)
  PROVE  PlanInv' /\ OwnLinesKept
<1> DEFINE r == [status |-> "planned", purpose |-> purpose, term |-> term, scenario |-> {s},
                 retired |-> 0, adopted |-> <<>>]
<1>1. /\ e = issuedIds + 1 /\ e \notin Decisions /\ liabilities[e] = 0
      /\ issuedIds' = e /\ 1..issuedIds \subseteq 1..e
      /\ \A l \in DOMAIN lines : lines[l].debtOf # e /\ lines[l].group # e
  BY NotIssuedYet DEF AcceptScenario
<1>2. term \in SUBSET PlanYears /\ DOMAIN lines \subseteq 1..MaxLine
  BY PlanAssumption DEF PlanInv, PlanTyped
<1>3. r.purpose = purpose /\ r.term = term /\ PlanBy(r) = "scenario" /\ DecisionTyped(r) /\ DOMAIN r.adopted = {}
  BY <1>2 DEF PlanBy, DecisionTyped
<1>4. /\ lines' = Appended(lines, Forecast(e, purpose, term, "scenario")) /\ DOMAIN lines' \subseteq 1..MaxLine
      /\ planned' = WithDecision(e, r) /\ UNCHANGED <<liabilities, patched>>
  BY DEF AcceptScenario, Bounded
<1>5. /\ Foreseen(lines', e, r)
      /\ DOMAIN lines \subseteq DOMAIN lines'
      /\ \A l \in DOMAIN lines : lines'[l] = lines[l]
      /\ \A l \in DOMAIN lines' \ DOMAIN lines :
              /\ DOMAIN lines'[l] = LineFields
              /\ lines'[l].debtOf = e /\ lines'[l].group = e /\ lines'[l].by = "scenario"
  <2>1. PICK f, g : f = lines /\ g = lines'
    OBVIOUS
  <2> HIDE DEF r
  <2> QED BY <1>1, <1>2, <1>3, <1>4, <2>1, ForecastStands, ForecastAdds
<1>6. Decisions' = Decisions \cup {e} /\ planned'[e] = r /\ \A d \in Decisions : planned'[d] = planned[d]
  BY <1>1, <1>4 DEF WithDecision, Decisions
<1> HIDE DEF r
<1>7. PlanTyped'
  <2>1. issuedIds' \in 0..MaxEvents /\ Decisions' \subseteq 1..issuedIds'
    BY <1>1, <1>6, PlanBounds DEF PlanInv, PlanTyped
  <2>2. \A d \in 1..MaxEvents : d > issuedIds' => liabilities'[d] = 0
    BY <1>1, <1>4, PlanBounds DEF PlanInv, PlanTyped
  <2>3. \A d \in Decisions' : DecisionTyped(planned'[d])
    BY <1>3, <1>6 DEF PlanInv, PlanTyped
  <2>4. ASSUME NEW l \in DOMAIN lines' PROVE LineTyped(lines'[l], issuedIds')
    <3>1. CASE l \in DOMAIN lines
      BY <1>1, <1>5, <3>1, PlanBounds DEF PlanInv, PlanTyped, LineTyped
    <3>2. CASE l \notin DOMAIN lines
      BY <1>1, <1>5, <3>2, PlanBounds DEF LineTyped, LineFields
    <3> QED BY <3>1, <3>2
  <2> QED BY <1>4, <2>1, <2>2, <2>3, <2>4 DEF PlanInv, PlanTyped, DecisionTyped, LineTyped
<1>8. \A d \in (Decisions \ patched)' : d # e =>
           /\ d \in Decisions \ patched /\ planned'[d] = planned[d] /\ liabilities'[d] = liabilities[d]
           /\ Spares(lines, lines', d)
  BY <1>4, <1>5, <1>6 DEF Spares
<1>9. KnowsItsOwn(lines', e, planned'[e]) /\ DebtStands(lines', e, planned'[e], liabilities'[e])
  <2>1. KnowsItsOwn(lines', e, r)
    BY <1>1, <1>3, <1>5 DEF KnowsItsOwn
  <2>2. DebtStands(lines', e, r, 0)
    BY <1>5 DEF DebtStands, r
  <2> QED BY <1>1, <1>4, <1>6, <2>1, <2>2
<1> QED
  BY <1>5, <1>7, <1>8, <1>9, OneDecision DEF OwnLinesKept

LEMMA RegisterKeeps ==
  ASSUME PlanInv, NEW e \in 1..MaxEvents, NEW S \in SUBSET DOMAIN lines, NEW purpose, NEW term \in SUBSET PlanYears,
         NEW status \in {"planned", "occurred"}, status = "occurred" => term = {},
         Register(e, S, status, purpose, term)
  PROVE  PlanInv' /\ OwnLinesKept
<1> DEFINE r == [status |-> status, purpose |-> purpose, term |-> term, scenario |-> {},
                 retired |-> 0, adopted |-> [l \in S |-> lines[l].group]]
           f == Adopted(e, S)
<1>1. /\ e = issuedIds + 1 /\ e \notin Decisions /\ liabilities[e] = 0
      /\ issuedIds' = e /\ 1..issuedIds \subseteq 1..e
      /\ \A l \in DOMAIN lines : lines[l].debtOf # e /\ lines[l].group # e
  BY NotIssuedYet DEF Register
<1>2. DOMAIN lines \subseteq 1..MaxLine
  BY DEF PlanInv, PlanTyped
<1>3. \A l \in S : lines[l].group \notin 1..MaxEvents
  BY DEF Register, Adoptable, Claimed
<1>4. r.purpose = purpose /\ r.term = term /\ PlanBy(r) = "plan" /\ DecisionTyped(r) /\ DOMAIN r.adopted = S
      /\ r.scenario = {} /\ r.retired = 0 /\ r.status = status
  BY <1>3 DEF PlanBy, DecisionTyped
<1>5. /\ lines' = Appended(f, IF status = "planned" THEN Forecast(e, purpose, term, "plan") ELSE {})
      /\ DOMAIN lines' \subseteq 1..MaxLine
      /\ planned' = WithDecision(e, r) /\ UNCHANGED <<liabilities, patched>>
  BY DEF Register, Bounded
<1>6. /\ DOMAIN f = DOMAIN lines
      /\ \A l \in DOMAIN lines \ S : f[l] = lines[l]
      /\ \A l \in S : f[l] = [lines[l] EXCEPT !.group = e]
  BY DEF Adopted
<1>7. \A l \in S : /\ DOMAIN f[l] = LineFields /\ f[l].group = e /\ f[l].debtOf = lines[l].debtOf /\ f[l].by = lines[l].by
  BY <1>6 DEF PlanInv, PlanTyped, LineTyped, LineFields
<1> HIDE DEF r, f
<1>8. \A l \in DOMAIN f : f[l].debtOf # e
  BY <1>1, <1>6, <1>7
<1>9. /\ DOMAIN f \subseteq DOMAIN lines'
      /\ \A l \in DOMAIN f : lines'[l] = f[l]
      /\ \A l \in DOMAIN lines' \ DOMAIN f :
           DOMAIN lines'[l] = LineFields /\ lines'[l].debtOf = e /\ lines'[l].group = e /\ lines'[l].by = "plan"
      /\ DebtStands(lines', e, r, 0)
  <2>1. CASE status = "planned"
    <3>1. lines' = Appended(f, Forecast(e, purpose, term, "plan"))
      BY <1>5, <2>1
    <3>2. PICK g : g = lines'
      OBVIOUS
    <3>3. /\ Foreseen(g, e, r)
          /\ DOMAIN f \subseteq DOMAIN g
          /\ \A l \in DOMAIN f : g[l] = f[l]
          /\ \A l \in DOMAIN g \ DOMAIN f :
               DOMAIN g[l] = LineFields /\ g[l].debtOf = e /\ g[l].group = e /\ g[l].by = "plan"
      BY <1>2, <1>4, <1>6, <1>8, <3>1, <3>2, ForecastStands, ForecastAdds
    <3> QED BY <1>4, <2>1, <3>2, <3>3 DEF DebtStands
  <2>2. CASE status # "planned"
    <3>1. lines' = Appended(f, {})
      BY <1>5, <2>2
    <3>2. Adds(f, {}, lines')
      BY <1>2, <1>6, <3>1, PlanBounds, AppendedAdds, FS_EmptySet
    <3>3. DOMAIN f \subseteq DOMAIN lines' /\ DOMAIN lines' \subseteq DOMAIN f /\ \A l \in DOMAIN f : lines'[l] = f[l]
      BY <3>2 DEF Adds
    <3>4. DebtStands(lines', e, r, 0)
      BY <1>4, <1>8, <2>2, <3>3 DEF DebtStands
    <3> QED BY <3>3, <3>4
  <2> QED BY <2>1, <2>2
<1>10. Decisions' = Decisions \cup {e} /\ planned'[e] = r /\ \A d \in Decisions : planned'[d] = planned[d]
  BY <1>1, <1>5 DEF WithDecision, Decisions
<1>11. PlanTyped'
  <2>1. issuedIds' \in 0..MaxEvents /\ Decisions' \subseteq 1..issuedIds'
    BY <1>1, <1>10, PlanBounds DEF PlanInv, PlanTyped
  <2>2. \A d \in 1..MaxEvents : d > issuedIds' => liabilities'[d] = 0
    BY <1>1, <1>5, PlanBounds DEF PlanInv, PlanTyped
  <2>3. \A d \in Decisions' : DecisionTyped(planned'[d])
    BY <1>4, <1>10 DEF PlanInv, PlanTyped
  <2>4. ASSUME NEW l \in DOMAIN lines' PROVE LineTyped(lines'[l], issuedIds')
    <3>1. CASE l \in S
      BY <1>1, <1>6, <1>7, <1>9, <3>1, PlanBounds DEF PlanInv, PlanTyped, LineTyped
    <3>2. CASE l \in DOMAIN lines \ S
      BY <1>1, <1>6, <1>9, <3>2, PlanBounds DEF PlanInv, PlanTyped, LineTyped
    <3>3. CASE l \notin DOMAIN lines
      BY <1>1, <1>6, <1>9, <3>3, PlanBounds DEF LineTyped
    <3> QED BY <3>1, <3>2, <3>3
  <2> QED BY <1>5, <2>1, <2>2, <2>3, <2>4 DEF PlanInv, PlanTyped, DecisionTyped, LineTyped
<1>12. ASSUME NEW d \in (Decisions \ patched)', d # e
       PROVE  /\ d \in Decisions \ patched /\ planned'[d] = planned[d] /\ liabilities'[d] = liabilities[d]
              /\ Spares(lines, lines', d)
  <2>1. d \in Decisions \ patched /\ planned'[d] = planned[d] /\ liabilities'[d] = liabilities[d]
    BY <1>5, <1>10, <1>12
  <2>3. d \in 1..MaxEvents
    <3>1. d \in 1..issuedIds /\ issuedIds \in 0..MaxEvents
      BY <2>1 DEF PlanInv, PlanTyped
    <3> QED BY <3>1, PlanBounds
  <2>2. Spares(lines, lines', d)
    BY <1>3, <1>6, <1>7, <1>9, <1>12, <2>1, <2>3 DEF Spares
  <2> QED BY <2>1, <2>2
<1>13. KnowsItsOwn(lines', e, planned'[e]) /\ DebtStands(lines', e, planned'[e], liabilities'[e])
  <2>1. KnowsItsOwn(lines', e, r)
    BY <1>1, <1>4, <1>6, <1>7, <1>9 DEF KnowsItsOwn
  <2> QED BY <1>1, <1>5, <1>9, <1>10, <2>1
<1> QED
  BY <1>6, <1>9, <1>11, <1>12, <1>13, OneDecision DEF OwnLinesKept

LEMMA EditDecisionKeeps ==
  ASSUME PlanInv, NEW e \in 1..MaxEvents, NEW purpose, NEW term \in SUBSET PlanYears,
         EditDecision(e, purpose, term)
  PROVE  PlanInv' /\ OwnLinesKept
<1> DEFINE r == planned'[e]
           by == PlanBy(planned[e])
           gone == IF planned[e].scenario # {} THEN LinesOf(e) ELSE FinancingOf(e)
           f == Dropped(lines, gone)
<1>1. /\ e \in Decisions /\ planned[e].status = "planned"
      /\ planned' = [planned EXCEPT ![e].purpose = purpose, ![e].term = term]
      /\ UNCHANGED <<issuedIds, liabilities, patched>> /\ DOMAIN lines' \subseteq 1..MaxLine
      /\ lines' = Appended(f, Forecast(e, purpose, term, by))
  BY DEF EditDecision, Bounded, Regenerated, PlanBy
<1>2. DOMAIN lines \subseteq 1..MaxLine /\ DecisionTyped(planned[e])
  BY <1>1 DEF PlanInv, PlanTyped
<1>3. /\ DOMAIN r = DOMAIN planned[e] /\ r.purpose = purpose /\ r.term = term /\ r.status = planned[e].status
      /\ r.scenario = planned[e].scenario /\ r.retired = planned[e].retired /\ r.adopted = planned[e].adopted
  BY <1>1, <1>2 DEF DecisionTyped, Decisions
<1>4. PlanBy(r) = by
  BY <1>3 DEF PlanBy
<1>5. Decisions' = Decisions /\ \A d \in Decisions \ {e} : planned'[d] = planned[d]
  BY <1>1 DEF Decisions
<1>6. gone \subseteq LinesOf(e) /\ LinesOf(e) = {l \in DOMAIN lines : lines[l].group = e}
  BY DEF LinesOf, FinancingOf
<1>7. DOMAIN f = DOMAIN lines \ gone /\ \A l \in DOMAIN f : f[l] = lines[l]
  BY DEF Dropped
<1>8. \A l \in gone : lines[l].by = "plan" \/ planned[e].scenario # {}
  BY DEF FinancingOf
<1>9. \A l \in LinesOf(e) : lines[l].by = by => l \in gone
  BY DEF FinancingOf, PlanBy
<1> HIDE DEF r, by, gone, f
<1>10. /\ DOMAIN f \subseteq DOMAIN lines'
       /\ \A l \in DOMAIN f : lines'[l] = f[l]
       /\ \A l \in DOMAIN lines' \ DOMAIN f :
            DOMAIN lines'[l] = LineFields /\ lines'[l].debtOf = e /\ lines'[l].group = e /\ lines'[l].by = by
  <2>1. PICK g : g = lines'
    OBVIOUS
  <2>2. /\ DOMAIN f \subseteq DOMAIN g
        /\ \A l \in DOMAIN f : g[l] = f[l]
        /\ \A l \in DOMAIN g \ DOMAIN f :
             DOMAIN g[l] = LineFields /\ g[l].debtOf = e /\ g[l].group = e /\ g[l].by = by
    BY <1>1, <1>2, <1>7, <2>1, ForecastAdds
  <2> QED BY <2>1, <2>2
<1>11. by \in {"plan", "scenario"}
  BY DEF by, PlanBy
<1>12. PlanTyped'
  <2>1. issuedIds' \in 0..MaxEvents /\ Decisions' \subseteq 1..issuedIds'
    BY <1>1, <1>5 DEF PlanInv, PlanTyped
  <2>2. \A d \in Decisions' : DecisionTyped(planned'[d])
    BY <1>2, <1>3, <1>5 DEF PlanInv, PlanTyped, DecisionTyped, r
  <2>3. e \in 1..issuedIds
    BY <1>1 DEF PlanInv, PlanTyped
  <2>4. ASSUME NEW l \in DOMAIN lines' PROVE LineTyped(lines'[l], issuedIds')
    <3>1. CASE l \in DOMAIN f
      BY <1>1, <1>7, <1>10, <3>1 DEF PlanInv, PlanTyped
    <3>2. CASE l \notin DOMAIN f
      BY <1>1, <1>10, <2>3, <3>2, PlanBounds DEF PlanInv, PlanTyped, LineTyped
    <3> QED BY <3>1, <3>2
  <2> QED BY <1>1, <2>1, <2>2, <2>4 DEF PlanInv, PlanTyped, DecisionTyped, LineTyped
<1>13. ASSUME NEW d \in (Decisions \ patched)', d # e
       PROVE  /\ d \in Decisions \ patched /\ planned'[d] = planned[d] /\ liabilities'[d] = liabilities[d]
              /\ Spares(lines, lines', d)
  <2>1. d \in Decisions \ patched /\ planned'[d] = planned[d] /\ liabilities'[d] = liabilities[d]
    BY <1>1, <1>5, <1>13
  <2>2. Spares(lines, lines', d)
    BY <1>6, <1>7, <1>10, <1>13 DEF Spares
  <2> QED BY <2>1, <2>2
<1>14. ASSUME e \notin patched
       PROVE  /\ KnowsItsOwn(lines', e, r) /\ DebtStands(lines', e, r, liabilities[e])
              /\ \A l \in gone : lines[l].by # "household"
  <2>1. KnowsItsOwn(lines, e, planned[e]) /\ DebtStands(lines, e, planned[e], liabilities[e])
    BY <1>1, <1>14 DEF PlanInv
  <2>2. KnowsItsOwn(lines', e, r)
    BY <1>3, <1>7, <1>10, <1>11, <2>1 DEF KnowsItsOwn
  <2>3. \A l \in gone : lines[l].by # "household"
    BY <1>6, <1>8, <2>1 DEF KnowsItsOwn
  <2>4. ASSUME r.retired = 0 PROVE Foreseen(lines', e, r) /\ liabilities[e] = 0
    <3>1. Foreseen(lines, e, planned[e]) /\ liabilities[e] = 0
      BY <1>1, <1>3, <2>1, <2>4 DEF DebtStands
    <3>2. \A l \in DOMAIN lines : lines[l].debtOf = e => l \in gone
      BY <1>6, <1>9, <3>1 DEF Foreseen, by
    <3>3. \A l \in DOMAIN f : f[l].debtOf # e
      BY <1>7, <3>2
    <3>4. PICK g : g = lines'
      OBVIOUS
    <3>5. Foreseen(g, e, r)
      BY <1>1, <1>2, <1>3, <1>4, <1>7, <3>3, <3>4, ForecastStands
    <3> QED BY <3>1, <3>4, <3>5
  <2> QED BY <1>1, <1>3, <2>2, <2>3, <2>4 DEF DebtStands
<1>15. e \in (Decisions \ patched)' =>
           KnowsItsOwn(lines', e, planned'[e]) /\ DebtStands(lines', e, planned'[e], liabilities'[e])
  BY <1>1, <1>14 DEF r
<1>16. OwnLinesKept
  BY <1>6, <1>7, <1>10, <1>14 DEF OwnLinesKept
<1> QED
  BY <1>12, <1>13, <1>15, <1>16, OneDecision

LEMMA PatchDecisionKeeps ==
  ASSUME PlanInv, NEW e \in 1..MaxEvents, NEW status \in {"planned", "occurred"}, NEW purpose,
         NEW forgotten \in BOOLEAN, PatchDecision(e, status, purpose, forgotten)
  PROVE  PlanInv' /\ OwnLinesKept
<1> DEFINE r == planned'[e]
<1>1. /\ e \in Decisions /\ patched' = patched \cup {e} /\ UNCHANGED <<issuedIds, lines, liabilities>>
      /\ planned' = [planned EXCEPT ![e].status = status, ![e].purpose = purpose,
                                    ![e].adopted = IF forgotten THEN <<>> ELSE @]
  BY DEF PatchDecision
<1>2. DecisionTyped(planned[e])
  BY <1>1 DEF PlanInv, PlanTyped
<1>3. DOMAIN r = DOMAIN planned[e] /\ r.status = status /\ r.term = planned[e].term
      /\ r.adopted = IF forgotten THEN <<>> ELSE planned[e].adopted
  BY <1>1, <1>2 DEF DecisionTyped, Decisions
<1>4. DecisionTyped(r)
  BY <1>2, <1>3 DEF DecisionTyped
<1>5. Decisions' = Decisions /\ \A d \in Decisions \ {e} : planned'[d] = planned[d]
  BY <1>1 DEF Decisions
<1>6. PlanTyped'
  <2>1. \A d \in Decisions' : DecisionTyped(planned'[d])
    BY <1>4, <1>5 DEF PlanInv, PlanTyped
  <2>2. \A l \in DOMAIN lines' : LineTyped(lines'[l], issuedIds')
    BY <1>1 DEF PlanInv, PlanTyped
  <2>3. Decisions' \subseteq 1..issuedIds'
    BY <1>1, <1>5 DEF PlanInv, PlanTyped
  <2> QED BY <1>1, <2>1, <2>2, <2>3 DEF PlanInv, PlanTyped, DecisionTyped, LineTyped
<1>7. \A d \in (Decisions \ patched)' : d # e =>
        /\ d \in Decisions \ patched /\ planned'[d] = planned[d] /\ liabilities'[d] = liabilities[d]
        /\ Spares(lines, lines', d)
  BY <1>1, <1>5 DEF Spares
<1> QED
  BY <1>1, <1>6, <1>7, OneDecision DEF OwnLinesKept

LEMMA StandsStill ==
  ASSUME PlanInv, UNCHANGED <<planned, issuedIds, lines, liabilities, patched>>
  PROVE  PlanInv' /\ OwnLinesKept
<1>1. UNCHANGED <<planned, issuedIds, lines, liabilities, patched>>
  OBVIOUS
<1>2. OwnLinesKept
  BY <1>1 DEF OwnLinesKept
<1>3. PlanTyped'
  BY <1>1 DEF PlanInv, PlanTyped, Decisions, DecisionTyped, LineTyped
<1>4. ASSUME NEW d \in (Decisions \ patched)'
      PROVE  /\ d \in Decisions \ patched /\ planned'[d] = planned[d] /\ liabilities'[d] = liabilities[d]
             /\ Spares(lines, lines', d)
  BY <1>1 DEF Decisions, Spares
<1>5. 0 \notin Decisions'
  BY <1>3, PlanBounds DEF PlanTyped
<1> QED
  BY <1>2, <1>3, <1>4, <1>5, OneDecision

LEMMA DiscardScenarioKeeps ==
  ASSUME PlanInv, NEW s \in Drafts, DiscardScenario(s)
  PROVE  PlanInv' /\ OwnLinesKept
BY StandsStill DEF DiscardScenario

LEMMA DeleteLineKeeps ==
  ASSUME PlanInv, NEW z, DeleteLine(z)
  PROVE  PlanInv' /\ OwnLinesKept
<1>1. /\ lines' = [l \in DOMAIN lines \ {z} |-> lines[l]] /\ z \in DOMAIN lines /\ lines[z].group \notin Decisions
      /\ UNCHANGED <<planned, issuedIds, liabilities, patched>>
  BY DEF DeleteLine, Dropped, Managed
<1>2. Decisions' = Decisions /\ DOMAIN lines' = DOMAIN lines \ {z} /\ \A l \in DOMAIN lines' : lines'[l] = lines[l]
  BY <1>1 DEF Decisions
<1>3. PlanTyped'
  BY <1>1, <1>2 DEF PlanInv, PlanTyped, DecisionTyped, LineTyped
<1>4. ASSUME NEW d \in (Decisions \ patched)'
      PROVE  /\ d \in Decisions \ patched /\ planned'[d] = planned[d] /\ liabilities'[d] = liabilities[d]
             /\ Spares(lines, lines', d)
  BY <1>1, <1>2 DEF Spares
<1>5. 0 \notin Decisions'
  BY <1>3, PlanBounds DEF PlanTyped
<1>6. OwnLinesKept
  BY <1>1, <1>2 DEF OwnLinesKept, Managed
<1> QED
  BY <1>3, <1>4, <1>5, <1>6, OneDecision

\* A decision that is gone, and its lines given to others or dropped.
LEMMA UndoneKeeps ==
  ASSUME PlanInv, NEW e \in 1..MaxEvents, e \in Decisions,
         planned' = Dropped(planned, {e}), UNCHANGED <<issuedIds, liabilities, patched>>,
         NEW gone \in SUBSET LinesOf(e), DOMAIN lines' = DOMAIN lines \ gone,
         \A l \in DOMAIN lines' : \/ lines'[l] = lines[l]
                                  \/ /\ l \in LinesOf(e) \cap DOMAIN planned[e].adopted
                                     /\ lines'[l] = [lines[l] EXCEPT !.group = planned[e].adopted[l]],
         e \notin patched => \A l \in gone : lines[l].by # "household"
  PROVE  PlanInv' /\ OwnLinesKept
<1>1. Decisions' = Decisions \ {e} /\ \A d \in Decisions' : planned'[d] = planned[d]
  BY DEF Dropped, Decisions
<1>2. DecisionTyped(planned[e]) /\ Decisions \subseteq 1..issuedIds /\ issuedIds \in 0..MaxEvents
  BY DEF PlanInv, PlanTyped
<1>3. LinesOf(e) = {l \in DOMAIN lines : lines[l].group = e}
  BY DEF LinesOf
<1>4. ASSUME NEW l \in DOMAIN lines', lines'[l] # lines[l]
      PROVE  /\ lines[l].group = e /\ lines'[l].group \notin 1..MaxEvents
             /\ DOMAIN lines'[l] = LineFields
             /\ lines'[l].debtOf = lines[l].debtOf /\ lines'[l].by = lines[l].by
  <2>1. l \in LinesOf(e) \cap DOMAIN planned[e].adopted
        /\ lines'[l] = [lines[l] EXCEPT !.group = planned[e].adopted[l]]
    BY <1>4
  <2>2. DOMAIN lines[l] = LineFields
    BY <1>3, <2>1 DEF PlanInv, PlanTyped, LineTyped
  <2>3. planned[e].adopted[l] \notin 1..MaxEvents
    BY <1>2, <2>1 DEF DecisionTyped
  <2>4. PICK row, group : row = lines[l] /\ group = planned[e].adopted[l]
    OBVIOUS
  <2>5. lines'[l] = [row EXCEPT !.group = group] /\ DOMAIN row = LineFields
    BY <2>1, <2>2, <2>4
  <2>6. DOMAIN lines'[l] = LineFields /\ lines'[l].debtOf = row.debtOf /\ lines'[l].by = row.by /\ lines'[l].group = group
    BY <2>5 DEF LineFields
  <2> QED BY <1>3, <2>1, <2>3, <2>4, <2>6
<1>5. PlanTyped'
  <2>1. \A d \in Decisions' : DecisionTyped(planned'[d])
    BY <1>1 DEF PlanInv, PlanTyped
  <2>2. ASSUME NEW l \in DOMAIN lines' PROVE LineTyped(lines'[l], issuedIds')
    <3>1. LineTyped(lines[l], issuedIds)
      BY DEF PlanInv, PlanTyped
    <3>2. CASE lines'[l] = lines[l]
      BY <3>1, <3>2
    <3>3. CASE lines'[l] # lines[l]
      BY <1>4, <3>1, <3>3 DEF LineTyped
    <3> QED BY <3>2, <3>3
  <2>3. Decisions' \subseteq 1..issuedIds'
    BY <1>1, <1>2
  <2> QED BY <2>1, <2>2, <2>3 DEF PlanInv, PlanTyped, DecisionTyped, LineTyped
<1>6. ASSUME NEW d \in (Decisions \ patched)', d # e
      PROVE  /\ d \in Decisions \ patched /\ planned'[d] = planned[d] /\ liabilities'[d] = liabilities[d]
             /\ Spares(lines, lines', d)
  <2>1. d \in Decisions \ patched /\ planned'[d] = planned[d] /\ liabilities'[d] = liabilities[d]
    BY <1>1
  <2>2. d \in 1..MaxEvents
    <3>1. d \in 1..issuedIds /\ issuedIds \in 0..MaxEvents
      BY <1>2, <2>1
    <3> QED BY <3>1, PlanBounds
  <2>3. \A l \in DOMAIN lines' : l \in DOMAIN lines /\ (lines[l].group # e => lines'[l] = lines[l])
    BY <1>4
  <2>4. \A l \in DOMAIN lines : l \notin DOMAIN lines' => lines[l].group = e
    BY <1>3
  <2>5. \A l \in DOMAIN lines' : lines'[l].debtOf = lines[l].debtOf /\ lines'[l].by = lines[l].by
                                 /\ (lines'[l].group = d => lines'[l] = lines[l])
    BY <1>4, <2>2
  <2>6. Spares(lines, lines', d)
    BY <1>6, <2>3, <2>4, <2>5 DEF Spares
  <2> QED BY <2>1, <2>6
<1>7. OwnLinesKept
  BY <1>3 DEF OwnLinesKept
<1> QED
  BY <1>1, <1>5, <1>6, <1>7, OneDecision

LEMMA CancelKeeps ==
  ASSUME PlanInv, NEW e \in 1..MaxEvents, Cancel(e)
  PROVE  PlanInv' /\ OwnLinesKept
<1> DEFINE back == Returned(e)
           gone == LinesOf(e) \ Returned(e)
<1>1. /\ e \in Decisions /\ planned' = Dropped(planned, {e}) /\ UNCHANGED <<issuedIds, liabilities, patched>>
      /\ lines' = Dropped(Given(lines, back, planned[e].adopted), gone)
  BY DEF Cancel
<1>2. back = LinesOf(e) \cap DOMAIN planned[e].adopted
  BY DEF Returned
<1>3. DOMAIN lines' = DOMAIN lines \ gone
      /\ \A l \in DOMAIN lines' : lines'[l] = IF l \in back THEN [lines[l] EXCEPT !.group = planned[e].adopted[l]] ELSE lines[l]
  BY <1>1 DEF Dropped, Given
<1>4. ASSUME e \notin patched, NEW l \in gone PROVE lines[l].by # "household"
  <2>1. KnowsItsOwn(lines, e, planned[e])
    BY <1>1, <1>4 DEF PlanInv
  <2> QED BY <1>2, <2>1 DEF KnowsItsOwn, LinesOf
<1> HIDE DEF gone, back
<1>5. gone \subseteq LinesOf(e)
  BY DEF gone
<1> QED
  BY <1>1, <1>2, <1>3, <1>4, <1>5, UndoneKeeps

LEMMA ReleaseKeeps ==
  ASSUME PlanInv, NEW e \in 1..MaxEvents, Release(e)
  PROVE  PlanInv' /\ OwnLinesKept
<1>1. /\ e \in Decisions /\ planned' = Dropped(planned, {e}) /\ UNCHANGED <<issuedIds, liabilities, patched>>
      /\ lines' = Given(lines, LinesOf(e) \cap DOMAIN planned[e].adopted, planned[e].adopted)
  BY DEF Release
<1>2. DOMAIN lines' = DOMAIN lines
      /\ \A l \in DOMAIN lines' : lines'[l] = IF l \in LinesOf(e) \cap DOMAIN planned[e].adopted
                                                THEN [lines[l] EXCEPT !.group = planned[e].adopted[l]] ELSE lines[l]
  BY <1>1 DEF Given
<1>3. PICK gone : gone = {}
  OBVIOUS
<1>4. gone \in SUBSET LinesOf(e) /\ DOMAIN lines' = DOMAIN lines \ gone /\ \A l \in gone : lines[l].by # "household"
  BY <1>2, <1>3
<1> QED
  BY <1>1, <1>2, <1>4, UndoneKeeps

LEMMA MaterializeKeeps ==
  ASSUME PlanInv, NEW e \in 1..MaxEvents, NEW term \in SUBSET PlanYears, Materialize(e, term)
  PROVE  PlanInv' /\ OwnLinesKept
<1> DEFINE r == planned'[e]
           gone == Superseded(e)
           kept == Dropped(lines, gone)
           f == Given(kept, LinesOf(e) \cap DOMAIN kept, [l \in DOMAIN kept |-> NoGroup])
           rows == {DebtLine(e, planned[e].purpose, y, LiabilityGroup(e), "liability") : y \in term}
<1>1. /\ e \in Decisions /\ planned[e].status = "planned" /\ (term = {} <=> planned[e].term = {})
      /\ lines' = Appended(f, rows) /\ DOMAIN lines' \subseteq 1..MaxLine
      /\ planned' = [planned EXCEPT ![e].status = "occurred"]
      /\ liabilities' = [liabilities EXCEPT ![e] = IF term = {} THEN @ ELSE @ + 1]
      /\ UNCHANGED <<issuedIds, patched>>
  BY DEF Materialize, Bounded
<1>2. DecisionTyped(planned[e]) /\ DOMAIN lines \subseteq 1..MaxLine /\ Decisions \subseteq 1..issuedIds
      /\ issuedIds \in 0..MaxEvents /\ liabilities \in [1..MaxEvents -> Nat]
  BY <1>1 DEF PlanInv, PlanTyped
<1>3. /\ DOMAIN r = DOMAIN planned[e] /\ r.status = "occurred" /\ r.term = planned[e].term
      /\ r.retired = planned[e].retired /\ r.scenario = planned[e].scenario /\ r.adopted = planned[e].adopted
  BY <1>1, <1>2 DEF DecisionTyped, Decisions
<1>4. Decisions' = Decisions /\ \A d \in Decisions \ {e} : planned'[d] = planned[d]
  BY <1>1 DEF Decisions
<1>5. LinesOf(e) = {l \in DOMAIN lines : lines[l].group = e}
  BY DEF LinesOf
<1>6. gone = IF planned[e].term = {} THEN {} ELSE {l \in LinesOf(e) : lines[l].category = planned[e].purpose}
  BY DEF Superseded
<1>7. DOMAIN f = DOMAIN lines \ gone
      /\ \A l \in DOMAIN f : f[l] = IF l \in LinesOf(e) THEN [lines[l] EXCEPT !.group = 0] ELSE lines[l]
  BY DEF Dropped, Given, NoGroup
<1>8. LiabilityGroup(e) \notin 1..MaxEvents
  <2>1. PICK n, k : n = MaxEvents /\ k = e /\ n \in Nat /\ n <= 900 /\ k \in 1..n
    BY PlanBounds
  <2> QED BY <2>1 DEF LiabilityGroup
<1>9. /\ Adds(f, rows, lines')
      /\ \A row \in rows : DOMAIN row = LineFields /\ row.debtOf = e /\ row.group = LiabilityGroup(e)
                           /\ row.by = "liability" /\ row.year \in term
  <2>1. PICK all, group, by, purpose : all = rows /\ group = LiabilityGroup(e) /\ by = "liability" /\ purpose = planned[e].purpose
    OBVIOUS
  <2>2. all = {DebtLine(e, purpose, y, group, by) : y \in term}
    BY <2>1
  <2>3. DOMAIN f \subseteq 1..MaxLine
    BY <1>2, <1>7
  <2> HIDE DEF f, rows
  <2>4. /\ Adds(f, all, Appended(f, all))
        /\ \A row \in all : DOMAIN row = LineFields /\ row.debtOf = e /\ row.group = group
                            /\ row.by = by /\ row.year \in term
    BY <2>2, <2>3, DebtLinesAdd
  <2> QED BY <1>1, <2>1, <2>4
<1> HIDE DEF r, gone, kept, f, rows
<1>10. /\ DOMAIN f \subseteq DOMAIN lines' /\ \A l \in DOMAIN f : lines'[l] = f[l]
       /\ \A l \in DOMAIN lines' \ DOMAIN f :
            /\ DOMAIN lines'[l] = LineFields /\ lines'[l].debtOf = e /\ lines'[l].group = LiabilityGroup(e)
            /\ lines'[l].by = "liability" /\ lines'[l].year \in term
  BY <1>9 DEF Adds
<1>11. ASSUME NEW l \in DOMAIN f, f[l] # lines[l]
       PROVE  /\ lines[l].group = e /\ f[l].group = 0 /\ DOMAIN f[l] = LineFields
              /\ f[l].debtOf = lines[l].debtOf /\ f[l].by = lines[l].by
  <2>1. l \in LinesOf(e) /\ f[l] = [lines[l] EXCEPT !.group = 0] /\ l \in DOMAIN lines
    BY <1>7, <1>11
  <2>2. DOMAIN lines[l] = LineFields
    BY <2>1 DEF PlanInv, PlanTyped, LineTyped
  <2>3. PICK row : row = lines[l]
    OBVIOUS
  <2>4. f[l] = [row EXCEPT !.group = 0] /\ DOMAIN row = LineFields
    BY <2>1, <2>2, <2>3
  <2>5. DOMAIN f[l] = LineFields /\ f[l].debtOf = row.debtOf /\ f[l].by = row.by /\ f[l].group = 0
    BY <2>4 DEF LineFields
  <2> QED BY <1>5, <2>1, <2>3, <2>5
<1>12. \A l \in DOMAIN f : l \in DOMAIN lines /\ f[l].debtOf = lines[l].debtOf /\ f[l].by = lines[l].by
  BY <1>7, <1>11
<1>13. \A l \in DOMAIN f : f[l].group # e
  <2> SUFFICES ASSUME NEW l \in DOMAIN f PROVE f[l].group # e
    OBVIOUS
  <2>1. CASE l \in LinesOf(e)
    <3>1. f[l] = [lines[l] EXCEPT !.group = 0] /\ "group" \in DOMAIN lines[l]
      BY <1>7, <2>1 DEF PlanInv, PlanTyped, LineTyped, LineFields
    <3> QED BY <3>1
  <2>2. CASE l \notin LinesOf(e)
    BY <1>5, <1>7, <2>2
  <2> QED BY <2>1, <2>2
<1>14. PlanTyped'
  <2>1. issuedIds' \in 0..MaxEvents /\ Decisions' \subseteq 1..issuedIds' /\ e \in 1..issuedIds
    BY <1>1, <1>2, <1>4
  <2>2. \A d \in Decisions' : DecisionTyped(planned'[d])
    BY <1>2, <1>3, <1>4 DEF PlanInv, PlanTyped, DecisionTyped, r
  <2>3. liabilities' \in [1..MaxEvents -> Nat]
    BY <1>1, <1>2
  <2>4. \A d \in 1..MaxEvents : d > issuedIds' => liabilities'[d] = 0
    <3> SUFFICES ASSUME NEW d \in 1..MaxEvents, d > issuedIds PROVE liabilities'[d] = 0
      BY <1>1
    <3>1. d # e
      BY <1>2, <2>1
    <3>2. liabilities[d] = 0
      BY DEF PlanInv, PlanTyped
    <3> QED BY <1>1, <1>2, <3>1, <3>2
  <2>5. ASSUME NEW l \in DOMAIN lines' PROVE LineTyped(lines'[l], issuedIds')
    <3>1. CASE l \in DOMAIN f
      <4>1. LineTyped(lines[l], issuedIds)
        BY <1>12, <3>1 DEF PlanInv, PlanTyped
      <4>2. CASE f[l] = lines[l]
        BY <1>1, <1>10, <3>1, <4>1, <4>2
      <4>3. CASE f[l] # lines[l]
        BY <1>1, <1>10, <1>11, <3>1, <4>1, <4>3 DEF LineTyped
      <4> QED BY <4>2, <4>3
    <3>2. CASE l \notin DOMAIN f
      BY <1>1, <1>8, <1>10, <2>1, <3>2 DEF LineTyped
    <3> QED BY <3>1, <3>2
  <2> QED BY <1>1, <2>1, <2>2, <2>3, <2>4, <2>5 DEF PlanInv, PlanTyped, DecisionTyped, LineTyped
<1>15. ASSUME NEW d \in (Decisions \ patched)', d # e
       PROVE  /\ d \in Decisions \ patched /\ planned'[d] = planned[d] /\ liabilities'[d] = liabilities[d]
              /\ Spares(lines, lines', d)
  <2>1. d \in Decisions \ patched /\ planned'[d] = planned[d]
    BY <1>1, <1>4, <1>15
  <2>2. d \in 1..MaxEvents
    <3>1. d \in 1..issuedIds /\ issuedIds \in 0..MaxEvents
      BY <1>2, <2>1
    <3> QED BY <3>1, PlanBounds
  <2>3. liabilities'[d] = liabilities[d]
    BY <1>1, <1>2, <1>15, <2>2
  <2>4. \A l \in DOMAIN f : (lines[l].group # e => f[l] = lines[l]) /\ (f[l].group = d => f[l] = lines[l])
    BY <1>11, <2>2
  <2>5. \A l \in DOMAIN lines : l \notin DOMAIN f => lines[l].group = e
    BY <1>5, <1>6, <1>7
  <2>6. LiabilityGroup(e) # d
    BY <1>8, <2>2
  <2>7. Spares(lines, lines', d)
    BY <1>10, <1>12, <1>15, <2>4, <2>5, <2>6 DEF Spares
  <2> QED BY <2>1, <2>3, <2>7
<1>16. ASSUME e \notin patched
       PROVE  KnowsItsOwn(lines', e, r) /\ DebtStands(lines', e, r, liabilities'[e])
  <2>1. KnowsItsOwn(lines, e, planned[e]) /\ DebtStands(lines, e, planned[e], liabilities[e])
    BY <1>1, <1>16 DEF PlanInv
  <2>2. \A l \in DOMAIN lines' : lines'[l].group # e
    BY <1>8, <1>10, <1>13
  <2>3. KnowsItsOwn(lines', e, r)
    BY <1>3, <2>1, <2>2 DEF KnowsItsOwn
  <2>4. ASSUME r.retired = 0
        PROVE  /\ \A l \in DOMAIN lines' : lines'[l].debtOf = e => lines'[l].by \notin {"plan", "scenario"}
               /\ liabilities'[e] = IF r.term = {} THEN 0 ELSE 1
    <3>1. Foreseen(lines, e, planned[e]) /\ liabilities[e] = 0
      BY <1>1, <1>3, <2>1, <2>4 DEF DebtStands
    <3>2. \A l \in DOMAIN lines : lines[l].debtOf = e => l \in gone
      BY <1>5, <1>6, <3>1 DEF Foreseen
    <3>3. \A l \in DOMAIN f : f[l].debtOf # e
      BY <1>7, <1>12, <3>2
    <3>4. \A l \in DOMAIN lines' : lines'[l].debtOf = e => lines'[l].by = "liability"
      BY <1>10, <3>3
    <3>5. liabilities'[e] = IF r.term = {} THEN 0 ELSE 1
      BY <1>1, <1>2, <1>3, <3>1
    <3> QED BY <3>4, <3>5
  <2> QED BY <1>3, <2>3, <2>4 DEF DebtStands
<1>17. e \in (Decisions \ patched)' =>
           KnowsItsOwn(lines', e, planned'[e]) /\ DebtStands(lines', e, planned'[e], liabilities'[e])
  BY <1>1, <1>16 DEF r
<1>18. OwnLinesKept
  <2>1. \A l \in DOMAIN lines \ DOMAIN lines' : l \in gone
    BY <1>7, <1>10
  <2> QED BY <1>1, <1>3, <1>4, <1>5, <1>6, <2>1 DEF OwnLinesKept, r
<1> QED
  BY <1>14, <1>15, <1>17, <1>18, OneDecision

LEMMA RetireKeeps ==
  ASSUME PlanInv, NEW e \in 1..MaxEvents, NEW y \in PlanYears, NEW january \in BOOLEAN, Retire(e, y, january)
  PROVE  PlanInv' /\ OwnLinesKept
<1> DEFINE r == planned'[e]
           gone == {l \in LinesOf(e) : Ended(l, y, january)}
           cut == {l \in LinesOf(e) \ gone : Cut(l, y)}
           f == [l \in DOMAIN lines \ gone |-> IF l \in cut THEN UntilThen(l, y) ELSE lines[l]]
           split == {c \in cut : ~january /\ lines[c].year < y}
           rows == {Remainder(l, y) : l \in split}
<1>1. /\ e \in Decisions /\ planned[e].retired = 0
      /\ lines' = Appended(f, rows) /\ DOMAIN lines' \subseteq 1..MaxLine
      /\ planned' = [planned EXCEPT ![e].retired = y]
      /\ UNCHANGED <<issuedIds, liabilities, patched>>
  BY DEF Retire, Bounded
<1>2. DecisionTyped(planned[e]) /\ DOMAIN lines \subseteq 1..MaxLine /\ Decisions \subseteq 1..issuedIds
      /\ issuedIds \in 0..MaxEvents
  BY <1>1 DEF PlanInv, PlanTyped
<1>3. /\ DOMAIN r = DOMAIN planned[e] /\ r.retired = y /\ r.scenario = planned[e].scenario
      /\ r.adopted = planned[e].adopted /\ r.status = planned[e].status /\ r.term = planned[e].term
  BY <1>1, <1>2 DEF DecisionTyped, Decisions
<1>4. Decisions' = Decisions /\ \A d \in Decisions \ {e} : planned'[d] = planned[d]
  BY <1>1 DEF Decisions
<1>5. LinesOf(e) = {l \in DOMAIN lines : lines[l].group = e}
  BY DEF LinesOf
<1>6. y # 0
  BY PlanBounds
<1>7. gone \subseteq LinesOf(e) /\ cut \subseteq LinesOf(e) /\ split \subseteq cut
  OBVIOUS
<1>8. DOMAIN f = DOMAIN lines \ gone /\ \A l \in DOMAIN f : f[l] = IF l \in cut THEN UntilThen(l, y) ELSE lines[l]
  OBVIOUS
<1>9. \A l \in DOMAIN lines : DOMAIN lines[l] = LineFields
  BY DEF PlanInv, PlanTyped, LineTyped
<1>10. Adds(f, rows, lines')
  <2> DEFINE rest == [l \in split |-> Remainder(l, y)]
  <2>1. rows = {rest[l] : l \in split}
    OBVIOUS
  <2>2. IsFiniteSet(1..MaxLine)
    BY PlanBounds, FS_Interval
  <2>3. split \subseteq 1..MaxLine
    BY <1>2, <1>5, <1>7
  <2> HIDE DEF gone, cut, f, split, rows, rest
  <2>4. IsFiniteSet(split)
    BY <2>2, <2>3, FS_Subset
  <2>5. IsFiniteSet(rows)
    BY <2>1, <2>4, FiniteImage
  <2>6. DOMAIN f \subseteq 1..MaxLine
    BY <1>2, <1>8
  <2> QED BY <1>1, <2>5, <2>6, PlanBounds, AppendedAdds
<1>11. \A row \in rows : \E l \in split : row = Remainder(l, y)
  OBVIOUS
<1> HIDE DEF r, gone, cut, f, split, rows
<1>12. ASSUME NEW row \in rows
       PROVE  /\ DOMAIN row = LineFields /\ row.group = e /\ row.by = "remainder"
              /\ \E m \in DOMAIN lines : lines[m].group = e /\ row.debtOf = lines[m].debtOf
  <2>1. PICK l \in split : row = Remainder(l, y)
    BY <1>11
  <2>2. l \in DOMAIN lines /\ lines[l].group = e /\ DOMAIN lines[l] = LineFields
    BY <1>5, <1>7, <1>9
  <2>3. PICK old : old = lines[l]
    OBVIOUS
  <2>4. row = [old EXCEPT !.year = y, !.until = y, !.by = "remainder"] /\ DOMAIN old = LineFields
    BY <2>1, <2>2, <2>3 DEF Remainder
  <2>5. DOMAIN row = LineFields /\ row.by = "remainder" /\ row.group = old.group /\ row.debtOf = old.debtOf
    BY <2>4 DEF LineFields
  <2> QED BY <2>2, <2>3, <2>5
<1>13. ASSUME NEW l \in DOMAIN f
       PROVE  /\ l \in DOMAIN lines /\ DOMAIN f[l] = LineFields /\ f[l].group = lines[l].group
              /\ f[l].debtOf = lines[l].debtOf /\ f[l].by = lines[l].by
              /\ lines[l].group # e => f[l] = lines[l]
  <2>1. l \in DOMAIN lines /\ DOMAIN lines[l] = LineFields
    BY <1>8, <1>9
  <2>2. CASE l \in cut
    <3>1. PICK old, till : old = lines[l] /\ f[l] = [old EXCEPT !.until = till] /\ DOMAIN old = LineFields
      BY <1>8, <2>1, <2>2 DEF UntilThen
    <3>2. DOMAIN f[l] = LineFields /\ f[l].group = old.group /\ f[l].debtOf = old.debtOf /\ f[l].by = old.by
      BY <3>1 DEF LineFields
    <3>3. lines[l].group = e
      BY <1>5, <1>7, <2>2
    <3> QED BY <2>1, <3>1, <3>2, <3>3
  <2>3. CASE l \notin cut
    BY <1>8, <2>1, <2>3
  <2> QED BY <2>2, <2>3
<1>14. /\ DOMAIN f \subseteq DOMAIN lines' /\ \A l \in DOMAIN f : lines'[l] = f[l]
       /\ \A l \in DOMAIN lines' \ DOMAIN f : lines'[l] \in rows
  BY <1>10 DEF Adds
<1>15. PlanTyped'
  <2>1. issuedIds' \in 0..MaxEvents /\ Decisions' \subseteq 1..issuedIds' /\ e \in 1..issuedIds
    BY <1>1, <1>2, <1>4
  <2>2. \A d \in Decisions' : DecisionTyped(planned'[d])
    BY <1>2, <1>3, <1>4 DEF PlanInv, PlanTyped, DecisionTyped, r
  <2>3. ASSUME NEW l \in DOMAIN lines' PROVE LineTyped(lines'[l], issuedIds')
    <3>1. CASE l \in DOMAIN f
      <4>1. LineTyped(lines[l], issuedIds)
        BY <1>13, <3>1 DEF PlanInv, PlanTyped
      <4> QED BY <1>1, <1>13, <1>14, <3>1, <4>1 DEF LineTyped
    <3>2. CASE l \notin DOMAIN f
      <4>1. lines'[l] \in rows
        BY <1>14, <3>2
      <4>2. PICK m \in DOMAIN lines : lines'[l].debtOf = lines[m].debtOf
        BY <1>12, <4>1
      <4>3. LineTyped(lines[m], issuedIds)
        BY DEF PlanInv, PlanTyped
      <4> QED BY <1>1, <1>12, <2>1, <4>1, <4>2, <4>3 DEF LineTyped
    <3> QED BY <3>1, <3>2
  <2> QED BY <1>1, <2>1, <2>2, <2>3 DEF PlanInv, PlanTyped, DecisionTyped, LineTyped
<1>16. ASSUME NEW d \in (Decisions \ patched)', d # e
       PROVE  /\ d \in Decisions \ patched /\ planned'[d] = planned[d] /\ liabilities'[d] = liabilities[d]
              /\ Spares(lines, lines', d)
  <2>1. d \in Decisions \ patched /\ planned'[d] = planned[d] /\ liabilities'[d] = liabilities[d]
    BY <1>1, <1>4, <1>16
  <2>2. \A l \in DOMAIN lines : l \notin DOMAIN f => lines[l].group = e
    BY <1>5, <1>7, <1>8
  <2>3. ASSUME NEW l \in DOMAIN lines, lines[l].group = d PROVE l \in DOMAIN lines' /\ lines'[l] = lines[l]
    BY <1>13, <1>14, <1>16, <2>2, <2>3
  <2>4. ASSUME NEW l \in DOMAIN lines', lines'[l].debtOf = d
        PROVE  \/ l \in DOMAIN lines /\ lines[l].debtOf = d /\ lines'[l].by = lines[l].by
                  /\ (lines[l].group = d => lines'[l] = lines[l])
               \/ lines'[l].by = "remainder" /\ \E m \in DOMAIN lines : lines[m].debtOf = d /\ lines[m].group # d
    <3>1. CASE l \in DOMAIN f
      BY <1>13, <1>14, <1>16, <2>4, <3>1
    <3>2. CASE l \notin DOMAIN f
      BY <1>12, <1>14, <1>16, <2>4, <3>2
    <3> QED BY <3>1, <3>2
  <2>5. ASSUME NEW l \in DOMAIN lines', lines'[l].group = d, lines'[l].by = "household"
        PROVE  l \in DOMAIN lines /\ lines[l].group = d /\ lines[l].by = "household"
    BY <1>12, <1>13, <1>14, <1>16, <2>5
  <2>6. Spares(lines, lines', d)
    BY <2>3, <2>4, <2>5 DEF Spares
  <2> QED BY <2>1, <2>6
<1>17. ASSUME e \in (Decisions \ patched)'
       PROVE  KnowsItsOwn(lines', e, planned'[e]) /\ DebtStands(lines', e, planned'[e], liabilities'[e])
  <2>1. KnowsItsOwn(lines, e, planned[e])
    BY <1>1, <1>17 DEF PlanInv
  <2>2. KnowsItsOwn(lines', e, r)
    BY <1>3, <1>12, <1>13, <1>14, <2>1 DEF KnowsItsOwn
  <2> QED BY <1>3, <1>6, <2>2 DEF DebtStands, r
<1>18. OwnLinesKept
  <2>1. \A l \in DOMAIN lines \ DOMAIN lines' : l \in gone
    BY <1>8, <1>14
  <2> QED BY <1>1, <1>3, <1>4, <1>5, <1>6, <1>7, <2>1 DEF OwnLinesKept, r
<1> QED
  BY <1>15, <1>16, <1>17, <1>18, OneDecision

LEMMA PlanInitially == ASSUME PlanInit PROVE PlanInv
<1>1. planned = <<>> /\ issuedIds = 0 /\ patched = {} /\ liabilities = [e \in 1..MaxEvents |-> 0]
      /\ lines = [l \in DOMAIN OwnLines |-> TypedIn(OwnLines[l])]
  BY DEF PlanInit
<1>2. ASSUME NEW l \in DOMAIN lines PROVE LineTyped(lines[l], issuedIds)
  <2>1. lines[l] = TypedIn(OwnLines[l]) /\ OwnLines[l].group \in {NoGroup, OwnGroup}
    BY <1>1, PlanAssumption
  <2>2. PICK row : row = OwnLines[l]
    OBVIOUS
  <2>3. DOMAIN TypedIn(row) = LineFields /\ TypedIn(row).group = row.group /\ TypedIn(row).debtOf = 0
    BY DEF TypedIn, LineFields
  <2>4. OwnLines[l].group \notin 1..MaxEvents
    BY <2>1, PlanBounds DEF NoGroup, OwnGroup
  <2> QED BY <1>1, <2>1, <2>2, <2>3, <2>4 DEF LineTyped
<1>3. Decisions = {} /\ DOMAIN lines \subseteq 1..MaxLine
  BY <1>1, PlanAssumption DEF Decisions
<1> QED
  BY <1>1, <1>2, <1>3, PlanBounds DEF PlanInv, PlanTyped

LEMMA PlanStep ==
  ASSUME PlanInv, [PlanNext]_planVars
  PROVE  PlanInv' /\ OwnLinesKept
<1>1. \A t \in Terms : t \in SUBSET PlanYears
  BY PlanAssumption
<1>2. ASSUME NEW e \in 1..MaxEvents, NEW s \in Drafts, NEW p \in Purposes, NEW t \in Terms, AcceptScenario(e, s, p, t)
      PROVE  PlanInv' /\ OwnLinesKept
  BY <1>2, AcceptScenarioKeeps
<1>3. ASSUME NEW s \in Drafts, DiscardScenario(s) PROVE PlanInv' /\ OwnLinesKept
  BY <1>3, DiscardScenarioKeeps
<1>4. ASSUME NEW e \in 1..MaxEvents, NEW S \in SUBSET DOMAIN lines, NEW p \in Purposes, Register(e, S, "occurred", p, {})
      PROVE  PlanInv' /\ OwnLinesKept
  BY <1>4, RegisterKeeps
<1>5. ASSUME NEW e \in 1..MaxEvents, NEW S \in SUBSET DOMAIN lines, NEW p \in Purposes, NEW t \in Terms,
             Register(e, S, "planned", p, t)
      PROVE  PlanInv' /\ OwnLinesKept
  BY <1>1, <1>5, RegisterKeeps
<1>6. ASSUME NEW e \in 1..MaxEvents, NEW p \in Purposes, NEW t \in Terms, EditDecision(e, p, t)
      PROVE  PlanInv' /\ OwnLinesKept
  BY <1>1, <1>6, EditDecisionKeeps
<1>7. ASSUME NEW e \in 1..MaxEvents, NEW status \in {"planned", "occurred"}, NEW p \in Purposes,
             NEW forgotten \in BOOLEAN, PatchDecision(e, status, p, forgotten)
      PROVE  PlanInv' /\ OwnLinesKept
  BY <1>7, PatchDecisionKeeps
<1>8. ASSUME NEW e \in 1..MaxEvents, NEW t \in Terms, Materialize(e, t) PROVE PlanInv' /\ OwnLinesKept
  BY <1>1, <1>8, MaterializeKeeps
<1>9. ASSUME NEW e \in 1..MaxEvents, Cancel(e) \/ Release(e) PROVE PlanInv' /\ OwnLinesKept
  BY <1>9, CancelKeeps, ReleaseKeeps
<1>10. ASSUME NEW e \in 1..MaxEvents, NEW y \in PlanYears, NEW january \in BOOLEAN, Retire(e, y, january)
       PROVE  PlanInv' /\ OwnLinesKept
  BY <1>10, RetireKeeps
<1>11. ASSUME NEW l \in 1..MaxLine, DeleteLine(l) PROVE PlanInv' /\ OwnLinesKept
  BY <1>11, DeleteLineKeeps
<1>12. CASE UNCHANGED planVars
  <2>1. UNCHANGED <<planned, issuedIds, lines, liabilities, patched>>
    BY <1>12 DEF planVars
  <2> QED BY <2>1, StandsStill
<1>13. CASE PlanNext
  BY ONLY <1>13, <1>2, <1>3, <1>4, <1>5, <1>6, <1>7, <1>8, <1>9, <1>10, <1>11 DEF PlanNext
<1> QED
  BY <1>12, <1>13

LEMMA PlanHolds == PlanSpec => []PlanInv
<1>1. PlanInv /\ [PlanNext]_planVars => PlanInv'
  BY PlanStep
<1> QED
  BY PlanInitially, <1>1, PTL DEF PlanSpec

LEMMA DebtFromInv == PlanInv => DebtCountedOnce
<1> SUFFICES ASSUME PlanInv, NEW e \in Decisions \ patched, planned[e].retired = 0
             PROVE  LET shares == {l \in DOMAIN lines : lines[l].debtOf = e}
                        foreseen == {l \in shares : lines[l].by \in {"plan", "scenario"}}
                    IN IF planned[e].status = "planned"
                         THEN /\ shares = foreseen /\ liabilities[e] = 0
                              /\ \A y \in PlanYears : Cardinality({l \in shares : lines[l].year = y})
                                                        = IF y \in planned[e].term THEN 1 ELSE 0
                         ELSE foreseen = {} /\ liabilities[e] = IF planned[e].term = {} THEN 0 ELSE 1
  BY DEF DebtCountedOnce
<1> DEFINE shares == {l \in DOMAIN lines : lines[l].debtOf = e}
           foreseen == {l \in shares : lines[l].by \in {"plan", "scenario"}}
<1>1. DebtStands(lines, e, planned[e], liabilities[e])
  BY DEF PlanInv
<1>2. CASE planned[e].status = "planned"
  <2>1. Foreseen(lines, e, planned[e]) /\ liabilities[e] = 0
    BY <1>1, <1>2 DEF DebtStands
  <2>2. shares = foreseen
    BY <2>1 DEF Foreseen, PlanBy
  <2>3. ASSUME NEW y \in PlanYears
        PROVE  Cardinality({l \in shares : lines[l].year = y}) = IF y \in planned[e].term THEN 1 ELSE 0
    <3> DEFINE T == {l \in shares : lines[l].year = y}
    <3>1. CASE y \in planned[e].term
      <4>1. PICK l \in DOMAIN lines : lines[l].debtOf = e /\ lines[l].year = y
        BY <2>1, <3>1 DEF Foreseen
      <4>2. T = {l}
        BY <2>1, <4>1 DEF Foreseen
      <4> HIDE DEF T
      <4>3. Cardinality(T) = 1
        BY <4>2, FS_Singleton
      <4> QED BY <3>1, <4>3 DEF T
    <3>2. CASE y \notin planned[e].term
      <4>1. T = {}
        BY <2>1, <3>2 DEF Foreseen
      <4> HIDE DEF T
      <4>2. Cardinality(T) = 0
        BY <4>1, FS_EmptySet
      <4> QED BY <3>2, <4>2 DEF T
    <3> QED BY <3>1, <3>2
  <2> HIDE DEF shares, foreseen
  <2>4. /\ shares = foreseen /\ liabilities[e] = 0
        /\ \A y \in PlanYears : Cardinality({l \in shares : lines[l].year = y})
                                  = IF y \in planned[e].term THEN 1 ELSE 0
    BY <2>1, <2>2, <2>3
  <2> QED BY <1>2, <2>4 DEF shares, foreseen
<1>3. CASE planned[e].status # "planned"
  BY <1>1, <1>3 DEF DebtStands
<1> QED
  BY <1>2, <1>3

\* The debt of a decision is in the budget once: foreseen by one line of each
\* year, or owed by the one liability of the decision that was made real.
THEOREM DebtCorrect == PlanSpec => []DebtCountedOnce
BY PlanHolds, DebtFromInv, PTL

\* What the household entered is not lost with the decision that took it over.
THEOREM OwnLinesCorrect == PlanSpec => OwnLinesStay
<1>1. PlanInv /\ [PlanNext]_planVars => OwnLinesKept
  BY PlanStep
<1>2. PlanInv /\ [PlanNext]_planVars =>
        [\A l \in DOMAIN lines \ DOMAIN lines' :
       LET e == lines[l].group IN
       lines[l].by = "household" /\ Managed(l) /\ e \notin patched =>
         /\ e \in Decisions'
         /\ \/ planned'[e].retired # planned[e].retired
            \/ /\ planned[e].status = "planned" /\ planned'[e].status = "occurred"
               /\ lines[l].category = planned[e].purpose /\ planned[e].term # {}]_planVars
  BY <1>1 DEF OwnLinesKept
<1> QED
  BY PlanHolds, <1>2, PTL DEF PlanSpec, OwnLinesStay
=============================================================================
