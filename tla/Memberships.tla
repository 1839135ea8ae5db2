---------------------------- MODULE Memberships ----------------------------
(***************************************************************************)
(* Who owns what (backend/memberships): the members of a household, the    *)
(* ownerships they hold alone or share, the positions linked to them, and  *)
(* the shares of an ownership that follows what each member has earned in  *)
(* the last twelve months.  Every request is one transaction.              *)
(*                                                                         *)
(* Percentages are in hundredths.                                          *)
(***************************************************************************)
EXTENDS Integers, FiniteSets, FiniteSetsExt

CONSTANTS
  Persons,     \* bound: members there may be, by id
  Titles,      \* bound: ownerships there may be, by id
  Divisions,   \* splits that a request may send: functions from members to percentages
  Positions,   \* assets and liabilities
  Earnings,    \* what members may have earned in the window
  MaxTitles    \* bound: ownerships at the same time

NoOne == 0
Whole == 10000
ASSUME MembershipsAssumption ==
  /\ Persons \subseteq Nat \ {NoOne} /\ Titles \subseteq Nat \ {NoOne}
  /\ \A s \in Divisions : DOMAIN s \subseteq Persons /\ \A m \in DOMAIN s : s[m] \in Int
  /\ \A e \in Earnings : e \in [Persons -> Int]

VARIABLES
  members,     \* id -> its role
  ownerships,  \* id -> [kind, member, dynamic, splits]
  holds,       \* position -> the ownership it is linked to, or NoOne
  used,        \* ownerships that ledger transactions and budget entries name
  earned,      \* qualifying income of the window
  observed     \* months of the window that have some

membershipVars == <<members, ownerships, holds, used, earned, observed>>
incomeVars == <<earned, observed>>

-----------------------------------------------------------------------------
(* What the tables admit *)

MemberRoles == {"adult", "child"}
\* An ownership is one member's, with a fixed share, or shared and nobody's.
IsOwnership(o) ==
  \/ o.kind = "individual" /\ o.member # NoOne /\ ~o.dynamic
  \/ o.kind = "shared" /\ o.member = NoOne
IsSplit(s) == \A m \in DOMAIN s : s[m] \in 0..Whole
\* A position has one ownership at most.
LinkRows == [Positions -> Titles \cup {NoOne}]

-----------------------------------------------------------------------------
(* The shares of an ownership that follows income *)

SumUp(f, S) == MapThenSumSet(LAMBDA m : f[m], S)
HalfAway(n, d) == IF n >= 0 THEN (2 * n + d) \div (2 * d) ELSE -((d - 2 * n) \div (2 * d))

Resolvable(S) == observed >= 3 /\ (\A m \in S : earned[m] >= 0) /\ SumUp(earned, S) > 0

\* fault: the last member is rounded like the others
EvenlyRounded(S) == [m \in S |-> HalfAway(earned[m] * Whole, SumUp(earned, S))]
\* The last member gets what the rounding of the others leaves.
Percentages(S) ==
  LET rounded(m) == HalfAway(earned[m] * Whole, SumUp(earned, S)) IN
  [m \in S |-> IF m # Max(S) THEN rounded(m)
               ELSE Whole - MapThenSumSet(rounded, S \ {Max(S)})]

\* resolve_ownership_allocation of a month that is not frozen
Unresolvable == <<>>
Allocation(o) ==
  CASE o.kind = "individual" -> [m \in {o.member} |-> Whole]
    [] o.kind = "shared" /\ ~o.dynamic -> o.splits
    [] OTHER -> IF Resolvable(DOMAIN o.splits) THEN Percentages(DOMAIN o.splits) ELSE Unresolvable

-----------------------------------------------------------------------------
(* Rules *)

IsShared(o) == o.kind = "shared"
OwnedBy(m) == [kind |-> "individual", member |-> m, dynamic |-> FALSE, splits |-> <<>>]
OwnershipsOf(m) == {o \in DOMAIN ownerships : ownerships[o].member = m}
InUse(o) == o \in used \/ \E p \in Positions : holds[p] = o

\* validate_ownership_payload
Valid(o) ==
  \/ /\ o.kind = "individual" /\ o.member \in DOMAIN members
     /\ o.splits = <<>> /\ ~o.dynamic
  \/ /\ o.kind = "shared" /\ o.member = NoOne /\ o.splits # <<>>
     /\ \A m \in DOMAIN o.splits : m \in DOMAIN members /\ members[m] = "adult" /\ o.splits[m] \in 1..Whole
     /\ SumUp(o.splits, DOMAIN o.splits) = Whole

Payloads ==
  [kind : {"individual"}, member : Persons, dynamic : BOOLEAN, splits : {<<>>}]
    \cup [kind : {"shared"}, member : {NoOne}, dynamic : BOOLEAN, splits : Divisions]

-----------------------------------------------------------------------------
MembershipsInit ==
  /\ members = <<>> /\ ownerships = <<>> /\ used = {}
  /\ holds = [p \in Positions |-> NoOne]
  /\ earned = [m \in Persons |-> 0] /\ observed = 0

Entered(f, i, v) == [j \in DOMAIN f \cup {i} |-> IF j = i THEN v ELSE f[j]]
NextIds(ids, f) == {i \in ids : \A j \in DOMAIN f : j < i}
IsNext(i, ids, f) == NextIds(ids, f) # {} /\ i = Min(NextIds(ids, f))
AddMember(m, o, role) ==
  /\ IsNext(m, Persons, members) /\ IsNext(o, Titles, ownerships)
  /\ members' = Entered(members, m, role)
  /\ ownerships' = Entered(ownerships, o, OwnedBy(m))

\* create_member_with_default_ownership
CreateMember(m, o, role) ==
  /\ AddMember(m, o, role)
  /\ UNCHANGED <<holds, used, incomeVars>>

\* ensure_primary_family_member_for_user: a household that has a member has one
\* with an ownership of their own, and nothing changes.
EnsurePrimary(m, o) ==
  /\ DOMAIN members = {} /\ AddMember(m, o, "adult")
  /\ UNCHANGED <<holds, used, incomeVars>>

ChangeRole(m, role) ==
  /\ m \in DOMAIN members
  /\ members' = [members EXCEPT ![m] = role]
  /\ UNCHANGED <<ownerships, holds, used, incomeVars>>

Removed(f, S) == [i \in DOMAIN f \ S |-> f[i]]
\* fault: only links and transactions keep a member
UnusedOnly(m) == \A o \in OwnershipsOf(m) : ~InUse(o)
\* assert_member_can_be_deleted
Deletable(m) ==
  /\ \A o \in DOMAIN ownerships : m \notin DOMAIN ownerships[o].splits
  /\ \A o \in OwnershipsOf(m) : ~InUse(o)
DeleteMember(m) ==
  /\ m \in DOMAIN members /\ Deletable(m)
  /\ members' = Removed(members, {m}) /\ ownerships' = Removed(ownerships, OwnershipsOf(m))
  /\ UNCHANGED <<holds, used, incomeVars>>

CreateOwnership(o, payload) ==
  /\ IsNext(o, Titles, ownerships) /\ Cardinality(DOMAIN ownerships) < MaxTitles
  /\ Valid(payload)
  /\ ownerships' = Entered(ownerships, o, payload)
  /\ UNCHANGED <<members, holds, used, incomeVars>>

\* One that is in use may only change what its shares follow.
MayBecome(o, payload) ==
  /\ IsShared(ownerships[o])
  /\ InUse(o) => payload.kind = "shared" /\ payload.splits = ownerships[o].splits
UpdateOwnership(o, payload) ==
  /\ o \in DOMAIN ownerships /\ MayBecome(o, payload) /\ Valid(payload)
  /\ ownerships' = [ownerships EXCEPT ![o] = payload]
  /\ UNCHANGED <<members, holds, used, incomeVars>>

MayBeDeleted(o) == IsShared(ownerships[o]) /\ ~InUse(o)
DeleteOwnership(o) ==
  /\ o \in DOMAIN ownerships /\ MayBeDeleted(o)
  /\ ownerships' = Removed(ownerships, {o})
  /\ UNCHANGED <<members, holds, used, incomeVars>>

\* sync_ownership_link
Link(p, o) ==
  /\ o \in DOMAIN ownerships \cup {NoOne}
  /\ holds' = [holds EXCEPT ![p] = o]
  /\ UNCHANGED <<members, ownerships, used, incomeVars>>

\* A transaction or budget entry names the ownership.
Name(o) ==
  /\ o \in DOMAIN ownerships
  /\ used' = used \cup {o}
  /\ UNCHANGED <<members, ownerships, holds, incomeVars>>

\* The window moves and transactions are posted.
Earn(e, months) ==
  /\ earned' = e /\ observed' = months
  /\ UNCHANGED <<members, ownerships, holds, used>>

MembershipsNext ==
  \/ \E m \in Persons, o \in Titles, role \in {"adult", "child"} : CreateMember(m, o, role)
  \/ \E m \in Persons, o \in Titles : EnsurePrimary(m, o)
  \/ \E m \in Persons : DeleteMember(m) \/ \E role \in {"adult", "child"} : ChangeRole(m, role)
  \/ \E o \in Titles, payload \in Payloads : CreateOwnership(o, payload) \/ UpdateOwnership(o, payload)
  \/ \E o \in Titles : DeleteOwnership(o) \/ Name(o)
  \/ \E p \in Positions, o \in Titles \cup {NoOne} : Link(p, o)
  \/ \E e \in Earnings, months \in {2, 12} : Earn(e, months)

MembershipsSpec == MembershipsInit /\ [][MembershipsNext]_membershipVars

-----------------------------------------------------------------------------
MembershipsTypeOK ==
  /\ DOMAIN members \subseteq Persons /\ \A m \in DOMAIN members : members[m] \in MemberRoles
  /\ DOMAIN ownerships \subseteq Titles
  /\ \A o \in DOMAIN ownerships : IsOwnership(ownerships[o]) /\ IsSplit(ownerships[o].splits)
  /\ holds \in LinkRows /\ used \subseteq Titles
  /\ earned \in [Persons -> Int] /\ observed \in 0..12

\* Whatever is created, changed, linked and deleted in whatever order, a
\* position or a transaction never names an ownership that is gone, and an
\* ownership is always divided, as a whole, among members that still exist; and
\* every member can own something alone.
OwnersHold ==
  /\ used \cup {holds[p] : p \in Positions} \subseteq DOMAIN ownerships \cup {NoOne}
  /\ \A o \in DOMAIN ownerships :
       LET splits == IF ownerships[o].dynamic THEN ownerships[o].splits ELSE Allocation(ownerships[o]) IN
       DOMAIN splits \subseteq DOMAIN members /\ SumUp(splits, DOMAIN splits) = Whole
  /\ \A m \in DOMAIN members : OwnershipsOf(m) # {}

\* The shares of an ownership that follows income are all of it, and nobody's is
\* further from what they earned than the rounding of everybody's.
SharesFollowIncome ==
  \A o \in DOMAIN ownerships :
    LET v == Allocation(ownerships[o])  S == DOMAIN v  total == SumUp(earned, S) IN
    ownerships[o].dynamic /\ v # Unresolvable =>
      /\ SumUp(v, S) = Whole
      /\ \A m \in S : 2 * Max({v[m] * total - earned[m] * Whole, earned[m] * Whole - v[m] * total})
                        <= total * Max({1, Cardinality(S) - 1})
=============================================================================
