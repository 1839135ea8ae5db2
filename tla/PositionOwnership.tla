-------------------------- MODULE PositionOwnership --------------------------
(***************************************************************************)
(* Who has owned an investment, and since when (backend/portfolio).  The   *)
(* position of an asset has ownership periods: the household states them,  *)
(* and one is derived from the ownership the asset is linked to in Net     *)
(* worth, by a callback that runs once the request that changed the link   *)
(* or the asset has committed.  One asset; dates are days.                 *)
(***************************************************************************)
EXTENDS Integers, FiniteSets, FiniteSetsExt

CONSTANTS
  HistoryDays, \* bound: days of the history, one after another
  Contracts,   \* ownerships the asset may be linked to
  SharesOf,    \* contract -> member -> percentage; none if it has to be worked out each month
  StatedShares \* shares a request may state

Endless == 1000
Unlinked == "unlinked"
IssueCodes == {"missing", "dynamic"}
IsShares(f) == \A m \in DOMAIN f : f[m] \in 0..100
ASSUME OwnershipAssumption ==
  /\ \A c \in Contracts : IsShares(SharesOf[c])
  /\ HistoryDays \subseteq 1..(Endless - 1) /\ \A d, e \in HistoryDays : d..e \subseteq HistoryDays
  /\ Unlinked \notin Contracts
  /\ DOMAIN SharesOf = Contracts

VARIABLES
  openedOn,    \* the day the position was opened on, or 0: there is no position yet
  linkedTo,    \* ownership of the asset
  called,      \* a callback is due
  stretches,   \* first day -> [last, title, shares]
  issues,      \* open migration issues
  backdated    \* history: a stretch was derived when the position already had others

ownershipVars == <<openedOn, linkedTo, called, stretches, issues, backdated>>

-----------------------------------------------------------------------------
Starts == DOMAIN stretches
Following(d) == \E s \in Starts : s > d
TitlesOn(d) == {stretches[s].title : s \in {b \in Starts : b <= d /\ d <= stretches[b].last}}

OwnershipInit ==
  /\ openedOn = 0 /\ linkedTo = Unlinked /\ called = FALSE
  /\ stretches = <<>> /\ issues = {} /\ backdated = FALSE

\* A position is there for an asset that the portfolio found, or that the
\* household placed itself.
OpenPosition(d) ==
  /\ openedOn = 0
  /\ openedOn' = d
  /\ UNCHANGED <<linkedTo, called, stretches, issues, backdated>>

\* PATCH of the position
MovePosition(d) ==
  /\ openedOn # 0
  /\ openedOn' = d
  /\ UNCHANGED <<linkedTo, called, stretches, issues, backdated>>

\* sync_ownership_link, and saving the asset
LinkAsset(c) ==
  /\ linkedTo' = c /\ called' = TRUE
  /\ UNCHANGED <<openedOn, stretches, issues, backdated>>

\* The process dies between the commit and the callback.
LoseCallback ==
  /\ called /\ called' = FALSE
  /\ UNCHANGED <<openedOn, linkedTo, stretches, issues, backdated>>

\* A share that the stretch already has is kept.
Completed(shares, more) ==
  [m \in DOMAIN shares \cup DOMAIN more |-> IF m \in DOMAIN shares THEN shares[m] ELSE more[m]]
Derived(c) ==
  IF openedOn \in Starts THEN [stretches[openedOn] EXCEPT !.shares = Completed(@, SharesOf[c])]
  ELSE [last |-> Endless, title |-> c, shares |-> SharesOf[c]]
With(d, stretch, others) == [s \in DOMAIN others \cup {d} |-> IF s = d THEN stretch ELSE others[s]]

\* _bootstrap_ownership
DeriveOwnership ==
  /\ called /\ called' = FALSE
  /\ \/ openedOn = 0 /\ UNCHANGED <<stretches, issues, backdated>>
     \/ /\ openedOn # 0 /\ linkedTo = Unlinked
        /\ issues' = issues \cup {"missing"} /\ UNCHANGED <<stretches, backdated>>
     \/ /\ openedOn # 0 /\ linkedTo # Unlinked
        /\ stretches' = With(openedOn, Derived(linkedTo), stretches)
        /\ issues' = IF SharesOf[linkedTo] = <<>> THEN (issues \ {"missing"}) \cup {"dynamic"} ELSE {}
        /\ backdated' = (backdated \/ (openedOn \notin Starts /\ stretches # <<>>))
  /\ UNCHANGED <<openedOn, linkedTo>>

\* validate_ownership_period.  An open stretch that began earlier is the one
\* the new stretch follows.
Precedes(s, d) == s < d /\ stretches[s].last = Endless
\* fault: no open stretch is in the way
OpenIgnored(d, e) == \E s \in Starts : stretches[s].last # Endless /\ stretches[s].last >= d /\ s <= e
Covered(d, e) == \E s \in Starts : stretches[s].last >= d /\ s <= e /\ ~Precedes(s, d)

\* close_open_ownership_period_before
ClosedBefore(d) ==
  LET open == {s \in Starts : Precedes(s, d)} IN
  IF open = {} THEN stretches ELSE [stretches EXCEPT ![Max(open)].last = d - 1]

\* create of the serializer.  The first days are unique.
StateStretch(d, e, c, shares) ==
  /\ openedOn # 0 /\ d <= e /\ d \notin Starts /\ ~Covered(d, e)
  /\ stretches' = With(d, [last |-> e, title |-> c, shares |-> shares], ClosedBefore(d))
  /\ UNCHANGED <<openedOn, linkedTo, called, issues, backdated>>

Eve(d) == {s \in Starts : stretches[s].last = d - 1}
\* fault: a stretch in the middle may be undone too
AnyUndone(d) == TRUE
\* delete of the model
MayBeUndone(d) == ~Following(d)
\* perform_destroy of the view
UndoStretch(d) ==
  /\ d \in Starts /\ MayBeUndone(d)
  /\ LET kept == [s \in Starts \ {d} |-> stretches[s]]  eve == Eve(d) \ {d} IN
     stretches' = IF eve = {} \/ Following(d) THEN kept ELSE [kept EXCEPT ![Max(eve)].last = Endless]
  /\ UNCHANGED <<openedOn, linkedTo, called, issues, backdated>>

OwnershipNext ==
  \/ \E d \in HistoryDays : OpenPosition(d) \/ MovePosition(d) \/ UndoStretch(d)
  \/ \E c \in Contracts \cup {Unlinked} : LinkAsset(c)
  \/ DeriveOwnership \/ LoseCallback
  \/ \E d \in HistoryDays, e \in HistoryDays \cup {Endless}, c \in Contracts, shares \in StatedShares :
       StateStretch(d, e, c, shares)

OwnershipSpec == OwnershipInit /\ [][OwnershipNext]_ownershipVars

-----------------------------------------------------------------------------
OwnershipTypeOK ==
  /\ openedOn \in HistoryDays \cup {0} /\ linkedTo \in Contracts \cup {Unlinked}
  /\ called \in BOOLEAN /\ backdated \in BOOLEAN
  /\ issues \subseteq IssueCodes /\ Starts \subseteq HistoryDays
  /\ \A s \in Starts : stretches[s].last \in HistoryDays \cup {Endless} /\ stretches[s].title \in Contracts

\* However stretches are stated, undone and derived from the link, at most one
\* ownership covers a day, and at most one stretch is open; unless a stretch was
\* derived for a position that already had others, which nothing compares.
OneTitleADay ==
  ~backdated => \A s, t \in Starts : s < t => stretches[s].last < t

\* Past ownership is not rewritten: a day that had an owner only changes hands
\* in the last stretch, by the step that states it or undoes it.
PastStands ==
  [][~backdated' =>
       \A d \in HistoryDays : TitlesOn(d) # {} /\ TitlesOn(d)' # TitlesOn(d) =>
         \A s \in Starts \cup Starts' : s <= d]_ownershipVars
=============================================================================
