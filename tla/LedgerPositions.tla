-------------------------- MODULE LedgerPositions --------------------------
(***************************************************************************)
(* Net worth positions that follow the ledger: which account each position *)
(* takes its value from, the opening balance written for it, the starting  *)
(* date that booked movements pull back, and the two ways its value is     *)
(* read, from the entries and from the cache that the lists and timelines  *)
(* are built with.                                                         *)
(*                                                                         *)
(* Saving a position commits the position first and links its account and  *)
(* writes its opening afterwards, so a process may stop in between.        *)
(* Only the leg on the position's account is kept of a movement.           *)
(***************************************************************************)
EXTENDS Integers, FiniteSets, FiniteSetsExt, Functions

CONSTANTS
  Holdings,      \* positions, each of them created at most once
  HoldingKinds,  \* the assignments of a kind (cash, investments, debt) to them
  Accts,         \* ledger accounts, opened from the start or when one is needed
  DebtAccts,     \* the liability accounts among them; the others are assets
  FirstAccts,    \* the accounts open from the start
  Days,          \* dates
  OpeningSums,   \* amounts a position may state
  EntrySums,     \* amounts other movements leave in an account
  MaxEntries,    \* bound: entries alive at once
  MaxChanges,    \* bound: changes to positions and accounts
  MaxByHand      \* bound: movements booked, dated again or deleted by hand

ASSUME HoldingAssumption ==
  /\ IsFiniteSet(Accts) /\ Holdings \union Accts \subseteq Nat \ {0}
  /\ DebtAccts \subseteq Accts /\ FirstAccts \subseteq Accts
  /\ Days \subseteq Nat /\ Days # {} /\ OpeningSums \subseteq Int /\ EntrySums \subseteq Int
  /\ MaxEntries \in Nat /\ MaxChanges \in Nat /\ MaxByHand \in Nat

VARIABLES
  kind,      \* the kind of each position
  holdings,  \* each position: alive, unborn or gone, its mode, account, start and amount
  holder,    \* each account: the position it is marked as belonging to
  accts,     \* the accounts that exist
  opened,    \* the accounts that ever existed: an identity is not used again
  entries,   \* identity -> account, day, amount (debit positive), opening note and position
  changes,   \* how many changes the positions and accounts have had, and the movements
  halfSaved, \* history: positions whose last save stopped before writing the opening
  touchedUp  \* history: positions whose opening was edited or deleted by hand since

holdingVars == <<kind, holdings, holder, accts, opened, entries, changes, halfSaved, touchedUp>>

Nil == 0
Fits(p, a) == (a \in DebtAccts) = (kind[p] = "debt")
Alive == {p \in Holdings : holdings[p].life = "alive"}
Followed(p) == p \in Alive /\ holdings[p].mode = "accounting"

EntryIds == 1..MaxEntries
EntryOf(a, d, x, note, owner) ==
  [book |-> a, day |-> d, amount |-> x, note |-> note, owner |-> owner]
PutEntry(E, i, e)   == [j \in DOMAIN E \union {i} |-> IF j = i THEN e ELSE E[j]]
DropEntries(E, S)   == [j \in DOMAIN E \ S |-> E[j]]
NextEntry(E) == IF DOMAIN E = {} THEN 1 ELSE Max(DOMAIN E) + 1

\* The last of some entries by date and identity.
LastEntry(E, S) ==
  CHOOSE i \in S : \A j \in S : E[j].day < E[i].day \/ (E[j].day = E[i].day /\ j <= i)

-----------------------------------------------------------------------------
(* The opening balance of a position *)

\* The side of the opening: a debt is opened by a credit.
OpeningSide(p, x) == IF kind[p] = "debt" THEN -x ELSE x

OpeningsOf(E, p, a) == {i \in DOMAIN E : E[i].note = p /\ E[i].book = a}

\* Writes the opening of p on account a, corrects the one there, or with a zero removes it.
SyncOpening(E, p, a, x, d) ==
  LET existing == OpeningsOf(E, p, a)
      opening  == EntryOf(a, d, OpeningSide(p, x), p, p)
  IN CASE x = 0 -> IF existing = {} THEN E ELSE DropEntries(E, {LastEntry(E, existing)})
       [] OTHER -> PutEntry(E, IF existing = {} THEN NextEntry(E) ELSE LastEntry(E, existing), opening)

OpeningPossible(E, p, a, x) ==
  x = 0 \/ OpeningsOf(E, p, a) # {} \/ NextEntry(E) \in EntryIds

-----------------------------------------------------------------------------
(* The account of a position *)

NeedsReview(p, a) == a \notin accts \/ holder[a] \notin {Nil, p}

\* The accounts marked as p's, when it names none.
OwnAccts(p) == {a \in accts : Fits(p, a) /\ holder[a] = p}

NewAcct(p) == {a \in Accts \ opened : Fits(p, a)}

\* What linking leaves behind: the account of the position, or Nil when it needs review.
Linked(p, a) ==
  IF a # Nil THEN a
  ELSE CASE Cardinality(OwnAccts(p)) = 1 -> Max(OwnAccts(p))
         [] Cardinality(OwnAccts(p)) > 1 -> Nil
         [] OTHER -> Min(NewAcct(p))

LinkPossible(p, a) == (a = Nil /\ OwnAccts(p) = {}) => NewAcct(p) # {}

LinkAcct(p, a) ==
  LET b == Linked(p, a) IN
  /\ accts' = IF a = Nil /\ b # Nil THEN accts \union {b} ELSE accts
  /\ opened' = opened \union accts'
  /\ holder' = IF b # Nil /\ ~(a # Nil /\ NeedsReview(p, a)) THEN [holder EXCEPT ![b] = p] ELSE holder

LinkAllowed(p, a) == a \in accts /\ Fits(p, a) /\ holder[a] \in {Nil, p}

-----------------------------------------------------------------------------
HoldingInit ==
  /\ kind \in HoldingKinds
  /\ holdings = [p \in Holdings |-> [life |-> "unborn", mode |-> "manual", link |-> Nil,
                                     start |-> Min(Days), stated |-> 0]]
  /\ holder = [a \in Accts |-> Nil]
  /\ accts = FirstAccts /\ opened = FirstAccts
  /\ entries = [i \in {} |-> Nil]
  /\ changes = [positions |-> 0, movements |-> 0] /\ halfSaved = {} /\ touchedUp = {}

Change  == changes.positions < MaxChanges /\ changes' = [changes EXCEPT !.positions = @ + 1]
Booking == changes.movements < MaxByHand /\ changes' = [changes EXCEPT !.movements = @ + 1]

Saved(p, m, a, d, x) ==
  [life |-> "alive", mode |-> m, link |-> a, start |-> d, stated |-> x]

\* Creating or editing a position, in full.
SaveHolding(p, m, a, d, x) ==
  LET b == IF m = "accounting" THEN Linked(p, a) ELSE a IN
  /\ Change /\ holdings[p].life # "gone"
  /\ m = "accounting" => LinkPossible(p, a) /\ (a # Nil => LinkAllowed(p, a))
  /\ holdings' = [holdings EXCEPT ![p] = Saved(p, m, b, d, x)]
  /\ IF m = "accounting"
     THEN /\ LinkAcct(p, a)
          /\ IF b = Nil THEN UNCHANGED <<entries, halfSaved, touchedUp>>
             ELSE /\ OpeningPossible(entries, p, b, x)
                  /\ entries' = SyncOpening(entries, p, b, x, d)
                  /\ halfSaved' = halfSaved \ {p}
                  /\ touchedUp' = touchedUp \ {p}
     ELSE UNCHANGED <<holder, accts, opened, entries, halfSaved, touchedUp>>
  /\ UNCHANGED kind

\* The process stops once the position is committed.
SaveInterrupted(p, m, a, d, x) ==
  /\ Change /\ holdings[p].life # "gone"
  /\ m = "accounting" /\ a # Nil => LinkAllowed(p, a)
  /\ holdings' = [holdings EXCEPT ![p] = Saved(p, m, a, d, x)]
  /\ halfSaved' = halfSaved \union {p}
  /\ UNCHANGED <<kind, holder, accts, opened, entries, touchedUp>>

\* Reading a position links its account when it follows the ledger, and writes no opening.
ReadHolding(p) ==
  LET a == holdings[p].link IN
  /\ Followed(p) /\ LinkPossible(p, a)
  /\ LinkAcct(p, a)
  /\ holdings' = [holdings EXCEPT ![p].link = Linked(p, a)]
  /\ halfSaved' = IF a = Nil THEN halfSaved \union {p} ELSE halfSaved
  /\ UNCHANGED <<kind, entries, changes, touchedUp>>

\* Deleting a position frees its accounts and leaves its opening in the ledger.
DeleteHolding(p) ==
  /\ Change /\ p \in Alive
  /\ holdings' = [holdings EXCEPT ![p].life = "gone"]
  /\ holder' = [a \in Accts |-> IF holder[a] = p THEN Nil ELSE holder[a]]
  /\ entries' = [i \in DOMAIN entries |->
                   IF entries[i].owner = p THEN [entries[i] EXCEPT !.owner = Nil] ELSE entries[i]]
  /\ halfSaved' = halfSaved \ {p} /\ touchedUp' = touchedUp \ {p}
  /\ UNCHANGED <<kind, accts, opened>>

\* The account is marked by hand as another position's, or as nobody's.
RelinkAcct(a, q) ==
  /\ Change /\ a \in accts /\ q # holder[a]
  /\ q = Nil \/ (q \in Alive /\ Fits(q, a))
  /\ holder' = [holder EXCEPT ![a] = q]
  /\ UNCHANGED <<kind, holdings, accts, opened, entries, halfSaved, touchedUp>>

\* Deleting an account takes its movements, and the position marked on it back to manual.
DeleteAcct(a) ==
  LET p == holder[a] IN
  /\ Change /\ a \in accts
  /\ accts' = accts \ {a}
  /\ entries' = DropEntries(entries, {i \in DOMAIN entries : entries[i].book = a})
  /\ holdings' = IF p # Nil /\ holdings[p].link = a
                 THEN [holdings EXCEPT ![p].link = Nil, ![p].mode = "manual"] ELSE holdings
  /\ holder' = [holder EXCEPT ![a] = Nil]
  /\ UNCHANGED <<kind, opened, halfSaved, touchedUp>>

\* A booked movement pulls back the start of the position marked on its account.
PulledBack(H, a, d) ==
  LET p == holder[a] IN
  IF p # Nil /\ H[p].mode = "accounting" /\ d < H[p].start THEN [H EXCEPT ![p].start = d] ELSE H

PostEntry(a, d, x) ==
  /\ Booking /\ a \in accts /\ NextEntry(entries) \in EntryIds
  /\ entries' = PutEntry(entries, NextEntry(entries), EntryOf(a, d, x, Nil, Nil))
  /\ holdings' = PulledBack(holdings, a, d)
  /\ UNCHANGED <<kind, holder, accts, opened, halfSaved, touchedUp>>

RedateEntry(i, d) ==
  /\ Booking
  /\ entries' = [entries EXCEPT ![i].day = d]
  /\ holdings' = PulledBack(holdings, entries[i].book, d)
  /\ touchedUp' = touchedUp \union ({entries[i].note} \ {Nil})
  /\ UNCHANGED <<kind, holder, accts, opened, halfSaved>>

DeleteEntry(i) ==
  /\ Booking
  /\ entries' = DropEntries(entries, {i})
  /\ touchedUp' = touchedUp \union ({entries[i].note} \ {Nil})
  /\ UNCHANGED <<kind, holdings, holder, accts, opened, halfSaved>>

Modes == {"manual", "accounting"}
IsHolding(h) ==
  /\ h.life \in {"unborn", "alive", "gone"} /\ h.mode \in Modes
  /\ h.link \in Accts \union {Nil} /\ h.start \in Days /\ h.stated \in OpeningSums \union {0}

HoldingNext ==
  \/ \E p \in Holdings, m \in Modes, a \in Accts \union {Nil}, d \in Days, x \in OpeningSums :
       \/ SaveHolding(p, m, a, d, x)
       \/ SaveInterrupted(p, m, a, d, x)
  \/ \E p \in Holdings : ReadHolding(p) \/ DeleteHolding(p)
  \/ \E a \in Accts, q \in Holdings \union {Nil} : RelinkAcct(a, q)
  \/ \E a \in Accts : DeleteAcct(a)
  \/ \E a \in Accts, d \in Days, x \in EntrySums : PostEntry(a, d, x)
  \/ \E i \in DOMAIN entries, d \in Days : RedateEntry(i, d)
  \/ \E i \in DOMAIN entries : DeleteEntry(i)

HoldingSpec == HoldingInit /\ [][HoldingNext]_holdingVars

-----------------------------------------------------------------------------
(* The value of a position on a date *)

Unknown == "unknown"   \* the ledger does not say: the position's own amounts decide

EntriesOn(a) == {i \in DOMAIN entries : entries[i].book = a}
SumOf(p, S) ==
  LET total == SumFunctionOnSet([i \in DOMAIN entries |-> entries[i].amount], S)
  IN IF kind[p] = "debt" THEN -total ELSE total

\* A balance as the position shows it: a debt is never negative.
Shown(p, x) == IF kind[p] = "debt" /\ x < 0 THEN 0 ELSE x

\* The opening that anchors the value of a position: its own, or for cash an opening
\* found on its account that belongs to nobody else.
Anchors(p, a) ==
  LET own == OpeningsOf(entries, p, a) IN
  IF own # {} \/ kind[p] # "cash" THEN own
  ELSE {i \in EntriesOn(a) : entries[i].note # Nil /\ entries[i].owner \in {Nil, p}}

FromEntries(p, t) ==
  LET a       == holdings[p].link
      seen    == {i \in EntriesOn(a) : entries[i].day <= t}
      anchors == IF kind[p] = "investments" THEN {} ELSE Anchors(p, a)
      from    == entries[LastEntry(entries, anchors)].day
  IN IF NeedsReview(p, a) \/ seen = {} THEN Unknown
     ELSE IF anchors # {} /\ t >= from
          THEN Shown(p, SumOf(p, {i \in seen : entries[i].day >= from}))
          ELSE Shown(p, SumOf(p, seen))

\* The cache looks legacy openings up for all the positions that lack one at once.
Legacy == {p \in Holdings : /\ Followed(p) /\ kind[p] = "cash" /\ holdings[p].link # Nil
                            /\ OpeningsOf(entries, p, holdings[p].link) = {}}

\* A fault: the cache takes the opening of the position wherever it was written.
CachedAnywhere(p, a) == {i \in DOMAIN entries : entries[i].note = p}

CachedAnchors(p, a) ==
  LET own == OpeningsOf(entries, p, a) IN
  IF own # {} \/ kind[p] # "cash" THEN own
  ELSE {i \in DOMAIN entries :
          /\ entries[i].note # Nil
          /\ entries[i].book \in {holdings[q].link : q \in Legacy}
          /\ entries[i].owner = p \/ (entries[i].owner = Nil /\ entries[i].book = a)}

FromCache(p, t) ==
  LET a       == holdings[p].link
      seen    == {i \in EntriesOn(a) : entries[i].day <= t}
      anchors == IF kind[p] = "investments" THEN {} ELSE CachedAnchors(p, a)
      from    == entries[LastEntry(entries, anchors)].day
      before  == {i \in seen : entries[i].day < from}
  IN IF NeedsReview(p, a) \/ seen = {} THEN Unknown
     ELSE IF anchors # {} /\ t >= from
          THEN Shown(p, SumOf(p, seen) - SumOf(p, before))
          ELSE Shown(p, SumOf(p, seen))

-----------------------------------------------------------------------------
HoldingTypeOK ==
  /\ kind \in HoldingKinds
  /\ \A p \in Holdings : IsHolding(holdings[p])
  /\ holder \in [Accts -> Holdings \union {Nil}] /\ accts \subseteq Accts
  /\ DOMAIN entries \subseteq EntryIds
  /\ \A i \in DOMAIN entries : entries[i].book \in accts /\ entries[i].day \in Days
  /\ halfSaved \subseteq Holdings /\ touchedUp \subseteq Holdings

\* The account a position follows holds exactly one opening of it, for the amount it
\* states, or none when it states nothing: through saves, changes of account, deletions
\* and reads, unless the opening was edited by hand or the save never reached it.
OpeningIsStated ==
  \A p \in Holdings :
    (Followed(p) /\ p \notin halfSaved \union touchedUp /\ holdings[p].link \in accts) =>
      LET own == {i \in EntriesOn(holdings[p].link) : entries[i].note = p} IN
      /\ Cardinality(own) = (IF holdings[p].stated = 0 THEN 0 ELSE 1)
      /\ SumOf(p, own) = holdings[p].stated

\* An account where p's opening stands is followed by another position: the cache then
\* anchors p on an account that is no longer its own.
Crossed(p) ==
  \E q \in Holdings \ {p}, i \in DOMAIN entries :
    Followed(q) /\ entries[i].owner = p /\ entries[i].book = holdings[q].link

\* The list of positions, valued from the cache, and the detail of a position, valued from
\* its entries, never show two different amounts for one position and one date, unless
\* another position follows an account where it left its opening.
ReadingsAgree ==
  \A p \in Holdings, t \in Days :
    Followed(p) /\ holdings[p].link # Nil /\ ~Crossed(p) => FromEntries(p, t) = FromCache(p, t)

\* What a position says and what its account holds are the same, whichever way they are read.
PositionsAgree == OpeningIsStated /\ ReadingsAgree
=============================================================================
