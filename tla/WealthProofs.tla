----------------------------- MODULE WealthProofs -----------------------------
(***************************************************************************)
(* Proofs about three parts of the household's wealth: the portfolio's     *)
(* imports, for any files, rows, operations and cash; the owners of its    *)
(* positions, for any days, ownerships and shares; and the baskets of new  *)
(* money, for any portfolio, policy and requests.                          *)
(***************************************************************************)
EXTENDS PortfolioImport, PositionOwnership, ContributionBaskets, SetLemmas, SequenceTheorems, TLAPS

-----------------------------------------------------------------------------
(* Imports: whatever is previewed, confirmed and ended by the database, the *)
(* batches say what the ledger holds.                                       *)

Counts(bag) == \A x : Copies(x, bag) \in Nat

\* A batch is there for every booked row, and what a preview is about to store says
\* of the rows confirmed what the batch says.
RowsTyped == \A f \in DOMAIN batches : RowsOf(f) \in [DOMAIN f -> Statuses]
KnownOnly == \A f \in Files \ DOMAIN batches : \A i \in DOMAIN f : Copies(RowAt(f, i), bookings) = 0
PreviewsAgree ==
  /\ previewing = [f \in Files |-> previewing[f]]
  /\ \A f \in Files : previewing[f] # NotStored =>
       /\ f \in DOMAIN batches /\ previewing[f] \in [DOMAIN f -> Statuses]
       /\ \A i \in DOMAIN f : previewing[f][i] = "confirmed" <=> RowsOf(f)[i] = "confirmed"
ConfirmsKnown ==
  /\ confirming = [f \in Files |-> confirming[f]]
  /\ \A f \in Files : confirming[f] # NotBooking => f \in DOMAIN batches

\* Inductive.
ImportInv ==
  /\ DOMAIN batches \subseteq Files /\ batches = [f \in DOMAIN batches |-> batches[f]]
  /\ Counts(bookings)
  /\ RowsTyped /\ KnownOnly /\ PreviewsAgree /\ ConfirmsKnown /\ RowsBookedOnce /\ ConfirmedMeansAll

-----------------------------------------------------------------------------
(* What is booked *)

LEMMA BookingAdds ==
  ASSUME NEW b, Counts(b), NEW y, NEW x
  PROVE  /\ Copies(x, b (+) SetToBag({y})) = Copies(x, b) + (IF x = y THEN 1 ELSE 0)
         /\ Copies(x, b (+) SetToBag({y})) \in Nat
<1>1. Copies(x, b) = IF x \in DOMAIN b THEN b[x] ELSE 0
  BY DEF Copies, BagIn, BagToSet
<1>2. PICK n \in Nat : Copies(x, b) = n
  BY DEF Counts
<1>3. Copies(x, b (+) SetToBag({y})) =
        IF x = y THEN (IF x \in DOMAIN b THEN b[x] ELSE 0) + 1
                 ELSE (IF x \in DOMAIN b THEN b[x] + 0 ELSE 0)
  BY DEF (+), Copies, BagIn, BagToSet, SetToBag
<1>4. CASE x = y
  <2>1. Copies(x, b (+) SetToBag({y})) = n + 1
    BY <1>1, <1>2, <1>3, <1>4
  <2> QED BY <1>2, <1>4, <2>1
<1>5. CASE x # y
  <2>1. Copies(x, b (+) SetToBag({y})) = n
    BY <1>1, <1>2, <1>3, <1>5
  <2> QED BY <1>2, <1>5, <2>1
<1> QED
  BY <1>4, <1>5

\* The state after the rows of a file up to the nth.
RowByRow(f, upTo, n) ==
  IF n = 0 THEN Now
  ELSE IF n \in Selected(f) THEN Book(f[n], RowAt(f, n), upTo[n - 1]) ELSE upTo[n - 1]
IsOutcome(f, upTo) == upTo = [n \in 0..Len(f) |-> RowByRow(f, upTo, n)]

LEMMA OutcomeExists ==
  ASSUME NEW f, Len(f) \in Nat
  PROVE  \E upTo : IsOutcome(f, upTo)
<1> DEFINE good(n) == \E g : g = [k \in 0..n |-> RowByRow(f, g, k)]
           bad == {n \in Nat : ~good(n)}
<1>1. ASSUME NEW n \in Nat, n = 0 \/ good(n - 1) PROVE good(n)
  <2>1. CASE n = 0
    <3> DEFINE h == [k \in 0..0 |-> Now]
    <3>1. h = [k \in 0..n |-> RowByRow(f, h, k)]
      BY <2>1 DEF RowByRow
    <3> QED BY <3>1
  <2>2. CASE n # 0
    <3>1. PICK g : g = [k \in 0..(n - 1) |-> RowByRow(f, g, k)]
      BY <1>1, <2>2
    <3> DEFINE h == [k \in 0..n |-> RowByRow(f, g, k)]
    <3>2. ASSUME NEW k \in 0..n PROVE RowByRow(f, h, k) = RowByRow(f, g, k)
      <4>1. CASE k = 0
        BY <4>1 DEF RowByRow
      <4>2. CASE k # 0
        <5>1. k - 1 \in 0..(n - 1) /\ k - 1 \in 0..n
          BY <4>2
        <5>2. g[k - 1] = RowByRow(f, g, k - 1) /\ h[k - 1] = RowByRow(f, g, k - 1)
          BY <3>1, <5>1
        <5> HIDE DEF h
        <5> QED BY <4>2, <5>2 DEF RowByRow
      <4> QED BY <4>1, <4>2
    <3>3. h = [k \in 0..n |-> RowByRow(f, h, k)]
      <4>1. h = [k \in 0..n |-> RowByRow(f, g, k)]
        OBVIOUS
      <4> HIDE DEF h
      <4> QED BY <3>2, <4>1
    <3> HIDE DEF h
    <3> QED BY <3>3
  <2> QED BY <2>1, <2>2
<1>2. bad = {}
  <2> SUFFICES ASSUME bad # {} PROVE FALSE
    OBVIOUS
  <2> HIDE DEF good
  <2>1. PICK n \in bad : \A k \in bad : n <= k
    BY LeastNatural
  <2>2. n = 0 \/ good(n - 1)
    BY <2>1
  <2> QED BY <1>1, <2>1, <2>2
<1>3. good(Len(f))
  <2> HIDE DEF good
  <2> QED BY <1>2
<1> QED
  BY <1>3 DEF IsOutcome

LEMMA OutcomeRows ==
  ASSUME NEW f, Len(f) \in Nat
  PROVE  \E upTo : IsOutcome(f, upTo) /\ Outcome(f) = upTo[Len(f)]
<1>1. PICK upTo : upTo = (CHOOSE u : IsOutcome(f, u))
  OBVIOUS
<1>2. IsOutcome(f, upTo)
  BY <1>1, OutcomeExists
<1>3. Outcome(f) = (CHOOSE u : IsOutcome(f, u))[Len(f)]
  BY DEF Outcome, IsOutcome, RowByRow
<1> QED
  BY <1>1, <1>2, <1>3

\* A file books each of the rows selected once and nothing else.
LEMMA OutcomeBooks ==
  ASSUME NEW f, Len(f) \in Nat, DOMAIN f = 1..Len(f), Counts(bookings), Outcome(f).ok
  PROVE  /\ Counts(Outcome(f).bookings)
         /\ \A x : Copies(x, Outcome(f).bookings) =
                    Copies(x, bookings) + (IF \E i \in Selected(f) : x = RowAt(f, i) THEN 1 ELSE 0)
<1>1. PICK upTo : IsOutcome(f, upTo) /\ Outcome(f) = upTo[Len(f)]
  BY OutcomeRows
<1> DEFINE chosen(n) == {i \in Selected(f) : i <= n}
           booked(x, n) == Copies(x, bookings) + (IF \E i \in chosen(n) : x = RowAt(f, i) THEN 1 ELSE 0)
           fine(n) == upTo[n].ok => \A x : Copies(x, upTo[n].bookings) = booked(x, n)
           bad == {n \in 0..Len(f) : ~fine(n)}
<1>2. \A n \in 0..Len(f) : upTo[n] = RowByRow(f, upTo, n)
  BY <1>1 DEF IsOutcome
<1>3. \A x, n : booked(x, n) \in Nat
  BY DEF Counts
<1>4. ASSUME NEW n \in 0..Len(f), n # 0 => fine(n - 1) PROVE fine(n)
  <2>1. CASE n = 0
    <3>1. upTo[n].bookings = bookings
      BY <1>2, <2>1 DEF RowByRow, Now
    <3>2. chosen(0) = {}
      BY DEF Selected
    <3> QED BY <2>1, <3>1, <3>2 DEF Counts
  <2>2. CASE n # 0 /\ n \notin Selected(f)
    <3>1. upTo[n] = upTo[n - 1]
      BY <1>2, <2>2 DEF RowByRow
    <3>2. chosen(n) = chosen(n - 1)
      BY <2>2 DEF Selected
    <3> QED BY <1>4, <2>2, <3>1, <3>2
  <2>3. CASE n # 0 /\ n \in Selected(f)
    <3>1. upTo[n] = Book(f[n], RowAt(f, n), upTo[n - 1])
      BY <1>2, <2>3 DEF RowByRow
    <3>2. SUFFICES ASSUME upTo[n].ok, NEW x
                   PROVE  Copies(x, upTo[n].bookings) = booked(x, n)
      OBVIOUS
    <3>3. /\ upTo[n - 1].ok
          /\ upTo[n].bookings = upTo[n - 1].bookings (+) SetToBag({RowAt(f, n)})
      BY <3>1, <3>2 DEF Book, BookedFrom, Failed
    <3>4. \A y : Copies(y, upTo[n - 1].bookings) = booked(y, n - 1)
      BY <1>4, <2>3, <3>3
    <3>5. Counts(upTo[n - 1].bookings)
      <4> HIDE DEF booked
      <4> QED BY <1>3, <3>4 DEF Counts
    <3>6. Copies(x, upTo[n].bookings) = booked(x, n - 1) + (IF x = RowAt(f, n) THEN 1 ELSE 0)
      <4>1. PICK b, y : b = upTo[n - 1].bookings /\ y = RowAt(f, n)
        OBVIOUS
      <4>2. Copies(x, b (+) SetToBag({y})) = Copies(x, b) + (IF x = y THEN 1 ELSE 0)
        BY <3>5, <4>1, BookingAdds
      <4> HIDE DEF booked
      <4> QED BY <3>3, <3>4, <4>1, <4>2
    <3>7. chosen(n) = chosen(n - 1) \cup {n} /\ n \notin chosen(n - 1)
      BY <2>3 DEF Selected
    <3>8. Copies(x, bookings) \in Nat
      BY DEF Counts
    <3>9. CASE x = RowAt(f, n)
      <4>1. \A i \in chosen(n - 1) : x # RowAt(f, i)
        BY <3>7, <3>9 DEF RowAt
      <4> HIDE DEF chosen
      <4> QED BY <3>6, <3>7, <3>8, <3>9, <4>1
    <3>10. CASE x # RowAt(f, n)
      <4>1. (\E i \in chosen(n) : x = RowAt(f, i)) <=> (\E i \in chosen(n - 1) : x = RowAt(f, i))
        <5> HIDE DEF chosen
        <5> QED BY <3>7, <3>10
      <4> HIDE DEF chosen
      <4> QED BY <3>6, <3>8, <3>10, <4>1
    <3> QED BY <3>9, <3>10
  <2> QED BY <2>1, <2>2, <2>3
<1>5. bad = {}
  <2> SUFFICES ASSUME bad # {} PROVE FALSE
    OBVIOUS
  <2>0. bad \in SUBSET Nat
    OBVIOUS
  <2> HIDE DEF fine
  <2>1. PICK n \in bad : \A k \in bad : n <= k
    BY <2>0, LeastNatural
  <2>2. n # 0 => fine(n - 1)
    BY <2>1
  <2> QED BY <1>4, <2>1, <2>2
<1>6. fine(Len(f))
  <2> HIDE DEF fine
  <2> QED BY <1>5
<1>7. chosen(Len(f)) = Selected(f)
  BY DEF Selected
<1>8. \A x : Copies(x, Outcome(f).bookings) = booked(x, Len(f))
  BY <1>1, <1>6
<1> QED
  BY <1>3, <1>7, <1>8 DEF Counts

-----------------------------------------------------------------------------
(* The steps *)

LEMMA RowsApart ==
  ASSUME NEW f, NEW g, NEW i, NEW j
  PROVE  /\ RowAt(f, i) # Typing
         /\ RowAt(f, i) = RowAt(g, j) => f = g /\ i = j
<1>1. <<f, i>> # <<>>
  OBVIOUS
<1> QED
  BY <1>1 DEF RowAt, Typing

LEMMA NothingPending ==
  ASSUME NEW f \in Files
  PROVE  /\ Len(f) \in Nat /\ DOMAIN f = 1..Len(f) /\ 1 \in DOMAIN f
         /\ \A rows \in [DOMAIN f -> Statuses] : rows # NotStored
         /\ \A chosen \in SUBSET DOMAIN f : chosen # NotBooking
<1>1. Len(f) \in Nat \ {0} /\ DOMAIN f = 1..Len(f)
  BY ImportAssumption
<1>2. 1 \in DOMAIN f /\ 0 \notin DOMAIN f
  BY <1>1
<1>3. DOMAIN NotStored = {}
  BY DEF NotStored
<1> QED
  BY <1>1, <1>2, <1>3 DEF NotBooking

LEMMA ImportInitially == ImportInit => ImportInv
<1> SUFFICES ASSUME ImportInit PROVE ImportInv
  OBVIOUS
<1>1. DOMAIN batches = {} /\ batches = [f \in DOMAIN batches |-> batches[f]]
  BY DEF ImportInit
<1>2. \A x : Copies(x, bookings) = 0
  BY DEF ImportInit, Copies, BagIn, BagToSet, EmptyBag, SetToBag
<1> QED
  BY <1>1, <1>2 DEF ImportInit, ImportInv, Counts, RowsTyped, KnownOnly, PreviewsAgree, ConfirmsKnown,
     RowsBookedOnce, ConfirmedMeansAll

\* Steps that leave the batches and what is booked of their rows alone.
LEMMA BatchesSame ==
  ASSUME ImportInv, batches' = batches, Counts(bookings)',
         \A f, i : Copies(RowAt(f, i), bookings') = Copies(RowAt(f, i), bookings),
         PreviewsAgree', ConfirmsKnown'
  PROVE  ImportInv'
BY DEF ImportInv, RowsTyped, KnownOnly, RowsBookedOnce, ConfirmedMeansAll, RowsOf

LEMMA TypedKeeps ==
  ASSUME ImportInv, NEW op \in Typed,
         PreviewOperation(op) \/ ConfirmOperation(op) \/ Expire(op)
  PROVE  ImportInv'
<1>1. UNCHANGED <<batches, previewing, confirming>>
  BY DEF PreviewOperation, ConfirmOperation, Expire
<1>2. PreviewsAgree' /\ ConfirmsKnown'
  BY <1>1 DEF ImportInv, PreviewsAgree, ConfirmsKnown, RowsOf
<1>3. CASE bookings' = bookings
  BY <1>1, <1>2, <1>3, BatchesSame DEF ImportInv, Counts
<1>4. CASE ConfirmOperation(op)
  <2>1. bookings' = bookings (+) SetToBag({Typing})
    BY <1>4 DEF ConfirmOperation, Store, BookedFrom, Now
  <2>2. PICK b, y : b = bookings /\ y = Typing
    OBVIOUS
  <2>3. Counts(b)
    BY <2>2 DEF ImportInv
  <2>4. ASSUME NEW x
        PROVE  /\ Copies(x, b (+) SetToBag({y})) = Copies(x, b) + (IF x = y THEN 1 ELSE 0)
               /\ Copies(x, b (+) SetToBag({y})) \in Nat
    BY <2>3, BookingAdds
  <2>5. \A x : Copies(x, bookings') = Copies(x, bookings) + (IF x = Typing THEN 1 ELSE 0)
               /\ Copies(x, bookings') \in Nat
    BY <2>1, <2>2, <2>4
  <2>6. ASSUME NEW f, NEW i PROVE Copies(RowAt(f, i), bookings') = Copies(RowAt(f, i), bookings)
    <3>1. Copies(RowAt(f, i), bookings) \in Nat /\ RowAt(f, i) # Typing
      BY RowsApart DEF ImportInv, Counts
    <3> QED BY <2>5, <3>1
  <2> QED BY <1>1, <1>2, <2>5, <2>6, BatchesSame DEF Counts
<1> QED
  BY <1>3, <1>4 DEF PreviewOperation, Expire, bookVars

LEMMA UploadKeeps == ASSUME ImportInv, NEW f \in Files, Upload(f) PROVE ImportInv'
<1> DEFINE new == [status |-> "uploaded", rows |-> [i \in DOMAIN f |-> "pending"]]
<1>1. /\ f \notin DOMAIN batches
      /\ batches' = [g \in DOMAIN batches \cup {f} |-> IF g = f THEN new ELSE batches[g]]
      /\ UNCHANGED <<previewing, confirming, bookings>>
  BY DEF Upload, bookVars
<1>2. /\ DOMAIN batches' = DOMAIN batches \cup {f}
      /\ batches'[f] = new /\ \A g \in DOMAIN batches : batches'[g] = batches[g]
  BY <1>1
<1>3. /\ RowsOf(f)' = [i \in DOMAIN f |-> "pending"]
      /\ \A g \in DOMAIN batches : RowsOf(g)' = RowsOf(g)
  BY <1>2 DEF RowsOf
<1>4. RowsOf(f)' \in [DOMAIN f -> Statuses] /\ \A i \in DOMAIN f : RowsOf(f)'[i] # "confirmed"
  BY <1>3 DEF Statuses
<1>5. batches'[f].status # "confirmed"
  BY <1>2
<1> HIDE DEF new
<1>6. RowsTyped' /\ KnownOnly' /\ RowsBookedOnce'
  BY <1>1, <1>2, <1>3, <1>4 DEF ImportInv, RowsTyped, KnownOnly, RowsBookedOnce
<1>7. ConfirmedMeansAll'
  BY <1>2, <1>3, <1>5 DEF ImportInv, ConfirmedMeansAll
<1>8. PreviewsAgree' /\ ConfirmsKnown'
  BY <1>1, <1>2, <1>3 DEF ImportInv, PreviewsAgree, ConfirmsKnown
<1> QED
  BY <1>1, <1>2, <1>6, <1>7, <1>8 DEF ImportInv, Counts

\* One batch is written, and no row of another file is booked.
LEMMA BatchWritten ==
  ASSUME ImportInv, NEW f \in DOMAIN batches, NEW new, batches' = [batches EXCEPT ![f] = new],
         new.rows \in [DOMAIN f -> Statuses], Counts(bookings)',
         \A g \in Files \ {f} : \A i \in DOMAIN g :
            Copies(RowAt(g, i), bookings') = Copies(RowAt(g, i), bookings),
         \A i \in DOMAIN f :
            Copies(RowAt(f, i), bookings') = IF new.rows[i] = "confirmed" THEN 1 ELSE 0,
         new.status = "confirmed" =>
           /\ \E i \in DOMAIN new.rows : new.rows[i] = "confirmed"
           /\ \A i \in DOMAIN new.rows : new.rows[i] \in {"confirmed", "duplicate"},
         previewing' = [previewing EXCEPT ![f] = NotStored],
         confirming' \in {confirming, [confirming EXCEPT ![f] = NotBooking]}
  PROVE  ImportInv'
<1>1. /\ DOMAIN batches' = DOMAIN batches /\ DOMAIN batches \subseteq Files /\ batches'[f] = new
      /\ \A g \in DOMAIN batches \ {f} : batches'[g] = batches[g]
      /\ batches' = [g \in DOMAIN batches' |-> batches'[g]]
  BY DEF ImportInv
<1>2. RowsOf(f)' = new.rows /\ \A g \in DOMAIN batches \ {f} : RowsOf(g)' = RowsOf(g)
  BY <1>1 DEF RowsOf
<1>3. RowsTyped' /\ KnownOnly' /\ RowsBookedOnce'
  BY <1>1, <1>2 DEF ImportInv, RowsTyped, KnownOnly, RowsBookedOnce
<1>4. ConfirmedMeansAll'
  BY <1>1, <1>2 DEF ImportInv, ConfirmedMeansAll, SomeConfirmed, Remains
<1>5. PreviewsAgree'
  <2>1. /\ previewing'[f] = NotStored /\ \A g \in Files \ {f} : previewing'[g] = previewing[g]
        /\ previewing' = [g \in Files |-> previewing'[g]]
    BY <1>1 DEF ImportInv, PreviewsAgree
  <2> QED BY <1>1, <1>2, <2>1 DEF ImportInv, PreviewsAgree
<1>6. ConfirmsKnown'
  BY <1>1 DEF ImportInv, ConfirmsKnown, Ends
<1> QED
  BY <1>1, <1>3, <1>4, <1>5, <1>6 DEF ImportInv

LEMMA StartPreviewKeeps ==
  ASSUME ImportInv, NEW f \in Files, NEW mapped \in BOOLEAN, StartPreview(f, mapped)
  PROVE  ImportInv'
<1> DEFINE seen == [i \in DOMAIN f |-> Examined(f, i, mapped)]
<1>1. /\ f \in DOMAIN batches /\ previewing' = [previewing EXCEPT ![f] = seen]
      /\ UNCHANGED <<batches, confirming, bookings>>
  BY DEF StartPreview, bookVars
<1>2. ASSUME NEW i \in DOMAIN f
      PROVE  /\ Examined(f, i, mapped) \in Statuses
             /\ Examined(f, i, mapped) = "confirmed" <=> RowsOf(f)[i] = "confirmed"
  <2>1. CASE RowsOf(f)[i] = "confirmed"
    BY <2>1 DEF Examined, Statuses
  <2>2. CASE RowsOf(f)[i] # "confirmed"
    <3>1. Examined(f, i, mapped) \in {"error", "duplicate", "valid"}
      BY <2>2 DEF Examined
    <3> QED BY <2>2, <3>1 DEF Statuses
  <2> QED BY <2>1, <2>2
<1>3. seen \in [DOMAIN f -> Statuses]
      /\ \A i \in DOMAIN f : seen[i] = "confirmed" <=> RowsOf(f)[i] = "confirmed"
  BY <1>2
<1> HIDE DEF seen
<1>4. PreviewsAgree'
  <2>1. /\ previewing'[f] = seen /\ \A g \in Files \ {f} : previewing'[g] = previewing[g]
        /\ previewing' = [g \in Files |-> previewing'[g]]
    BY <1>1 DEF ImportInv, PreviewsAgree
  <2> QED BY <1>1, <1>3, <2>1 DEF ImportInv, PreviewsAgree, RowsOf
<1> QED
  BY <1>1, <1>4, BatchesSame DEF ImportInv, ConfirmsKnown, Counts

LEMMA EndPreviewKeeps == ASSUME ImportInv, NEW f \in Files, EndPreview(f) PROVE ImportInv'
<1> DEFINE new == [status |-> PreviewStatus(f), rows |-> previewing[f]]
<1>1. /\ previewing[f] # NotStored /\ batches' = [batches EXCEPT ![f] = new]
      /\ previewing' = [previewing EXCEPT ![f] = NotStored]
      /\ UNCHANGED <<confirming, bookings>>
  BY DEF EndPreview, bookVars
<1>2. /\ f \in DOMAIN batches /\ previewing[f] \in [DOMAIN f -> Statuses]
      /\ \A i \in DOMAIN f : previewing[f][i] = "confirmed" <=> RowsOf(f)[i] = "confirmed"
  BY <1>1 DEF ImportInv, PreviewsAgree
<1>3. /\ new.rows = previewing[f] /\ new.status # "confirmed"
      /\ \A i \in DOMAIN f : Copies(RowAt(f, i), bookings) = IF new.rows[i] = "confirmed" THEN 1 ELSE 0
  BY <1>2 DEF PreviewStatus, ImportInv, RowsBookedOnce
<1> HIDE DEF new
<1> QED
  BY <1>1, <1>2, <1>3, BatchWritten DEF ImportInv, Counts

LEMMA ConfirmKeeps == ASSUME ImportInv, NEW f \in Files, Confirm(f) PROVE ImportInv'
<1> DEFINE new == [status |-> IF Remains(RowsAfter(f)) THEN "partial" ELSE "confirmed",
                   rows |-> RowsAfter(f)]
<1>1. /\ confirming[f] # NotBooking /\ previewing[f] = NotStored /\ Outcome(f).ok
      /\ SomeConfirmed(RowsAfter(f)) /\ batches' = [batches EXCEPT ![f] = new]
      /\ bookings' = Outcome(f).bookings /\ Ends(f) /\ UNCHANGED previewing
  BY DEF Confirm, Store
<1>2. f \in DOMAIN batches /\ RowsOf(f) \in [DOMAIN f -> Statuses]
  BY <1>1 DEF ImportInv, ConfirmsKnown, RowsTyped
<1>3. Len(f) \in Nat /\ DOMAIN f = 1..Len(f) /\ Counts(bookings)
  BY NothingPending DEF ImportInv
<1>4. /\ Counts(Outcome(f).bookings)
      /\ \A x : Copies(x, Outcome(f).bookings) =
                 Copies(x, bookings) + (IF \E i \in Selected(f) : x = RowAt(f, i) THEN 1 ELSE 0)
  BY <1>1, <1>3, OutcomeBooks
<1>5. /\ \A i \in Selected(f) : i \in DOMAIN f /\ RowsOf(f)[i] = "valid"
      /\ RowsAfter(f) \in [DOMAIN f -> Statuses]
      /\ \A i \in DOMAIN f : RowsAfter(f)[i] = IF i \in Selected(f) THEN "confirmed" ELSE RowsOf(f)[i]
  BY <1>2 DEF Selected, RowsAfter, Statuses
<1>6. ASSUME NEW g \in Files \ {f}, NEW i \in DOMAIN g
      PROVE  Copies(RowAt(g, i), bookings') = Copies(RowAt(g, i), bookings)
  <2>1. \A j \in Selected(f) : RowAt(g, i) # RowAt(f, j)
    BY RowsApart
  <2>2. Copies(RowAt(g, i), bookings) \in Nat
    BY <1>3 DEF Counts
  <2> QED BY <1>1, <1>4, <2>1, <2>2
<1>7. ASSUME NEW i \in DOMAIN f
      PROVE  Copies(RowAt(f, i), bookings') = IF RowsAfter(f)[i] = "confirmed" THEN 1 ELSE 0
  <2>1. (\E j \in Selected(f) : RowAt(f, i) = RowAt(f, j)) <=> i \in Selected(f)
    BY RowsApart
  <2>2. Copies(RowAt(f, i), bookings) = IF RowsOf(f)[i] = "confirmed" THEN 1 ELSE 0
    BY <1>2 DEF ImportInv, RowsBookedOnce
  <2>3. Copies(RowAt(f, i), bookings') =
          Copies(RowAt(f, i), bookings) + (IF i \in Selected(f) THEN 1 ELSE 0)
    BY <1>1, <1>4, <2>1
  <2> QED BY <1>5, <2>2, <2>3
<1>8. new.rows = RowsAfter(f) /\ (new.status = "confirmed" => ~Remains(RowsAfter(f)))
  OBVIOUS
<1>9. previewing' = [previewing EXCEPT ![f] = NotStored]
  BY <1>1 DEF ImportInv, PreviewsAgree
<1> HIDE DEF new
<1>10. PICK n : n = new
  OBVIOUS
<1>11. /\ batches' = [batches EXCEPT ![f] = n] /\ n.rows \in [DOMAIN f -> Statuses]
       /\ n.status = "confirmed" =>
            /\ \E i \in DOMAIN n.rows : n.rows[i] = "confirmed"
            /\ \A i \in DOMAIN n.rows : n.rows[i] \in {"confirmed", "duplicate"}
       /\ \A i \in DOMAIN f : Copies(RowAt(f, i), bookings') = IF n.rows[i] = "confirmed" THEN 1 ELSE 0
  BY <1>1, <1>5, <1>7, <1>8, <1>10 DEF SomeConfirmed, Remains
<1>12. Counts(bookings)' /\ confirming' = [confirming EXCEPT ![f] = NotBooking]
  BY <1>1, <1>4 DEF Counts, Ends
<1> QED
  <2>1. f \in DOMAIN batches /\ n.rows \in [DOMAIN f -> Statuses] /\ batches' = [batches EXCEPT ![f] = n]
    BY <1>2, <1>11
  <2>2. Counts(bookings)'
    BY <1>12
  <2>3. \A g \in Files \ {f} : \A i \in DOMAIN g :
            Copies(RowAt(g, i), bookings') = Copies(RowAt(g, i), bookings)
    BY <1>6
  <2>4. \A i \in DOMAIN f :
            Copies(RowAt(f, i), bookings') = IF n.rows[i] = "confirmed" THEN 1 ELSE 0
    BY <1>11
  <2>5. n.status = "confirmed" =>
            /\ \E i \in DOMAIN n.rows : n.rows[i] = "confirmed"
            /\ \A i \in DOMAIN n.rows : n.rows[i] \in {"confirmed", "duplicate"}
    BY <1>11
  <2>6. previewing' = [previewing EXCEPT ![f] = NotStored]
    BY <1>9
  <2>7. confirming' \in {confirming, [confirming EXCEPT ![f] = NotBooking]}
    BY <1>12
  <2> QED
    BY ONLY ImportInv, <2>1, <2>2, <2>3, <2>4, <2>5, <2>6, <2>7, BatchWritten

\* A confirmation that starts or ends, and a preview the database ends.
LEMMA AroundKeeps ==
  ASSUME ImportInv, NEW f \in Files,
         \/ RejectConfirm(f) \/ EndDeadlock(f)
         \/ \E chosen \in SUBSET DOMAIN f : StartConfirm(f, chosen)
  PROVE  ImportInv'
<1>1. /\ UNCHANGED <<batches, bookings>>
      /\ previewing' = previewing \/ previewing' = [previewing EXCEPT ![f] = NotStored]
      /\ \/ confirming' = confirming \/ Ends(f)
         \/ f \in DOMAIN batches /\ \E chosen : confirming' = [confirming EXCEPT ![f] = chosen]
  BY DEF RejectConfirm, EndDeadlock, StartConfirm, bookVars
<1>2. PreviewsAgree'
  BY <1>1 DEF ImportInv, PreviewsAgree, RowsOf
<1>3. ConfirmsKnown'
  BY <1>1 DEF ImportInv, ConfirmsKnown, Ends
<1> QED
  BY <1>1, <1>2, <1>3, BatchesSame DEF ImportInv, Counts

LEMMA ImportKept == ImportInv /\ [ImportNext]_importVars => ImportInv'
<1> SUFFICES ASSUME ImportInv, [ImportNext]_importVars PROVE ImportInv'
  OBVIOUS
<1>1. CASE UNCHANGED importVars \/ \E t \in trades : DeleteImported(t)
  <2>1. UNCHANGED <<batches, previewing, confirming, bookings>>
    BY <1>1 DEF importVars, DeleteImported
  <2> QED BY <2>1, BatchesSame DEF ImportInv, Counts, PreviewsAgree, ConfirmsKnown, RowsOf
<1>2. CASE \E op \in Typed : PreviewOperation(op) \/ ConfirmOperation(op) \/ Expire(op)
  BY <1>2, TypedKeeps
<1>3. ASSUME NEW f \in Files, Upload(f) \/ EndPreview(f) \/ Confirm(f) PROVE ImportInv'
  BY <1>3, UploadKeeps, EndPreviewKeeps, ConfirmKeeps
<1>4. ASSUME NEW f \in Files, \/ RejectConfirm(f) \/ EndDeadlock(f)
                              \/ \E chosen \in SUBSET DOMAIN f : StartConfirm(f, chosen)
      PROVE  ImportInv'
  BY <1>4, AroundKeeps
<1>5. ASSUME NEW f \in Files, NEW mapped \in BOOLEAN, StartPreview(f, mapped) PROVE ImportInv'
  BY <1>5, StartPreviewKeeps
<1> QED
  BY <1>1, <1>2, <1>3, <1>4, <1>5 DEF ImportNext

\* However often files are uploaded, previewed and confirmed in part, and whichever of
\* the requests that wait for each other the database ends, every row of a batch is in the
\* ledger once if it says it is confirmed and never if it does not, and a confirmed batch
\* has nothing left to book.
THEOREM BatchesCorrect == ImportSpec => []BatchesHold
<1>1. ImportInv => BatchesHold
  BY DEF ImportInv, BatchesHold
<1> QED
  BY <1>1, ImportInitially, ImportKept, PTL DEF ImportSpec

-----------------------------------------------------------------------------
(* Ownership of positions *)

\* A stretch says how long it lasts, whose it is and in which shares.
IsStretch(x) == x = [last |-> x.last, title |-> x.title, shares |-> x.shares]
StretchesShape ==
  /\ stretches = [s \in Starts |-> stretches[s]]
  /\ \A s \in Starts : IsStretch(stretches[s])

\* No stretch ends before it begins.
NoneEmpty == \A s \in Starts : s <= stretches[s].last

\* Inductive.
OwnershipInv == OwnershipTypeOK /\ StretchesShape /\ NoneEmpty /\ OneTitleADay

-----------------------------------------------------------------------------
(* What each operation does to the stretches *)

LEMMA DaysAreNumbers ==
  /\ \A d \in HistoryDays : d \in Nat /\ d >= 1 /\ d < Endless
  /\ \A d, e \in HistoryDays : d..e \subseteq HistoryDays
  /\ Endless \in Nat /\ Unlinked \notin Contracts
BY OwnershipAssumption DEF Endless

\* Under the invariant only the last stretch may be open.
LEMMA OpenIsLast ==
  ASSUME OwnershipInv, ~backdated, NEW s \in Starts, stretches[s].last = Endless
  PROVE  \A t \in Starts : t <= s
BY DaysAreNumbers DEF OwnershipInv, OneTitleADay, OwnershipTypeOK

\* Changing the end of a stretch changes nothing else of it.
LEMMA EndedStretch ==
  ASSUME NEW x, IsStretch(x), NEW e
  PROVE  /\ [x EXCEPT !.last = e] = [last |-> e, title |-> x.title, shares |-> x.shares]
         /\ IsStretch([x EXCEPT !.last = e])
BY DEF IsStretch

\* Closing the open stretch leaves the starts and the owners, and moves no end but
\* that of an earlier open one, which then ends the day before.
LEMMA ClosedBeforeStep ==
  ASSUME OwnershipInv, NEW d \in HistoryDays
  PROVE  LET b == ClosedBefore(d) IN
         /\ DOMAIN b = Starts /\ b = [s \in Starts |-> b[s]]
         /\ \A s \in Starts :
              /\ IsStretch(b[s]) /\ b[s].title = stretches[s].title
              /\ b[s].last = stretches[s].last \/ (Precedes(s, d) /\ b[s].last = d - 1)
         /\ ~backdated => \A s \in Starts : Precedes(s, d) => b[s].last = d - 1
<1> DEFINE open == {s \in Starts : Precedes(s, d)}
           m == Max(open)
<1>1. CASE open = {}
  BY <1>1 DEF ClosedBefore, OwnershipInv, StretchesShape
<1>2. CASE open # {}
  <2>1. ClosedBefore(d) = [stretches EXCEPT ![m] = [@ EXCEPT !.last = d - 1]]
    BY <1>2 DEF ClosedBefore
  <2>2. ~backdated => open = {m}
    <3>1. ASSUME ~backdated, NEW s \in open PROVE m = s /\ open = {s}
      <4>1. \A t \in open : t = s
        BY <3>1, OpenIsLast, DaysAreNumbers DEF Precedes, OwnershipInv, OwnershipTypeOK
      <4>2. open = {s} /\ s \in Nat
        BY <4>1, <3>1, DaysAreNumbers DEF OwnershipInv, OwnershipTypeOK
      <4>3. Max({s}) = s
        BY <4>2 DEF Max
      <4> QED BY <4>2, <4>3
    <3> QED BY <3>1, <1>2
  <2>3. m \in open
    <3>1. open \in SUBSET Nat /\ \A x \in open : x <= Endless
      BY DaysAreNumbers DEF OwnershipInv, OwnershipTypeOK
    <3> HIDE DEF open
    <3> QED BY <3>1, <1>2, DaysAreNumbers, GreatestNatural
  <2>4. m \in Starts /\ Precedes(m, d)
    BY <2>3
  <2> HIDE DEF m
  <2> DEFINE b == ClosedBefore(d)
  <2>5. /\ DOMAIN b = Starts /\ b = [s \in Starts |-> b[s]]
        /\ b[m] = [stretches[m] EXCEPT !.last = d - 1]
        /\ \A s \in Starts \ {m} : b[s] = stretches[s]
    BY <2>1, <2>4 DEF OwnershipInv, StretchesShape
  <2> HIDE DEF b
  <2>6. IsStretch(b[m]) /\ b[m].title = stretches[m].title /\ b[m].last = d - 1
    <3>1. IsStretch(stretches[m])
      BY <2>4 DEF OwnershipInv, StretchesShape
    <3>2. b[m] = [last |-> d - 1, title |-> stretches[m].title, shares |-> stretches[m].shares]
      BY <2>5, <3>1, EndedStretch
    <3> QED BY <3>2 DEF IsStretch
  <2>7. \A s \in Starts : IsStretch(stretches[s])
    BY DEF OwnershipInv, StretchesShape
  <2>8. ~backdated => \A s \in Starts : Precedes(s, d) => s = m
    BY <2>2
  <2> HIDE DEF open
  <2> QED
    BY <2>4, <2>5, <2>6, <2>7, <2>8 DEF b
<1> QED
  BY <1>1, <1>2
-----------------------------------------------------------------------------
(* Every step keeps the invariant, and rewrites no past day *)

\* What PastStands says of one step.
PastKept ==
  ~backdated' =>
    \A d \in HistoryDays : TitlesOn(d) # {} /\ TitlesOn(d)' # TitlesOn(d) =>
      \A s \in Starts \cup Starts' : s <= d

\* A day keeps its owners when the same stretches cover it before and after.
LEMMA TitlesKept ==
  ASSUME NEW x,
         \A s \in Starts : s <= x /\ x <= stretches[s].last =>
           s \in Starts' /\ x <= stretches'[s].last /\ stretches'[s].title = stretches[s].title,
         \A s \in Starts' : s <= x /\ x <= stretches'[s].last =>
           s \in Starts /\ x <= stretches[s].last /\ stretches'[s].title = stretches[s].title
  PROVE  TitlesOn(x)' = TitlesOn(x)
BY DEF TitlesOn, Starts

\* A callback completes the stretch of the day the position was opened on, or states
\* the first one of all.
LEMMA DeriveKeeps ==
  ASSUME OwnershipInv, DeriveOwnership
  PROVE  OwnershipInv' /\ PastKept
<1>1. CASE stretches' = stretches /\ backdated' = backdated
  <2>1. OwnershipInv'
    BY <1>1 DEF DeriveOwnership, OwnershipInv, OwnershipTypeOK, IssueCodes, StretchesShape, NoneEmpty, OneTitleADay, Starts
  <2>2. \A d : TitlesOn(d)' = TitlesOn(d)
    BY <1>1 DEF TitlesOn, Starts
  <2> QED BY <2>1, <2>2 DEF PastKept
<1>2. CASE /\ openedOn # 0 /\ linkedTo # Unlinked
           /\ stretches' = With(openedOn, Derived(linkedTo), stretches)
           /\ backdated' = (backdated \/ (openedOn \notin Starts /\ stretches # <<>>))
  <2> DEFINE x == Derived(linkedTo)
  <2>1. openedOn \in HistoryDays /\ linkedTo \in Contracts
    BY <1>2 DEF OwnershipInv, OwnershipTypeOK
  <2>2. /\ Starts' = Starts \cup {openedOn} /\ stretches'[openedOn] = x
        /\ \A s \in Starts \ {openedOn} : stretches'[s] = stretches[s]
        /\ stretches' = [s \in Starts' |-> stretches'[s]]
    <3> HIDE DEF x
    <3>1. stretches' = With(openedOn, x, stretches)
      BY <1>2 DEF x
    <3> DEFINE w == With(openedOn, x, stretches)
    <3>2. /\ DOMAIN w = Starts \cup {openedOn} /\ w[openedOn] = x
          /\ \A s \in Starts \ {openedOn} : w[s] = stretches[s]
          /\ w = [s \in DOMAIN w |-> w[s]]
      BY DEF With, Starts
    <3> HIDE DEF w
    <3> QED BY <3>1, <3>2 DEF Starts, w
  <2>3. /\ UNCHANGED <<openedOn, linkedTo>> /\ called' \in BOOLEAN
        /\ issues' \subseteq IssueCodes
    BY <1>2 DEF DeriveOwnership, OwnershipInv, OwnershipTypeOK, IssueCodes
  <2>4. /\ backdated' \in BOOLEAN
        /\ ~backdated' => ~backdated /\ (openedOn \in Starts \/ stretches = <<>>)
    BY <1>2
  <2>5. CASE openedOn \in Starts
    <3>1. IsStretch(x) /\ x.last = stretches[openedOn].last /\ x.title = stretches[openedOn].title
      BY <2>5 DEF Derived, OwnershipInv, StretchesShape, IsStretch
    <3> HIDE DEF x
    <3>2. Starts' = Starts
      BY <2>2, <2>5
    <3>3. \A s \in Starts : /\ stretches'[s].last = stretches[s].last
                            /\ stretches'[s].title = stretches[s].title /\ IsStretch(stretches'[s])
      BY <2>2, <3>1 DEF OwnershipInv, StretchesShape
    <3>4. OwnershipInv'
      BY <2>1, <2>2, <2>3, <2>4, <3>2, <3>3
      DEF OwnershipInv, OwnershipTypeOK, StretchesShape, NoneEmpty, OneTitleADay
    <3>5. \A d : TitlesOn(d)' = TitlesOn(d)
      BY <3>2, <3>3, TitlesKept
    <3> QED BY <3>4, <3>5 DEF PastKept
  <2>6. CASE openedOn \notin Starts
    <3>1. IsStretch(x) /\ x.last = Endless /\ x.title = linkedTo
      BY <2>6 DEF Derived, IsStretch
    <3> HIDE DEF x
    <3>2. ~backdated' => Starts = {}
      BY <2>4, <2>6 DEF Starts
    <3>3. OneTitleADay'
      BY <2>1, <2>2, <3>2, DaysAreNumbers DEF OneTitleADay
    <3>4. \A s \in Starts' : /\ stretches'[s].last \in HistoryDays \cup {Endless} /\ s <= stretches'[s].last
                             /\ stretches'[s].title \in Contracts /\ IsStretch(stretches'[s])
      BY <2>1, <2>2, <3>1, DaysAreNumbers DEF OwnershipInv, OwnershipTypeOK, StretchesShape, NoneEmpty
    <3>5. OwnershipInv'
      BY <2>1, <2>2, <2>3, <2>4, <3>3, <3>4
      DEF OwnershipInv, OwnershipTypeOK, StretchesShape, NoneEmpty
    <3>6. ~backdated' => \A d : TitlesOn(d) = {}
      BY <3>2 DEF TitlesOn
    <3> QED BY <3>5, <3>6 DEF PastKept
  <2> QED BY <2>5, <2>6
<1> QED
  BY <1>1, <1>2 DEF DeriveOwnership

\* A stretch that is stated lies in days nobody owned, once the open one before it has
\* been closed.
LEMMA StateKeeps ==
  ASSUME OwnershipInv, NEW d \in HistoryDays, NEW e \in HistoryDays \cup {Endless},
         NEW c \in Contracts, NEW shares, StateStretch(d, e, c, shares)
  PROVE  OwnershipInv' /\ PastKept
<1> DEFINE b == ClosedBefore(d)
           x == [last |-> e, title |-> c, shares |-> shares]
<1>1. /\ DOMAIN b = Starts
      /\ \A s \in Starts :
           /\ IsStretch(b[s]) /\ b[s].title = stretches[s].title
           /\ b[s].last = stretches[s].last \/ (Precedes(s, d) /\ b[s].last = d - 1)
      /\ ~backdated => \A s \in Starts : Precedes(s, d) => b[s].last = d - 1
  BY ClosedBeforeStep
<1>2. stretches' = With(d, x, b) /\ d <= e /\ d \notin Starts /\ ~Covered(d, e)
      /\ UNCHANGED <<openedOn, linkedTo, called, issues, backdated>>
  BY DEF StateStretch
<1> HIDE DEF b
<1>3. /\ Starts' = Starts \cup {d} /\ stretches'[d] = x
      /\ \A s \in Starts : stretches'[s] = b[s]
      /\ stretches' = [s \in Starts' |-> stretches'[s]]
  BY <1>1, <1>2 DEF With, Starts
<1>4. x.last = e /\ x.title = c /\ IsStretch(x)
  BY DEF IsStretch
<1> HIDE DEF x
<1>5. /\ d \in Nat /\ Starts \subseteq Nat /\ e \in Nat /\ d < Endless
      /\ \A s \in Starts : /\ stretches[s].last \in Nat /\ s <= stretches[s].last
                           /\ s < Endless
  BY DaysAreNumbers DEF OwnershipInv, OwnershipTypeOK, NoneEmpty
<1>6. \A s \in Starts : Precedes(s, d) => s <= d - 1 /\ d - 1 \in HistoryDays
  <2>1. \A s \in Starts : s \in HistoryDays /\ s..d \subseteq HistoryDays
    BY DaysAreNumbers DEF OwnershipInv, OwnershipTypeOK
  <2>2. ASSUME NEW s \in Starts, Precedes(s, d) PROVE s <= d - 1 /\ d - 1 \in HistoryDays
    <3>1. s \in Nat /\ d \in Nat /\ s < d
      BY <1>5, <2>2 DEF Precedes
    <3>2. s <= d - 1 /\ d - 1 \in s..d
      BY <3>1
    <3> QED BY <2>1, <3>2
  <2> QED BY <2>2
<1>7. \A s \in Starts : /\ b[s].last \in HistoryDays \cup {Endless} /\ s <= b[s].last
                        /\ b[s].title \in Contracts
  BY <1>1, <1>5, <1>6 DEF OwnershipInv, OwnershipTypeOK
<1>8. ASSUME ~backdated, NEW s \in Starts, s < d
      PROVE  b[s].last < d
  <2>1. ~Precedes(s, d) => stretches[s].last < d
    BY <1>2, <1>5, <1>8 DEF Covered
  <2> QED BY <2>1, <1>1, <1>5, <1>8
<1>9. ASSUME NEW t \in Starts, d < t
      PROVE  e < t
  <2>1. ~Precedes(t, d)
    BY <1>5, <1>9 DEF Precedes
  <2> QED BY <2>1, <1>2, <1>5, <1>9 DEF Covered
<1>10. ~backdated => \A s, t \in Starts : s < t => b[s].last = stretches[s].last /\ b[s].last < t
  BY <1>1, <1>5 DEF OwnershipInv, OneTitleADay, Precedes
<1>11. OneTitleADay'
  BY <1>2, <1>3, <1>4, <1>5, <1>8, <1>9, <1>10 DEF OneTitleADay
<1>12. OwnershipTypeOK'
  BY <1>2, <1>3, <1>4, <1>7 DEF OwnershipInv, OwnershipTypeOK
<1>13. StretchesShape' /\ NoneEmpty'
  BY <1>1, <1>2, <1>3, <1>4, <1>7 DEF StretchesShape, NoneEmpty
<1>14. PastKept
  <2>1. SUFFICES ASSUME ~backdated', NEW y \in HistoryDays, TitlesOn(y) # {},
                        NEW u \in Starts \cup {d}, ~(u <= y)
                 PROVE  TitlesOn(y)' = TitlesOn(y)
    BY <1>3 DEF PastKept
  <2>2. ~backdated /\ y \in Nat /\ y < u
    <3>1. ~backdated
      BY <2>1, <1>2
    <3>2. y \in Nat
      BY <2>1, DaysAreNumbers
    <3>3. u \in Nat
      BY <2>1, <1>5, DaysAreNumbers
    <3> QED BY <2>1, <3>1, <3>2, <3>3
  <2>3. CASE y < d
    BY <2>2, <2>3, <1>1, <1>3, <1>5, TitlesKept, DaysAreNumbers DEF Precedes
  <2>4. CASE d <= y
    <3>1. u \in Starts /\ \A s \in Starts : ~Precedes(s, d)
      BY <2>1, <2>2, <2>4, <1>5, OpenIsLast DEF Precedes
    <3>2. \A s \in Starts : ~(stretches[s].last >= d /\ s <= e)
      BY <3>1, <1>2 DEF Covered
    <3>3. PICK s \in Starts : s <= y /\ y <= stretches[s].last
      BY <2>1 DEF TitlesOn
    <3>4. ~(y <= e)
      BY <3>2, <3>3, <2>2, <2>4, <1>5
    <3> QED BY <3>1, <3>4, <1>1, <1>3, <1>4, <1>5, TitlesKept
  <2> QED BY <2>2, <2>3, <2>4, <1>5
<1> QED
  BY <1>11, <1>12, <1>13, <1>14 DEF OwnershipInv

\* Undoing takes the last stretch away and opens again the one that ended on its eve.
LEMMA UndoKeeps ==
  ASSUME OwnershipInv, NEW d \in HistoryDays, UndoStretch(d)
  PROVE  OwnershipInv' /\ PastKept
<1> DEFINE kept == [s \in Starts \ {d} |-> stretches[s]]
           eve == Eve(d) \ {d}
           m == Max(eve)
<1>1. /\ d \in Starts /\ \A s \in Starts : s <= d
      /\ stretches' = (IF eve = {} THEN kept ELSE [kept EXCEPT ![m] = [@ EXCEPT !.last = Endless]])
      /\ UNCHANGED <<openedOn, linkedTo, called, issues, backdated>>
  BY DaysAreNumbers DEF UndoStretch, MayBeUndone, Following, OwnershipInv, OwnershipTypeOK
<1>2. /\ Starts \subseteq Nat /\ d \in Nat
      /\ \A s \in Starts : stretches[s].last \in Nat /\ s <= stretches[s].last /\ s < Endless
      /\ \A s \in Starts : IsStretch(stretches[s])
  BY DaysAreNumbers DEF OwnershipInv, OwnershipTypeOK, NoneEmpty, StretchesShape
<1>3. eve # {} => m \in Starts \ {d} /\ stretches[m].last = d - 1
  <2>1. eve \in SUBSET Nat /\ \A s \in eve : s <= d
    BY <1>1, <1>2 DEF Eve
  <2> HIDE DEF eve
  <2>2. eve # {} => m \in eve
    BY <2>1, <1>2, GreatestNatural
  <2> QED BY <2>2 DEF eve, Eve
<1>4. /\ Starts' = Starts \ {d} /\ stretches' = [s \in Starts' |-> stretches'[s]]
      /\ \A s \in Starts \ {d} :
           \/ stretches'[s] = stretches[s]
           \/ stretches[s].last = d - 1 /\ stretches'[s] = [stretches[s] EXCEPT !.last = Endless]
  <2>1. CASE eve = {}
    BY <2>1, <1>1 DEF Starts
  <2>2. CASE eve # {}
    BY <2>2, <1>1, <1>3 DEF Starts
  <2> QED BY <2>1, <2>2
<1> HIDE DEF eve, m, kept
<1>5. \A s \in Starts \ {d} :
        /\ IsStretch(stretches'[s]) /\ stretches'[s].title = stretches[s].title
        /\ \/ stretches'[s].last = stretches[s].last
           \/ stretches[s].last = d - 1 /\ stretches'[s].last = Endless
  <2>1. \A s \in Starts \ {d} : stretches[s].last = d - 1 /\ stretches'[s] = [stretches[s] EXCEPT !.last = Endless]
          => stretches'[s] = [last |-> Endless, title |-> stretches[s].title, shares |-> stretches[s].shares]
    BY <1>2, EndedStretch
  <2> QED BY <2>1, <1>4, <1>2 DEF IsStretch
<1>6. OwnershipTypeOK' /\ StretchesShape' /\ NoneEmpty'
  BY <1>1, <1>2, <1>4, <1>5, DaysAreNumbers
  DEF OwnershipInv, OwnershipTypeOK, StretchesShape, NoneEmpty
<1>7. OneTitleADay'
  <2>1. ASSUME ~backdated', NEW s \in Starts', NEW t \in Starts', s < t
        PROVE  stretches'[s].last < t
    <3>1. s \in Starts \ {d} /\ t \in Starts \ {d} /\ t < d /\ ~backdated
      BY <2>1, <1>1, <1>2, <1>4
    <3>2. stretches[s].last < t
      BY <3>1, <2>1 DEF OwnershipInv, OneTitleADay
    <3> QED BY <3>1, <3>2, <1>2, <1>5
  <2> QED BY <2>1 DEF OneTitleADay
<1>8. PastKept
  <2>1. SUFFICES ASSUME ~backdated', NEW y \in HistoryDays, NEW u \in Starts \cup Starts', ~(u <= y)
                 PROVE  TitlesOn(y)' = TitlesOn(y)
    BY DEF PastKept
  <2>2. y \in Nat /\ y < d
    BY <2>1, <1>1, <1>2, <1>4, DaysAreNumbers
  <2> QED BY <2>2, <1>1, <1>2, <1>4, <1>5, TitlesKept, DaysAreNumbers
<1> QED
  BY <1>6, <1>7, <1>8 DEF OwnershipInv

LEMMA InitKeeps == OwnershipInit => OwnershipInv
<1> SUFFICES ASSUME OwnershipInit PROVE OwnershipInv
  OBVIOUS
<1>1. Starts = {} /\ stretches = [s \in Starts |-> stretches[s]]
  BY DEF OwnershipInit, Starts
<1> QED
  BY <1>1 DEF OwnershipInit, OwnershipInv, OwnershipTypeOK, StretchesShape, NoneEmpty, OneTitleADay

\* The steps that leave the stretches alone.
LEMMA OthersKeep ==
  ASSUME OwnershipInv, UNCHANGED <<stretches, backdated>>, OwnershipTypeOK'
  PROVE  OwnershipInv' /\ PastKept
<1>1. Starts' = Starts /\ \A d : TitlesOn(d)' = TitlesOn(d)
  BY DEF Starts, TitlesOn
<1> QED
  BY <1>1 DEF OwnershipInv, StretchesShape, NoneEmpty, OneTitleADay, PastKept

LEMMA StepKeeps ==
  ASSUME OwnershipInv, [OwnershipNext]_ownershipVars
  PROVE  OwnershipInv' /\ PastKept
<1>1. ASSUME NEW d \in HistoryDays, OpenPosition(d) \/ MovePosition(d) PROVE OwnershipInv' /\ PastKept
  <2>1. UNCHANGED <<stretches, backdated>> /\ OwnershipTypeOK'
    BY <1>1 DEF OpenPosition, MovePosition, OwnershipInv, OwnershipTypeOK, Starts
  <2> QED BY <2>1, OthersKeep
<1>2. ASSUME NEW d \in HistoryDays, UndoStretch(d) PROVE OwnershipInv' /\ PastKept
  BY <1>2, UndoKeeps
<1>3. ASSUME NEW c \in Contracts \cup {Unlinked}, LinkAsset(c) PROVE OwnershipInv' /\ PastKept
  <2>1. UNCHANGED <<stretches, backdated>> /\ OwnershipTypeOK'
    BY <1>3 DEF LinkAsset, OwnershipInv, OwnershipTypeOK, Starts
  <2> QED BY <2>1, OthersKeep
<1>4. CASE DeriveOwnership
  BY <1>4, DeriveKeeps
<1>5. CASE LoseCallback \/ UNCHANGED ownershipVars
  <2>1. UNCHANGED <<stretches, backdated>> /\ OwnershipTypeOK'
    BY <1>5 DEF LoseCallback, ownershipVars, OwnershipInv, OwnershipTypeOK, Starts
  <2> QED BY <2>1, OthersKeep
<1>6. ASSUME NEW d \in HistoryDays, NEW e \in HistoryDays \cup {Endless}, NEW c \in Contracts,
             NEW shares \in StatedShares, StateStretch(d, e, c, shares)
      PROVE  OwnershipInv' /\ PastKept
  BY <1>6, StateKeeps
<1> QED
  BY <1>1, <1>2, <1>3, <1>4, <1>5, <1>6 DEF OwnershipNext

-----------------------------------------------------------------------------
(* Theorems *)

\* The inductive invariant, for any days, ownerships and shares.
THEOREM OwnershipInvCorrect == OwnershipSpec => []OwnershipInv
<1>1. OwnershipInit => OwnershipInv
  BY InitKeeps
<1>2. OwnershipInv /\ [OwnershipNext]_ownershipVars => OwnershipInv'
  BY StepKeeps
<1> QED
  BY <1>1, <1>2, PTL DEF OwnershipSpec

\* However ownership is stated, undone and derived from the link, every variable
\* keeps its type (services.py, serializers of the portfolio).
THEOREM OwnershipTypeCorrect == OwnershipSpec => []OwnershipTypeOK
<1>1. OwnershipInv => OwnershipTypeOK
  BY DEF OwnershipInv
<1> QED
  BY <1>1, OwnershipInvCorrect, PTL

\* At most one ownership covers a day and at most one period is open: what
\* validate_ownership_period, the closing of the open period and the undoing of the
\* last one guarantee together.
THEOREM OneTitleCorrect == OwnershipSpec => []OneTitleADay
<1>1. OwnershipInv => OneTitleADay
  BY DEF OwnershipInv
<1> QED
  BY <1>1, OwnershipInvCorrect, PTL

\* A day that had an owner changes hands only in the last period, by the step that
\* states or undoes it.
THEOREM PastCorrect == OwnershipSpec => PastStands
<1>1. OwnershipInv /\ [OwnershipNext]_ownershipVars => PastKept
  BY StepKeeps
<1>2. PastKept =>
        (~backdated' =>
           \A d \in HistoryDays : TitlesOn(d) # {} /\ TitlesOn(d)' # TitlesOn(d) =>
             \A s \in Starts \cup Starts' : s <= d)
  BY DEF PastKept
<1> QED
  BY <1>1, <1>2, OwnershipInvCorrect, PTL DEF OwnershipSpec, PastStands

-----------------------------------------------------------------------------
(* Baskets of new money: whatever requests run at once, a confirmed line is a booked one. *)

IsSheet(x) ==
  x = [amount |-> x.amount, source |-> x.source, token |-> x.token, status |-> x.status,
       sums |-> x.sums, line |-> x.line]
\* Baskets are a sequence of drafts whose lines and states changed.
SheetsShape ==
  /\ \E S : baskets \in Seq(S)
  /\ \A b \in DOMAIN baskets :
       /\ IsSheet(baskets[b])
       /\ baskets[b].line = [l \in DOMAIN baskets[b].line |-> baskets[b].line[l]]
Confirms(r) == r = [at |-> "confirm", basket |-> r.basket, chosen |-> r.chosen, source |-> r.source]
Drops(r) == r.at \in {"discard", "skip"} /\ r = [at |-> r.at, basket |-> r.basket]
RequestsShape ==
  /\ clients = [c \in Clients |-> clients[c]]
  /\ \A c \in Clients : clients[c] = AtRest \/ Confirms(clients[c]) \/ Drops(clients[c])

\* Two requests at once leave a mark on the baskets of both.
OverlapMarked == \A c, d \in Busy : c # d => clients[c].basket \in overlapped

\* What a request found when it read, it still finds unless its basket is marked.
StillThere(r) ==
  /\ r.at \in {"confirm", "discard"} => baskets[r.basket].status = "draft"
  /\ r.at = "confirm" => r.chosen \subseteq Pending(baskets[r.basket])
  /\ r.at = "skip" => baskets[r.basket].status = "discarded"
RequestsKnown ==
  \A c \in Busy :
    LET r == clients[c] IN
    /\ r.basket \in DOMAIN baskets
    /\ r.at = "confirm" =>
         /\ r.chosen # {} /\ r.chosen \subseteq DOMAIN baskets[r.basket].line
         /\ r.source = baskets[r.basket].token.seen.source
    /\ r.basket \notin overlapped => StillThere(r)

\* Every purchase that was booked was registered.
Purchase(b, l) == <<l[2], baskets[b].token.seen.source, baskets[b].sums[l]>>
BookingsKnown ==
  /\ \A k \in DOMAIN timesBooked : timesBooked[k] \in Nat
  /\ \A b, l : <<b, l>> \in DOMAIN timesBooked => b \in DOMAIN baskets
  /\ \A b \in DOMAIN baskets : \A l \in DOMAIN baskets[b].line :
       l[1] = "buy" /\ Booked(b, l) # 0 => Purchase(b, l) \in registered

\* Inductive.
BasketInv ==
  /\ SheetsShape /\ RequestsShape /\ OverlapMarked /\ RequestsKnown /\ BookingsKnown /\ BookedOnce

-----------------------------------------------------------------------------
(* What a review says, and what it leaves as it was *)

LEMMA ProposalNamesSource ==
  ASSUME NEW amount, NEW source
  PROVE  Token(Proposal(amount, source)).seen.source = source
<1>1. ASSUME NEW s, NEW d
      PROVE  Token(Arranged(amount, source, s, d)).seen.source = source
  BY DEF Arranged, Token
<1>2. \E s, d : Proposal(amount, source) = Arranged(amount, source, s, d)
  BY DEF Proposal, Once
<1> QED
  BY <1>1, <1>2

LEMMA RestIs == AtRest.at = "rest"
BY DEF AtRest

LEMMA BusyAre ==
  ASSUME BasketInv
  PROVE  /\ Busy \subseteq Clients
         /\ \A c \in Busy : Confirms(clients[c]) \/ Drops(clients[c])
         /\ \A c \in Clients \ Busy : clients[c] = AtRest
BY RestIs DEF BasketInv, RequestsShape, Busy, Confirms, Drops

\* What no request, basket or booking is part of.
LEMMA BasketsStand ==
  ASSUME BasketInv, UNCHANGED <<baskets, clients, registered, timesBooked, overlapped>>
  PROVE  BasketInv'
BY DEF BasketInv, SheetsShape, RequestsShape, OverlapMarked, RequestsKnown, StillThere, BookingsKnown,
   BookedOnce, Booked, Busy, Pending, IsSheet, Confirms, Drops, Purchase

\* A request that begins beside others marks all their baskets.
LEMMA BeginMarks ==
  ASSUME BasketInv, NEW c \in Clients, clients[c] = AtRest, NEW b, NEW r, Begin(c, b, r),
         Confirms(r) \/ Drops(r), r.basket = b
  PROVE  /\ RequestsShape' /\ OverlapMarked'
         /\ Busy' = Busy \cup {c} /\ c \notin Busy /\ clients'[c] = r
         /\ \A d \in Busy : clients'[d] = clients[d] /\ clients[d].basket \in overlapped'
         /\ b \notin overlapped' => Busy = {}
         /\ overlapped \subseteq overlapped'
<1>1. clients' = [clients EXCEPT ![c] = r] /\ c \notin Busy /\ r.at # "rest"
  BY RestIs DEF Begin, Busy, Confirms, Drops
<1>2. clients'[c] = r /\ \A d \in Clients \ {c} : clients'[d] = clients[d]
  BY <1>1 DEF BasketInv, RequestsShape
<1>3. Busy' = Busy \cup {c}
  BY <1>1, <1>2 DEF Busy
<1>4. Busy \subseteq Clients
  BY DEF Busy
<1>5. \A d \in Busy : clients'[d] = clients[d] /\ clients[d].basket \in overlapped'
  BY <1>1, <1>2, <1>4 DEF Begin
<1>6. overlapped \subseteq overlapped' /\ (b \notin overlapped' => Busy = {})
  BY DEF Begin
<1>7. RequestsShape'
  BY <1>1, <1>2 DEF BasketInv, RequestsShape
<1>8. OverlapMarked'
  <2> SUFFICES ASSUME NEW d \in Busy', NEW e \in Busy', d # e
               PROVE  clients'[d].basket \in overlapped'
    BY DEF OverlapMarked
  <2>1. CASE d \in Busy
    BY <2>1, <1>5
  <2>2. CASE d = c
    <3>1. e \in Busy
      BY <2>2, <1>3
    <3> QED BY <2>2, <3>1, <1>2, <1>6
  <2> QED BY <2>1, <2>2, <1>3
<1> QED
  BY <1>1, <1>2, <1>3, <1>5, <1>6, <1>7, <1>8

LEMMA BeginKeeps ==
  ASSUME BasketInv, NEW c \in Clients, clients[c] = AtRest, NEW b \in DOMAIN baskets, NEW r,
         Begin(c, b, r), Confirms(r) \/ Drops(r), r.basket = b, StillThere(r),
         r.at = "confirm" =>
           /\ r.chosen # {} /\ r.chosen \subseteq DOMAIN baskets[b].line
           /\ r.source = baskets[b].token.seen.source,
         UNCHANGED <<baskets, registered, timesBooked>>
  PROVE  BasketInv'
<1>1. /\ RequestsShape' /\ OverlapMarked'
      /\ Busy' = Busy \cup {c} /\ clients'[c] = r
      /\ \A d \in Busy : clients'[d] = clients[d] /\ clients[d].basket \in overlapped'
      /\ overlapped \subseteq overlapped'
  BY BeginMarks
<1>2. StillThere(r)'
  BY DEF StillThere, Pending
<1>3. RequestsKnown'
  <2>1. ASSUME NEW d \in Busy', NEW q, q = clients'[d]
        PROVE  /\ q.basket \in DOMAIN baskets'
               /\ q.at = "confirm" =>
                    /\ q.chosen # {} /\ q.chosen \subseteq DOMAIN baskets'[q.basket].line
                    /\ q.source = baskets'[q.basket].token.seen.source
               /\ q.basket \notin overlapped' => StillThere(q)'
    <3>1. CASE d = c
      BY <3>1, <2>1, <1>1, <1>2
    <3>2. CASE d \in Busy
      BY <3>2, <2>1, <1>1 DEF BasketInv, RequestsKnown
    <3> QED BY <2>1, <3>1, <3>2, <1>1
  <2> QED BY <2>1 DEF RequestsKnown, StillThere, Pending
<1>4. SheetsShape' /\ BookingsKnown'
  BY DEF BasketInv, SheetsShape, BookingsKnown, IsSheet, Purchase, Booked
<1>5. BookedOnce'
  BY <1>1 DEF BasketInv, BookedOnce, Booked, Pending
<1> QED
  BY <1>1, <1>3, <1>4, <1>5 DEF BasketInv

LEMMA ReadConfirmKeeps ==
  ASSUME BasketInv, NEW c \in Clients, NEW b \in DOMAIN baskets, NEW source, ReadConfirm(c, b, source)
  PROVE  BasketInv'
<1>1. PICK chosen \in (SUBSET Pending(baskets[b])) \ {{}} :
        Begin(c, b, [at |-> "confirm", basket |-> b, chosen |-> chosen, source |-> From(b, source)])
  BY DEF ReadConfirm
<1> DEFINE r == [at |-> "confirm", basket |-> b, chosen |-> chosen, source |-> From(b, source)]
<1>2. baskets[b].status = "draft" /\ From(b, source) = baskets[b].token.seen.source
  BY ProposalNamesSource DEF ReadConfirm, Reviewed
<1>3. chosen # {} /\ chosen \subseteq Pending(baskets[b]) /\ chosen \subseteq DOMAIN baskets[b].line
  BY DEF Pending
<1>4. Confirms(r) /\ r.basket = b /\ r.at = "confirm" /\ r.chosen = chosen /\ r.source = From(b, source)
  BY DEF Confirms
<1>5. Begin(c, b, r)
  BY <1>1
<1> HIDE DEF r
<1>6. StillThere(r)
  BY <1>2, <1>3, <1>4 DEF StillThere
<1>7. clients[c] = AtRest /\ UNCHANGED <<baskets, registered, timesBooked>>
  BY DEF ReadConfirm
<1> QED
  BY <1>2, <1>3, <1>4, <1>5, <1>6, <1>7, BeginKeeps

LEMMA ReadDiscardKeeps ==
  ASSUME BasketInv, NEW c \in Clients, NEW b \in DOMAIN baskets, ReadDiscard(c, b)
  PROVE  BasketInv'
<1> DEFINE r == [at |-> "discard", basket |-> b]
<1>1. Drops(r) /\ r.basket = b /\ r.at = "discard"
  BY DEF Drops
<1>2. /\ Begin(c, b, r) /\ clients[c] = AtRest /\ baskets[b].status = "draft"
      /\ UNCHANGED <<baskets, registered, timesBooked>>
  BY DEF ReadDiscard
<1> HIDE DEF r
<1>3. StillThere(r)
  BY <1>1, <1>2 DEF StillThere
<1> QED
  BY <1>1, <1>2, <1>3, BeginKeeps

\* A request that ends leaves the others as they were.
LEMMA EndLeaves ==
  ASSUME BasketInv, NEW c \in Busy, clients' = [clients EXCEPT ![c] = AtRest], UNCHANGED overlapped
  PROVE  /\ RequestsShape' /\ OverlapMarked' /\ Busy' = Busy \ {c}
         /\ \A d \in Busy' : d \in Busy /\ d # c /\ clients'[d] = clients[d]
         /\ clients[c].basket \notin overlapped => Busy' = {}
<1>1. c \in Clients
  BY DEF Busy
<1>2. clients'[c] = AtRest /\ \A d \in Clients \ {c} : clients'[d] = clients[d]
  BY <1>1 DEF BasketInv, RequestsShape
<1>3. Busy' = Busy \ {c}
  BY <1>2, RestIs DEF Busy
<1>4. \A d \in Busy' : d \in Busy /\ d # c /\ clients'[d] = clients[d]
  BY <1>2, <1>3 DEF Busy
<1>5. RequestsShape'
  BY <1>1, <1>2 DEF BasketInv, RequestsShape
<1>6. OverlapMarked' /\ (clients[c].basket \notin overlapped => Busy' = {})
  BY <1>4 DEF BasketInv, OverlapMarked
<1> QED
  BY <1>3, <1>4, <1>5, <1>6

LEMMA RefuseKeeps ==
  ASSUME BasketInv, NEW c \in Clients, RefuseConfirm(c)
  PROVE  BasketInv'
<1>1. c \in Busy /\ clients[c].at = "confirm"
  BY DEF RefuseConfirm, Busy
<1>2. /\ RequestsShape' /\ OverlapMarked' /\ Busy' = Busy \ {c}
      /\ \A d \in Busy' : d \in Busy /\ d # c /\ clients'[d] = clients[d]
  BY <1>1, EndLeaves DEF RefuseConfirm
<1>3. UNCHANGED <<baskets, registered, timesBooked, overlapped>>
  BY DEF RefuseConfirm
<1>4. SheetsShape' /\ BookingsKnown'
  BY <1>3 DEF BasketInv, SheetsShape, BookingsKnown, IsSheet, Purchase, Booked
<1>5. RequestsKnown'
  BY <1>2, <1>3 DEF BasketInv, RequestsKnown, StillThere, Pending
<1>6. clients[c].basket \notin overlapped => baskets[clients[c].basket].status = "draft"
  BY <1>1 DEF BasketInv, RequestsKnown, StillThere
<1>7. BookedOnce'
  BY <1>2, <1>3, <1>6 DEF BasketInv, BookedOnce, Booked, Pending
<1> QED
  BY <1>2, <1>4, <1>5, <1>7 DEF BasketInv

\* Writing one basket leaves the others.
LEMMA SheetWritten ==
  ASSUME BasketInv, NEW b \in DOMAIN baskets, NEW x, baskets' = [baskets EXCEPT ![b] = x], IsSheet(x),
         x.line = [l \in DOMAIN x.line |-> x.line[l]]
  PROVE  /\ SheetsShape' /\ DOMAIN baskets' = DOMAIN baskets
         /\ baskets'[b] = x /\ \A d \in DOMAIN baskets \ {b} : baskets'[d] = baskets[d]
<1>1. PICK S : baskets \in Seq(S)
  BY DEF BasketInv, SheetsShape
<1>2. baskets \in Seq(S \cup {x}) /\ DOMAIN baskets = 1..Len(baskets)
  BY <1>1, SeqMonotonic, LenProperties
<1>3. baskets' \in Seq(S \cup {x}) /\ DOMAIN baskets' = DOMAIN baskets
      /\ baskets'[b] = x /\ \A d \in DOMAIN baskets \ {b} : baskets'[d] = baskets[d]
  BY <1>2, ExceptSeq
<1>4. SheetsShape'
  BY <1>3 DEF BasketInv, SheetsShape
<1> QED
  BY <1>3, <1>4

LEMMA LinesSet ==
  ASSUME NEW x, IsSheet(x), NEW v, NEW y, y = [x EXCEPT !.line = v]
  PROVE  /\ IsSheet(y) /\ y.line = v /\ y.status = x.status /\ y.sums = x.sums /\ y.token = x.token
BY DEF IsSheet

LEMMA DiscardKeeps ==
  ASSUME BasketInv, NEW c \in Clients, DiscardBasket(c)
  PROVE  BasketInv'
<1> DEFINE b == clients[c].basket
           x == [baskets[b] EXCEPT !.status = "discarded"]
<1>1. c \in Busy /\ clients[c].at = "discard" /\ clients[c] = [at |-> "discard", basket |-> b]
  BY DEF DiscardBasket, Busy, BasketInv, RequestsShape, RestIs, AtRest, Confirms, Drops
<1>2. b \in DOMAIN baskets
  BY <1>1 DEF BasketInv, RequestsKnown
<1>3. /\ IsSheet(x) /\ x.line = baskets[b].line /\ x.status = "discarded" /\ x.sums = baskets[b].sums
      /\ x.token = baskets[b].token /\ x.line = [l \in DOMAIN x.line |-> x.line[l]]
  BY <1>2 DEF BasketInv, SheetsShape, IsSheet
<1>4. baskets' = [baskets EXCEPT ![b] = x]
  BY <1>2 DEF DiscardBasket, BasketInv, SheetsShape
<1> HIDE DEF x
<1>5. /\ SheetsShape' /\ DOMAIN baskets' = DOMAIN baskets
      /\ baskets'[b] = x /\ \A d \in DOMAIN baskets \ {b} : baskets'[d] = baskets[d]
  BY <1>2, <1>3, <1>4, SheetWritten
<1>6. clients'[c] = [at |-> "skip", basket |-> b] /\ \A d \in Clients \ {c} : clients'[d] = clients[d]
  BY <1>1 DEF DiscardBasket, BasketInv, RequestsShape
<1>7. RequestsShape' /\ Busy' = Busy
  BY <1>1, <1>6 DEF BasketInv, RequestsShape, DiscardBasket, Busy, Drops, Confirms, AtRest
<1>8. /\ \A d \in Busy : clients'[d].basket = clients[d].basket /\ (d # c => clients'[d] = clients[d])
      /\ UNCHANGED <<registered, timesBooked, overlapped>>
  BY <1>1, <1>6 DEF DiscardBasket, Busy
<1>9. OverlapMarked'
  BY <1>7, <1>8 DEF BasketInv, OverlapMarked
<1>10. \A d \in Busy : d # c /\ clients[d].basket = b => b \in overlapped
  BY <1>1 DEF BasketInv, OverlapMarked
<1>11. RequestsKnown'
  BY <1>1, <1>2, <1>3, <1>5, <1>6, <1>7, <1>8, <1>10 DEF BasketInv, RequestsKnown, StillThere, Pending
<1>12. BookingsKnown'
  BY <1>3, <1>5, <1>8 DEF BasketInv, BookingsKnown, Purchase, Booked
<1>13. BookedOnce'
  BY <1>1, <1>3, <1>5, <1>7, <1>8 DEF BasketInv, BookedOnce, Booked, Pending
<1> QED
  BY <1>5, <1>7, <1>9, <1>11, <1>12, <1>13 DEF BasketInv

LEMMA SkipKeeps ==
  ASSUME BasketInv, NEW c \in Clients, SkipLines(c)
  PROVE  BasketInv'
<1> DEFINE b == clients[c].basket
           lines == Skipped(baskets[b].line)
           x == [baskets[b] EXCEPT !.line = lines]
<1>1. c \in Busy /\ clients[c].at = "skip"
  BY DEF SkipLines, Busy
<1>2. b \in DOMAIN baskets
  BY <1>1 DEF BasketInv, RequestsKnown
<1>3. /\ DOMAIN lines = DOMAIN baskets[b].line /\ lines = [l \in DOMAIN lines |-> lines[l]]
      /\ \A l \in DOMAIN lines :
           /\ lines[l] # "pending" /\ (lines[l] = "confirmed" <=> baskets[b].line[l] = "confirmed")
  BY DEF Skipped
<1>4. baskets' = [baskets EXCEPT ![b] = x]
  BY <1>2 DEF SkipLines, BasketInv, SheetsShape
<1> HIDE DEF lines
<1>5. /\ IsSheet(x) /\ x.line = lines /\ x.status = baskets[b].status /\ x.sums = baskets[b].sums
      /\ x.token = baskets[b].token
  <2>1. IsSheet(baskets[b])
    BY <1>2 DEF BasketInv, SheetsShape
  <2> QED BY <2>1, LinesSet
<1> HIDE DEF x
<1>6. /\ SheetsShape' /\ DOMAIN baskets' = DOMAIN baskets
      /\ baskets'[b] = x /\ \A d \in DOMAIN baskets \ {b} : baskets'[d] = baskets[d]
  BY <1>2, <1>3, <1>4, <1>5, SheetWritten
<1>7. /\ RequestsShape' /\ OverlapMarked' /\ Busy' = Busy \ {c}
      /\ \A d \in Busy' : d \in Busy /\ d # c /\ clients'[d] = clients[d]
      /\ UNCHANGED <<registered, timesBooked, overlapped>>
  BY <1>1, EndLeaves DEF SkipLines
<1>8. \A d \in Busy' : clients[d].basket = b => b \in overlapped
  BY <1>1, <1>7 DEF BasketInv, OverlapMarked
<1>9. RequestsKnown'
  BY <1>3, <1>5, <1>6, <1>7, <1>8 DEF BasketInv, RequestsKnown, StillThere, Pending
<1>10. BookingsKnown'
  BY <1>3, <1>5, <1>6, <1>7 DEF BasketInv, BookingsKnown, Purchase, Booked
<1>11. b \notin overlapped => baskets[b].status = "discarded"
  BY <1>1 DEF BasketInv, RequestsKnown, StillThere
<1>12. Pending(x) = {}
  BY <1>3, <1>5 DEF Pending
<1>13. BookedOnce'
  <2>1. ASSUME NEW d \in DOMAIN baskets'
        PROVE  /\ \A l \in DOMAIN baskets'[d].line :
                    /\ l[1] = "buy" => Booked(d, l)' <= 1
                    /\ d \notin overlapped => Booked(d, l)' = (IF baskets'[d].line[l] = "confirmed" THEN 1 ELSE 0)
               /\ d \notin overlapped =>
                    /\ baskets'[d].status = "confirmed" => Pending(baskets'[d]) = {} /\ DOMAIN baskets'[d].line # {}
                    /\ baskets'[d].status = "discarded" /\ (\A e \in Busy' : clients'[e].basket # d) =>
                         Pending(baskets'[d]) = {}
    <3>1. CASE d = b
      BY <3>1, <1>3, <1>5, <1>6, <1>7, <1>11, <1>12 DEF BasketInv, BookedOnce, Booked
    <3>2. CASE d # b
      BY <3>2, <2>1, <1>6, <1>7 DEF BasketInv, BookedOnce, Booked
    <3> QED BY <3>1, <3>2
  <2> QED BY <2>1, <1>7 DEF BookedOnce
<1> QED
  BY <1>6, <1>7, <1>9, <1>10, <1>13 DEF BasketInv

LEMMA CommitKeeps ==
  ASSUME BasketInv, NEW c \in Clients, CommitConfirm(c)
  PROVE  BasketInv'
<1> DEFINE r == clients[c]
           b == r.basket
           lines == ConfirmedLine(baskets[b], r.chosen)
           y == [baskets[b] EXCEPT !.line = lines]
           x == Concluded(y)
<1>1. c \in Busy /\ r.at = "confirm"
  BY DEF CommitConfirm, Busy
<1>2. /\ b \in DOMAIN baskets /\ r.chosen # {} /\ r.chosen \subseteq DOMAIN baskets[b].line
      /\ r.source = baskets[b].token.seen.source
      /\ b \notin overlapped => baskets[b].status = "draft" /\ r.chosen \subseteq Pending(baskets[b])
  BY <1>1 DEF BasketInv, RequestsKnown, StillThere
<1>3. /\ DOMAIN lines = DOMAIN baskets[b].line /\ lines = [l \in DOMAIN lines |-> lines[l]]
      /\ \A l \in DOMAIN lines : lines[l] = IF l \in r.chosen THEN "confirmed" ELSE baskets[b].line[l]
  BY DEF ConfirmedLine
<1>4. /\ baskets' = [baskets EXCEPT ![b] = x]
      /\ clients' = [clients EXCEPT ![c] = AtRest] /\ UNCHANGED overlapped
      /\ registered' = registered \cup Registers(r) /\ Registers(r) \cap registered = {}
  BY <1>2 DEF CommitConfirm, CanBook, BasketInv, SheetsShape
<1>5. /\ DOMAIN timesBooked' = DOMAIN timesBooked \cup {<<b, l>> : l \in r.chosen}
      /\ \A k \in DOMAIN timesBooked' :
           timesBooked'[k] = (IF k \in DOMAIN timesBooked THEN timesBooked[k] ELSE 0)
                             + (IF k[1] = b /\ k[2] \in r.chosen THEN 1 ELSE 0)
  BY DEF CommitConfirm
<1> HIDE DEF lines
<1>6. /\ IsSheet(y) /\ y.line = lines /\ y.status = baskets[b].status /\ y.sums = baskets[b].sums
      /\ y.token = baskets[b].token
  <2>1. IsSheet(baskets[b])
    BY <1>2 DEF BasketInv, SheetsShape
  <2> QED BY <2>1, LinesSet
<1> HIDE DEF y
<1>7. /\ IsSheet(x) /\ x.line = lines /\ x.sums = baskets[b].sums /\ x.token = baskets[b].token
      /\ IF Pending(y) = {} THEN x.status = "confirmed" ELSE x.status = baskets[b].status
      /\ Pending(x) = Pending(y)
  BY <1>6 DEF IsSheet, Concluded, Pending
<1> HIDE DEF x
<1>8. /\ SheetsShape' /\ DOMAIN baskets' = DOMAIN baskets
      /\ baskets'[b] = x /\ \A d \in DOMAIN baskets \ {b} : baskets'[d] = baskets[d]
  BY <1>2, <1>3, <1>4, <1>7, SheetWritten
<1>9. /\ RequestsShape' /\ OverlapMarked' /\ Busy' = Busy \ {c}
      /\ \A d \in Busy' : d \in Busy /\ d # c /\ clients'[d] = clients[d]
      /\ b \notin overlapped => Busy' = {}
  BY <1>1, <1>4, EndLeaves
<1>10. RequestsKnown'
  <2>1. ASSUME NEW d \in Busy', NEW q, q = clients'[d]
        PROVE  /\ q.basket \in DOMAIN baskets'
               /\ q.at = "confirm" =>
                    /\ q.chosen # {} /\ q.chosen \subseteq DOMAIN baskets'[q.basket].line
                    /\ q.source = baskets'[q.basket].token.seen.source
               /\ q.basket \notin overlapped' => StillThere(q)'
    <3>1. q = clients[d] /\ d \in Busy /\ q.basket \in DOMAIN baskets
      BY <2>1, <1>9 DEF BasketInv, RequestsKnown
    <3>2. CASE q.basket = b
      BY <3>1, <3>2, <2>1, <1>3, <1>4, <1>7, <1>8, <1>9 DEF BasketInv, RequestsKnown
    <3>3. CASE q.basket # b
      BY <3>1, <3>3, <1>4, <1>8 DEF BasketInv, RequestsKnown, StillThere
    <3> QED BY <3>2, <3>3
  <2> QED BY <2>1 DEF RequestsKnown, StillThere, Pending
<1>11. ASSUME NEW d, NEW l
       PROVE  /\ Booked(d, l)' = Booked(d, l) + (IF d = b /\ l \in r.chosen THEN 1 ELSE 0)
              /\ Booked(d, l) \in Nat
  <2>1. Booked(d, l) = IF <<d, l>> \in DOMAIN timesBooked THEN timesBooked[<<d, l>>] ELSE 0
    BY DEF Booked
  <2>2. Booked(d, l)' = IF <<d, l>> \in DOMAIN timesBooked' THEN timesBooked'[<<d, l>>] ELSE 0
    BY DEF Booked
  <2>3. Booked(d, l) \in Nat
    BY <2>1 DEF BasketInv, BookingsKnown
  <2>4. <<d, l>>[1] = d /\ <<d, l>>[2] = l
    OBVIOUS
  <2>5. <<d, l>> \in {<<b, m>> : m \in r.chosen} <=> (d = b /\ l \in r.chosen)
    OBVIOUS
  <2>6. CASE <<d, l>> \in DOMAIN timesBooked'
    <3>1. Booked(d, l)' = timesBooked'[<<d, l>>]
      BY <2>2, <2>6
    <3>2. timesBooked'[<<d, l>>] = Booked(d, l) + (IF d = b /\ l \in r.chosen THEN 1 ELSE 0)
      BY <2>1, <2>4, <2>6, <1>5
    <3> QED BY <3>1, <3>2, <2>3
  <2>7. CASE <<d, l>> \notin DOMAIN timesBooked'
    BY <2>1, <2>2, <2>5, <2>7, <1>5
  <2> QED BY <2>3, <2>6, <2>7
<1>12. \A l \in r.chosen : l[1] = "buy" => Purchase(b, l) \in Registers(r)
  BY <1>2 DEF Registers, Purchase
<1>13. \A l \in r.chosen : l[1] = "buy" => Booked(b, l) = 0
  BY <1>2, <1>4, <1>12 DEF BasketInv, BookingsKnown
<1>14. BookingsKnown'
  <2>1. \A k \in DOMAIN timesBooked' : timesBooked'[k] \in Nat
    BY <1>5 DEF BasketInv, BookingsKnown
  <2>2. ASSUME NEW d, NEW l, <<d, l>> \in DOMAIN timesBooked'
        PROVE  d \in DOMAIN baskets'
    BY <2>2, <1>2, <1>5, <1>8 DEF BasketInv, BookingsKnown
  <2>3. ASSUME NEW d \in DOMAIN baskets', NEW l \in DOMAIN baskets'[d].line, l[1] = "buy", Booked(d, l)' # 0
        PROVE  Purchase(d, l)' \in registered'
    <3>1. Purchase(d, l)' = Purchase(d, l) /\ l \in DOMAIN baskets[d].line /\ d \in DOMAIN baskets
      BY <2>3, <1>3, <1>7, <1>8 DEF Purchase
    <3>2. CASE d = b /\ l \in r.chosen
      BY <2>3, <3>1, <3>2, <1>4, <1>12
    <3>3. CASE ~(d = b /\ l \in r.chosen)
      BY <2>3, <3>1, <3>3, <1>4, <1>11 DEF BasketInv, BookingsKnown
    <3> QED BY <3>2, <3>3
  <2> QED BY <2>1, <2>2, <2>3 DEF BookingsKnown
<1>15. BookedOnce'
  <2>1. ASSUME NEW d \in DOMAIN baskets', NEW l \in DOMAIN baskets'[d].line
        PROVE  /\ l[1] = "buy" => Booked(d, l)' <= 1
               /\ d \notin overlapped' => Booked(d, l)' = (IF baskets'[d].line[l] = "confirmed" THEN 1 ELSE 0)
    <3>1. d \in DOMAIN baskets /\ l \in DOMAIN baskets[d].line
      BY <2>1, <1>3, <1>7, <1>8
    <3>2. /\ l[1] = "buy" => Booked(d, l) <= 1
          /\ d \notin overlapped => Booked(d, l) = (IF baskets[d].line[l] = "confirmed" THEN 1 ELSE 0)
      BY <3>1 DEF BasketInv, BookedOnce
    <3>3. CASE d = b /\ l \in r.chosen
      <4>1. b \notin overlapped => baskets[b].line[l] = "pending"
        BY <3>3, <1>2 DEF Pending
      <4>2. baskets'[d].line[l] = "confirmed"
        BY <3>1, <3>3, <1>3, <1>7, <1>8
      <4>3. Booked(d, l)' = Booked(d, l) + 1 /\ (l[1] = "buy" => Booked(d, l) = 0)
        BY <3>3, <1>11, <1>13
      <4> QED BY <3>2, <3>3, <4>1, <4>2, <4>3, <1>4
    <3>4. CASE ~(d = b /\ l \in r.chosen)
      <4>1. Booked(d, l)' = Booked(d, l)
        BY <3>4, <1>11
      <4>2. baskets'[d].line[l] = baskets[d].line[l]
        BY <3>1, <3>4, <1>3, <1>7, <1>8
      <4> QED BY <3>2, <4>1, <4>2, <1>4
    <3> QED BY <3>3, <3>4
  <2>2. ASSUME NEW d \in DOMAIN baskets', d \notin overlapped'
        PROVE  /\ baskets'[d].status = "confirmed" => Pending(baskets'[d]) = {} /\ DOMAIN baskets'[d].line # {}
               /\ baskets'[d].status = "discarded" /\ (\A e \in Busy' : clients'[e].basket # d) =>
                    Pending(baskets'[d]) = {}
    <3>1. CASE d = b
      <4>1. baskets[b].status = "draft" /\ DOMAIN lines # {}
        BY <3>1, <2>2, <1>2, <1>3, <1>4
      <4> QED BY <3>1, <4>1, <1>7, <1>8
    <3>2. CASE d # b
      <4>1. d \in DOMAIN baskets /\ baskets'[d] = baskets[d] /\ d \notin overlapped
        BY <3>2, <2>2, <1>4, <1>8
      <4>2. (\A e \in Busy' : clients'[e].basket # d) => \A e \in Busy : clients[e].basket # d
        BY <3>2, <1>9
      <4>3. /\ baskets[d].status = "confirmed" => Pending(baskets[d]) = {} /\ DOMAIN baskets[d].line # {}
            /\ baskets[d].status = "discarded" /\ (\A e \in Busy : clients[e].basket # d) =>
                 Pending(baskets[d]) = {}
        BY <4>1 DEF BasketInv, BookedOnce
      <4> QED BY <4>1, <4>2, <4>3
    <3> QED BY <3>1, <3>2
  <2> QED BY <2>1, <2>2 DEF BookedOnce, Booked, Pending
<1> QED
  BY <1>8, <1>9, <1>10, <1>14, <1>15 DEF BasketInv

LEMMA CreateKeeps ==
  ASSUME BasketInv, NEW amount, NEW source, CreateBasket(amount, source)
  PROVE  BasketInv'
<1>1. PICK pr : baskets' = Append(baskets, Draft(pr, amount, source))
  BY DEF CreateBasket
<1> DEFINE x == Draft(pr, amount, source)
           n == Len(baskets) + 1
<1>2. UNCHANGED <<clients, registered, timesBooked, overlapped>>
  BY DEF CreateBasket
<1>3. /\ IsSheet(x) /\ x.status = "draft" /\ x.line = [l \in DOMAIN x.line |-> x.line[l]]
      /\ \A l \in DOMAIN x.line : x.line[l] = "pending"
  BY DEF Draft, IsSheet
<1> HIDE DEF x
<1>4. PICK S : baskets \in Seq(S)
  BY DEF BasketInv, SheetsShape
<1>5. baskets \in Seq(S \cup {x}) /\ DOMAIN baskets = 1..Len(baskets) /\ Len(baskets) \in Nat
  BY <1>4, SeqMonotonic, LenProperties
<1>6. /\ baskets' \in Seq(S \cup {x}) /\ DOMAIN baskets' = DOMAIN baskets \cup {n} /\ n \notin DOMAIN baskets
      /\ baskets'[n] = x /\ \A d \in DOMAIN baskets : baskets'[d] = baskets[d]
  BY <1>1, <1>5, AppendProperties DEF x
<1> HIDE DEF n
<1>7. SheetsShape'
  BY <1>3, <1>6 DEF BasketInv, SheetsShape
<1>8. Busy' = Busy /\ RequestsShape' /\ OverlapMarked'
  BY <1>2 DEF BasketInv, RequestsShape, OverlapMarked, Busy
<1>9. RequestsKnown'
  BY <1>2, <1>6, <1>8 DEF BasketInv, RequestsKnown, StillThere, Pending
<1>10. \A l : Booked(n, l) = 0
  BY <1>6 DEF BasketInv, BookingsKnown, Booked
<1>11. \A d, l : Booked(d, l)' = Booked(d, l)
  BY <1>2 DEF Booked
<1>12. BookingsKnown'
  <2>1. ASSUME NEW d \in DOMAIN baskets', NEW l \in DOMAIN baskets'[d].line, l[1] = "buy", Booked(d, l)' # 0
        PROVE  Purchase(d, l)' \in registered'
    BY <2>1, <1>2, <1>6, <1>10, <1>11 DEF BasketInv, BookingsKnown, Purchase
  <2> QED BY <2>1, <1>2, <1>6 DEF BasketInv, BookingsKnown
<1>13. BookedOnce'
  <2>1. ASSUME NEW d \in DOMAIN baskets'
        PROVE  /\ \A l \in DOMAIN baskets'[d].line :
                    /\ l[1] = "buy" => Booked(d, l)' <= 1
                    /\ d \notin overlapped => Booked(d, l)' = (IF baskets'[d].line[l] = "confirmed" THEN 1 ELSE 0)
               /\ d \notin overlapped =>
                    /\ baskets'[d].status = "confirmed" => Pending(baskets'[d]) = {} /\ DOMAIN baskets'[d].line # {}
                    /\ baskets'[d].status = "discarded" /\ (\A e \in Busy' : clients'[e].basket # d) =>
                         Pending(baskets'[d]) = {}
    <3>1. CASE d = n
      BY <3>1, <1>3, <1>6, <1>10, <1>11
    <3>2. CASE d # n
      BY <3>2, <2>1, <1>2, <1>6, <1>8, <1>11 DEF BasketInv, BookedOnce
    <3> QED BY <3>1, <3>2
  <2> QED BY <2>1, <1>2 DEF BookedOnce
<1> QED
  BY <1>7, <1>8, <1>9, <1>12, <1>13 DEF BasketInv

LEMMA BasketInitially == BasketInit => BasketInv
<1> SUFFICES ASSUME BasketInit PROVE BasketInv
  OBVIOUS
<1>1. baskets = <<>> /\ baskets \in Seq({}) /\ DOMAIN baskets = {}
  BY EmptySeq DEF BasketInit
<1>2. SheetsShape
  BY <1>1 DEF SheetsShape
<1>3. Busy = {} /\ RequestsShape
  BY RestIs DEF BasketInit, Busy, RequestsShape
<1>4. DOMAIN timesBooked = {}
  BY DEF BasketInit
<1>5. BookingsKnown
  BY <1>1, <1>4 DEF BookingsKnown
<1> QED
  BY <1>1, <1>2, <1>3, <1>5 DEF BasketInv, OverlapMarked, RequestsKnown, BookedOnce

LEMMA BasketKept == BasketInv /\ [BasketNext]_basketVars => BasketInv'
<1> SUFFICES ASSUME BasketInv, [BasketNext]_basketVars PROVE BasketInv'
  OBVIOUS
<1>1. CASE \E amount \in BasketAmounts, source \in Sources : CreateBasket(amount, source)
  BY <1>1, CreateKeeps
<1>2. CASE \E c \in Clients, b \in DOMAIN baskets : ReadDiscard(c, b)
  BY <1>2, ReadDiscardKeeps
<1>3. CASE \E c \in Clients, b \in DOMAIN baskets, source \in Sources : ReadConfirm(c, b, source)
  BY <1>3, ReadConfirmKeeps
<1>4. CASE \E c \in Clients : CommitConfirm(c) \/ RefuseConfirm(c) \/ DiscardBasket(c) \/ SkipLines(c)
  BY <1>4, CommitKeeps, RefuseKeeps, DiscardKeeps, SkipKeeps
<1>5. CASE \/ \E move \in WorthMoves : Revalue(move[1], move[2])
           \/ \E p \in Funds : GoStale(p)
           \/ \E version \in PolicyVersions : ReplacePolicy(version)
           \/ UNCHANGED basketVars
  <2>1. UNCHANGED <<baskets, clients, registered, timesBooked, overlapped>>
    BY <1>5 DEF Revalue, GoStale, ReplacePolicy, Happens, basketVars
  <2> QED BY <2>1, BasketsStand
<1> QED
  BY <1>1, <1>2, <1>3, <1>4, <1>5 DEF BasketNext

\* However many baskets and requests there are: a confirmed line is booked once and no other is, a
\* basket is closed when nothing of it is left to decide, unless its requests ran beside others; and
\* no purchase is booked twice even then (confirm_basket, discard_basket).
THEOREM BookedOnceCorrect == BasketSpec => []BookedOnce
<1>1. BasketInv => BookedOnce
  BY DEF BasketInv
<1> QED
  BY <1>1, BasketInitially, BasketKept, PTL DEF BasketSpec
=============================================================================
