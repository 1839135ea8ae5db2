----------------------------- MODULE LedgerProofs -----------------------------
(***************************************************************************)
(* Proofs about what is derived from the ledger, for any dates, amounts    *)
(* and costs and any number of movements, edits and callbacks.             *)
(***************************************************************************)
EXTENDS PortfolioSync, LedgerPositions, SetLemmas, TLAPS

Entries == [kind : RecordKinds, date : Int, change : Int, posted : BOOLEAN, cost : Nat]
Jobs == [do : {"derive", "pair", "cost"}, of : Recorded]
SyncTyped ==
  /\ records \in [Recorded -> Entries]
  /\ Recorded \subseteq 1..MaxBookings /\ IsFiniteSet(Recorded) /\ NewRecord \in Nat \ Recorded
  /\ \A t \in Recorded : t < NewRecord
  /\ \A r \in derived : r.value >= 0 /\ r.of \in Recorded
  /\ callbacks \subseteq Jobs
  /\ tradeCosts = [t \in DOMAIN tradeCosts |-> tradeCosts[t]] /\ DOMAIN tradeCosts \subseteq Recorded
  /\ pairing = [t \in DOMAIN pairing |-> pairing[t]] /\ DOMAIN pairing \subseteq Recorded
  /\ \A rs \in deriving : \A r \in rs : r.value >= 0 /\ r.of \in Recorded
  /\ edits \in 0..MaxEdits /\ stale \in BOOLEAN /\ missed \subseteq Recorded

\* What a callback has read is what the ledger says, unless it moved since.
ReadingsStand == ~stale => deriving \subseteq {Readings}

\* A trade that does not say what the investment costs is still to be written.
InvestmentsOnly ==
  /\ \A t \in DOMAIN tradeCosts : IsA(t, "investment")
  /\ \A t \in DOMAIN pairing : IsA(t, "investment") \/ IsA(t, "deleted")
Job(do, t) == [do |-> do, of |-> t]
CostsComing ==
  \A t \in Recorded \ missed : IsA(t, "investment") =>
    /\ t \in DOMAIN pairing => pairing[t] = records[t].cost
    /\ t \notin DOMAIN tradeCosts => t \in DOMAIN pairing \/ Job("pair", t) \in callbacks
    /\ t \in DOMAIN tradeCosts /\ tradeCosts[t] # records[t].cost =>
         t \in DOMAIN pairing \/ (records[t].cost > 0 /\ Job("cost", t) \in callbacks)

\* Inductive.
SyncInv == SyncTyped /\ ReadingsStand /\ ValuationsFollowLedger /\ InvestmentsOnly /\ CostsComing

-----------------------------------------------------------------------------
(* Readings *)

LEMMA BalanceInt ==
  ASSUME SyncTyped, NEW t
  PROVE  /\ IsFiniteSet(Upto(t)) /\ Upto(t) \subseteq Recorded
         /\ Balance(t) \in Int
<1> DEFINE f == [s \in Recorded |-> records[s].change]
<1>1. IsFiniteSet(Upto(t)) /\ Upto(t) \subseteq Recorded
  <2>1. Upto(t) \subseteq Recorded
    BY DEF Upto
  <2> QED BY <2>1, FS_Subset DEF SyncTyped
<1>2. \A s \in Upto(t) : f[s] \in Int
  BY <1>1 DEF SyncTyped, Entries
<1> HIDE DEF f
<1>3. SumFunctionOnSet(f, Upto(t)) \in Int
  BY <1>1, <1>2, SumInt
<1> QED
  BY <1>1, <1>3 DEF Balance, f

\* What follows from the same movements is the same.
LEMMA BalanceSame ==
  ASSUME SyncTyped, NEW t, Recorded \subseteq Recorded', Upto(t)' = Upto(t),
         \A s \in Upto(t) : records'[s].change = records[s].change
  PROVE  Balance(t)' = Balance(t)
<1> DEFINE f == [s \in Recorded |-> records[s].change]
<1>0. PICK g : g = [s \in Recorded' |-> records'[s].change]
  OBVIOUS
<1>1. IsFiniteSet(Upto(t)) /\ Upto(t) \subseteq Recorded
  BY BalanceInt
<1>2. \A s \in Upto(t) : g[s] = f[s]
  BY <1>0, <1>1
<1> HIDE DEF f
<1>3. SumFunctionOnSet(g, Upto(t)) = SumFunctionOnSet(f, Upto(t))
  BY <1>1, <1>2, SumSame
<1> QED
  BY <1>0, <1>3 DEF Balance, f

LEMMA ReadingsSame ==
  ASSUME SyncTyped, Recorded \subseteq Recorded', Revaluations' = Revaluations,
         \A t \in Revaluations : /\ records'[t].date = records[t].date
                                 /\ Upto(t)' = Upto(t)
                                 /\ \A s \in Upto(t) : records'[s].change = records[s].change
  PROVE  /\ Readings' = Readings
         /\ \A t \in Revaluations : Balance(t)' = Balance(t)
         /\ \A r : Sourced(r)' <=> Sourced(r)
<1>1. \A t \in Revaluations : Balance(t)' = Balance(t)
  BY BalanceSame
<1>2. Readings' = Readings
  BY <1>1 DEF Readings
<1>3. \A r : Sourced(r)' <=> Sourced(r)
  BY DEF Sourced
<1> QED
  BY <1>1, <1>2, <1>3

LEMMA LastReading ==
  ASSUME SyncTyped, NEW r \in Readings
  PROVE  \E q \in LastOfDate(Readings) : q.date = r.date
<1> DEFINE ofDate == {q \in Readings : q.date = r.date}
           T == {q.of : q \in ofDate}
<1>1. \A q \in Readings : q.of \in Recorded
  BY DEF Readings, Revaluations
<1>2. T \in SUBSET Nat /\ T # {} /\ r.of \in T
  BY <1>1 DEF SyncTyped
<1>3. NewRecord \in Nat /\ \A x \in T : x <= NewRecord
  BY <1>1 DEF SyncTyped
<1> HIDE DEF T
<1>4. \E x \in T : \A y \in T : y <= x
  BY <1>2, <1>3, GreatestNatural
<1>5. PICK q \in ofDate : \A y \in T : y <= q.of
  BY <1>4 DEF T
<1>6. q \in LastOfDate(Readings)
  <2>1. ASSUME NEW w \in Readings, w.date = q.date PROVE w.of <= q.of
    <3>1. w \in ofDate
      BY <1>5, <2>1
    <3> QED BY <1>5, <3>1 DEF T
  <2> QED BY <1>5, <2>1 DEF LastOfDate
<1> QED
  BY <1>5, <1>6

\* Deriving from what the ledger says gives what it says.
LEMMA DerivedFollows ==
  ASSUME SyncTyped, NEW old
  PROVE  LET new == DerivedFrom(Readings, old) IN
         /\ \A r \in LastOfDate(Readings) : r \in new
         /\ \A r \in new : r \in Readings \/ (Sourced(r) /\ Balance(r.of) < 0)
<1> DEFINE last == LastOfDate(Readings)
           kept == Overwrite(old, last)
           new == DerivedFrom(Readings, old)
<1>1. \A q \in Readings : q.of \in Revaluations /\ Sourced(q) /\ ~IsA(q.of, "deleted")
  BY DEF Readings, Sourced, Revaluations, IsA
<1>2. Written(Readings) = Readings
  BY <1>1 DEF Written
<1>3. new = {r \in kept : Sourced(r)}
  BY <1>2 DEF DerivedFrom
<1>4. last \subseteq Readings
  BY DEF LastOfDate
<1>5. \A r \in last : r \in new
  BY <1>1, <1>3, <1>4 DEF Overwrite
<1>6. ASSUME NEW r \in new, r \notin Readings PROVE Sourced(r) /\ Balance(r.of) < 0
  <2>1. r \in old /\ Sourced(r) /\ \A n \in last : n.date # r.date
    BY <1>3, <1>4, <1>6 DEF Overwrite
  <2>2. r.of \in Revaluations /\ records[r.of].date = r.date /\ Balance(r.of) \in Int
    BY <2>1, BalanceInt DEF Sourced
  <2>3. CASE Balance(r.of) >= 0
    <3> DEFINE q == [date |-> records[r.of].date, value |-> Balance(r.of), of |-> r.of]
    <3>1. q \in Readings /\ q.date = r.date
      BY <2>2, <2>3 DEF Readings
    <3> HIDE DEF q
    <3>2. \E n \in last : n.date = q.date
      BY <3>1, LastReading
    <3> QED BY <2>1, <3>1, <3>2
  <2> QED BY <2>1, <2>2, <2>3
<1> QED
  BY <1>5, <1>6

-----------------------------------------------------------------------------
(* Changes of the ledger *)

LEMMA Recording ==
  ASSUME SyncTyped, NEW e \in Entries, NewRecord <= MaxBookings,
         records' = Put(records, NewRecord, e)
  PROVE  /\ Recorded' = Recorded \cup {NewRecord} /\ records' \in [Recorded' -> Entries]
         /\ Recorded' \subseteq 1..MaxBookings /\ IsFiniteSet(Recorded')
         /\ NewRecord' \in Nat \ Recorded' /\ \A t \in Recorded' : t < NewRecord'
         /\ records'[NewRecord] = e /\ \A t \in Recorded : records'[t] = records[t]
<1>1. /\ Recorded' = Recorded \cup {NewRecord} /\ records'[NewRecord] = e
      /\ \A t \in Recorded : records'[t] = records[t]
      /\ records' = [t \in Recorded' |-> records'[t]]
  BY DEF Put, SyncTyped, Recorded
<1>2. \A t \in Recorded' : records'[t] \in Entries
  BY <1>1 DEF SyncTyped
<1>3. IsFiniteSet(Recorded') /\ Cardinality(Recorded') = Cardinality(Recorded) + 1
  BY <1>1, FS_AddElement DEF SyncTyped
<1>4. Cardinality(Recorded) \in Nat
  BY FS_CardinalityType DEF SyncTyped
<1>5. NewRecord' = NewRecord + 1 /\ NewRecord \in Nat /\ NewRecord >= 1
  BY <1>3, <1>4 DEF NewRecord
<1>6. \A t \in Recorded' : t < NewRecord'
  BY <1>1, <1>5 DEF SyncTyped
<1>7. NewRecord' \notin Recorded'
  BY <1>5, <1>6
<1>8. Recorded' \subseteq 1..MaxBookings
  BY <1>1, <1>5, SyncAssumption DEF SyncTyped
<1> QED
  BY <1>1, <1>2, <1>3, <1>5, <1>6, <1>7, <1>8

LEMMA Changing ==
  ASSUME SyncTyped, NEW t \in Recorded, NEW e \in Entries, records' = [records EXCEPT ![t] = e]
  PROVE  /\ Recorded' = Recorded /\ records' \in [Recorded' -> Entries]
         /\ Recorded' \subseteq 1..MaxBookings /\ IsFiniteSet(Recorded')
         /\ NewRecord' \in Nat \ Recorded' /\ \A u \in Recorded' : u < NewRecord'
         /\ records'[t] = e /\ \A u \in Recorded \ {t} : records'[u] = records[u]
<1>1. Recorded' = Recorded /\ records' \in [Recorded' -> Entries]
  BY DEF SyncTyped, Recorded
<1>2. records'[t] = e /\ \A u \in Recorded \ {t} : records'[u] = records[u]
  BY DEF SyncTyped
<1>3. NewRecord' = NewRecord
  BY <1>1 DEF NewRecord
<1> QED
  BY <1>1, <1>2, <1>3 DEF SyncTyped

\* What no revaluation contains is in no reading.
LEMMA OutsideReadings ==
  ASSUME SyncTyped, NEW t, Recorded \subseteq Recorded', Recorded' \subseteq Recorded \cup {t},
         \A u \in Recorded \ {t} : records'[u] = records[u],
         t \notin Revaluations, t \notin Revaluations',
         \A r \in Revaluations : t \notin Upto(r) /\ t \notin Upto(r)'
  PROVE  /\ Readings' = Readings
         /\ \A r \in Revaluations : Balance(r)' = Balance(r)
         /\ \A r : Sourced(r)' <=> Sourced(r)
<1>1. Revaluations' = Revaluations
  BY DEF Revaluations, IsA
<1>2. ASSUME NEW r \in Revaluations
      PROVE  /\ records'[r].date = records[r].date
             /\ Upto(r)' = Upto(r) /\ \A s \in Upto(r) : records'[s].change = records[s].change
  <2>1. r \in Recorded \ {t}
    BY DEF Revaluations
  <2>2. records'[r] = records[r]
    BY <2>1
  <2>3. ASSUME NEW s, s # t PROVE s \in Upto(r)' <=> s \in Upto(r)
    BY <2>2, <2>3 DEF Upto
  <2>4. Upto(r)' = Upto(r)
    BY <2>3
  <2>5. \A s \in Upto(r) : s \in Recorded \ {t}
    BY DEF Upto
  <2> QED BY <2>2, <2>4, <2>5
<1> QED
  BY <1>1, <1>2, ReadingsSame

\* The valuations stay right when the readings stay what they are.
LEMMA ValuationsKept ==
  ASSUME ValuationsFollowLedger, Readings' = Readings,
         \A r \in Revaluations : Balance(r)' = Balance(r), \A r : Sourced(r)' <=> Sourced(r),
         derived' \subseteq derived, LastOfDate(Readings) \cap derived \subseteq derived',
         Settled' /\ ~stale' => Settled /\ ~stale
  PROVE  ValuationsFollowLedger'
<1> SUFFICES ASSUME Settled', ~stale'
             PROVE  /\ \A r \in LastOfDate(Readings)' : r \in derived'
                    /\ \A r \in derived' : r \in Readings' \/ (Sourced(r)' /\ Balance(r.of)' < 0)
  BY DEF ValuationsFollowLedger
<1>1. /\ \A r \in LastOfDate(Readings) : r \in derived
      /\ \A r \in derived : r \in Readings \/ (Sourced(r) /\ Balance(r.of) < 0)
  BY DEF ValuationsFollowLedger
<1>2. LastOfDate(Readings)' = LastOfDate(Readings)
  BY DEF LastOfDate
<1>3. \A r : Sourced(r) => Balance(r.of)' = Balance(r.of)
  BY DEF Sourced
<1> QED
  BY <1>1, <1>2, <1>3

\* A change after which a callback is to derive, or the valuations are behind.
LEMMA Unsettled ==
  ASSUME ~Settled' \/ stale'
  PROVE  ValuationsFollowLedger'
BY DEF ValuationsFollowLedger

LEMMA NewMovement ==
  ASSUME SyncInv, NEW sort \in {"revaluation", "investment"}, NEW d \in BookingDates, NEW change \in Changes,
         NEW posted \in BOOLEAN, NEW cost \in Costs, BookMovement(sort, d, change, posted, cost)
  PROVE  SyncInv'
<1> DEFINE e == Entry(sort, d, change, posted, cost)
<1>0. /\ SyncTyped /\ ReadingsStand /\ ValuationsFollowLedger /\ InvestmentsOnly /\ CostsComing
  BY DEF SyncInv
<1>n. PICK n : n = NewRecord
  OBVIOUS
<1>1. e \in Entries /\ e.kind = sort /\ e.cost = cost /\ e.posted = posted
  BY SyncAssumption DEF Entry, Entries, RecordKinds
<1>2. /\ n <= MaxBookings /\ records' = Put(records, n, e)
      /\ stale' = (stale \/ deriving # {} \/ \E t \in Recorded' \ Recorded : Contained(t)')
      /\ callbacks' = callbacks \cup {Job(FollowUp(sort), n)}
      /\ derived' = derived /\ tradeCosts' = tradeCosts /\ deriving' = deriving
      /\ pairing' = pairing /\ edits' = edits /\ missed' = missed
  BY <1>n DEF BookMovement, Schedule, Disturbed, Job
<1> HIDE DEF e
<1>3. /\ Recorded' = Recorded \cup {n} /\ records' \in [Recorded' -> Entries]
      /\ Recorded' \subseteq 1..MaxBookings /\ IsFiniteSet(Recorded')
      /\ NewRecord' \in Nat \ Recorded' /\ \A t \in Recorded' : t < NewRecord'
      /\ records'[n] = e /\ \A t \in Recorded : records'[t] = records[t]
  BY <1>0, <1>1, <1>2, <1>n, Recording
<1>4. n \notin Recorded
  BY <1>0, <1>n DEF SyncTyped
<1>5. Job(FollowUp(sort), n) \in [do : {"derive", "pair", "cost"}, of : Recorded']
  BY <1>3 DEF Job, FollowUp
<1>6. SyncTyped'
  <2>1. callbacks' \subseteq Jobs'
    BY <1>0, <1>2, <1>3, <1>5 DEF SyncTyped, Jobs
  <2>2. stale' \in BOOLEAN
    BY <1>2
  <2> QED BY <1>0, <1>2, <1>3, <2>1, <2>2 DEF SyncTyped
<1>7. ReadingsStand'
  BY <1>2 DEF ReadingsStand
<1>8. ValuationsFollowLedger'
  <2>1. CASE sort = "revaluation"
    <3>1. Job("derive", n) \in callbacks' /\ Job("derive", n).do = "derive"
      BY <1>2, <2>1 DEF FollowUp, Job
    <3> QED BY <3>1, Unsettled DEF Settled
  <2>2. CASE sort = "investment"
    <3>1. n \notin Revaluations /\ n \notin Revaluations'
      BY <1>1, <1>3, <1>4, <2>2 DEF Revaluations, IsA
    <3>2. CASE stale'
      BY <3>2, Unsettled
    <3>3. CASE ~stale'
      <4>1. ~Contained(n)' /\ deriving = {} /\ ~stale
        BY <1>2, <1>3, <1>4, <3>3
      <4>2. Revaluations' = Revaluations
        BY <1>3, <3>1 DEF Revaluations, IsA
      <4>3. \A r \in Revaluations : n \notin Upto(r) /\ n \notin Upto(r)'
        BY <1>1, <1>3, <1>4, <2>2, <4>1, <4>2 DEF Contained, IsA, Upto
      <4>4. /\ Readings' = Readings
            /\ \A r \in Revaluations : Balance(r)' = Balance(r)
            /\ \A r : Sourced(r)' <=> Sourced(r)
        BY <1>0, <1>3, <3>1, <4>3, OutsideReadings
      <4>5. Settled' => Settled
        BY <1>2 DEF Settled
      <4> QED BY <1>0, <1>2, <4>1, <4>4, <4>5, ValuationsKept
    <3> QED BY <3>2, <3>3
  <2> QED BY <2>1, <2>2
<1>9. InvestmentsOnly'
  BY <1>0, <1>2, <1>3 DEF InvestmentsOnly, SyncTyped, IsA
<1>10. CostsComing'
  <2> SUFFICES ASSUME NEW t \in Recorded' \ missed', IsA(t, "investment")'
      PROVE /\ t \in DOMAIN pairing' => pairing'[t] = records'[t].cost
            /\ t \notin DOMAIN tradeCosts' => t \in DOMAIN pairing' \/ Job("pair", t) \in callbacks'
            /\ t \in DOMAIN tradeCosts' /\ tradeCosts'[t] # records'[t].cost =>
                 t \in DOMAIN pairing' \/ (records'[t].cost > 0 /\ Job("cost", t) \in callbacks')
    BY DEF CostsComing
  <2>1. CASE t = n
    <3>1. sort = "investment"
      BY <1>1, <1>3, <2>1 DEF IsA
    <3>2. t \notin DOMAIN pairing /\ t \notin DOMAIN tradeCosts
      BY <1>0, <1>4, <2>1 DEF SyncTyped
    <3>3. Job("pair", t) \in callbacks'
      BY <1>2, <2>1, <3>1 DEF FollowUp
    <3> QED BY <1>2, <3>2, <3>3
  <2>2. CASE t # n
    <3>1. t \in Recorded \ missed /\ records'[t] = records[t] /\ IsA(t, "investment")
      BY <1>2, <1>3, <2>2 DEF IsA
    <3> QED BY <1>0, <1>2, <3>1 DEF CostsComing
  <2> QED BY <2>1, <2>2
<1> QED
  BY <1>6, <1>7, <1>8, <1>9, <1>10 DEF SyncInv

LEMMA NewOperation ==
  ASSUME SyncInv, NEW d \in BookingDates, NEW change \in Changes, NEW cost \in Costs,
         BookOperation(d, change, cost)
  PROVE  SyncInv'
<1> DEFINE e == Entry("investment", d, change, TRUE, cost)
<1>0. /\ SyncTyped /\ ReadingsStand /\ ValuationsFollowLedger /\ InvestmentsOnly /\ CostsComing
  BY DEF SyncInv
<1>n. PICK n : n = NewRecord
  OBVIOUS
<1>1. e \in Entries /\ e.kind = "investment" /\ e.cost = cost
  BY SyncAssumption DEF Entry, Entries, RecordKinds
<1>2. /\ n <= MaxBookings /\ records' = Put(records, n, e)
      /\ stale' = (stale \/ deriving # {} \/ \E t \in Recorded' \ Recorded : Contained(t)')
      /\ callbacks' = callbacks \cup {Job("pair", n)} /\ tradeCosts' = Put(tradeCosts, n, cost)
      /\ derived' = derived /\ deriving' = deriving
      /\ pairing' = pairing /\ edits' = edits /\ missed' = missed
  BY <1>n DEF BookOperation, Schedule, Disturbed, Job
<1> HIDE DEF e
<1>3. /\ Recorded' = Recorded \cup {n} /\ records' \in [Recorded' -> Entries]
      /\ Recorded' \subseteq 1..MaxBookings /\ IsFiniteSet(Recorded')
      /\ NewRecord' \in Nat \ Recorded' /\ \A t \in Recorded' : t < NewRecord'
      /\ records'[n] = e /\ \A t \in Recorded : records'[t] = records[t]
  BY <1>0, <1>1, <1>2, <1>n, Recording
<1>4. n \notin Recorded
  BY <1>0, <1>n DEF SyncTyped
<1>5. /\ DOMAIN tradeCosts' = DOMAIN tradeCosts \cup {n} /\ tradeCosts'[n] = cost
      /\ \A t \in DOMAIN tradeCosts : tradeCosts'[t] = tradeCosts[t]
      /\ tradeCosts' = [t \in DOMAIN tradeCosts' |-> tradeCosts'[t]]
  <2>1. n \notin DOMAIN tradeCosts
    BY <1>0, <1>4 DEF SyncTyped
  <2> QED BY <1>2, <2>1 DEF Put
<1>6. SyncTyped'
  <2>1. Job("pair", n) \in [do : {"derive", "pair", "cost"}, of : Recorded']
    BY <1>3 DEF Job
  <2>2. callbacks' \subseteq Jobs'
    BY <1>0, <1>2, <1>3, <2>1 DEF SyncTyped, Jobs
  <2>3. stale' \in BOOLEAN
    BY <1>2
  <2> QED BY <1>0, <1>2, <1>3, <1>5, <2>2, <2>3 DEF SyncTyped
<1>7. ReadingsStand'
  BY <1>2 DEF ReadingsStand
<1>8. ValuationsFollowLedger'
  <2>1. n \notin Revaluations /\ n \notin Revaluations'
    BY <1>1, <1>3, <1>4 DEF Revaluations, IsA
  <2>2. CASE stale'
    BY <2>2, Unsettled
  <2>3. CASE ~stale'
    <3>1. ~Contained(n)' /\ deriving = {} /\ ~stale
      BY <1>2, <1>3, <1>4, <2>3
    <3>2. Revaluations' = Revaluations
      BY <1>3, <2>1 DEF Revaluations, IsA
    <3>3. \A r \in Revaluations : n \notin Upto(r) /\ n \notin Upto(r)'
      BY <1>1, <1>3, <1>4, <3>1, <3>2 DEF Contained, IsA, Upto
    <3>4. /\ Readings' = Readings
          /\ \A r \in Revaluations : Balance(r)' = Balance(r)
          /\ \A r : Sourced(r)' <=> Sourced(r)
      BY <1>0, <1>3, <2>1, <3>3, OutsideReadings
    <3>5. Settled' => Settled
      BY <1>2 DEF Settled
    <3> QED BY <1>0, <1>2, <3>1, <3>4, <3>5, ValuationsKept
  <2> QED BY <2>2, <2>3
<1>9. InvestmentsOnly'
  BY <1>0, <1>1, <1>2, <1>3, <1>5 DEF InvestmentsOnly, SyncTyped, IsA
<1>10. CostsComing'
  <2> SUFFICES ASSUME NEW t \in Recorded' \ missed', IsA(t, "investment")'
      PROVE /\ t \in DOMAIN pairing' => pairing'[t] = records'[t].cost
            /\ t \notin DOMAIN tradeCosts' => t \in DOMAIN pairing' \/ Job("pair", t) \in callbacks'
            /\ t \in DOMAIN tradeCosts' /\ tradeCosts'[t] # records'[t].cost =>
                 t \in DOMAIN pairing' \/ (records'[t].cost > 0 /\ Job("cost", t) \in callbacks')
    BY DEF CostsComing
  <2>1. CASE t = n
    <3>1. t \notin DOMAIN pairing /\ t \in DOMAIN tradeCosts' /\ tradeCosts'[t] = records'[t].cost
      BY <1>0, <1>1, <1>3, <1>4, <1>5, <2>1 DEF SyncTyped
    <3> QED BY <1>2, <3>1
  <2>2. CASE t # n
    <3>1. t \in Recorded \ missed /\ records'[t] = records[t] /\ IsA(t, "investment")
      BY <1>2, <1>3, <2>2 DEF IsA
    <3>2. t \in DOMAIN tradeCosts' <=> t \in DOMAIN tradeCosts
      BY <1>5, <2>2
    <3> QED BY <1>0, <1>2, <1>5, <3>1, <3>2 DEF CostsComing
  <2> QED BY <2>1, <2>2
<1> QED
  BY <1>6, <1>7, <1>8, <1>9, <1>10 DEF SyncInv

LEMMA EditedMovement ==
  ASSUME SyncInv, NEW t \in Recorded, NEW d \in BookingDates, NEW change \in Changes,
         NEW posted \in BOOLEAN, EditRecord(t, d, change, posted)
  PROVE  SyncInv'
<1> DEFINE e == [records[t] EXCEPT !.date = d, !.change = change, !.posted = posted]
<1>0. /\ SyncTyped /\ ReadingsStand /\ ValuationsFollowLedger /\ InvestmentsOnly /\ CostsComing
  BY DEF SyncInv
<1>1. /\ e \in Entries /\ e.kind = records[t].kind /\ e.cost = records[t].cost
  <2>1. records[t] \in Entries
    BY <1>0 DEF SyncTyped
  <2>2. d \in Int /\ change \in Int
    BY SyncAssumption
  <2> QED BY <2>1, <2>2 DEF Entries
<1>2. /\ edits < MaxEdits /\ edits' = edits + 1 /\ ~IsA(t, "deleted")
      /\ stale' = (stale \/ deriving # {} \/ Contained(t) \/ Contained(t)')
      /\ callbacks' = IF IsA(t, "revaluation") THEN callbacks \cup {Job("derive", t)} ELSE callbacks
      /\ derived' = derived /\ tradeCosts' = tradeCosts /\ deriving' = deriving
      /\ pairing' = pairing /\ missed' = missed
  BY DEF EditRecord, AfterEdit, Schedule, Disturbed, Job
<1>3. records' = [records EXCEPT ![t] = e]
  BY <1>0 DEF EditRecord, SyncTyped
<1> HIDE DEF e
<1>4. /\ Recorded' = Recorded /\ records' \in [Recorded' -> Entries]
      /\ Recorded' \subseteq 1..MaxBookings /\ IsFiniteSet(Recorded')
      /\ NewRecord' \in Nat \ Recorded' /\ \A u \in Recorded' : u < NewRecord'
      /\ records'[t] = e /\ \A u \in Recorded \ {t} : records'[u] = records[u]
  BY <1>0, <1>1, <1>3, Changing
<1>5. SyncTyped'
  <2>1. callbacks' \subseteq Jobs'
    BY <1>0, <1>2, <1>4 DEF SyncTyped, Jobs, Job
  <2>2. stale' \in BOOLEAN /\ edits' \in 0..MaxEdits
    BY <1>0, <1>2, SyncAssumption DEF SyncTyped
  <2> QED BY <1>0, <1>2, <1>4, <2>1, <2>2 DEF SyncTyped
<1>6. ReadingsStand'
  BY <1>2 DEF ReadingsStand
<1>7. ValuationsFollowLedger'
  <2>1. CASE IsA(t, "revaluation")
    <3>1. Job("derive", t) \in callbacks' /\ Job("derive", t).do = "derive"
      BY <1>2, <2>1 DEF Job
    <3> QED BY <3>1, Unsettled DEF Settled
  <2>2. CASE IsA(t, "investment") /\ ~stale'
    <3>1. IsA(t, "investment")' /\ t \notin Revaluations /\ t \notin Revaluations'
      BY <1>1, <1>4, <2>2 DEF Revaluations, IsA
    <3>2. ~Contained(t) /\ ~Contained(t)' /\ deriving = {} /\ ~stale
      BY <1>2, <2>2
    <3>3. Revaluations' = Revaluations
      BY <1>4, <3>1 DEF Revaluations, IsA
    <3>4. \A r \in Revaluations : t \notin Upto(r) /\ t \notin Upto(r)'
      BY <2>2, <3>1, <3>2, <3>3 DEF Contained
    <3>5. /\ Readings' = Readings
          /\ \A r \in Revaluations : Balance(r)' = Balance(r)
          /\ \A r : Sourced(r)' <=> Sourced(r)
      BY <1>0, <1>4, <3>1, <3>4, OutsideReadings
    <3>6. Settled' => Settled
      BY <1>2 DEF Settled
    <3> QED BY <1>0, <1>2, <3>2, <3>5, <3>6, ValuationsKept
  <2>3. IsA(t, "revaluation") \/ IsA(t, "investment")
    BY <1>0, <1>2 DEF IsA, SyncTyped, Entries, RecordKinds
  <2> QED BY <2>1, <2>2, <2>3, Unsettled
<1>8. InvestmentsOnly'
  BY <1>0, <1>1, <1>2, <1>4 DEF InvestmentsOnly, SyncTyped, IsA
<1>9. CostsComing'
  <2> SUFFICES ASSUME NEW u \in Recorded' \ missed', IsA(u, "investment")'
      PROVE /\ u \in DOMAIN pairing' => pairing'[u] = records'[u].cost
            /\ u \notin DOMAIN tradeCosts' => u \in DOMAIN pairing' \/ Job("pair", u) \in callbacks'
            /\ u \in DOMAIN tradeCosts' /\ tradeCosts'[u] # records'[u].cost =>
                 u \in DOMAIN pairing' \/ (records'[u].cost > 0 /\ Job("cost", u) \in callbacks')
    BY DEF CostsComing
  <2>1. u \in Recorded \ missed /\ records'[u].cost = records[u].cost /\ IsA(u, "investment")
    BY <1>1, <1>2, <1>4 DEF IsA
  <2> QED BY <1>0, <1>2, <2>1 DEF CostsComing
<1> QED
  BY <1>5, <1>6, <1>7, <1>8, <1>9 DEF SyncInv

LEMMA EditedCost ==
  ASSUME SyncInv, NEW t \in Recorded, NEW cost \in Costs, EditCost(t, cost)
  PROVE  SyncInv'
<1> DEFINE e == [records[t] EXCEPT !.cost = cost]
<1>0. /\ SyncTyped /\ ReadingsStand /\ ValuationsFollowLedger /\ InvestmentsOnly /\ CostsComing
  BY DEF SyncInv
<1>1. /\ e \in Entries /\ e.kind = records[t].kind /\ e.cost = cost /\ e.posted = records[t].posted
      /\ e.date = records[t].date /\ e.change = records[t].change /\ cost \in Nat
  BY <1>0, SyncAssumption DEF SyncTyped, Entries
<1>2. /\ edits < MaxEdits /\ edits' = edits + 1 /\ IsA(t, "investment")
      /\ \/ cost > 0 /\ callbacks' = callbacks \cup {Job("cost", t)} /\ tradeCosts' = tradeCosts
         \/ cost = 0 /\ callbacks' = callbacks /\ tradeCosts' = CostGone(t)
      /\ derived' = derived /\ deriving' = deriving /\ pairing' = pairing /\ stale' = stale
      /\ missed' = IF t \in DOMAIN pairing THEN missed \cup {t} ELSE missed
  BY <1>1 DEF EditCost, Schedule, Job
<1>3. records' = [records EXCEPT ![t] = e]
  BY <1>0 DEF EditCost, SyncTyped
<1> HIDE DEF e
<1>4. /\ Recorded' = Recorded /\ records' \in [Recorded' -> Entries]
      /\ Recorded' \subseteq 1..MaxBookings /\ IsFiniteSet(Recorded')
      /\ NewRecord' \in Nat \ Recorded' /\ \A u \in Recorded' : u < NewRecord'
      /\ records'[t] = e /\ \A u \in Recorded \ {t} : records'[u] = records[u]
  BY <1>0, <1>1, <1>3, Changing
<1>5. /\ DOMAIN tradeCosts' = DOMAIN tradeCosts
      /\ tradeCosts' = [u \in DOMAIN tradeCosts' |-> tradeCosts'[u]]
      /\ \A u \in DOMAIN tradeCosts \ {t} : tradeCosts'[u] = tradeCosts[u]
      /\ t \in DOMAIN tradeCosts => \/ tradeCosts'[t] = cost
                                    \/ cost > 0 /\ Job("cost", t) \in callbacks'
  BY <1>0, <1>2 DEF CostGone, SyncTyped
<1>6. SyncTyped'
  <2>1. callbacks' \subseteq Jobs'
    BY <1>0, <1>2, <1>4 DEF SyncTyped, Jobs, Job
  <2>2. missed' \subseteq Recorded' /\ edits' \in 0..MaxEdits
    BY <1>0, <1>2, <1>4, SyncAssumption DEF SyncTyped
  <2> QED BY <1>0, <1>2, <1>4, <1>5, <2>1, <2>2 DEF SyncTyped
<1>7. \A u \in Recorded : /\ records'[u].kind = records[u].kind /\ records'[u].date = records[u].date
                          /\ records'[u].change = records[u].change
                          /\ records'[u].posted = records[u].posted
  BY <1>1, <1>4
<1>8. /\ Readings' = Readings
      /\ \A r \in Revaluations : Balance(r)' = Balance(r)
      /\ \A r : Sourced(r)' <=> Sourced(r)
  <2>1. Revaluations' = Revaluations
    BY <1>4, <1>7 DEF Revaluations, IsA
  <2>2. \A r \in Revaluations : r \in Recorded
    BY DEF Revaluations
  <2>3. ASSUME NEW r \in Revaluations
        PROVE  /\ records'[r].date = records[r].date
               /\ Upto(r)' = Upto(r) /\ \A s \in Upto(r) : records'[s].change = records[s].change
    BY <1>4, <1>7, <2>2 DEF Upto
  <2> QED BY <1>0, <1>4, <2>1, <2>3, ReadingsSame
<1>9. ReadingsStand'
  BY <1>0, <1>2, <1>8 DEF ReadingsStand
<1>10. ValuationsFollowLedger'
  <2>1. Settled' => Settled
    BY <1>2 DEF Settled
  <2> QED BY <1>0, <1>2, <1>8, <2>1, ValuationsKept
<1>11. InvestmentsOnly'
  BY <1>0, <1>2, <1>4, <1>5, <1>7 DEF InvestmentsOnly, SyncTyped, IsA
<1>12. CostsComing'
  <2> SUFFICES ASSUME NEW u \in Recorded' \ missed', IsA(u, "investment")'
      PROVE /\ u \in DOMAIN pairing' => pairing'[u] = records'[u].cost
            /\ u \notin DOMAIN tradeCosts' => u \in DOMAIN pairing' \/ Job("pair", u) \in callbacks'
            /\ u \in DOMAIN tradeCosts' /\ tradeCosts'[u] # records'[u].cost =>
                 u \in DOMAIN pairing' \/ (records'[u].cost > 0 /\ Job("cost", u) \in callbacks')
    BY DEF CostsComing
  <2>1. u \in Recorded \ missed /\ IsA(u, "investment")
    BY <1>2, <1>4, <1>7 DEF IsA
  <2>2. CASE u = t
    <3>1. t \notin DOMAIN pairing /\ records'[t].cost = cost
      BY <1>1, <1>2, <1>4, <2>2
    <3>2. t \notin DOMAIN tradeCosts => Job("pair", t) \in callbacks'
      BY <1>0, <1>2, <2>1, <2>2, <3>1 DEF CostsComing
    <3> QED BY <1>2, <1>5, <2>2, <3>1, <3>2
  <2>3. CASE u # t
    <3>1. records'[u] = records[u] /\ callbacks \subseteq callbacks'
      BY <1>2, <1>4, <2>1, <2>3
    <3> QED BY <1>0, <1>2, <1>5, <2>1, <2>3, <3>1 DEF CostsComing
  <2> QED BY <2>2, <2>3
<1> QED
  BY <1>6, <1>9, <1>10, <1>11, <1>12 DEF SyncInv

LEMMA DeletedMovement ==
  ASSUME SyncInv, NEW t \in Recorded, DeleteBooking(t)
  PROVE  SyncInv'
<1> DEFINE e == Entry("deleted", 0, 0, FALSE, 0)
<1>0. /\ SyncTyped /\ ReadingsStand /\ ValuationsFollowLedger /\ InvestmentsOnly /\ CostsComing
  BY DEF SyncInv
<1>1. e \in Entries /\ e.kind = "deleted" /\ ~e.posted
  BY DEF Entry, Entries, RecordKinds
<1>2. /\ edits < MaxEdits /\ edits' = edits + 1 /\ ~IsA(t, "deleted")
      /\ records' = [records EXCEPT ![t] = e]
      /\ derived' = {r \in derived : r.of # t} /\ tradeCosts' = Removing(tradeCosts, t)
      /\ stale' = (stale \/ deriving # {} \/ Contained(t))
      /\ callbacks' = IF IsA(t, "revaluation") THEN callbacks \cup {Job("derive", t)} ELSE callbacks
      /\ deriving' = deriving /\ pairing' = pairing /\ missed' = missed
  BY DEF DeleteBooking, AfterEdit, Schedule, Disturbed, Job
<1> HIDE DEF e
<1>3. /\ Recorded' = Recorded /\ records' \in [Recorded' -> Entries]
      /\ Recorded' \subseteq 1..MaxBookings /\ IsFiniteSet(Recorded')
      /\ NewRecord' \in Nat \ Recorded' /\ \A u \in Recorded' : u < NewRecord'
      /\ records'[t] = e /\ \A u \in Recorded \ {t} : records'[u] = records[u]
  BY <1>0, <1>1, <1>2, Changing
<1>4. /\ DOMAIN tradeCosts' = DOMAIN tradeCosts \ {t}
      /\ tradeCosts' = [u \in DOMAIN tradeCosts' |-> tradeCosts'[u]]
      /\ \A u \in DOMAIN tradeCosts' : tradeCosts'[u] = tradeCosts[u]
  BY <1>2 DEF Removing
<1>5. SyncTyped'
  <2>1. callbacks' \subseteq Jobs'
    BY <1>0, <1>2, <1>3 DEF SyncTyped, Jobs, Job
  <2>2. stale' \in BOOLEAN /\ edits' \in 0..MaxEdits
    BY <1>0, <1>2, SyncAssumption DEF SyncTyped
  <2> QED BY <1>0, <1>2, <1>3, <1>4, <2>1, <2>2 DEF SyncTyped
<1>6. ReadingsStand'
  BY <1>2 DEF ReadingsStand
<1>7. ValuationsFollowLedger'
  <2>1. CASE IsA(t, "revaluation")
    <3>1. Job("derive", t) \in callbacks' /\ Job("derive", t).do = "derive"
      BY <1>2, <2>1 DEF Job
    <3> QED BY <3>1, Unsettled DEF Settled
  <2>2. CASE IsA(t, "investment") /\ ~stale' /\ Settled'
    <3>1. t \notin Revaluations /\ t \notin Revaluations'
      BY <1>1, <1>3, <2>2 DEF Revaluations, IsA
    <3>2. ~Contained(t) /\ ~stale /\ Settled
      BY <1>2, <2>2 DEF Settled
    <3>3. Revaluations' = Revaluations
      BY <1>3, <3>1 DEF Revaluations, IsA
    <3>4. \A r \in Revaluations : t \notin Upto(r)
      BY <2>2, <3>2 DEF Contained
    <3>5. \A r \in Revaluations : t \notin Upto(r)'
      BY <1>1, <1>3 DEF Upto
    <3>6. /\ Readings' = Readings
          /\ \A r \in Revaluations : Balance(r)' = Balance(r)
          /\ \A r : Sourced(r)' <=> Sourced(r)
      BY <1>0, <1>3, <3>1, <3>4, <3>5, OutsideReadings
    <3>7. \A r \in LastOfDate(Readings) : r.of # t
      BY <3>1 DEF LastOfDate, Readings
    <3> QED BY <1>0, <1>2, <3>2, <3>6, <3>7, ValuationsKept
  <2>3. IsA(t, "revaluation") \/ IsA(t, "investment")
    BY <1>0, <1>2 DEF IsA, SyncTyped, Entries, RecordKinds
  <2> QED BY <2>1, <2>2, <2>3, Unsettled
<1>8. InvestmentsOnly'
  BY <1>0, <1>1, <1>2, <1>3, <1>4 DEF InvestmentsOnly, SyncTyped, IsA
<1>9. CostsComing'
  <2> SUFFICES ASSUME NEW u \in Recorded' \ missed', IsA(u, "investment")'
      PROVE /\ u \in DOMAIN pairing' => pairing'[u] = records'[u].cost
            /\ u \notin DOMAIN tradeCosts' => u \in DOMAIN pairing' \/ Job("pair", u) \in callbacks'
            /\ u \in DOMAIN tradeCosts' /\ tradeCosts'[u] # records'[u].cost =>
                 u \in DOMAIN pairing' \/ (records'[u].cost > 0 /\ Job("cost", u) \in callbacks')
    BY DEF CostsComing
  <2>1. u # t
    BY <1>1, <1>3 DEF IsA
  <2>2. u \in Recorded \ missed /\ records'[u] = records[u] /\ IsA(u, "investment")
    BY <1>2, <1>3, <2>1 DEF IsA
  <2> QED BY <1>0, <1>2, <1>4, <2>1, <2>2 DEF CostsComing
<1> QED
  BY <1>5, <1>6, <1>7, <1>8, <1>9 DEF SyncInv

-----------------------------------------------------------------------------
(* Callbacks *)

LEMMA LedgerStands ==
  ASSUME records' = records
  PROVE  /\ Recorded' = Recorded /\ NewRecord' = NewRecord /\ Revaluations' = Revaluations
         /\ Readings' = Readings
         /\ \A r \in Revaluations : Balance(r)' = Balance(r)
         /\ \A r : Sourced(r)' <=> Sourced(r)
<1>1. Recorded' = Recorded /\ NewRecord' = NewRecord /\ Revaluations' = Revaluations
  BY DEF Recorded, NewRecord, Revaluations, IsA
<1>2. \A r : Balance(r)' = Balance(r)
  BY <1>1 DEF Balance, Upto
<1>3. Readings' = Readings
  BY <1>1, <1>2 DEF Readings
<1>4. \A r : Sourced(r)' <=> Sourced(r)
  BY <1>1 DEF Sourced
<1> QED
  BY <1>1, <1>2, <1>3, <1>4

LEMMA CallbackTypes ==
  ASSUME SyncTyped, records' = records, callbacks' \subseteq callbacks,
         \A r \in derived' : r.value >= 0 /\ r.of \in Recorded,
         tradeCosts' = [u \in DOMAIN tradeCosts' |-> tradeCosts'[u]], DOMAIN tradeCosts' \subseteq Recorded,
         pairing' = [u \in DOMAIN pairing' |-> pairing'[u]], DOMAIN pairing' \subseteq Recorded,
         \A rs \in deriving' : \A r \in rs : r.value >= 0 /\ r.of \in Recorded,
         edits' = edits, stale' \in BOOLEAN, missed' \subseteq Recorded
  PROVE  SyncTyped'
<1>1. Recorded' = Recorded /\ NewRecord' = NewRecord
  BY LedgerStands
<1>2. callbacks' \subseteq Jobs'
  BY <1>1 DEF SyncTyped, Jobs
<1> QED
  BY <1>1, <1>2 DEF SyncTyped

LEMMA ReadingsTyped ==
  ASSUME SyncTyped
  PROVE  \A r \in Readings : r.value >= 0 /\ r.of \in Recorded
BY DEF Readings, Revaluations

LEMMA DerivedAmong ==
  ASSUME NEW rs, NEW old
  PROVE  DerivedFrom(rs, old) \subseteq old \cup rs
BY DEF DerivedFrom, Overwrite, LastOfDate, Written

\* Only the trades and what is to become of them change.
LEMMA TradeStep ==
  ASSUME SyncInv, records' = records, derived' = derived, deriving' = deriving, stale' = stale, edits' = edits,
         callbacks' \subseteq callbacks, \A c \in callbacks \ callbacks' : c.do # "derive",
         tradeCosts' = [u \in DOMAIN tradeCosts' |-> tradeCosts'[u]], DOMAIN tradeCosts' \subseteq Recorded,
         pairing' = [u \in DOMAIN pairing' |-> pairing'[u]], DOMAIN pairing' \subseteq Recorded,
         missed' = missed, InvestmentsOnly', CostsComing'
  PROVE  SyncInv'
<1>0. SyncTyped /\ ReadingsStand /\ ValuationsFollowLedger
  BY DEF SyncInv
<1>1. SyncTyped'
  BY <1>0, CallbackTypes DEF SyncTyped
<1>2. ReadingsStand'
  BY <1>0, LedgerStands DEF ReadingsStand
<1>3. Settled' => Settled
  BY DEF Settled
<1>4. ValuationsFollowLedger'
  BY <1>0, <1>3, LedgerStands, ValuationsKept
<1> QED
  BY <1>1, <1>2, <1>4 DEF SyncInv

\* Only the valuations and what is to become of them change.
LEMMA ValuationStep ==
  ASSUME SyncInv, records' = records, tradeCosts' = tradeCosts, pairing' = pairing, missed' = missed,
         callbacks' \subseteq callbacks, \A c \in callbacks \ callbacks' : c.do = "derive",
         edits' = edits, stale' \in BOOLEAN,
         \A r \in derived' : r.value >= 0 /\ r.of \in Recorded,
         \A rs \in deriving' : \A r \in rs : r.value >= 0 /\ r.of \in Recorded,
         ReadingsStand', ValuationsFollowLedger'
  PROVE  SyncInv'
<1>0. SyncTyped /\ InvestmentsOnly /\ CostsComing
  BY DEF SyncInv
<1>1. SyncTyped'
  BY <1>0, CallbackTypes DEF SyncTyped
<1>2. InvestmentsOnly'
  BY <1>0, LedgerStands DEF InvestmentsOnly, IsA
<1>3. \A t : /\ Job("pair", t) \in callbacks => Job("pair", t) \in callbacks'
             /\ Job("cost", t) \in callbacks => Job("cost", t) \in callbacks'
  BY DEF Job
<1>4. CostsComing'
  BY <1>0, <1>3, LedgerStands DEF CostsComing, IsA
<1> QED
  BY <1>1, <1>2, <1>4 DEF SyncInv

LEMMA DeriveReads ==
  ASSUME SyncInv, NEW t \in Recorded, Derive(t)
  PROVE  SyncInv'
<1>0. SyncTyped /\ ReadingsStand
  BY DEF SyncInv
<1>1. /\ callbacks' = callbacks \ {Job("derive", t)} /\ deriving' = deriving \cup {Readings}
      /\ UNCHANGED <<records, derived, tradeCosts, pairing, edits, stale, missed>>
  BY DEF Derive, Runs, Job
<1>2. ReadingsStand'
  BY <1>0, <1>1, LedgerStands DEF ReadingsStand
<1>3. ValuationsFollowLedger'
  BY <1>1, Unsettled DEF Settled
<1>4. \A c \in callbacks \ callbacks' : c.do = "derive"
  BY <1>1 DEF Job
<1>5. \A rs \in deriving' : \A r \in rs : r.value >= 0 /\ r.of \in Recorded
  BY <1>0, <1>1, ReadingsTyped DEF SyncTyped
<1> QED
  BY <1>0, <1>1, <1>2, <1>3, <1>4, <1>5, ValuationStep DEF SyncTyped

\* What is written from the readings of now follows the ledger, in the next state too.
LEMMA WrittenFollows ==
  ASSUME SyncTyped, records' = records, derived' = DerivedFrom(Readings, derived)
  PROVE  ValuationsFollowLedger'
<1>1. /\ \A r \in LastOfDate(Readings) : r \in derived'
      /\ \A r \in derived' : r \in Readings \/ (Sourced(r) /\ Balance(r.of) < 0)
  BY DerivedFollows
<1>2. LastOfDate(Readings)' = LastOfDate(Readings)
  BY LedgerStands DEF LastOfDate
<1>3. \A r : Sourced(r) => Balance(r.of)' = Balance(r.of)
  BY LedgerStands DEF Sourced
<1> QED
  BY <1>1, <1>2, <1>3, LedgerStands DEF ValuationsFollowLedger

LEMMA DeriveWrites ==
  ASSUME SyncInv, NEW rs \in deriving, WriteDerived(rs)
  PROVE  SyncInv'
<1>0. SyncTyped /\ ReadingsStand
  BY DEF SyncInv
<1>1. /\ deriving' = deriving \ {rs} /\ derived' = DerivedFrom(rs, derived)
      /\ UNCHANGED <<records, tradeCosts, callbacks, pairing, edits, stale, missed>>
  BY DEF WriteDerived
<1>2. ReadingsStand'
  BY <1>0, <1>1, LedgerStands DEF ReadingsStand
<1>3. ValuationsFollowLedger'
  <2>1. CASE stale
    BY <1>1, <2>1, Unsettled
  <2>2. CASE ~stale
    <3>1. rs = Readings
      BY <1>0, <2>2 DEF ReadingsStand
    <3> QED BY <1>0, <1>1, <3>1, WrittenFollows
  <2> QED BY <2>1, <2>2
<1>4. \A r \in derived' : r.value >= 0 /\ r.of \in Recorded
  BY <1>0, <1>1, DerivedAmong DEF SyncTyped
<1>5. \A qs \in deriving' : \A r \in qs : r.value >= 0 /\ r.of \in Recorded
  BY <1>0, <1>1 DEF SyncTyped
<1> QED
  BY <1>0, <1>1, <1>2, <1>3, <1>4, <1>5, ValuationStep DEF SyncTyped

LEMMA UpdateWrites ==
  ASSUME SyncInv, Update
  PROVE  SyncInv'
<1>0. SyncTyped /\ ReadingsStand
  BY DEF SyncInv
<1>1. /\ derived' = DerivedFrom(Readings, derived)
      /\ stale' = IF deriving = {} THEN FALSE ELSE stale
      /\ UNCHANGED <<records, tradeCosts, callbacks, deriving, pairing, edits, missed>>
  BY DEF Update
<1>2. ReadingsStand'
  BY <1>0, <1>1, LedgerStands DEF ReadingsStand
<1>3. ValuationsFollowLedger'
  BY <1>0, <1>1, WrittenFollows
<1>4. \A r \in derived' : r.value >= 0 /\ r.of \in Recorded
  BY <1>0, <1>1, DerivedAmong, ReadingsTyped DEF SyncTyped
<1>5. \A rs \in deriving' : \A r \in rs : r.value >= 0 /\ r.of \in Recorded
  BY <1>0, <1>1 DEF SyncTyped
<1>6. stale' \in BOOLEAN
  BY <1>0, <1>1 DEF SyncTyped
<1> QED
  BY <1>1, <1>2, <1>3, <1>4, <1>5, <1>6, ValuationStep

LEMMA PairReads ==
  ASSUME SyncInv, NEW t \in Recorded, Pair(t)
  PROVE  SyncInv'
<1>0. SyncTyped /\ InvestmentsOnly /\ CostsComing
  BY DEF SyncInv
<1>1. /\ callbacks' = callbacks \ {Job("pair", t)}
      /\ pairing' = IF Unpaired(t) THEN Put(pairing, t, records[t].cost) ELSE pairing
      /\ UNCHANGED <<records, derived, tradeCosts, deriving, edits, stale, missed>>
  BY DEF Pair, Runs, Job
<1>2. /\ pairing' = [u \in DOMAIN pairing' |-> pairing'[u]]
      /\ DOMAIN pairing' = IF Unpaired(t) THEN DOMAIN pairing \cup {t} ELSE DOMAIN pairing
      /\ Unpaired(t) => pairing'[t] = records[t].cost
      /\ \A u \in DOMAIN pairing : pairing'[u] = pairing[u] \/ (u = t /\ Unpaired(t))
  BY <1>0, <1>1 DEF SyncTyped, Put
<1>3. InvestmentsOnly'
  BY <1>0, <1>1, <1>2 DEF InvestmentsOnly, IsA, Unpaired
<1>4. CostsComing'
  <2> SUFFICES ASSUME NEW u \in Recorded \ missed', IsA(u, "investment")
      PROVE /\ u \in DOMAIN pairing' => pairing'[u] = records[u].cost
            /\ u \notin DOMAIN tradeCosts' => u \in DOMAIN pairing' \/ Job("pair", u) \in callbacks'
            /\ u \in DOMAIN tradeCosts' /\ tradeCosts'[u] # records[u].cost =>
                 u \in DOMAIN pairing' \/ (records[u].cost > 0 /\ Job("cost", u) \in callbacks')
    BY <1>1, LedgerStands DEF CostsComing, IsA
  <2>1. u # t => Job("pair", u) # Job("pair", t)
    BY DEF Job
  <2>2. Job("cost", u) # Job("pair", t)
    BY DEF Job
  <2>3. u = t /\ u \notin DOMAIN tradeCosts => Unpaired(t)
    BY DEF Unpaired
  <2> QED BY <1>0, <1>1, <1>2, <2>1, <2>2, <2>3 DEF CostsComing
<1>5. \A c \in callbacks \ callbacks' : c.do # "derive"
  BY <1>1 DEF Job
<1>6. DOMAIN pairing' \subseteq Recorded
  BY <1>0, <1>2 DEF SyncTyped
<1>7. /\ callbacks' \subseteq callbacks /\ tradeCosts' = [u \in DOMAIN tradeCosts' |-> tradeCosts'[u]]
      /\ DOMAIN tradeCosts' \subseteq Recorded
  BY <1>0, <1>1 DEF SyncTyped
<1> QED
  BY <1>1, <1>2, <1>3, <1>4, <1>5, <1>6, <1>7, TradeStep

LEMMA TradeWrites ==
  ASSUME SyncInv, NEW t \in Recorded, WriteTrade(t)
  PROVE  SyncInv'
<1>0. SyncTyped /\ InvestmentsOnly /\ CostsComing
  BY DEF SyncInv
<1> DEFINE skips == IsA(t, "deleted") \/ (pairing[t] > 0 /\ records[t].cost = 0)
<1>1. /\ t \in DOMAIN pairing /\ pairing' = Removing(pairing, t)
      /\ tradeCosts' = IF skips THEN tradeCosts ELSE Put(tradeCosts, t, pairing[t])
      /\ UNCHANGED <<records, derived, callbacks, deriving, edits, stale, missed>>
  BY DEF WriteTrade
<1>2. /\ pairing' = [u \in DOMAIN pairing' |-> pairing'[u]]
      /\ DOMAIN pairing' = DOMAIN pairing \ {t} /\ \A u \in DOMAIN pairing' : pairing'[u] = pairing[u]
  BY <1>1 DEF Removing
<1>3. /\ tradeCosts' = [u \in DOMAIN tradeCosts' |-> tradeCosts'[u]]
      /\ DOMAIN tradeCosts' = IF skips THEN DOMAIN tradeCosts ELSE DOMAIN tradeCosts \cup {t}
      /\ ~skips => tradeCosts'[t] = pairing[t]
      /\ \A u \in DOMAIN tradeCosts \ {t} : tradeCosts'[u] = tradeCosts[u]
  BY <1>0, <1>1 DEF SyncTyped, Put
<1>4. skips \/ IsA(t, "investment")
  BY <1>0, <1>1 DEF InvestmentsOnly
<1>5. IsA(t, "investment") /\ t \notin missed => ~skips /\ pairing[t] = records[t].cost
  <2>1. IsA(t, "investment") => ~IsA(t, "deleted")
    BY DEF IsA
  <2>2. IsA(t, "investment") /\ t \notin missed => pairing[t] = records[t].cost
    BY <1>0, <1>1 DEF CostsComing
  <2>3. records[t].cost \in Nat
    BY <1>0 DEF SyncTyped, Entries
  <2> QED BY <2>1, <2>2, <2>3
<1> HIDE DEF skips
<1>6. InvestmentsOnly'
  BY <1>0, <1>1, <1>2, <1>3, <1>4 DEF InvestmentsOnly, IsA
<1>7. CostsComing'
  <2> SUFFICES ASSUME NEW u \in Recorded \ missed', IsA(u, "investment")
      PROVE /\ u \in DOMAIN pairing' => pairing'[u] = records[u].cost
            /\ u \notin DOMAIN tradeCosts' => u \in DOMAIN pairing' \/ Job("pair", u) \in callbacks'
            /\ u \in DOMAIN tradeCosts' /\ tradeCosts'[u] # records[u].cost =>
                 u \in DOMAIN pairing' \/ (records[u].cost > 0 /\ Job("cost", u) \in callbacks')
    BY <1>1, LedgerStands DEF CostsComing, IsA
  <2>1. CASE u = t
    BY <1>1, <1>2, <1>3, <1>5, <2>1
  <2>2. CASE u # t
    <3>1. /\ u \in DOMAIN pairing' <=> u \in DOMAIN pairing
          /\ u \in DOMAIN tradeCosts' <=> u \in DOMAIN tradeCosts
      BY <1>2, <1>3, <2>2
    <3> QED BY <1>0, <1>1, <1>2, <1>3, <2>2, <3>1 DEF CostsComing
  <2> QED BY <2>1, <2>2
<1>8. DOMAIN pairing' \subseteq Recorded /\ DOMAIN tradeCosts' \subseteq Recorded
  BY <1>0, <1>2, <1>3 DEF SyncTyped
<1> QED
  BY <1>1, <1>2, <1>3, <1>6, <1>7, <1>8, TradeStep

LEMMA CostCopied ==
  ASSUME SyncInv, NEW t \in Recorded, CopyCost(t)
  PROVE  SyncInv'
<1>0. SyncTyped /\ InvestmentsOnly /\ CostsComing
  BY DEF SyncInv
<1> DEFINE copies == t \in DOMAIN tradeCosts /\ records[t].cost > 0
<1>1. /\ callbacks' = callbacks \ {Job("cost", t)}
      /\ tradeCosts' = IF copies THEN [tradeCosts EXCEPT ![t] = records[t].cost] ELSE tradeCosts
      /\ UNCHANGED <<records, derived, deriving, pairing, edits, stale, missed>>
  BY DEF CopyCost, Runs, Job
<1>2. /\ tradeCosts' = [u \in DOMAIN tradeCosts' |-> tradeCosts'[u]]
      /\ DOMAIN tradeCosts' = DOMAIN tradeCosts
      /\ copies => tradeCosts'[t] = records[t].cost
      /\ ~copies => tradeCosts' = tradeCosts
      /\ \A u \in DOMAIN tradeCosts \ {t} : tradeCosts'[u] = tradeCosts[u]
  BY <1>0, <1>1 DEF SyncTyped
<1>3. InvestmentsOnly'
  BY <1>0, <1>1, <1>2 DEF InvestmentsOnly, IsA
<1>4. CostsComing'
  <2> SUFFICES ASSUME NEW u \in Recorded \ missed', IsA(u, "investment")
      PROVE /\ u \in DOMAIN pairing' => pairing'[u] = records[u].cost
            /\ u \notin DOMAIN tradeCosts' => u \in DOMAIN pairing' \/ Job("pair", u) \in callbacks'
            /\ u \in DOMAIN tradeCosts' /\ tradeCosts'[u] # records[u].cost =>
                 u \in DOMAIN pairing' \/ (records[u].cost > 0 /\ Job("cost", u) \in callbacks')
    BY <1>1, LedgerStands DEF CostsComing, IsA
  <2>1. Job("pair", u) # Job("cost", t) /\ (u # t => Job("cost", u) # Job("cost", t))
    BY DEF Job
  <2>2. CASE u = t
    BY <1>0, <1>1, <1>2, <2>1, <2>2 DEF CostsComing
  <2>3. CASE u # t
    BY <1>0, <1>1, <1>2, <2>1, <2>3 DEF CostsComing
  <2> QED BY <2>2, <2>3
<1>5. \A c \in callbacks \ callbacks' : c.do # "derive"
  BY <1>1 DEF Job
<1>6. /\ callbacks' \subseteq callbacks /\ DOMAIN tradeCosts' \subseteq Recorded
      /\ pairing' = [u \in DOMAIN pairing' |-> pairing'[u]] /\ DOMAIN pairing' \subseteq Recorded
  BY <1>0, <1>1, <1>2 DEF SyncTyped
<1> QED
  BY <1>1, <1>2, <1>3, <1>4, <1>5, <1>6, TradeStep

LEMMA CrashLoses ==
  ASSUME SyncInv, Crash
  PROVE  SyncInv'
<1>0. SyncTyped /\ InvestmentsOnly /\ CostsComing /\ ValuationsFollowLedger
  BY DEF SyncInv
<1>1. /\ callbacks' = {} /\ deriving' = {} /\ pairing' = NoMovements
      /\ stale' = (stale \/ deriving # {} \/ \E c \in callbacks : c.do = "derive")
      /\ missed' = missed \cup DOMAIN pairing \cup {c.of : c \in callbacks}
      /\ UNCHANGED <<records, derived, tradeCosts, edits>>
  BY DEF Crash
<1>2. DOMAIN pairing' = {} /\ pairing' = [u \in DOMAIN pairing' |-> pairing'[u]]
  BY <1>1 DEF NoMovements
<1>3. missed' \subseteq Recorded /\ stale' \in BOOLEAN
  BY <1>0, <1>1 DEF SyncTyped, Jobs
<1>4. SyncTyped'
  BY <1>0, <1>1, <1>2, <1>3, CallbackTypes DEF SyncTyped
<1>5. ReadingsStand'
  BY <1>1 DEF ReadingsStand
<1>6. ValuationsFollowLedger'
  <2>1. Settled' /\ ~stale' => Settled /\ ~stale
    BY <1>1 DEF Settled
  <2> QED BY <1>0, <1>1, <2>1, LedgerStands, ValuationsKept
<1>7. InvestmentsOnly'
  BY <1>0, <1>1, <1>2 DEF InvestmentsOnly, IsA
<1>8. CostsComing'
  <2> SUFFICES ASSUME NEW u \in Recorded \ missed', IsA(u, "investment")
      PROVE /\ u \in DOMAIN pairing' => pairing'[u] = records[u].cost
            /\ u \notin DOMAIN tradeCosts' => u \in DOMAIN pairing' \/ Job("pair", u) \in callbacks'
            /\ u \in DOMAIN tradeCosts' /\ tradeCosts'[u] # records[u].cost =>
                 u \in DOMAIN pairing' \/ (records[u].cost > 0 /\ Job("cost", u) \in callbacks')
    BY <1>1, LedgerStands DEF CostsComing, IsA
  <2>1. u \notin DOMAIN pairing /\ u \notin missed
    BY <1>1
  <2>2. Job("pair", u) \notin callbacks /\ Job("cost", u) \notin callbacks
    BY <1>1 DEF Job
  <2> QED BY <1>0, <1>1, <1>2, <2>1, <2>2 DEF CostsComing
<1> QED
  BY <1>4, <1>5, <1>6, <1>7, <1>8 DEF SyncInv

-----------------------------------------------------------------------------
LEMMA SyncStep ==
  ASSUME SyncInv, [SyncNext]_syncVars
  PROVE  SyncInv'
<1>1. CASE UNCHANGED syncVars
  <2>1. records' = records /\ UNCHANGED <<derived, tradeCosts, callbacks, deriving, pairing, edits, stale, missed>>
    BY <1>1 DEF syncVars
  <2>2. /\ SyncTyped /\ ReadingsStand /\ ValuationsFollowLedger /\ InvestmentsOnly /\ CostsComing
    BY DEF SyncInv
  <2>3. SyncTyped'
    BY <2>1, <2>2, CallbackTypes DEF SyncTyped
  <2>4. ReadingsStand'
    BY <2>1, <2>2, LedgerStands DEF ReadingsStand
  <2>5. ValuationsFollowLedger'
    <3>1. Settled' => Settled
      BY <2>1 DEF Settled
    <3> QED BY <2>1, <2>2, <3>1, LedgerStands, ValuationsKept
  <2>6. InvestmentsOnly' /\ CostsComing'
    BY <2>1, <2>2, LedgerStands DEF InvestmentsOnly, CostsComing, IsA
  <2> QED BY <2>3, <2>4, <2>5, <2>6 DEF SyncInv
<1>2. ASSUME NEW d \in BookingDates, NEW change \in Changes, NEW posted \in BOOLEAN,
             NEW sort \in {"revaluation", "investment"}, NEW cost \in Costs,
             BookMovement(sort, d, change, posted, cost)
      PROVE  SyncInv'
  BY <1>2, NewMovement
<1>3. ASSUME NEW d \in BookingDates, NEW change \in Changes, NEW posted \in BOOLEAN, NEW t \in Recorded,
             EditRecord(t, d, change, posted)
      PROVE  SyncInv'
  BY <1>3, EditedMovement
<1>4. ASSUME NEW d \in BookingDates, NEW change \in Changes, NEW cost \in Costs, BookOperation(d, change, cost)
      PROVE  SyncInv'
  BY <1>4, NewOperation
<1>5. ASSUME NEW t \in Recorded,
             DeleteBooking(t) \/ Derive(t) \/ Pair(t) \/ WriteTrade(t) \/ CopyCost(t)
      PROVE  SyncInv'
  BY <1>5, DeletedMovement, DeriveReads, PairReads, TradeWrites, CostCopied
<1>6. ASSUME NEW t \in Recorded, NEW cost \in Costs, EditCost(t, cost)
      PROVE  SyncInv'
  BY <1>6, EditedCost
<1>7. ASSUME NEW rs \in deriving, WriteDerived(rs)
      PROVE  SyncInv'
  BY <1>7, DeriveWrites
<1>8. CASE Update \/ Crash
  BY <1>8, UpdateWrites, CrashLoses
<1> QED
  BY <1>1, <1>2, <1>3, <1>4, <1>5, <1>6, <1>7, <1>8 DEF SyncNext

LEMMA SyncStarts == ASSUME SyncInit PROVE SyncInv
<1>1. /\ records = NoMovements /\ derived = {} /\ tradeCosts = NoMovements /\ callbacks = {}
      /\ deriving = {} /\ pairing = NoMovements /\ edits = 0 /\ stale = FALSE /\ missed = {}
  BY DEF SyncInit
<1>2. Recorded = {} /\ IsFiniteSet(Recorded) /\ NewRecord = 1
  BY <1>1, FS_EmptySet DEF Recorded, NewRecord, NoMovements
<1>3. DOMAIN NoMovements = {} /\ NoMovements = [t \in {} |-> NoMovements[t]]
  BY DEF NoMovements
<1>4. SyncTyped
  <2>1. records \in [Recorded -> Entries]
    BY <1>1, <1>2, <1>3
  <2>2. edits \in 0..MaxEdits
    BY <1>1, SyncAssumption
  <2>3. /\ Recorded \subseteq 1..MaxBookings /\ NewRecord \in Nat \ Recorded
        /\ \A t \in Recorded : t < NewRecord
    BY <1>2
  <2>4. \A f : f = NoMovements => f = [t \in DOMAIN f |-> f[t]] /\ DOMAIN f \subseteq Recorded
    BY <1>3
  <2> QED BY <1>1, <1>2, <2>1, <2>2, <2>3, <2>4 DEF SyncTyped
<1>5. Readings = {}
  BY <1>2 DEF Readings, Revaluations
<1>6. ReadingsStand /\ InvestmentsOnly /\ CostsComing
  BY <1>1, <1>2, <1>3 DEF ReadingsStand, InvestmentsOnly, CostsComing
<1>7. ValuationsFollowLedger
  BY <1>1, <1>5 DEF ValuationsFollowLedger, LastOfDate
<1> QED
  BY <1>4, <1>6, <1>7 DEF SyncInv

\* The inductive invariant holds always.
THEOREM SyncInvCorrect == SyncSpec => []SyncInv
BY SyncStarts, SyncStep, PTL DEF SyncSpec

\* Every variable keeps its type, for any number of movements and callbacks.
THEOREM SyncTypeCorrect == SyncSpec => []SyncTypeOK
<1>1. SyncInv => SyncTypeOK
  BY DEF SyncInv, SyncTyped, SyncTypeOK, Entries
<1> QED
  BY <1>1, SyncInvCorrect, PTL

\* Valuations and trades follow the ledger, whichever callbacks are lost,
\* late or overtaken (signals.py, valuations.py).
THEOREM FollowCorrect == SyncSpec => []DerivedFollowLedger
<1>1. SyncInv => TradesFollowLedger
  <2> SUFFICES ASSUME SyncInv, NEW t \in Recorded \ missed, IsA(t, "investment"), Paired(t)
               PROVE  t \in DOMAIN tradeCosts /\ tradeCosts[t] = records[t].cost
    BY DEF SyncInv, InvestmentsOnly, TradesFollowLedger
  <2>1. t \notin DOMAIN pairing /\ \A do : Job(do, t) \notin callbacks
    BY DEF Paired, Job
  <2> QED BY <2>1 DEF SyncInv, CostsComing
<1>2. SyncInv => DerivedFollowLedger
  BY <1>1 DEF SyncInv, DerivedFollowLedger
<1> QED
  BY <1>2, SyncInvCorrect, PTL

-----------------------------------------------------------------------------
(* Positions that follow the ledger *)

Owners == Holdings \cup {Nil}
EntryRecords == [book : Accts, day : Days, amount : Int, note : Owners, owner : Owners]
HoldingRecords == [life : {"unborn", "alive", "gone"}, mode : Modes, link : Accts \cup {Nil},
                   start : Days, stated : OpeningSums \cup {0}]
LedgerTyped(E) ==
  E = [i \in DOMAIN E |-> E[i]] /\ DOMAIN E \subseteq EntryIds /\ \A i \in DOMAIN E : E[i] \in EntryRecords
HoldingTyped ==
  /\ kind \in HoldingKinds
  /\ holdings \in [Holdings -> HoldingRecords] /\ holder \in [Accts -> Owners]
  /\ accts \subseteq opened /\ opened \subseteq Accts
  /\ LedgerTyped(entries) /\ \A i \in DOMAIN entries : entries[i].book \in accts
  /\ halfSaved \subseteq Holdings /\ touchedUp \subseteq Holdings

\* An account that is gone is not opened again under a position that still names it.
FollowedOpened == \A p \in Holdings : Followed(p) => holdings[p].link \in opened \cup {Nil}
OneOpeningEach ==
  \A p \in Holdings, a \in Accts : \A i, j \in OpeningsOf(entries, p, a) : i = j
States(E, p, a, x) ==
  /\ x # 0 => OpeningsOf(E, p, a) # {}
  /\ \A i \in OpeningsOf(E, p, a) : x # 0 /\ E[i].amount = OpeningSide(p, x)
Stands(p) ==
  Followed(p) /\ p \notin halfSaved \cup touchedUp /\ holdings[p].link \in accts =>
    States(entries, p, holdings[p].link, holdings[p].stated)
OpeningsStand == \A p \in Holdings : Stands(p)

\* Inductive.
HoldingInv == HoldingTyped /\ FollowedOpened /\ OneOpeningEach /\ OpeningsStand

LEMMA FreshEntry ==
  ASSUME HoldingTyped
  PROVE  NextEntry(entries) \in Nat \ {0} /\ NextEntry(entries) \notin DOMAIN entries
<1> DEFINE D == DOMAIN entries
<1>1. D \in SUBSET Nat /\ MaxEntries \in Nat /\ \A i \in D : i \in Nat \ {0} /\ i <= MaxEntries
  BY HoldingAssumption DEF HoldingTyped, LedgerTyped, EntryIds
<1> HIDE DEF D
<1>2. CASE D = {}
  BY <1>2 DEF NextEntry, D
<1>3. CASE D # {}
  <2>1. Max(D) \in D /\ \A y \in D : y <= Max(D)
    BY <1>1, <1>3, GreatestNatural
  <2>2. NextEntry(entries) = Max(D) + 1
    BY <1>3 DEF NextEntry, D
  <2>3. PICK m \in Nat : m = Max(D) /\ m \in D /\ \A y \in D : y <= m
    BY <1>1, <2>1
  <2>4. m + 1 \notin D
    <3> SUFFICES ASSUME m + 1 \in D PROVE FALSE
      OBVIOUS
    <3>1. m + 1 <= m
      BY <2>3
    <3> QED BY <3>1
  <2> QED BY <2>2, <2>3, <2>4 DEF D
<1> QED
  BY <1>2, <1>3

\* What writing the opening of p on account a makes of the ledger.
LEMMA Syncing ==
  ASSUME HoldingTyped, OneOpeningEach, NEW p \in Holdings, NEW a \in Accts, NEW d \in Days,
         NEW x \in OpeningSums, OpeningPossible(entries, p, a, x),
         NEW E, E = SyncOpening(entries, p, a, x, d)
  PROVE  /\ LedgerTyped(E)
         /\ \A i \in DOMAIN E : E[i].book = a \/ (i \in DOMAIN entries /\ E[i] = entries[i])
         /\ \A q \in Holdings, b \in Accts : q # p \/ b # a =>
              /\ OpeningsOf(E, q, b) = OpeningsOf(entries, q, b)
              /\ \A i \in OpeningsOf(E, q, b) : E[i] = entries[i]
         /\ States(E, p, a, x) /\ \A i, j \in OpeningsOf(E, p, a) : i = j
<1> DEFINE own == OpeningsOf(entries, p, a)
           e == EntryOf(a, d, OpeningSide(p, x), p, p)
           n == IF own = {} THEN NextEntry(entries) ELSE LastEntry(entries, own)
<1>1. LedgerTyped(entries) /\ x \in Int
  BY HoldingAssumption DEF HoldingTyped
<1>2. e \in EntryRecords /\ e.book = a /\ e.note = p /\ e.amount = OpeningSide(p, x)
  BY <1>1, HoldingAssumption DEF EntryOf, EntryRecords, OpeningSide, Owners
<1>3. own # {} => n \in own /\ own = {n}
  <2> SUFFICES ASSUME own # {} PROVE n \in own /\ own = {n}
    OBVIOUS
  <2>1. PICK i \in own : own = {i}
    BY DEF OneOpeningEach
  <2>2. i \in Nat
    BY <1>1, <2>1 DEF OpeningsOf, LedgerTyped, EntryIds
  <2>3. \A j \in own : \/ entries[j].day < entries[i].day
                       \/ (entries[j].day = entries[i].day /\ j <= i)
    BY <2>1, <2>2
  <2>4. LastEntry(entries, own) \in own
    BY <2>1, <2>3 DEF LastEntry
  <2> QED BY <2>1, <2>4
<1>4. own = {} => n \notin DOMAIN entries /\ (x # 0 => n \in EntryIds)
  BY FreshEntry DEF OpeningPossible
<1>5. own = {} \/ own = {n}
  BY <1>3
<1>6. own \subseteq DOMAIN entries /\ \A i \in DOMAIN entries : i \in own <=> entries[i].note = p /\ entries[i].book = a
  BY DEF OpeningsOf
<1>7. E = CASE x = 0 -> IF own = {} THEN entries ELSE DropEntries(entries, {n})
            [] OTHER -> PutEntry(entries, n, e)
  BY DEF SyncOpening
<1> HIDE DEF own, e, n
<1>8. CASE x = 0
  <2>1. E = [i \in DOMAIN entries \ own |-> entries[i]]
    <3>1. CASE own = {}
      BY <1>1, <1>7, <1>8, <3>1 DEF LedgerTyped
    <3>2. CASE own = {n} /\ own # {}
      BY <1>7, <1>8, <3>2 DEF DropEntries
    <3> QED BY <1>5, <3>1, <3>2
  <2>2. /\ DOMAIN E = DOMAIN entries \ own /\ \A i \in DOMAIN E : E[i] = entries[i]
        /\ E = [i \in DOMAIN E |-> E[i]]
    BY <2>1
  <2>3. LedgerTyped(E)
    BY <1>1, <2>2 DEF LedgerTyped
  <2>4. OpeningsOf(E, p, a) = {}
    BY <1>6, <2>2 DEF OpeningsOf
  <2>5. ASSUME NEW q \in Holdings, NEW b \in Accts, q # p \/ b # a
        PROVE  OpeningsOf(E, q, b) = OpeningsOf(entries, q, b)
    BY <1>6, <2>2, <2>5 DEF OpeningsOf
  <2>6. \A q, b : \A i \in OpeningsOf(E, q, b) : E[i] = entries[i]
    BY <2>2 DEF OpeningsOf
  <2>7. States(E, p, a, x)
    BY <1>8, <2>4 DEF States
  <2> QED BY <2>2, <2>3, <2>4, <2>5, <2>6, <2>7
<1>9. CASE x # 0
  <2>1. E = PutEntry(entries, n, e)
    BY <1>7, <1>9
  <2>2. /\ DOMAIN E = DOMAIN entries \cup {n} /\ E[n] = e
        /\ \A i \in DOMAIN E : i # n => i \in DOMAIN entries /\ E[i] = entries[i]
        /\ \A i \in DOMAIN entries : i # n => E[i] = entries[i]
        /\ E = [i \in DOMAIN E |-> E[i]]
    BY <2>1 DEF PutEntry
  <2>3. LedgerTyped(E)
    <3>1. n \in EntryIds
      BY <1>1, <1>3, <1>4, <1>6, <1>9 DEF LedgerTyped
    <3> QED BY <1>1, <1>2, <2>2, <3>1 DEF LedgerTyped
  <2>4. OpeningsOf(E, p, a) = {n}
    <3>1. \A i \in DOMAIN entries : i # n => i \notin own
      BY <1>5
    <3> QED BY <1>2, <1>6, <2>2, <3>1 DEF OpeningsOf
  <2>5. ASSUME NEW q \in Holdings, NEW b \in Accts, q # p \/ b # a
        PROVE  /\ OpeningsOf(E, q, b) = OpeningsOf(entries, q, b)
               /\ \A i \in OpeningsOf(E, q, b) : E[i] = entries[i]
    <3>1. n \notin OpeningsOf(E, q, b) /\ n \notin OpeningsOf(entries, q, b)
      BY <1>2, <1>3, <1>4, <1>6, <2>2, <2>5 DEF OpeningsOf
    <3> QED BY <2>2, <3>1 DEF OpeningsOf
  <2>6. States(E, p, a, x)
    BY <1>2, <1>9, <2>2, <2>4 DEF States
  <2>7. \A i \in DOMAIN E : E[i].book = a \/ (i \in DOMAIN entries /\ E[i] = entries[i])
    BY <1>2, <2>2
  <2> QED BY <2>3, <2>4, <2>5, <2>6, <2>7
<1> QED
  BY <1>8, <1>9

\* The account a position is linked to is the one named, one marked as its own, or a new one.
LEMMA LinkedType ==
  ASSUME HoldingTyped, NEW p \in Holdings, NEW a \in Accts \cup {Nil}, LinkPossible(p, a)
  PROVE  /\ a # Nil => Linked(p, a) = a
         /\ a = Nil => Linked(p, a) \in {Nil} \cup accts \cup (Accts \ opened)
<1>1. CASE a # Nil
  BY <1>1 DEF Linked
<1>2. CASE a = Nil
  <2>1. OwnAccts(p) \in SUBSET accts /\ NewAcct(p) \in SUBSET (Accts \ opened)
    BY DEF OwnAccts, NewAcct
  <2>2. accts \in SUBSET Accts /\ Accts \in SUBSET Nat /\ IsFiniteSet(Accts)
    BY HoldingAssumption DEF HoldingTyped
  <2>3. IsFiniteSet(OwnAccts(p)) /\ Cardinality(OwnAccts(p)) \in Nat
    BY <2>1, <2>2, FS_Subset, FS_CardinalityType
  <2>4. CASE OwnAccts(p) = {}
    <3>1. NewAcct(p) # {} /\ NewAcct(p) \in SUBSET Nat
      BY <1>2, <2>1, <2>2, <2>4 DEF LinkPossible
    <3>2. \E x \in NewAcct(p) : \A y \in NewAcct(p) : x <= y
      BY <3>1, LeastNatural
    <3>3. Min(NewAcct(p)) \in NewAcct(p)
      BY <3>2 DEF Min
    <3>4. Cardinality(OwnAccts(p)) = 0
      BY <2>4, FS_EmptySet
    <3>5. Linked(p, a) = Min(NewAcct(p))
      BY <1>2, <3>4 DEF Linked
    <3> QED BY <1>2, <2>1, <3>3, <3>5
  <2>5. CASE OwnAccts(p) # {}
    <3>1. Cardinality(OwnAccts(p)) # 0
      BY <2>3, <2>5, FS_EmptySet
    <3>2. CASE Cardinality(OwnAccts(p)) = 1
      <4>1. PICK b : OwnAccts(p) = {b}
        BY <2>3, <3>2, FS_Singleton
      <4>2. b \in Nat
        BY <2>1, <2>2, <4>1
      <4>3. \A y \in {b} : b >= y
        BY <4>2
      <4>4. Max(OwnAccts(p)) \in OwnAccts(p)
        BY <4>1, <4>3 DEF Max
      <4>5. Linked(p, a) = Max(OwnAccts(p))
        BY <1>2, <3>2 DEF Linked
      <4> QED BY <1>2, <2>1, <4>4, <4>5
    <3>3. CASE Cardinality(OwnAccts(p)) > 1
      <4>1. Linked(p, a) = Nil
        BY <1>2, <2>3, <3>3 DEF Linked
      <4> QED BY <1>2, <4>1
    <3> QED BY <2>3, <3>1, <3>2, <3>3
  <2> QED BY <2>4, <2>5
<1> QED
  BY <1>1, <1>2

LEMMA Linking ==
  ASSUME HoldingTyped, NEW p \in Holdings, NEW a \in Accts \cup {Nil}, LinkPossible(p, a),
         a # Nil => a \in opened, LinkAcct(p, a)
  PROVE  /\ Linked(p, a) \in Accts \cup {Nil}
         /\ accts \subseteq accts' /\ accts' \subseteq Accts /\ accts' \cap opened \subseteq accts
         /\ opened' = opened \cup accts' /\ holder' \in [Accts -> Owners]
         /\ Linked(p, a) # Nil => Linked(p, a) \in opened'
         /\ Linked(p, a) # Nil /\ (a # Nil => a \in accts) => Linked(p, a) \in accts'
<1> DEFINE b == Linked(p, a)
<1>1. /\ a # Nil => b = a
      /\ a = Nil => b \in {Nil} \cup accts \cup (Accts \ opened)
  BY LinkedType
<1>2. /\ accts' = IF a = Nil /\ b # Nil THEN accts \cup {b} ELSE accts
      /\ opened' = opened \cup accts'
      /\ holder' = IF b # Nil /\ ~(a # Nil /\ NeedsReview(p, a)) THEN [holder EXCEPT ![b] = p] ELSE holder
  BY DEF LinkAcct
<1> HIDE DEF b
<1>3. accts \subseteq opened /\ opened \subseteq Accts /\ holder \in [Accts -> Owners]
  BY DEF HoldingTyped
<1>4. b \in Accts \cup {Nil}
  BY <1>1, <1>3
<1>5. holder' \in [Accts -> Owners]
  BY <1>2, <1>3, <1>4 DEF Owners
<1>6. /\ accts \subseteq accts' /\ accts' \subseteq Accts /\ accts' \cap opened \subseteq accts
  BY <1>1, <1>2, <1>3, <1>4
<1>7. /\ b # Nil => b \in opened'
      /\ b # Nil /\ (a # Nil => a \in accts) => b \in accts'
  BY <1>1, <1>2, <1>3
<1> QED
  BY <1>2, <1>4, <1>5, <1>6, <1>7 DEF b

\* The openings of the positions a step does not save are those they were.
KeptBy(q) ==
  Followed(q)' /\ q \notin halfSaved' \cup touchedUp' /\ holdings'[q].link \in accts' =>
    /\ Followed(q) /\ q \notin halfSaved \cup touchedUp /\ holdings[q].link \in accts
    /\ holdings'[q].link = holdings[q].link /\ holdings'[q].stated = holdings[q].stated
    /\ OpeningsOf(entries', q, holdings[q].link) = OpeningsOf(entries, q, holdings[q].link)
    /\ \A i \in OpeningsOf(entries, q, holdings[q].link) : entries'[i].amount = entries[i].amount

LEMMA OpeningKept ==
  ASSUME OpeningsStand, kind' = kind, NEW q \in Holdings, KeptBy(q)
  PROVE  Stands(q)'
<1> SUFFICES ASSUME Followed(q)', q \notin halfSaved' \cup touchedUp', holdings'[q].link \in accts'
             PROVE  States(entries', q, holdings'[q].link, holdings'[q].stated)
  BY DEF Stands, States, OpeningSide
<1>1. /\ Followed(q) /\ q \notin halfSaved \cup touchedUp /\ holdings[q].link \in accts
      /\ holdings'[q].link = holdings[q].link /\ holdings'[q].stated = holdings[q].stated
      /\ OpeningsOf(entries', q, holdings[q].link) = OpeningsOf(entries, q, holdings[q].link)
      /\ \A i \in OpeningsOf(entries, q, holdings[q].link) : entries'[i].amount = entries[i].amount
  BY DEF KeptBy
<1>2. States(entries, q, holdings[q].link, holdings[q].stated)
  BY <1>1 DEF OpeningsStand, Stands
<1> QED
  BY <1>1, <1>2 DEF States

\* The ledger stays, or loses entries that no followed position's opening is among.
LEMMA EntriesDropped ==
  ASSUME OneOpeningEach, LedgerTyped(entries), NEW S, entries' = DropEntries(entries, S)
  PROVE  /\ LedgerTyped(entries)' /\ OneOpeningEach'
         /\ DOMAIN entries' = DOMAIN entries \ S /\ \A i \in DOMAIN entries' : entries'[i] = entries[i]
<1>1. /\ DOMAIN entries' = DOMAIN entries \ S /\ \A i \in DOMAIN entries' : entries'[i] = entries[i]
      /\ entries' = [i \in DOMAIN entries' |-> entries'[i]]
  BY DEF DropEntries
<1>2. LedgerTyped(entries)'
  BY <1>1 DEF LedgerTyped
<1>3. OneOpeningEach'
  BY <1>1 DEF OneOpeningEach, OpeningsOf
<1> QED
  BY <1>1, <1>2, <1>3

LEMMA HoldingSaved ==
  ASSUME HoldingInv, NEW p \in Holdings, NEW m \in Modes, NEW a \in Accts \cup {Nil}, NEW d \in Days,
         NEW x \in OpeningSums, SaveHolding(p, m, a, d, x)
  PROVE  HoldingInv'
<1>0. HoldingTyped /\ FollowedOpened /\ OneOpeningEach /\ OpeningsStand
  BY DEF HoldingInv
<1>1. PICK b : b = IF m = "accounting" THEN Linked(p, a) ELSE a
  OBVIOUS
<1>2. PICK s : s = Saved(p, m, b, d, x)
  OBVIOUS
<1>3. /\ holdings' = [holdings EXCEPT ![p] = s] /\ kind' = kind
      /\ s.life = "alive" /\ s.mode = m /\ s.link = b /\ s.start = d /\ s.stated = x
  BY <1>1, <1>2 DEF SaveHolding, Saved
<1>4. \A q \in Holdings \ {p} : holdings'[q] = holdings[q]
  BY <1>0, <1>3 DEF HoldingTyped
<1>5. \A q \in Holdings \ {p} : Followed(q)' <=> Followed(q)
  BY <1>4 DEF Followed, Alive
<1>6. ASSUME b \in Accts \cup {Nil} PROVE holdings' \in [Holdings -> HoldingRecords]
  <2>1. s \in HoldingRecords
    BY <1>2, <1>6 DEF Saved, HoldingRecords
  <2> QED BY <1>0, <1>3, <2>1 DEF HoldingTyped
<1>7. holdings'[p] = s
  BY <1>0, <1>3 DEF HoldingTyped
<1>8. CASE m = "manual"
  <2>1. UNCHANGED <<holder, accts, opened, entries, halfSaved, touchedUp>> /\ b = a
    BY <1>1, <1>8 DEF SaveHolding
  <2>2. HoldingTyped'
    BY <1>0, <1>3, <1>6, <2>1 DEF HoldingTyped
  <2>3. ~Followed(p)'
    BY <1>3, <1>7, <1>8 DEF Followed
  <2>4. FollowedOpened'
    BY <1>0, <1>4, <1>5, <2>1, <2>3 DEF FollowedOpened
  <2>5. OneOpeningEach'
    BY <1>0, <2>1 DEF OneOpeningEach, OpeningsOf
  <2>6. ASSUME NEW q \in Holdings \ {p} PROVE Stands(q)'
    <3>1. KeptBy(q)
      BY <1>4, <1>5, <2>1 DEF KeptBy
    <3> QED BY <1>0, <1>3, <3>1, OpeningKept
  <2>7. Stands(p)'
    BY <2>3 DEF Stands
  <2>8. OpeningsStand'
    BY <2>6, <2>7 DEF OpeningsStand
  <2> QED BY <2>2, <2>4, <2>5, <2>8 DEF HoldingInv
<1>9. CASE m = "accounting"
  <2>1. /\ b = Linked(p, a) /\ LinkPossible(p, a) /\ LinkAcct(p, a)
        /\ a # Nil => a \in accts
    BY <1>1, <1>9 DEF SaveHolding, LinkAllowed
  <2>2. /\ b \in Accts \cup {Nil}
        /\ accts \subseteq accts' /\ accts' \subseteq Accts /\ accts' \cap opened \subseteq accts
        /\ opened' = opened \cup accts' /\ holder' \in [Accts -> Owners]
        /\ b # Nil => b \in opened' /\ b \in accts'
    BY <1>0, <2>1, Linking DEF HoldingTyped
  <2>3. accts' \subseteq opened' /\ opened' \subseteq Accts
    BY <1>0, <2>2 DEF HoldingTyped
  <2>4. FollowedOpened'
    <3>1. \A q \in Holdings \ {p} : Followed(q)' => holdings'[q].link \in opened' \cup {Nil}
      BY <1>0, <1>4, <1>5, <2>2 DEF FollowedOpened
    <3> QED BY <1>3, <1>7, <2>2, <3>1 DEF FollowedOpened
  <2>5. \A q \in Holdings \ {p} :
          Followed(q)' /\ holdings'[q].link \in accts' => /\ Followed(q) /\ holdings[q].link \in accts
                                                          /\ holdings'[q] = holdings[q]
    <3> SUFFICES ASSUME NEW q \in Holdings \ {p}, Followed(q)', holdings'[q].link \in accts'
                 PROVE  Followed(q) /\ holdings[q].link \in accts /\ holdings'[q] = holdings[q]
      OBVIOUS
    <3>1. Followed(q) /\ holdings'[q] = holdings[q]
      BY <1>4, <1>5
    <3>2. holdings[q].link \in opened /\ Nil \notin accts'
      BY <1>0, <2>2, <3>1, HoldingAssumption DEF FollowedOpened, Nil
    <3> QED BY <2>2, <3>1, <3>2
  <2>6. CASE b = Nil
    <3>1. UNCHANGED <<entries, halfSaved, touchedUp>>
      BY <1>1, <1>9, <2>6 DEF SaveHolding
    <3>2. HoldingTyped'
      BY <1>0, <1>3, <1>6, <2>2, <2>3, <3>1 DEF HoldingTyped
    <3>3. OneOpeningEach'
      BY <1>0, <3>1 DEF OneOpeningEach, OpeningsOf
    <3>4. ASSUME NEW q \in Holdings \ {p} PROVE Stands(q)'
      <4>1. KeptBy(q)
        BY <2>5, <3>1 DEF KeptBy
      <4> QED BY <1>0, <1>3, <4>1, OpeningKept
    <3>5. holdings'[p].link \notin accts'
      BY <1>3, <1>7, <2>2, <2>6, HoldingAssumption DEF Nil
    <3>6. OpeningsStand'
      BY <3>4, <3>5 DEF OpeningsStand, Stands
    <3> QED BY <2>4, <3>2, <3>3, <3>6 DEF HoldingInv
  <2>7. CASE b # Nil
    <3>1. /\ OpeningPossible(entries, p, b, x) /\ entries' = SyncOpening(entries, p, b, x, d)
          /\ halfSaved' = halfSaved \ {p} /\ touchedUp' = touchedUp \ {p}
      BY <1>1, <1>9, <2>7 DEF SaveHolding
    <3>2. PICK E : E = entries' /\ E = SyncOpening(entries, p, b, x, d)
      BY <3>1
    <3>3. b \in Accts
      BY <2>2, <2>7
    <3>4. /\ LedgerTyped(E)
          /\ \A i \in DOMAIN E : E[i].book = b \/ (i \in DOMAIN entries /\ E[i] = entries[i])
          /\ \A q \in Holdings, c \in Accts : q # p \/ c # b =>
               /\ OpeningsOf(E, q, c) = OpeningsOf(entries, q, c)
               /\ \A i \in OpeningsOf(E, q, c) : E[i] = entries[i]
          /\ States(E, p, b, x) /\ \A i, j \in OpeningsOf(E, p, b) : i = j
      BY <1>0, <3>1, <3>2, <3>3, Syncing
    <3>5. HoldingTyped'
      <4>1. \A i \in DOMAIN entries' : entries'[i].book \in accts'
        BY <1>0, <2>2, <2>7, <3>2, <3>4 DEF HoldingTyped
      <4>2. LedgerTyped(entries')
        BY <3>2, <3>4
      <4> QED BY <1>0, <1>3, <1>6, <2>2, <2>3, <3>1, <4>1, <4>2 DEF HoldingTyped, LedgerTyped, EntryRecords, Owners
    <3>6. OneOpeningEach'
      <4>1. ASSUME NEW q \in Holdings, NEW c \in Accts, NEW i \in OpeningsOf(E, q, c),
                   NEW j \in OpeningsOf(E, q, c)
            PROVE  i = j
        BY <1>0, <3>4, <4>1 DEF OneOpeningEach
      <4> QED BY <3>2, <4>1 DEF OneOpeningEach, OpeningsOf
    <3>7. ASSUME NEW q \in Holdings \ {p} PROVE KeptBy(q)
      <4> SUFFICES ASSUME Followed(q)', q \notin halfSaved' \cup touchedUp',
                          holdings'[q].link \in accts'
                   PROVE  /\ Followed(q) /\ q \notin halfSaved \cup touchedUp /\ holdings[q].link \in accts
                          /\ holdings'[q].link = holdings[q].link /\ holdings'[q].stated = holdings[q].stated
                          /\ OpeningsOf(entries', q, holdings[q].link) = OpeningsOf(entries, q, holdings[q].link)
                          /\ \A i \in OpeningsOf(entries, q, holdings[q].link) : entries'[i].amount = entries[i].amount
        BY DEF KeptBy
      <4>1. Followed(q) /\ holdings[q].link \in accts /\ holdings'[q] = holdings[q]
        BY <2>5
      <4>2. holdings[q].link \in Accts
        BY <1>0, <4>1 DEF HoldingTyped
      <4>3. /\ OpeningsOf(E, q, holdings[q].link) = OpeningsOf(entries, q, holdings[q].link)
            /\ \A i \in OpeningsOf(E, q, holdings[q].link) : E[i] = entries[i]
        BY <3>4, <4>2
      <4> QED BY <3>1, <3>2, <4>1, <4>3
    <3>8. States(entries', p, holdings'[p].link, holdings'[p].stated)
      BY <1>3, <1>7, <3>2, <3>4
    <3>9. OpeningsStand'
      <4>1. ASSUME NEW q \in Holdings \ {p} PROVE Stands(q)'
        BY <1>0, <1>3, <3>7, OpeningKept
      <4>2. Stands(p)'
        BY <1>3, <3>8 DEF Stands, States, OpeningSide
      <4> QED BY <4>1, <4>2 DEF OpeningsStand
    <3> QED BY <2>4, <3>5, <3>6, <3>9 DEF HoldingInv
  <2> QED BY <2>6, <2>7
<1> QED
  BY <1>8, <1>9 DEF Modes

LEMMA SaveStopped ==
  ASSUME HoldingInv, NEW p \in Holdings, NEW m \in Modes, NEW a \in Accts \cup {Nil}, NEW d \in Days,
         NEW x \in OpeningSums, SaveInterrupted(p, m, a, d, x)
  PROVE  HoldingInv'
<1>0. HoldingTyped /\ FollowedOpened /\ OneOpeningEach /\ OpeningsStand
  BY DEF HoldingInv
<1>1. PICK s : s = Saved(p, m, a, d, x)
  OBVIOUS
<1>2. /\ holdings' = [holdings EXCEPT ![p] = s] /\ halfSaved' = halfSaved \union {p}
      /\ UNCHANGED <<kind, holder, accts, opened, entries, touchedUp>>
      /\ m = "accounting" /\ a # Nil => a \in accts
      /\ s \in HoldingRecords /\ s.mode = m /\ s.link = a
  BY <1>1 DEF SaveInterrupted, LinkAllowed, Saved, HoldingRecords
<1>3. holdings'[p] = s /\ \A q \in Holdings \ {p} : holdings'[q] = holdings[q]
  BY <1>0, <1>2 DEF HoldingTyped
<1>4. \A q \in Holdings \ {p} : Followed(q)' <=> Followed(q)
  BY <1>3 DEF Followed, Alive
<1>5. HoldingTyped'
  BY <1>0, <1>2 DEF HoldingTyped
<1>6. FollowedOpened'
  <2>1. Followed(p)' => holdings'[p].link \in opened' \cup {Nil}
    BY <1>0, <1>2, <1>3 DEF Followed, HoldingTyped
  <2>2. \A q \in Holdings \ {p} : Followed(q)' => holdings'[q].link \in opened' \cup {Nil}
    BY <1>0, <1>2, <1>3, <1>4 DEF FollowedOpened
  <2> QED BY <2>1, <2>2 DEF FollowedOpened
<1>7. OneOpeningEach'
  BY <1>0, <1>2 DEF OneOpeningEach, OpeningsOf
<1>8. OpeningsStand'
  <2>1. ASSUME NEW q \in Holdings \ {p} PROVE Stands(q)'
    <3>1. KeptBy(q)
      BY <1>2, <1>3, <1>4 DEF KeptBy
    <3> QED BY <1>0, <1>2, <3>1, OpeningKept
  <2>2. Stands(p)'
    BY <1>2 DEF Stands
  <2> QED BY <2>1, <2>2 DEF OpeningsStand
<1> QED
  BY <1>5, <1>6, <1>7, <1>8 DEF HoldingInv

LEMMA HoldingRead ==
  ASSUME HoldingInv, NEW p \in Holdings, ReadHolding(p)
  PROVE  HoldingInv'
<1>0. HoldingTyped /\ FollowedOpened /\ OneOpeningEach /\ OpeningsStand
  BY DEF HoldingInv
<1>1. PICK a, b : a = holdings[p].link /\ b = Linked(p, a)
  OBVIOUS
<1>2. /\ Followed(p) /\ LinkPossible(p, a) /\ LinkAcct(p, a)
      /\ holdings' = [holdings EXCEPT ![p].link = b]
      /\ halfSaved' = IF a = Nil THEN halfSaved \union {p} ELSE halfSaved
      /\ UNCHANGED <<kind, entries, touchedUp>>
  BY <1>1 DEF ReadHolding
<1>3. a \in Accts \cup {Nil} /\ a \in opened \cup {Nil}
  BY <1>0, <1>1, <1>2 DEF HoldingTyped, HoldingRecords, FollowedOpened
<1>4. /\ b \in Accts \cup {Nil}
      /\ accts \subseteq accts' /\ accts' \subseteq Accts /\ accts' \cap opened \subseteq accts
      /\ opened' = opened \cup accts' /\ holder' \in [Accts -> Owners]
      /\ b # Nil => b \in opened'
  BY <1>0, <1>1, <1>2, <1>3, Linking
<1>5. a # Nil => b = a
  BY <1>1 DEF Linked
<1>6. /\ \A q \in Holdings \ {p} : holdings'[q] = holdings[q]
      /\ holdings'[p] = [holdings[p] EXCEPT !.link = b]
  BY <1>0, <1>2 DEF HoldingTyped
<1>7. /\ holdings'[p] \in HoldingRecords /\ holdings'[p].link = b
      /\ holdings'[p].stated = holdings[p].stated /\ holdings'[p].mode = holdings[p].mode
      /\ holdings'[p].life = holdings[p].life
  <2>1. holdings[p] \in HoldingRecords
    BY <1>0 DEF HoldingTyped
  <2> QED BY <1>4, <1>6, <2>1 DEF HoldingRecords
<1>8. \A q \in Holdings : Followed(q)' <=> Followed(q)
  BY <1>6, <1>7 DEF Followed, Alive
<1>9. HoldingTyped'
  <2>1. holdings' \in [Holdings -> HoldingRecords]
    BY <1>0, <1>2, <1>6, <1>7 DEF HoldingTyped
  <2>2. accts' \subseteq opened' /\ opened' \subseteq Accts
    BY <1>0, <1>4 DEF HoldingTyped
  <2> QED BY <1>0, <1>2, <1>4, <2>1, <2>2 DEF HoldingTyped
<1>10. FollowedOpened'
  BY <1>0, <1>4, <1>6, <1>7, <1>8 DEF FollowedOpened
<1>11. OneOpeningEach'
  BY <1>0, <1>2 DEF OneOpeningEach, OpeningsOf
<1>12. OpeningsStand'
  <2>1. ASSUME NEW q \in Holdings, q # p \/ a # Nil PROVE Stands(q)'
    <3>1. holdings'[q].link = holdings[q].link /\ holdings'[q].stated = holdings[q].stated
      BY <1>1, <1>5, <1>6, <1>7, <2>1
    <3>2. Followed(q) /\ holdings[q].link \in accts' => holdings[q].link \in accts
      <4>1. Nil \notin accts'
        BY <1>4, HoldingAssumption DEF Nil
      <4> QED BY <1>0, <1>4, <4>1 DEF FollowedOpened
    <3>3. KeptBy(q)
      BY <1>2, <1>8, <3>1, <3>2 DEF KeptBy
    <3> QED BY <1>0, <1>2, <3>3, OpeningKept
  <2>2. a = Nil => Stands(p)'
    BY <1>2 DEF Stands
  <2> QED BY <2>1, <2>2 DEF OpeningsStand
<1> QED
  BY <1>9, <1>10, <1>11, <1>12 DEF HoldingInv

LEMMA HoldingDeleted ==
  ASSUME HoldingInv, NEW p \in Holdings, DeleteHolding(p)
  PROVE  HoldingInv'
<1>0. HoldingTyped /\ FollowedOpened /\ OneOpeningEach /\ OpeningsStand
  BY DEF HoldingInv
<1>1. /\ holdings' = [holdings EXCEPT ![p].life = "gone"]
      /\ holder' = [a \in Accts |-> IF holder[a] = p THEN Nil ELSE holder[a]]
      /\ entries' = [i \in DOMAIN entries |->
                       IF entries[i].owner = p THEN [entries[i] EXCEPT !.owner = Nil] ELSE entries[i]]
      /\ halfSaved' = halfSaved \ {p} /\ touchedUp' = touchedUp \ {p}
      /\ UNCHANGED <<kind, accts, opened>>
  BY DEF DeleteHolding
<1>2. /\ \A q \in Holdings \ {p} : holdings'[q] = holdings[q]
      /\ holdings'[p] = [holdings[p] EXCEPT !.life = "gone"]
  BY <1>0, <1>1 DEF HoldingTyped
<1>3. holdings'[p] \in HoldingRecords /\ holdings'[p].life = "gone"
  <2>1. holdings[p] \in HoldingRecords
    BY <1>0 DEF HoldingTyped
  <2> QED BY <1>2, <2>1 DEF HoldingRecords
<1>4. ~Followed(p)' /\ \A q \in Holdings \ {p} : Followed(q)' <=> Followed(q)
  BY <1>2, <1>3 DEF Followed, Alive
<1>5. /\ DOMAIN entries' = DOMAIN entries /\ entries' = [i \in DOMAIN entries' |-> entries'[i]]
      /\ \A i \in DOMAIN entries :
           /\ entries'[i] \in EntryRecords /\ entries'[i].book = entries[i].book
           /\ entries'[i].note = entries[i].note /\ entries'[i].amount = entries[i].amount
  <2>1. ASSUME NEW i \in DOMAIN entries
        PROVE  /\ entries'[i] \in EntryRecords /\ entries'[i].book = entries[i].book
               /\ entries'[i].note = entries[i].note /\ entries'[i].amount = entries[i].amount
    <3>1. entries[i] \in EntryRecords
      BY <1>0 DEF HoldingTyped, LedgerTyped
    <3>2. CASE entries[i].owner = p
      BY <1>1, <3>1, <3>2 DEF EntryRecords, Owners
    <3>3. CASE entries[i].owner # p
      BY <1>1, <3>1, <3>3
    <3> QED BY <3>2, <3>3
  <2> QED BY <1>1, <2>1
<1>6. HoldingTyped'
  <2>1. holdings' \in [Holdings -> HoldingRecords] /\ holder' \in [Accts -> Owners]
    BY <1>0, <1>1, <1>2, <1>3 DEF HoldingTyped, Owners
  <2> QED BY <1>0, <1>1, <1>5, <2>1 DEF HoldingTyped, LedgerTyped
<1>7. FollowedOpened'
  BY <1>0, <1>1, <1>2, <1>4 DEF FollowedOpened
<1>8. \A q, a : OpeningsOf(entries', q, a) = OpeningsOf(entries, q, a)
  BY <1>5 DEF OpeningsOf
<1>9. OneOpeningEach'
  BY <1>0, <1>8 DEF OneOpeningEach
<1>10. OpeningsStand'
  <2>1. ASSUME NEW q \in Holdings \ {p} PROVE Stands(q)'
    <3>1. \A i \in OpeningsOf(entries, q, holdings[q].link) : entries'[i].amount = entries[i].amount
      BY <1>5 DEF OpeningsOf
    <3>2. KeptBy(q)
      BY <1>1, <1>2, <1>4, <1>8, <3>1 DEF KeptBy
    <3> QED BY <1>0, <1>1, <3>2, OpeningKept
  <2>2. Stands(p)'
    BY <1>4 DEF Stands
  <2> QED BY <2>1, <2>2 DEF OpeningsStand
<1> QED
  BY <1>6, <1>7, <1>9, <1>10 DEF HoldingInv

LEMMA AcctRelinked ==
  ASSUME HoldingInv, NEW a \in Accts, NEW q \in Owners, RelinkAcct(a, q)
  PROVE  HoldingInv'
<1>0. HoldingTyped /\ FollowedOpened /\ OneOpeningEach /\ OpeningsStand
  BY DEF HoldingInv
<1>1. /\ holder' = [holder EXCEPT ![a] = q]
      /\ UNCHANGED <<kind, holdings, accts, opened, entries, halfSaved, touchedUp>>
  BY DEF RelinkAcct
<1>2. HoldingTyped'
  BY <1>0, <1>1 DEF HoldingTyped
<1>3. \A p \in Holdings : Followed(p)' <=> Followed(p)
  BY <1>1 DEF Followed, Alive
<1>4. FollowedOpened' /\ OneOpeningEach'
  BY <1>0, <1>1, <1>3 DEF FollowedOpened, OneOpeningEach, OpeningsOf
<1>5. ASSUME NEW p \in Holdings PROVE Stands(p)'
  <2>1. KeptBy(p)
    BY <1>1, <1>3 DEF KeptBy
  <2> QED BY <1>0, <1>1, <2>1, OpeningKept
<1> QED
  BY <1>2, <1>4, <1>5 DEF HoldingInv, OpeningsStand

LEMMA AcctDeleted ==
  ASSUME HoldingInv, NEW a \in Accts, DeleteAcct(a)
  PROVE  HoldingInv'
<1>0. HoldingTyped /\ FollowedOpened /\ OneOpeningEach /\ OpeningsStand
  BY DEF HoldingInv
<1>1. PICK p, S : p = holder[a] /\ S = {i \in DOMAIN entries : entries[i].book = a}
  OBVIOUS
<1>2. /\ accts' = accts \ {a} /\ entries' = DropEntries(entries, S)
      /\ holdings' = IF p # Nil /\ holdings[p].link = a
                     THEN [holdings EXCEPT ![p].link = Nil, ![p].mode = "manual"] ELSE holdings
      /\ holder' = [holder EXCEPT ![a] = Nil]
      /\ UNCHANGED <<kind, opened, halfSaved, touchedUp>>
  BY <1>1 DEF DeleteAcct
<1>3. p \in Owners
  BY <1>0, <1>1 DEF HoldingTyped
<1>4. /\ holdings' \in [Holdings -> HoldingRecords]
      /\ \A q \in Holdings : \/ holdings'[q] = holdings[q]
                             \/ holdings'[q].mode = "manual"
  <2>1. CASE p # Nil /\ holdings[p].link = a
    <3>1. p \in Holdings /\ holdings[p] \in HoldingRecords
      BY <1>0, <1>3, <2>1 DEF Owners, HoldingTyped
    <3>2. PICK s : s = [holdings[p] EXCEPT !.link = Nil, !.mode = "manual"]
      OBVIOUS
    <3>3. s \in HoldingRecords /\ s.mode = "manual"
      BY <3>1, <3>2 DEF HoldingRecords, Modes
    <3>4. holdings' = [holdings EXCEPT ![p] = s]
      BY <1>0, <1>2, <2>1, <3>1, <3>2 DEF HoldingTyped
    <3> QED BY <1>0, <3>1, <3>3, <3>4 DEF HoldingTyped
  <2>2. CASE ~(p # Nil /\ holdings[p].link = a)
    <3>1. holdings' = holdings
      BY <1>2, <2>2
    <3> QED BY <1>0, <3>1 DEF HoldingTyped
  <2> QED BY <2>1, <2>2
<1>5. \A q \in Holdings : Followed(q)' => Followed(q) /\ holdings'[q] = holdings[q]
  <2> SUFFICES ASSUME NEW q \in Holdings, Followed(q)' PROVE Followed(q) /\ holdings'[q] = holdings[q]
    OBVIOUS
  <2>1. holdings'[q].mode = "accounting" /\ holdings'[q].life = "alive"
    BY DEF Followed, Alive
  <2>2. holdings'[q] = holdings[q]
    BY <1>4, <2>1
  <2> QED BY <2>1, <2>2 DEF Followed, Alive
<1>6. /\ LedgerTyped(entries)' /\ OneOpeningEach'
      /\ DOMAIN entries' = DOMAIN entries \ S /\ \A i \in DOMAIN entries' : entries'[i] = entries[i]
  BY <1>0, <1>2, EntriesDropped DEF HoldingTyped
<1>7. HoldingTyped'
  <2>1. \A i \in DOMAIN entries' : entries'[i].book \in accts'
    BY <1>0, <1>1, <1>2, <1>6 DEF HoldingTyped
  <2>2. holder' \in [Accts -> Owners] /\ accts' \subseteq opened'
    BY <1>0, <1>2 DEF HoldingTyped, Owners
  <2> QED BY <1>0, <1>2, <1>4, <1>6, <2>1, <2>2 DEF HoldingTyped
<1>8. FollowedOpened'
  BY <1>0, <1>2, <1>5 DEF FollowedOpened
<1>9. ASSUME NEW q \in Holdings PROVE Stands(q)'
  <2>1. ASSUME NEW b, b # a
        PROVE  /\ OpeningsOf(entries', q, b) = OpeningsOf(entries, q, b)
               /\ \A i \in OpeningsOf(entries, q, b) : entries'[i] = entries[i]
    BY <1>1, <1>6, <2>1 DEF OpeningsOf
  <2>2. ASSUME Followed(q)', holdings'[q].link \in accts'
        PROVE  /\ Followed(q) /\ holdings'[q] = holdings[q] /\ holdings[q].link \in accts
               /\ holdings[q].link # a
    <3>1. Followed(q) /\ holdings'[q] = holdings[q]
      BY <1>5, <2>2
    <3>2. accts' = accts \ {a}
      BY <1>2
    <3> QED BY <2>2, <3>1, <3>2
  <2>3. halfSaved' = halfSaved /\ touchedUp' = touchedUp
    BY <1>2
  <2>4. KeptBy(q)
    BY <2>1, <2>2, <2>3 DEF KeptBy
  <2> QED BY <1>0, <1>2, <2>4, OpeningKept
<1> QED
  BY <1>6, <1>7, <1>8, <1>9 DEF HoldingInv, OpeningsStand

\* The start of a position that a movement pulls back is all that it changes.
LEMMA StartsPulled ==
  ASSUME HoldingTyped, NEW a \in Accts, NEW d \in Days, holdings' = PulledBack(holdings, a, d)
  PROVE  /\ holdings' \in [Holdings -> HoldingRecords]
         /\ \A q \in Holdings : /\ holdings'[q].link = holdings[q].link
                                /\ holdings'[q].stated = holdings[q].stated
                                /\ Followed(q)' <=> Followed(q)
<1>1. PICK p : p = holder[a] /\ p \in Owners
  BY DEF HoldingTyped
<1>2. CASE p # Nil /\ holdings[p].mode = "accounting" /\ d < holdings[p].start
  <2>1. p \in Holdings /\ holdings[p] \in HoldingRecords
    BY <1>1, <1>2 DEF Owners, HoldingTyped
  <2>2. PICK s : s = [holdings[p] EXCEPT !.start = d]
    OBVIOUS
  <2>3. /\ s \in HoldingRecords /\ s.link = holdings[p].link /\ s.stated = holdings[p].stated
        /\ s.life = holdings[p].life /\ s.mode = holdings[p].mode
    BY <2>1, <2>2 DEF HoldingRecords
  <2>4. holdings' = [holdings EXCEPT ![p] = s]
    BY <1>1, <1>2, <2>1, <2>2 DEF HoldingTyped, PulledBack
  <2>5. holdings'[p] = s /\ \A q \in Holdings \ {p} : holdings'[q] = holdings[q]
    BY <2>1, <2>4 DEF HoldingTyped
  <2>6. holdings' \in [Holdings -> HoldingRecords]
    BY <2>1, <2>3, <2>4 DEF HoldingTyped
  <2>7. \A q \in Holdings : /\ holdings'[q].link = holdings[q].link /\ holdings'[q].stated = holdings[q].stated
                            /\ holdings'[q].life = holdings[q].life /\ holdings'[q].mode = holdings[q].mode
    BY <2>3, <2>5
  <2> QED BY <2>6, <2>7 DEF Followed, Alive
<1>3. CASE ~(p # Nil /\ holdings[p].mode = "accounting" /\ d < holdings[p].start)
  <2>1. holdings' = holdings
    BY <1>1, <1>3 DEF PulledBack
  <2> QED BY <2>1 DEF HoldingTyped, Followed, Alive
<1> QED
  BY <1>2, <1>3

LEMMA EntryPosted ==
  ASSUME HoldingInv, NEW a \in Accts, NEW d \in Days, NEW x \in EntrySums, PostEntry(a, d, x)
  PROVE  HoldingInv'
<1>0. HoldingTyped /\ FollowedOpened /\ OneOpeningEach /\ OpeningsStand
  BY DEF HoldingInv
<1>1. PICK n, e : n = NextEntry(entries) /\ e = EntryOf(a, d, x, Nil, Nil)
  OBVIOUS
<1>2. /\ a \in accts /\ n \in EntryIds /\ n \notin DOMAIN entries
      /\ entries' = PutEntry(entries, n, e)
      /\ holdings' = PulledBack(holdings, a, d)
      /\ UNCHANGED <<kind, holder, accts, opened, halfSaved, touchedUp>>
  BY <1>0, <1>1, FreshEntry DEF PostEntry
<1>3. e \in EntryRecords /\ e.book = a /\ e.note = Nil
  BY <1>1, HoldingAssumption DEF EntryOf, EntryRecords, Owners
<1>4. /\ holdings' \in [Holdings -> HoldingRecords]
      /\ \A q \in Holdings : /\ holdings'[q].link = holdings[q].link
                             /\ holdings'[q].stated = holdings[q].stated
                             /\ Followed(q)' <=> Followed(q)
  BY <1>0, <1>2, StartsPulled
<1>5. /\ DOMAIN entries' = DOMAIN entries \cup {n} /\ entries' = [i \in DOMAIN entries' |-> entries'[i]]
      /\ entries'[n] = e /\ \A i \in DOMAIN entries : entries'[i] = entries[i]
  BY <1>2 DEF PutEntry
<1>6. HoldingTyped'
  <2>1. LedgerTyped(entries)' /\ \A i \in DOMAIN entries' : entries'[i].book \in accts'
    BY <1>0, <1>2, <1>3, <1>5 DEF HoldingTyped, LedgerTyped
  <2> QED BY <1>0, <1>2, <1>4, <2>1 DEF HoldingTyped
<1>7. FollowedOpened'
  BY <1>0, <1>2, <1>4 DEF FollowedOpened
<1>8. ASSUME NEW q \in Holdings, NEW b
      PROVE  /\ OpeningsOf(entries', q, b) = OpeningsOf(entries, q, b)
             /\ \A i \in OpeningsOf(entries, q, b) : entries'[i] = entries[i]
  <2>1. q # Nil
    BY HoldingAssumption DEF Nil
  <2> QED BY <1>3, <1>5, <2>1 DEF OpeningsOf
<1>9. OneOpeningEach'
  BY <1>0, <1>8 DEF OneOpeningEach, OpeningsOf
<1>10. ASSUME NEW q \in Holdings PROVE Stands(q)'
  <2>1. KeptBy(q)
    BY <1>2, <1>4, <1>8 DEF KeptBy
  <2> QED BY <1>0, <1>2, <2>1, OpeningKept
<1> QED
  BY <1>6, <1>7, <1>9, <1>10 DEF HoldingInv, OpeningsStand

LEMMA EntryRedated ==
  ASSUME HoldingInv, NEW i \in DOMAIN entries, NEW d \in Days, RedateEntry(i, d)
  PROVE  HoldingInv'
<1>0. HoldingTyped /\ FollowedOpened /\ OneOpeningEach /\ OpeningsStand
  BY DEF HoldingInv
<1>1. entries[i] \in EntryRecords
  BY <1>0 DEF HoldingTyped, LedgerTyped
<1>2. PICK e : e = [entries[i] EXCEPT !.day = d]
  OBVIOUS
<1>3. /\ e \in EntryRecords /\ e.book = entries[i].book /\ e.note = entries[i].note
      /\ e.amount = entries[i].amount /\ entries[i].book \in Accts /\ entries[i].note \in Owners
  BY <1>1, <1>2 DEF EntryRecords
<1>4. /\ entries' = [entries EXCEPT ![i] = e]
      /\ holdings' = PulledBack(holdings, entries[i].book, d)
      /\ touchedUp' = touchedUp \union ({entries[i].note} \ {Nil})
      /\ UNCHANGED <<kind, holder, accts, opened, halfSaved>>
  BY <1>0, <1>2 DEF RedateEntry, HoldingTyped, LedgerTyped
<1>5. /\ holdings' \in [Holdings -> HoldingRecords]
      /\ \A q \in Holdings : /\ holdings'[q].link = holdings[q].link
                             /\ holdings'[q].stated = holdings[q].stated
                             /\ Followed(q)' <=> Followed(q)
  BY <1>0, <1>3, <1>4, StartsPulled
<1>6. /\ DOMAIN entries' = DOMAIN entries /\ entries' = [j \in DOMAIN entries' |-> entries'[j]]
      /\ \A j \in DOMAIN entries :
           /\ entries'[j] \in EntryRecords /\ entries'[j].book = entries[j].book
           /\ entries'[j].note = entries[j].note /\ entries'[j].amount = entries[j].amount
  BY <1>0, <1>3, <1>4 DEF HoldingTyped, LedgerTyped
<1>7. HoldingTyped'
  <2>1. touchedUp' \subseteq Holdings
    BY <1>0, <1>3, <1>4 DEF HoldingTyped, Owners
  <2> QED BY <1>0, <1>4, <1>5, <1>6, <2>1 DEF HoldingTyped, LedgerTyped
<1>8. FollowedOpened'
  BY <1>0, <1>4, <1>5 DEF FollowedOpened
<1>9. \A q, b : OpeningsOf(entries', q, b) = OpeningsOf(entries, q, b)
  BY <1>6 DEF OpeningsOf
<1>10. OneOpeningEach'
  BY <1>0, <1>9 DEF OneOpeningEach
<1>11. ASSUME NEW q \in Holdings PROVE Stands(q)'
  <2>1. \A j \in OpeningsOf(entries, q, holdings[q].link) : entries'[j].amount = entries[j].amount
    BY <1>6 DEF OpeningsOf
  <2>2. KeptBy(q)
    BY <1>4, <1>5, <1>9, <2>1 DEF KeptBy
  <2> QED BY <1>0, <1>4, <2>2, OpeningKept
<1> QED
  BY <1>7, <1>8, <1>10, <1>11 DEF HoldingInv, OpeningsStand

LEMMA EntryDeleted ==
  ASSUME HoldingInv, NEW i \in DOMAIN entries, DeleteEntry(i)
  PROVE  HoldingInv'
<1>0. HoldingTyped /\ FollowedOpened /\ OneOpeningEach /\ OpeningsStand
  BY DEF HoldingInv
<1>1. PICK n : n = entries[i].note /\ n \in Owners
  BY <1>0 DEF HoldingTyped, LedgerTyped, EntryRecords
<1>2. /\ entries' = DropEntries(entries, {i}) /\ touchedUp' = touchedUp \union ({n} \ {Nil})
      /\ UNCHANGED <<kind, holdings, holder, accts, opened, halfSaved>>
  BY <1>1 DEF DeleteEntry
<1>3. /\ LedgerTyped(entries)' /\ OneOpeningEach'
      /\ DOMAIN entries' = DOMAIN entries \ {i} /\ \A j \in DOMAIN entries' : entries'[j] = entries[j]
  BY <1>0, <1>2, EntriesDropped DEF HoldingTyped
<1>4. HoldingTyped'
  <2>1. touchedUp' \subseteq Holdings
    BY <1>0, <1>1, <1>2 DEF HoldingTyped, Owners
  <2>2. \A j \in DOMAIN entries' : entries'[j].book \in accts'
    BY <1>0, <1>2, <1>3 DEF HoldingTyped
  <2> QED BY <1>0, <1>2, <1>3, <2>1, <2>2 DEF HoldingTyped
<1>5. \A q \in Holdings : Followed(q)' <=> Followed(q)
  BY <1>2 DEF Followed, Alive
<1>6. FollowedOpened'
  BY <1>0, <1>2, <1>5 DEF FollowedOpened
<1>7. ASSUME NEW q \in Holdings PROVE Stands(q)'
  <2>1. CASE q = n
    <3>1. q \in touchedUp'
      BY <1>2, <2>1, HoldingAssumption DEF Nil
    <3> QED BY <3>1 DEF Stands
  <2>2. CASE q # n
    <3>1. \A b : /\ OpeningsOf(entries', q, b) = OpeningsOf(entries, q, b)
                 /\ \A j \in OpeningsOf(entries, q, b) : entries'[j] = entries[j]
      BY <1>1, <1>3, <2>2 DEF OpeningsOf
    <3>2. KeptBy(q)
      BY <1>2, <1>5, <3>1 DEF KeptBy
    <3> QED BY <1>0, <1>2, <3>2, OpeningKept
  <2> QED BY <2>1, <2>2
<1> QED
  BY <1>3, <1>4, <1>6, <1>7 DEF HoldingInv, OpeningsStand

LEMMA HoldingStarts == ASSUME HoldingInit PROVE HoldingInv
<1>1. /\ kind \in HoldingKinds /\ holder = [a \in Accts |-> Nil]
      /\ holdings = [p \in Holdings |-> [life |-> "unborn", mode |-> "manual", link |-> Nil,
                                         start |-> Min(Days), stated |-> 0]]
      /\ accts = FirstAccts /\ opened = FirstAccts /\ entries = [i \in {} |-> Nil]
      /\ halfSaved = {} /\ touchedUp = {}
  BY DEF HoldingInit
<1>2. Min(Days) \in Days
  <2>1. \E d \in Days : \A e \in Days : d <= e
    BY HoldingAssumption, LeastNatural
  <2> QED BY <2>1 DEF Min
<1>3. holdings \in [Holdings -> HoldingRecords]
  BY <1>1, <1>2 DEF HoldingRecords, Modes
<1>4. DOMAIN entries = {} /\ entries = [i \in DOMAIN entries |-> entries[i]]
  BY <1>1
<1>5. HoldingTyped
  BY <1>1, <1>3, <1>4, HoldingAssumption DEF HoldingTyped, LedgerTyped, Owners
<1>6. \A p \in Holdings : ~Followed(p)
  BY <1>1 DEF Followed
<1>7. FollowedOpened /\ OneOpeningEach /\ OpeningsStand
  BY <1>4, <1>6 DEF FollowedOpened, OneOpeningEach, OpeningsOf, OpeningsStand, Stands
<1> QED
  BY <1>5, <1>7 DEF HoldingInv

LEMMA HoldingStep ==
  ASSUME HoldingInv, [HoldingNext]_holdingVars
  PROVE  HoldingInv'
<1>1. CASE UNCHANGED holdingVars
  <2>1. UNCHANGED <<kind, holdings, holder, accts, opened, entries, halfSaved, touchedUp>>
    BY <1>1 DEF holdingVars
  <2> QED BY <2>1 DEF HoldingInv, HoldingTyped, FollowedOpened, OneOpeningEach, OpeningsStand, Stands,
                      LedgerTyped, Followed, Alive, OpeningsOf, States, OpeningSide
<1>2. ASSUME NEW p \in Holdings, NEW m \in Modes, NEW a \in Accts \cup {Nil}, NEW d \in Days,
             NEW x \in OpeningSums, SaveHolding(p, m, a, d, x) \/ SaveInterrupted(p, m, a, d, x)
      PROVE  HoldingInv'
  BY <1>2, HoldingSaved, SaveStopped
<1>3. ASSUME NEW p \in Holdings, ReadHolding(p) \/ DeleteHolding(p)
      PROVE  HoldingInv'
  BY <1>3, HoldingRead, HoldingDeleted
<1>4. ASSUME NEW a \in Accts, NEW q \in Holdings \cup {Nil}, RelinkAcct(a, q)
      PROVE  HoldingInv'
  BY <1>4, AcctRelinked DEF Owners
<1>5. ASSUME NEW a \in Accts, DeleteAcct(a)
      PROVE  HoldingInv'
  BY <1>5, AcctDeleted
<1>6. ASSUME NEW a \in Accts, NEW d \in Days, NEW x \in EntrySums, PostEntry(a, d, x)
      PROVE  HoldingInv'
  BY <1>6, EntryPosted
<1>7. ASSUME NEW i \in DOMAIN entries, NEW d \in Days, RedateEntry(i, d)
      PROVE  HoldingInv'
  BY <1>7, EntryRedated
<1>8. ASSUME NEW i \in DOMAIN entries, DeleteEntry(i)
      PROVE  HoldingInv'
  BY <1>8, EntryDeleted
<1> QED
  BY <1>1, <1>2, <1>3, <1>4, <1>5, <1>6, <1>7, <1>8 DEF HoldingNext

\* The inductive invariant holds always.
THEOREM HoldingInvCorrect == HoldingSpec => []HoldingInv
BY HoldingStarts, HoldingStep, PTL DEF HoldingSpec

\* Every variable of the positions keeps its type, whatever is saved, read, booked and deleted.
THEOREM HoldingTypeCorrect == HoldingSpec => []HoldingTypeOK
<1>1. HoldingInv => HoldingTypeOK
  BY DEF HoldingInv, HoldingTyped, HoldingTypeOK, IsHolding, HoldingRecords, LedgerTyped, EntryRecords, Owners
<1> QED
  BY <1>1, HoldingInvCorrect, PTL

\* Finitely many entries have a last one.
LEMMA LastAmongThem ==
  ASSUME NEW E, NEW S, IsFiniteSet(S), S # {}, \A i \in S : i \in Int /\ E[i].day \in Int
  PROVE  LastEntry(E, S) \in S
<1> DEFINE upTo(j, i) == E[j].day < E[i].day \/ (E[j].day = E[i].day /\ j <= i)
           bad == {U \in SUBSET S : U # {} /\ ~ \E i \in U : \A j \in U : upTo(j, i)}
<1>1. \A U \in SUBSET S : IsFiniteSet(U)
  BY FS_Subset
<1>2. bad = {}
  <2> SUFFICES ASSUME bad # {} PROVE FALSE
    OBVIOUS
  <2>1. bad \in SUBSET SUBSET S
    OBVIOUS
  <2> HIDE DEF bad
  <2>2. PICK U \in bad : \A x \in U : U \ {x} \notin bad
    BY <1>1, <2>1, SmallestSet
  <2>3. U \in SUBSET S /\ U # {} /\ ~ \E i \in U : \A j \in U : upTo(j, i)
    BY <2>2 DEF bad
  <2>4. PICK x \in U : TRUE
    BY <2>3
  <2>5. CASE U \ {x} = {}
    <3>1. \A j \in U : j = x
      BY <2>5
    <3>2. \A j \in U : upTo(j, x)
      BY <2>3, <2>4, <3>1
    <3> QED BY <2>3, <2>4, <3>2
  <2>6. CASE U \ {x} # {}
    <3>1. PICK i \in U \ {x} : \A j \in U \ {x} : upTo(j, i)
      BY <2>2, <2>3, <2>4, <2>6 DEF bad
    <3>2. x \in S /\ i \in S /\ i \in U
      BY <2>3, <2>4, <3>1
    <3>3. CASE upTo(x, i)
      <4>1. \A j \in U : upTo(j, i)
        BY <3>1, <3>3
      <4> QED BY <2>3, <3>2, <4>1
    <3>4. CASE ~upTo(x, i)
      <4>1. upTo(i, x) /\ upTo(x, x)
        BY <3>2, <3>4
      <4>2. ASSUME NEW j \in U \ {x} PROVE upTo(j, x)
        <5>1. upTo(j, i) /\ j \in S
          BY <2>3, <3>1
        <5> QED BY <3>2, <4>1, <5>1
      <4>3. \A j \in U : upTo(j, x)
        BY <4>1, <4>2
      <4> QED BY <2>3, <2>4, <4>3
    <3> QED BY <3>3, <3>4
  <2> QED BY <2>5, <2>6
<1>3. \E i \in S : \A j \in S : upTo(j, i)
  BY <1>2
<1> QED
  BY <1>3 DEF LastEntry

LEMMA SumOfOne ==
  ASSUME HoldingTyped, NEW p, NEW i \in DOMAIN entries
  PROVE  SumOf(p, {i}) = IF kind[p] = "debt" THEN -entries[i].amount ELSE entries[i].amount
<1> DEFINE f == [j \in DOMAIN entries |-> entries[j].amount]
<1>1. f[i] = entries[i].amount /\ f[i] \in Int
  BY DEF HoldingTyped, LedgerTyped, EntryRecords
<1> HIDE DEF f
<1>2. IsFiniteSet({}) /\ i \notin {} /\ \A x \in {} \cup {i} : f[x] \in Int
  BY <1>1, FS_EmptySet
<1>3. SumFunctionOnSet(f, {} \cup {i}) = f[i] + SumFunctionOnSet(f, {})
  BY ONLY <1>2, SumAdd
<1>4. {} \cup {i} = {i} /\ SumFunctionOnSet(f, {}) = 0
  BY SumEmpty
<1>5. SumFunctionOnSet(f, {i}) = entries[i].amount
  BY <1>1, <1>3, <1>4
<1> QED
  BY <1>5 DEF SumOf, f

\* The account a position follows holds one opening of it, for what it states,
\* through saves, changes of account, deletions and reads (ledger_positions.py).
THEOREM OpeningCorrect == HoldingSpec => []OpeningIsStated
<1>1. HoldingInv => OpeningIsStated
  <2> SUFFICES ASSUME HoldingInv, NEW p \in Holdings, Followed(p), p \notin halfSaved \cup touchedUp,
                      holdings[p].link \in accts,
                      NEW own, own = {i \in EntriesOn(holdings[p].link) : entries[i].note = p}
               PROVE  /\ Cardinality(own) = (IF holdings[p].stated = 0 THEN 0 ELSE 1)
                      /\ SumOf(p, own) = holdings[p].stated
    BY DEF OpeningIsStated
  <2>1. PICK a, x : a = holdings[p].link /\ x = holdings[p].stated
    OBVIOUS
  <2>2. HoldingTyped /\ a \in Accts /\ x \in Int
    <3>1. HoldingTyped
      BY DEF HoldingInv
    <3>2. holdings[p] \in HoldingRecords /\ accts \subseteq Accts
      BY <3>1 DEF HoldingTyped
    <3>3. x \in OpeningSums \cup {0}
      BY <2>1, <3>2 DEF HoldingRecords
    <3> QED BY <2>1, <3>1, <3>2, <3>3, HoldingAssumption
  <2>3. own = OpeningsOf(entries, p, a)
    BY <2>1 DEF OpeningsOf, EntriesOn
  <2>4. /\ x # 0 => own # {}
        /\ \A i \in own : x # 0 /\ entries[i].amount = OpeningSide(p, x)
        /\ \A i, j \in own : i = j
    BY <2>1, <2>2, <2>3 DEF HoldingInv, OpeningsStand, Stands, States, OneOpeningEach
  <2>5. CASE x = 0
    <3> DEFINE f == [i \in DOMAIN entries |-> entries[i].amount]
    <3>1. own = {}
      BY <2>4, <2>5
    <3> HIDE DEF f
    <3>2. SumFunctionOnSet(f, own) = 0
      BY <3>1, SumEmpty
    <3>3. SumOf(p, own) = 0
      <4>1. PICK total : total = SumFunctionOnSet(f, own)
        OBVIOUS
      <4>2. SumOf(p, own) = IF kind[p] = "debt" THEN -total ELSE total
        BY <4>1 DEF SumOf, f
      <4>3. total = 0
        BY <3>2, <4>1
      <4> QED BY <4>2, <4>3
    <3> QED BY <2>1, <2>5, <3>1, <3>3, FS_EmptySet
  <2>6. CASE x # 0
    <3>1. PICK i : own = {i} /\ i \in DOMAIN entries
      BY <2>3, <2>4, <2>6 DEF OpeningsOf
    <3>2. Cardinality(own) = 1
      BY <3>1, FS_Singleton
    <3>3. SumOf(p, own) = IF kind[p] = "debt" THEN -entries[i].amount ELSE entries[i].amount
      BY <2>2, <3>1, SumOfOne
    <3>4. entries[i].amount = IF kind[p] = "debt" THEN -x ELSE x
      BY <2>4, <3>1 DEF OpeningSide
    <3>5. SumOf(p, own) = x
      BY <2>2, <3>3, <3>4
    <3> QED BY <2>1, <2>6, <3>2, <3>5
  <2> QED BY <2>5, <2>6
<1> QED
  BY <1>1, HoldingInvCorrect, PTL

\* The value read from the entries and the one read from the cache are the same,
\* unless another position follows an account where the position left its opening.
THEOREM ReadingsCorrect == HoldingSpec => []ReadingsAgree
<1>1. HoldingInv => ReadingsAgree
  <2> SUFFICES ASSUME HoldingInv, NEW p \in Holdings, NEW t \in Days, Followed(p),
                      holdings[p].link # Nil, ~Crossed(p)
               PROVE  FromEntries(p, t) = FromCache(p, t)
    BY DEF ReadingsAgree
  <2> DEFINE a == holdings[p].link
             f == [i \in DOMAIN entries |-> entries[i].amount]
  <2>1. HoldingTyped /\ a \in Accts
    BY DEF HoldingInv, HoldingTyped, HoldingRecords
  <2>2. Anchors(p, a) = CachedAnchors(p, a)
    <3>1. CASE OpeningsOf(entries, p, a) # {} \/ kind[p] # "cash"
      BY <3>1 DEF Anchors, CachedAnchors
    <3>2. CASE OpeningsOf(entries, p, a) = {} /\ kind[p] = "cash"
      <4>1. p \in Legacy
        BY <3>2 DEF Legacy
      <4>2. \A q \in Legacy : q \in Holdings /\ Followed(q)
        BY DEF Legacy
      <4>3. ASSUME NEW i \in DOMAIN entries, NEW q \in Legacy, entries[i].owner = p,
                   entries[i].book = holdings[q].link
            PROVE  entries[i].book = a
        BY <4>2, <4>3 DEF Crossed
      <4>4. Anchors(p, a) = {i \in EntriesOn(a) : entries[i].note # Nil /\ entries[i].owner \in {Nil, p}}
        BY <3>2 DEF Anchors
      <4>5. CachedAnchors(p, a) =
              {i \in DOMAIN entries :
                 /\ entries[i].note # Nil
                 /\ entries[i].book \in {holdings[q].link : q \in Legacy}
                 /\ entries[i].owner = p \/ (entries[i].owner = Nil /\ entries[i].book = a)}
        BY <3>2 DEF CachedAnchors
      <4> QED BY <4>1, <4>3, <4>4, <4>5 DEF EntriesOn
    <3> QED BY <3>1, <3>2
  <2>3. ASSUME NEW S \in SUBSET DOMAIN entries, NEW d \in Int
        PROVE  SumOf(p, {i \in S : entries[i].day >= d}) =
                 SumOf(p, S) - SumOf(p, {i \in S : entries[i].day < d})
    <3> DEFINE T == {i \in S : entries[i].day < d}
    <3>1. IsFiniteSet(S) /\ \A i \in S : f[i] \in Int
      <4>1. DOMAIN entries \subseteq 1..MaxEntries /\ MaxEntries \in Nat
        BY <2>1, HoldingAssumption DEF HoldingTyped, LedgerTyped, EntryIds
      <4>2. IsFiniteSet(1..MaxEntries)
        BY <4>1, FS_Interval
      <4>3. IsFiniteSet(S)
        BY <4>1, <4>2, FS_Subset
      <4>4. \A i \in DOMAIN entries : entries[i].amount \in Int
        BY <2>1 DEF HoldingTyped, LedgerTyped, EntryRecords
      <4> QED BY <4>3, <4>4
    <3>2. S \ T = {i \in S : entries[i].day >= d}
      <4>1. \A i \in S : entries[i].day \in Int
        BY <2>1, HoldingAssumption DEF HoldingTyped, LedgerTyped, EntryRecords
      <4> QED BY <2>3, <4>1
    <3>3. T \in SUBSET S
      OBVIOUS
    <3> HIDE DEF T, f
    <3>4. SumFunctionOnSet(f, S) = SumFunctionOnSet(f, T) + SumFunctionOnSet(f, S \ T)
      BY <3>1, <3>3, SumSplit
    <3>5. SumFunctionOnSet(f, T) \in Int /\ SumFunctionOnSet(f, S \ T) \in Int
      <4>1. IsFiniteSet(T) /\ IsFiniteSet(S \ T)
        BY <3>1, <3>3, FS_Subset
      <4>2. \A i \in T : f[i] \in Int
        BY <3>1, <3>3
      <4>3. \A i \in S \ T : f[i] \in Int
        BY <3>1
      <4> QED BY <4>1, <4>2, <4>3, SumInt
    <3>6. SumOf(p, S \ T) = SumOf(p, S) - SumOf(p, T)
      <4>1. \A U : SumOf(p, U) = IF kind[p] = "debt" THEN -SumFunctionOnSet(f, U) ELSE SumFunctionOnSet(f, U)
        BY DEF SumOf, f
      <4>2. PICK u \in Int, v \in Int : u = SumFunctionOnSet(f, T) /\ v = SumFunctionOnSet(f, S \ T)
        BY <3>5
      <4>3. SumFunctionOnSet(f, S) = u + v
        BY <3>4, <4>2
      <4> QED BY <4>1, <4>2, <4>3
    <3> QED BY <3>2, <3>6 DEF T
  <2> DEFINE seen == {i \in EntriesOn(a) : entries[i].day <= t}
             anchors == IF kind[p] = "investments" THEN {} ELSE Anchors(p, a)
             from == entries[LastEntry(entries, anchors)].day
  <2>4. CASE NeedsReview(p, a) \/ seen = {} \/ ~(anchors # {} /\ t >= from)
    BY <2>2, <2>4 DEF FromEntries, FromCache
  <2>5. CASE ~(NeedsReview(p, a) \/ seen = {}) /\ anchors # {} /\ t >= from
    <3>1. from \in Int
      <4>1. anchors \in SUBSET DOMAIN entries
        BY DEF Anchors, OpeningsOf, EntriesOn
      <4>2. \A i \in DOMAIN entries : i \in Int /\ entries[i].day \in Int
        BY <2>1, HoldingAssumption DEF HoldingTyped, LedgerTyped, EntryRecords, EntryIds
      <4>3. IsFiniteSet(anchors)
        <5>1. DOMAIN entries \subseteq 1..MaxEntries /\ MaxEntries \in Nat
          BY <2>1, HoldingAssumption DEF HoldingTyped, LedgerTyped, EntryIds
        <5>2. IsFiniteSet(1..MaxEntries)
          BY <5>1, FS_Interval
        <5>3. anchors \subseteq 1..MaxEntries
          BY <4>1, <5>1
        <5> HIDE DEF anchors
        <5> QED BY <5>2, <5>3, FS_Subset
      <4>4. anchors # {}
        BY <2>5
      <4> HIDE DEF anchors
      <4>5. \A i \in anchors : i \in Int /\ entries[i].day \in Int
        BY <4>1, <4>2
      <4>6. LastEntry(entries, anchors) \in anchors
        BY <4>3, <4>4, <4>5, LastAmongThem
      <4> QED BY <4>5, <4>6
    <3>2. seen \in SUBSET DOMAIN entries
      BY DEF EntriesOn
    <3>3. SumOf(p, {i \in seen : entries[i].day >= from}) =
            SumOf(p, seen) - SumOf(p, {i \in seen : entries[i].day < from})
      BY <2>3, <3>1, <3>2
    <3>4. FromEntries(p, t) = Shown(p, SumOf(p, {i \in seen : entries[i].day >= from}))
      BY <2>5 DEF FromEntries
    <3>5. FromCache(p, t) = Shown(p, SumOf(p, seen) - SumOf(p, {i \in seen : entries[i].day < from}))
      BY <2>2, <2>5 DEF FromCache
    <3> QED BY <3>3, <3>4, <3>5
  <2> QED BY <2>4, <2>5
<1> QED
  BY <1>1, HoldingInvCorrect, PTL

\* The two together, as the run checks them.
THEOREM PositionsCorrect == HoldingSpec => []PositionsAgree
<1>1. OpeningIsStated /\ ReadingsAgree <=> PositionsAgree
  BY DEF PositionsAgree
<1> QED
  BY <1>1, OpeningCorrect, ReadingsCorrect, PTL
=============================================================================
