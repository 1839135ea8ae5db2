-------------------------- MODULE ProjectionProofs --------------------------
(***************************************************************************)
(* Proofs about the projection of the financial plan, for any plans and    *)
(* any number of years: cash is accounted for, the two accounts of what is *)
(* liquid and what is invested agree, the search answers with a year that  *)
(* is sustained, and what it starts from counts nothing twice.             *)
(***************************************************************************)
EXTENDS PlanProjection, PlanInputs, SetLemmas, TLAPS

-----------------------------------------------------------------------------
(* Arithmetic *)

LEMMA PartOf ==
  ASSUME NEW a \in Nat, NEW b \in Nat, NEW c \in Nat \ {0}, b <= c
  PROVE  (a * b) \div c \in 0..a
<1>1. PICK n \in Nat : n = a * b
  OBVIOUS
<1>2. PICK m \in Nat : m = a * c
  OBVIOUS
<1>3. n <= m
  BY <1>1, <1>2
<1>4. m \div c = a
  BY <1>2
<1>5. n \div c \in Nat /\ n \div c <= m \div c
  BY <1>3
<1> QED
  BY <1>1, <1>4, <1>5

LEMMA Halves == ASSUME NEW a \in Int, NEW n \in Nat \ {0} PROVE HalfUpOf(a, n) \in Int
  BY DEF HalfUpOf

LEMMA Extremes ==
  ASSUME NEW a \in Int, NEW b \in Int
  PROVE  /\ Lesser(a, b) \in {a, b} /\ Lesser(a, b) <= a /\ Lesser(a, b) <= b
         /\ Greater(a, b) \in {a, b} /\ Greater(a, b) >= a /\ Greater(a, b) >= b
  BY DEF Lesser, Greater

-----------------------------------------------------------------------------
(* What decisions add to a year is made of amounts *)

LEMMA PlansTyped == ASSUME NEW p \in Plans PROVE PlanTyped(p) /\ RatesTyped(p)
  BY PlansAssumption

LEMMA EventsTyped ==
  ASSUME NEW p \in Plans
  PROVE  /\ IsFiniteSet(DOMAIN p.events) /\ DOMAIN p.events \subseteq Nat
         /\ \A i \in DOMAIN p.events : p.events[i] \in Decision
<1>1. p.events \in Seq(Decision)
  BY PlansTyped DEF PlanTyped, AimTyped
<1>2. DOMAIN p.events = 1..Len(p.events) /\ Len(p.events) \in Nat
  BY <1>1
<1>3. IsFiniteSet(1..Len(p.events))
  <2>1. PICK n \in Int : n = Len(p.events)
    BY <1>2
  <2>2. IsFiniteSet(1..n)
    BY 1 \in Int, FS_Interval
  <2> QED BY <2>1, <2>2
<1> QED
  BY <1>1, <1>2, <1>3

LEMMA MonthsTyped ==
  ASSUME NEW e \in Decision, NEW y \in Nat
  PROVE  ActiveMonths(e, y) \in Nat /\ ChargedMonths(e, y) \in Int
<1>1. LastMonth \in Nat /\ e.stopMonth \in Nat /\ e.month \in Nat
  BY MonthsAssumption DEF Decision
<1>2. ActiveMonths(e, y) \in Nat
  BY <1>1 DEF ActiveMonths, Greater
<1> QED
  BY <1>1, <1>2 DEF ChargedMonths, Lesser

LEMMA DeltasTyped ==
  ASSUME NEW p \in Plans, NEW y \in Nat, NEW d
  PROVE  /\ ExpenseDelta(p, y) \in Int /\ OperatingDelta(p, y) \in Int
         /\ IncomeDelta(p, y) \in Int /\ ContributionDelta(p, y, d) \in Nat
<1>1. \A S \in SUBSET DOMAIN p.events : IsFiniteSet(S)
  BY EventsTyped, FS_Subset
<1>2. ForceIn(p, y) \in SUBSET DOMAIN p.events /\ OwnIn(p, y) \in SUBSET DOMAIN p.events
      /\ OnWayTo(p, y, d) \in SUBSET DOMAIN p.events
  BY DEF ForceIn, OwnIn, OnWayTo
<1>3. \A i \in DOMAIN p.events :
        /\ p.events[i].expense \in Int /\ p.events[i].income \in Int /\ p.events[i].contribution \in Nat
        /\ ActiveMonths(p.events[i], y) \in Nat /\ ChargedMonths(p.events[i], y) \in Int
  BY EventsTyped, MonthsTyped DEF Decision
<1>4. ExpenseDelta(p, y) \in Int
  <2> DEFINE f == [i \in ForceIn(p, y) |-> p.events[i].expense * ActiveMonths(p.events[i], y)]
  <2>1. \A i \in ForceIn(p, y) : f[i] \in Int
    BY <1>2, <1>3
  <2> QED
    BY <1>1, <1>2, <2>1, SumInt DEF ExpenseDelta, Over
<1>5. OperatingDelta(p, y) \in Int
  <2> DEFINE f == [i \in OwnIn(p, y) |-> p.events[i].expense * ChargedMonths(p.events[i], y)]
  <2>1. \A i \in OwnIn(p, y) : f[i] \in Int
    BY <1>2, <1>3
  <2> QED
    BY <1>1, <1>2, <2>1, SumInt DEF OperatingDelta, Over
<1>6. IncomeDelta(p, y) \in Int
  <2> DEFINE f == [i \in OwnIn(p, y) |-> p.events[i].income * ActiveMonths(p.events[i], y)]
  <2>1. \A i \in OwnIn(p, y) : f[i] \in Int
    BY <1>2, <1>3
  <2> QED
    BY <1>1, <1>2, <2>1, SumInt DEF IncomeDelta, Over
<1>7. ContributionDelta(p, y, d) \in Nat
  <2> DEFINE f == [i \in OnWayTo(p, y, d) |-> p.events[i].contribution * ActiveMonths(p.events[i], y)]
  <2>1. \A i \in OnWayTo(p, y, d) : f[i] \in Nat
    BY <1>2, <1>3
  <2> QED
    BY <1>1, <1>2, <2>1, SumNat DEF ContributionDelta, Over
<1> QED
  BY <1>4, <1>5, <1>6, <1>7

LEMMA DebtTyped ==
  ASSUME NEW p \in Plans, NEW y \in Nat
  PROVE  DebtService(p, y) \in Int
<1> DEFINE f == [i \in Borrowers(p) |->
                   HalfUpOf(AnnualPayment(p.events[i]) * DebtMonths(p, p.events[i], y), LastMonth)]
<1>1. Borrowers(p) \in SUBSET DOMAIN p.events /\ IsFiniteSet(Borrowers(p))
  BY EventsTyped, FS_Subset DEF Borrowers
<1>2. ASSUME NEW i \in DOMAIN p.events PROVE f[i] \in Int \/ i \notin Borrowers(p)
  <2>1. PICK e \in Decision : e = p.events[i]
    BY EventsTyped
  <2>a. e.debt \in Nat /\ e.term \in Nat /\ e.start \in Nat /\ e.month \in Nat
    BY DEF Decision
  <2>b. LastMonth \in Nat \ {0} /\ p.today \in Nat /\ p.month \in 1..LastMonth
    BY PlansTyped, MonthsAssumption DEF PlanTyped, AimTyped
  <2>2. e.debt \in Nat /\ e.term \in Nat /\ e.start \in Nat /\ e.month \in Nat /\ LastMonth \in Nat \ {0}
        /\ p.today \in Nat /\ p.month \in Nat
    BY <2>a, <2>b
  <2>3. TermOf(e) \in Nat \ {0}
    BY <2>2 DEF TermOf, UsualTerm
  <2>4. AnnualPayment(e) \in Int
    BY <2>2, <2>3, Halves DEF AnnualPayment
  <2>5. DebtMonths(p, e, y) \in Int
    <3>1. /\ e.start * LastMonth + e.month - 1 \in Int
          /\ y * LastMonth + (IF y = p.today THEN p.month ELSE 0) \in Int
          /\ (y + 1) * LastMonth \in Int /\ TermOf(e) * LastMonth \in Int
      BY <2>2, <2>3
    <3> QED
      BY <3>1 DEF DebtMonths, Greater, Lesser
  <2>6. HalfUpOf(AnnualPayment(e) * DebtMonths(p, e, y), LastMonth) \in Int
    BY <2>2, <2>4, <2>5, Halves
  <2> QED
    BY <2>1, <2>6
<1>3. \A i \in Borrowers(p) : f[i] \in Int
  BY <1>1, <1>2
<1> QED
  BY <1>1, <1>3, SumInt DEF DebtService, Over

LEMMA SurplusTyped ==
  ASSUME NEW p \in Plans, NEW y \in Years(p)
  PROVE  /\ y \in Nat /\ Surplus(p, y) \in Int /\ Withdrawal(p, y) \in Nat
         /\ SecurityTarget(p, y) \in Int
<1>1. /\ y \in Nat /\ p.target \in Nat /\ p.today \in Nat /\ p.worked = 0 /\ p.pensionYear \in Nat
      /\ p.need \in Int /\ p.income \in Int /\ p.operating \in Int /\ p.pension \in Int /\ p.otherIncome \in Int
      /\ p.rest.income \in Int /\ p.rest.operating \in Int /\ p.rest.commitments \in Int
      /\ p.commitments[y] \in Int /\ p.rates.securityYears \in Nat
  BY PlansTyped DEF PlanTyped, AimTyped, RatesTyped, Years
<1>2. \A factor \in {p.rates.inflation, p.rates.raises} : Compounded(factor, y - p.today) \in Nat
  BY PlansTyped DEF RatesTyped
<1>3. \A sum \in Int, factor \in {p.rates.inflation, p.rates.raises} : Inflated(p, sum, factor, y) \in Int
  BY <1>2 DEF Inflated
<1> HIDE DEF Inflated
<1>4. Surplus(p, y) \in Int
  <2>1. OperatingDelta(p, y) \in Int /\ DebtService(p, y) \in Int
    BY <1>1, DeltasTyped, DebtTyped
  <2> QED
    BY <1>1, <1>3, <2>1 DEF Surplus
<1>5. FutureIncome(p, y) \in Int
  BY <1>1, <1>3 DEF FutureIncome
<1>a. ExpenseDelta(p, y) \in Int /\ IncomeDelta(p, y) \in Int
  BY <1>1, DeltasTyped
<1>6. NominalNeed(p, y) \in Int /\ IncomeDelta(p, y) \in Int
  BY <1>1, <1>3, <1>a DEF NominalNeed
<1>7. Withdrawal(p, y) \in Nat
  BY <1>1, <1>5, <1>6 DEF Withdrawal, PartlyWorked, Greater
<1>8. SecurityTarget(p, y) \in Int
  BY <1>1, <1>3 DEF SecurityTarget
<1> QED
  BY <1>1, <1>4, <1>7, <1>8

-----------------------------------------------------------------------------
(* Cash in and cash out *)

Solvent(w) ==
  /\ w.gap >= 0 /\ w.security >= 0 /\ w.productive >= 0
  /\ w.gap > 0 => w.security = 0 /\ w.productive = 0
Matched(w) == w.kinds.liquidity = w.security /\ w.kinds.investments = w.productive
\* v is the household w after cash has moved.
Kept(w, v) ==
  /\ v \in Households /\ v.year = w.year /\ v.applied = w.applied
  /\ v.other = w.other /\ v.free = w.free
  /\ w.gap >= 0 => v.gap >= 0
  /\ Solvent(w) => Solvent(v)
  /\ Solvent(w) /\ Matched(w) => Matched(v)

LEMMA KindsTyped ==
  ASSUME NEW kinds \in [AssetKinds -> Int], NEW k \in AssetKinds, NEW sum \in Int
  PROVE  /\ Reduced(kinds, k, sum) \in [AssetKinds -> Int]
         /\ \A j \in AssetKinds \ {k} : Reduced(kinds, k, sum)[j] = kinds[j]
         /\ 0 <= sum /\ sum <= kinds[k] => Reduced(kinds, k, sum)[k] = kinds[k] - sum
<1>1. \A x \in Int : Greater(0, x) \in Int /\ (x >= 0 => Greater(0, x) = x)
  BY DEF Greater
<1>2. kinds[k] - sum \in Int
  OBVIOUS
<1>3. CASE sum <= 0
  BY <1>3 DEF Reduced
<1>4. CASE ~ (sum <= 0)
  <2>1. Reduced(kinds, k, sum) = [kinds EXCEPT ![k] = Greater(0, kinds[k] - sum)]
    BY <1>4 DEF Reduced
  <2> QED
    BY <1>1, <1>2, <2>1
<1> QED
  BY <1>3, <1>4

LEMMA BothReduced ==
  ASSUME NEW kinds \in [AssetKinds -> Int], NEW s \in Int, NEW q \in Int,
         0 <= s, s <= kinds["liquidity"], 0 <= q, q <= kinds["investments"]
  PROVE  /\ Reduced(Reduced(kinds, "liquidity", s), "investments", q)["liquidity"] = kinds["liquidity"] - s
         /\ Reduced(Reduced(kinds, "liquidity", s), "investments", q)["investments"] = kinds["investments"] - q
<1> DEFINE once == Reduced(kinds, "liquidity", s)
<1>1. "liquidity" \in AssetKinds /\ "investments" \in AssetKinds /\ "liquidity" # "investments"
  BY DEF AssetKinds
<1>2. kinds["liquidity"] \in Int /\ kinds["investments"] \in Int
  BY <1>1
<1>3. once \in [AssetKinds -> Int] /\ once["liquidity"] = kinds["liquidity"] - s /\ once["investments"] = kinds["investments"]
  BY <1>1, <1>2 DEF Reduced, Greater
<1> HIDE DEF once
<1>4. /\ Reduced(once, "investments", q)["liquidity"] = once["liquidity"]
      /\ Reduced(once, "investments", q)["investments"] = once["investments"] - q
  BY <1>1, <1>2, <1>3 DEF Reduced, Greater
<1> QED
  BY <1>3, <1>4 DEF once

LEMMA HouseholdFields ==
  ASSUME NEW w \in Households
  PROVE  /\ w.year \in Nat /\ w.productive \in Int /\ w.security \in Int /\ w.other \in Int /\ w.gap \in Int
         /\ w.kinds \in [AssetKinds -> Int] /\ w.debts \in Int /\ w.paid \in Int /\ w.gone \in Int
         /\ w.applied \in SUBSET Nat /\ w.free \in Int /\ w.funded \in Int /\ w.automatic \in Int
  BY DEF Households

LEMMA OutflowMoves ==
  ASSUME NEW w \in Households, NEW sum \in Int
  PROVE  /\ Kept(w, Outflow(w, sum))
         /\ Outflow(w, sum).paid = w.paid
         /\ sum >= 0 => Liquid(Outflow(w, sum)) = Liquid(w) - sum
<1>1. CASE sum <= 0
  BY <1>1, HouseholdFields DEF Outflow, Kept, Liquid
<1>2. CASE sum > 0
  <2> DEFINE s == Lesser(w.security, sum)
             q == IF sum - s > 0 THEN Lesser(w.productive, sum - s) ELSE 0
             kinds == Reduced(Reduced(w.kinds, "liquidity", s), "investments", q)
             v == Outflow(w, sum)
  <2>1. s \in Int /\ s <= sum /\ s <= w.security /\ (s = sum \/ s = w.security)
    BY HouseholdFields DEF Lesser
  <2>2. q \in Int /\ q <= sum - s /\ (sum - s > 0 => q <= w.productive /\ (q = w.productive \/ q = sum - s))
        /\ (sum - s <= 0 => q = 0)
    BY <2>1, HouseholdFields DEF Lesser
  <2> HIDE DEF s, q
  <2>3. kinds \in [AssetKinds -> Int]
    BY <2>1, <2>2, KindsTyped, HouseholdFields DEF AssetKinds
  <2>4. v = [w EXCEPT !.security = w.security - s, !.productive = w.productive - q,
                      !.gap = w.gap + (sum - s - q), !.kinds = kinds]
    BY <1>2 DEF Outflow, s, q
  <2>5. /\ v.security = w.security - s /\ v.productive = w.productive - q /\ v.gap = w.gap + (sum - s - q)
        /\ v.kinds = kinds /\ v.year = w.year /\ v.applied = w.applied /\ v.other = w.other
        /\ v.paid = w.paid /\ v.free = w.free
    BY <2>4 DEF Households
  <2>6. w.security - s \in Int /\ w.productive - q \in Int /\ w.gap + (sum - s - q) \in Int
    BY <2>1, <2>2, HouseholdFields
  <2>7. v \in Households
    BY <2>3, <2>4, <2>6 DEF Households
  <2>8. Liquid(v) = Liquid(w) - sum
    BY <2>1, <2>2, <2>5, HouseholdFields DEF Liquid
  <2>9. w.gap >= 0 => v.gap >= 0
    BY <2>1, <2>2, <2>5, HouseholdFields
  <2>10. Solvent(w) => Solvent(v)
    BY <1>2, <2>1, <2>2, <2>5, HouseholdFields DEF Solvent
  <2>11. ASSUME Solvent(w), Matched(w) PROVE Matched(v)
    <3>1. 0 <= s /\ s <= w.security /\ 0 <= q /\ q <= w.productive
      BY <1>2, <2>1, <2>2, <2>11, HouseholdFields DEF Solvent
    <3>a. w.kinds \in [AssetKinds -> Int] /\ w.kinds["liquidity"] = w.security /\ w.kinds["investments"] = w.productive
      BY <2>11, HouseholdFields DEF Matched
    <3>4. kinds["liquidity"] = w.security - s /\ kinds["investments"] = w.productive - q
      BY <2>1, <2>2, <3>1, <3>a, BothReduced
    <3> QED
      BY <2>5, <3>4 DEF Matched
  <2> QED
    BY <2>5, <2>7, <2>8, <2>9, <2>10, <2>11 DEF Kept
<1> QED
  BY <1>1, <1>2

\* What Security takes is part of the cash.
LEMMA SecurityPart ==
  ASSUME NEW p \in Plans, NEW w \in Households, w.year \in Years(p), NEW cash \in Nat
  PROVE  ToSecurity(p, w, cash) \in 0..cash
<1>1. p.rates.share \in 0..100
  BY PlansTyped DEF RatesTyped
<1>2. (cash * p.rates.share) \div 100 \in 0..cash
  <2>1. p.rates.share \in Nat /\ p.rates.share <= 100 /\ 100 \in Nat \ {0}
    BY <1>1
  <2> QED
    BY <2>1, PartOf
<1>3. Greater(0, SecurityTarget(p, w.year) - w.security) \in Nat
  BY SurplusTyped, HouseholdFields DEF Greater
<1> QED
  BY <1>2, <1>3 DEF ToSecurity, Lesser

LEMMA PlacedMoves ==
  ASSUME NEW w \in Households, NEW s \in Int, NEW q \in Int
  PROVE  /\ Placed(w, s, q) \in Households
         /\ Placed(w, s, q).security = w.security + s /\ Placed(w, s, q).productive = w.productive + q
         /\ Placed(w, s, q).gap = w.gap /\ Placed(w, s, q).year = w.year
         /\ Placed(w, s, q).applied = w.applied /\ Placed(w, s, q).other = w.other
         /\ Placed(w, s, q).paid = w.paid /\ Placed(w, s, q).free = w.free
         /\ Matched(w) => Matched(Placed(w, s, q))
<1>1. w.kinds.liquidity \in Int /\ w.kinds.investments \in Int
  BY HouseholdFields DEF AssetKinds
<1> DEFINE kinds == [[w.kinds EXCEPT !["liquidity"] = @ + s] EXCEPT !["investments"] = @ + q]
<1>2. kinds \in [AssetKinds -> Int]
  BY <1>1, HouseholdFields DEF AssetKinds
<1>3. kinds["liquidity"] = w.kinds.liquidity + s /\ kinds["investments"] = w.kinds.investments + q
  BY <1>1, HouseholdFields DEF AssetKinds
<1> HIDE DEF kinds
<1>4. Placed(w, s, q) = [w EXCEPT !.security = w.security + s, !.productive = w.productive + q, !.kinds = kinds]
  BY Zenon DEF Placed, kinds
<1>5. w.security + s \in Int /\ w.productive + q \in Int
  BY HouseholdFields
<1>6. Placed(w, s, q) \in Households
  BY <1>2, <1>4, <1>5 DEF Households
<1> QED
  BY <1>3, <1>4, <1>6 DEF Matched, Households

LEMMA InflowMoves ==
  ASSUME NEW p \in Plans, NEW w \in Households, w.year \in Years(p), NEW sum \in Nat, w.gap >= 0
  PROVE  /\ Kept(w, Inflow(p, w, sum))
         /\ Inflow(p, w, sum).paid = w.paid
         /\ Liquid(Inflow(p, w, sum)) = Liquid(w) + sum
<1>1. CASE sum <= 0
  BY <1>1, HouseholdFields DEF Inflow, Kept, Liquid
<1>2. CASE sum > 0
  <2> DEFINE recovered == Lesser(sum, w.gap)
             cash == sum - recovered
             u == [w EXCEPT !.gap = w.gap - recovered]
             kept == ToSecurity(p, w, cash)
             v == Placed(u, kept, cash - kept)
  <2>1. recovered \in Nat /\ recovered <= sum /\ recovered <= w.gap /\ (recovered = sum \/ recovered = w.gap)
    BY HouseholdFields DEF Lesser
  <2>2. cash \in Nat
    BY <2>1
  <2>3. kept \in 0..cash
    BY <2>2, SecurityPart
  <2> HIDE DEF recovered, kept
  <2>4. u \in Households
    BY <2>1 DEF Households
  <2>5. /\ u.gap = w.gap - recovered /\ u.year = w.year /\ u.applied = w.applied /\ u.other = w.other
        /\ u.paid = w.paid /\ u.free = w.free /\ u.kinds = w.kinds
        /\ u.security = w.security /\ u.productive = w.productive
    BY DEF Households
  <2>6. Matched(w) => Matched(u)
    BY <2>5 DEF Matched
  <2> HIDE DEF u
  <2>7. kept \in Int /\ cash - kept \in Int
    BY <2>2, <2>3
  <2>a. PICK x \in Int, y \in Int : x = kept /\ y = cash - kept
    BY <2>7
  <2>8. Inflow(p, w, sum) = v
    BY <1>2 DEF Inflow, recovered, kept, u
  <2>9. /\ v \in Households /\ v.security = u.security + kept /\ v.productive = u.productive + (cash - kept)
        /\ v.gap = u.gap /\ v.year = u.year /\ v.applied = u.applied /\ v.other = u.other
        /\ v.paid = u.paid /\ v.free = u.free /\ (Matched(u) => Matched(v))
    <3>1. v = Placed(u, x, y)
      BY <2>a
    <3> QED
      BY <2>4, <2>a, <3>1, PlacedMoves
  <2> HIDE DEF v
  <2>10. Liquid(v) = Liquid(w) + sum
    BY <2>1, <2>3, <2>5, <2>9, HouseholdFields DEF Liquid
  <2>11. v.gap >= 0
    BY <2>1, <2>5, <2>9, HouseholdFields
  <2>12. Solvent(w) => Solvent(v)
    BY <2>1, <2>3, <2>5, <2>9, HouseholdFields DEF Solvent
  <2> QED
    BY <2>5, <2>6, <2>8, <2>9, <2>10, <2>11, <2>12 DEF Kept
<1> QED
  BY <1>1, <1>2

LEMMA NetMoves ==
  ASSUME NEW p \in Plans, NEW w \in Households, w.year \in Years(p), NEW net \in Int, w.gap >= 0
  PROVE  /\ Kept(w, NetCash(p, w, net))
         /\ Liquid(NetCash(p, w, net)) = Liquid(w) + net
<1>1. CASE net >= 0
  BY <1>1, InflowMoves DEF NetCash
<1>2. CASE ~ (net >= 0)
  <2>1. PICK sum \in Int : sum = -net
    OBVIOUS
  <2>2. sum >= 0 /\ NetCash(p, w, net) = Outflow(w, sum)
    BY <1>2, <2>1 DEF NetCash
  <2>3. Kept(w, Outflow(w, sum)) /\ Liquid(Outflow(w, sum)) = Liquid(w) - sum
    BY <2>2, OutflowMoves
  <2>4. Liquid(w) \in Int
    BY HouseholdFields DEF Liquid
  <2> QED
    BY <2>1, <2>2, <2>3, <2>4
<1> QED
  BY <1>1, <1>2

-----------------------------------------------------------------------------
(* The steps of a year *)

\* What a surplus does: it closes the gap, pays debts and is invested.
LEMMA ContributeMoves ==
  ASSUME NEW p \in Plans, NEW w \in Households, w.year \in Years(p), NEW free \in Nat, w.gap >= 0
  PROVE  LET v == Contribute(p, w, free) IN
         /\ Kept(w, v)
         /\ Liquid(v) = Liquid(w) + free - (v.paid - w.paid)
         /\ v.security >= w.security /\ v.productive >= w.productive /\ v.gap <= w.gap /\ v.paid >= w.paid
<1> DEFINE recovered == Lesser(free, w.gap)
           result == Contribute(p, w, free)
<1>1. recovered \in Nat /\ recovered <= free /\ recovered <= w.gap /\ (recovered = free \/ recovered = w.gap)
  BY HouseholdFields DEF Lesser
<1>2. CASE free <= recovered
  <2>1. result = [w EXCEPT !.gap = w.gap - recovered]
    BY <1>2 DEF Contribute
  <2> HIDE DEF recovered, result
  <2>2. /\ result \in Households /\ result.gap = w.gap - recovered /\ result.year = w.year
        /\ result.applied = w.applied /\ result.other = w.other /\ result.paid = w.paid
        /\ result.free = w.free /\ result.kinds = w.kinds
        /\ result.security = w.security /\ result.productive = w.productive
    BY <1>1, <2>1 DEF Households
  <2>3. Liquid(result) = Liquid(w) + free /\ result.gap >= 0 /\ result.gap <= w.gap
    BY <1>1, <1>2, <2>2, HouseholdFields DEF Liquid
  <2>4. Solvent(w) => Solvent(result)
    BY <1>1, <2>2, HouseholdFields DEF Solvent
  <2>5. Matched(w) => Matched(result)
    BY <2>2 DEF Matched
  <2>6. Liquid(w) \in Int
    BY HouseholdFields DEF Liquid
  <2> QED
    BY <2>2, <2>3, <2>4, <2>5, <2>6, HouseholdFields DEF Kept, result
<1>3. CASE ~ (free <= recovered)
  <2> DEFINE toDebt == Lesser(free - recovered, ContributionDelta(p, w.year, "debt"))
             cash == free - recovered - toDebt
             plan_ == Directed(p, w.year)
             wanted == plan_.security + plan_.productive
             funded == IF wanted > 0 THEN FundedOf(w, cash, wanted) ELSE 0
             fundedSecurity == IF wanted > 0 THEN (funded * plan_.security) \div wanted ELSE 0
             v == Placed(w, fundedSecurity, funded - fundedSecurity)
             left == cash - funded
             kept == ToSecurity(p, v, left)
             u == Placed(v, kept, left - kept)
  <2>1. toDebt \in Nat /\ toDebt <= free - recovered
    <3>1. ContributionDelta(p, w.year, "debt") \in Nat
      BY HouseholdFields, DeltasTyped
    <3> QED
      BY <1>1, <3>1 DEF Lesser
  <2> HIDE DEF recovered, toDebt
  <2>2. cash \in Nat
    BY <1>1, <2>1
  <2> HIDE DEF cash
  <2>3. plan_.security \in Nat /\ plan_.productive \in Nat
    <3>1. p.directed[w.year] \in [security : Nat, productive : Nat]
      BY PlansTyped DEF PlanTyped, AimTyped
    <3>2. ContributionDelta(p, w.year, "security") \in Nat /\ ContributionDelta(p, w.year, "productive") \in Nat
      BY HouseholdFields, DeltasTyped
    <3> QED
      BY <3>1, <3>2 DEF Directed
  <2> HIDE DEF plan_
  <2>4. wanted \in Nat /\ plan_.security <= wanted
    BY <2>3
  <2>5. PICK asked \in Nat : asked = plan_.security /\ asked <= wanted
    BY <2>3, <2>4
  <2> HIDE DEF wanted
  <2>6. funded \in Nat /\ funded <= cash
    BY <2>2, <2>4 DEF FundedOf, Lesser
  <2> HIDE DEF funded
  <2>7. fundedSecurity \in 0..funded
    <3>1. CASE wanted > 0
      <4>1. wanted \in Nat \ {0}
        BY <2>4, <3>1
      <4>2. (funded * asked) \div wanted \in 0..funded
        BY <2>5, <2>6, <4>1, PartOf
      <4> QED
        BY <2>5, <3>1, <4>2
    <3>2. CASE ~ (wanted > 0)
      BY <2>6, <3>2
    <3> QED
      BY <3>1, <3>2
  <2> HIDE DEF fundedSecurity
  <2>8. left \in Nat
    BY <2>2, <2>6
  <2>a. fundedSecurity \in Int /\ funded - fundedSecurity \in Int
    BY <2>6, <2>7
  <2>9. /\ v \in Households /\ v.security = w.security + fundedSecurity
        /\ v.productive = w.productive + (funded - fundedSecurity)
        /\ v.gap = w.gap /\ v.year = w.year /\ v.applied = w.applied /\ v.other = w.other
        /\ v.paid = w.paid /\ v.free = w.free /\ (Matched(w) => Matched(v))
    BY <2>a, PlacedMoves
  <2> HIDE DEF v, left
  <2>10. kept \in 0..left
    BY <2>8, <2>9, SecurityPart
  <2> HIDE DEF kept
  <2>11. kept \in Int /\ left - kept \in Int
    BY <2>8, <2>10
  <2>12. /\ u \in Households /\ u.security = v.security + kept /\ u.productive = v.productive + (left - kept)
         /\ u.gap = v.gap /\ u.year = v.year /\ u.applied = v.applied /\ u.other = v.other
         /\ u.paid = v.paid /\ u.free = v.free /\ (Matched(v) => Matched(u))
    <3>1. PICK x \in Int, y \in Int : x = kept /\ y = left - kept
      BY <2>11
    <3>2. u = Placed(v, x, y)
      BY <3>1
    <3> HIDE DEF u
    <3> QED
      BY <2>9, <3>1, <3>2, PlacedMoves
  <2> HIDE DEF u
  <2>13. result = [u EXCEPT !.gap = u.gap - recovered, !.paid = u.paid + toDebt, !.funded = funded, !.automatic = left]
    BY <1>3 DEF Contribute, recovered, toDebt, cash, plan_, wanted, funded, fundedSecurity, v, left, kept, u
  <2> HIDE DEF result
  <2>14. u.gap - recovered \in Int /\ u.paid + toDebt \in Int /\ funded \in Int /\ left \in Int
    BY <1>1, <2>1, <2>6, <2>8, <2>9, <2>12, HouseholdFields
  <2>15. result \in Households
    BY <2>12, <2>13, <2>14 DEF Households
  <2>16. /\ result.gap = u.gap - recovered /\ result.paid = u.paid + toDebt
         /\ result.year = u.year /\ result.applied = u.applied /\ result.other = u.other /\ result.free = u.free
         /\ result.kinds = u.kinds /\ result.security = u.security /\ result.productive = u.productive
    BY <2>12, <2>13 DEF Households
  <2>17. left = free - recovered - toDebt - funded
    BY DEF left, cash
  <2>18. /\ result.security = w.security + fundedSecurity + kept
         /\ result.productive = w.productive + (funded - fundedSecurity) + (left - kept)
         /\ result.gap = w.gap - recovered /\ result.paid = w.paid + toDebt
    BY <2>9, <2>12, <2>16
  <2>b. /\ w.security \in Int /\ w.productive \in Int /\ w.gap \in Int /\ w.paid \in Int
        /\ fundedSecurity \in Nat /\ funded - fundedSecurity \in Nat /\ kept \in Nat /\ left - kept \in Nat
        /\ funded \in Nat /\ left \in Nat
    BY <2>6, <2>7, <2>8, <2>10, HouseholdFields
  <2>19. Liquid(result) = Liquid(w) + free - (result.paid - w.paid)
    <3>1. PICK l \in Int, q \in Int, r \in Int : l = kept /\ q = left - kept /\ r = funded - fundedSecurity
      BY <2>b
    <3>2. Liquid(result) = (w.security + fundedSecurity + l) + (w.productive + r + q) - (w.gap - recovered)
      BY <1>1, <2>b, <2>18, <3>1 DEF Liquid
    <3>3. result.paid - w.paid = toDebt
      BY <2>1, <2>b, <2>18
    <3>4. l + q = left /\ r + fundedSecurity = funded
      BY <2>b, <3>1
    <3>5. Liquid(w) = w.security + w.productive - w.gap
      BY <2>b DEF Liquid
    <3>6. Liquid(result) = Liquid(w) + funded + left + recovered
      BY <1>1, <2>b, <3>2, <3>4, <3>5
    <3> QED
      BY <1>1, <2>1, <2>b, <2>17, <3>3, <3>5, <3>6
  <2>20. /\ result.security >= w.security /\ result.productive >= w.productive
         /\ result.gap <= w.gap /\ result.paid >= w.paid /\ result.gap >= 0
    BY <1>1, <2>1, <2>b, <2>18
  <2>21. recovered = w.gap
    BY <1>1, <1>3
  <2>22. Solvent(w) => Solvent(result)
    BY <2>b, <2>18, <2>20, <2>21 DEF Solvent
  <2>23. Matched(w) => Matched(result)
    BY <2>9, <2>12, <2>16 DEF Matched
  <2>24. Kept(w, result)
    BY <2>9, <2>12, <2>15, <2>16, <2>20, <2>22, <2>23 DEF Kept
  <2> QED
    BY <2>19, <2>20, <2>24 DEF result
<1> QED
  BY <1>2, <1>3

LEMMA FundMoves ==
  ASSUME NEW p \in Plans, NEW w \in Households, w.year \in Years(p), w.gap >= 0
  PROVE  LET v == ShareOut(p, w) IN
         /\ v \in Households /\ v.year = w.year /\ v.applied = w.applied /\ v.gap >= 0
         /\ Solvent(w) => Solvent(v)
         /\ Solvent(w) /\ Matched(w) => Matched(v)
         /\ Liquid(v) = Liquid(w) + v.free - (v.paid - w.paid)
         /\ v.free >= 0 =>
              /\ v.security >= w.security /\ v.productive >= w.productive
              /\ v.gap <= w.gap /\ v.paid >= w.paid
<1> DEFINE free == FreeCash(p, w.year)
           u == [w EXCEPT !.free = free, !.funded = 0, !.automatic = 0]
           v == ShareOut(p, w)
<1>1. free \in Int
  <2>1. Surplus(p, w.year) \in Int /\ p.worked = 0
    BY SurplusTyped, PlansTyped DEF PlanTyped, AimTyped
  <2> QED
    BY <2>1 DEF FreeCash, PartlyWorked
<1> HIDE DEF free
<1>z. 0 \in Int
  OBVIOUS
<1>b. u = [w EXCEPT !.free = free, !.funded = 0, !.automatic = 0]
  OBVIOUS
<1> HIDE DEF u
<1>a. u \in Households
  BY <1>1, <1>b, <1>z DEF Households
<1>2. /\ u \in Households /\ u.free = free /\ u.year = w.year /\ u.applied = w.applied /\ u.gap = w.gap
      /\ u.security = w.security /\ u.productive = w.productive /\ u.paid = w.paid /\ u.kinds = w.kinds
  BY <1>a, <1>b DEF Households
<1>3. v = IF free > 0 THEN Contribute(p, u, free) ELSE Outflow(u, -free)
  BY DEF ShareOut, free, u
<1> HIDE DEF v
<1>4. (Solvent(u) <=> Solvent(w)) /\ (Matched(u) <=> Matched(w)) /\ Liquid(u) = Liquid(w)
  BY <1>2 DEF Solvent, Matched, Liquid
<1>5. CASE free > 0
  <2>1. PICK sum \in Nat : sum = free
    BY <1>1, <1>5
  <2>2. v = Contribute(p, u, sum)
    BY <1>3, <1>5, <2>1
  <2>3. /\ Kept(u, v)
        /\ Liquid(v) = Liquid(u) + sum - (v.paid - u.paid)
        /\ v.security >= u.security /\ v.productive >= u.productive /\ v.gap <= u.gap /\ v.paid >= u.paid
    BY <1>2, <2>2, ContributeMoves
  <2> QED
    BY <1>2, <1>4, <2>1, <2>3 DEF Kept, v
<1>6. CASE ~ (free > 0)
  <2>1. PICK sum \in Int : sum = -free /\ sum >= 0
    BY <1>1, <1>6
  <2>2. v = Outflow(u, sum)
    BY <1>3, <1>6, <2>1
  <2>3. Kept(u, v) /\ v.paid = u.paid /\ Liquid(v) = Liquid(u) - sum
    BY <1>2, <2>1, <2>2, OutflowMoves
  <2>4. v.free = free /\ v.free >= 0 => v = u
    BY <1>1, <1>6, <2>1, <2>2 DEF Outflow
  <2>5. Liquid(u) \in Int /\ u.paid \in Int
    BY <1>2, HouseholdFields DEF Liquid
  <2>6. Liquid(v) = Liquid(w) + v.free - (v.paid - w.paid)
    BY <1>1, <1>2, <1>4, <2>1, <2>3, <2>5 DEF Kept
  <2>7. v.free = free
    BY <1>2, <2>3 DEF Kept
  <2> QED
    BY <1>2, <1>4, <2>3, <2>4, <2>6, <2>7, HouseholdFields DEF Kept, v
<1> QED
  BY <1>5, <1>6

LEMMA WithdrawMoves ==
  ASSUME NEW p \in Plans, NEW w \in Households, w.year \in Years(p)
  PROVE  LET v == Withdraw(p, w) IN
         /\ v \in Households /\ v.year = w.year /\ v.applied = w.applied /\ v.gap = w.gap
         /\ Solvent(w) => Solvent(v)
         /\ Solvent(w) /\ Matched(w) => Matched(v)
         /\ Liquid(v) \in {Liquid(w), Liquid(w) - Withdrawal(p, w.year), -w.gap + w.security}
<1> DEFINE left == Greater(0, w.productive - Withdrawal(p, w.year))
           kinds == Reduced(w.kinds, "investments", w.productive - left)
           v == Withdraw(p, w)
<1>1. CASE w.year < p.target \/ w.year = p.today
  BY <1>1, HouseholdFields DEF Withdraw
<1>2. CASE ~ (w.year < p.target \/ w.year = p.today)
  <2>1. Withdrawal(p, w.year) \in Nat
    BY SurplusTyped
  <2>2. left \in Nat /\ (left = w.productive - Withdrawal(p, w.year) \/ left = 0)
        /\ (w.productive >= 0 => left <= w.productive)
    BY <2>1, HouseholdFields DEF Greater
  <2>3. v = [w EXCEPT !.productive = left, !.kinds = kinds]
    BY <1>2 DEF Withdraw
  <2> HIDE DEF left
  <2>a. w.productive - left \in Int /\ "investments" \in AssetKinds
    BY <2>2, HouseholdFields DEF AssetKinds
  <2>4. kinds \in [AssetKinds -> Int]
    BY <2>a, KindsTyped, HouseholdFields
  <2>5. ASSUME Solvent(w), Matched(w)
        PROVE  kinds["liquidity"] = w.kinds["liquidity"] /\ kinds["investments"] = left
    <3>1. PICK x \in Int : x = w.productive - left
      BY <2>a
    <3>2. 0 <= x /\ x <= w.kinds["investments"] /\ w.kinds["investments"] - x = left
      BY <2>2, <2>5, <3>1, HouseholdFields DEF Solvent, Matched
    <3>3. "liquidity" \in AssetKinds /\ "investments" \in AssetKinds /\ w.kinds \in [AssetKinds -> Int]
      BY HouseholdFields DEF AssetKinds
    <3>4. Reduced(w.kinds, "investments", x)["liquidity"] = w.kinds["liquidity"]
          /\ Reduced(w.kinds, "investments", x)["investments"] = w.kinds["investments"] - x
      BY <3>2, <3>3 DEF Reduced, Greater
    <3> QED
      BY <3>1, <3>2, <3>4
  <2> HIDE DEF kinds, v
  <2>b. left \in Int
    BY <2>2
  <2>6. v \in Households
    BY <2>3, <2>4, <2>b DEF Households
  <2>7. /\ v.productive = left /\ v.kinds = kinds /\ v.year = w.year /\ v.applied = w.applied /\ v.gap = w.gap
        /\ v.security = w.security
    BY <2>3 DEF Households
  <2>8. Solvent(w) => Solvent(v)
    BY <2>2, <2>7, HouseholdFields DEF Solvent
  <2>9. Solvent(w) /\ Matched(w) => Matched(v)
    BY <2>5, <2>7 DEF Matched
  <2>10. Liquid(v) \in {Liquid(w) - Withdrawal(p, w.year), -w.gap + w.security}
    BY <2>1, <2>2, <2>7, HouseholdFields DEF Liquid
  <2> QED
    BY <2>6, <2>7, <2>8, <2>9, <2>10 DEF v
<1> QED
  BY <1>1, <1>2

LEMMA KindsFinite == IsFiniteSet(AssetKinds) /\ LastingKinds \subseteq AssetKinds
<1>1. IsFiniteSet((((({} \cup {"liquidity"}) \cup {"investments"}) \cup {"realEstate"}) \cup {"furnishings"}) \cup {"rest"})
  BY FS_EmptySet, FS_AddElement
<1>2. AssetKinds = (((({} \cup {"liquidity"}) \cup {"investments"}) \cup {"realEstate"}) \cup {"furnishings"}) \cup {"rest"}
  BY DEF AssetKinds
<1> QED
  BY <1>1, <1>2 DEF AssetKinds, LastingKinds

LEMMA WorthTyped ==
  ASSUME NEW kinds \in [AssetKinds -> Int], NEW K \in SUBSET AssetKinds
  PROVE  WorthOf(kinds, K) \in Int
<1>1. IsFiniteSet(K) /\ \A k \in K : kinds[k] \in Int
  BY KindsFinite, FS_Subset
<1> QED
  BY <1>1, SumInt DEF WorthOf, Over

LEMMA GrowMoves ==
  ASSUME NEW p \in Plans, NEW w \in Households, w.year \in Years(p)
  PROVE  LET v == Grow(p, w) IN
         /\ v \in Households /\ v.year = w.year /\ v.applied = w.applied /\ v.gap = w.gap
         /\ Solvent(w) => Solvent(v)
         /\ Matched(w) => Matched(v)
<1> DEFINE grown == [k \in AssetKinds |-> w.kinds[k] * GrowthOf(p, k)]
           v == Grow(p, w)
<1>1. CASE w.year = p.today
  BY <1>1 DEF Grow
<1>2. CASE w.year # p.today
  <2>1. \A k \in AssetKinds : GrowthOf(p, k) \in Nat
    BY PlansTyped DEF RatesTyped, GrowthOf, AssetKinds
  <2>2. grown \in [AssetKinds -> Int]
    BY <2>1, HouseholdFields
  <2>3. Repaid(p, w) \in Int
    <3>1. p.debts \in Int /\ p.repayYears \in Int
      BY PlansTyped DEF PlanTyped, AimTyped
    <3>2. p.repayYears > 0 => p.debts \div p.repayYears \in Int
      BY <3>1
    <3> QED
      BY <3>1, <3>2, HouseholdFields DEF Repaid, Greater
  <2>4. w.productive * p.rates.return \in Int /\ (w.productive >= 0 => w.productive * p.rates.return >= 0)
        /\ (w.productive = 0 => w.productive * p.rates.return = 0)
    <3>1. PICK r \in Nat : r = p.rates.return
      BY PlansTyped DEF RatesTyped
    <3> QED
      BY <3>1, HouseholdFields
  <2>5. grown["investments"] = w.kinds["investments"] * p.rates.return
        /\ grown["liquidity"] = w.kinds["liquidity"]
    <3>1. "investments" \in AssetKinds /\ "liquidity" \in AssetKinds /\ w.kinds["liquidity"] \in Int
      BY HouseholdFields DEF AssetKinds
    <3> QED
      BY <3>1 DEF GrowthOf
  <2>6. w.other + WorthOf(grown, LastingKinds) - WorthOf(w.kinds, LastingKinds) \in Int
    BY <2>2, WorthTyped, KindsFinite, HouseholdFields
  <2>7. v = [w EXCEPT !.productive = w.productive * p.rates.return, !.kinds = grown, !.debts = Repaid(p, w),
                      !.other = w.other + WorthOf(grown, LastingKinds) - WorthOf(w.kinds, LastingKinds)]
    BY <1>2 DEF Grow
  <2> HIDE DEF grown, v
  <2>8. v \in Households
    BY <2>2, <2>3, <2>4, <2>6, <2>7 DEF Households
  <2>9. /\ v.productive = w.productive * p.rates.return /\ v.kinds = grown /\ v.year = w.year
        /\ v.applied = w.applied /\ v.gap = w.gap /\ v.security = w.security
    BY <2>7 DEF Households
  <2>10. Solvent(w) => Solvent(v)
    BY <2>4, <2>9, HouseholdFields DEF Solvent
  <2>11. Matched(w) => Matched(v)
    BY <2>5, <2>9 DEF Matched
  <2> QED
    BY <2>8, <2>9, <2>10, <2>11 DEF v
<1> QED
  BY <1>1, <1>2

LEMMA CategoriesTyped ==
  ASSUME NEW e \in Decision, NEW f
  PROVE  KindFor(e, f) \in AssetKinds
         /\ (f \notin {"productive", "security"} => KindFor(e, f) \notin {"liquidity", "investments"})
  BY DEF KindFor, AssetKinds

LEMMA BoughtMoves ==
  ASSUME NEW e \in Decision, NEW w \in Households
  PROVE  LET v == Bought(e, w) IN
         /\ v \in Households /\ v.year = w.year /\ v.applied = w.applied /\ v.gap = w.gap /\ v.gone = w.gone
         /\ v.security >= w.security /\ v.productive >= w.productive
         /\ (e.asset > 0 => Lasting(e.assetFor))
            => /\ v.security = w.security /\ v.productive = w.productive
               /\ Matched(w) => Matched(v)
<1> DEFINE v == Bought(e, w)
<1>1. e.asset \in Nat
  BY DEF Decision
<1>2. CASE e.asset <= 0
  BY <1>1, <1>2, HouseholdFields DEF Bought
<1>3. CASE ~ (e.asset <= 0)
  <2> DEFINE k == KindFor(e, e.assetFor)
             kinds == [w.kinds EXCEPT ![k] = @ + e.asset]
             productive == IF e.assetFor = "productive" THEN w.productive + e.asset ELSE w.productive
             security == IF e.assetFor = "security" THEN w.security + e.asset ELSE w.security
             other == IF e.assetFor \in {"productive", "security"} THEN w.other ELSE w.other + e.asset
  <2>1. k \in AssetKinds /\ (Lasting(e.assetFor) => k \notin {"liquidity", "investments"})
    BY CategoriesTyped DEF Lasting
  <2> HIDE DEF k
  <2>2. kinds \in [AssetKinds -> Int] /\ \A j \in AssetKinds : j # k => kinds[j] = w.kinds[j]
    BY <1>1, <2>1, HouseholdFields
  <2>3. /\ productive \in Int /\ productive >= w.productive /\ security \in Int /\ security >= w.security
        /\ other \in Int
    BY <1>1, HouseholdFields
  <2>4. Lasting(e.assetFor) => productive = w.productive /\ security = w.security
    BY DEF Lasting
  <2>5. v = [w EXCEPT !.kinds = kinds, !.productive = productive, !.security = security, !.other = other]
    BY <1>3 DEF Bought, Households, k
  <2> HIDE DEF kinds, productive, security, other, v
  <2>6. v \in Households
    BY <2>2, <2>3, <2>5 DEF Households
  <2>7. /\ v.kinds = kinds /\ v.productive = productive /\ v.security = security
        /\ v.year = w.year /\ v.applied = w.applied /\ v.gap = w.gap /\ v.gone = w.gone
    BY <2>5 DEF Households
  <2>8. ASSUME Lasting(e.assetFor), Matched(w) PROVE Matched(v)
    <3>1. "liquidity" \in AssetKinds /\ "investments" \in AssetKinds /\ k # "liquidity" /\ k # "investments"
      BY <2>1, <2>8 DEF AssetKinds
    <3>2. kinds["liquidity"] = w.kinds["liquidity"] /\ kinds["investments"] = w.kinds["investments"]
      BY <2>2, <3>1
    <3> QED
      BY <2>4, <2>7, <2>8, <3>2 DEF Matched
  <2> QED
    BY <1>1, <1>3, <2>3, <2>4, <2>6, <2>7, <2>8 DEF v
<1> QED
  BY <1>2, <1>3

LEMMA SoldMoves ==
  ASSUME NEW p \in Plans, NEW e \in Decision, NEW w \in Households, w.year \in Years(p)
  PROVE  LET v == Sold(p, e, w) IN
         /\ v \in Households /\ v.year = w.year /\ v.applied = w.applied /\ v.gap = w.gap /\ v.gone = w.gone
         /\ (e.sold > 0 => Lasting(e.soldFor))
            => /\ v.security = w.security /\ v.productive = w.productive
               /\ Matched(w) => Matched(v)
<1> DEFINE v == Sold(p, e, w)
<1>1. e.sold \in Nat /\ e.soldDebt \in Nat
  BY DEF Decision
<1>2. CASE e.sold <= 0
  BY <1>1, <1>2 DEF Sold
<1>3. CASE ~ (e.sold <= 0)
  <2> DEFINE k == KindFor(e, e.soldFor)
             grown == GrownValue(p, e, w.year)
             net == Greater(0, grown - e.soldDebt)
             kinds == Reduced(w.kinds, k, grown)
             productive == IF e.soldFor = "productive" THEN Greater(0, w.productive - net) ELSE w.productive
             security == IF e.soldFor = "security" THEN Greater(0, w.security - net) ELSE w.security
             other == IF e.soldFor \in {"productive", "security"} THEN w.other ELSE Greater(0, w.other - net)
  <2>1. k \in AssetKinds /\ (Lasting(e.soldFor) => k \notin {"liquidity", "investments"})
    BY CategoriesTyped DEF Lasting
  <2>2. grown \in Int
    <3>1. Compounded(GrowthOf(p, k), w.year - p.today) \in Nat
      BY <2>1, PlansTyped DEF RatesTyped
    <3> QED
      BY <1>1, <3>1 DEF GrownValue
  <2> HIDE DEF k, grown
  <2>3. net \in Int
    BY <1>1, <2>2 DEF Greater
  <2> HIDE DEF net
  <2>4. kinds \in [AssetKinds -> Int] /\ \A j \in AssetKinds : j # k => kinds[j] = w.kinds[j]
    BY <2>1, <2>2, KindsTyped, HouseholdFields
  <2>5. productive \in Int /\ security \in Int /\ other \in Int
    BY <2>3, HouseholdFields DEF Greater
  <2>6. Lasting(e.soldFor) => productive = w.productive /\ security = w.security
    BY DEF Lasting
  <2>7. v = [w EXCEPT !.kinds = kinds, !.productive = productive, !.security = security, !.other = other]
    BY <1>3 DEF Sold, k, grown, net
  <2> HIDE DEF kinds, productive, security, other, v
  <2>8. v \in Households
    BY <2>4, <2>5, <2>7 DEF Households
  <2>9. /\ v.kinds = kinds /\ v.productive = productive /\ v.security = security
        /\ v.year = w.year /\ v.applied = w.applied /\ v.gap = w.gap /\ v.gone = w.gone
    BY <2>7 DEF Households
  <2>10. ASSUME Lasting(e.soldFor), Matched(w) PROVE Matched(v)
    <3>1. "liquidity" \in AssetKinds /\ "investments" \in AssetKinds /\ k # "liquidity" /\ k # "investments"
      BY <2>1, <2>10 DEF AssetKinds
    <3>2. kinds["liquidity"] = w.kinds["liquidity"] /\ kinds["investments"] = w.kinds["investments"]
      BY <2>4, <3>1
    <3> QED
      BY <2>6, <2>9, <2>10, <3>2 DEF Matched
  <2> QED
    BY <1>1, <1>3, <2>6, <2>8, <2>9, <2>10 DEF v
<1> QED
  BY <1>2, <1>3

LEMMA ApplyMoves ==
  ASSUME NEW p \in Plans, NEW w \in Households, w.year \in Years(p), NEW i \in DOMAIN p.events
  PROVE  LET v == Apply(p, w, i) IN
         /\ v \in Households /\ v.year = w.year /\ v.applied = w.applied \cup {i} /\ v.gap = w.gap
         /\ OnlyLasting(p) => /\ Solvent(w) => Solvent(v)
                              /\ Matched(w) => Matched(v)
<1>1. PICK e \in Decision : e = p.events[i] /\ e.soldDebt \in Int /\ i \in Nat
  BY EventsTyped DEF Decision
<1>2. PICK u \in Households : u = Bought(e, w)
  BY BoughtMoves
<1>3. u.year = w.year /\ u.applied = w.applied /\ u.gap = w.gap
  BY <1>2, BoughtMoves
<1>4. PICK x \in Households : x = Sold(p, e, u)
  BY <1>2, <1>3, SoldMoves
<1>5. x.year = u.year /\ x.applied = u.applied /\ x.gap = u.gap
  BY <1>3, <1>4, SoldMoves
<1>6. PICK v : v = [x EXCEPT !.gone = x.gone + e.soldDebt, !.applied = x.applied \cup {i}]
  OBVIOUS
<1>7. v = Apply(p, w, i)
  BY <1>1, <1>2, <1>4, <1>6 DEF Apply
<1>8. x.gone + e.soldDebt \in Int /\ x.applied \cup {i} \in SUBSET Nat
  BY <1>1, HouseholdFields
<1>9. v \in Households
  BY <1>6, <1>8 DEF Households
<1>10. /\ v.year = x.year /\ v.applied = x.applied \cup {i} /\ v.gap = x.gap /\ v.kinds = x.kinds
       /\ v.security = x.security /\ v.productive = x.productive
  BY <1>6 DEF Households
<1>11. ASSUME OnlyLasting(p)
       PROVE  (Solvent(w) => Solvent(v)) /\ (Matched(w) => Matched(v))
  <2>1. (e.asset > 0 => Lasting(e.assetFor)) /\ (e.sold > 0 => Lasting(e.soldFor))
    BY <1>1, <1>11 DEF OnlyLasting
  <2>2. u.security = w.security /\ u.productive = w.productive /\ (Matched(w) => Matched(u))
    BY <1>2, <2>1, BoughtMoves
  <2>3. x.security = u.security /\ x.productive = u.productive /\ (Matched(u) => Matched(x))
    BY <1>3, <1>4, <2>1, SoldMoves
  <2> QED
    BY <1>3, <1>5, <1>10, <2>2, <2>3 DEF Solvent, Matched
<1> QED
  BY <1>3, <1>5, <1>7, <1>9, <1>10, <1>11

LEMMA FlowMoves ==
  ASSUME NEW p \in Plans, NEW w \in Households, w.year \in Years(p), w.gap >= 0
  PROVE  LET v == Flow(p, w)
             flow == p.flows[w.year]
         IN /\ v \in Households /\ v.year = w.year /\ v.applied = w.applied /\ v.gap >= 0
            /\ Solvent(w) => Solvent(v)
            /\ Solvent(w) /\ Matched(w) => Matched(v)
            /\ Liquid(v) = Liquid(w) + flow.income - flow.purchase - flow.outflow
            /\ v.other = w.other + flow.purchase
<1>1. PICK flow \in SingleFlow : flow = p.flows[w.year]
  BY PlansTyped DEF PlanTyped, AimTyped
<1>2. flow.income \in Nat /\ flow.purchase \in Nat /\ flow.outflow \in Nat
  BY DEF SingleFlow
<1>3. PICK net \in Int : net = flow.income - flow.purchase - flow.outflow
  BY <1>2
<1>4. PICK u : u = NetCash(p, w, net)
  OBVIOUS
<1>5. Kept(w, u) /\ Liquid(u) = Liquid(w) + net
  BY <1>4, NetMoves
<1>6. u \in Households
  BY <1>5 DEF Kept
<1> DEFINE kinds == [u.kinds EXCEPT !["rest"] = @ + flow.purchase]
           v == Flow(p, w)
<1>7. kinds \in [AssetKinds -> Int] /\ kinds["liquidity"] = u.kinds["liquidity"]
      /\ kinds["investments"] = u.kinds["investments"]
  BY <1>2, <1>6, HouseholdFields DEF AssetKinds
<1>8. v = [u EXCEPT !.other = u.other + flow.purchase, !.kinds = kinds]
  BY <1>1, <1>3, <1>4, <1>6 DEF Flow, Households
<1>9. u.other + flow.purchase \in Int
  BY <1>2, <1>6, HouseholdFields
<1> HIDE DEF kinds, v
<1>10. v \in Households
  BY <1>6, <1>7, <1>8, <1>9 DEF Households
<1>11. /\ v.other = u.other + flow.purchase /\ v.kinds = kinds /\ v.year = u.year /\ v.applied = u.applied
       /\ v.gap = u.gap /\ v.security = u.security /\ v.productive = u.productive
  BY <1>6, <1>8 DEF Households
<1>12. (Solvent(u) => Solvent(v)) /\ (Matched(u) => Matched(v)) /\ Liquid(v) = Liquid(u)
  BY <1>7, <1>11 DEF Solvent, Matched, Liquid
<1>13. Liquid(v) = Liquid(w) + flow.income - flow.purchase - flow.outflow
  <2>1. Liquid(w) \in Int
    BY HouseholdFields DEF Liquid
  <2> QED
    BY <1>2, <1>3, <1>5, <1>12, <2>1
<1>14. v.year = w.year /\ v.applied = w.applied /\ v.gap >= 0 /\ v.other = w.other + flow.purchase
  BY <1>5, <1>11 DEF Kept
<1> QED
  BY <1>1, <1>5, <1>10, <1>12, <1>13, <1>14 DEF Kept, v

-----------------------------------------------------------------------------
(* SomeDecisions of a month *)

LEMMA FirstTogether ==
  ASSUME NEW p \in Plans, NEW w, DueIn(p, w) # {}
  PROVE  /\ Together(p, w) # {} /\ Together(p, w) \in SUBSET DueIn(p, w)
         /\ Min(Together(p, w)) \in Together(p, w)
<1> DEFINE dates == {p.events[i].month : i \in DueIn(p, w)}
<1>1. DueIn(p, w) \subseteq DOMAIN p.events /\ DueIn(p, w) \subseteq Nat
  BY EventsTyped DEF DueIn
<1>2. dates \in SUBSET Nat /\ dates # {}
  BY <1>1, EventsTyped DEF Decision
<1>3. PICK m \in dates : \A n \in dates : m <= n
  BY <1>2, LeastNatural
<1>4. Min(dates) \in dates
  BY <1>3 DEF Min
<1>5. Together(p, w) # {} /\ Together(p, w) \in SUBSET DueIn(p, w)
  BY <1>4 DEF Together, FirstMonth
<1>6. Together(p, w) \in SUBSET Nat
  BY <1>1, <1>5
<1>7. PICK i \in Together(p, w) : \A j \in Together(p, w) : i <= j
  BY <1>5, <1>6, LeastNatural
<1> QED
  BY <1>5, <1>7 DEF Min

LEMMA StillDue ==
  ASSUME NEW p \in Plans, NEW w, NEW v, NEW i \in Together(p, w), DueIn(p, w) # {},
         Cardinality(Together(p, w)) # 1, v.year = w.year, v.applied = w.applied \cup {i}
  PROVE  DueIn(p, v) # {}
<1>1. Together(p, w) # {i}
  BY FS_Singleton
<1>2. PICK j \in Together(p, w) : j # i
  BY <1>1
<1>3. j \in DueIn(p, w)
  BY FirstTogether
<1> QED
  BY <1>2, <1>3 DEF DueIn

-----------------------------------------------------------------------------
(* The inductive invariant *)

Positive(p) == OnlyLasting(p) /\ p.productive >= 0 /\ p.security >= 0
Agreeing(p) == Positive(p) /\ p.kinds.liquidity = p.security /\ p.kinds.investments = p.productive
\* What the search by halves knows of the years below and above.
SearchHolds ==
  step = "search" =>
    /\ SustainedAt(plan, high)
    /\ OnceForAll(plan) => \A y \in Years(plan) : y < low => ~ SustainedAt(plan, y)
ProjectionInv ==
  /\ ProjectionTypeOK
  /\ walk.gap >= 0
  /\ Positive(plan) => Solvent(walk)
  /\ Agreeing(plan) => Matched(walk)
  /\ step = "apply" => DueIn(plan, walk) # {}
  /\ SearchHolds
  /\ EarliestRetirement
  /\ step \notin {"months", "done"} => earliest = NoYear

\* What a step of a year keeps.
Household(v) ==
  /\ v \in Households /\ v.year = walk.year /\ v.gap >= 0
  /\ Positive(plan) => Solvent(v)
  /\ Agreeing(plan) => Matched(v)

LEMMA InitHolds == ProjectionInit => ProjectionInv
<1> SUFFICES ASSUME ProjectionInit PROVE ProjectionInv
  OBVIOUS
<1>1. plan \in Plans /\ step = "grow" /\ low = 0 /\ high = 0 /\ earliest = NoYear /\ months = NoYear
  BY DEF ProjectionInit
<1>2. /\ plan.today \in Nat \ {0} /\ plan.horizon \in Nat /\ plan.today <= plan.horizon
      /\ plan.productive \in Int /\ plan.security \in Int /\ plan.other \in Int /\ plan.tied \in Int
      /\ plan.debts \in Int /\ plan.kinds \in [AssetKinds -> Int]
  BY <1>1, PlansTyped DEF PlanTyped, AimTyped
<1>3. PICK kinds : kinds = OpeningKinds(plan)
  OBVIOUS
<1>4. kinds \in [AssetKinds -> Int]
  BY <1>2, <1>3 DEF OpeningKinds, AssetKinds
<1>5. Agreeing(plan) => kinds["liquidity"] = plan.security /\ kinds["investments"] = plan.productive
  <2>1. "liquidity" \in AssetKinds /\ "investments" \in AssetKinds
    BY DEF AssetKinds
  <2> QED
    BY <1>3, <2>1 DEF OpeningKinds, Agreeing
<1>6. walk = [year |-> plan.today, productive |-> plan.productive, security |-> plan.security,
              other |-> plan.other, gap |-> 0, kinds |-> kinds, debts |-> plan.debts, paid |-> 0, gone |-> 0,
              applied |-> {}, free |-> 0, funded |-> 0, automatic |-> 0]
  BY <1>3 DEF ProjectionInit, FirstYear
<1>7. walk \in Households
  BY <1>2, <1>4, <1>6 DEF Households
<1>8. /\ walk.year = plan.today /\ walk.gap = 0 /\ walk.applied = {} /\ walk.kinds = kinds
      /\ walk.security = plan.security /\ walk.productive = plan.productive
  BY <1>6
<1>9. ProjectionTypeOK
  BY <1>1, <1>2, <1>7, <1>8 DEF ProjectionTypeOK, Steps, Years, NoYear
<1>10. Positive(plan) => Solvent(walk)
  BY <1>8 DEF Positive, Solvent
<1>11. Agreeing(plan) => Matched(walk)
  BY <1>5, <1>8 DEF Matched
<1> QED
  BY <1>1, <1>8, <1>9, <1>10, <1>11 DEF ProjectionInv, SearchHolds, EarliestRetirement

\* A step within a year moves on to another and leaves the rest alone.
LEMMA WithinYear ==
  ASSUME ProjectionInv, NEW v, Household(v), v.applied \subseteq DOMAIN plan.events,
         walk' = v, Walking, NEW s \in {"fund", "withdraw", "decide", "apply"}, step' = s,
         step \in {"grow", "fund", "withdraw", "decide", "apply"},
         s = "apply" => DueIn(plan, v) # {}
  PROVE  ProjectionInv'
<1>1. plan' = plan /\ low' = low /\ high' = high /\ earliest' = earliest /\ months' = months
  BY DEF Walking
<1>2. ProjectionTypeOK'
  BY <1>1 DEF ProjectionInv, ProjectionTypeOK, Household, Steps
<1>3. walk'.gap >= 0 /\ (Positive(plan) => Solvent(walk))' /\ (Agreeing(plan) => Matched(walk))'
  BY <1>1 DEF Household, Positive, Agreeing, Solvent, Matched, OnlyLasting
<1>4. (step = "apply" => DueIn(plan, walk) # {})'
  BY <1>1 DEF DueIn
<1> QED
  BY <1>1, <1>2, <1>3, <1>4 DEF ProjectionInv, SearchHolds, EarliestRetirement

LEMMA InvFacts ==
  ASSUME ProjectionInv
  PROVE  /\ plan \in Plans /\ walk \in Households /\ walk.year \in Years(plan) /\ walk.gap >= 0
         /\ walk.applied \subseteq DOMAIN plan.events
         /\ Positive(plan) => Solvent(walk)
         /\ Agreeing(plan) => Solvent(walk) /\ Matched(walk)
  BY DEF ProjectionInv, ProjectionTypeOK, Agreeing

LEMMA GrowKeeps == ASSUME ProjectionInv, GrowYear PROVE ProjectionInv'
<1>1. Household(Grow(plan, walk)) /\ Grow(plan, walk).applied \subseteq DOMAIN plan.events
  BY InvFacts, GrowMoves DEF Household
<1> QED
  BY <1>1, WithinYear DEF GrowYear

LEMMA FundKeeps == ASSUME ProjectionInv, FundYear PROVE ProjectionInv'
<1>1. Household(ShareOut(plan, walk)) /\ ShareOut(plan, walk).applied \subseteq DOMAIN plan.events
  BY InvFacts, FundMoves DEF Household
<1> QED
  BY <1>1, WithinYear DEF FundYear

LEMMA WithdrawKeeps == ASSUME ProjectionInv, WithdrawYear PROVE ProjectionInv'
<1>1. Household(Withdraw(plan, walk)) /\ Withdraw(plan, walk).applied \subseteq DOMAIN plan.events
  BY InvFacts, WithdrawMoves DEF Household
<1> QED
  BY <1>1, WithinYear DEF WithdrawYear

LEMMA MonthTyped ==
  ASSUME NEW p \in Plans, NEW S \in SUBSET DOMAIN p.events
  PROVE  MonthNet(p, S) \in Int
<1> DEFINE f == [i \in S |-> p.events[i].proceeds - p.events[i].outflow]
<1>1. IsFiniteSet(S)
  BY EventsTyped, FS_Subset
<1>2. \A i \in S : f[i] \in Int
  <2> TAKE i \in S
  <2>1. PICK e \in Decision : e = p.events[i]
    BY EventsTyped
  <2> QED
    BY <2>1 DEF Decision
<1> QED
  BY <1>1, <1>2, SumInt DEF MonthNet, Over

LEMMA NetMonthMoves ==
  ASSUME ProjectionInv, DueIn(plan, walk) # {}
  PROVE  /\ Kept(walk, NetMonth(plan, walk))
         /\ Liquid(NetMonth(plan, walk)) = Liquid(walk) + MonthNet(plan, Together(plan, walk))
<1>1. Together(plan, walk) \in SUBSET DOMAIN plan.events
  BY InvFacts, FirstTogether DEF DueIn
<1>2. PICK p \in Plans, w \in Households, net \in Int :
        p = plan /\ w = walk /\ net = MonthNet(plan, Together(plan, walk))
  BY <1>1, InvFacts, MonthTyped
<1>3. NetMonth(plan, walk) = NetCash(p, w, net)
  BY <1>2 DEF NetMonth
<1> QED
  BY <1>2, <1>3, InvFacts, NetMoves

LEMMA NetKeeps == ASSUME ProjectionInv, NetDecisions PROVE ProjectionInv'
<1>1. PICK v : v = NetMonth(plan, walk)
  OBVIOUS
<1>2. Kept(walk, v)
  BY <1>1, NetMonthMoves DEF NetDecisions
<1>3. Household(v) /\ v.applied \subseteq DOMAIN plan.events
  BY <1>2, InvFacts DEF Household, Kept
<1>4. DueIn(plan, v) # {}
  BY <1>2 DEF DueIn, Kept, NetDecisions
<1> QED
  BY <1>1, <1>3, <1>4, WithinYear DEF NetDecisions

LEMMA ApplyKeeps == ASSUME ProjectionInv, ApplyDecision PROVE ProjectionInv'
<1>1. DueIn(plan, walk) # {} /\ plan \in Plans
  BY DEF ProjectionInv, ProjectionTypeOK, ApplyDecision
<1>2. PICK i : i = Min(Together(plan, walk))
  OBVIOUS
<1>3. i \in Together(plan, walk) /\ i \in DueIn(plan, walk) /\ i \in DOMAIN plan.events
  BY <1>1, <1>2, FirstTogether DEF DueIn
<1>4. PICK p \in Plans, w \in Households : p = plan /\ w = walk
  BY InvFacts
<1>5. PICK v : v = Apply(p, w, i)
  OBVIOUS
<1>6. /\ v \in Households /\ v.year = w.year /\ v.applied = w.applied \cup {i} /\ v.gap = w.gap
      /\ OnlyLasting(p) => (Solvent(w) => Solvent(v)) /\ (Matched(w) => Matched(v))
  BY <1>3, <1>4, <1>5, InvFacts, ApplyMoves
<1>7. Household(v) /\ v.applied \subseteq DOMAIN plan.events
  BY <1>3, <1>4, <1>6, InvFacts DEF Household, Positive, Agreeing
<1>8. step' = "decide" \/ (step' = "apply" /\ Cardinality(Together(plan, walk)) # 1)
  BY DEF ApplyDecision
<1>9. step' = "apply" => DueIn(plan, v) # {}
  BY <1>1, <1>3, <1>4, <1>6, <1>8, StillDue
<1>10. walk' = v
  BY <1>2, <1>4, <1>5 DEF ApplyDecision
<1> QED
  BY <1>7, <1>8, <1>9, <1>10, WithinYear DEF ApplyDecision

LEMMA CloseKeeps == ASSUME ProjectionInv, CloseYear PROVE ProjectionInv'
<1>1. PICK v : v = Flow(plan, walk)
  OBVIOUS
<1>2. Household(v) /\ v.applied \subseteq DOMAIN plan.events
  BY <1>1, InvFacts, FlowMoves DEF Household
<1>3. plan.horizon \in Nat /\ plan.today \in Nat /\ walk.year \in Nat
  BY InvFacts, PlansTyped, HouseholdFields DEF PlanTyped, AimTyped
<1>4. PICK u : u = walk'
  OBVIOUS
<1>5. /\ u = (IF walk.year < plan.horizon THEN [v EXCEPT !.year = @ + 1] ELSE v)
      /\ step' = (IF walk.year < plan.horizon THEN "grow" ELSE "ask")
      /\ plan' = plan /\ low' = low /\ high' = high /\ earliest' = earliest /\ months' = months
      /\ step = "decide"
  BY <1>1, <1>4 DEF CloseYear
<1>6. /\ u \in Households /\ u.year \in Years(plan) /\ u.gap = v.gap /\ u.kinds = v.kinds
      /\ u.applied = v.applied /\ u.security = v.security /\ u.productive = v.productive
  <2>1. CASE walk.year < plan.horizon
    <3>1. u = [v EXCEPT !.year = walk.year + 1] /\ v \in Households
      BY <1>2, <1>5, <2>1 DEF Household
    <3>2. u \in Households
      BY <1>3, <3>1 DEF Households
    <3>3. /\ u.year = walk.year + 1 /\ u.gap = v.gap /\ u.kinds = v.kinds
          /\ u.applied = v.applied /\ u.security = v.security /\ u.productive = v.productive
      BY <3>1 DEF Households
    <3>4. u.year \in Years(plan)
      BY <1>3, <2>1, <3>3, InvFacts DEF Years
    <3> QED
      BY <3>2, <3>3, <3>4
  <2>2. CASE ~ (walk.year < plan.horizon)
    BY <1>2, <1>5, <2>2, InvFacts DEF Household
  <2> QED
    BY <2>1, <2>2
<1>7. ProjectionTypeOK'
  BY <1>2, <1>4, <1>5, <1>6 DEF ProjectionInv, ProjectionTypeOK, Steps
<1>8. walk'.gap >= 0 /\ (Positive(plan) => Solvent(walk))' /\ (Agreeing(plan) => Matched(walk))'
  BY <1>2, <1>4, <1>5, <1>6 DEF Household, Positive, Agreeing, Solvent, Matched, OnlyLasting
<1> QED
  BY <1>5, <1>7, <1>8 DEF ProjectionInv, SearchHolds, EarliestRetirement

-----------------------------------------------------------------------------
(* The search *)

LEMMA HouseholdStands ==
  ASSUME ProjectionInv, plan' = plan, walk' = walk, ProjectionTypeOK', SearchHolds', EarliestRetirement',
         step' # "apply", (step \notin {"months", "done"} => earliest = NoYear)'
  PROVE  ProjectionInv'
  BY DEF ProjectionInv, Positive, Agreeing, OnlyLasting, Solvent, Matched

LEMMA AskKeeps == ASSUME ProjectionInv, AskHorizon PROVE ProjectionInv'
<1>1. /\ step = "ask" /\ earliest = NoYear /\ plan \in Plans /\ plan' = plan /\ walk' = walk
      /\ earliest' = earliest /\ months' = months
  BY DEF AskHorizon, ProjectionInv, ProjectionTypeOK
<1>2. plan.today \in Nat /\ plan.horizon \in Nat /\ plan.today <= plan.horizon /\ plan.horizon \in Years(plan)
  BY <1>1, PlansTyped DEF PlanTyped, AimTyped, Years
<1>3. Sustains(Retiring(plan, plan.horizon, 0)) <=> SustainedAt(plan, plan.horizon)
  BY DEF SustainedAt
<1>4. CASE SustainedAt(plan, plan.horizon)
  <2>1. step' = "search" /\ low' = plan.today /\ high' = plan.horizon
    BY <1>3, <1>4 DEF AskHorizon
  <2>2. ProjectionTypeOK'
    BY <1>1, <1>2, <2>1 DEF ProjectionInv, ProjectionTypeOK, Steps
  <2>3. SearchHolds'
    BY <1>1, <1>2, <1>4, <2>1 DEF SearchHolds, Years, SustainedAt
  <2> QED
    BY <1>1, <2>1, <2>2, <2>3, HouseholdStands DEF EarliestRetirement
<1>5. CASE ~ SustainedAt(plan, plan.horizon)
  <2>1. step' = "done" /\ low' = low /\ high' = high
    BY <1>3, <1>5 DEF AskHorizon
  <2>2. ProjectionTypeOK'
    BY <1>1, <2>1 DEF ProjectionInv, ProjectionTypeOK, Steps
  <2>3. OnceForAll(plan) => \A y \in Years(plan) : ~ SustainedAt(plan, y)
    <3> SUFFICES ASSUME OnceForAll(plan), NEW y \in Years(plan), SustainedAt(plan, y) PROVE FALSE
      OBVIOUS
    <3>1. y = plan.horizon \/ y < plan.horizon
      BY <1>2 DEF Years
    <3> QED
      BY <1>2, <1>5, <3>1 DEF OnceForAll
  <2>4. EarliestRetirement'
    BY <1>1, <2>3 DEF EarliestRetirement, OnceForAll, SustainedAt
  <2> QED
    BY <1>1, <2>1, <2>2, <2>4, HouseholdStands DEF SearchHolds
<1> QED
  BY <1>4, <1>5

LEMMA NarrowKeeps == ASSUME ProjectionInv, NarrowYears PROVE ProjectionInv'
<1>1. /\ step = "search" /\ low < high /\ plan' = plan /\ walk' = walk /\ step' = step
      /\ earliest' = earliest /\ months' = months /\ plan \in Plans
  BY DEF NarrowYears, ProjectionInv, ProjectionTypeOK
<1>2. /\ plan.today \in Nat /\ plan.horizon \in Nat /\ low \in Nat /\ high \in Nat
      /\ plan.today <= low /\ high <= plan.horizon
  BY <1>1, PlansTyped DEF PlanTyped, AimTyped, ProjectionInv, ProjectionTypeOK
<1>3. PICK mid \in Nat : mid = (low + high) \div 2
  BY <1>2
<1>4. low <= mid /\ mid < high /\ mid \in Years(plan)
  BY <1>1, <1>2, <1>3 DEF Years
<1>5. SearchHolds /\ ProjectionTypeOK
  BY DEF ProjectionInv
<1>6. CASE SustainedAt(plan, mid)
  <2>1. high' = mid /\ low' = low
    BY <1>3, <1>6 DEF NarrowYears, SustainedAt
  <2>2. ProjectionTypeOK'
    BY <1>1, <1>2, <1>4, <1>5, <2>1 DEF ProjectionTypeOK
  <2>3. SearchHolds'
    BY <1>1, <1>5, <1>6, <2>1 DEF SearchHolds, OnceForAll, SustainedAt
  <2> QED
    BY <1>1, <2>2, <2>3, HouseholdStands DEF EarliestRetirement, ProjectionInv
<1>7. CASE ~ SustainedAt(plan, mid)
  <2>1. low' = mid + 1 /\ high' = high
    BY <1>3, <1>7 DEF NarrowYears, SustainedAt
  <2>2. ProjectionTypeOK'
    BY <1>1, <1>2, <1>4, <1>5, <2>1 DEF ProjectionTypeOK
  <2>3. ASSUME OnceForAll(plan), NEW y \in Years(plan), y < mid + 1 PROVE ~ SustainedAt(plan, y)
    <3>1. y = mid \/ y < mid
      BY <1>2, <1>3, <2>3 DEF Years
    <3> QED
      BY <1>4, <1>7, <2>3, <3>1 DEF OnceForAll
  <2>4. SearchHolds'
    BY <1>1, <1>5, <2>1, <2>3 DEF SearchHolds, OnceForAll, SustainedAt
  <2> QED
    BY <1>1, <2>2, <2>4, HouseholdStands DEF EarliestRetirement, ProjectionInv
<1> QED
  BY <1>6, <1>7

LEMMA FoundKeeps == ASSUME ProjectionInv, FoundYear PROVE ProjectionInv'
<1>1. /\ step = "search" /\ low = high /\ plan' = plan /\ walk' = walk /\ earliest' = low
      /\ months' = months /\ plan \in Plans
  BY DEF FoundYear, ProjectionInv, ProjectionTypeOK
<1>2. /\ plan.today \in Nat \ {0} /\ plan.horizon \in Nat /\ low \in Nat /\ high \in Nat
      /\ plan.today <= low /\ high <= plan.horizon /\ low \in Years(plan)
  BY <1>1, PlansTyped DEF PlanTyped, AimTyped, ProjectionInv, ProjectionTypeOK, Years
<1>3. SearchHolds
  BY DEF ProjectionInv
<1>4. EarliestRetirement'
  <2>1. SustainedAt(plan, low)
    BY <1>1, <1>3 DEF SearchHolds
  <2>2. ASSUME OnceForAll(plan), NEW y \in Years(plan), SustainedAt(plan, y) PROVE low <= y
    BY <1>1, <1>2, <1>3, <2>2 DEF SearchHolds, Years
  <2> QED
    BY <1>1, <1>2, <2>1, <2>2 DEF EarliestRetirement, OnceForAll, SustainedAt, NoYear
<1>5. \/ step' = "done" /\ low' = low /\ high' = high
      \/ step' = "months" /\ low' = 1 /\ high' = LastMonth
  BY DEF FoundYear
<1>6. ProjectionTypeOK'
  BY <1>1, <1>2, <1>5, MonthsAssumption DEF ProjectionInv, ProjectionTypeOK, Steps
<1> QED
  BY <1>1, <1>4, <1>5, <1>6, HouseholdStands DEF SearchHolds

LEMMA NarrowMonthsKeeps == ASSUME ProjectionInv, NarrowMonths PROVE ProjectionInv'
<1>1. /\ step = "months" /\ low < high /\ plan' = plan /\ walk' = walk /\ step' = step
      /\ earliest' = earliest /\ months' = months
  BY DEF NarrowMonths
<1>2. low \in Nat /\ high \in Nat /\ 1 <= low /\ high <= LastMonth /\ LastMonth \in Nat
  BY <1>1, MonthsAssumption DEF ProjectionInv, ProjectionTypeOK
<1>3. PICK mid \in Nat : mid = (low + high) \div 2
  BY <1>2
<1>4. low <= mid /\ mid < high
  BY <1>1, <1>2, <1>3
<1>5. (low' = low /\ high' = mid) \/ (low' = mid + 1 /\ high' = high)
  BY <1>3 DEF NarrowMonths
<1>6. ProjectionTypeOK'
  BY <1>1, <1>2, <1>4, <1>5 DEF ProjectionInv, ProjectionTypeOK
<1> QED
  BY <1>1, <1>6, HouseholdStands DEF SearchHolds, EarliestRetirement, ProjectionInv, OnceForAll, SustainedAt

LEMMA FoundMonthKeeps == ASSUME ProjectionInv, FoundMonth PROVE ProjectionInv'
<1>1. /\ step = "months" /\ low = high /\ plan' = plan /\ walk' = walk /\ step' = "done"
      /\ earliest' = earliest /\ months' = low /\ low' = low /\ high' = high
  BY DEF FoundMonth
<1>2. ProjectionTypeOK'
  BY <1>1, MonthsAssumption DEF ProjectionInv, ProjectionTypeOK, Steps
<1> QED
  BY <1>1, <1>2, HouseholdStands DEF SearchHolds, EarliestRetirement, ProjectionInv, OnceForAll, SustainedAt

-----------------------------------------------------------------------------
(* What holds of every projection *)

LEMMA ProjectionKept == ProjectionInv /\ [ProjectionNext]_projectionVars => ProjectionInv'
<1> SUFFICES ASSUME ProjectionInv, [ProjectionNext]_projectionVars PROVE ProjectionInv'
  OBVIOUS
<1>1. CASE UNCHANGED projectionVars
  BY <1>1 DEF projectionVars, ProjectionInv, ProjectionTypeOK, Positive, Agreeing, OnlyLasting, Solvent, Matched,
     SearchHolds, EarliestRetirement, OnceForAll, SustainedAt, DueIn
<1> QED
  BY <1>1, GrowKeeps, FundKeeps, WithdrawKeeps, NetKeeps, ApplyKeeps, CloseKeeps, AskKeeps, NarrowKeeps,
     FoundKeeps, NarrowMonthsKeeps, FoundMonthKeeps DEF ProjectionNext

LEMMA ProjectionInvariant == ProjectionSpec => []ProjectionInv
<1> QED
  BY InitHolds, ProjectionKept, PTL DEF ProjectionSpec

\* Every step is one of the loops', and every household is made of amounts.
THEOREM ProjectionTypeCorrect == ProjectionSpec => []ProjectionTypeOK
<1>1. ProjectionInv => ProjectionTypeOK
  BY DEF ProjectionInv
<1> QED
  BY <1>1, ProjectionInvariant, PTL

\* While there is a gap there is nothing left that could have closed it (apply_cash_outflow).
THEOREM GapIsLastCorrect == ProjectionSpec => []GapIsLast
<1>1. ProjectionInv => GapIsLast
  BY DEF ProjectionInv, GapIsLast, Positive, Solvent
<1> QED
  BY <1>1, ProjectionInvariant, PTL

\* What is liquid and what is invested stays what Security and Productive are: every step that moves
\* one of them moves the other (calculate_projection, reduce_asset_category).
THEOREM KindsFollowCorrect == ProjectionSpec => []KindsFollow
<1>1. ProjectionInv => KindsFollow
  BY DEF ProjectionInv, KindsFollow, Agreeing, Positive, Matched
<1> QED
  BY <1>1, ProjectionInvariant, PTL

\* The year found is one that is sustained, and the first one if every year after a sustained one is
\* (earliest_sustainable_retirement_year), however long the projection.
THEOREM EarliestCorrect == ProjectionSpec => []EarliestRetirement
<1>1. ProjectionInv => EarliestRetirement
  BY DEF ProjectionInv
<1> QED
  BY <1>1, ProjectionInvariant, PTL

LEMMA StepAccounts == ASSUME ProjectionInv, ProjectionNext PROVE CashStep
<1>1. CASE step = "fund"
  <2>1. walk' = ShareOut(plan, walk)
    BY <1>1 DEF ProjectionNext, GrowYear, FundYear, WithdrawYear, NetDecisions, ApplyDecision, CloseYear,
       AskHorizon, NarrowYears, FoundYear, NarrowMonths, FoundMonth
  <2> QED
    BY <1>1, <2>1, InvFacts, FundMoves DEF CashStep
<1>2. CASE step = "withdraw"
  <2>1. walk' = Withdraw(plan, walk)
    BY <1>2 DEF ProjectionNext, GrowYear, FundYear, WithdrawYear, NetDecisions, ApplyDecision, CloseYear,
       AskHorizon, NarrowYears, FoundYear, NarrowMonths, FoundMonth
  <2> QED
    BY <1>2, <2>1, InvFacts, WithdrawMoves DEF CashStep
<1>3. CASE step = "decide"
  <2>1. NetDecisions \/ CloseYear
    BY <1>3 DEF ProjectionNext, GrowYear, FundYear, WithdrawYear, ApplyDecision,
       AskHorizon, NarrowYears, FoundYear, NarrowMonths, FoundMonth
  <2>2. CASE NetDecisions
    BY <1>3, <2>2, NetMonthMoves DEF NetDecisions, CashStep
  <2>3. CASE CloseYear
    <3>1. PICK v : v = Flow(plan, walk)
      OBVIOUS
    <3>2. /\ v \in Households
          /\ Liquid(v) = Liquid(walk) + plan.flows[walk.year].income - plan.flows[walk.year].purchase
                         - plan.flows[walk.year].outflow
          /\ v.other = walk.other + plan.flows[walk.year].purchase
      BY <3>1, InvFacts, FlowMoves
    <3>3. walk' = v \/ walk' = [v EXCEPT !.year = @ + 1]
      BY <2>3, <3>1 DEF CloseYear
    <3>4. /\ walk'.security = v.security /\ walk'.productive = v.productive
          /\ walk'.gap = v.gap /\ walk'.other = v.other
      BY <3>2, <3>3 DEF Households
    <3>5. step' # "apply"
      BY <2>3 DEF CloseYear
    <3> QED
      BY <1>3, <3>2, <3>4, <3>5 DEF Liquid, CashStep
  <2> QED
    BY <2>1, <2>2, <2>3
<1> QED
  BY <1>1, <1>2, <1>3 DEF CashStep

\* Cash is neither made nor lost, in any year of any plan: what a step takes from one of Security,
\* Productive, the gap or the debts paid it gives to another, but for the surplus, the deficit, the
\* decisions and the flows of the year (calculate_projection).
THEOREM CashCorrect == ProjectionSpec => CashAccounted
<1>1. ProjectionInv /\ [ProjectionNext]_projectionVars => [CashStep]_projectionVars
  BY StepAccounts
<1> QED
  BY <1>1, ProjectionInvariant, PTL DEF ProjectionSpec, CashAccounted

\* The two together, as the run checks them.
THEOREM CapitalCorrect == ProjectionSpec => []CapitalStands
<1>1. GapIsLast /\ KindsFollow <=> CapitalStands
  BY DEF CapitalStands
<1> QED
  BY <1>1, GapIsLastCorrect, KindsFollowCorrect, PTL

-----------------------------------------------------------------------------
(* What the projection starts from: the lines of a scenario *)

SlotSet(e) ==
  [profile : {"term", "structural"}, year : {y \in Nat : y >= e.start}, endYear : Nat,
   first : 1..LastMonth, last : 1..LastMonth]
LEMMA SlotsTyped == ASSUME NEW e \in ScenarioEvent PROVE SlotsOf(e) \subseteq SlotSet(e)
<1>1. LastMonth \in Nat \ {0}
  BY MonthsAssumption
<1>2. /\ e.start \in Nat /\ e.end \in Nat
      /\ e.month \in 1..LastMonth /\ e.endMonth \in 1..LastMonth
  BY DEF ScenarioEvent
<1>3. ASSUME NEW y \in Nat, y >= e.start, NEW a \in 1..LastMonth, NEW b \in 1..LastMonth
      PROVE  YearSlot(y, a, b) \in SlotSet(e) /\ FromThenOn(y) \in SlotSet(e)
  BY <1>1, <1>3 DEF YearSlot, FromThenOn, SlotSet, NoYear
<1>4. 1 \in 1..LastMonth /\ LastMonth \in 1..LastMonth
  BY <1>1
<1>5. CASE e.end = NoYear
  BY <1>2, <1>3, <1>4, <1>5 DEF SlotsOf
<1>6. CASE e.end # NoYear
  <2>1. ASSUME NEW s \in SlotsOf(e) PROVE s \in SlotSet(e)
    <3>1. PICK y \in e.start..e.end :
            s = YearSlot(y, IF y = e.start THEN e.month ELSE 1, IF y = e.end THEN e.endMonth ELSE LastMonth)
      BY <1>6, <2>1 DEF SlotsOf
    <3>2. y \in Nat /\ y >= e.start
      BY <1>2
    <3> QED BY <1>2, <1>3, <1>4, <3>1, <3>2
  <2> QED BY <2>1
<1> QED
  BY <1>5, <1>6

LEMMA TermTyped ==
  ASSUME NEW e \in ScenarioEvent, e.term # 0
  PROVE  OverItsTerm(e) \in ScenarioEvent /\ OverItsTerm(e).start = e.start
<1>1. LastMonth \in Nat \ {0} /\ e.month \in 1..LastMonth /\ e.term \in Nat /\ e.start \in Nat
  BY MonthsAssumption DEF ScenarioEvent
<1>2. PICK t \in Int : t = e.month + e.term * LastMonth - 2
  BY <1>1
<1>3. t \in Nat
  <2>1. PICK k \in Nat : k = e.term * LastMonth
    BY <1>1
  <2>2. k >= 1
    BY <1>1, <2>1
  <2> QED BY <1>1, <1>2, <2>1, <2>2
<1>4. t \div LastMonth \in Nat /\ t % LastMonth \in 0..(LastMonth - 1)
  BY <1>1, <1>3
<1>5. PICK y, m : y = e.start + t \div LastMonth /\ m = (t % LastMonth) + 1
  OBVIOUS
<1>6. y \in Nat /\ m \in 1..LastMonth
  BY <1>1, <1>4, <1>5
<1>7. OverItsTerm(e) = [e EXCEPT !.end = y, !.endMonth = m]
  BY <1>2, <1>5 DEF OverItsTerm
<1> QED
  BY <1>6, <1>7 DEF ScenarioEvent

LineSorts == {"outlay", "financing", "expense", "contribution", "income"}
MonthlyLine(of, kind, role, e) ==
  {l \in Entry : /\ l.of = of /\ l.kind = kind /\ l.role = role /\ l.profile # "one_off" /\ l.year >= e.start
                 /\ ~l.mirror /\ l.group = "plan" /\ l.system = (kind = "expense")}
LEMMA MonthlyTyped ==
  ASSUME NEW e \in ScenarioEvent, NEW i \in Nat, NEW what \in LineSorts, NEW kind \in {"income", "expense"},
         NEW role \in {"operating", "temporary_commitment", "savings", "investment", "other"},
         NEW monthly \in Int
  PROVE  MonthlyEntries(<<i, what>>, kind, role, monthly, e) \subseteq MonthlyLine(<<i, what>>, kind, role, e)
<1> SUFFICES ASSUME NEW l \in MonthlyEntries(<<i, what>>, kind, role, monthly, e)
             PROVE  l \in MonthlyLine(<<i, what>>, kind, role, e)
  OBVIOUS
<1>1. monthly \in Nat
  BY DEF MonthlyEntries
<1>2. PICK s \in SlotSet(e) : l = EntryFor(<<i, what>>, kind, role, monthly * Greater(1, s.last - s.first + 1), s)
  BY SlotsTyped DEF MonthlyEntries
<1>3. s.first \in Int /\ s.last \in Int /\ LastMonth \in Nat \ {0}
  BY MonthsAssumption DEF SlotSet
<1>4. Greater(1, s.last - s.first + 1) \in Nat
  BY <1>3 DEF Greater
<1>5. PICK sum \in Nat : sum = monthly * Greater(1, s.last - s.first + 1)
  BY <1>1, <1>4
<1>6. l = EntryFor(<<i, what>>, kind, role, sum, s)
  BY <1>2, <1>5
<1>7. <<i, what>> \in Nat \X LineSorts
  OBVIOUS
<1>8. /\ s.profile \in {"term", "structural"} /\ s.year \in Nat /\ s.year >= e.start /\ s.endYear \in Nat
      /\ s.first \in 1..LastMonth /\ s.last \in 1..LastMonth /\ 0 \in 0..LastMonth
  BY <1>3 DEF SlotSet
<1>9. PICK system \in BOOLEAN : system = (kind = "expense")
  OBVIOUS
<1>10. l = [of |-> <<i, what>>, kind |-> kind, role |-> role, sum |-> sum, profile |-> s.profile, year |-> s.year,
            endYear |-> s.endYear, first |-> s.first, last |-> s.last, target |-> 0,
            monthly |-> FALSE, mirror |-> FALSE, system |-> system, group |-> "plan"]
  BY <1>6, <1>9 DEF EntryFor, Whenever
<1>11. l \in Entry
  BY <1>7, <1>8, <1>10 DEF Entry, LineSorts
<1> QED
  BY <1>8, <1>9, <1>10, <1>11 DEF MonthlyLine

\* What every line of an event is like.
LineOf(sort, i, e) ==
  {l \in Entry :
     /\ l.of[1] = i /\ l.group = "plan" /\ ~l.mirror /\ l.year >= e.start /\ l.role # "asset_sale"
     /\ l.profile = "one_off" => l.kind = "expense" /\ l.system /\ e.outflow > 0 /\ l.role = OutlayRole(sort)
     /\ l.role = "temporary_commitment" =>
          \/ e.debt > 0 /\ e.term # 0
          \/ e.contribution > 0 /\ e.destination = "debt"}
LEMMA EntriesTyped ==
  ASSUME NEW e \in ScenarioEvent, NEW i \in Nat, NEW sort
  PROVE  EntriesOf(sort, i, e) \subseteq LineOf(sort, i, e)
<1> SUFFICES ASSUME NEW l \in EntriesOf(sort, i, e) PROVE l \in LineOf(sort, i, e)
  OBVIOUS
<1>1. /\ e.outflow \in Nat /\ e.expense \in Int /\ e.contribution \in Nat /\ e.income \in Int
      /\ e.debt \in Nat /\ e.term \in Nat /\ e.start \in Nat /\ e.month \in 1..LastMonth
      /\ e.destination \in {"productive", "security", "debt"} /\ LastMonth \in Nat \ {0}
  BY MonthsAssumption DEF ScenarioEvent
<1>2. CASE l \in OutlayOf(sort, i, e)
  <2>1. e.outflow > 0
    BY <1>1, <1>2 DEF OutlayOf
  <2>2. l = [of |-> <<i, "outlay">>, kind |-> "expense", role |-> OutlayRole(sort), sum |-> e.outflow,
             profile |-> "one_off", year |-> e.start, endYear |-> e.start, first |-> 1, last |-> LastMonth,
             target |-> e.month, monthly |-> FALSE, mirror |-> FALSE, system |-> TRUE, group |-> "plan"]
    <3> DEFINE slot == [YearSlot(e.start, 1, LastMonth) EXCEPT !.profile = "one_off"]
               line == EntryFor(<<i, "outlay">>, "expense", OutlayRole(sort), e.outflow, slot)
    <3>1. slot = [profile |-> "one_off", year |-> e.start, endYear |-> e.start, first |-> 1, last |-> LastMonth]
      BY DEF YearSlot
    <3>2. line = [of |-> <<i, "outlay">>, kind |-> "expense", role |-> OutlayRole(sort), sum |-> e.outflow,
                  profile |-> "one_off", year |-> e.start, endYear |-> e.start, first |-> 1, last |-> LastMonth,
                  target |-> Whenever, monthly |-> FALSE, mirror |-> FALSE, system |-> TRUE, group |-> "plan"]
      BY <3>1 DEF EntryFor
    <3>3. l = [line EXCEPT !.target = e.month]
      BY <1>1, <1>2, <2>1 DEF OutlayOf
    <3> HIDE DEF line
    <3> QED BY <3>2, <3>3
  <2>3. OutlayRole(sort) \in {"asset_purchase", "operating"}
    BY DEF OutlayRole
  <2>4. <<i, "outlay">> \in Nat \X LineSorts /\ <<i, "outlay">>[1] = i
    BY DEF LineSorts
  <2>5. e.month \in 0..LastMonth /\ 1 \in 1..LastMonth /\ LastMonth \in 1..LastMonth
    BY <1>1
  <2>6. l \in Entry
    BY <1>1, <2>2, <2>3, <2>4, <2>5 DEF Entry, LineSorts
  <2> QED BY <1>1, <2>1, <2>2, <2>3, <2>4, <2>6 DEF LineOf
<1>3. CASE l \in FinancingEntries(i, e)
  <2>1. e.debt > 0 /\ e.term # 0
    BY <1>1, <1>3 DEF FinancingEntries
  <2>2. e.term * LastMonth \in Nat \ {0}
    BY <1>1, <2>1
  <2>3. Instalment(e) \in Int
    BY <1>1, <2>2, Halves DEF Instalment
  <2>4. OverItsTerm(e) \in ScenarioEvent /\ OverItsTerm(e).start = e.start
    BY <2>1, TermTyped
  <2>5. PICK o : o = OverItsTerm(e)
    OBVIOUS
  <2>6. l \in MonthlyEntries(<<i, "financing">>, "expense", "temporary_commitment", Instalment(e), o)
    BY <1>3, <2>1, <2>5 DEF FinancingEntries
  <2>7. l \in MonthlyLine(<<i, "financing">>, "expense", "temporary_commitment", o) /\ o.start = e.start
    BY <2>3, <2>4, <2>5, <2>6, MonthlyTyped DEF LineSorts
  <2> QED BY <2>1, <2>7 DEF MonthlyLine, LineOf
<1>4. CASE l \in MonthlyEntries(<<i, "expense">>, "expense", "operating", e.expense, e)
  <2>1. l \in MonthlyLine(<<i, "expense">>, "expense", "operating", e)
    BY <1>1, <1>4, MonthlyTyped DEF LineSorts
  <2> QED BY <2>1 DEF MonthlyLine, LineOf
<1>5. CASE l \in MonthlyEntries(<<i, "contribution">>, "expense", ContributionRole(e), e.contribution, e)
  <2>1. /\ ContributionRole(e) \in {"savings", "temporary_commitment", "investment"}
        /\ ContributionRole(e) = "temporary_commitment" => e.destination = "debt"
    BY <1>1 DEF ContributionRole
  <2>2. PICK role \in {"savings", "temporary_commitment", "investment"} : role = ContributionRole(e)
    BY <2>1
  <2>3. l \in MonthlyEntries(<<i, "contribution">>, "expense", role, e.contribution, e)
    BY <1>5, <2>2
  <2>4. l \in MonthlyLine(<<i, "contribution">>, "expense", role, e)
    <3>1. role \in {"operating", "temporary_commitment", "savings", "investment", "other"}
      BY <2>2
    <3>2. PICK c \in Int : c = e.contribution
      BY <1>1
    <3>3. "contribution" \in LineSorts /\ "expense" \in {"income", "expense"}
      BY DEF LineSorts
    <3>4. MonthlyEntries(<<i, "contribution">>, "expense", role, c, e)
            \subseteq MonthlyLine(<<i, "contribution">>, "expense", role, e)
      BY <3>1, <3>3, MonthlyTyped
    <3> QED BY <2>3, <3>2, <3>4
  <2>5. e.contribution > 0
    BY <1>1, <1>5 DEF MonthlyEntries
  <2> QED BY <2>1, <2>2, <2>4, <2>5 DEF MonthlyLine, LineOf
<1>6. CASE l \in MonthlyEntries(<<i, "income">>, "income", "other", e.income, e)
  <2>1. l \in MonthlyLine(<<i, "income">>, "income", "other", e)
    BY <1>1, <1>6, MonthlyTyped DEF LineSorts
  <2> QED BY <2>1 DEF MonthlyLine, LineOf
<1> QED
  BY <1>2, <1>3, <1>4, <1>5, <1>6 DEF EntriesOf

-----------------------------------------------------------------------------
(* What stays true of the lines *)

\* A line that belongs to the decision
DecisionLine(l) ==
  /\ l.of[1] \in Events /\ stage # "draft" /\ l.role # "asset_sale"
  /\ l.profile = "one_off" => l.kind = "expense" /\ l.system
  /\ stage = "planned" => l \in LineOf(simulated.sort, l.of[1], simulated.events[l.of[1]])
InputsInv ==
  /\ clock \in [year : 1..LastClock, month : 1..LastMonth]
  /\ since \in [year : 1..LastClock, month : 1..LastMonth]
  /\ simulated \in Simulations /\ stage \in {"draft", "planned", "occurred"}
  /\ IsEstate(estate) /\ (stage # "occurred" => estate \in Estates)
  /\ \A l \in entries : l \in Entry /\ (l \in HouseEntry \/ DecisionLine(l))

LEMMA EventsOfScenario ==
  ASSUME simulated \in Simulations
  PROVE  /\ Events \subseteq Nat \ {0}
         /\ \A i \in Events : simulated.events[i] \in ScenarioEvent
<1>1. simulated.events \in Seq(ScenarioEvent)
  BY InputsAssumption
<1>2. DOMAIN simulated.events = 1..Len(simulated.events) /\ Len(simulated.events) \in Nat
  BY <1>1
<1> QED
  BY <1>1, <1>2 DEF Events

LEMMA ScenarioLines ==
  ASSUME simulated \in Simulations, NEW l \in ScenarioEntries
  PROVE  /\ l \in Entry /\ l.of[1] \in Events
         /\ l \in LineOf(simulated.sort, l.of[1], simulated.events[l.of[1]])
<1>1. PICK i \in Events : l \in EntriesOf(simulated.sort, i, simulated.events[i])
  BY DEF ScenarioEntries
<1>2. i \in Nat /\ simulated.events[i] \in ScenarioEvent
  BY EventsOfScenario
<1>3. l \in LineOf(simulated.sort, i, simulated.events[i])
  BY <1>1, <1>2, EntriesTyped
<1>4. l \in Entry /\ l.of[1] = i
  BY <1>3 DEF LineOf
<1> QED
  BY <1>3, <1>4

LEMMA InputsBegin == InputsInit => InputsInv
<1>1. LastClock \in Nat \ {0} /\ LastMonth \in Nat \ {0}
  BY InputsAssumption, MonthsAssumption
<1>2. 1 \in 1..LastClock /\ 1 \in 1..LastMonth
  BY <1>1
<1> QED
  BY <1>2, InputsAssumption DEF InputsInit, InputsInv, HouseEntry

LEMMA MonthKeeps == ASSUME InputsInv, MonthEnded PROVE InputsInv'
<1>1. clock' \in [year : 1..LastClock, month : 1..LastMonth]
  <2>1. /\ LastClock \in Nat \ {0} /\ LastMonth \in Nat \ {0}
        /\ clock.year \in 1..LastClock /\ clock.month \in 1..LastMonth
    BY InputsAssumption, MonthsAssumption DEF InputsInv
  <2>2. CASE clock.month < LastMonth
    <3>1. PICK m : m = clock.month + 1
      OBVIOUS
    <3>2. m \in 1..LastMonth
      BY <2>1, <2>2, <3>1
    <3>3. clock' = [clock EXCEPT !.month = m]
      BY <2>2, <3>1 DEF MonthEnded
    <3> QED BY <3>2, <3>3 DEF InputsInv
  <2>3. CASE ~(clock.month < LastMonth)
    <3>1. PICK y : y = clock.year + 1
      OBVIOUS
    <3>2. y \in 1..LastClock /\ 1 \in 1..LastMonth
      BY <2>1, <2>3, <3>1 DEF MonthEnded
    <3>3. clock' = [year |-> y, month |-> 1]
      BY <2>3, <3>1 DEF MonthEnded
    <3> QED BY <3>2, <3>3
  <2> QED BY <2>2, <2>3
<1> QED
  BY <1>1 DEF MonthEnded, InputsInv, DecisionLine, Events

LEMMA AcceptKeeps == ASSUME InputsInv, AcceptSimulation PROVE InputsInv'
<1>1. ASSUME NEW l \in entries' PROVE l \in Entry /\ (l \in HouseEntry \/ DecisionLine(l)')
  <2>1. CASE l \in entries
    BY <2>1 DEF InputsInv, AcceptSimulation, DecisionLine
  <2>2. CASE l \in ScenarioEntries
    <3>1. simulated \in Simulations
      BY DEF InputsInv
    <3>2. /\ l \in Entry /\ l.of[1] \in Events
          /\ l \in LineOf(simulated.sort, l.of[1], simulated.events[l.of[1]])
      BY <2>2, <3>1, ScenarioLines
    <3>3. l.role # "asset_sale" /\ (l.profile = "one_off" => l.kind = "expense" /\ l.system)
      BY <3>2 DEF LineOf
    <3> QED BY <3>2, <3>3 DEF AcceptSimulation, DecisionLine, Events
  <2> QED BY <1>1, <2>1, <2>2 DEF AcceptSimulation
<1> QED
  BY <1>1 DEF AcceptSimulation, InputsInv

\* What a decision buys and borrows is added to what there is, under names of its own.
LEMMA NewEstateTyped ==
  ASSUME simulated \in Simulations, estate \in Estates
  PROVE  IsEstate(WithNew(estate))
<1>1. PICK h : h = WithNew(estate)
  OBVIOUS
<1>2. /\ h.assets = estate.assets \cup {NewAsset(i) : i \in Buying}
      /\ h.debts = estate.debts \cup {NewDebt(i) : i \in Borrowing}
  BY <1>1 DEF WithNew
<1>3. IsEstate(estate) /\ \A a \in estate.assets : a.name[1] = 0
  BY InputsAssumption
<1>4. IsFiniteSet(h.assets) /\ IsFiniteSet(h.debts)
  <2>1. IsFiniteSet(Events)
    <3>1. simulated.events \in Seq(ScenarioEvent)
      BY InputsAssumption
    <3>2. DOMAIN simulated.events = 1..Len(simulated.events) /\ Len(simulated.events) \in Nat
      BY <3>1
    <3> QED BY <3>2, FS_Interval DEF Events
  <2>2. IsFiniteSet(Buying) /\ IsFiniteSet(Borrowing)
    BY <2>1, FS_Subset DEF Buying, Borrowing
  <2>3. IsFiniteSet({NewAsset(i) : i \in Buying})
    <3>1. PICK f, T : f = [i \in Buying |-> NewAsset(i)] /\ T = {NewAsset(i) : i \in Buying}
      OBVIOUS
    <3>2. T = {f[i] : i \in Buying}
      BY <3>1
    <3> QED BY <2>2, <3>1, <3>2, FiniteImage
  <2>4. IsFiniteSet({NewDebt(i) : i \in Borrowing})
    <3>1. PICK f, T : f = [i \in Borrowing |-> NewDebt(i)] /\ T = {NewDebt(i) : i \in Borrowing}
      OBVIOUS
    <3>2. T = {f[i] : i \in Borrowing}
      BY <3>1
    <3> QED BY <2>2, <3>1, <3>2, FiniteImage
  <2>5. PICK A, D : A = {NewAsset(i) : i \in Buying} /\ D = {NewDebt(i) : i \in Borrowing}
    OBVIOUS
  <2>6. IsFiniteSet(estate.assets \cup A)
    BY <1>3, <2>3, <2>5, FS_Union DEF IsEstate
  <2>7. IsFiniteSet(estate.debts \cup D)
    BY <1>3, <2>4, <2>5, FS_Union DEF IsEstate
  <2> QED BY <1>2, <2>5, <2>6, <2>7
<1>5. ASSUME NEW i \in Events
      PROVE  /\ NewAsset(i).name = <<i, "asset">> /\ <<i, "asset">> # Nowhere
             /\ i # 0 /\ NewAsset(i).worth \in Int /\ NewAsset(i).use \in Functions
             /\ NewDebt(i).owed \in Int
             /\ NewDebt(i).on = IF i \in Buying THEN <<i, "asset">> ELSE Nowhere
  <2>1. simulated.events[i] \in ScenarioEvent /\ i \in Nat \ {0}
    BY EventsOfScenario
  <2>2. simulated.events[i].asset \in Nat /\ simulated.events[i].assetFor \in Functions /\ simulated.events[i].debt \in Nat
    BY <2>1 DEF ScenarioEvent
  <2>3. <<i, "asset">>[1] = i /\ Nowhere[1] = 0
    BY DEF Nowhere
  <2>4. <<i, "asset">> # Nowhere
    BY <2>1, <2>3
  <2>5. PICK o : o = simulated.events[i]
    OBVIOUS
  <2>6. /\ NewAsset(i).name = <<i, "asset">> /\ NewAsset(i).worth = o.asset /\ NewAsset(i).use = o.assetFor
        /\ NewDebt(i).owed = o.debt /\ NewDebt(i).on = IF i \in Buying THEN <<i, "asset">> ELSE Nowhere
    BY <2>5 DEF NewAsset, NewDebt
  <2> QED BY <2>1, <2>2, <2>4, <2>5, <2>6
<1>6. ASSUME NEW a \in h.assets
      PROVE  /\ a.name # Nowhere /\ a.worth \in Int /\ a.use \in Functions \cup {NoUse}
  <2>1. CASE a \in estate.assets
    BY <1>3, <2>1 DEF IsEstate
  <2>2. CASE \E i \in Buying : a = NewAsset(i)
    BY <1>5, <2>2 DEF Buying
  <2> QED BY <1>2, <1>6, <2>1, <2>2
<1>7. ASSUME NEW a \in h.assets, NEW b \in h.assets, a.name = b.name PROVE a = b
  <2>1. CASE a \in estate.assets /\ b \in estate.assets
    BY <1>3, <1>7, <2>1 DEF IsEstate
  <2>2. ASSUME NEW i \in Buying PROVE NewAsset(i).name[1] = i /\ i # 0
    <3>1. NewAsset(i).name = <<i, "asset">> /\ i # 0
      BY <1>5 DEF Buying
    <3> QED BY <3>1
  <2>3. CASE \E i, j \in Buying : a = NewAsset(i) /\ b = NewAsset(j)
    BY <1>7, <2>2, <2>3
  <2>4. CASE \E i \in Buying : a = NewAsset(i) /\ b \in estate.assets
    BY <1>3, <1>7, <2>2, <2>4
  <2>5. CASE \E i \in Buying : b = NewAsset(i) /\ a \in estate.assets
    BY <1>3, <1>7, <2>2, <2>5
  <2> QED BY <1>2, <1>7, <2>1, <2>3, <2>4, <2>5
<1>8. ASSUME NEW d \in h.debts
      PROVE  d.owed \in Int /\ d.on \in {a.name : a \in h.assets} \cup {Nowhere}
  <2>1. CASE d \in estate.debts
    BY <1>2, <1>3, <2>1 DEF IsEstate
  <2>2. CASE \E i \in Borrowing : d = NewDebt(i)
    <3>1. PICK i \in Events : d = NewDebt(i)
      BY <2>2 DEF Borrowing
    <3>2. CASE i \in Buying
      BY <1>2, <1>5, <3>1, <3>2
    <3>3. CASE i \notin Buying
      BY <1>5, <3>1, <3>3
    <3> QED BY <3>2, <3>3
  <2> QED BY <1>2, <1>8, <2>1, <2>2
<1> QED
  BY <1>1, <1>4, <1>6, <1>7, <1>8 DEF IsEstate

LEMMA RealKeeps == ASSUME InputsInv, MakeReal PROVE InputsInv'
<1> DEFINE kept == {l \in entries : l.group = "plan" => l.of[2] # "financing"}
<1>1. ASSUME NEW l \in entries' PROVE l \in Entry /\ (l \in HouseEntry \/ DecisionLine(l)')
  <2>1. CASE l \in HandedBack(kept)
    <3>1. PICK o \in entries : l = [o EXCEPT !.group = IF o.group = "plan" THEN "none" ELSE o.group]
      BY <2>1 DEF HandedBack
    <3>2. PICK g : g = IF o.group = "plan" THEN "none" ELSE o.group
      OBVIOUS
    <3>3. o \in Entry /\ g \in {"none", "sale", "plan", "liability"} /\ g # "plan" /\ l = [o EXCEPT !.group = g]
      BY <3>1, <3>2 DEF InputsInv, Entry
    <3>4. /\ l \in Entry /\ l.of = o.of /\ l.group = g /\ l.role = o.role /\ l.profile = o.profile
          /\ l.kind = o.kind /\ l.system = o.system
      BY <3>3 DEF Entry
    <3>5. CASE o \in HouseEntry
      BY <3>3, <3>4, <3>5 DEF HouseEntry
    <3>6. CASE DecisionLine(o)
      BY <3>4, <3>6 DEF DecisionLine, MakeReal, Events
    <3> QED BY <3>1, <3>4, <3>5, <3>6 DEF InputsInv
  <2>2. CASE l \in LiabilityEntries
    <3>1. PICK i \in Events :
            \E o \in FinancingEntries(i, [simulated.events[i] EXCEPT !.start = clock.year, !.month = clock.month]) :
              l = [o EXCEPT !.mirror = TRUE, !.group = "liability"]
      BY <2>2 DEF LiabilityEntries, Borrowing
    <3>2. simulated \in Simulations
      BY DEF InputsInv
    <3>3. i \in Nat /\ simulated.events[i] \in ScenarioEvent
      BY <3>2, EventsOfScenario
    <3>4. clock.year \in Nat \ {0} /\ clock.month \in 1..LastMonth
      BY InputsAssumption DEF InputsInv
    <3>5. PICK e : e = [simulated.events[i] EXCEPT !.start = clock.year, !.month = clock.month]
      OBVIOUS
    <3>6. e \in ScenarioEvent
      BY <3>3, <3>4, <3>5 DEF ScenarioEvent
    <3>7. PICK o \in FinancingEntries(i, e) : l = [o EXCEPT !.mirror = TRUE, !.group = "liability"]
      BY <3>1, <3>5
    <3>8. o \in LineOf("generic", i, e)
      BY <3>3, <3>6, <3>7, EntriesTyped DEF EntriesOf
    <3>9. o \in Entry /\ o.of[1] = i /\ o.role # "asset_sale" /\ (o.profile = "one_off" => o.kind = "expense" /\ o.system)
      BY <3>8 DEF LineOf
    <3>10. /\ l \in Entry /\ l.of = o.of /\ l.role = o.role /\ l.profile = o.profile
           /\ l.kind = o.kind /\ l.system = o.system
      BY <3>7, <3>9 DEF Entry
    <3> QED BY <3>1, <3>9, <3>10 DEF DecisionLine, MakeReal, Events
  <2> QED BY <1>1, <2>1, <2>2 DEF MakeReal
<1>2. IsEstate(estate')
  BY NewEstateTyped DEF MakeReal, InputsInv
<1> QED
  BY <1>1, <1>2 DEF MakeReal, InputsInv

LEMMA CallOffKeeps == ASSUME InputsInv, CallOff PROVE InputsInv'
<1>1. ASSUME NEW l \in entries' PROVE l \in HouseEntry
  <2>1. l \in entries /\ l.group # "plan" /\ stage = "planned"
    BY <1>1 DEF CallOff
  <2>2. ~DecisionLine(l)
    BY <2>1 DEF DecisionLine, LineOf
  <2> QED BY <2>1, <2>2 DEF InputsInv
<1> QED
  BY <1>1 DEF CallOff, InputsInv, HouseEntry

LEMMA InputsKept == InputsInv /\ [InputsNext]_inputVars => InputsInv'
<1>1. ASSUME InputsInv, UNCHANGED inputVars PROVE InputsInv'
  BY <1>1 DEF inputVars, InputsInv, DecisionLine, Events
<1> QED
  BY <1>1, MonthKeeps, AcceptKeeps, RealKeeps, CallOffKeeps DEF InputsNext

LEMMA InputsInvariant == InputsSpec => []InputsInv
  BY InputsBegin, InputsKept, PTL DEF InputsSpec

\* The lines of the budget are lines, and what belongs to the decision belongs to one of its
\* events and is there only while it is foreseen or real.
THEOREM InputsTypeCorrect == InputsSpec => []InputsTypeOK
<1>1. InputsInv => InputsTypeOK
  <2>1. SUFFICES ASSUME InputsInv, NEW l \in entries, l.of[1] # 0
                 PROVE  stage # "draft" /\ l.of[1] \in Events
    BY DEF InputsInv, InputsTypeOK
  <2> QED BY <2>1 DEF InputsInv, HouseEntry, DecisionLine
<1> QED
  BY <1>1, InputsInvariant, PTL

\* Of a decision that is foreseen no amount has two ways into the projection, and what it pays at
\* once is never a flow of the budget, for any scenario, budget and calendar: the lines it made are
\* marked as its own, or as made by the system once they are handed back.
THEOREM NeverBothCorrect == InputsSpec => []NeverBothWays
<1> SUFFICES ASSUME InputsInv PROVE NeverBothWays
  BY InputsInvariant, PTL
<1>1. simulated \in Simulations /\ clock.year \in Nat
  BY DEF InputsInv
<1>2. ASSUME NEW l \in entries, l \notin OwnEntries PROVE DecisionLine(l)
  BY <1>2 DEF InputsInv, HouseEntry, OwnEntries
<1>3. ASSUME NEW y \in clock.year..Aim.horizon, NEW l \in Received(entries, y) \cup Spent(entries, y)
      PROVE  l \in OwnEntries
  <2>1. /\ l \in entries /\ l.profile = "one_off"
        /\ (l.kind = "income" \/ (l.kind = "expense" /\ ~l.system))
    BY <1>3 DEF Received, Spent, StillComing, IncomeEntries, ExpenseEntries
  <2>2. ~DecisionLine(l)
    BY <2>1 DEF DecisionLine
  <2> QED BY <1>2, <2>1, <2>2
<1>4. ASSUME stage = "planned", InBothWays, NEW l \in CommitmentsOf(entries, Foreseen) PROVE l \in OwnEntries
  <2> SUFFICES ASSUME l \notin OwnEntries PROVE FALSE
    OBVIOUS
  <2>1. l \in entries /\ l.role = "temporary_commitment" /\ ~ServedByDebt(Foreseen, l)
    BY <1>4 DEF CommitmentsOf, WithRole, ExpenseEntries
  <2>2. DecisionLine(l)
    BY <1>2, <2>1
  <2>3. PICK i \in Events : l \in LineOf(simulated.sort, i, simulated.events[i])
    BY <1>4, <2>2 DEF DecisionLine
  <2>4. /\ l.group = "plan"
        /\ \/ simulated.events[i].debt > 0
           \/ simulated.events[i].contribution > 0 /\ simulated.events[i].destination = "debt"
    BY <2>1, <2>3 DEF LineOf
  <2>5. simulated.events[i].contribution = 0 \/ simulated.events[i].destination # "debt"
    BY <1>4 DEF InBothWays
  <2>6. simulated.events[i].debt > 0
    BY <2>4, <2>5
  <2> QED BY <1>4, <2>1, <2>4, <2>6 DEF ServedByDebt, Foreseen, Events
<1>5. ASSUME stage = "planned", \A i \in Events : simulated.events[i].start > clock.year,
             NEW l \in Regular(entries) \cup Daily(entries)
                       \cup Directing(entries, Foreseen, "savings") \cup Directing(entries, Foreseen, "investment")
      PROVE  l \in OwnEntries
  <2> SUFFICES ASSUME l \notin OwnEntries PROVE FALSE
    OBVIOUS
  <2>1. l \in entries
    BY <1>5 DEF Regular, Daily, Directing, WithRole, IncomeEntries, ExpenseEntries, InForceNow
  <2>2. DecisionLine(l)
    BY <1>2, <2>1
  <2>3. PICK i \in Events : l \in LineOf(simulated.sort, i, simulated.events[i])
    BY <1>5, <2>2 DEF DecisionLine
  <2>4. l.group = "plan" /\ ~l.mirror /\ l.year >= simulated.events[i].start /\ l.year \in Nat
    BY <2>3 DEF LineOf, Entry
  <2>5. simulated.events[i].start \in Nat /\ simulated.events[i].start > clock.year
    BY <1>1, <1>5, EventsOfScenario DEF ScenarioEvent
  <2>6. ~Applies(l, clock.year)
    BY <1>1, <2>4, <2>5 DEF Applies
  <2>7. l \in Directing(entries, Foreseen, "savings") \cup Directing(entries, Foreseen, "investment")
    BY <1>5, <2>6 DEF Regular, Daily, WithRole, IncomeEntries, ExpenseEntries, InForceNow
  <2>8. \E j \in Events : simulated.events[j].start <= clock.year
    BY <1>5, <2>4, <2>7 DEF Directing, Foreseen, Events
  <2>9. \A j \in Events : simulated.events[j].start \in Nat
    BY <1>1, EventsOfScenario DEF ScenarioEvent
  <2> QED BY <1>1, <1>5, <2>8, <2>9
<1>6. ASSUME stage = "planned", \A i \in Events : simulated.events[i].start <= clock.year,
             NEW y \in clock.year..Aim.horizon
      PROVE  OwnIn([events |-> PayloadsOf(Foreseen)], y) = {}
  <2>1. Foreseen = simulated.events
    BY <1>6 DEF Foreseen
  <2>2. \A i \in Events : simulated.events[i] \in ScenarioEvent
    BY <1>1, EventsOfScenario
  <2>3. \A i \in Events : PayloadsOf(Foreseen)[i].absorbed = TRUE
    BY <1>6, <2>1, <2>2 DEF PayloadsOf, Absorbed, Events, ScenarioEvent
  <2>4. DOMAIN PayloadsOf(Foreseen) = Events
    BY <2>1 DEF PayloadsOf, Events
  <2> QED BY <2>3, <2>4 DEF OwnIn, ForceIn
<1> QED
  BY <1>3, <1>4, <1>5, <1>6 DEF NeverBothWays

-----------------------------------------------------------------------------
(* What the household owns, by function and by category *)

Worths == [a \in estate.assets |-> a.worth]
Nets == [a \in estate.assets |-> NetOf(a)]
Owing == [d \in estate.debts |-> d.owed]
OwedOnAny(U) == {d \in estate.debts : \E a \in U : d.on = a.name}

LEMMA EstateTyped ==
  ASSUME IsEstate(estate)
  PROVE  /\ \A U \in SUBSET estate.assets :
              IsFiniteSet(U) /\ SumFunctionOnSet(Worths, U) \in Int
         /\ \A V \in SUBSET estate.debts :
              IsFiniteSet(V) /\ OwedIn(V) = SumFunctionOnSet(Owing, V) /\ OwedIn(V) \in Int
         /\ \A a \in estate.assets :
              /\ OwedOn(a) = SumFunctionOnSet(Owing, {d \in estate.debts : d.on = a.name})
              /\ Worths[a] \in Int /\ Nets[a] = Worths[a] - OwedOn(a) /\ OwedOn(a) \in Int /\ Nets[a] \in Int
<1>2. /\ \A a \in estate.assets : Worths[a] \in Int /\ Worths[a] = a.worth
      /\ \A d \in estate.debts : Owing[d] \in Int /\ Owing[d] = d.owed
  BY DEF IsEstate, Worths, Owing
<1>3. /\ \A U \in SUBSET estate.assets : IsFiniteSet(U)
      /\ \A V \in SUBSET estate.debts : IsFiniteSet(V)
  BY FS_Subset DEF IsEstate
<1>4. ASSUME NEW U \in SUBSET estate.assets PROVE SumFunctionOnSet(Worths, U) \in Int
  BY <1>2, <1>3, SumInt
<1>5. ASSUME NEW V \in SUBSET estate.debts PROVE OwedIn(V) = SumFunctionOnSet(Owing, V) /\ OwedIn(V) \in Int
  <2>1. PICK f : f = [d \in V |-> d.owed]
    OBVIOUS
  <2>2. \A d \in V : f[d] = Owing[d] /\ Owing[d] \in Int
    BY <1>2, <2>1
  <2>3. SumFunctionOnSet(f, V) = SumFunctionOnSet(Owing, V) /\ SumFunctionOnSet(Owing, V) \in Int
    BY <1>3, <2>2, SumSame, SumInt
  <2> QED BY <2>1, <2>3 DEF OwedIn, Over
<1>6. ASSUME NEW a \in estate.assets
      PROVE  /\ OwedOn(a) = SumFunctionOnSet(Owing, {d \in estate.debts : d.on = a.name})
             /\ Worths[a] \in Int /\ Nets[a] = Worths[a] - OwedOn(a) /\ OwedOn(a) \in Int /\ Nets[a] \in Int
  <2>1. PICK V \in SUBSET estate.debts : V = {d \in estate.debts : d.on = a.name}
    OBVIOUS
  <2>2. OwedOn(a) = OwedIn(V)
    BY <2>1 DEF OwedOn, OwedIn
  <2>3. OwedIn(V) = SumFunctionOnSet(Owing, V) /\ OwedIn(V) \in Int
    BY <1>5
  <2>4. Nets[a] = a.worth - OwedOn(a)
    BY DEF Nets, NetOf
  <2> QED BY <1>2, <2>1, <2>2, <2>3, <2>4
<1> QED
  BY <1>3, <1>4, <1>5, <1>6

\* Positions are worth what they are less what is owed on them, added up.
LEMMA NetsAddUp ==
  ASSUME IsEstate(estate), NEW U \in SUBSET estate.assets
  PROVE  /\ SumFunctionOnSet(Nets, U) \in Int
         /\ SumFunctionOnSet(Nets, U) = SumFunctionOnSet(Worths, U) - OwedIn(OwedOnAny(U))
<1> DEFINE bad == {W \in SUBSET U : SumFunctionOnSet(Nets, W) # SumFunctionOnSet(Worths, W) - OwedIn(OwedOnAny(W))}
<1>1. ASSUME bad # {} PROVE FALSE
  <2>1. bad \in SUBSET SUBSET U /\ IsFiniteSet(U)
    BY EstateTyped
  <2> HIDE DEF bad
  <2>2. PICK W \in bad : \A x \in W : W \ {x} \notin bad
    BY <1>1, <2>1, SmallestSet
  <2>3. /\ W \in SUBSET U /\ W \in SUBSET estate.assets
        /\ SumFunctionOnSet(Nets, W) # SumFunctionOnSet(Worths, W) - OwedIn(OwedOnAny(W))
    BY <2>2 DEF bad
  <2>4. W # {}
    <3>1. ASSUME W = {} PROVE FALSE
      <4>1. OwedOnAny(W) = {}
        BY <3>1 DEF OwedOnAny
      <4>2. OwedIn({}) = 0
        BY EstateTyped, SumEmpty
      <4> QED BY <2>3, <3>1, <4>1, <4>2, SumEmpty
    <3> QED BY <3>1
  <2>5. PICK x \in W : TRUE
    BY <2>4
  <2>6. PICK R : R = W \ {x}
    OBVIOUS
  <2>7. R \in SUBSET U /\ R \in SUBSET estate.assets /\ R \notin bad /\ x \in estate.assets
    BY <2>2, <2>3, <2>5, <2>6
  <2>8. SumFunctionOnSet(Nets, R) = SumFunctionOnSet(Worths, R) - OwedIn(OwedOnAny(R))
    BY <2>7 DEF bad
  <2>9. \A a \in W : Nets[a] \in Int /\ Worths[a] \in Int
    BY <2>3, EstateTyped
  <2>10. IsFiniteSet(W)
    BY <2>3, EstateTyped
  <2>11. SumFunctionOnSet(Nets, W) = Nets[x] + SumFunctionOnSet(Nets, R)
    BY <2>5, <2>6, <2>9, <2>10, SumRemove
  <2>12. SumFunctionOnSet(Worths, W) = Worths[x] + SumFunctionOnSet(Worths, R)
    BY <2>5, <2>6, <2>9, <2>10, SumRemove
  <2>13. PICK V, T : V = OwedOnAny(W) /\ T = {d \in estate.debts : d.on = x.name}
    OBVIOUS
  <2>14. V \in SUBSET estate.debts /\ T \in SUBSET V /\ V \ T = OwedOnAny(R)
    <3>1. \A a \in R : a.name # x.name
      BY <2>6, <2>7, EstateTyped DEF IsEstate
    <3> QED BY <2>5, <2>6, <2>13, <3>1 DEF OwedOnAny
  <2>15. IsFiniteSet(V) /\ \A d \in V : Owing[d] \in Int
    <3>1. \A d \in estate.debts : d.owed \in Int
      BY EstateTyped DEF IsEstate
    <3> QED BY <2>14, <3>1, EstateTyped DEF Owing
  <2>16. SumFunctionOnSet(Owing, V) = SumFunctionOnSet(Owing, T) + SumFunctionOnSet(Owing, V \ T)
    BY <2>14, <2>15, SumSplit
  <2>17. OwedOn(x) = SumFunctionOnSet(Owing, T) /\ OwedOn(x) \in Int /\ Nets[x] = Worths[x] - OwedOn(x) /\ Worths[x] \in Int
    BY <2>7, <2>13, EstateTyped
  <2>18. /\ OwedIn(V) = SumFunctionOnSet(Owing, V)
         /\ OwedIn(V \ T) = SumFunctionOnSet(Owing, V \ T) /\ OwedIn(V \ T) \in Int
    <3>1. V \ T \in SUBSET estate.debts
      BY <2>14
    <3> QED BY <2>14, <3>1, EstateTyped
  <2>19. SumFunctionOnSet(Worths, R) \in Int
    BY <2>7, EstateTyped
  <2>20. PICK a \in Int, b \in Int, c \in Int, w \in Int :
           a = Worths[x] /\ b = OwedOn(x) /\ c = OwedIn(V \ T) /\ w = SumFunctionOnSet(Worths, R)
    BY <2>17, <2>18, <2>19
  <2>21. SumFunctionOnSet(Nets, W) = (a - b) + (w - c)
    BY <2>8, <2>11, <2>14, <2>17, <2>20
  <2>22. SumFunctionOnSet(Worths, W) = a + w /\ OwedIn(OwedOnAny(W)) = b + c
    BY <2>12, <2>13, <2>16, <2>17, <2>18, <2>20
  <2> QED BY <2>3, <2>21, <2>22
<1>2. U \in SUBSET U /\ U \notin bad
  BY <1>1
<1>3. SumFunctionOnSet(Nets, U) \in Int
  BY EstateTyped, SumInt
<1> QED
  BY <1>2, <1>3

LEMMA UsesTyped ==
  ASSUME IsEstate(estate), NEW a \in estate.assets
  PROVE  UseOf(a) \in Functions /\ CategoryKind(a) \in AssetKinds
<1>1. a.use \in Functions \cup {NoUse}
  BY EstateTyped DEF IsEstate
<1>2. InferredUse(a) \in Functions
  BY DEF InferredUse, Functions
<1>3. CategoryKind(a) \in AssetKinds
  BY DEF CategoryKind, AssetKinds
<1> QED
  BY <1>1, <1>2, <1>3 DEF UseOf

\* The functions share out all positions, less what is owed on them.
LEMMA FunctionsAddUp ==
  ASSUME IsEstate(estate)
  PROVE  /\ UsedAs({"productive"}) + UsedAs({"security"}) + UsedAs({"family_use", "short_term_goal", "unknown"})
             + OwedIn({d \in estate.debts : d.on # Nowhere})
             = SumFunctionOnSet(Worths, estate.assets)
         /\ \A uses : UsedAs(uses) \in Int
<1> DEFINE A == estate.assets
           In(uses) == {a \in A : UseOf(a) \in uses}
<1>1. ASSUME NEW uses PROVE UsedAs(uses) = SumFunctionOnSet(Nets, In(uses)) /\ UsedAs(uses) \in Int
  <2>1. PICK S \in SUBSET A : S = In(uses)
    OBVIOUS
  <2>2. PICK f : f = [a \in S |-> NetOf(a)]
    OBVIOUS
  <2>3. IsFiniteSet(S) /\ \A a \in S : f[a] = Nets[a] /\ Nets[a] \in Int
    BY <2>2, EstateTyped DEF Nets
  <2>4. SumFunctionOnSet(f, S) = SumFunctionOnSet(Nets, S) /\ SumFunctionOnSet(Nets, S) \in Int
    BY <2>3, SumSame, SumInt
  <2> QED BY <2>1, <2>2, <2>4 DEF UsedAs, Over
<1>2. PICK P, Q, R : P = In({"productive"}) /\ Q = In({"security"}) /\ R = In({"family_use", "short_term_goal", "unknown"})
  OBVIOUS
<1>3. /\ P \in SUBSET A /\ Q \in SUBSET (A \ P) /\ (A \ P) \ Q = R
      /\ IsFiniteSet(A) /\ IsFiniteSet(A \ P) /\ \A a \in A : Nets[a] \in Int
  <2>1. \A a \in A : UseOf(a) \in Functions
    BY UsesTyped
  <2>2. IsFiniteSet(A) /\ IsFiniteSet(A \ P) /\ \A a \in A : Nets[a] \in Int
    BY EstateTyped
  <2> QED BY <1>2, <2>1, <2>2 DEF Functions
<1>4. SumFunctionOnSet(Nets, A) = SumFunctionOnSet(Nets, P) + SumFunctionOnSet(Nets, A \ P)
  BY <1>3, SumSplit
<1>5. SumFunctionOnSet(Nets, A \ P) = SumFunctionOnSet(Nets, Q) + SumFunctionOnSet(Nets, R)
  BY <1>3, SumSplit
<1>6. SumFunctionOnSet(Nets, A) = SumFunctionOnSet(Worths, A) - OwedIn(OwedOnAny(A))
  BY NetsAddUp
<1>7. OwedOnAny(A) = {d \in estate.debts : d.on # Nowhere}
  BY EstateTyped DEF OwedOnAny, IsEstate
<1>8. OwedIn(OwedOnAny(A)) \in Int /\ SumFunctionOnSet(Worths, A) \in Int
  BY EstateTyped DEF OwedOnAny
<1>9. /\ UsedAs({"productive"}) = SumFunctionOnSet(Nets, P) /\ UsedAs({"productive"}) \in Int
      /\ UsedAs({"security"}) = SumFunctionOnSet(Nets, Q) /\ UsedAs({"security"}) \in Int
      /\ UsedAs({"family_use", "short_term_goal", "unknown"}) = SumFunctionOnSet(Nets, R)
      /\ UsedAs({"family_use", "short_term_goal", "unknown"}) \in Int
  BY <1>1, <1>2
<1>10. /\ UsedAs({"productive"}) + UsedAs({"security"}) + UsedAs({"family_use", "short_term_goal", "unknown"})
           + OwedIn({d \in estate.debts : d.on # Nowhere})
           = SumFunctionOnSet(Worths, estate.assets)
  BY <1>4, <1>5, <1>6, <1>7, <1>8, <1>9
<1> QED
  BY <1>1, <1>10

\* The categories share out all positions, whole.
LEMMA CategoriesAddUp ==
  ASSUME IsEstate(estate)
  PROVE  WorthOf(KindTotals, AssetKinds) = SumFunctionOnSet(Worths, estate.assets)
<1> DEFINE A == estate.assets
           Of(K) == {a \in A : CategoryKind(a) \in K}
           bad == {K \in SUBSET AssetKinds : SumFunctionOnSet(KindTotals, K) # SumFunctionOnSet(Worths, Of(K))}
<1>1. IsFiniteSet(AssetKinds)
  <2>1. AssetKinds = {"liquidity"} \cup {"investments"} \cup {"realEstate"} \cup {"furnishings"} \cup {"rest"}
    BY DEF AssetKinds
  <2> QED BY <2>1, FS_Singleton, FS_Union
<1>2. ASSUME NEW k \in AssetKinds
      PROVE  KindTotals[k] = SumFunctionOnSet(Worths, Of({k})) /\ KindTotals[k] \in Int
  <2>1. PICK S \in SUBSET A : S = Of({k})
    OBVIOUS
  <2>2. PICK f : f = [a \in S |-> a.worth]
    OBVIOUS
  <2>3. IsFiniteSet(S) /\ \A a \in S : f[a] = Worths[a] /\ Worths[a] \in Int
    BY <2>2, EstateTyped DEF Worths
  <2>4. SumFunctionOnSet(f, S) = SumFunctionOnSet(Worths, S) /\ SumFunctionOnSet(Worths, S) \in Int
    BY <2>3, SumSame, SumInt
  <2>5. S = {a \in estate.assets : CategoryKind(a) = k}
    BY <2>1
  <2>6. KindTotals[k] = SumFunctionOnSet(f, S)
    BY <2>2, <2>5 DEF KindTotals, Over
  <2> QED BY <2>1, <2>4, <2>6
<1>3. ASSUME bad # {} PROVE FALSE
  <2>1. bad \in SUBSET SUBSET AssetKinds
    OBVIOUS
  <2> HIDE DEF bad
  <2>2. PICK K \in bad : \A k \in K : K \ {k} \notin bad
    BY <1>1, <1>3, <2>1, SmallestSet
  <2>3. K \in SUBSET AssetKinds /\ SumFunctionOnSet(KindTotals, K) # SumFunctionOnSet(Worths, Of(K))
    BY <2>2 DEF bad
  <2>4. K # {}
    <3>1. Of({}) = {}
      OBVIOUS
    <3> QED BY <2>3, <3>1, SumEmpty
  <2>5. PICK k \in K : TRUE
    BY <2>4
  <2>6. PICK L : L = K \ {k}
    OBVIOUS
  <2>7. SumFunctionOnSet(KindTotals, L) = SumFunctionOnSet(Worths, Of(L))
    BY <2>2, <2>3, <2>5, <2>6 DEF bad
  <2>8. IsFiniteSet(K)
    BY <1>1, <2>3, FS_Subset
  <2>9. SumFunctionOnSet(KindTotals, K) = KindTotals[k] + SumFunctionOnSet(KindTotals, L)
    BY <1>2, <2>3, <2>5, <2>6, <2>8, SumRemove
  <2>10. PICK S, T : S = Of(K) /\ T = Of({k})
    OBVIOUS
  <2>11. T \in SUBSET S /\ S \ T = Of(L) /\ S \in SUBSET A
    BY <2>5, <2>6, <2>10
  <2>12. IsFiniteSet(S) /\ \A a \in S : Worths[a] \in Int
    BY <2>11, EstateTyped
  <2>13. SumFunctionOnSet(Worths, S) = SumFunctionOnSet(Worths, T) + SumFunctionOnSet(Worths, S \ T)
    BY <2>11, <2>12, SumSplit
  <2>14. KindTotals[k] = SumFunctionOnSet(Worths, T)
    BY <1>2, <2>3, <2>5, <2>10
  <2> QED BY <2>3, <2>7, <2>9, <2>10, <2>11, <2>13, <2>14
<1>4. AssetKinds \notin bad
  BY <1>3
<1>5. Of(AssetKinds) = A
  BY UsesTyped
<1> QED
  BY <1>4, <1>5 DEF WorthOf, Over

LEMMA FiveKinds ==
  ASSUME NEW f \in [AssetKinds -> Int]
  PROVE  WorthOf(f, AssetKinds) = f["rest"] + (f["furnishings"] + (f["realEstate"] + (f["investments"] + f["liquidity"])))
<1> DEFINE S1 == {} \cup {"liquidity"}
           S2 == S1 \cup {"investments"}
           S3 == S2 \cup {"realEstate"}
           S4 == S3 \cup {"furnishings"}
           S5 == S4 \cup {"rest"}
<1>1. /\ IsFiniteSet({}) /\ IsFiniteSet(S1) /\ IsFiniteSet(S2) /\ IsFiniteSet(S3) /\ IsFiniteSet(S4)
  BY FS_EmptySet, FS_AddElement
<1>2. S5 = AssetKinds /\ \A x \in S5 : f[x] \in Int
  BY DEF AssetKinds
<1>3. SumFunctionOnSet(f, S1) = f["liquidity"] + 0
  BY <1>1, <1>2, SumAdd, SumEmpty
<1>4. SumFunctionOnSet(f, S2) = f["investments"] + SumFunctionOnSet(f, S1)
  BY <1>1, <1>2, SumAdd
<1>5. SumFunctionOnSet(f, S3) = f["realEstate"] + SumFunctionOnSet(f, S2)
  BY <1>1, <1>2, SumAdd
<1>6. SumFunctionOnSet(f, S4) = f["furnishings"] + SumFunctionOnSet(f, S3)
  BY <1>1, <1>2, SumAdd
<1>7. SumFunctionOnSet(f, S5) = f["rest"] + SumFunctionOnSet(f, S4)
  BY <1>1, <1>2, SumAdd
<1>8. f["liquidity"] \in Int
  BY DEF AssetKinds
<1> HIDE DEF S1, S2, S3, S4, S5
<1> QED
  BY <1>2, <1>3, <1>4, <1>5, <1>6, <1>7, <1>8 DEF WorthOf, Over

\* What the projection starts from is one wealth: the functions, less what is owed on positions, and
\* the categories hold the same, for any positions and debts.
THEOREM WealthOnceCorrect == InputsSpec => []WealthOnce
<1> SUFFICES ASSUME InputsInv PROVE WealthOnce
  BY InputsInvariant, PTL
<1>1. IsEstate(estate)
  BY DEF InputsInv
<1>2. PICK p : p = WithIt
  OBVIOUS
<1>3. /\ p.productive = UsedAs({"productive"}) /\ p.security = UsedAs({"security"})
      /\ p.other = UsedAs({"family_use", "short_term_goal", "unknown"})
      /\ p.tied = OwedIn({d \in estate.debts : d.on # Nowhere}) /\ p.kinds = KindTotals
  BY <1>2 DEF WithIt, Inputs
<1>4. {p.productive, p.security, p.other, p.tied} \subseteq Int
  <2>1. p.tied \in Int
    BY <1>1, <1>3, EstateTyped
  <2> QED BY <1>1, <1>3, <2>1, FunctionsAddUp
<1>5. CASE WorthOf(p.kinds, AssetKinds) # 0
  <2>1. OpeningKinds(p) = p.kinds
    BY <1>5 DEF OpeningKinds
  <2> QED BY <1>1, <1>2, <1>3, <2>1, FunctionsAddUp, CategoriesAddUp DEF WealthOnce
<1>6. CASE WorthOf(p.kinds, AssetKinds) = 0
  <2>1. PICK f : f = OpeningKinds(p)
    OBVIOUS
  <2>2. f = [k \in AssetKinds |-> CASE k = "liquidity" -> p.security [] k = "investments" -> p.productive
                                   [] k = "rest" -> p.other + p.tied [] OTHER -> 0]
    BY <1>6, <2>1 DEF OpeningKinds
  <2>3. /\ f["liquidity"] = p.security /\ f["investments"] = p.productive /\ f["rest"] = p.other + p.tied
        /\ f["realEstate"] = 0 /\ f["furnishings"] = 0 /\ f \in [AssetKinds -> Int]
    BY <1>4, <2>2 DEF AssetKinds
  <2>4. WorthOf(f, AssetKinds) = (p.other + p.tied) + (0 + (0 + (p.productive + p.security)))
    BY <2>3, FiveKinds
  <2> QED BY <1>2, <1>4, <2>1, <2>4 DEF WealthOnce
<1> QED
  BY <1>5, <1>6

\* What the projection is made from is read once, whatever becomes of the decision: no amount of it
\* by two ways, and one wealth by function and by category.
THEOREM ReadOnceCorrect == InputsSpec => []ReadOnce
  BY NeverBothCorrect, WealthOnceCorrect, PTL DEF ReadOnce
=============================================================================
