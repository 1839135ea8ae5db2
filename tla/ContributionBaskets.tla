------------------------ MODULE ContributionBaskets ------------------------
(***************************************************************************)
(* New money shared out over a portfolio by its policy, kept as a basket   *)
(* to review and booked line by line (backend/portfolio/allocation.py,     *)
(* decision_data.py).  Nothing is locked: a request that confirms reads    *)
(* everything first and commits what it books at the end; one that         *)
(* discards writes the basket and its lines in two steps.                  *)
(*                                                                         *)
(* Amounts are whole cents.  A policy's shares are whole parts of Parts,   *)
(* so that targets and gaps are exact as integers over Whole, as they are  *)
(* as decimals in the code.                                                *)
(***************************************************************************)
EXTENDS Integers, Sequences, FiniteSetsExt, SequencesExt

CONSTANTS
  Funds,           \* positions of the scope, in the order of their identities
  ClassOf,         \* position -> its asset class
  ContainerOf,     \* position -> its container
  Purses,          \* containers with a cash account of the scope
  Rule,            \* position -> its rule
  Parts,           \* the whole of a policy, or of a class, in parts
  PolicyVersions,  \* versions of the policy
  Commitments,     \* what has to be contributed, to a position or to a container
  Earlier,         \* position -> contributed this year before this month
  MonthsLeft,      \* of the year, this one included
  BasketAmounts, Sources,           \* bound: what a basket may be of, and come from
  OpeningWorths, OpeningBank,       \* bound: what there is at first
  WorthMoves,                       \* bound: <<position, new value>>
  Clients,                          \* requests that may run at once
  MaxBaskets, MaxHappenings         \* bounds

Bank == "bank"
Nowhere == "nowhere"     \* no account is named
Cash == 0                \* the key of the cash held back by policy

\* A policy shares the whole among classes, and in a class among positions; what it tolerates
\* of costs is a fraction.
IsTarget(f) == \A k \in DOMAIN f : f[k] \in 0..Parts
IsPolicy(v) ==
  /\ IsTarget(v.classes) /\ IsTarget(v.own) /\ DOMAIN v.own \subseteq Funds
  /\ v.minLine \in Nat /\ v.maxCost[1] \in 0..v.maxCost[2]
\* One commitment for each position, or container, and period.
IsCommitment(cm) ==
  /\ cm.kind \in {"position", "container"} /\ cm.period \in {"month", "year"}
  /\ cm.amount \in Nat \ {0} /\ cm.breach \in Nat
  /\ \A other \in Commitments :
       other.kind = cm.kind /\ other.to = cm.to /\ other.period = cm.period => other = cm
Rules == [minimum : Nat, step : Nat, cost : Nat, movable : BOOLEAN, excluded : BOOLEAN]

ASSUME FundsAssumption ==
  /\ Cash \notin Funds /\ Parts \in Nat \ {0} /\ MonthsLeft \in 1..12
  /\ \A v \in PolicyVersions : IsPolicy(v)
  /\ \A cm \in Commitments : IsCommitment(cm)
  /\ \A p \in Funds : Rule[p] \in Rules

VARIABLES
  policy,         \* the version in force
  worth,          \* position -> its value
  balances,       \* account -> its balance
  given,          \* position -> new money contributed this month
  outdated,          \* positions whose valuation is out of date
  baskets,        \* basket -> what it proposes and what became of it
  clients,        \* request -> what it is doing
  happenings,
  registered,         \* purchases registered this day: <<position, account, amount>>
  timesBooked,       \* history: <<basket, line>> -> times it was booked
  overlapped      \* history: baskets whose requests ran beside others

basketVars ==
  <<policy, worth, balances, given, outdated, baskets, clients, happenings, registered, timesBooked, overlapped>>

Accounts == {Bank} \union Purses
AtRest == [at |-> "rest"]

BasketInit ==
  /\ policy \in PolicyVersions
  /\ worth \in OpeningWorths
  /\ balances = [a \in Accounts |-> IF a = Bank THEN OpeningBank ELSE 0]
  /\ given = [p \in Funds |-> 0]
  /\ outdated = {}
  /\ baskets = <<>>
  /\ clients = [c \in Clients |-> AtRest]
  /\ happenings = 0
  /\ registered = {}
  /\ timesBooked = <<>>
  /\ overlapped = {}

Total(f, S) == MapThenSumSet(LAMBDA x : f[x], S)

\* Op(x), with x worked out once.
Once(Op(_), x) == CHOOSE y \in {Op(value) : value \in {x}} : TRUE

Larger(a, b) == IF a > b THEN a ELSE b
Smaller(a, b) == IF a < b THEN a ELSE b

-----------------------------------------------------------------------------
(* Targets *)

Members(k) == {p \in Funds : ClassOf[p] = k}
Planned == {k \in DOMAIN policy.classes : k # "cash" /\ Members(k) # {}}
Declared(k) == {p \in Members(k) : p \in DOMAIN policy.own}
Inheriting(k) == Members(k) \ Declared(k)
Unclaimed(k) == Larger(Parts - Total(policy.own, Declared(k)), 0)

\* What is not declared goes by present weight or, in a class still empty, to what can be
\* moved without tax.
Weight(p, k) ==
  IF Total(worth, Inheriting(k)) > 0 THEN worth[p]
  ELSE IF \E q \in Inheriting(k) : Rule[q].movable THEN (IF Rule[p].movable THEN 1 ELSE 0)
  ELSE 1
Weights(k) ==
  IF Inheriting(k) = {} THEN 1 ELSE MapThenSumSet(LAMBDA p : Weight(p, k), Inheriting(k))

AllWeights == FoldSet(LAMBDA k, product : Weights(k) * product, 1, Planned)
Whole == Parts * Parts * AllWeights

\* The share of a position in the whole portfolio, out of Whole.
Target(p) ==
  LET k == ClassOf[p] IN
  IF k \notin Planned THEN 0
  ELSE IF p \in Declared(k) THEN policy.classes[k] * policy.own[p] * AllWeights
  ELSE policy.classes[k] * Unclaimed(k) * Weight(p, k) * (AllWeights \div Weights(k))

CashTarget == IF "cash" \in DOMAIN policy.classes THEN policy.classes["cash"] * Parts * AllWeights ELSE 0

-----------------------------------------------------------------------------
(* Who can receive, and how much is missing up to its target *)

Internal(source) == source \in Purses
CashValue == Total(balances, Purses)
PortfolioValue == Total(worth, Funds) + CashValue
ValueAfter(amount, source) == PortfolioValue + (IF Internal(source) THEN 0 ELSE amount)

Eligible == {p \in Funds : ~ Rule[p].excluded /\ Target(p) > 0}

\* Gaps and targets are out of Whole.
Candidate(p, after) ==
  [gap |-> Larger(Target(p) * after - Whole * worth[p], 0), target |-> Target(p),
   movable |-> Rule[p].movable, step |-> Rule[p].step,
   minimum |-> IF Rule[p].minimum > 0 THEN Rule[p].minimum ELSE policy.minLine,
   waits |-> ContainerOf[p] \in Purses]

\* The cash the policy holds back competes like any other.
CashCandidate(amount, source) ==
  LET kept == IF Internal(source) THEN CashValue - amount ELSE CashValue IN
  [gap |-> Larger(CashTarget * ValueAfter(amount, source) - Whole * kept, 0), target |-> CashTarget,
   movable |-> FALSE, step |-> 0, minimum |-> 0, waits |-> FALSE]

Candidates(amount, source) ==
  [k \in Eligible \union (IF CashTarget > 0 THEN {Cash} ELSE {}) |->
     IF k = Cash THEN CashCandidate(amount, source) ELSE Candidate(k, ValueAfter(amount, source))]

-----------------------------------------------------------------------------
(* Commitments come first *)

\* Rounded down to the step of a position; rounded to the cent, halves to the even one.
Down(num, den, step) == IF step > 0 THEN (num \div (den * step)) * step ELSE num \div den
HalfEven(num, den) ==
  LET q == num \div den  r == 2 * (num % den) IN IF r > den \/ (r = den /\ q % 2 = 1) THEN q + 1 ELSE q
Upwards(num, den) == (num + den - 1) \div den

Add(f, k, x) ==
  IF x <= 0 THEN f ELSE IF k \in DOMAIN f THEN [f EXCEPT ![k] = @ + x] ELSE (k :> x) @@ f

MembersOf(cm) == IF cm.kind = "position" THEN {cm.to} ELSE {p \in Funds : ContainerOf[p] = cm.to}
Done(cm) ==
  Total(given, MembersOf(cm)) + (IF cm.period = "year" THEN Total(Earlier, MembersOf(cm)) ELSE 0)
Outstanding(cm) == Larger(cm.amount - Done(cm), 0)

\* A yearly quota is claimed month by month.
Claim(cm) == IF cm.period = "year" THEN Upwards(Outstanding(cm), MonthsLeft) ELSE Outstanding(cm)

Claims(kind, source) ==
  IF Internal(source) THEN {} ELSE {cm \in Commitments : cm.kind = kind /\ Outstanding(cm) > 0}
ClaimOf(claims, p) ==
  CHOOSE cm \in claims : cm.to = p /\ \A other \in claims : other.to = p => Claim(other) <= Claim(cm)
Claimants(claims, c) == {p \in DOMAIN c \ {Cash} : \E cm \in claims : cm.to = p}

\* Those that cost the same to break share what there is; their shares are worked out before
\* the first is served.
ServeTier(c, claims, s, breach) ==
  LET tier == {p \in Claimants(claims, c) : ClaimOf(claims, p).breach = breach}
      wanted == MapThenSumSet(LAMBDA p : Claim(ClaimOf(claims, p)), tier)
      serve(r, p) ==
        LET claim == Claim(ClaimOf(claims, p))
            portion == IF s.budget >= wanted THEN claim ELSE HalfEven(s.budget * claim, wanted)
            take == Down(Smaller(portion, r.budget), 1, c[p].step)
        IN [budget |-> r.budget - take, committed |-> Add(r.committed, p, take)]
  IN FoldLeft(serve, s, SetToSortSeq(tier, <))

ServePositions(c, claims, budget) ==
  FoldLeft(LAMBDA s, breach : ServeTier(c, claims, s, breach),
           [budget |-> budget, committed |-> <<>>],
           SetToSortSeq({ClaimOf(claims, p).breach : p \in Claimants(claims, c)}, >))

\* What is left of the budget to a container's floor, by what its positions lack of their
\* quotas or targets; the last one gets what rounding left.
ServeFloor(c, claims, s, floor) ==
  LET held(p) == IF p \in DOMAIN s.committed THEN s.committed[p] ELSE 0
      members == {p \in DOMAIN c \ {Cash} : ContainerOf[p] = floor.to}
      missing == Smaller(Claim(floor) - MapThenSumSet(held, members), s.budget)
      room(p) == IF p \in Claimants(claims, c) THEN Whole * (Outstanding(ClaimOf(claims, p)) - held(p))
                 ELSE c[p].gap
      weights == [p \in members |-> Larger(room(p), 0)]
      weight == IF Total(weights, members) > 0 THEN weights ELSE [p \in members |-> 1]
      serve(r, p) ==
        LET share == IF p = Max(members) THEN missing - (s.budget - r.budget)
                     ELSE HalfEven(missing * weight[p], Total(weight, members))
            take == Larger(Down(Smaller(share, r.budget), 1, c[p].step), 0)
        IN [budget |-> r.budget - take, committed |-> Add(r.committed, p, take)]
  IN IF members = {} \/ missing <= 0 THEN s ELSE FoldLeft(serve, s, SetToSortSeq(members, <))

ServeFloors(c, claims, floors, s) ==
  FoldLeft(LAMBDA r, floor : ServeFloor(c, claims, r, floor), s,
           SetToSortSeq(floors, LAMBDA a, b : a.breach > b.breach))

-----------------------------------------------------------------------------
(* The rest follows the policy *)

Gaps(c, S) == MapThenSumSet(LAMBDA k : c[k].gap, S)

\* Whether a proportional part, never beyond the gap, stays below the minimum; and that part.
BelowMinimum(c, k, budget, S) ==
  \/ budget * c[k].gap < c[k].minimum * Gaps(c, S)
  \/ c[k].gap < c[k].minimum * Whole
Portion(c, k, budget, S, step) ==
  Smaller(Down(budget * c[k].gap, Gaps(c, S), step), Down(c[k].gap, Whole, step))

\* A fault: what waits is also given to the others.
LeftWithWaiting(budget, kept) == budget

LeftAfterWaiting(budget, kept) == budget - Total(kept, DOMAIN kept)

\* Who does not reach its minimum is set apart: its part waits in the cash of its container or,
\* where there is none, goes back to the others.
SetApart(c, s) ==
  LET low == {k \in s.open : BelowMinimum(c, k, s.budget, s.open)}
      kept == [k \in {l \in low : c[l].waits /\ Portion(c, l, s.budget, s.open, 0) > 0} |->
                 Portion(c, k, s.budget, s.open, 0)]
  IN IF s.open = {} \/ s.budget <= 0 \/ low = {} THEN s
     ELSE [open |-> s.open \ low, budget |-> LeftAfterWaiting(s.budget, kept),
           waiting |-> kept @@ s.waiting]

MaxRedistributions == 12

SetAside(c, budget) ==
  FoldLeft(LAMBDA s, n : SetApart(c, s),
           [open |-> {k \in DOMAIN c : c[k].gap > 0}, budget |-> budget, waiting |-> <<>>],
           [n \in 1..MaxRedistributions |-> n])

Placed(c, s) ==
  LET part(k) == Portion(c, k, s.budget, s.open, c[k].step)
      those == IF s.budget <= 0 THEN {}
               ELSE {k \in s.open : part(k) > 0 /\ part(k) >= c[k].minimum}
  IN [k \in those |-> part(k)]

\* Where money goes once the gaps are closed.
OpenSlots(c, s, placed) ==
  IF DOMAIN placed # {} THEN DOMAIN placed
  ELSE {k \in DOMAIN c : c[k].minimum <= 0 /\ k \notin DOMAIN s.waiting}

\* What is left goes to the open ones by their targets.
Spread(c, placed, slots, left) ==
  LET targets == MapThenSumSet(LAMBDA k : c[k].target, slots) IN
  IF left <= 0 \/ targets = 0 THEN placed
  ELSE FoldSet(LAMBDA k, f : Add(f, k, Down(left * c[k].target, targets, c[k].step)), placed, slots)

\* The cents that rounding leaves go to one of them: movable first, then the widest gap.
Before(c, j, k) ==
  LET rank(l) == <<IF c[l].movable THEN 0 ELSE 1, - c[l].gap, IF l = Cash THEN 1 ELSE 0, l>>
  IN \E n \in 1..4 : rank(j)[n] < rank(k)[n] /\ \A m \in 1..(n - 1) : rank(j)[m] = rank(k)[m]
LastCents(c, placed, slots, left) ==
  LET free == {k \in slots : c[k].step = 0} IN
  IF left <= 0 \/ free = {} THEN placed
  ELSE Add(placed, CHOOSE k \in free : \A l \in free \ {k} : Before(c, k, l), left)

GivenOut(c, s) ==
  LET left(f) == s.budget - Total(f, DOMAIN f)
      first == Placed(c, s)
      slots == OpenSlots(c, s, first)
      second == Spread(c, first, slots, left(first))
  IN [placed |-> LastCents(c, second, slots, left(second)), waiting |-> s.waiting]

Distribute(c, budget) ==
  IF budget <= 0 THEN [placed |-> <<>>, waiting |-> <<>>]
  ELSE Once(LAMBDA s : GivenOut(c, s), SetAside(c, budget))

-----------------------------------------------------------------------------
(* A proposal *)

Only(f, S) == [k \in DOMAIN f \intersect S |-> f[k]]
Sum2(f, g) == FoldSet(LAMBDA k, h : Add(h, k, g[k]), f, DOMAIN g)

Complete == FoldSet(LAMBDA k, n : policy.classes[k] + n, 0, DOMAIN policy.classes) = Parts
Doubtful == {p \in outdated : worth[p] # 0} \union {a \in Purses : balances[a] < 0}
Funded(source, amount) == source = Nowhere \/ balances[source] >= amount
Blocked(amount, source) == ~ Complete \/ Doubtful # {} \/ ~ Funded(source, amount)

\* A yearly quota is a ceiling too.
Capped == {cm.to : cm \in {d \in Commitments : d.kind = "position" /\ d.period = "year"}}

Uneconomic(p, amount) == Rule[p].cost * policy.maxCost[2] > policy.maxCost[1] * amount

ByClass ==
  [k \in {ClassOf[p] : p \in Funds} \union {"cash"} |->
     IF k = "cash" THEN CashValue ELSE Total(worth, Members(k))]

\* What a commitment asks for comes first, and the rest is distributed.
Served(c, amount, source) ==
  LET claims == Claims("position", source)
  IN ServeFloors(c, claims, Claims("container", source), ServePositions(c, claims, amount))

\* What is proposed, and what it was worked out from: the review compares both.
Arranged(amount, source, s, d) ==
  LET all == Sum2(d.placed, s.committed)
      lines == Only(all, {p \in DOMAIN all \ {Cash} :
                            p \in DOMAIN s.committed \/ ~ Uneconomic(p, all[p])})
      reserved == IF Cash \in DOMAIN all THEN all[Cash] ELSE 0
  IN [lines |-> lines, waiting |-> d.waiting, reserved |-> reserved, committed |-> s.committed,
      leftover |-> amount - reserved - Total(lines, DOMAIN lines) - Total(d.waiting, DOMAIN d.waiting),
      ready |-> reserved = 0 \/ Internal(source) \/ Purses # {},
      seen |-> [policy |-> policy, byClass |-> ByClass, cash |-> Only(balances, Purses),
                source |-> source,
                available |-> IF source = Nowhere THEN 0 ELSE balances[source]]]

Proposal(amount, source) ==
  Once(LAMBDA c :
         Once(LAMBDA s :
                Arranged(amount, source, s, Distribute(Only(c, DOMAIN c \ Capped), s.budget)),
              Served(c, amount, source)),
       Candidates(amount, source))

-----------------------------------------------------------------------------
(* Baskets *)

Buys(S) == {<<"buy", p>> : p \in S}

\* What waits or is reserved is moved to a purse, unless it is there already.
ReservePurse == CHOOSE a \in Purses : TRUE
LinesOf(pr, source) ==
  LET waits == {p \in DOMAIN pr.waiting : ContainerOf[p] # source}
      reserve == IF pr.reserved > 0 /\ ~ Internal(source) THEN {<<"reserve", ReservePurse>>} ELSE {}
  IN [l \in Buys(DOMAIN pr.lines) \union {<<"wait", p>> : p \in waits} \union reserve |->
        IF l[1] = "buy" THEN pr.lines[l[2]] ELSE IF l[1] = "wait" THEN pr.waiting[l[2]] ELSE pr.reserved]

\* What a review signs.
Token(pr) == [pr EXCEPT !.committed = <<>>]

Draft(pr, amount, source) ==
  LET sums == LinesOf(pr, source)
  IN [amount |-> amount, source |-> source, token |-> Token(pr), status |-> "draft",
      sums |-> sums, line |-> [l \in DOMAIN sums |-> "pending"]]

Pending(basket) == {l \in DOMAIN basket.line : basket.line[l] = "pending"}

\* Only what was just reviewed is kept; it touches no account.
CreateBasket(amount, source) ==
  /\ Len(baskets) < MaxBaskets
  /\ ~ Blocked(amount, source)
  /\ \E pr \in {Proposal(amount, source)} :
       /\ pr.ready
       /\ baskets' = Append(baskets, Draft(pr, amount, source))
  /\ UNCHANGED <<policy, worth, balances, given, outdated, clients, happenings, registered, timesBooked, overlapped>>

Cost(l) == IF l[1] = "buy" THEN Rule[l[2]].cost ELSE 0
Spent(b, chosen) == MapThenSumSet(LAMBDA l : baskets[b].sums[l] + Cost(l), chosen)
From(b, source) == IF source = Nowhere THEN baskets[b].source ELSE source

\* The proposal is worked out again: it has to be the one that was reviewed.
Reviewed(b, source) ==
  /\ baskets[b].status = "draft"
  /\ From(b, source) # Nowhere
  /\ Doubtful = {}
  /\ Token(Proposal(baskets[b].amount, From(b, source))) = baskets[b].token
Affords(b, chosen, source) == balances[From(b, source)] >= Spent(b, chosen)

Busy == {c \in Clients : clients[c].at # "rest"}
Begin(c, b, doing) ==
  /\ clients' = [clients EXCEPT ![c] = doing]
  /\ overlapped' = IF Busy = {} THEN overlapped
                   ELSE overlapped \union {b} \union {clients[d].basket : d \in Busy}

\* A request reads everything it checks before it books anything.
ReadConfirm(c, b, source) ==
  /\ clients[c] = AtRest
  /\ Reviewed(b, source)
  /\ \E chosen \in (SUBSET Pending(baskets[b])) \ {{}} :
       /\ Affords(b, chosen, source)
       /\ Begin(c, b, [at |-> "confirm", basket |-> b, chosen |-> chosen, source |-> From(b, source)])
  /\ UNCHANGED <<policy, worth, balances, given, outdated, baskets, happenings, registered, timesBooked>>

\* The widest lines are booked first.
Kinds == <<"buy", "wait", "reserve">>
Ahead(sums, k, l) ==
  \/ sums[k] > sums[l]
  \/ sums[k] = sums[l] /\ (IF k[1] = l[1] THEN k[2] < l[2]
                           ELSE \E i, j \in 1..3 : i < j /\ Kinds[i] = k[1] /\ Kinds[j] = l[1])

Registers(r) == {<<l[2], r.source, baskets[r.basket].sums[l]>> : l \in {m \in r.chosen : m[1] = "buy"}}

\* A purchase looks at the account again and is registered once a day; one that is refused
\* takes the others back with it.
CanBook(r) ==
  /\ Registers(r) \intersect registered = {}
  /\ \A l \in {m \in r.chosen : m[1] = "buy"} :
       balances[r.source] >= Spent(r.basket, {k \in r.chosen : k = l \/ Ahead(baskets[r.basket].sums, k, l)})

ConfirmedLine(basket, chosen) == [l \in DOMAIN basket.line |-> IF l \in chosen THEN "confirmed" ELSE basket.line[l]]

\* A fault: it is closed by the first confirmation.
ConcludedAtOnce(basket) == [basket EXCEPT !.status = "confirmed"]

\* The basket is closed when nothing is left to decide.
Concluded(basket) == IF Pending(basket) = {} THEN [basket EXCEPT !.status = "confirmed"] ELSE basket

\* A position bought gains what was paid for it: none is valued between the two.
CommitConfirm(c) ==
  LET r == clients[c]  b == r.basket  sums == baskets[b].sums
      bought(p) == IF <<"buy", p>> \in r.chosen THEN sums[<<"buy", p>>] ELSE 0
      moved(a) == MapThenSumSet(LAMBDA l : sums[l],
                    {l \in r.chosen : \/ l[1] = "wait" /\ ContainerOf[l[2]] = a
                                      \/ l[1] = "reserve" /\ l[2] = a})
  IN /\ r.at = "confirm"
     /\ CanBook(r)
     /\ worth' = [p \in Funds |-> worth[p] + bought(p)]
     /\ given' = [p \in Funds |-> given[p] + (IF Internal(r.source) THEN 0 ELSE bought(p))]
     /\ balances' = [a \in Accounts |-> balances[a] - (IF a = r.source THEN Spent(b, r.chosen) ELSE 0) + moved(a)]
     /\ registered' = registered \union Registers(r)
     /\ baskets' = [baskets EXCEPT ![b] = Concluded([@ EXCEPT !.line = ConfirmedLine(baskets[b], r.chosen)])]
     /\ timesBooked' = [k \in DOMAIN timesBooked \union {<<b, l>> : l \in r.chosen} |->
                       (IF k \in DOMAIN timesBooked THEN timesBooked[k] ELSE 0)
                       + (IF k[1] = b /\ k[2] \in r.chosen THEN 1 ELSE 0)]
     /\ clients' = [clients EXCEPT ![c] = AtRest]
     /\ UNCHANGED <<policy, outdated, happenings, overlapped>>

RefuseConfirm(c) ==
  /\ clients[c].at = "confirm" /\ ~ CanBook(clients[c])
  /\ clients' = [clients EXCEPT ![c] = AtRest]
  /\ UNCHANGED <<policy, worth, balances, given, outdated, baskets, happenings, registered, timesBooked, overlapped>>

\* Discarding writes the basket it read and then, in a statement of its own, the lines still
\* pending.
ReadDiscard(c, b) ==
  /\ clients[c] = AtRest
  /\ baskets[b].status = "draft"
  /\ Begin(c, b, [at |-> "discard", basket |-> b])
  /\ UNCHANGED <<policy, worth, balances, given, outdated, baskets, happenings, registered, timesBooked>>

DiscardBasket(c) ==
  /\ clients[c].at = "discard"
  /\ baskets' = [baskets EXCEPT ![clients[c].basket].status = "discarded"]
  /\ clients' = [clients EXCEPT ![c].at = "skip"]
  /\ UNCHANGED <<policy, worth, balances, given, outdated, happenings, registered, timesBooked, overlapped>>

Skipped(line) == [l \in DOMAIN line |-> IF line[l] = "pending" THEN "skipped" ELSE line[l]]

SkipLines(c) ==
  /\ clients[c].at = "skip"
  /\ baskets' = [baskets EXCEPT ![clients[c].basket].line = Skipped(@)]
  /\ clients' = [clients EXCEPT ![c] = AtRest]
  /\ UNCHANGED <<policy, worth, balances, given, outdated, happenings, registered, timesBooked, overlapped>>

-----------------------------------------------------------------------------
(* What happens to the portfolio meanwhile *)

Happens ==
  /\ happenings < MaxHappenings
  /\ happenings' = happenings + 1
  /\ UNCHANGED <<given, baskets, clients, registered, timesBooked, overlapped>>

Revalue(p, value) ==
  /\ Happens
  /\ worth[p] # value \/ p \in outdated
  /\ worth' = [worth EXCEPT ![p] = value]
  /\ outdated' = outdated \ {p}
  /\ UNCHANGED <<policy, balances>>

GoStale(p) ==
  /\ Happens
  /\ outdated' = outdated \union {p} /\ p \notin outdated
  /\ UNCHANGED <<policy, worth, balances>>

ReplacePolicy(version) ==
  /\ Happens
  /\ version # policy /\ policy' = version
  /\ UNCHANGED <<worth, balances, outdated>>

BasketNext ==
  \/ \E amount \in BasketAmounts, source \in Sources : CreateBasket(amount, source)
  \/ \E c \in Clients, b \in DOMAIN baskets : ReadDiscard(c, b)
  \/ \E c \in Clients, b \in DOMAIN baskets, source \in Sources : ReadConfirm(c, b, source)
  \/ \E c \in Clients : CommitConfirm(c) \/ RefuseConfirm(c) \/ DiscardBasket(c) \/ SkipLines(c)
  \/ \E move \in WorthMoves : Revalue(move[1], move[2])
  \/ \E p \in Funds : GoStale(p)
  \/ \E version \in PolicyVersions : ReplacePolicy(version)

BasketSpec == BasketInit /\ [][BasketNext]_basketVars

-----------------------------------------------------------------------------
(* Properties *)

LineStates == {"pending", "confirmed", "skipped"}
AreLines(sums, states) == states \in [DOMAIN sums -> LineStates] /\ \A l \in DOMAIN sums : sums[l] > 0
BasketStates == {"draft", "confirmed", "discarded"}

\* Baskets, their lines and the requests on them take only the states the code names.
BasketTypeOK ==
  /\ policy \in PolicyVersions
  /\ worth \in [Funds -> Nat] /\ given \in [Funds -> Nat] /\ balances \in [Accounts -> Int]
  /\ outdated \subseteq Funds
  /\ \A b \in DOMAIN baskets :
       /\ baskets[b].status \in BasketStates
       /\ AreLines(baskets[b].sums, baskets[b].line)
  /\ \A c \in Clients : clients[c].at \in {"rest", "confirm", "discard", "skip"}

\* Whatever is asked, what is proposed adds up to the contribution (allocation.py): nothing is
\* given out twice, through the commitments, the floors of the containers, what waits, what is
\* reserved and what rounding leaves.  A line reaches its minimum and its step unless it is
\* committed, money waits only where there is a purse, and a commitment to a position gets no
\* more than is outstanding unless its container has a floor of its own.  (Requests in progress
\* change nothing of it: it is looked at while there is none.)
AddsUp ==
  Busy = {} =>
  \A amount \in BasketAmounts, source \in Sources :
    ~ Blocked(amount, source) =>
      \A pr \in {Proposal(amount, source)} :
         /\ pr.leftover >= 0
         /\ \A p \in DOMAIN pr.lines :
              /\ pr.lines[p] > 0
              /\ Rule[p].step > 0 => pr.lines[p] % Rule[p].step = 0
              /\ p \notin DOMAIN pr.committed =>
                   pr.lines[p] >= (IF Rule[p].minimum > 0 THEN Rule[p].minimum ELSE policy.minLine)
              /\ p \in Capped /\ (\A cm \in Commitments : cm.to # ContainerOf[p]) =>
                   \E cm \in Claims("position", source) : cm.to = p /\ pr.lines[p] <= Outstanding(cm)
         /\ \A p \in DOMAIN pr.waiting : ContainerOf[p] \in Purses /\ pr.waiting[p] > 0
         /\ Internal(source) => pr.committed = <<>>

\* Confirmed is booked: a line is booked once if it is confirmed and never otherwise, a basket
\* is confirmed only when nothing of it is left to decide, one discarded leaves nothing
\* pending, as long as no two requests run at once (confirm_basket and discard_basket lock nothing).
\* Even then no purchase is booked twice.
Booked(b, l) == IF <<b, l>> \in DOMAIN timesBooked THEN timesBooked[<<b, l>>] ELSE 0
BookedOnce ==
  /\ \A b \in DOMAIN baskets : \A l \in DOMAIN baskets[b].line :
       /\ l[1] = "buy" => Booked(b, l) <= 1
       /\ b \notin overlapped => Booked(b, l) = (IF baskets[b].line[l] = "confirmed" THEN 1 ELSE 0)
  /\ \A b \in DOMAIN baskets \ overlapped :
       /\ baskets[b].status = "confirmed" => Pending(baskets[b]) = {} /\ DOMAIN baskets[b].line # {}
       /\ baskets[b].status = "discarded" /\ (\A c \in Busy : clients[c].basket # b) => Pending(baskets[b]) = {}

\* The account a basket is paid from covers it, as long as no two requests run at once.
NothingOverdrawn == overlapped = {} => \A a \in Accounts : balances[a] >= 0

\* What confirm_basket says of itself: a confirmation may be partial, and what is not confirmed
\* stays to be decided.
RestCanBeConfirmed ==
  \A b \in DOMAIN baskets :
    LET rest == Pending(baskets[b])
    IN /\ Len(baskets) = 1 /\ happenings = 0 /\ Busy = {} /\ baskets[b].source # Nowhere
       /\ baskets[b].status = "draft" /\ rest # {} /\ Affords(b, rest, Nowhere)
       => Reviewed(b, Nowhere)

=============================================================================
