------------------------- MODULE SettlementPreview -------------------------
(***************************************************************************)
(* What a settlement says each member owes                                 *)
(* (backend/budget/services_settlement_preview.py): positions are advanced *)
(* from the last ready close through the posted movements, compensations   *)
(* are what a member paid for another, and recommendations bring every     *)
(* account to its target.  Here a chain of closes of one household, each   *)
(* calculated, frozen and carried out by the members.                      *)
(*                                                                         *)
(* Amounts are in hundredths of a cent: an opening baseline is not rounded *)
(* to cents, everything after it is.                                       *)
(***************************************************************************)
EXTENDS Integers, FiniteSets, Bags, FiniteSetsExt

CONSTANTS
  Members,     \* adults, by id
  Accounts,    \* participants, by id
  Role,        \* of each account
  Owner,       \* the member who owns an account, or Shared
  Percent,     \* what each member has of shared accounts
  Newcomers,   \* accounts that are configured later
  StartMoney,  \* balances at activation
  Bridge,      \* modeled minus accepted cash of each wallet at activation
  Menu,        \* movements that may be posted
  Budgets,     \* the reserves a next month may require of each account
  MaxPosted,   \* bound on the movements posted
  MaxCloses    \* bound on ready closes

Shared == 0
ASSUME PreviewAssumption ==
  /\ Members \subseteq Nat \ {0} /\ Accounts \subseteq Nat
  /\ Percent \in [Members -> 0..100] /\ MapThenSumSet(LAMBDA m : Percent[m], Members) = 100
  /\ Owner \in [Accounts -> Members \cup {Shared}] /\ Newcomers \subseteq Accounts

VARIABLES
  joined,   \* configured accounts
  balance,  \* what each account holds
  base,     \* what it held at the last ready close, or at activation
  opening,  \* closing_by_member of the last ready close
  frozen,   \* the accounts it names; {} before the first
  moves,    \* bag of the movements posted since; sums do not depend on order
  bridged,  \* normalizations linked since activation
  recs,     \* its recommendations that nobody has carried out
  closes,   \* ready closes so far
  due,      \* history: what every member has a right to
  lapsed,   \* history: a close replaced recommendations not carried out
  posted,   \* movements posted so far, for the bound
  idle      \* history: nothing but recommendations since the last close, with its budget
            \* and what it left unexplained

previewVars == <<joined, balance, base, opening, frozen, moves, bridged, recs, closes, due,
                 lapsed, posted, idle>>

-----------------------------------------------------------------------------
(* Rounding and ownership *)

Cent == 100
HalfUp(n, d) == IF n >= 0 THEN (2 * n + d) \div (2 * d) ELSE -((d - 2 * n) \div (2 * d))
Money(x) == Cent * HalfUp(x, Cent)
Total(f) == MapThenSumSet(LAMBDA m : f[m], DOMAIN f)
LastOf(S) == Max(S)

Vector(owner) == [m \in Members |-> IF owner = Shared THEN Percent[m]
                                    ELSE IF owner = m THEN 100 ELSE 0]
Sharers(owner) == IF owner = Shared THEN Members ELSE {owner}

\* Every share is rounded but the last one, which takes what is left.
Allocate(amount, owner) ==
  LET share(m) == Cent * HalfUp(amount * Vector(owner)[m], 100 * Cent)
      last == LastOf(Sharers(owner))
  IN [m \in Members |-> IF m \notin Sharers(owner) THEN 0
                        ELSE IF m # last THEN share(m)
                        ELSE amount - MapThenSumSet(share, Sharers(owner) \ {last})]

\* An opening baseline keeps eight decimals.
Baseline(amount, owner) == [m \in Members |-> (amount * Vector(owner)[m]) \div 100]

\* What a close stores of one account: cents, the last member absorbs the rounding.
MemberRows(shares, owner) ==
  LET total == Money(Total(shares))  last == LastOf(Sharers(owner)) IN
  [m \in Members |-> IF m # last THEN Money(shares[m])
                     ELSE total - MapThenSumSet(LAMBDA o : Money(shares[o]), Members \ {last})]

-----------------------------------------------------------------------------
(* Movements *)

(* flow: the ledger entries on accounts; economic: income less expense.     *)
Kinds == {"external", "transfer", "recommended", "sweep", "normalization"}
Transfers == {"transfer", "recommended", "sweep"}
Moves == [kind : Kinds, flow : [Accounts -> Int], economic : Int, own : Members \cup {Shared}]

Physical(t) == MapThenSumSet(LAMBDA a : t.flow[a], joined)
PhysicalBy(t, m) == MapThenSumSet(LAMBDA a : Allocate(t.flow[a], Owner[a])[m], joined)
Loaded(t) == \E a \in joined : t.flow[a] # 0
Escapes(t) == t.kind \in Transfers /\ Money(Physical(t)) # 0

\* What a movement adds to a member's position, whoever's account it was on.
Economic(t, m) ==
  IF t.kind = "external" /\ Money(t.economic) # 0 THEN Allocate(t.economic, t.own)[m] ELSE 0

\* fault: a transfer is compensated like a payment for somebody else
CompensationOfTransfers(t, m) ==
  IF t.kind # "normalization" THEN Money(Economic(t, m) - PhysicalBy(t, m)) ELSE 0
\* The part of it somebody else paid.  Transfers inside the perimeter are
\* neutral, except a wallet sweep.
Compensation(t, m) ==
  CASE t.kind = "external" /\ Money(t.economic) # 0 -> Money(Economic(t, m) - PhysicalBy(t, m))
    [] t.kind = "sweep" /\ ~Escapes(t) -> -Money(PhysicalBy(t, m))
    [] OTHER -> 0

LoadedMoves == {t \in BagToSet(moves) : Loaded(t)}
Add(Value(_), S) == MapThenSumSet(LAMBDA t : moves[t] * Value(t), S)
CompensationOf(m) == Add(LAMBDA t : Compensation(t, m), LoadedMoves)

\* Movements without an income or an expense; they compensate nobody.
Unclassified == {t \in LoadedMoves : t.kind = "external" /\ Money(t.economic) = 0}

-----------------------------------------------------------------------------
(* Positions *)

\* An account configured after the last close joins with what it held on it.
Opened(a) ==
  IF a \in frozen THEN opening[a]
  ELSE IF frozen = {} THEN Baseline(base[a], Owner[a]) ELSE Allocate(base[a], Owner[a])

Flowing(t, a) == t.kind # "normalization" /\ t.flow[a] # 0
Current(a) ==
  [m \in Members |->
     Opened(a)[m] + Add(LAMBDA t : IF Flowing(t, a) THEN Allocate(t.flow[a], Owner[a])[m] ELSE 0, LoadedMoves)]
Position(m) ==
  MapThenSumSet(LAMBDA a : Opened(a)[m], joined) + Add(LAMBDA t : Economic(t, m), LoadedMoves)

\* A wallet's real cash is what is modeled less the bridge that normalizations
\* have not closed.
Observed(a) == balance[a] - (Bridge[a] + bridged[a])
Unreconciled == {a \in joined : Money(Observed(a) - Total(Current(a))) # 0}

TotalObserved == MapThenSumSet(LAMBDA a : Money(Observed(a)), joined)
TotalPosition == MapThenSumSet(Position, Members)
Ready ==
  /\ Unreconciled = {}
  /\ \A t \in LoadedMoves : ~Escapes(t)
  /\ Money(TotalObserved - TotalPosition) = 0

-----------------------------------------------------------------------------
(* Recommendations *)

With(role) == {a \in joined : Role[a] = role}
PersonalOf(m) == CHOOSE a \in With("personal_destination") : Owner[a] = m
Required(budget, a, m) == IF a \in joined THEN Allocate(budget[a], Owner[a])[m] ELSE 0

\* The shared operating account that pays the cards of the same owners.
Operating == {a \in With("operating") : Owner[a] = Shared}
FundedCards == IF Cardinality(Operating) = 1
                 THEN {a \in With("credit_card") : Owner[a] = Shared} ELSE {}
IsDirect == FundedCards # {}

\* fault: what members paid for each other is left out
ResidualUncompensated(budget, op, m) ==
  Money(MapThenSumSet(LAMBDA a : Current(a)[m], {op} \cup FundedCards) - Required(budget, op, m))
\* What a member has in the fund beyond what it must keep.
Residual(budget, op, m) ==
  Money(MapThenSumSet(LAMBDA a : Current(a)[m], {op} \cup FundedCards)
          + CompensationOf(m) - Required(budget, op, m))

Rec(from, to, amount) == [from |-> from, to |-> to, amount |-> amount]
DirectRecs(budget) ==
  LET op == CHOOSE a \in Operating : TRUE
      residual == [m \in Members |-> Residual(budget, op, m)]
  IN {Rec(op, PersonalOf(m), residual[m]) : m \in {o \in Members : residual[o] > 0}}
       \cup {Rec(PersonalOf(m), op, -residual[m]) : m \in {o \in Members : residual[o] < 0}}

\* Without a card every account has a target: what it must keep, and the rest
\* of a member's position in their own account.
Kept(budget, a, m) ==
  (IF Role[a] \in {"physical_cash", "allocation_destination", "credit_card",
                    "investment_position", "investment_cash"}
     THEN Current(a)[m] ELSE 0) + Required(budget, a, m)
Target(budget, a, m) ==
  Kept(budget, a, m)
    + (IF a = PersonalOf(m) THEN Position(m) - MapThenSumSet(LAMBDA b : Kept(budget, b, m), joined)
       ELSE 0)
Gap(budget, a) == Money(Total(Current(a)) - MapThenSumSet(LAMBDA m : Target(budget, a, m), Members))

\* Surpluses and deficits are matched in the order of the accounts: a pair
\* exchanges what their stretches of the total have in common.
Before(budget, a, sign) ==
  MapThenSumSet(LAMBDA b : Max({0, sign * Gap(budget, b)}), {b \in joined : b < a})
Overlap(budget, a, b) ==
  Max({0, Min({Before(budget, a, 1) + Gap(budget, a), Before(budget, b, -1) - Gap(budget, b)})
          - Max({Before(budget, a, 1), Before(budget, b, -1)})})
RoutedRecs(budget) ==
  {Rec(ab[1], ab[2], Overlap(budget, ab[1], ab[2])) :
     ab \in {p \in joined \X joined : /\ Gap(budget, p[1]) > 0 /\ Gap(budget, p[2]) < 0
                                      /\ Overlap(budget, p[1], p[2]) > 0}}

Recommended(budget) == IF IsDirect THEN DirectRecs(budget) ELSE RoutedRecs(budget)

-----------------------------------------------------------------------------
(* What happens to a household *)

BalanceAfter(t) == [a \in Accounts |-> balance[a] + t.flow[a]]
Posts(ts) == moves' = moves (+) SetToBag(ts)
Nothing == [a \in Accounts |-> 0]

\* A household with cards or without them.
PreviewInit ==
  /\ joined \in {Accounts \ Newcomers, {a \in Accounts \ Newcomers : Role[a] # "credit_card"}}
  /\ balance = StartMoney /\ base = [a \in Accounts |-> StartMoney[a] - Bridge[a]]
  /\ opening = [a \in Accounts |-> [m \in Members |-> 0]]
  /\ frozen = {} /\ moves = EmptyBag /\ bridged = Nothing
  /\ recs = {} /\ closes = 0
  /\ due = [m \in Members |-> 0] /\ lapsed = FALSE /\ posted = 0
  /\ idle = [yes |-> FALSE, budget |-> Nothing, unexplained |-> 0]

\* Any movement the user posts in the open month.
Post(t) ==
  /\ posted < MaxPosted /\ posted' = posted + 1
  /\ Posts({t}) /\ balance' = BalanceAfter(t)
  /\ bridged' = IF t.kind = "normalization" THEN [a \in Accounts |-> bridged[a] + t.flow[a]] ELSE bridged
  /\ idle' = [idle EXCEPT !.yes = FALSE]
  /\ UNCHANGED <<joined, base, opening, frozen, recs, closes, due, lapsed>>

\* One that is dated in a month already closed: balances on past dates are not
\* stored but added up, so it changes what the account held then.
PostLate(t) ==
  /\ t.kind = "external" /\ closes > 0
  /\ posted < MaxPosted /\ posted' = posted + 1
  /\ balance' = BalanceAfter(t) /\ base' = [a \in Accounts |-> base[a] + t.flow[a]]
  /\ idle' = [idle EXCEPT !.yes = FALSE]
  /\ UNCHANGED <<joined, opening, frozen, moves, bridged, recs, closes, due, lapsed>>

\* Personal wallets go to the only shared one.
Wallets == {a \in With("physical_cash") : Owner[a] # Shared /\ Money(Observed(a)) # 0}
SharedWallets == {a \in With("physical_cash") : Owner[a] = Shared}
SweepOf(w) ==
  LET to == CHOOSE a \in SharedWallets : TRUE IN
  [kind |-> "sweep", economic |-> 0, own |-> Shared,
   flow |-> [Nothing EXCEPT ![w] = -Money(Observed(w)), ![to] = Money(Observed(w))]]
SweepWallets ==
  /\ Cardinality(SharedWallets) = 1 /\ Wallets # {}
  /\ Posts({SweepOf(w) : w \in Wallets})
  /\ balance' = [a \in Accounts |-> balance[a] + MapThenSumSet(LAMBDA w : SweepOf(w).flow[a], Wallets)]
  /\ idle' = [idle EXCEPT !.yes = FALSE]
  /\ UNCHANGED <<joined, base, opening, frozen, bridged, recs, closes, due, lapsed, posted>>

Join(a) ==
  /\ a \in Newcomers \ joined
  /\ joined' = joined \cup {a}
  /\ idle' = [idle EXCEPT !.yes = FALSE]
  /\ UNCHANGED <<balance, base, opening, frozen, moves, bridged, recs, closes, due, lapsed, posted>>

\* What members have a right to: their income and expenses, what they gave each
\* other, and their part of the accounts that joined.  A movement without a category
\* stays with the owner of its account, while all share the booking it makes up for.
Agreed(t, m) ==
  CASE t.kind = "transfer" -> PhysicalBy(t, m)
    [] t \in Unclassified -> PhysicalBy(t, m) - Allocate(Physical(t), Shared)[m]
    [] OTHER -> Economic(t, m)
Dues ==
  [m \in Members |-> due[m] + MapThenSumSet(LAMBDA a : Opened(a)[m], joined \ frozen)
                       + Add(LAMBDA t : Agreed(t, m), LoadedMoves)]

\* A finalization whose preview is ready.
CloseReady(budget) ==
  /\ closes < MaxCloses /\ Ready
  /\ opening' = [a \in Accounts |-> IF a \in joined THEN MemberRows(Current(a), Owner[a]) ELSE opening[a]]
  /\ frozen' = joined /\ base' = [a \in Accounts |-> Observed(a)]
  /\ moves' = EmptyBag
  /\ recs' = Recommended(budget) /\ closes' = closes + 1
  /\ due' = Dues /\ lapsed' = (lapsed \/ recs # {})
  /\ idle' = [yes |-> TRUE, budget |-> budget, unexplained |-> Add(Physical, Unclassified)]
  /\ UNCHANGED <<joined, balance, bridged, posted>>

\* A member makes a recommended transfer in full.
CarryOut(r) ==
  LET t == [kind |-> "recommended", economic |-> 0, own |-> Owner[r.to],
            flow |-> [Nothing EXCEPT ![r.from] = -r.amount, ![r.to] = r.amount]]
  IN
  /\ Posts({t}) /\ balance' = BalanceAfter(t)
  /\ recs' = recs \ {r}
  /\ UNCHANGED <<joined, base, opening, frozen, bridged, closes, due, lapsed, posted, idle>>

PreviewNext ==
  \/ \E t \in Menu : Post(t) \/ PostLate(t)
  \/ SweepWallets
  \/ \E a \in Accounts : Join(a)
  \/ \E budget \in Budgets : CloseReady(budget)
  \/ \E r \in recs : CarryOut(r)

PreviewSpec == PreviewInit /\ [][PreviewNext]_previewVars

-----------------------------------------------------------------------------
PreviewTypeOK ==
  /\ joined \subseteq Accounts /\ frozen \subseteq joined
  /\ balance \in [Accounts -> Int] /\ base \in [Accounts -> Int] /\ bridged \in [Accounts -> Int]
  /\ opening \in [Accounts -> [Members -> Int]] /\ due \in [Members -> Int]
  /\ BagToSet(moves) \subseteq Moves
  /\ \A r \in recs : r.from \in joined /\ r.to \in joined /\ r.amount > 0
  /\ closes \in 0..MaxCloses /\ lapsed \in BOOLEAN /\ posted \in 0..MaxPosted

\* What one member owes another is owed to them.  A preview is ready when what was
\* booked and what it was booked for agree in total, so a payment booked by half may be
\* made up for by a movement without a category: what the compensations of a ready
\* preview add up to is what such movements moved, and they cancel out without them,
\* whatever mixture of payments for others, escapes, sweeps and corrections there is.
CompensationsExplained ==
  moves # EmptyBag /\ Ready =>
    MapThenSumSet(CompensationOf, Members) = Add(Physical, Unclassified)

\* Rounding: a cent per movement and member, at most.
Slack == Cent * (MaxPosted + 2 * MaxCloses * Cardinality(Members))
CarriedOut == closes > 0 /\ recs = {} /\ idle.yes /\ ~lapsed
Abs(n) == IF n >= 0 THEN n ELSE -n

\* Where the operating account pays the cards: when the members have carried out
\* every recommendation, each of them has what their own income and expenses left
\* them, whoever's account was used; and a household that has done nothing else is
\* asked for nothing again ("nor detect them again as a compensation"), beyond what
\* the close left unexplained.
SettledAsDue ==
  CarriedOut /\ IsDirect =>
    /\ \A m \in Members :
         Abs(MapThenSumSet(LAMBDA a : Current(a)[m], joined) - due[m]) <= Slack
    /\ \A r \in Recommended(idle.budget) : r.amount <= Slack + Abs(idle.unexplained)

\* What a preview recommends settles what members owe each other: compensations are
\* explained when they are worked out, and everybody has their due once the
\* recommendations are carried out.
RecommendationsSettle == CompensationsExplained /\ SettledAsDue

=============================================================================
