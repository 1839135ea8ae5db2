-------------------------- MODULE LedgerMovements --------------------------
(***************************************************************************)
(* The movements of the ledger: the quick entry that turns an income, an   *)
(* expense, a transfer, an investment, a revaluation, an adjustment or a   *)
(* debt payment into debit and credit legs, the edition and deletion of    *)
(* movements, the fees an investment carries as movements of their own,    *)
(* and the deletion of an account with everything it holds.                *)
(*                                                                         *)
(* A request is a record with the fields of the API; the accounts are      *)
(* fixed, with the category of the position behind each of them.           *)
(* Classifications, statuses, texts and the value date are left out.       *)
(***************************************************************************)
EXTENDS Integers, FiniteSets, FiniteSetsExt

CONSTANTS
  Books,        \* the accounts of the ledger
  BookType,     \* asset, liability, income, expense or equity
  BookCurrency, \* the currency of each account
  Backing,      \* the category of the position behind it, "none" without one
  FeeBook,      \* the system account for investment fees, by currency
  SystemBooks,  \* accounts the system keeps, which nobody may delete
  LedgerIds,    \* identities of movements
  Requests,     \* the requests of the user that the model considers
  MaxOwn        \* bound: movements at once, their fees apart

BookTypes == {"asset", "liability", "income", "expense", "equity"}
ASSUME LedgerAssumption ==
  /\ IsFiniteSet(Books) /\ IsFiniteSet(LedgerIds) /\ LedgerIds \subseteq Nat
  /\ BookType \in [Books -> BookTypes]
  /\ SystemBooks \subseteq Books
  /\ \A b \in Books : BookCurrency[b] \in DOMAIN FeeBook
  /\ \A c \in DOMAIN FeeBook : /\ FeeBook[c] \in SystemBooks
                               /\ BookType[FeeBook[c]] = "expense"
                               /\ BookCurrency[FeeBook[c]] = c

VARIABLES
  ledger,   \* the movements: identity -> kind, direction, legs and the movement it is a fee of
  openBooks,\* the accounts not deleted
  said,     \* history: the request behind each movement and the fees last asked for it
  handled   \* history: movements whose sides, or whose fees, somebody edited under their fees

ledgerVars == <<ledger, openBooks, said, handled>>

Omitted == -1   \* an amount the request does not mention
Nobody  == 0    \* no account, no movement

Put1(f, i, x) == [j \in DOMAIN f \union {i} |-> IF j = i THEN x ELSE f[j]]
Without(f, S) == [j \in DOMAIN f \ S |-> f[j]]
Magnitude(x)  == IF x < 0 THEN -x ELSE x

-----------------------------------------------------------------------------
(* The legs of a request *)

LegRows == [book : Books, side : {"debit", "credit"}, amount : Nat \ {0}]
Leg(b, side, x) == [book |-> b, side |-> side, amount |-> x]
Opposite(side)  == IF side = "debit" THEN "credit" ELSE "debit"
TwoLegs(to, x, from, y) == {Leg(to, "debit", x), Leg(from, "credit", y)}

Arriving(r) == IF r.dest = Omitted THEN r.amount ELSE r.dest

\* An outflow pays into the account named first; the other directions take from it.
InvestmentLegs(r) ==
  IF r.direction = "outflow" THEN TwoLegs(r.account, Arriving(r), r.counter, r.amount)
                             ELSE TwoLegs(r.counter, Arriving(r), r.account, r.amount)

RevaluationLegs(r) ==
  LET side == IF r.amount >= 0 THEN "debit" ELSE "credit"
  IN {Leg(r.account, side, Magnitude(r.amount)),
      Leg(r.counter, Opposite(side), Magnitude(r.amount))}

\* A fault: an adjustment debits whatever it increases, a debt included.
AdjustmentAlwaysDebit(b, delta) == IF delta >= 0 THEN "debit" ELSE "credit"

AdjustmentSide(b, delta) ==
  IF (delta >= 0) = (BookType[b] \in {"asset", "expense"}) THEN "debit" ELSE "credit"

AdjustmentLegs(r) ==
  LET side == AdjustmentSide(r.account, r.amount)
  IN {Leg(r.account, side, Magnitude(r.amount)),
      Leg(r.counter, Opposite(side), Magnitude(r.amount))}

DebtLegs(r) ==
  TwoLegs(r.counter, r.principal, r.account, r.amount)
    \union (IF r.interest > 0 THEN {Leg(r.interestBook, "debit", r.interest)} ELSE {})

Legs(r) ==
  CASE r.kind = "income"       -> TwoLegs(r.account, r.amount, r.counter, r.amount)
    [] r.kind = "expense"      -> TwoLegs(r.counter, r.amount, r.account, r.amount)
    [] r.kind = "transfer"     -> TwoLegs(r.counter, Arriving(r), r.account, r.amount)
    [] r.kind = "investment"   -> InvestmentLegs(r)
    [] r.kind = "revaluation"  -> RevaluationLegs(r)
    [] r.kind = "adjustment"   -> AdjustmentLegs(r)
    [] r.kind = "debt_payment" -> DebtLegs(r)

-----------------------------------------------------------------------------
(* What a request must respect *)

Currencies(legs) == {BookCurrency[l.book] : l \in legs}
SideTotal(legs, side, c) ==
  MapThenSumSet(LAMBDA l : l.amount, {l \in legs : l.side = side /\ BookCurrency[l.book] = c})

Unbalanced(legs) ==
  \E c \in Currencies(legs) : SideTotal(legs, "debit", c) # SideTotal(legs, "credit", c)

EntriesAccepted(legs, looseCurrencies) ==
  /\ \A l \in legs : l.book \in openBooks /\ l.amount > 0
  /\ looseCurrencies \/ ~Unbalanced(legs)

Liquid(b) == BookType[b] = "asset" /\ Backing[b] \in {"none", "cash"}

EarnsOrSpends(r) ==
  \/ BookType[r.account] = "liability"
  \/ Liquid(r.account)
  \/ BookType[r.account] = "asset" /\ r.kind = "income" /\ Backing[r.account] # "none"
  \/ BookType[r.account] = "asset" /\ r.kind = "expense" /\ Backing[r.account] = "investments"

IncomeAccepted(r) == EarnsOrSpends(r) /\ BookType[r.counter] = "income"
ExpenseAccepted(r) == EarnsOrSpends(r) /\ BookType[r.counter] = "expense"

Transferable(b) ==
  IF BookType[b] = "liability" THEN Backing[b] # "none" ELSE Liquid(b)

DestinationStated(r) ==
  BookCurrency[r.account] # BookCurrency[r.counter] => r.dest # Omitted

TransferAccepted(r) ==
  /\ Transferable(r.account) /\ Transferable(r.counter) /\ r.account # r.counter
  /\ DestinationStated(r)

AdjustmentAccepted(r) ==
  /\ BookType[r.account] \in {"asset", "liability"}
  /\ BookType[r.counter] = "equity"
  /\ BookCurrency[r.account] = BookCurrency[r.counter]

InvestmentAccepted(r) ==
  /\ r.direction \in {"inflow", "outflow", "reinvestment"}
  /\ BookType[r.counter] = "asset" /\ r.account # r.counter
  /\ r.direction = "reinvestment" =>
       Backing[r.account] = "investments" /\ Backing[r.counter] = "investments"
  /\ DestinationStated(r)

DebtAccepted(r) ==
  /\ Liquid(r.account)
  /\ BookType[r.counter] = "liability" /\ Backing[r.counter] # "none"
  /\ r.principal > 0 /\ r.interest >= 0
  /\ r.interest > 0 => /\ BookType[r.interestBook] = "expense"
                       /\ BookCurrency[r.interestBook] = BookCurrency[r.account]
  /\ BookCurrency[r.counter] = BookCurrency[r.account]
  /\ r.amount = r.principal + r.interest

\* Only an investment states a fee, and only a reinvestment one on arrival.
FeeStated(r) ==
  /\ r.fee # Omitted => r.kind = "investment"
  /\ r.destFee # Omitted => r.kind = "investment" /\ r.direction = "reinvestment"

DestinationAccepted(r) ==
  IF r.kind \in {"investment", "transfer"}
  THEN r.amount > 0 /\ (r.dest = Omitted \/ r.dest > 0)
  ELSE r.dest = Omitted

RequestAccepted(r) ==
  /\ r.account \in openBooks /\ r.counter \in openBooks
  /\ FeeStated(r) /\ DestinationAccepted(r)
  /\ CASE r.kind = "income" -> IncomeAccepted(r)
       [] r.kind = "expense" -> ExpenseAccepted(r)
       [] r.kind = "transfer" -> TransferAccepted(r)
       [] r.kind = "investment" -> InvestmentAccepted(r)
       [] r.kind = "revaluation" -> TRUE
       [] r.kind = "adjustment" -> AdjustmentAccepted(r)
       [] r.kind = "debt_payment" -> DebtAccepted(r)

LooseOnCreate(r) ==
  r.kind \in {"investment", "transfer"} /\ BookCurrency[r.account] # BookCurrency[r.counter]

Shape(legs) == {<<l.book, l.side>> : l \in legs}

\* An edition may leave the currencies apart in an investment or a transfer, or when the
\* movement already did and keeps its accounts.
LooseOnUpdate(old, kind, legs) ==
  /\ Cardinality(Currencies(legs)) > 1 /\ Unbalanced(legs)
  /\ \/ kind \in {"investment", "transfer"}
     \/ /\ Cardinality(Currencies(old)) > 1 /\ Unbalanced(old)
        /\ Cardinality(old) = Cardinality(legs) /\ Shape(old) = Shape(legs)

-----------------------------------------------------------------------------
(* Fees *)

SideBook(m, side) ==
  LET legs == {l \in m.legs : l.side = side}
  IN IF legs = {} THEN Nobody ELSE (CHOOSE l \in legs : TRUE).book

\* The account that pays the movement and its fee: the one money leaves, or in a
\* withdrawal the one that receives it.
FundingBook(m) ==
  IF m.kind # "investment" THEN Nobody
  ELSE SideBook(m, IF m.direction = "outflow" THEN "debit" ELSE "credit")

DestinationBook(m) ==
  IF m.kind = "investment" /\ m.direction = "reinvestment" THEN SideBook(m, "debit") ELSE Nobody

FeeIdsOf(L, i) == {j \in DOMAIN L : L[j].feeFor = i}
ChargedTo(L, i, b) == {j \in FeeIdsOf(L, i) : SideBook(L[j], "credit") = b}

FeeMovement(i, b, x) ==
  [kind |-> "expense", direction |-> "", feeFor |-> i,
   legs |-> TwoLegs(FeeBook[BookCurrency[b]], x, b, x)]

Unused(L) == LedgerIds \ DOMAIN L

\* A fault: correcting a fee adds the corrected one and forgets the old.
FeeAddedAgain(L, i, b, x) ==
  CASE x = Omitted -> L
    [] x = 0 -> LET existing == ChargedTo(L, i, b)
                IN IF existing = {} THEN L ELSE Without(L, {Max(existing)})
    [] OTHER -> Put1(L, Min(Unused(L)), FeeMovement(i, b, x))

\* Omitted leaves the fee alone, zero deletes it, an amount creates or corrects it.
SyncOneFee(L, i, b, x) ==
  LET existing == ChargedTo(L, i, b) IN
  CASE x = Omitted -> L
    [] x = 0 -> IF existing = {} THEN L ELSE Without(L, {Max(existing)})
    [] OTHER -> Put1(L, IF existing = {} THEN Min(Unused(L)) ELSE Max(existing), FeeMovement(i, b, x))

SyncFees(L, i, fee, destFee) ==
  SyncOneFee(SyncOneFee(L, i, FundingBook(L[i]), fee), i, DestinationBook(L[i]), destFee)

FeesPossible(L, i, fee, destFee) ==
  /\ fee > 0 => FundingBook(L[i]) # Nobody
  /\ destFee > 0 => DestinationBook(L[i]) # Nobody
  /\ Cardinality(Unused(L)) >= (IF fee > 0 THEN 1 ELSE 0) + (IF destFee > 0 THEN 1 ELSE 0)
     \* room for the fees: a bound of the model

Asked(old, new) == IF new = Omitted THEN old ELSE new

-----------------------------------------------------------------------------
LedgerInit ==
  /\ ledger = [i \in {} |-> Nobody]
  /\ openBooks = Books
  /\ said = [i \in {} |-> Nobody]
  /\ handled = {}

Movement(r, parent) ==
  [kind |-> r.kind, direction |-> r.direction, legs |-> Legs(r), feeFor |-> parent]

QuickEntry(r) ==
  /\ RequestAccepted(r)
  /\ EntriesAccepted(Legs(r), LooseOnCreate(r))
  /\ Unused(ledger) # {} /\ Cardinality(DOMAIN said) < MaxOwn
  /\ LET i == Min(Unused(ledger))
         L == Put1(ledger, i, Movement(r, Nobody))
     IN /\ FeesPossible(L, i, r.fee, r.destFee)
        /\ ledger' = SyncFees(L, i, r.fee, r.destFee)
        /\ said' = Put1(said, i, [request |-> r, fee |-> Asked(0, r.fee),
                                                 destFee |-> Asked(0, r.destFee)])
  /\ UNCHANGED <<openBooks, handled>>

\* The update of a movement: kind, direction and legs of the new request, none of whose
\* quick-entry rules is checked again, and then the fees.
EditMovement(i, r) ==
  LET old == ledger[i]
      L   == Put1(ledger, i, Movement(r, old.feeFor))
      parent == IF old.feeFor = Nobody THEN i ELSE old.feeFor
      moved == <<FundingBook(old), DestinationBook(old)>> # <<FundingBook(L[i]), DestinationBook(L[i])>>
  IN /\ old.feeFor = Nobody \/ r.kind # "investment"   \* a fee turned into an investment is left out
     /\ EntriesAccepted(Legs(r), LooseOnUpdate(old.legs, r.kind, Legs(r)))
     /\ FeesPossible(L, i, r.fee, r.destFee)
     /\ ledger' = SyncFees(L, i, r.fee, r.destFee)
     /\ said' = IF old.feeFor # Nobody THEN said
                ELSE [said EXCEPT ![i] = [request |-> r, fee |-> Asked(@.fee, r.fee),
                                          destFee |-> Asked(@.destFee, r.destFee)]]
     /\ handled' = IF old.feeFor # Nobody \/ ~RequestAccepted(r) \/ (moved /\ FeeIdsOf(ledger, i) # {})
                   THEN handled \union {parent} ELSE handled
     /\ UNCHANGED openBooks

EditFees(i, fee, destFee) ==
  /\ FeesPossible(ledger, i, fee, destFee)
  /\ ledger[i].feeFor = Nobody
  /\ ledger' = SyncFees(ledger, i, fee, destFee)
  /\ said' = [said EXCEPT ![i].fee = Asked(@, fee), ![i].destFee = Asked(@, destFee)]
  /\ UNCHANGED <<openBooks, handled>>

\* A fault: the fees of a movement outlive it.
FeesOutlive(L, S) == S
\* Deleting a movement takes its fees with it.
Deleted(L, S) == S \union UNION {FeeIdsOf(L, i) : i \in S}

DeleteMovement(i) ==
  LET gone == Deleted(ledger, {i}) IN
  /\ ledger' = Without(ledger, gone)
  /\ said' = Without(said, gone)
  /\ handled' = IF ledger[i].feeFor # Nobody THEN handled \union {ledger[i].feeFor}
                                              ELSE handled \ gone
  /\ UNCHANGED openBooks

Touching(L, b) == {i \in DOMAIN L : \E l \in L[i].legs : l.book = b}

DeleteBook(b) ==
  LET gone == Deleted(ledger, Touching(ledger, b)) IN
  /\ b \in openBooks \ SystemBooks
  /\ ledger' = Without(ledger, gone)
  /\ said' = Without(said, gone)
  /\ handled' = handled \ gone
  /\ openBooks' = openBooks \ {b}

FeeChoices == {Omitted, 0, 1}

LedgerNext ==
  \/ \E r \in Requests : QuickEntry(r)
  \/ \E i \in DOMAIN ledger, r \in Requests : EditMovement(i, r)
  \/ \E i \in DOMAIN ledger, fee \in FeeChoices, destFee \in FeeChoices : EditFees(i, fee, destFee)
  \/ \E i \in DOMAIN ledger : DeleteMovement(i)
  \/ \E b \in Books : DeleteBook(b)

LedgerSpec == LedgerInit /\ [][LedgerNext]_ledgerVars

-----------------------------------------------------------------------------
LedgerTypeOK ==
  /\ DOMAIN ledger \subseteq LedgerIds
  /\ \A i \in DOMAIN ledger :
       /\ ledger[i].feeFor \in DOMAIN ledger \union {Nobody}
       /\ ledger[i].legs \subseteq LegRows /\ \A l \in ledger[i].legs : l.book \in openBooks
  /\ openBooks \subseteq Books
  /\ DOMAIN said = {i \in DOMAIN ledger : ledger[i].feeFor = Nobody}
  /\ handled \subseteq DOMAIN said

\* The account a fee is charged to, and how much.
ChargeOf(m) == LET b == SideBook(m, "credit") IN <<b, SideTotal(m.legs, "credit", BookCurrency[b])>>

\* What an investment has cost is what was last asked for each of its two sides, charged
\* to the account that pays that side: never charged twice, lost or left behind, however
\* often the movement is corrected, as long as its accounts stay.
FeesAsAsked ==
  \A i \in DOMAIN said \ handled :
    LET due == {<<FundingBook(ledger[i]), said[i].fee>>, <<DestinationBook(ledger[i]), said[i].destFee>>}
    IN /\ {ChargeOf(ledger[j]) : j \in FeeIdsOf(ledger, i)} = {d \in due : d[2] > 0}
       /\ Cardinality(FeeIdsOf(ledger, i)) = Cardinality({d \in due : d[2] > 0})

Worth(c) ==
  MapThenSumSet(LAMBDA i : MapThenSumSet(LAMBDA l : IF l.side = "debit" THEN l.amount ELSE -l.amount,
                             {l \in ledger[i].legs : /\ BookType[l.book] \in {"asset", "liability"}
                                                     /\ BookCurrency[l.book] = c}),
                DOMAIN ledger)

In(b, c, x) == IF BookCurrency[b] = c THEN x ELSE 0

\* What a request says happens to the household's worth in one currency.
Stated(r, c) ==
  CASE r.kind = "income"       -> In(r.account, c, r.amount)
    [] r.kind = "expense"      -> -In(r.account, c, r.amount)
    [] r.kind = "revaluation"  -> In(r.account, c, r.amount)
    [] r.kind = "adjustment"   -> In(r.account, c, IF BookType[r.account] = "asset" THEN r.amount ELSE -r.amount)
    [] r.kind = "debt_payment" -> -In(r.account, c, r.interest)
    [] OTHER -> LET out == r.kind = "investment" /\ r.direction = "outflow"
                    from == IF out THEN r.counter ELSE r.account
                    to   == IF out THEN r.account ELSE r.counter
                IN In(to, c, Arriving(r)) - In(from, c, r.amount)

FeesSaid(i, c) ==
  LET m == ledger[i] IN
    (IF FundingBook(m) = Nobody THEN 0 ELSE In(FundingBook(m), c, said[i].fee))
    + (IF DestinationBook(m) = Nobody THEN 0 ELSE In(DestinationBook(m), c, said[i].destFee))

\* The household is worth, in each currency, what its movements say: incomes, expenses,
\* revaluations, adjustments and interest change it, transfers and investments only move
\* it, and every investment costs exactly the fees asked for it, where they were asked.
WorthExplained ==
  /\ FeesAsAsked
  /\ handled = {} =>
       \A c \in DOMAIN FeeBook :
         Worth(c) = MapThenSumSet(LAMBDA i : Stated(said[i].request, c) - FeesSaid(i, c), DOMAIN said)

\* A fee is charged to an account that pays its movement today: editing a movement
\* relocates its fees (services_quick_entry.py:182-184).
FeesFollowMovement ==
  \A j \in DOMAIN ledger : ledger[j].feeFor # Nobody =>
    LET m == ledger[ledger[j].feeFor]
    IN m.kind = "investment" => SideBook(ledger[j], "credit") \in {FundingBook(m), DestinationBook(m)}

=============================================================================
