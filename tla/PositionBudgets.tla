-------------------------- MODULE PositionBudgets --------------------------
(***************************************************************************)
(* The budget lines that a position generates: a year's instalments of a   *)
(* debt, what cancelling it early costs, a year's contributions to an      *)
(* investment (backend/net_worth/services_liabilities_budget.py and        *)
(* services_assets_budget.py).  Saving the position commits it and then    *)
(* synchronises its lines in a transaction of their own; changing its      *)
(* ownership link synchronises them in the transaction of the change.      *)
(* Nothing keeps two synchronisations apart, and no constraint makes a     *)
(* line unique.                                                            *)
(*                                                                         *)
(* One position, without interest, in one currency; dates are periods, of  *)
(* which a year has PeriodsPerYear.  A position and its schedule are       *)
(* worked out in units of which a cent has UnitsPerCent (a million); a     *)
(* line holds whole cents.                                                 *)
(***************************************************************************)
EXTENDS Integers, SequencesExt

CONSTANTS
  Debts,          \* debts that a request may save
  Savings,        \* investments that a request may save
  LinkOwners,     \* ownerships the position may be linked to
  Requesters,     \* requests that may run at once
  PeriodsPerYear, \* bound: periods in a year
  UnitsPerCent,   \* bound: units in a cent
  LastYear,       \* bound: the years that pass
  MaxSaves,       \* bound: saves and changes of the link
  MaxRetouches    \* bound: lines edited by hand

IsDebt(d) ==
  /\ d.kind = "debt" /\ {d.amount, d.start, d.first, d.cancelled, d.fee} \subseteq Nat
  /\ {d.months, d.every} \subseteq Nat \ {0} /\ d.active \in BOOLEAN /\ d.paysLast \in BOOLEAN
IsSavings(p) ==
  /\ p.kind = "savings" /\ {p.amount, p.first, p.last} \subseteq Nat /\ p.every \in Nat \ {0}
  /\ p.active \in BOOLEAN /\ (p.last = 0 \/ p.first <= p.last)
ASSUME PositionAssumption ==
  /\ {PeriodsPerYear, UnitsPerCent} \subseteq Nat \ {0}
  /\ (\A d \in Debts : IsDebt(d)) /\ \A p \in Savings : IsSavings(p)

NoPlan == [kind |-> "none"]
Removed == [kind |-> "removed"]
NoLink == "nobody"

VARIABLES
  plan,      \* the position, saved last
  heldBy,  \* its ownership link
  yearNow,   \* today
  planned,   \* identity -> generated line
  nextLine,  \* the next identity
  syncs,     \* requester -> what it is doing
  saves, retouches,
  met        \* history: requesters whose synchronisation has met another, or an edit by
             \* hand, or lines made twice

commitmentsVars == <<plan, heldBy, yearNow, planned, nextLine, syncs, saves, retouches, met>>

YearOf(d) == d \div PeriodsPerYear
HalfRounded(x, n) == (2 * x + n) \div (2 * n)
AtLeastZero(x) == IF x > 0 THEN x ELSE 0
Cents(units) == HalfRounded(units, UnitsPerCent)

-----------------------------------------------------------------------------
(* The schedule of a debt *)

Instalments(d) == IF d.months % d.every = 0 THEN d.months \div d.every ELSE 0
Payment(d) == HalfRounded(d.amount, Instalments(d))
DueOn(d, k) == d.first + (k - 1) * d.every

\* What is owed after k instalments.
Owed(d, k) == IF k >= Instalments(d) THEN 0 ELSE AtLeastZero(d.amount - k * Payment(d))
Instalment(d, k) == IF k = Instalments(d) THEN Owed(d, k - 1) ELSE Payment(d)

\* Whether the instalment is still paid when the debt is cancelled early (0: it is not).
DueBeforeCancelling(d, k) ==
  \/ d.cancelled = 0
  \/ DueOn(d, k) < d.cancelled
  \/ d.paysLast /\ DueOn(d, k) = d.cancelled

Due(d) == {k \in 1..Instalments(d) : DueBeforeCancelling(d, k)}

\* A fault: the period counts, although its instalment is not paid.
ReferenceSameDay(d) == d.cancelled

\* The last period that counts as paid when the rest is worked out.
ReferenceDate(d) == IF d.paysLast THEN d.cancelled ELSE d.cancelled - 1

Remaining(d) == Owed(d, Cardinality({k \in 1..Instalments(d) : DueOn(d, k) <= ReferenceDate(d)}))

\* A line as it is wanted for: what it is for, its year, its amount and its last year.
Want(group, year, units, until) ==
  [group |-> group, year |-> year, amount |-> Cents(units), until |-> until]

WantedOfDebt(d) ==
  LET ofYear(y) == {k \in Due(d) : YearOf(DueOn(d, k)) = y}
      lastYear == YearOf(Max({DueOn(d, k) : k \in Due(d)}))
      cancels == d.cancelled # 0 /\ d.cancelled >= d.start /\ Remaining(d) > 0
  IN {Want("instalments", y, MapThenSumSet(LAMBDA k : Instalment(d, k), ofYear(y)), lastYear) :
        y \in {YearOf(DueOn(d, k)) : k \in Due(d)}}
     \union (IF cancels THEN {Want("principal", YearOf(d.cancelled), Remaining(d), 0)} ELSE {})
     \union (IF cancels /\ d.fee > 0 THEN {Want("fee", YearOf(d.cancelled), d.fee, 0)} ELSE {})

-----------------------------------------------------------------------------
(* The contributions to an investment, up to the end of next year *)

Contributions(s, year) ==
  LET horizon == (year + 2) * PeriodsPerYear - 1
      end == IF s.last = 0 THEN horizon ELSE Min({s.last, horizon})
  IN {t \in s.first..end : (t - s.first) % s.every = 0}

WantedOfSavings(s, year) ==
  LET dates == Contributions(s, year)
      until == IF s.last = 0 THEN 0 ELSE YearOf(Max(dates))
  IN {Want("contributions", y, s.amount * Cardinality({t \in dates : YearOf(t) = y}), until) :
        y \in {YearOf(t) : t \in dates}}

\* A debt that is not active, or has no schedule, keeps the lines it had.
Untouched(p) == p.kind = "debt" /\ (~p.active \/ Instalments(p) = 0)
Cleared(p, year) == p.kind = "savings" /\ (~p.active \/ Contributions(p, year) = {})

Wanted(p, year) ==
  IF Untouched(p) \/ Cleared(p, year) THEN {}
  ELSE IF p.kind = "debt" THEN WantedOfDebt(p) ELSE WantedOfSavings(p, year)

-----------------------------------------------------------------------------
(* Synchronising *)

Idle == [at |-> "idle"]
Begun(s) == syncs[s].at # "idle"
Working(s) == syncs[s].at \in {"looked", "taken"}

\* Rows that an open transaction has written.
Locked(s) == IF syncs[s].at = "taken" THEN DOMAIN syncs[s].puts ELSE {}
Free(s, rows) == \A r \in Requesters \ {s} : rows \intersect Locked(r) = {}

LinesFor(a) == {i \in DOMAIN planned : planned[i].group = a.group /\ planned[i].year = a.year}

\* The amount of instalments that the household renamed is its own; so it is when
\* the position was renamed since.
KeepsAmount(row, p) == row.group = "instalments" /\ row.name # p.name

\* What a synchronisation changes in a line there was.
Fields(row, a, p, owner) ==
  LET wanted == [owner |-> owner, until |-> a.until, amount |-> a.amount]
      owned == {"owner", "until", "amount"} \ (IF KeepsAmount(row, p) THEN {"amount"} ELSE {})
  IN Restrict(wanted, {f \in owned : row[f] # wanted[f]})

\* Saving the position commits it; its lines wait.
Save(s, p) ==
  /\ ~Begun(s) /\ saves < MaxSaves /\ saves' = saves + 1
  /\ plan.kind \in {"none", p.kind}
  /\ plan' = p
  /\ syncs' = [syncs EXCEPT ![s] = [at |-> "due", links |-> FALSE, of |-> p]]
  /\ UNCHANGED <<heldBy, yearNow, planned, nextLine, retouches, met>>

\* Changing the link is part of the transaction; a second change waits for the row.
Relink(s, owner) ==
  /\ ~Begun(s) /\ saves < MaxSaves /\ saves' = saves + 1
  /\ plan.kind \in {"debt", "savings"} /\ owner # heldBy
  /\ \A r \in Requesters : Begun(r) => ~syncs[r].links
  /\ syncs' = [syncs EXCEPT ![s] = [at |-> "due", links |-> TRUE, owner |-> owner]]
  /\ UNCHANGED <<plan, heldBy, yearNow, planned, nextLine, retouches, met>>

\* Contributions of which a year has several lines stay: only one of them is kept in step.
MadeTwice(of) ==
  of.kind = "savings" /\ \E i, j \in DOMAIN planned : i # j /\ planned[i].year = planned[j].year

\* Reads the lines there are, of several contributions of a year the last one made;
\* several of a debt are an error (Fail).  A save works on the position as it saved
\* it, a change of link on the position as it is now.
Look(s) ==
  LET now == syncs[s]
      of == IF now.links THEN plan ELSE now.of
      owner == IF now.links THEN now.owner ELSE heldBy
      wanted == Wanted(of, yearNow)
      there == {a \in wanted : LinesFor(a) # {}}
      row == [a \in there |-> Max(LinesFor(a))]
      wantedOf(i) == CHOOSE a \in there : row[a] = i
      fields == [i \in Range(row) |-> Fields(planned[i], wantedOf(i), of, owner)]
      others == {r \in Requesters \ {s} : Working(r)}
  IN /\ now.at = "due" /\ of.kind # "removed"
     /\ of.kind = "debt" => \A a \in there : Cardinality(LinesFor(a)) = 1
     /\ syncs' = [syncs EXCEPT ![s] =
          [at |-> "looked", links |-> now.links, of |-> of, owner |-> owner, year |-> yearNow,
           keeps |-> Range(row), makes |-> wanted \ there, drops |-> {},
           puts |-> Restrict(fields, {i \in DOMAIN fields : DOMAIN fields[i] # {}})]]
     /\ met' = IF others # {} \/ MadeTwice(of) THEN met \union others \union {s} ELSE met \ {s}
     /\ UNCHANGED <<plan, heldBy, yearNow, planned, nextLine, saves, retouches>>

\* The lines beyond those wanted: a debt goes by the rows it has seen or made, an
\* investment by the years it has contributions in.
Stale(of, year, keeps) ==
  IF Untouched(of) THEN {}
  ELSE IF of.kind = "debt" THEN DOMAIN planned \ keeps
  ELSE {i \in DOMAIN planned : planned[i].year \notin {a.year : a \in Wanted(of, year)}}

\* Writes the rows that change, when no other transaction holds them and none of them
\* is gone (Fail), and selects those to delete.
Take(s) ==
  LET now == syncs[s] IN
  /\ now.at = "looked"
  /\ Free(s, DOMAIN now.puts) /\ DOMAIN now.puts \subseteq DOMAIN planned
  /\ syncs' = [syncs EXCEPT ![s].at = "taken", ![s].drops = Stale(now.of, now.year, now.keeps)]
  /\ UNCHANGED <<plan, heldBy, yearNow, planned, nextLine, saves, retouches, met>>

NewLine(a, p, owner) ==
  [group |-> a.group, year |-> a.year, amount |-> a.amount, until |-> a.until, owner |-> owner,
   name |-> p.name]

\* Deletes them, waiting for rows that another transaction holds, and commits; a line
\* for a position that is gone is refused (Fail).
Finish(s) ==
  LET now == syncs[s]
      made == SetToSeq(now.makes)
      makes == nextLine..(nextLine + Len(made) - 1)
  IN /\ now.at = "taken" /\ Free(s, now.drops)
     /\ now.makes # {} => plan # Removed
     /\ planned' = [i \in (DOMAIN planned \ now.drops) \union makes |->
          IF i \in makes THEN NewLine(made[i - nextLine + 1], now.of, now.owner)
          ELSE IF i \in DOMAIN now.puts THEN now.puts[i] @@ planned[i]
          ELSE planned[i]]
     /\ nextLine' = nextLine + Len(made)
     /\ heldBy' = IF now.links THEN now.owner ELSE heldBy
     /\ syncs' = [syncs EXCEPT ![s] = Idle]
     /\ UNCHANGED <<plan, yearNow, saves, retouches, met>>

\* The link of a position that has been removed in the meantime.
LinkNothing(s) ==
  /\ syncs[s].at = "due" /\ syncs[s].links /\ plan = Removed
  /\ heldBy' = syncs[s].owner
  /\ syncs' = [syncs EXCEPT ![s] = Idle]
  /\ UNCHANGED <<plan, yearNow, planned, nextLine, saves, retouches, met>>

\* The process dies, the database breaks a deadlock, or one of the errors above.
Fail(s) ==
  /\ Begun(s)
  /\ syncs' = [syncs EXCEPT ![s] = Idle]
  /\ UNCHANGED <<plan, heldBy, yearNow, planned, nextLine, saves, retouches, met>>

\* A line refers to its position: the removal waits for one that is being made.
Discard(s) ==
  /\ ~Begun(s) /\ plan.kind \in {"debt", "savings"}
  /\ Free(s, DOMAIN planned) /\ \A r \in Requesters : Working(r) => syncs[r].makes = {}
  /\ plan' = Removed
  /\ planned' = <<>>
  /\ UNCHANGED <<heldBy, yearNow, nextLine, syncs, saves, retouches, met>>

\* The household edits a line: its amount, or its name too.
Retouch(i, amount, name) ==
  /\ retouches < MaxRetouches /\ retouches' = retouches + 1
  /\ \A s \in Requesters : i \notin Locked(s)
  /\ planned' = [planned EXCEPT ![i].amount = amount, ![i].name = name]
  /\ met' = met \union {s \in Requesters : Working(s)}
  /\ UNCHANGED <<plan, heldBy, yearNow, nextLine, syncs, saves>>

NextYear ==
  /\ yearNow < LastYear /\ yearNow' = yearNow + 1
  /\ UNCHANGED <<plan, heldBy, planned, nextLine, syncs, saves, retouches, met>>

CommitmentsInit ==
  /\ plan = NoPlan /\ heldBy = NoLink /\ yearNow = 0
  /\ planned = <<>> /\ nextLine = 1
  /\ syncs = [s \in Requesters |-> Idle]
  /\ saves = 0 /\ retouches = 0 /\ met = {}

CommitmentsNext ==
  \/ \E s \in Requesters, p \in Debts \union Savings : Save(s, p)
  \/ \E s \in Requesters, owner \in LinkOwners : Relink(s, owner)
  \/ \E s \in Requesters :
       Look(s) \/ Take(s) \/ Finish(s) \/ LinkNothing(s) \/ Fail(s) \/ Discard(s)
  \/ \E i \in DOMAIN planned : \E name \in {planned[i].name, "ours"} :
       Retouch(i, planned[i].amount + 1, name)
  \/ NextYear

CommitmentsSpec == CommitmentsInit /\ [][CommitmentsNext]_commitmentsVars

-----------------------------------------------------------------------------
(* Properties *)

\* Every variable keeps its type.
CommitmentsTypeOK ==
  /\ plan \in {NoPlan, Removed} \union Debts \union Savings
  /\ heldBy \in LinkOwners \union {NoLink} /\ yearNow \in 0..LastYear
  /\ DOMAIN planned \subseteq 1..(nextLine - 1)
  /\ \A i \in DOMAIN planned : planned[i].year \in Nat /\ planned[i].amount \in Nat
  /\ DOMAIN syncs = Requesters
  /\ \A s \in Requesters : syncs[s].at \in {"idle", "due", "looked", "taken"}
  /\ saves \in 0..MaxSaves /\ retouches \in 0..MaxRetouches /\ met \subseteq Requesters

\* An amount of cents is one of units, as far as rounding each of n lines to cents allows.
SameMoney(cents, units, n) ==
  LET apart == UnitsPerCent * cents - units IN
  2 * Max({apart, -apart}) <= n * UnitsPerCent

\* The lines of a debt repay it: the instalments and what is left when it is
\* cancelled are the debt, neither more nor less than half a cent for every line.
RepaysDebt(d, lines) ==
  LET repaying == {i \in DOMAIN lines : lines[i].group \in {"instalments", "principal"}} IN
  /\ \/ \E i \in DOMAIN lines : KeepsAmount(lines[i], d)
     \/ d.cancelled # 0 /\ d.cancelled < d.start
     \/ SameMoney(MapThenSumSet(LAMBDA i : lines[i].amount, repaying), d.amount,
                  Cardinality(repaying))
  /\ d.cancelled # 0 => \A i \in DOMAIN lines : lines[i].year <= YearOf(d.cancelled)

\* The lines of an investment contribute in every year from its first to its last or
\* to next year, and in a year it covers wholly as often as a year allows.
Contributes(s, year, lines) ==
  LET last == IF s.last = 0 THEN year + 1 ELSE Min({YearOf(s.last), year + 1})
      years == {lines[i].year : i \in DOMAIN lines}
  IN /\ years = YearOf(s.first)..last
     /\ \A i \in DOMAIN lines :
          YearOf(s.first) < lines[i].year /\ (s.last = 0 \/ lines[i].year < YearOf(s.last))
            => SameMoney(lines[i].amount * s.every, s.amount * PeriodsPerYear, s.every)

\* However saves, changes of the link, failures, removals, edits by hand and years follow
\* each other, a synchronisation that meets no other leaves one line for a year and a
\* purpose, owned as the position is linked, and they add up to the position: it puts
\* right what those before it left that failed or met another, but for contributions
\* they made twice.  (sync_generated_budget_commitments_for_*)
CommitmentsAddUp ==
  [][\A s \in Requesters :
       (syncs[s].at = "taken" /\ planned' # planned /\ syncs'[s] = Idle /\ s \notin met) =>
         LET of == syncs[s].of
             rows == DOMAIN planned'
             purpose(i) == <<planned'[i].group, planned'[i].year>>
         IN /\ \A i, j \in rows : purpose(i) = purpose(j) => i = j
            /\ \A i \in rows : planned'[i].owner = syncs[s].owner
            /\ of.kind = "debt" => RepaysDebt(of, planned')
            /\ of.kind = "savings" /\ rows # {} => Contributes(of, syncs[s].year, planned')
    ]_commitmentsVars
=============================================================================
