----------------------------- MODULE MarketData -----------------------------
(***************************************************************************)
(* Exchange rates, inflation indexes and prices kept from external         *)
(* providers (backend/core/market_data.py, core/services.py,               *)
(* portfolio/market_data.py).  Every row, and the state row of a scope, is *)
(* written in a transaction of its own, while other synchronisations run,  *)
(* a conversion fetches the single day it lacks, or the process ends.      *)
(*                                                                         *)
(* A series is its days: what a quote says is left to the provider.  One   *)
(* calendar serves for days and for the months of an index.  What reading  *)
(* a rate finds is the quote it stands on, not its value.                  *)
(***************************************************************************)
EXTENDS Integers, Sequences, FiniteSetsExt, SequencesExt

CONSTANTS
  Fiat, Crypto,       \* currencies; the provider of crypto quotes them in others
  Bases,              \* base currencies of the users
  Pivot,              \* currency in which others meet
  Regions,            \* regions with an inflation index
  Priced,             \* crypto currencies whose instrument has a confirmed mapping
  Published,          \* series -> days its provider publishes
  Workers,            \* synchronisations that may run at once
  DatasetPlans,       \* datasets that a synchronisation may be asked for, in order
  StubMonths,         \* bound: months an index may begin with
  Positions,          \* bound: positions opened, as <<currency, day>>
  Conversions,        \* bound: conversions asked for, as <<from, to, day>>
  FloorDays,          \* bound: days of history asked for in any case
  FirstDay, LastDay,  \* bound: the days that pass
  MaxRuns,            \* bound: synchronisations started
  MaxAsked            \* bound: days fetched for a conversion

Quoted == Fiat \union Crypto
MarketDays == 1..LastDay
NotHeld == LastDay + 1
NoDay == 0

FxPair(from, to) == <<"fx", from, to>>
IndexOf(region) == <<"inflation", region, region>>
PriceOf(c, quote) == <<"prices", c, quote>>

FxPairs == {FxPair(f, t) : f \in Quoted, t \in Quoted} \ {FxPair(c, c) : c \in Quoted}
Quote == CHOOSE b \in Bases : b \in Fiat
Mappings == {PriceOf(c, Quote) : c \in Priced}
Series == FxPairs \union {IndexOf(r) : r \in Regions} \union Mappings
DatasetOf(s) == s[1]

VARIABLES
  marketDay,
  heldSince,          \* currency -> first day of a position in it
  stored,             \* series -> days with a row
  seeded,             \* series -> days whose row the system did not write
  scopeState,         \* series -> its state row
  workers,            \* worker -> what it is doing
  syncRuns, fetchedDays,
  torn,               \* history: series in which something left, or may leave, a hole
  claimed             \* history: series -> days that a synchronisation has said it has

marketVars ==
  <<marketDay, heldSince, stored, seeded, scopeState, workers, syncRuns, fetchedDays, torn, claimed>>

Earliest(s) == IF stored[s] = {} THEN NoDay ELSE Min(stored[s])
Latest(s) == IF stored[s] = {} THEN NoDay ELSE Max(stored[s])

Resting == [at |-> "idle"]
NoState == [required |-> NoDay, covered |-> NoDay, error |-> FALSE]

MarketInit ==
  /\ marketDay = FirstDay
  /\ heldSince = [c \in Quoted |-> NotHeld]
  /\ \E stubs \in [Regions -> StubMonths] :
       stored = [s \in Series |-> IF DatasetOf(s) = "inflation" THEN stubs[s[2]] ELSE {}]
  /\ seeded = stored
  /\ scopeState = [s \in Series |-> NoState]
  /\ workers = [w \in Workers |-> Resting]
  /\ syncRuns = 0 /\ fetchedDays = 0
  /\ torn = {}
  /\ claimed = [s \in Series |-> {}]

-----------------------------------------------------------------------------
(* What has to be kept, and from which day *)

Since(cs) == Min({heldSince[c] : c \in cs})

AtMost(d, floor) == IF d < floor THEN d ELSE floor

\* The provider of crypto quotes it in fiat and not the other way.
ScopePair(from, base) ==
  IF from \notin Crypto /\ base \in Crypto THEN FxPair(base, from) ELSE FxPair(from, base)

FxRequests ==
  LET held == {c \in Quoted : heldSince[c] # NotHeld}
      needs == {<<c, b>> : c \in held, b \in Bases} \ {<<c, c>> : c \in Quoted}
      floor(c) == AtMost(heldSince[c], marketDay - FloorDays)
      of(s) == {n \in needs : ScopePair(n[1], n[2]) = s}
  IN {[series |-> s, required |-> Min({floor(n[1]) : n \in of(s)})] :
        s \in {ScopePair(n[1], n[2]) : n \in needs}}

InflationRequests ==
  IF Since(Quoted) = NotHeld THEN {}
  ELSE {[series |-> IndexOf(r), required |-> Since(Quoted)] : r \in Regions}

PriceRequests ==
  {[series |-> m, required |-> heldSince[m[2]]] : m \in {n \in Mappings : heldSince[n[2]] # NotHeld}}

Scopes(dataset) ==
  CASE dataset = "fx" -> FxRequests
    [] dataset = "inflation" -> InflationRequests
    [] dataset = "prices" -> PriceRequests

-----------------------------------------------------------------------------
(* The ranges that a synchronisation asks its provider for                 *)

Span(first, last) == [first |-> first, last |-> last]

\* After the last row.
Onward(s, until) == IF Latest(s) < until THEN <<Span(Latest(s) + 1, until)>> ELSE <<>>

\* Before the first row: an index asks for the month of the first row again.
Backfill(s, required) ==
  IF required >= Earliest(s) THEN <<>>
  ELSE <<Span(required, IF DatasetOf(s) = "inflation" THEN Earliest(s) ELSE Earliest(s) - 1)>>

Reconciled(s, required, until) ==
  IF stored[s] = {} THEN <<Span(required, until)>> ELSE Backfill(s, required) \o Onward(s, until)

Refreshed(s, required, until) ==
  IF stored[s] # {} THEN Onward(s, until)
  ELSE IF required <= until THEN <<Span(required, until)>> ELSE <<>>

\* What the provider has of a range: the day it is may not be published yet.
Offered(s, first, last) ==
  LET days == Published[s] \intersect (first..last)
  IN IF s[2] \in Crypto THEN {days} ELSE {days, days \ {marketDay}}

\* The rates of the days of a range that a mapping finds stored already.
Reusable(s, range) ==
  IF DatasetOf(s) # "prices" THEN {}
  ELSE stored[FxPair(s[2], s[3])] \intersect (range.first..range.last)

-----------------------------------------------------------------------------
(* A synchronisation: dataset by dataset, scope by scope, range by range   *)

WorkerAt(w, at) == workers[w].at = at
SetWorker(w, r) == workers' = [workers EXCEPT ![w] = r]

\* What nobody else may change while a worker only moves on.
keptRows == <<marketDay, heldSince, stored, seeded, syncRuns, fetchedDays>>

BeginSync(w) ==
  /\ WorkerAt(w, "idle") /\ syncRuns < MaxRuns
  /\ syncRuns' = syncRuns + 1
  /\ \E plan \in DatasetPlans, mode \in {"reconcile", "refresh"} :
       SetWorker(w, [at |-> "dataset", mode |-> mode, today |-> marketDay, plan |-> plan])
  /\ UNCHANGED <<marketDay, heldSince, stored, seeded, scopeState, fetchedDays, torn, claimed>>

\* Where a worker goes on after a scope.
NextScope(me) ==
  IF me.todo # {}
  THEN [at |-> "scope", mode |-> me.mode, today |-> me.today, plan |-> me.plan, todo |-> me.todo]
  ELSE IF me.plan # <<>>
  THEN [at |-> "dataset", mode |-> me.mode, today |-> me.today, plan |-> me.plan]
  ELSE Resting

\* The scopes of a dataset are worked out once, when it is its turn; the state row of one is
\* read and says what is asked for.
OpenScope(w) ==
  /\ WorkerAt(w, "dataset") \/ WorkerAt(w, "scope")
  /\ LET me == workers[w]
         todo == IF me.at = "scope" THEN me.todo ELSE Scopes(Head(me.plan))
         plan == IF me.at = "scope" THEN me.plan ELSE Tail(me.plan)
     IN \/ /\ todo = {}
           /\ SetWorker(w, NextScope([me EXCEPT !.plan = plan] @@ [todo |-> {}]))
           /\ UNCHANGED scopeState
        \/ \E r \in todo :
             /\ scopeState' = [scopeState EXCEPT ![r.series].required = r.required]
             /\ SetWorker(w, [at |-> "bounds", mode |-> me.mode, today |-> me.today, plan |-> plan,
                        todo |-> todo \ {r}, series |-> r.series, required |-> r.required,
                        covered |-> scopeState[r.series].covered, parts |-> <<>>, pending |-> {},
                        whole |-> FALSE, again |-> FALSE])
  /\ UNCHANGED <<keptRows, torn, claimed>>

Unbroken(s, days) ==
  \A d \in Published[s] \ days : ~ \E e, f \in days : e < d /\ d < f

\* The workers at a series.
WorkersAt(s) == {w \in Workers : "series" \in DOMAIN workers[w] /\ workers[w].series = s}

\* Where a worker goes on once it has written what it had, or has no more to write.
Proceed(me) ==
  [me EXCEPT !.at = IF me.pending # {} THEN "write"
                    ELSE IF me.parts # <<>> THEN "fetch"
                    ELSE IF me.again THEN "gaps" ELSE "save"]

ReadBounds(w) ==
  /\ WorkerAt(w, "bounds")
  /\ LET me == workers[w]  s == me.series IN
     SetWorker(w, Proceed([me EXCEPT !.parts = IF me.mode = "reconcile"
                                         THEN Reconciled(s, me.required, me.today)
                                         ELSE Refreshed(s, me.required, me.today),
                               !.whole = Unbroken(s, stored[s]),
                               !.again = /\ me.mode = "reconcile" /\ stored[s] # {}
                                         /\ DatasetOf(s) = "inflation"]))
  /\ UNCHANGED <<keptRows, scopeState, torn, claimed>>

FetchSpan(w) ==
  /\ WorkerAt(w, "fetch")
  /\ LET me == workers[w]  s == me.series  span == Head(me.parts)
         reused == Reusable(s, span)
         lacks == (Published[s] \intersect (span.first..span.last)) \ reused
         partial == /\ lacks # {}
                    /\ \/ lacks # {me.today} \/ WorkersAt(s) # {w}
                       \/ ~ Unbroken(s, stored[s] \union reused)
         got(days) == SetWorker(w, Proceed([me EXCEPT !.parts = Tail(me.parts), !.pending = days]))
         misordered == span.first > span.last /\ DatasetOf(s) # "prices"
     IN \/ /\ reused # {}
           /\ torn' = IF partial THEN torn \union {s} ELSE torn
           /\ SetWorker(w, Proceed([me EXCEPT !.parts = Tail(me.parts), !.pending = reused,
                                        !.whole = me.whole /\ ~ partial]))
        \/ /\ reused = {} /\ ~ misordered
           /\ \E days \in Offered(s, span.first, span.last) : got(days)
           /\ UNCHANGED torn
        \/ /\ reused = {}
           /\ SetWorker(w, [me EXCEPT !.at = "failed"])
           /\ UNCHANGED torn
  /\ UNCHANGED <<keptRows, scopeState, claimed>>

\* The rows of a range, from the first day on.
WriteRow(w) ==
  /\ WorkerAt(w, "write")
  /\ LET me == workers[w]  s == me.series  d == Min(me.pending) IN
     /\ stored' = [stored EXCEPT ![s] = @ \union {d}]
     /\ seeded' = [seeded EXCEPT ![s] = @ \ {d}]
     /\ SetWorker(w, Proceed([me EXCEPT !.pending = @ \ {d}]))
  /\ UNCHANGED <<marketDay, heldSince, syncRuns, fetchedDays, scopeState, torn, claimed>>

\* An index with a row the system did not write is asked for once more, as a whole.
LookForStubs(w) ==
  /\ WorkerAt(w, "gaps")
  /\ LET me == workers[w]
         stubs == seeded[me.series] \intersect (me.required..me.today)
     IN SetWorker(w, Proceed([me EXCEPT !.again = FALSE,
                                  !.parts = IF stubs = {} THEN <<>>
                                            ELSE <<Span(me.required, me.today)>>]))
  /\ UNCHANGED <<keptRows, scopeState, torn, claimed>>

\* The last row is looked up again and noted.
SaveSuccess(w) ==
  /\ WorkerAt(w, "save")
  /\ LET me == workers[w]  s == me.series IN
     /\ scopeState' = [scopeState EXCEPT ![s].covered = Latest(s), ![s].error = FALSE]
     /\ claimed' = IF me.mode = "reconcile" /\ me.whole
                   THEN [claimed EXCEPT ![s] = @ \union (me.required..(me.today - 1))]
                   ELSE claimed
     /\ SetWorker(w, NextScope(me))
  /\ UNCHANGED <<keptRows, torn>>

\* What the worker read of the state row at first is saved with the error.
SaveFailure(w) ==
  /\ WorkerAt(w, "failed")
  /\ LET me == workers[w]  s == me.series IN
     /\ scopeState' = IF me.mode = "mapping" THEN [scopeState EXCEPT ![s].error = TRUE]
                 ELSE [scopeState EXCEPT ![s].covered = me.covered, ![s].error = TRUE]
     /\ SetWorker(w, NextScope(me))
  /\ UNCHANGED <<keptRows, torn, claimed>>

\* One instrument is asked for from its last price on.
RefreshMapping(w, s) ==
  LET required == IF heldSince[s[2]] = NotHeld THEN marketDay ELSE heldSince[s[2]]
      parts == Refreshed(s, required, marketDay)
  IN /\ WorkerAt(w, "idle") /\ syncRuns < MaxRuns
     /\ syncRuns' = syncRuns + 1
     /\ scopeState' = [scopeState EXCEPT ![s].required = required]
     /\ IF parts = <<>> THEN UNCHANGED workers
        ELSE SetWorker(w, [at |-> "fetch", mode |-> "mapping", today |-> marketDay, plan |-> <<>>,
                     todo |-> {}, series |-> s, required |-> required, covered |-> NoDay, parts |-> parts,
                     pending |-> {}, whole |-> FALSE, again |-> FALSE])
     /\ UNCHANGED <<marketDay, heldSince, stored, seeded, fetchedDays, torn, claimed>>

\* The process ends: rows not yet written may be missed between rows that are.
ProcessEnds(w) ==
  /\ ~ WorkerAt(w, "idle")
  /\ SetWorker(w, Resting)
  /\ LET me == workers[w] IN
     torn' = IF WorkerAt(w, "write")
                /\ \/ WorkersAt(me.series) # {w}
                   \/ \E d \in stored[me.series] : d > Min(me.pending)
             THEN torn \union {me.series} ELSE torn
  /\ UNCHANGED <<keptRows, scopeState, claimed>>

-----------------------------------------------------------------------------
(* Reading a rate: the quotes it stands on *)

\* The last quote up to the day or, before the first one, the first one.
FxLookup(d) ==
  [s \in FxPairs |->
     IF \E e \in stored[s] : e <= d THEN Max({e \in stored[s] : e <= d}) ELSE Earliest(s)]

InOrder == [days \in SUBSET MarketDays |-> SetToSortSeq(days, <)]

\* The same from the rows of some currencies loaded beforehand, by their place in order.
CacheLookup(cs, d) ==
  [s \in FxPairs |->
     LET dates == InOrder[stored[s]]
         place == Cardinality({k \in 1..Len(dates) : dates[k] <= d})
     IN IF s[2] \notin cs \/ s[3] \notin cs \/ dates = <<>> THEN NoDay
        ELSE IF place >= 1 THEN dates[place] ELSE dates[1]]

NoRoute == <<>>
RateLeg(quotes, from, to) ==
  LET there == quotes[FxPair(from, to)] IN
  IF there # NoDay THEN <<FxPair(from, to), there>>
  ELSE <<FxPair(to, from), quotes[FxPair(to, from)]>>
Known(leg) == leg[2] # NoDay

\* Directly, the other way round, or through the pivot.
RateRoute(quotes, from, to) ==
  LET direct == RateLeg(quotes, from, to)
      toPivot == RateLeg(quotes, from, Pivot)
      fromPivot == RateLeg(quotes, Pivot, to)
  IN IF Known(direct) THEN <<direct>>
     ELSE IF Pivot \notin {from, to} /\ Known(toPivot) /\ Known(fromPivot)
          THEN <<toPivot, fromPivot>>
     ELSE NoRoute

Converted(from, to, d) == RateRoute(FxLookup(d), from, to)

\* A fault: rates loaded beforehand are not combined.
CachedPairOnly(cs, from, to, d) ==
  LET leg == RateLeg(CacheLookup(cs, d), from, to) IN IF Known(leg) THEN <<leg>> ELSE NoRoute
ConvertedCached(cs, from, to, d) == RateRoute(CacheLookup(cs, d), from, to)

QuoteDate(route) == IF route = NoRoute THEN NoDay ELSE Min({route[k][2] : k \in DOMAIN route})

\* A conversion asks for the day it lacks: crypto in fiat, the rest as it is written.
AskedPair(from, to) ==
  IF to \in Crypto /\ from \notin Crypto THEN FxPair(to, from) ELSE FxPair(from, to)

Convert(from, to, d) ==
  LET s == AskedPair(from, to) IN
  /\ from # to /\ d <= marketDay /\ fetchedDays < MaxAsked
  /\ QuoteDate(Converted(from, to, d)) # d
  /\ d \in Published[s]
  /\ fetchedDays' = fetchedDays + 1
  /\ stored' = [stored EXCEPT ![s] = @ \union {d}]
  /\ torn' = torn \union (IF Unbroken(s, stored[s] \union {d}) /\ WorkersAt(s) = {} THEN {} ELSE {s})
  /\ UNCHANGED <<marketDay, heldSince, seeded, scopeState, workers, syncRuns, claimed>>

NewPosition(c, d) ==
  /\ d < heldSince[c]
  /\ heldSince' = [heldSince EXCEPT ![c] = d]
  /\ UNCHANGED <<marketDay, stored, seeded, scopeState, workers, syncRuns, fetchedDays>>
  /\ UNCHANGED <<torn, claimed>>

NextDay ==
  /\ marketDay < LastDay
  /\ marketDay' = marketDay + 1
  /\ UNCHANGED <<heldSince, stored, seeded, scopeState, workers, syncRuns, fetchedDays>>
  /\ UNCHANGED <<torn, claimed>>

MarketNext ==
  \/ \E w \in Workers :
       \/ BeginSync(w) \/ OpenScope(w) \/ ReadBounds(w) \/ FetchSpan(w) \/ WriteRow(w)
       \/ LookForStubs(w) \/ SaveSuccess(w) \/ SaveFailure(w) \/ ProcessEnds(w)
       \/ \E s \in Mappings : RefreshMapping(w, s)
  \/ \E c \in Conversions : Convert(c[1], c[2], c[3])
  \/ \E p \in Positions : NewPosition(p[1], p[2])
  \/ NextDay

MarketSpec == MarketInit /\ [][MarketNext]_marketVars

-----------------------------------------------------------------------------
MarketTypeOK ==
  /\ marketDay \in MarketDays /\ heldSince \in [Quoted -> MarketDays \union {NotHeld}]
  /\ stored \in [Series -> SUBSET MarketDays] /\ seeded \in [Series -> SUBSET MarketDays]
  /\ \A s \in Series : seeded[s] \subseteq stored[s] /\ stored[s] \subseteq Published[s]
  /\ \A s \in Series : scopeState[s].covered \in {NoDay} \union MarketDays
  /\ syncRuns \in 0..MaxRuns /\ fetchedDays \in 0..MaxAsked /\ torn \subseteq Series

(* A synchronisation asks for what its bounds show that it lacks, so that  *)
(* a hole is never filled.  However synchronisations overlap and fail, a   *)
(* series in which no process ended half way, no conversion fetched a day  *)
(* ahead and no price came from an incomplete rate has none once nobody    *)
(* writes it; what a reconciliation found whole and reported as done it has, *)
(* from the first day asked for on, in rows of its own; and no state row   *)
(* tells of a day that is not there.                                         *)
HistoryIsWhole ==
  \A s \in Series :
    /\ s \in torn \/ WorkersAt(s) # {} \/ DatasetOf(s) = "inflation" \/ Unbroken(s, stored[s])
    /\ claimed[s] \intersect Published[s] \subseteq stored[s] \ seeded[s]
    /\ scopeState[s].covered \in stored[s] \union {NoDay}

(* Lists convert with rates loaded beforehand and details with the rows of *)
(* the database: both stand on the same quotes, of the pair or of its two   *)
(* legs through the pivot, whatever days are missing, and differ only when  *)
(* the pivot was not among the currencies loaded, in that the first refuse. *)
ConversionsAgree ==
  \A from, to \in Quoted, d \in MarketDays : from # to =>
    LET route == Converted(from, to, d) IN
    \A cs \in {{from, to}, {from, to, Pivot}} :
      ConvertedCached(cs, from, to, d) =
        IF Len(route) = 2 /\ Pivot \notin cs THEN NoRoute ELSE route

=============================================================================
