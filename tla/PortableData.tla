---------------------------- MODULE PortableData ----------------------------
(***************************************************************************)
(* Taking a household out to a file and into an installation again: the    *)
(* browser reads the tables one request at a time and writes the bundle    *)
(* (frontend/src/domains/portable-data); the backend adds a bundle to what *)
(* is there, or puts it in its place, in one transaction that renames      *)
(* every identity (backend/core/portable_data.py).                         *)
(*                                                                         *)
(* A row keeps its name and its references; the sums, dates, valuations    *)
(* and events that hang from a position go wherever it goes.  Of the       *)
(* currencies only this is kept: whether a movement balances in each one.  *)
(***************************************************************************)
EXTENDS Integers, FiniteSets, FiniteSetsExt, Functions, Bags

CONSTANTS
  Homes,       \* households an installation may start with
  Bundles,     \* files made somewhere else
  NewPeople,   \* names of people who may join
  MaxHomeEdits, \* bound: changes to the household
  MaxTransfers \* bound: files taken out, and brought in

VARIABLES
  home,    \* table -> identity -> row
  next,    \* table -> the next identity: none is used again
  read,    \* the tables an export has read so far
  file,    \* the file at hand
  resting, \* what else of the program protects rows of the household
  edits, transfers

portableVars == <<home, next, read, file, resting, edits, transfers>>

Tables == {"people", "titles", "assets", "debts", "books", "moves", "lines", "links"}
Numbered == Tables \ {"links"}
Empty == [i \in {} |-> 0]
Nil == 0
NoPosition == <<"nothing", Nil>>          \* the reference that names no position
SystemBooks == {"equity", "adjustment"}

\* References to positions are pairs, as an asset and a debt may share a number.
Refs(h) == {<<"asset", i>> : i \in DOMAIN h.assets} \union {<<"debt", i>> : i \in DOMAIN h.debts}
RowAt(h, r) == IF r[1] = "asset" THEN h.assets[r[2]] ELSE h.debts[r[2]]
Named(h, name) == {b \in DOMAIN h.books : h.books[b].name = name}
Joined(f, g) == [i \in DOMAIN f \union DOMAIN g |-> IF i \in DOMAIN g THEN g[i] ELSE f[i]]
Rank(D, i) == Cardinality({j \in D : j < i})

-----------------------------------------------------------------------------
(* What the household does meanwhile *)

Counted(h) == [t \in Numbered |-> Max({next[t]} \union {i + 1 : i \in DOMAIN h[t]})]

Home(h) ==
  /\ edits < MaxHomeEdits /\ edits' = edits + 1
  /\ home' = h /\ next' = Counted(h)
  /\ UNCHANGED <<read, file, resting, transfers>>

\* A movement between two accounts; one in two currencies balances in neither.
BookMove(legs, balanced) ==
  Home([home EXCEPT !.moves = Joined(@, next.moves :> [legs |-> legs, balanced |-> balanced,
                                                      opening |-> NoPosition, title |-> Nil])])

\* delete_ledger_account: its movements go, and its position is counted by hand again.
DeleteBook(b) ==
  LET unlink(rows, kind) ==
        [i \in DOMAIN rows |-> IF home.books[b].of = <<kind, i>> /\ rows[i].book = b
                               THEN [rows[i] EXCEPT !.book = Nil] ELSE rows[i]]
  IN /\ home.books[b].name \notin SystemBooks
     /\ Home([home EXCEPT !.assets = unlink(@, "asset"), !.debts = unlink(@, "debt"),
                          !.moves = Restrict(@, {m \in DOMAIN @ : b \notin @[m].legs}),
                          !.books = Restrict(@, DOMAIN @ \ {b})])

\* Deleting a position takes its generated lines; its ownership link and the
\* note of its opening still name it.
DeletePosition(r) ==
  LET gone(kind) == IF r[1] = kind THEN {r[2]} ELSE {} IN
  Home([home EXCEPT
          !.assets = Restrict(@, DOMAIN @ \ gone("asset")),
          !.debts = [i \in DOMAIN @ \ gone("debt") |->
                       IF @[i].financing \in gone("asset")
                       THEN [@[i] EXCEPT !.financing = Nil] ELSE @[i]],
          !.books = [b \in DOMAIN @ |->
                       IF @[b].of = r THEN [@[b] EXCEPT !.of = NoPosition] ELSE @[b]],
          !.lines = Restrict(@, {l \in DOMAIN @ : @[l].debt \notin gone("debt")})])

Openings(h, r) ==
  {m \in DOMAIN h.moves : h.moves[m].opening = r /\ RowAt(h, r).book \in h.moves[m].legs}

\* The budget lines of a debt, written again with its present owner.
WithLine(h, d) ==
  LET r == <<"debt", d>>
      line == [name |-> h.debts[d].name, debt |-> d, planned |-> FALSE,
               title |-> IF r \in DOMAIN h.links THEN h.links[r] ELSE Nil]
      old == {l \in DOMAIN h.lines : h.lines[l].debt = d}
  IN [h EXCEPT !.lines = Joined(@, (IF old = {} THEN next.lines ELSE Min(old)) :> line)]

\* A system account, made when the household has none.
SystemBook(h, name) == IF Named(h, name) = {} THEN next.books ELSE Min(Named(h, name))
WithSystemBook(h, name) ==
  [h EXCEPT !.books = Joined(@, SystemBook(h, name) :> [name |-> name, of |-> NoPosition])]

WithOpening(h, r) ==
  IF RowAt(h, r).book \notin DOMAIN h.books \/ Openings(h, r) # {} THEN h
  ELSE [WithSystemBook(h, "equity") EXCEPT
          !.moves = Joined(@, next.moves :> [legs |-> {RowAt(h, r).book, SystemBook(h, "equity")},
                                             balanced |-> TRUE, opening |-> r, title |-> Nil])]

\* Saving a position: its opening is found by its note and its account, or
\* written; the lines of a debt are written in any case.
SavePosition(r) ==
  LET opened == WithOpening(home, r)
  IN Home(IF r[1] = "debt" THEN WithLine(opened, r[2]) ELSE opened)

\* A member comes with a title of their own.
AddPerson(name) ==
  /\ name \notin Range(home.people)
  /\ Home([home EXCEPT
             !.people = Joined(@, next.people :> name),
             !.titles = Joined(@, next.titles :> [kind |-> "individual", who |-> {next.people},
                                                  basis |-> "fixed"])])

\* A decision of the plan puts a line in the budget, under a name it reserves.
PlanLine ==
  Home([home EXCEPT !.lines = Joined(@, next.lines :> [name |-> "decision", debt |-> Nil,
                                                       planned |-> TRUE, title |-> Nil])])

\* A portfolio position comes to protect assets and accounts, an ownership
\* period or a decision comes to protect titles and people.
Rest(what) ==
  /\ edits < MaxHomeEdits /\ edits' = edits + 1
  /\ what \notin resting /\ resting' = resting \union {what}
  /\ UNCHANGED <<home, next, read, file, transfers>>

-----------------------------------------------------------------------------
(* Taking a file out *)

NoFile == [rows |-> [t \in Tables |-> Empty], premium |-> FALSE, version |-> "none"]

\* What the bundle has room for: a line without its owner and its debt, a title
\* without the incomes its shares follow.
Portable(t, rows) ==
  CASE t = "lines"  -> [l \in DOMAIN rows |-> [rows[l] EXCEPT !.debt = Nil, !.title = Nil]]
    [] t = "titles" -> [i \in DOMAIN rows |-> [rows[i] EXCEPT !.basis = "fixed"]]
    [] OTHER        -> rows

\* The movements are read first; the other requests go out together and are
\* answered in any order, each with what its table holds by then.
ReadTable(t) ==
  /\ read # {} \/ transfers < MaxTransfers
  /\ t = "moves" <=> read = {}
  /\ t \notin read
  /\ file' = [rows |-> [IF read = {} THEN NoFile.rows ELSE file.rows
                          EXCEPT ![t] = Portable(t, home[t])],
              raw  |-> [IF read = {} THEN NoFile.rows ELSE file.raw EXCEPT ![t] = home[t]],
              premium |-> TRUE, version |-> "ours"]
  /\ read' = IF read = Tables \ {t} THEN {} ELSE read \union {t}
  /\ transfers' = IF read = {} THEN transfers + 1 ELSE transfers
  /\ UNCHANGED <<home, next, resting, edits>>

\* Or a file comes from somewhere else.
BringFile(f) ==
  /\ read = {} /\ transfers < MaxTransfers /\ transfers' = transfers + 1
  /\ file' = [rows |-> [t \in Tables |-> Portable(t, f.rows[t])], raw |-> f.rows,
              premium |-> f.premium, version |-> f.version]
  /\ UNCHANGED <<home, next, read, resting, edits>>

-----------------------------------------------------------------------------
(* Bringing a file in *)

\* What stays of the household: a replacement clears its wealth, its budget and,
\* if the file has people, its people and their titles.
Staying(h, f, mode) ==
  IF mode = "append" THEN h
  ELSE [t \in Tables |-> IF t \in {"people", "titles"} /\ ~f.premium THEN h[t] ELSE Empty]

Incoming(f) == IF f.premium THEN f.rows.people ELSE Empty

\* New identities for the rows D of a table, in the order of the old ones.
Renumber(n, D) == [i \in D |-> n + Rank(D, i)]

NewPersonIds(f) == Renumber(next.people, DOMAIN Incoming(f))

SharedTitles(f) ==
  IF f.premium
  THEN {i \in DOMAIN f.rows.titles : /\ f.rows.titles[i].kind = "shared"
                                     /\ f.rows.titles[i].who \intersect DOMAIN Incoming(f) # {}}
  ELSE {}

\* The title a new member comes with stands for the one in the file.
NewTitleIds(f) ==
  LET own(m) == next.titles + Rank(DOMAIN Incoming(f), m)
      owned == {i \in DOMAIN f.rows.titles : /\ f.premium /\ f.rows.titles[i].kind = "individual"
                                             /\ f.rows.titles[i].who \subseteq DOMAIN Incoming(f)}
  IN [i \in owned \union SharedTitles(f) |->
        IF i \in owned THEN own(Max(f.rows.titles[i].who))
        ELSE next.titles + Cardinality(DOMAIN Incoming(f)) + Rank(SharedTitles(f), i)]

NewTitles(f) ==
  LET person == NewPersonIds(f)
      ownTitles == [i \in next.titles..(next.titles + Cardinality(DOMAIN person) - 1) |->
                      [kind |-> "individual", basis |-> "fixed",
                       who |-> {next.people + i - next.titles}]]
      shared == [j \in {NewTitleIds(f)[i] : i \in SharedTitles(f)} |->
                   LET i == CHOOSE i \in SharedTitles(f) : NewTitleIds(f)[i] = j IN
                   [kind |-> "shared", basis |-> "fixed",
                    who |-> {person[m] : m \in f.rows.titles[i].who \intersect DOMAIN person}]]
  IN Joined(ownTitles, shared)

NewIds(f, t) == Renumber(next[t], DOMAIN f.rows[t])
Mapped(map, i) == IF i \in DOMAIN map THEN map[i] ELSE Nil

\* A reference to a position of the file, in the identities it takes here.
NewRef(f, r) ==
  LET new == IF r[1] = "asset" THEN NewIds(f, "assets") ELSE NewIds(f, "debts")
  IN IF r # NoPosition /\ r[2] \in DOMAIN new THEN <<r[1], new[r[2]]>> ELSE NoPosition

\* Faults: notes keep the numbers of the file; a debt's number is looked up among the assets.
OldNote(f, r) == r
AssetNote(f, r) ==
  IF r # NoPosition /\ r[2] \in DOMAIN f.rows.assets THEN <<r[1], NewIds(f, "assets")[r[2]]>> ELSE r

\* The position in the note of an opening; a position the file lacks stays as it is.
NewNote(f, r) == IF NewRef(f, r) = NoPosition THEN r ELSE NewRef(f, r)

\* Rows under their new identities.
Renamed(ids, rows) == [j \in Range(ids) |-> rows[CHOOSE i \in DOMAIN ids : ids[i] = j]]

\* The account that balances what the file leaves unbalanced, made when missing.
Adjusting(f) == \E m \in DOMAIN f.rows.moves : ~f.rows.moves[m].balanced
Adjuster(f, books) ==
  LET there == {b \in DOMAIN books : books[b].name = "adjustment"}
  IN IF there # {} THEN Min(there) ELSE next.books + Cardinality(DOMAIN f.rows.books)

\* Links are made last and write the lines of the debts they name.
Links(f) ==
  {r \in DOMAIN f.rows.links : /\ f.premium /\ NewRef(f, r) # NoPosition
                               /\ f.rows.links[r] \in DOMAIN NewTitleIds(f)}
LinkedDebts(f) == {r \in Links(f) : r[1] = "debt"}

Generated(f) ==
  LET first == next.lines + Cardinality(DOMAIN f.rows.lines)
      ids == [r \in LinkedDebts(f) |-> first + Rank({s[2] : s \in LinkedDebts(f)}, r[2])]
  IN Renamed(ids, [r \in LinkedDebts(f) |->
       [name |-> f.rows.debts[r[2]].name, debt |-> NewRef(f, r)[2], planned |-> FALSE,
        title |-> NewTitleIds(f)[f.rows.links[r]]]])

NewBooks(f) ==
  LET rows == Renamed(NewIds(f, "books"), f.rows.books)
  IN [b \in DOMAIN rows |-> [rows[b] EXCEPT !.of = NewRef(f, @)]]

NewMoves(f, books) ==
  LET rows == Renamed(NewIds(f, "moves"), f.rows.moves) IN
  [m \in DOMAIN rows |->
     [legs |-> {NewIds(f, "books")[b] : b \in rows[m].legs}
                 \union (IF rows[m].balanced THEN {} ELSE {Adjuster(f, books)}),
      balanced |-> TRUE,
      opening |-> NewNote(f, rows[m].opening),
      title |-> Mapped(NewTitleIds(f), rows[m].title)]]

\* Once the accounts are in, positions that name one in the file follow it here.
NewTracking(f, b) == Mapped(NewIds(f, "books"), b)

NewAssets(f) ==
  LET rows == Renamed(NewIds(f, "assets"), f.rows.assets)
  IN [a \in DOMAIN rows |-> [rows[a] EXCEPT !.book = NewTracking(f, @)]]

NewDebts(f) ==
  LET rows == Renamed(NewIds(f, "debts"), f.rows.debts)
  IN [d \in DOMAIN rows |-> [rows[d] EXCEPT !.book = NewTracking(f, @),
                                            !.financing = Mapped(NewIds(f, "assets"), @)]]

NewLines(f) == Renamed(NewIds(f, "lines"), f.rows.lines)

NewLinks(f) ==
  LET ids == [r \in Links(f) |-> NewRef(f, r)]
  IN Renamed(ids, [r \in Links(f) |-> NewTitleIds(f)[f.rows.links[r]]])

Imported(f, mode) ==
  LET kept == Staying(home, f, mode)
      books == Joined(kept.books, NewBooks(f))
      adjustment == Adjuster(f, books) :> [name |-> "adjustment", of |-> NoPosition]
      lines == Joined(NewLines(f), Generated(f))
  IN [people |-> Joined(kept.people, Renamed(NewPersonIds(f), Incoming(f))),
      titles |-> Joined(kept.titles, NewTitles(f)),
      assets |-> Joined(kept.assets, NewAssets(f)),
      debts  |-> Joined(kept.debts, NewDebts(f)),
      books  |-> IF Adjusting(f) THEN Joined(adjustment, books) ELSE books,
      moves  |-> Joined(kept.moves, NewMoves(f, books)),
      lines  |-> Joined(kept.lines, lines),
      links  |-> Joined(kept.links, NewLinks(f))]

\* The version guards a replacement; what rests on a row refuses its clearing; a
\* name already there, a title left without part of its shares, a line of a
\* decision or an entry on an account the file lacks refuse the whole file.
Accepted(f, mode) ==
  /\ mode = "replace" => /\ f.version = "ours" /\ "wealth" \notin resting
                         /\ f.premium => "people" \notin resting
  /\ Range(Incoming(f)) \intersect Range(Staying(home, f, mode).people) = {}
  /\ \A i \in SharedTitles(f) : f.rows.titles[i].who \subseteq DOMAIN Incoming(f)
  /\ \A l \in DOMAIN f.rows.lines : ~f.rows.lines[l].planned
  /\ \A m \in DOMAIN f.rows.moves : f.rows.moves[m].legs \subseteq DOMAIN f.rows.books

\* import_portable_bundle: one transaction, so a refusal leaves everything as it was.
Import(mode) ==
  /\ read = {} /\ file # NoFile /\ Accepted(file, mode)
  /\ transfers < MaxTransfers /\ transfers' = transfers + 1
  /\ home' = Imported(file, mode)
  /\ next' = Counted(home')
  /\ UNCHANGED <<read, file, resting, edits>>

PortableInit ==
  /\ home \in Homes /\ next = [t \in Numbered |-> Max({1} \union {i + 1 : i \in DOMAIN home[t]})]
  /\ read = {} /\ file = NoFile /\ resting = {} /\ edits = 0 /\ transfers = 0

PortableNext ==
  \/ \E legs \in SUBSET DOMAIN home.books, balanced \in BOOLEAN :
       Cardinality(legs) = 2 /\ BookMove(legs, balanced)
  \/ \E b \in DOMAIN home.books : DeleteBook(b)
  \/ \E r \in Refs(home) : DeletePosition(r) \/ SavePosition(r)
  \/ \E name \in NewPeople : AddPerson(name)
  \/ PlanLine
  \/ \E what \in {"wealth", "people"} : Rest(what)
  \/ \E t \in Tables : ReadTable(t)
  \/ \E f \in Bundles : BringFile(f)
  \/ \E mode \in {"append", "replace"} : Import(mode)

PortableSpec == PortableInit /\ [][PortableNext]_portableVars

-----------------------------------------------------------------------------
(* Properties *)

TitleRefs(h) == DOMAIN h.titles \union {Nil}
MaybeRefs(h) == Refs(h) \union {NoPosition}

\* The household is made of rows whose references name rows, except those that
\* outlive what they name: ownership links, the notes of openings, and the account
\* of a position that a file read in pieces brought without the account's mark.
PortableTypeOK ==
  /\ \A i \in DOMAIN home.titles : home.titles[i].who \subseteq DOMAIN home.people
  /\ \A d \in DOMAIN home.debts : home.debts[d].financing \in DOMAIN home.assets \union {Nil}
  /\ \A b \in DOMAIN home.books : home.books[b].of \in MaybeRefs(home)
  /\ \A m \in DOMAIN home.moves : /\ home.moves[m].legs \subseteq DOMAIN home.books
                                  /\ home.moves[m].title \in TitleRefs(home)
  /\ \A l \in DOMAIN home.lines : /\ home.lines[l].debt \in DOMAIN home.debts \union {Nil}
                                  /\ home.lines[l].title \in TitleRefs(home)
  /\ Range(home.links) \subseteq DOMAIN home.titles
  /\ \A t \in Numbered : \A i \in DOMAIN home[t] : i < next[t]
  /\ read \subseteq Tables /\ edits \in 0..MaxHomeEdits /\ transfers \in 0..MaxTransfers

\* A household as names only, so that two can be compared whatever the identities.
NameOf(rows, i) == IF i \in DOMAIN rows THEN rows[i].name ELSE "none"
NameOfRef(h, r) == IF r \in Refs(h) THEN <<r[1], RowAt(h, r).name>> ELSE NoPosition
PictureOfTitle(h, i) ==
  IF i \notin DOMAIN h.titles THEN NoPosition
  ELSE <<h.titles[i].kind, {h.people[p] : p \in h.titles[i].who}>>
OwnerOf(h, r) == IF r \in DOMAIN h.links THEN PictureOfTitle(h, h.links[r]) ELSE NoPosition

Tally(rows) == [x \in Range(rows) |-> Cardinality({i \in DOMAIN rows : rows[i] = x})]

Picture(h) ==
  [people |-> Tally(h.people),
   titles |-> Tally([i \in DOMAIN h.titles |-> <<PictureOfTitle(h, i), h.titles[i].basis>>]),
   positions |-> Tally([r \in Refs(h) |->
     <<NameOfRef(h, r), NameOf(h.books, RowAt(h, r).book), OwnerOf(h, r),
       IF r[1] = "debt" THEN NameOf(h.assets, RowAt(h, r).financing) ELSE "none">>]),
   books |-> Tally([b \in DOMAIN h.books |-> <<h.books[b].name, NameOfRef(h, h.books[b].of)>>]),
   moves |-> Tally([m \in DOMAIN h.moves |->
     <<{h.books[b].name : b \in h.moves[m].legs}, h.moves[m].balanced,
       NameOfRef(h, h.moves[m].opening), PictureOfTitle(h, h.moves[m].title)>>]),
   lines |-> Tally([l \in DOMAIN h.lines |->
     <<h.lines[l].name, NameOf(h.debts, h.lines[l].debt), PictureOfTitle(h, h.lines[l].title)>>])]

\* What a file brings: its household, with what the file does not say dropped (the
\* incomes behind a title, the owners of lines), references to rows it lacks
\* dropped, unbalanced movements balanced, and a line for every debt it links.
Bringing(f) ==
  LET adjuster == -1
      whole(i) == /\ f.premium /\ i \in DOMAIN f.raw.titles
                  /\ f.raw.titles[i].who \subseteq DOMAIN Incoming(f)
      there == [f.raw EXCEPT
        !.people = Incoming(f),
        !.titles = Restrict(@, {i \in DOMAIN @ : whole(i)}),
        !.links = Restrict(@, {r \in DOMAIN @ : whole(@[r])}),
        !.books = Joined(@, adjuster :> [name |-> "adjustment", of |-> NoPosition]),
        !.moves = [m \in DOMAIN @ |-> [@[m] EXCEPT
                     !.legs = IF f.raw.moves[m].balanced THEN @ ELSE @ \union {adjuster},
                     !.balanced = TRUE]]]
      own == [p \in DOMAIN there.people |-> <<"individual", {there.people[p]}>>]
      shared == {i \in DOMAIN there.titles : there.titles[i].kind = "shared"}
      owed == {r \in Refs(there) : r[1] = "debt" /\ OwnerOf(there, r) # NoPosition}
      name(r) == RowAt(there, r).name
  IN [Picture(there) EXCEPT
        !.titles = Tally([p \in DOMAIN own |-> <<own[p], "fixed">>])
                   (+) Tally([i \in shared |-> <<PictureOfTitle(there, i), "fixed">>]),
        !.books = Tally([b \in DOMAIN f.raw.books |->
                           <<f.raw.books[b].name, NameOfRef(f.raw, f.raw.books[b].of)>>]),
        !.lines = Tally([l \in DOMAIN f.raw.lines |-> <<f.raw.lines[l].name, "none", NoPosition>>])
                  (+) Tally([r \in owed |-> <<name(r), name(r), OwnerOf(there, r)>>])]

\* Import, by names: the household afterwards is what the import had to keep and
\* what the file brings, row for row, whatever identities either uses; and what
\* was there keeps what it referred to.  A file of the household itself that
\* replaces it so restores it, except for the losses named above.
ImportCarries ==
  [][\A mode \in {"append", "replace"} : Import(mode) =>
       LET keeps(t) == mode = "append" \/ (t \in {"people", "titles"} /\ ~file.premium)
           made == IF /\ Adjusting(file) /\ Named(file.rows, "adjustment") = {}
                      /\ mode = "replace" \/ Named(home, "adjustment") = {}
                   THEN SetToBag({<<"adjustment", NoPosition>>}) ELSE EmptyBag
           extra(t) == IF t = "books" THEN made ELSE EmptyBag
       IN \A t \in DOMAIN Picture(home) :
            Picture(home')[t] =
              (IF keeps(t) THEN Picture(home)[t] ELSE EmptyBag) (+) Bringing(file)[t] (+) extra(t)
    ]_portableVars

\* The account of a position has at most one opening balance, whichever way the
\* position came here and however often it is saved.
OneOpening ==
  \A r \in Refs(home) :
    Cardinality({m \in DOMAIN home.moves : /\ home.moves[m].opening # NoPosition
                                           /\ RowAt(home, r).book \in home.moves[m].legs}) <= 1
=============================================================================
