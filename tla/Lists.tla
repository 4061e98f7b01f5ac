-------------------------------- MODULE Lists --------------------------------
(***************************************************************************)
(* Lists of documents and of master records: filters, order, pages, the    *)
(* neighbours of a record, and the exact counts that each app process      *)
(* keeps.  A write bumps its process's write generation when a statement   *)
(* runs and becomes visible when its transaction commits; a page is        *)
(* answered in several statements.  Names and sort values are numbers;     *)
(* what a search looks through is the set of words of a row.               *)
(***************************************************************************)
EXTENDS Integers, FiniteSets, SequencesExt

CONSTANTS
    Names,          \* names of the records
    Kind,           \* Kind[n]: "document" or "master"
    Row0,           \* Row0[n]: NoRow, or [status, value, words, hidden] at the start
    NoRow, Null, All,
    Changes,        \* what a write may do: [name, row]
    Queries,        \* what is asked: [kind, status, hidden, search, column, order, hours]
    Offsets, PageLimit,
    ListReaders, ListWriters,
    ProcessAt,      \* the app process of a reader or writer
    Backend,        \* "sqlite" or "postgres"
    CacheTTL, CacheMax,
    LastTick, MaxStatements      \* bounds

ASSUME ListsAssumption ==
    /\ CacheTTL \in Nat \ {0}
    /\ IsFiniteSet(Names) /\ Names \subseteq Int /\ All \notin Names /\ Null \notin Int
    /\ Row0 = [n \in Names |-> Row0[n]]
    /\ \A row \in {Row0[n] : n \in Names} \cup {c.row : c \in Changes} :
          row # NoRow => row.value \in Int \cup {Null}
    /\ \A q \in Queries : "order" \in DOMAIN q

VARIABLES
    versions,       \* the committed tables, each with the time it was committed
    pending,        \* pending[w]: the change a writer has executed and not committed
    generation,     \* generation[p]: statements that wrote, in process p
    counts,         \* counts[p]: cached counts [key, generation, stamp, total]
    page,           \* page[r]: the page a reader is answering
    ticks           \* time

listVars == <<versions, pending, generation, counts, page, ticks>>

AppProcesses == {ProcessAt[x] : x \in ListReaders \cup ListWriters}
NoPage == [pc |-> "idle", query |-> All, window |-> All, offset |-> 0, rows |-> <<>>,
           from |-> 0, generation |-> 0, stamp |-> 0, total |-> All]
TableNow == Last(versions).rows

-----------------------------------------------------------------------------
(* Which rows, in which order *)

\* resolve_time_filter: the last hours before now.
Window(q) == IF q.hours = 0 THEN All ELSE [since |-> ticks - q.hours, until |-> ticks]

\* time_predicate; a row without a time is in no window.
InWindow(value, w) == w # All => value # Null /\ w.since <= value /\ value < w.until

\* _search_clause: the words of the row's own columns and of its lines.
Found(q, row) == q.search = All \/ q.search \in row.words

\* _filter_atom: equality, when the field is filtered at all.
HasField(q, row) == q.status \in {All, row.status}

\* _exclude_discarded, _with_active_filter: voided drafts and retired masters are
\* left out unless they are asked for.
Listed(q, row) == q.hidden \/ ~row.hidden

\* _filter_where, _master_list_where.
Matching(q, w, rows) ==
    {n \in Names : /\ Kind[n] = q.kind
                   /\ rows[n] # NoRow
                   /\ HasField(q, rows[n]) /\ Listed(q, rows[n]) /\ Found(q, rows[n])
                   /\ InWindow(rows[n].value, w)}

SortKey(q, rows, n) == IF q.column = "name" THEN n ELSE rows[n].value

Above(q, a, b) == IF q.order = "asc" THEN a < b ELSE a > b

\* Masters ask for NULLS LAST; documents leave it to the database, for which a NULL
\* is the smallest value (SQLite) or the largest (PostgreSQL).
NullsFirst(q) ==
    q.kind = "document" /\ (Backend = "postgres" <=> q.order = "desc")

\* _order_clause, _master_sort_sql: by the column, then by name.
SortsBefore(q, rows, m, n) ==
    LET a == SortKey(q, rows, m)
        b == SortKey(q, rows, n)
    IN  IF (a = Null) # (b = Null) THEN (a = Null) = NullsFirst(q)
        ELSE \/ a # b /\ Above(q, a, b)
             \/ a = b /\ Above(q, m, n)

\* Records in the order of a list: at place i the one that i - 1 others come before.
InOrder(q, rows, S) ==
    [i \in 1..Cardinality(S) |->
        CHOOSE n \in S : Cardinality({m \in S : SortsBefore(q, rows, m, n)}) = i - 1]

\* The whole list.
Listing(q, w, rows) == InOrder(q, rows, Matching(q, w, rows))

\* LIMIT and OFFSET.
PageOf(q, w, rows, offset) ==
    LET list == Listing(q, w, rows)
    IN  SubSeq(list, offset + 1, Min({Len(list), offset + PageLimit}))

-----------------------------------------------------------------------------
(* The neighbours of a record *)

\* ORDER BY ... LIMIT 1: the first of some records, or the last when walking back.
Closest(q, rows, S, toward) ==
    IF S = {} THEN All
    ELSE CHOOSE m \in S : \A n \in S \ {m} :
            IF toward = "next" THEN SortsBefore(q, rows, m, n) ELSE SortsBefore(q, rows, n, m)

\* Faulty: the neighbour is sought by the sort column alone.
Keyset_NoName(q, rows, n, toward) ==
    LET key(m) == SortKey(q, rows, m)
        beyond(a, b) == IF toward = "next" THEN Above(q, a, b) ELSE Above(q, b, a)
    IN  {m \in Names : key(m) # Null /\ key(n) # Null /\ beyond(key(n), key(m))}

\* neighbor of adjacent_documents: comparisons with NULL are not true.
Keyset(q, rows, n, toward) ==
    LET key(m) == SortKey(q, rows, m)
        beyond(a, b) == IF toward = "next" THEN Above(q, a, b) ELSE Above(q, b, a)
    IN  {m \in Names : /\ key(m) # Null /\ key(n) # Null
                       /\ \/ key(m) # key(n) /\ beyond(key(n), key(m))
                          \/ key(m) = key(n) /\ beyond(n, m)}

\* adjacent_documents
AdjacentDocument(q, w, rows, n, toward) ==
    LET live == {m \in Names : rows[m] # NoRow}
    IN  Closest(q, rows, Matching(q, w, rows) \cap {m \in live : m \in Keyset(q, rows, n, toward)}, toward)

\* neighbor of adjacent_master: rows without a value come after all others.
MasterKeyset(q, rows, n, toward) ==
    LET key(m) == SortKey(q, rows, m)
        beyond(a, b) == IF toward = "next" THEN Above(q, a, b) ELSE Above(q, b, a)
        byName == {m \in Names : key(m) = Null /\ beyond(n, m)}
        valued == {m \in Names : key(m) # Null}
    IN  IF key(n) = Null THEN IF toward = "next" THEN byName ELSE byName \cup valued
        ELSE {m \in valued : \/ key(m) # key(n) /\ beyond(key(n), key(m))
                             \/ key(m) = key(n) /\ beyond(n, m)}
             \cup (IF toward = "next" THEN {m \in Names : key(m) = Null} ELSE {})

\* adjacent_master
AdjacentMaster(q, w, rows, n, toward) ==
    LET live == {m \in Names : rows[m] # NoRow}
    IN  Closest(q, rows, Matching(q, w, rows) \cap {m \in live : m \in MasterKeyset(q, rows, n, toward)}, toward)

\* The record above or below one in the list it was opened from; none when it has
\* left that list.
Adjacent(q, w, rows, n, toward) ==
    IF n \notin Matching(q, w, rows) THEN All
    ELSE IF q.kind = "document" THEN AdjacentDocument(q, w, rows, n, toward)
    ELSE AdjacentMaster(q, w, rows, n, toward)

-----------------------------------------------------------------------------
(* Counts *)

CountKey(q) == [kind |-> q.kind, status |-> q.status, hidden |-> q.hidden, search |-> q.search]

\* Faulty: an entry stays until a write of this process.
Reusable_ForEver(c, key, p) == c.key = key /\ c.generation = generation[p]

\* count_documents, count_query_cached: no write since, and younger than the TTL.
Reusable(c, key, p) ==
    c.key = key /\ c.generation = generation[p] /\ ticks - c.stamp < CacheTTL

\* A full cache is emptied first.
WithEntry(p, entry) ==
    LET kept == IF Cardinality(counts[p]) >= CacheMax THEN {} ELSE counts[p]
    IN  {c \in kept : c.key # entry.key} \cup {entry}

-----------------------------------------------------------------------------
(* Steps *)

ListsInit ==
    /\ versions = <<[rows |-> Row0, since |-> 0]>>
    /\ pending = [w \in ListWriters |-> All]
    /\ generation = [p \in AppProcesses |-> 0]
    /\ counts = [p \in AppProcesses |-> {}]
    /\ page = [r \in ListReaders |-> NoPage]
    /\ ticks = 0

\* execute: a writing statement bumps the generation; its row stays locked.
Execute(w, change) ==
    /\ pending[w] = All /\ generation[ProcessAt[w]] < MaxStatements
    /\ \A v \in ListWriters : pending[v] # All => pending[v].name # change.name
    /\ TableNow[change.name] # change.row
    /\ pending' = [pending EXCEPT ![w] = change]
    /\ generation' = [generation EXCEPT ![ProcessAt[w]] = @ + 1]
    /\ UNCHANGED <<versions, counts, page, ticks>>

\* commit: the connection is committed, with no statement.
CommitChange(w) ==
    /\ pending[w] # All
    /\ versions' = Append(versions,
          [rows |-> [TableNow EXCEPT ![pending[w].name] = pending[w].row], since |-> ticks])
    /\ pending' = [pending EXCEPT ![w] = All]
    /\ UNCHANGED <<generation, counts, page, ticks>>

\* The workflow fails: ROLLBACK TO SAVEPOINT is a statement.
RollbackChange(w) ==
    /\ pending[w] # All
    /\ pending' = [pending EXCEPT ![w] = All]
    /\ generation' = [generation EXCEPT ![ProcessAt[w]] = @ + 1]
    /\ UNCHANGED <<versions, counts, page, ticks>>

\* The window is resolved once, for all statements of a page.
Asked(first, q, offset) ==
    [NoPage EXCEPT !.pc = first, !.query = q, !.window = Window(q), !.offset = offset]

\* list_docs: a list of documents fetches its rows and then counts.
OpenDocuments(r, q, offset) ==
    /\ page[r].pc = "idle" /\ q.kind = "document"
    /\ page' = [page EXCEPT ![r] = Asked("rows", q, offset)]
    /\ UNCHANGED <<versions, pending, generation, counts, ticks>>

\* list_masters: a list of masters counts first.
OpenMasters(r, q, offset) ==
    /\ page[r].pc = "idle" /\ q.kind = "master"
    /\ page' = [page EXCEPT ![r] = Asked("count", q, offset)]
    /\ UNCHANGED <<versions, pending, generation, counts, ticks>>

\* list_documents, list_master_records
FetchRows(r) ==
    LET g == page[r]
    IN  /\ g.pc = "rows"
        /\ page' = [page EXCEPT ![r] =
              [g EXCEPT !.pc = IF g.query.kind = "document" THEN "count" ELSE "done",
                        !.rows = PageOf(g.query, g.window, TableNow, g.offset)]]
        /\ UNCHANGED <<versions, pending, generation, counts, ticks>>

\* count_documents: a moving window is not cached.
LookUp(r) ==
    LET g == page[r]
        p == ProcessAt[r]
        hits == {c \in counts[p] : g.window = All /\ Reusable(c, CountKey(g.query), p)}
        asked == [g EXCEPT !.from = Len(versions), !.generation = generation[p], !.stamp = ticks]
        next == IF g.query.kind = "document" THEN "done" ELSE "rows"
    IN  /\ g.pc = "count"
        /\ page' = [page EXCEPT ![r] =
              IF hits = {} THEN [asked EXCEPT !.pc = "counting"]
              ELSE [asked EXCEPT !.pc = next, !.total = (CHOOSE c \in hits : TRUE).total]]
        /\ UNCHANGED <<versions, pending, generation, counts, ticks>>

\* _count_documents_uncached
CountRows(r) ==
    LET g == page[r]
    IN  /\ g.pc = "counting"
        /\ page' = [page EXCEPT ![r] =
              [g EXCEPT !.pc = "storing", !.total = Cardinality(Matching(g.query, g.window, TableNow))]]
        /\ UNCHANGED <<versions, pending, generation, counts, ticks>>

\* count_query_cached: the entry keeps the generation and the time read before
\* the rows were counted.
StoreCount(r) ==
    LET g == page[r]
        p == ProcessAt[r]
        kept == [key |-> CountKey(g.query), generation |-> g.generation,
                 stamp |-> g.stamp, total |-> g.total]
    IN  /\ g.pc = "storing"
        /\ counts' = IF g.window # All THEN counts ELSE [counts EXCEPT ![p] = WithEntry(p, kept)]
        /\ page' = [page EXCEPT ![r] = [g EXCEPT !.pc = IF g.query.kind = "document" THEN "done" ELSE "rows"]]
        /\ UNCHANGED <<versions, pending, generation, ticks>>

CloseList(r) ==
    /\ page[r].pc = "done"
    /\ page' = [page EXCEPT ![r] = NoPage]
    /\ UNCHANGED <<versions, pending, generation, counts, ticks>>

Tick == /\ ticks < LastTick
        /\ ticks' = ticks + 1
        /\ UNCHANGED <<versions, pending, generation, counts, page>>

ListsNext ==
    \/ \E w \in ListWriters, c \in Changes : Execute(w, c)
    \/ \E w \in ListWriters : CommitChange(w) \/ RollbackChange(w)
    \/ \E r \in ListReaders, q \in Queries, o \in Offsets :
          OpenDocuments(r, q, o) \/ OpenMasters(r, q, o)
    \/ \E r \in ListReaders : FetchRows(r) \/ LookUp(r) \/ CountRows(r) \/ StoreCount(r) \/ CloseList(r)
    \/ Tick

ListsSpec == ListsInit /\ [][ListsNext]_listVars

-----------------------------------------------------------------------------
(* Properties *)

HasTotal(r) == page[r].total # All
TrueIn(r, i) ==
    page[r].total = Cardinality(Matching(page[r].query, page[r].window, versions[i].rows))
EndOf(i) == IF i = Len(versions) THEN ticks ELSE versions[i + 1].since

\* The "of N" of a list was true within the cache's time to live, whichever process
\* answers and whichever process wrote.
CountsAreRecent ==
    \A r \in ListReaders : HasTotal(r) =>
        \E i \in DOMAIN versions : TrueIn(r, i) /\ EndOf(i) > page[r].stamp - CacheTTL

\* Walking by prev and next through a list that a reader has opened visits its
\* rows in the order they are shown, in either direction.  Documents without a value
\* in the sorted column are skipped.
NeighboursFollowTheList ==
    \A r \in ListReaders, o \in {"asc", "desc"} : page[r].pc = "done" =>
        LET q == [page[r].query EXCEPT !.order = o]
            w == page[r].window
            walked(n) == q.kind = "document" => SortKey(q, TableNow, n) # Null
            list == InOrder(q, TableNow, {n \in Matching(q, w, TableNow) : walked(n)})
        IN  /\ \A i \in 1..(Len(list) - 1) :
                  /\ Adjacent(q, w, TableNow, list[i], "next") = list[i + 1]
                  /\ Adjacent(q, w, TableNow, list[i + 1], "prev") = list[i]
            /\ list # <<>> => /\ Adjacent(q, w, TableNow, list[1], "prev") = All
                              /\ Adjacent(q, w, TableNow, Last(list), "next") = All

\* The comment on the cache: it "stays EXACT", any write of this process invalidates
\* it immediately, so that a count is that of the table while it was asked for.
CountsAreExact ==
    \A r \in ListReaders : HasTotal(r) => \E i \in page[r].from..Len(versions) : TrueIn(r, i)
=============================================================================
