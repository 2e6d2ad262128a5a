------------------------------ MODULE LogReads ------------------------------
(***************************************************************************)
(* Reads of log_entries that take more than one statement, while rows are  *)
(* inserted (a line may be late) and purged: the CSV export's walk, the    *)
(* logs page and the audit page read page after page, and the live stream. *)
(* Each statement sees what is committed.  One reader at a time: readers   *)
(* do not touch each other.                                                *)
(***************************************************************************)
EXTENDS Integers, FiniteSets, FiniteSetsExt

CONSTANTS
    Times,
    Page,           \* rows per page
    Wide,           \* the audit page reads so many pages' rows and filters them
    MaxCSVRows,
    MaxRows         \* bound on the rows ever inserted

VARIABLES
    table,      \* ids of the rows
    ts,         \* their timestamps, by id
    hits,       \* ids of the rows the reader's filter lets through
    last,       \* the largest id ever given
    kind, pc,   \* the reader, and where it is
    cursor,     \* the (timestamp, id) it is past; the offset; or lastID
    total,      \* what it counted last
    held,       \* history: hits in the table ever since the reader began
    seen,       \* history: what the reader was given
    twice,      \* history: and something of it again
    crossed,    \* history: rows came between the audit page's count and its rows, or
                \* a purge took a hit under the ascending pages
    arrivals    \* history: hits that came since the export's count

vars == <<table, ts, hits, last, kind, pc, cursor, total, held, seen, twice, crossed, arrivals>>
db     == <<table, ts, hits, last>>
traced == <<held, crossed, arrivals>>

Zero == [ts |-> 0, id |-> 0]

Init ==
    /\ table = {} /\ ts = [i \in 1 .. MaxRows |-> 0] /\ hits = {} /\ last = 0
    /\ kind \in {"export", "list", "asc", "audit", "stream"} /\ pc = "idle" /\ cursor = Zero
    /\ total = 0 /\ held = {} /\ seen = {} /\ twice = FALSE /\ crossed = FALSE /\ arrivals = 0

Row(i)      == [ts |-> ts[i], id |-> i]
Before(a, b) == a.ts < b.ts \/ (a.ts = b.ts /\ a.id < b.id)
Older(i, j) == Before(Row(i), Row(j))
Newer(i, j) == Older(j, i)
Match       == table \cap hits
----------------------------------------------------------------------------
(* The table. *)

\* AUTOINCREMENT.
NextId == last + 1

\* One row of a batch that commits; an audit line has the time of its insertion.
InsertLogBatch(t, hit) ==
    LET i == NextId IN
    /\ i <= MaxRows /\ last < MaxRows
    /\ kind = "audit" => \A j \in table : ts[j] <= t
    /\ table' = table \cup {i} /\ ts' = [ts EXCEPT ![i] = t] /\ last' = (IF i > last THEN i ELSE last)
    /\ hits' = IF hit THEN hits \cup {i} ELSE hits \ {i}
    /\ held' = IF pc = "idle" THEN held \cup ({i} \cap hits') ELSE held
    /\ crossed' = (crossed \/ (kind = "audit" /\ pc = "rows"))
    /\ arrivals' = IF hit /\ kind = "export" /\ pc = "rows" THEN arrivals + 1 ELSE arrivals
    /\ UNCHANGED <<kind, pc, cursor, total, seen, twice>>

\* A batch of a purge: the oldest rows.
DeleteOldest ==
    /\ table # {}
    /\ LET o == CHOOSE i \in table : \A j \in table \ {i} : Older(i, j) IN
       /\ table' = table \ {o} /\ held' = held \ {o} /\ hits' = hits \ {o}
       /\ crossed' = (crossed \/ (kind = "asc" /\ pc \in {"rows", "total"} /\ o \in hits))
    /\ UNCHANGED <<ts, last, kind, pc, cursor, total, seen, twice, arrivals>>
----------------------------------------------------------------------------
(* What the statements return. *)

\* ORDER BY and LIMIT: how many of the rows S come before i in each order.
OlderThan(i, S) == Cardinality({j \in S : Older(j, i)})
NewerThan(i, S) == Cardinality({j \in S : Older(i, j)})
IdsAbove(i, S)  == Cardinality({j \in S : j > i})
IdsBelow(i, S)  == Cardinality({j \in S : j < i})

\* LIMIT size OFFSET first.
Window(first, size) == first .. first + size - 1

\* Mutant: pages by OFFSET.
OffsetPage == {i \in Match : OlderThan(i, Match) \in Window(Cardinality(seen), Page)}

Ahead == {i \in Match : Before(cursor, Row(i))}
ListLogEntriesAfter == {i \in Ahead : OlderThan(i, Ahead) < Page}

\* By order=asc the oldest first, otherwise the newest.
ShownBefore(i, S) == IF kind = "asc" THEN OlderThan(i, S) ELSE NewerThan(i, S)
ListLogEntries == {i \in Match : ShownBefore(i, Match) \in Window(cursor.id, Page)}

\* The filter is applied to what is read, the offset to the rows before it.
AuditRead == {i \in table : IdsAbove(i, table) \in Window(cursor.id, Wide * Page)} \cap hits
AuditRows == {i \in AuditRead : IdsAbove(i, AuditRead) < Page}

Arrived == {i \in Match : i > cursor.id}
StreamLogEntries == {i \in Arrived : IdsBelow(i, Arrived) < Page}
----------------------------------------------------------------------------
(* The readers. *)

Give(page) ==
    /\ seen' = seen \cup page
    /\ twice' = (twice \/ page \cap seen # {})

Latest(page) == CHOOSE i \in page : \A j \in page : j = i \/ Older(j, i)

\* ExportLogsCSV.
Count ==
    /\ kind = "export" /\ pc = "idle"
    /\ pc' = IF Cardinality(Match) > MaxCSVRows THEN "refused" ELSE "rows"
    /\ UNCHANGED <<db, kind, cursor, total, seen, twice, traced>>

\* Until a page is short; an error ends the file as a short page does.
ExportPage ==
    /\ kind = "export" /\ pc = "rows"
    /\ LET page == ListLogEntriesAfter IN
       /\ Give(page)
       /\ cursor' = IF page = {} THEN cursor ELSE Row(Latest(page))
       /\ pc' = IF Cardinality(page) < Page THEN "done" ELSE "rows"
    /\ UNCHANGED <<db, kind, total, traced>>

ExportFails ==
    /\ kind = "export" /\ pc = "rows" /\ pc' = "cut"
    /\ UNCHANGED <<db, kind, cursor, total, seen, twice, traced>>

\* ListLogs: the rows, then the count, from which has_more.
ListRows ==
    /\ kind \in {"list", "asc"} /\ pc \in {"idle", "rows"} /\ pc' = "total"
    /\ Give(ListLogEntries) /\ total' = cursor.id + Cardinality(ListLogEntries)
    /\ UNCHANGED <<db, kind, cursor, traced>>

ListTotal ==
    /\ kind \in {"list", "asc"} /\ pc = "total"
    /\ IF total < Cardinality(Match) THEN pc' = "rows" /\ cursor' = [cursor EXCEPT !.id = @ + Page]
       ELSE pc' = "done" /\ UNCHANGED cursor
    /\ UNCHANGED <<db, kind, total, seen, twice, traced>>

\* AuditLog: the count of all rows, then the page.
AuditTotal ==
    /\ kind = "audit" /\ pc \in {"idle", "total"} /\ pc' = "rows"
    /\ total' = Cardinality(table)
    /\ UNCHANGED <<db, kind, cursor, seen, twice, traced>>

AuditPage ==
    /\ kind = "audit" /\ pc = "rows"
    /\ Give(AuditRows)
    /\ IF cursor.id + Page < total THEN pc' = "total" /\ cursor' = [cursor EXCEPT !.id = @ + Page]
       ELSE pc' = "done" /\ UNCHANGED cursor
    /\ UNCHANGED <<db, kind, total, traced>>

\* StreamLogs: from the largest id there is.
Follow ==
    /\ kind = "stream" /\ pc = "idle" /\ pc' = "open" /\ held' = {}
    /\ cursor' = [Zero EXCEPT !.id = Max(table \cup {0})] /\ total' = cursor'.id
    /\ UNCHANGED <<db, kind, seen, twice, crossed, arrivals>>

Poll ==
    /\ kind = "stream" /\ pc = "open" /\ StreamLogEntries # {}
    /\ Give(StreamLogEntries)
    /\ cursor' = [cursor EXCEPT !.id = Max(StreamLogEntries \cup {@})]
    /\ UNCHANGED <<db, kind, pc, total, traced>>

Next ==
    \/ \E t \in Times, hit \in BOOLEAN : InsertLogBatch(t, hit)
    \/ DeleteOldest
    \/ Count \/ ExportPage \/ ExportFails \/ ListRows \/ ListTotal \/ AuditTotal \/ AuditPage
    \/ Follow \/ Poll

Spec == Init /\ [][Next]_vars
----------------------------------------------------------------------------
(* Properties *)

\* Types.
TypeOK ==
    /\ table \subseteq 1 .. last /\ hits \subseteq table /\ held \subseteq hits
    /\ ts \in [1 .. MaxRows -> Times \cup {0}] /\ seen \subseteq 1 .. MaxRows
    /\ pc \in {"idle", "rows", "total", "refused", "cut", "done", "open"}

\* The walk gives no row twice, and at its end every row that was there from
\* before its start and still is, whatever came and went meanwhile
\* (ListLogEntriesAfter's keyset); rows that came since the count may push it past
\* the cap by as many, and no further.
ExportIsExact ==
    kind = "export" =>
        /\ ~twice /\ (pc = "done" => held \subseteq seen)
        /\ Cardinality(seen) <= MaxCSVRows + arrivals

\* Read to its end, the logs page has shown every row that was there all the time,
\* some perhaps again: newest first whatever came and went, oldest first unless a
\* purge took a row of the filter in the meantime, which moves the rest under the
\* offset (ListLogs, ListLogEntries; the count after the rows).
ListIsComplete ==
    pc = "done" /\ (kind = "list" \/ (kind = "asc" /\ ~crossed)) => held \subseteq seen

\* So has the audit page, unless rows came between its count and its rows; the
\* filter in memory leaves no gap between pages, and a row may be shown again (AuditLog).
AuditIsComplete == kind = "audit" /\ pc = "done" /\ ~crossed => held \subseteq seen

\* The stream passes over no row that came after it began, and gives none twice
\* (StreamLogs: ids are never given again).
StreamIsExact ==
    kind = "stream" =>
        ~twice /\ \A i \in Match : total < i /\ i <= cursor.id => i \in seen
=============================================================================
