-------------------------------- MODULE Logs --------------------------------
(***************************************************************************)
(* The log store and what reads it: the store itself with the rollup       *)
(* (LogRollup), the reads that take several statements (LogReads), the     *)
(* cache of the log pages (StatsCache) and the pages' figures              *)
(* (TrafficPages).  They share the rows' layout and no state.  part says   *)
(* which of them a behaviour is about.                                     *)
(***************************************************************************)
EXTENDS LogRollup, TLC

CONSTANTS
    None,
    ReadTimes, PageRows, WidePages, CSVRows, ReadRows,                  \* of the reads
    Callers, StatsWindows, WafTerms, CacheEntries, LoadTime, StatsTTL, TsTTL, \* of the cache
    RowKinds, HourLength, Edges, TopPaths, KeptHours, PageTime, PageLimit \* of the pages

VARIABLES
    part,
    table, ts, hits, last, kind, pc, cursor, total, held, seen, twice, crossed, arrivals,
    entries, call,
    clock, log, gone, filled

Reads == INSTANCE LogReads WITH
    Times <- ReadTimes, Page <- PageRows, Wide <- WidePages, MaxCSVRows <- CSVRows,
    MaxRows <- ReadRows

Stats == INSTANCE StatsCache WITH MaxEntries <- CacheEntries, Windows <- StatsWindows

Pages == INSTANCE TrafficPages WITH
    now <- clock, hourly <- filled,
    Kinds <- RowKinds, Hour <- HourLength, PathsPerHost <- TopPaths, Keep <- KeptHours,
    MaxTime <- PageTime, MaxRows <- PageLimit

\* A page has rows, and a time to live is a number of ticks.
ASSUME ReadsAssumption ==
    PageRows \in Nat \ {0} /\ WidePages \in Nat \ {0} /\ CSVRows \in Nat /\ ReadRows \in Nat
    /\ ReadTimes \subseteq Nat
ASSUME StatsAssumption == StatsTTL \in Nat /\ TsTTL \in Nat /\ LoadTime \in Nat
----------------------------------------------------------------------------
(* The properties of the parts besides the store's own, together; each is  *)
(* stated in its module.                                                   *)

\* HoursAreCounted of the rollup part, whose retention goroutine keeps running.
HoursCounted == part = "rollup" => HoursAreCounted

\* The reads of several statements: export, logs page in either order, audit page and
\* stream each give a row that was there throughout; export and stream give none twice.
WalksAreExact ==
    part = "reads" =>
        /\ Reads!TypeOK /\ Reads!ExportIsExact /\ Reads!ListIsComplete /\ Reads!AuditIsComplete
        /\ Reads!StreamIsExact

\* The cache of the pages: an answer is of the window that was asked for, and no
\* older than its kind may be.
AnswersFit == part = "stats" => Stats!TypeOK /\ Stats!WindowIsOwn /\ Stats!AnswerIsRecent

\* The pages: every way of computing a figure gives what the rows come to.
FiguresAgree ==
    part = "pages" =>
        /\ Pages!TypeOK
        /\ Pages!OverviewIsExact /\ Pages!SeriesIsExact /\ Pages!TotalsAreExact
        /\ Pages!PercentileIsEdge /\ Pages!PathsAgree /\ Pages!BucketsAgree
=============================================================================
