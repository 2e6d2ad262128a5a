---------------------------- MODULE TrafficPages ----------------------------
(***************************************************************************)
(* What the dashboard and the log pages count.  The same figures are read  *)
(* along three paths: the rows themselves, covering indexes of the rows,   *)
(* and the hourly rollup of the closed hours stitched to the rows of the   *)
(* two edges of the window.  Here the log grows, the hourly job closes     *)
(* hours and retention removes rows; each page is an operator of the       *)
(* state.  LogRollup has the job and the purge statement by statement.     *)
(***************************************************************************)
EXTENDS Integers, Sequences, FiniteSets, FiniteSetsExt

CONSTANTS
    Kinds,        \* what a row may be, but for its time
    Hour,         \* an hour, in ticks
    Edges,        \* HistEdgesMs, as many as the durations of Kinds need
    PathsPerHost, \* RollupPathsPerHost
    Keep,         \* the age at which retention removes a row
    MaxTime, MaxRows

VARIABLES
    now,
    log,     \* every row ever stored, in the order of its timestamp
    gone,    \* how many of them retention has removed
    hourly   \* log_hourly and log_hourly_paths, by the start of the hour

vars == <<now, log, gone, hourly>>

Floor(t, g) == t - (t % g)
Closed   == {h \in 0 .. MaxTime : h % Hour = 0}
Stored   == gone + 1 .. Len(log)
Ever     == 1 .. Len(log)
Classes  == {2, 3, 4, 5}
Sources  == {k.src : k \in Kinds}
Hosts    == {k.host : k \in Kinds} \ {0}
Paths    == {k.path : k \in Kinds}
Class(i) == IF log[i].status >= 100 THEN log[i].status \div 100 ELSE 0
Access(S) == {i \in S : log[i].src = "caddy_access"}
Between(S, from, to) == {i \in S : from <= log[i].ts /\ log[i].ts <= to}
Bytes(S) == MapThenSumSet(LAMBDA i : log[i].size, S)

\* The bucket of the duration histogram a duration falls in; the last is open.
Slot(d) == IF \E j \in DOMAIN Edges : d <= Edges[j]
           THEN Min({j \in DOMAIN Edges : d <= Edges[j]}) ELSE Len(Edges) + 1
Slots == 1 .. Len(Edges) + 1
Histogram(S) == [j \in Slots |-> Cardinality({i \in S : Slot(log[i].dur) = j})]

Nothing == [groups |-> {}, paths |-> {}]
Init == now = 0 /\ log = <<>> /\ gone = 0 /\ hourly = [h \in Closed |-> Nothing]
----------------------------------------------------------------------------
(* The log, the hourly job and retention.                                  *)

Arrive(k) ==
    /\ Len(log) < MaxRows
    /\ log' = Append(log, [k EXCEPT !.ts = now])
    /\ UNCHANGED <<now, gone, hourly>>

\* rollupFillMainSQL: a row per source, host and status class.
Group(h, key, S) ==
    [hour |-> h, src |-> key[1], host |-> key[2], class |-> key[3],
     n |-> Cardinality(S), bytes |-> Bytes(S), hist |-> Histogram(S),
     forbidden |-> Cardinality({i \in S : log[i].status = 403}),
     limited |-> Cardinality({i \in S : log[i].status = 429})]

\* rollupFillPathsSQL: the paths of each host, the PathsPerHost most frequent.
HourPaths(hour, S) ==
    LET count(h, p) == Cardinality({i \in S : log[i].host = h /\ log[i].path = p})
        rank(h, p) == Cardinality({q \in Paths : \/ count(h, q) > count(h, p)
                                                 \/ count(h, q) = count(h, p) /\ q < p})
    IN  {r \in [hour: {hour}, host: Hosts \cup {0}, path: Paths, n: 1 .. MaxRows] :
            r.n = count(r.host, r.path) /\ rank(r.host, r.path) < PathsPerHost}

\* FillRollupHour replaces the hour by what the rows say now.
FillRollupHour(h) ==
    LET S == Between(Stored, h, h + Hour - 1)
        key(i) == <<log[i].src, log[i].host, Class(i)>>
    IN  [groups |-> {Group(h, k, {i \in S : key(i) = k}) : k \in {key(i) : i \in S}},
         paths |-> HourPaths(h, Access(S))]

Filled == {h \in Closed : hourly[h].groups # {}}
Newest == Max(Filled)
\* The hours the job fills: from the newest it has, or from the oldest row.
Due == LET start == IF Filled # {} THEN Newest
                    ELSE Min({Floor(log[i].ts, Hour) : i \in Stored})
       IN  IF Filled = {} /\ Stored = {} THEN {}
           ELSE {h \in Closed : start <= h /\ h + Hour <= now}

Fill ==
    /\ Due # {}
    /\ hourly' = [h \in Closed |-> IF h \in Due THEN FillRollupHour(h) ELSE hourly[h]]
    /\ UNCHANGED <<now, log, gone>>

\* PurgeWithPolicy by age.  The newest rollup hour still has its rows, for the
\* job fills it again: only a log that is silent for the whole retention has not.
Expired == {i \in Stored : log[i].ts < now - Keep}
PurgeAged ==
    /\ Expired # {} /\ Filled # {} /\ now - Keep <= Newest
    /\ gone' = gone + Cardinality(Expired)
    /\ UNCHANGED <<now, log, hourly>>

\* The job runs within each hour; LogRollup has it late, failing and stopped.
Tick ==
    /\ now < MaxTime
    /\ (now + 1) % Hour = 0 => \A h \in Due : hourly[h] = FillRollupHour(h)
    /\ now' = now + 1
    /\ UNCHANGED <<log, gone, hourly>>

Next == (\E k \in Kinds : Arrive(k)) \/ Fill \/ PurgeAged \/ Tick
Spec == Init /\ [][Next]_vars
----------------------------------------------------------------------------
(* The split of a window, and what is read from each part of it.           *)

\* Mutant: the first closed hour is the one the window begins in.
FloorHour(t) == Floor(t, Hour)

CeilHour(t) == IF t % Hour = 0 THEN t ELSE Floor(t, Hour) + Hour

\* RollupSpanFor: [cf, ct) is served by the rollup; empty, both are from.
RollupSpanFor(from, to) ==
    LET cf == Max({CeilHour(from), Min(Filled)})
        ct == Min({Floor(to, Hour), Newest + Hour})
    IN  IF Filled = {} \/ cf >= ct THEN [from |-> from, to |-> to, cf |-> from, ct |-> from]
        ELSE [from |-> from, to |-> to, cf |-> cf, ct |-> ct]
HasClosed(s) == s.cf < s.ct

\* Edges: before the first closed hour (<), and after the last (<=).
EdgeRows(s) ==
    {i \in Stored : \/ s.from < s.cf /\ s.from <= log[i].ts /\ log[i].ts < s.cf
                    \/ s.ct < s.to /\ s.ct <= log[i].ts /\ log[i].ts <= s.to}

Spanned(s) == {h \in Closed : s.cf <= h /\ h < s.ct}
\* ReadRollupHours and ReadRollupPaths.
ReadHours(s) == UNION {hourly[h].groups : h \in Spanned(s)}
ReadPaths(s) == UNION {hourly[h].paths : h \in Spanned(s)}
Requests(G) == MapThenSumSet(LAMBDA r : r.n, G)
Of(host, S) == IF host = 0 THEN S ELSE {i \in S : log[i].host = host}

GroupsOf(host, G) == IF host = 0 THEN G ELSE {r \in G : r.host = host}
AccessGroups(G) == {r \in G : r.src = "caddy_access"}
----------------------------------------------------------------------------
(* The pages.                                                              *)

\* Overview: requests, errors and blocked requests of the access rows.
Overview(from, to) ==
    LET s == RollupSpanFor(from, to)
        G == AccessGroups(ReadHours(s))
        E == Access(EdgeRows(s))
    IN  [total   |-> Requests(G) + Cardinality(E),
         errors  |-> Requests({r \in G : r.class = 5})
                     + Cardinality({i \in E : log[i].status >= 500}),
         blocked |-> MapThenSumSet(LAMBDA r : r.forbidden + r.limited, G)
                     + Cardinality({i \in E : log[i].status \in {403, 429}})]

\* classTimesSQL and its twins: covering indexes, of every source that has a
\* status; a host filter needs the rows.
IndexRows(from, to, host) ==
    IF host = 0 THEN Between(Stored, from, to) ELSE Of(host, Access(Between(Stored, from, to)))

\* The status series: one count per bucket and class.
SeriesOf(S, g) == [b \in {Floor(t, g) : t \in 0 .. MaxTime}, c \in Classes |->
                      Cardinality({i \in S : Floor(log[i].ts, g) = b /\ Class(i) = c})]

\* trafficIndexOnly: the series without a rollup, at steps of hours.
IndexOnly(from, to, g, host) == SeriesOf(IndexRows(from, to, host), g)

\* trafficRows: the series without a rollup, at smaller steps.
RowSeries(from, to, g, host) == SeriesOf(Of(host, Access(Between(Stored, from, to))), g)

\* trafficStitched, addRollup and addRow; below one hour the series is read on
\* its own.
Series(from, to, g, host) ==
    LET s == RollupSpanFor(from, to)
        G == GroupsOf(host, AccessGroups(ReadHours(s)))
        E == SeriesOf(Of(host, Access(EdgeRows(s))), g)
    IN  CASE HasClosed(s) /\ g < Hour -> SeriesOf(IndexRows(from, to, host), g)
          [] ~HasClosed(s) /\ g < Hour -> RowSeries(from, to, g, host)
          [] ~HasClosed(s) /\ g >= Hour -> IndexOnly(from, to, g, host)
          [] OTHER -> [x \in DOMAIN E |-> E[x] + Requests({r \in G :
                           Floor(r.hour, g) = x[1] /\ r.class = x[2]})]

\* byHost, byPath, bytes and the response times of the stitched page.
Totals(from, to) ==
    LET s == RollupSpanFor(from, to)
        G == AccessGroups(ReadHours(s))
        E == Access(EdgeRows(s))
    IN  [hosts |-> [h \in Hosts |-> Requests(GroupsOf(h, G)) + Cardinality(Of(h, E))],
         paths |-> [h \in Hosts \cup {0}, p \in Paths |->
                       Requests({r \in ReadPaths(s) : r.host = h /\ r.path = p})
                       + Cardinality({i \in E : log[i].host = h /\ log[i].path = p})],
         bytes |-> MapThenSumSet(LAMBDA r : r.bytes, G) + Bytes(E)]

\* Hist.AddRow, Hist.AddDuration: the merged histogram of a bucket of gRT.
HistOf(from, to, b, g) ==
    LET s == RollupSpanFor(from, to)
        G == {r \in AccessGroups(ReadHours(s)) : Floor(r.hour, g) = b}
        E == {i \in Access(EdgeRows(s)) : Floor(log[i].ts, g) = b}
    IN  [j \in Slots |-> MapThenSumSet(LAMBDA r : r.hist[j], G) + Histogram(E)[j]]

Count(hist) == MapThenSumSet(LAMBDA j : hist[j], Slots)
Up(hist, j) == MapThenSumSet(LAMBDA k : hist[k], 1 .. j)

\* Hist.Percentile: the upper edge of the bucket that holds the rank; the open
\* bucket reads as the last edge.
Percentile(hist, p) ==
    LET rank == Max({1, (Count(hist) * p + 99) \div 100})
    IN  IF \E j \in DOMAIN Edges : Up(hist, j) >= rank
        THEN Edges[Min({j \in DOMAIN Edges : Up(hist, j) >= rank})] ELSE Edges[Len(Edges)]
----------------------------------------------------------------------------
(* The log pages: totals by class and by source, over every source or over *)
(* the access rows only.                                                   *)

Limited(only, S) == IF only THEN Access(S) ELSE S
Stats(total, class, source) == [total |-> total, class |-> class, source |-> source]

\* ComputeStats and computeTimeseriesRows: the rows.
StatsRows(from, to, only) ==
    LET S == Limited(only, Between(Stored, from, to))
    IN  Stats(Cardinality(S), [c \in Classes |-> Cardinality({i \in S : Class(i) = c})],
              [x \in Sources |-> Cardinality({i \in S : log[i].src = x})])

\* computeStatsLong, computeTimeseriesLong: the classes come from an index that
\* has no source.
StatsLong(from, to, only) ==
    LET B == Between(Stored, from, to)
        S == Limited(only, B)
    IN  Stats(Cardinality(S), [c \in Classes |-> Cardinality({i \in B : Class(i) = c})],
              [x \in Sources |-> Cardinality({i \in S : log[i].src = x})])

\* computeStatsRollup, computeTimeseriesRollup: closed hours and edges.
StatsRollup(from, to, only) ==
    LET s == RollupSpanFor(from, to)
        G == IF only THEN AccessGroups(ReadHours(s)) ELSE ReadHours(s)
        E == Limited(only, EdgeRows(s))
    IN  Stats(Requests(G) + Cardinality(E),
              [c \in Classes |-> Requests({r \in G : r.class = c})
                                 + Cardinality({i \in E : Class(i) = c})],
              [x \in Sources |-> Requests({r \in G : r.src = x})
                                 + Cardinality({i \in E : log[i].src = x})])

\* Which of the three answers a time-only window: long is above a day.
ComputeStats(from, to, only, long) ==
    IF HasClosed(RollupSpanFor(from, to)) THEN StatsRollup(from, to, only)
    ELSE IF long THEN StatsLong(from, to, only) ELSE StatsRows(from, to, only)

\* The hourly buckets of the timeseries, along the same three paths.
BucketsOf(S, C) ==
    [b \in Closed |-> [total |-> Cardinality({i \in S : Floor(log[i].ts, Hour) = b}),
                       class |-> [c \in Classes |-> Cardinality(
                           {i \in C : Floor(log[i].ts, Hour) = b /\ Class(i) = c})]]]
RowBuckets(from, to, only) ==
    LET S == Limited(only, Between(Stored, from, to)) IN BucketsOf(S, S)
LongBuckets(from, to, only) ==
    LET B == Between(Stored, from, to) IN BucketsOf(Limited(only, B), B)

RollupBuckets(from, to, only) ==
    LET s == RollupSpanFor(from, to)
        G == IF only THEN AccessGroups(ReadHours(s)) ELSE ReadHours(s)
        E == Limited(only, EdgeRows(s))
        B == BucketsOf(E, E)
    IN  [b \in Closed |->
            [total |-> B[b].total + Requests({r \in G : r.hour = b}),
             class |-> [c \in Classes |-> B[b].class[c]
                                          + Requests({r \in G : r.hour = b /\ r.class = c})]]]

\* ComputeTimeseriesPath, at buckets of an hour.
ComputeTimeseries(from, to, only, long) ==
    IF HasClosed(RollupSpanFor(from, to)) THEN RollupBuckets(from, to, only)
    ELSE IF long THEN LongBuckets(from, to, only) ELSE RowBuckets(from, to, only)
----------------------------------------------------------------------------
(* Properties: every page is a count of the rows ever stored.              *)

TypeOK ==
    /\ now \in 0 .. MaxTime /\ gone \in 0 .. Len(log) /\ Len(log) <= MaxRows
    /\ \A i, j \in Ever : i < j => log[i].ts <= log[j].ts
    /\ \A h \in Closed : \A r \in hourly[h].groups :
         r.hour = h /\ r.n = MapThenSumSet(LAMBDA j : r.hist[j], Slots)

\* A window some of whose rows are gone can be answered when those were of hours
\* the rollup has closed.
Intact(from, to) ==
    \A i \in 1 .. gone : from <= log[i].ts /\ log[i].ts <= to =>
        CeilHour(from) <= log[i].ts /\ log[i].ts < Floor(to, Hour)
\* The dashboard's windows end now, a log page's may end earlier.
Windows == {w \in [from: 0 .. now, to: {now - 1, now}] : w.from < w.to /\ Intact(w.from, w.to)}

\* The rows of a window.  A window that ends with a closed hour has no live
\* tail: it leaves out a row of that very instant, which the row path has.
Rows(from, to) ==
    {i \in Between(Ever, from, to) : log[i].ts = to => RollupSpanFor(from, to).ct # to}

\* Overview: however the window lies against the hours, and whatever retention
\* has removed, no request is counted twice or left out.
OverviewIsExact ==
    \A w \in Windows :
        LET S == Access(Rows(w.from, w.to))
        IN  Overview(w.from, w.to) =
              [total |-> Cardinality(S), errors |-> Cardinality({i \in S : Class(i) = 5}),
               blocked |-> Cardinality({i \in S : log[i].status \in {403, 429}})]

\* Traffic: each bucket of the series counts each access row of the window once,
\* for any host filter and any width of the buckets, stitched or from the rows;
\* the indexes, which know no source, answer only without a host filter.
SeriesIsExact ==
    \A w \in Windows, g \in {1, Hour, 2 * Hour}, host \in Hosts \cup {0} :
        LET stitched == g >= Hour /\ HasClosed(RollupSpanFor(w.from, w.to))
            whole    == Between(1 .. gone, w.from, w.to) = {}
            S == IF stitched THEN Rows(w.from, w.to) ELSE Between(Ever, w.from, w.to)
        IN  stitched \/ (whole /\ host # 0) =>
              Series(w.from, w.to, g, host) = SeriesOf(Of(host, Access(S)), g)

\* The volumes beside the series: hosts and bytes are exact, a path is never
\* counted over, and is exact while no hour has more paths than the rollup keeps.
TotalsAreExact ==
    \A w \in Windows :
        LET T == Totals(w.from, w.to)
            S == Access(Rows(w.from, w.to))
            real(h, p) == Cardinality({i \in S : log[i].host = h /\ log[i].path = p})
            crowded(h) == \E x \in Closed : PathsPerHost <
                Cardinality({log[i].path : i \in Of(h, Between(Access(Ever), x, x + Hour - 1))})
        IN  /\ T.bytes = Bytes(S)
            /\ \A h \in Hosts : T.hosts[h] = Cardinality(Of(h, S))
            /\ \A h \in Hosts \cup {0}, p \in Paths :
                 /\ T.paths[h, p] <= real(h, p)
                 /\ h # 0 /\ ~crowded(h) => T.paths[h, p] = real(h, p)

\* Hist: the percentile of merged rollup and live rows is the upper edge of the
\* bucket of the duration with that nearest rank among the rows themselves.
PercentileIsEdge ==
    \A w \in Windows, g \in {Hour, 2 * Hour}, p \in {50, 95} :
        \A b \in {Floor(t, g) : t \in 0 .. now} :
            LET S    == {i \in Access(Rows(w.from, w.to)) : Floor(log[i].ts, g) = b}
                rank == (Cardinality(S) * p + 99) \div 100
                upto(d) == Cardinality({i \in S : log[i].dur <= d})
                exact == Min({log[i].dur : i \in {j \in S : upto(log[j].dur) >= rank}})
            IN  S # {} => Percentile(HistOf(w.from, w.to, b, g), p) =
                            Edges[Min({Slot(exact), Len(Edges)})]

\* The three paths of the log pages agree, so a window that grows past a day or
\* gains its first closed hour does not change what it says; except that the
\* long path counts the classes of every source under an access filter.
PathsAgree ==
    \A w \in Windows, only \in BOOLEAN, long \in BOOLEAN :
        LET s == RollupSpanFor(w.from, w.to)
            S == Limited(only, Rows(w.from, w.to))
            A == ComputeStats(w.from, w.to, only, long)
        IN  /\ A.total = Cardinality(S)
            /\ \A x \in Sources : A.source[x] = Cardinality({i \in S : log[i].src = x})
            /\ HasClosed(s) \/ ~only \/ ~long =>
                 \A c \in Classes : A.class[c] = Cardinality({i \in S : Class(i) = c})

\* And the timeseries under them: each hour's bucket is exact, and the buckets
\* of a window add up to the total beside them.
BucketsAgree ==
    \A w \in Windows, only \in BOOLEAN, long \in BOOLEAN :
        LET s == RollupSpanFor(w.from, w.to)
            S == Limited(only, Rows(w.from, w.to))
            B == ComputeTimeseries(w.from, w.to, only, long)
        IN  /\ HasClosed(s) \/ ~only \/ ~long => B = BucketsOf(S, S)
            /\ MapThenSumSet(LAMBDA b : B[b].total, Closed)
                 = ComputeStats(w.from, w.to, only, long).total
=============================================================================
