----------------------------- MODULE LogRollup -----------------------------
(***************************************************************************)
(* The log store: parsed lines go through a channel and a batching writer  *)
(* into log_entries; one retention goroutine purges the table and rolls    *)
(* each closed hour up into log_hourly; an operator may purge at the same  *)
(* time; the log pages add the rollup of closed hours to the rows of the   *)
(* rest.  Time is the number of the hour in progress.                      *)
(***************************************************************************)
EXTENDS Integers, Sequences, FiniteSetsExt

CONSTANTS
    Retention,     \* hours after which a row is purged
    RawAfter,      \* hours after which a row loses its raw JSON
    RollupHours,   \* hours that log_hourly keeps
    MaxEntries,    \* cap on the rows of log_entries
    PurgeBatch,    \* rows in one DELETE
    StripBatch,    \* rows in one UPDATE of raw
    Capacity,      \* entries between the parser and the table
    Janitor,       \* the retention goroutine
    Operators,     \* concurrent POST /api/logs/purge requests
    Faults,        \* which disturbances of FaultKinds this instance may meet
    MaxFaults,     \* bound on the disturbances
    MaxTime,       \* bound on the clock
    MaxRows,       \* bound on the rows that arrive
    ReadSpan       \* hours that a log page shows

\* insert: a batch is not stored; sql: a statement of a purge or a fill fails;
\* stop: the panel stops, gracefully or not; purge: an operator asks for one.
FaultKinds == {"insert", "sql", "stop", "purge"}

Purgers == Operators \cup {Janitor}
Hours   == 0 .. MaxTime
Entry   == [id: Nat, ts: Hours, raw: BOOLEAN]

\* A row is written at most one hour boundary after its timestamp: the writer
\* flushes every two seconds.
ASSUME LogAssumption ==
    /\ Retention \in Nat /\ RollupHours \in Nat /\ MaxEntries \in Nat
    /\ RawAfter \in Nat \ {0}
    /\ PurgeBatch \in Nat \ {0} /\ StripBatch \in Nat \ {0} /\ Capacity \in Nat \ {0}
    /\ Janitor \notin Operators
    /\ Faults \subseteq FaultKinds /\ MaxFaults \in Nat
    /\ MaxTime \in Nat /\ MaxRows \in Nat /\ ReadSpan \in Nat

VARIABLES
    now,        \* the hour in progress
    channel,    \* timestamps of the entries not yet written
    rows,       \* table log_entries
    lastId,     \* its AUTOINCREMENT
    hourly,     \* table log_hourly: requests by hour, no row when zero
    watermark,  \* the setting logs.retention.raw_watermark
    proc,       \* the purge (and, for the janitor, the fill) under way
    reader,     \* a log page under way
    up,         \* the panel runs
    missed,     \* history: hours with a row written after their last fill
    purged,     \* history: hours a purge took rows or the rollup of
    overlap,    \* history: two purges have run at the same time
    faults

ingestVars == <<channel, rows, lastId>>
history    == <<missed, purged, overlap>>
vars == <<now, ingestVars, hourly, watermark, proc, reader, up, history, faults>>

Steps == {"boot", "idle", "age", "cap", "over", "strip", "mark", "seal",
          "expire", "start", "fill"}
Idle  == [pc |-> "idle", then |-> "idle", at |-> 0, from |-> 0, want |-> 0,
          ts |-> 0, id |-> 0, full |-> FALSE, hour |-> 0, until |-> 0]
NoRead == [pc |-> "idle", from |-> 0, to |-> 0, cf |-> 0, ct |-> 0, total |-> 0, low |-> 0]

Purging(p) == proc[p].pc \in {"age", "cap", "over", "strip", "mark", "seal"}
At(p, pc)  == up /\ proc[p].pc = pc
Goto(p, pc) == proc' = [proc EXCEPT ![p].pc = pc]
Fault(kind) == kind \in Faults /\ faults < MaxFaults /\ faults' = faults + 1

Of(h)     == {r \in rows : r.ts = h}
Filled    == {h \in Hours : hourly[h] > 0}
Newest    == Max(Filled)                \* RollupMaxHour
MinHour   == Min({r.ts : r \in rows})   \* LogEntriesMinHour
Window(from, to) == {r \in rows : from <= r.ts /\ r.ts <= to}

\* ORDER BY timestamp, id.
Before(r, s) == r.ts < s.ts \/ (r.ts = s.ts /\ r.id < s.id)
First(S, n)  == {r \in S : Cardinality({s \in S : Before(s, r)}) < n}
Last(S)      == CHOOSE r \in S : \A s \in S : s = r \/ Before(s, r)

\* Rows of a closed hour come or go: a page under way is not followed further.
Disturbed == reader' = NoRead

Init ==
    /\ now = 0 /\ channel = <<>> /\ rows = {} /\ lastId = 0
    /\ hourly = [h \in Hours |-> 0] /\ watermark = 0
    /\ proc = [p \in Purgers |-> IF p = Janitor THEN [Idle EXCEPT !.pc = "boot"] ELSE Idle]
    /\ reader = NoRead /\ up = TRUE
    /\ missed = {} /\ purged = {} /\ overlap = FALSE
    /\ faults = 0

----------------------------------------------------------------------------
(* Ingestor *)

ingestFrame == <<now, hourly, watermark, proc, up, purged, overlap>>

\* admit, Enqueue: a tailer waits while the channel is full, an audit entry is
\* dropped.  A line read from a file may be of the hour that has just ended.
Arrive(ts) ==
    /\ up /\ Len(channel) < Capacity /\ lastId + Len(channel) < MaxRows
    /\ channel' = Append(channel, ts)
    /\ UNCHANGED <<ingestFrame, rows, lastId, reader, missed, faults>>

\* The fill has passed hour h: a newer hour is in the rollup, or in this run's.
Passed(h) == \/ Filled # {} /\ h < Newest
             \/ proc[Janitor].pc = "fill" /\ h < proc[Janitor].hour

\* The writer stores its batch in one transaction.
Flush ==
    /\ up /\ channel # <<>>
    /\ rows' = rows \cup {[id |-> lastId + i, ts |-> channel[i], raw |-> TRUE] :
                            i \in 1 .. Len(channel)}
    /\ lastId' = lastId + Len(channel)
    /\ channel' = <<>>
    /\ missed' = missed \cup {h \in Hours : Passed(h) /\ \E i \in 1 .. Len(channel) : channel[i] = h}
    /\ IF \E i \in 1 .. Len(channel) : channel[i] < now
       THEN Disturbed ELSE UNCHANGED reader
    /\ UNCHANGED <<ingestFrame, faults>>

\* The insert fails: the batch is logged and forgotten.
FlushFails ==
    /\ up /\ channel # <<>> /\ Fault("insert")
    /\ channel' = <<>>
    /\ UNCHANGED <<ingestFrame, rows, lastId, reader, missed>>

----------------------------------------------------------------------------
(* PurgeWithPolicy, run by the janitor and by an operator's request *)

purgeFrame == <<now, channel, lastId, hourly, reader, up, missed, faults>>

\* The policy and the watermark are read, and the clock.
BeginPurge(p, then) ==
    /\ proc' = [proc EXCEPT ![p] = [Idle EXCEPT !.pc = "age", !.then = then,
                                                !.at = now, !.from = watermark]]
    /\ Disturbed
    /\ overlap' = (overlap \/ \E q \in Purgers \ {p} : Purging(q))

OperatorPurges(p) ==
    /\ p \in Operators /\ At(p, "idle") /\ Fault("purge")
    /\ BeginPurge(p, "idle")
    /\ UNCHANGED <<now, ingestVars, hourly, watermark, up, missed, purged>>

\* Two minutes after the boot: purge, then the backfill.  Every six hours:
\* purge, then the rollup's own retention.
JanitorPurges ==
    /\ \/ At(Janitor, "boot") /\ BeginPurge(Janitor, "start")
       \/ At(Janitor, "idle") /\ BeginPurge(Janitor, "expire")
    /\ UNCHANGED <<now, ingestVars, hourly, watermark, up, missed, purged, faults>>

\* Where p goes on after its purge.
After(p) == [Idle EXCEPT !.pc = proc[p].then]
EndPurge(p) == proc' = [proc EXCEPT ![p] = After(p)]

\* A statement fails or the request ends: the rest of the purge is skipped.
PurgeFails(p) ==
    /\ up /\ Purging(p) /\ Fault("sql")
    /\ EndPurge(p)
    /\ UNCHANGED <<now, ingestVars, hourly, watermark, reader, up, history>>

\* One DELETE of the oldest rows in S.
DeleteOldest(S) ==
    /\ rows' = rows \ S
    /\ purged' = purged \cup {r.ts : r \in S}

\* By age, in batches, until one is short.
DeleteAged(p) ==
    /\ At(p, "age")
    /\ LET S == First({r \in rows : r.ts < proc[p].at - Retention}, PurgeBatch)
       IN  /\ DeleteOldest(S)
           /\ IF Cardinality(S) < PurgeBatch THEN Goto(p, "cap") ELSE UNCHANGED proc
    /\ UNCHANGED <<purgeFrame, watermark, overlap>>

\* RowCountBound: the range of the ids, at or above the number of rows.
Bound == IF rows = {} THEN 0 ELSE Max({r.id : r \in rows}) - Min({r.id : r \in rows}) + 1

\* Mutant: the range of the ids is taken for the number of rows.
CheckCapByBound(p) ==
    /\ At(p, "cap")
    /\ IF Bound > MaxEntries
       THEN proc' = [proc EXCEPT ![p].pc = "over", ![p].want = Bound - MaxEntries]
       ELSE Goto(p, "strip")
    /\ UNCHANGED <<purgeFrame, rows, watermark, purged, overlap>>

\* The rows are counted when the bound is over the cap; how many are too many.
\* Rows that come between the two statements are left to the next purge.
CheckCap(p) ==
    /\ At(p, "cap")
    /\ IF Bound > MaxEntries /\ Cardinality(rows) > MaxEntries
       THEN proc' = [proc EXCEPT ![p].pc = "over", ![p].want = Cardinality(rows) - MaxEntries]
       ELSE Goto(p, "strip")
    /\ UNCHANGED <<purgeFrame, rows, watermark, purged, overlap>>

\* The oldest rows over the cap, in batches, until `want` are gone.
DeleteOver(p) ==
    /\ At(p, "over")
    /\ LET limit == Min({PurgeBatch, proc[p].want})
           S     == First(rows, limit)
       IN  /\ DeleteOldest(S)
           /\ IF Cardinality(S) < limit \/ limit = proc[p].want
              THEN proc' = [proc EXCEPT ![p].pc = "strip", ![p].want = 0]
              ELSE proc' = [proc EXCEPT ![p].want = @ - Cardinality(S)]
    /\ UNCHANGED <<purgeFrame, watermark, overlap>>

----------------------------------------------------------------------------
(* stripRawByCursor *)

stripFrame == <<now, channel, lastId, hourly, reader, up, history, faults>>
Cutoff(p)  == proc[p].at - RawAfter

\* The rows of p's range that its cursor has not passed.  The cursor starts at
\* the watermark's own timestamp, and ids of that timestamp from 0 on.
Ahead(p) == {r \in rows : /\ proc[p].from <= r.ts /\ r.ts < Cutoff(p)
                          /\ Before([ts |-> proc[p].ts, id |-> proc[p].id], r)}

\* One SELECT of ids and one UPDATE on exactly these.
StripRows(p) ==
    /\ At(p, "strip")
    /\ LET S == First(Ahead(p), StripBatch)
       IN  IF Cutoff(p) <= proc[p].from THEN EndPurge(p) /\ UNCHANGED rows
           ELSE IF S = {} THEN Goto(p, "seal") /\ UNCHANGED rows
           ELSE /\ rows' = (rows \ S) \cup {[r EXCEPT !.raw = FALSE] : r \in S}
                /\ proc' = [proc EXCEPT ![p].pc = "mark", ![p].ts = Last(S).ts,
                               ![p].id = Last(S).id, ![p].full = Cardinality(S) = StripBatch]
    /\ UNCHANGED <<stripFrame, watermark>>

\* Mutant: a batch is taken to end with its last timestamp.
MarkProgressPast(p) ==
    /\ At(p, "mark")
    /\ watermark' = proc[p].ts + 1
    /\ Goto(p, IF proc[p].full THEN "strip" ELSE "seal")
    /\ UNCHANGED <<stripFrame, rows>>

\* OnRawProgress: the batch's last timestamp becomes the watermark.
MarkProgress(p) ==
    /\ At(p, "mark")
    /\ watermark' = proc[p].ts
    /\ Goto(p, IF proc[p].full THEN "strip" ELSE "seal")
    /\ UNCHANGED <<stripFrame, rows>>

\* The range is done: the cutoff becomes the watermark.
SealStrip(p) ==
    /\ At(p, "seal")
    /\ watermark' = Cutoff(p)
    /\ EndPurge(p)
    /\ UNCHANGED <<stripFrame, rows>>

----------------------------------------------------------------------------
(* The hourly rollup, in the janitor's goroutine *)

fillFrame == <<now, ingestVars, watermark, up, missed, overlap>>
J == proc[Janitor]

\* Mutant: an empty rollup is left empty.
StartFillNoSeed ==
    /\ At(Janitor, "start") \/ At(Janitor, "idle")
    /\ IF Filled # {} /\ Newest < now
       THEN proc' = [proc EXCEPT ![Janitor] =
                      [Idle EXCEPT !.pc = "fill", !.hour = Newest, !.until = now]]
       ELSE proc' = [proc EXCEPT ![Janitor] = Idle]
    /\ UNCHANGED <<fillFrame, hourly, reader, purged, faults>>

\* After the boot's purge, or at HH:02 when the loop is free.  From the newest hour
\* of the rollup, which is filled again, or else from the
\* oldest row, up to the hour in progress.
StartFill ==
    /\ At(Janitor, "start") \/ At(Janitor, "idle")
    /\ LET start == IF Filled # {} THEN Newest ELSE MinHour
       IN  IF (Filled # {} \/ rows # {}) /\ start < now
           THEN proc' = [proc EXCEPT ![Janitor] =
                          [Idle EXCEPT !.pc = "fill", !.hour = start, !.until = now]]
           ELSE proc' = [proc EXCEPT ![Janitor] = Idle]
    /\ UNCHANGED <<fillFrame, hourly, reader, purged, faults>>

\* FillRollupHour: delete the hour and count its rows, in one transaction.
FillHour ==
    /\ At(Janitor, "fill")
    /\ hourly' = [hourly EXCEPT ![J.hour] = Cardinality(Of(J.hour))]
    /\ proc' = [proc EXCEPT ![Janitor] =
                 IF J.hour + 1 < J.until THEN [J EXCEPT !.hour = @ + 1] ELSE Idle]
    /\ UNCHANGED <<fillFrame, reader, purged, faults>>

\* The run ends; what it has filled stays.
FillFails ==
    /\ At(Janitor, "fill") /\ Fault("sql")
    /\ proc' = [proc EXCEPT ![Janitor] = Idle]
    /\ UNCHANGED <<fillFrame, hourly, reader, purged>>

\* rollupPurge
ExpireRollup ==
    /\ At(Janitor, "expire")
    /\ LET old == {h \in Filled : h < now - RollupHours}
       IN  /\ hourly' = [h \in Hours |-> IF h \in old THEN 0 ELSE hourly[h]]
           /\ purged' = purged \cup old
           /\ IF old = {} THEN UNCHANGED reader ELSE Disturbed
    /\ proc' = [proc EXCEPT ![Janitor] = Idle]
    /\ UNCHANGED <<fillFrame, faults>>

----------------------------------------------------------------------------
(* A log page: RollupSpanFor, then the closed hours and the edges *)

readFrame == <<now, ingestVars, hourly, watermark, proc, up, history, faults>>
Reading(pc) == up /\ reader.pc = pc /\ \A p \in Purgers : ~Purging(p)

\* The rollup has every row of the closed hours it covers.
Settled(from) == \A h \in from .. now :
                    Filled # {} /\ h <= Newest => hourly[h] = Cardinality(Of(h))

\* A page of [now - ReadSpan, now] whose hours from cf on, before ct, come from
\* the rollup.  A page is followed unless a purge or a late row changes its
\* closed hours.
OpenPage(from, cf, ct) ==
    reader' = [pc |-> "closed", from |-> from, to |-> now, cf |-> cf, ct |-> ct,
               total |-> 0, low |-> Cardinality(Window(from, now))]

\* The oldest hour of the rollup bounds the closed span from below, the newest
\* and the hour in progress from above; an empty span leaves it all to the rows.
\* A page that starts inside an hour leaves the rest of that hour to the rows.
ReadSpanFor ==
    /\ Reading("idle")
    /\ \E skip \in {0, 1} :
         LET from == Max({0, now - ReadSpan})
             cf   == Max({from + skip, Min(Filled)})
             ct   == Min({now, Newest + 1})
         IN  /\ Settled(from)
             /\ IF Filled = {} \/ cf >= ct
                THEN OpenPage(from, from, from) ELSE OpenPage(from, cf, ct)
    /\ UNCHANGED readFrame

\* ReadRollupHours of [cf, ct): the requests of these hours, each counted by its
\* number within its hour.
Requests(from, to) == UNION {{h} \X (1 .. hourly[h]) : h \in from .. to - 1}
ReadClosed ==
    /\ Reading("closed")
    /\ reader' = [reader EXCEPT !.pc = "edges",
                    !.total = Cardinality(Requests(reader.cf, reader.ct))]
    /\ UNCHANGED readFrame

\* The rows before the closed span, and those after it.
ReadEdges ==
    /\ Reading("edges")
    /\ reader' = [reader EXCEPT !.pc = "done",
                    !.total = @ + Cardinality(Window(reader.from, reader.cf - 1))
                                + Cardinality(Window(reader.ct, reader.to))]
    /\ UNCHANGED readFrame

ReadEnds ==
    /\ Reading("done") /\ reader' = NoRead
    /\ UNCHANGED readFrame

----------------------------------------------------------------------------
(* Surroundings *)

\* The hour turns.  What waits to be written is not older than the last turn.
Tick ==
    /\ now < MaxTime /\ \A i \in 1 .. Len(channel) : channel[i] = now
    /\ now' = now + 1
    /\ UNCHANGED <<ingestVars, hourly, watermark, proc, reader, up, history, faults>>

\* The goroutines end where they are.  The writer has flushed, or it has chosen
\* its cancelled context over the entries still in the channel.
PanelStops ==
    /\ up /\ Fault("stop") /\ up' = FALSE
    /\ channel' = <<>> /\ reader' = NoRead
    /\ proc' = [p \in Purgers |-> Idle]
    /\ UNCHANGED <<now, rows, lastId, hourly, watermark, history>>

\* The tailers seek to the end of their files: nothing older arrives.
PanelStarts ==
    /\ ~up /\ up' = TRUE
    /\ proc' = [proc EXCEPT ![Janitor].pc = "boot"]
    /\ UNCHANGED <<now, ingestVars, hourly, watermark, reader, history, faults>>

----------------------------------------------------------------------------
PurgeStep(p) ==
    \/ DeleteAged(p) \/ CheckCap(p) \/ DeleteOver(p)
    \/ StripRows(p) \/ MarkProgress(p) \/ SealStrip(p)
JanitorStep ==
    \/ JanitorPurges \/ PurgeStep(Janitor) \/ StartFill \/ FillHour \/ ExpireRollup
Read == ReadSpanFor \/ ReadClosed \/ ReadEdges \/ ReadEnds

Next ==
    \/ \E ts \in {now - 1, now} \cap Hours : Arrive(ts)
    \/ Flush \/ FlushFails
    \/ JanitorStep \/ FillFails
    \/ \E p \in Purgers : OperatorPurges(p) \/ PurgeFails(p)
    \/ \E p \in Operators : PurgeStep(p)
    \/ Read \/ Tick \/ PanelStops \/ PanelStarts

Spec == Init /\ [][Next]_vars

\* The goroutine runs and its timers fire again and again, whichever of them the
\* select takes when several are due; the container restarts the panel.
FairSpec == Spec /\ WF_vars(JanitorStep) /\ SF_vars(StartFill) /\ WF_vars(PanelStarts)

----------------------------------------------------------------------------
(* Properties *)

\* Every variable keeps its type.
TypeOK ==
    /\ now \in Hours /\ channel \in Seq(Hours) /\ Len(channel) <= Capacity
    /\ rows \subseteq Entry /\ lastId \in Nat /\ \A r \in rows : r.id \in 1 .. lastId
    /\ hourly \in [Hours -> Nat] /\ watermark \in Int
    /\ \A p \in Purgers :
         /\ proc[p].pc \in Steps /\ proc[p].then \in Steps /\ proc[p].full \in BOOLEAN
         /\ \A f \in {"at", "from", "want", "ts", "id", "hour", "until"} : proc[p][f] \in Int
    /\ reader.pc \in {"idle", "closed", "edges", "done"}
    /\ \A f \in {"from", "to", "cf", "ct", "total", "low"} : reader[f] \in Nat
    /\ up \in BOOLEAN /\ overlap \in BOOLEAN
    /\ missed \subseteq Hours /\ purged \subseteq Hours
    /\ faults \in Nat

\* Below the newest hour of the rollup, an hour's count is its rows, whatever
\* restarts, failed fills and slow writers came before: rollupFillMissing fills
\* the newest hour again before it goes past it.
ClosedHoursExact ==
    \A h \in Hours \ (missed \cup purged) :
        Filled # {} /\ h < Newest => hourly[h] = Cardinality(Of(h))

\* "Every count, byte and sum is exact": a page that adds the rollup to the
\* edges counts each row of its window once, although the rollup advances while
\* it reads.
ReadIsExact ==
    reader.pc = "done" =>
        /\ reader.low <= reader.total
        /\ reader.total <= Cardinality(Window(reader.from, reader.to))

\* No row before the watermark keeps its raw JSON, or it would be skipped by
\* every later strip: what the resumable cursor promises across restarts.
StripIsComplete == \A r \in rows : r.ts < watermark => ~r.raw

\* A purge takes a row that is not past its age only while the table stays at
\* its cap ("so a gap can never make the cap delete too much").
OnlyExcessGoes ==
    [][\A r \in rows : r.ts >= now - Retention /\ (\A s \in rows' : s.id # r.id) =>
         overlap \/ Cardinality(rows') >= MaxEntries]_vars

\* The rollup loses a count only with the rows of that hour, or by its own age.
RollupKeeps ==
    [][\A h \in Hours : hourly'[h] < hourly[h] =>
         h \in purged \/ h < now - RollupHours]_vars

\* The store: a closed hour's rollup is what its rows come to, the two reads do not
\* overlap, and old rows are stripped.
StoreIsSound == TypeOK /\ ClosedHoursExact /\ ReadIsExact /\ StripIsComplete

\* The store: a purge takes the excess and no more, and leaves the rollup.
PurgesKeep == OnlyExcessGoes /\ RollupKeeps

\* Every closed hour is in the rollup in the end, with all of its rows.
HoursAreCounted ==
    <>[](\A h \in Hours \ (missed \cup purged) : h < now => hourly[h] = Cardinality(Of(h)))
=============================================================================
