----------------------------- MODULE StatsCache -----------------------------
(***************************************************************************)
(* The cache before the aggregates of the log pages (statsCache, LogStats, *)
(* LogTimeseries).  A filter is what the key is made of and the WAF terms, *)
(* which it is not made of.  A time is an age.                             *)
(***************************************************************************)
EXTENDS Integers, FiniteSets

CONSTANTS
    Callers, None,
    Windows, WafTerms,      \* of a filter
    StatsTTL, TsTTL,        \* statsCacheTTL, tsCacheTTL
    MaxEntries,             \* 256
    LoadTime                \* bound on how long an aggregate takes

VARIABLES
    entries,    \* by key: [age, op, filter, data], None without one
    call        \* the request of each caller

vars == <<entries, call>>

TTL     == [stats |-> StatsTTL, ts |-> TsTTL]
Ops     == DOMAIN TTL
Filters == [window: Windows, waf: WafTerms]
Keys    == [op: Ops, window: Windows]
Idle    == [pc |-> "idle", op |-> None, filter |-> None, got |-> None, took |-> 0]

Init == entries = [k \in Keys |-> None] /\ call = [p \in Callers |-> Idle]

\* Mutant: the window is left out of the key.
KeyOfOp(op, f) == [op |-> op, window |-> CHOOSE w \in Windows : TRUE]

cacheKey(op, f) == [op |-> op, window |-> f.window]

Live(k, op) == entries[k] # None /\ entries[k].age <= TTL[op]
Answer(p, e) == call' = [call EXCEPT ![p].pc = "answered", ![p].got = e]

Ask(p, op, f) ==
    /\ call[p].pc = "idle" /\ UNCHANGED entries
    /\ call' = [call EXCEPT ![p] = [Idle EXCEPT !.pc = "get", !.op = op, !.filter = f]]

get(p) ==
    LET k == cacheKey(call[p].op, call[p].filter) IN
    /\ call[p].pc = "get" /\ UNCHANGED entries
    /\ IF Live(k, call[p].op) THEN Answer(p, entries[k]) ELSE call' = [call EXCEPT ![p].pc = "compute"]

\* Over the limit, what is old goes: by the shorter of the two times.
Evicted(es) ==
    IF Cardinality({k \in Keys : es[k] # None}) <= MaxEntries THEN es
    ELSE [k \in Keys |-> IF es[k] # None /\ es[k].age > StatsTTL THEN None ELSE es[k]]

\* The aggregate is as old as its computation is long.
put(p) ==
    LET e == [age |-> 0, op |-> call[p].op, filter |-> call[p].filter, data |-> call[p].took] IN
    /\ call[p].pc = "compute" /\ Answer(p, e)
    /\ entries' = Evicted([entries EXCEPT ![cacheKey(e.op, e.filter)] = e])

ComputeFails(p) ==
    /\ call[p].pc = "compute" /\ call' = [call EXCEPT ![p] = Idle] /\ UNCHANGED entries

Return(p) == call[p].pc = "answered" /\ call' = [call EXCEPT ![p] = Idle] /\ UNCHANGED entries

\* Requests that can run do so before time passes.
Tick ==
    /\ \A p \in Callers : call[p].pc \in {"idle", "compute"} /\ call[p].took < LoadTime
    /\ entries' = [k \in Keys |-> IF entries[k] = None \/ entries[k].age > TTL[k.op] THEN entries[k]
                                  ELSE [entries[k] EXCEPT !.age = @ + 1, !.data = @ + 1]]
    /\ call' = [p \in Callers |-> IF call[p].pc = "compute" THEN [call[p] EXCEPT !.took = @ + 1] ELSE call[p]]

Next ==
    \/ \E p \in Callers :
          \/ \E op \in Ops, f \in Filters : Ask(p, op, f)
          \/ get(p) \/ put(p) \/ ComputeFails(p) \/ Return(p)
    \/ Tick

Spec == Init /\ [][Next]_vars
----------------------------------------------------------------------------
(* Properties *)

\* Types.
TypeOK ==
    \A p \in Callers : call[p].pc \in {"idle", "get", "compute", "answered"} /\ call[p].took <= LoadTime

Answered == {p \in Callers : call[p].pc = "answered"}

\* An answer is the aggregate and the window that were asked for, whoever computed
\* it (cacheKey).
WindowIsOwn ==
    \A p \in Answered : call[p].got.op = call[p].op /\ call[p].got.filter.window = call[p].filter.window

\* And it tells of rows no older than the cache keeps it and the computation took
\* (statsCache.get).
AnswerIsRecent == \A p \in Answered : call[p].got.data <= TTL[call[p].op] + LoadTime

\* An answer is for the filter that was asked for: the query-string filter is
\* "used by every /api/logs endpoint" (parseLogFilter's comment).
FilterIsOwn == \A p \in Answered : call[p].got.filter = call[p].filter
=============================================================================
