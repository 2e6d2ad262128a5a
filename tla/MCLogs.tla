------------------------------- MODULE MCLogs -------------------------------
(***************************************************************************)
(* Instances of the parts of Logs for TLC: a behaviour is one of them, and *)
(* the others stay as they began.  Reads: five rows of two timestamps, two *)
(* to a page, so three pages, a tie across two of them, and an export of   *)
(* more rows than its limit.  Cache: two requests and two windows, so that *)
(* the map is at its limit.                                                *)
(***************************************************************************)
EXTENDS Logs

CONSTANT Parts

readVars  == <<table, ts, hits, last, kind, pc, cursor, total, held, seen, twice, crossed,
               arrivals>>
cacheVars == <<entries, call>>
pageVars  == <<clock, log, gone, filled>>
mcVars    == <<part, vars, readVars, cacheVars, pageVars>>

\* An access row that passed, one that was refused and one of no known host that
\* failed, and a row of the WAF's audit log, which has a status too.
RowKind(src, status, host, path, dur) ==
    [ts |-> 0, src |-> src, status |-> status, host |-> host, path |-> path, dur |-> dur,
     size |-> dur]
SomeRowKinds ==
    {RowKind("caddy_access", 200, 1, 1, 1), RowKind("caddy_access", 403, 1, 2, 3),
     RowKind("caddy_access", 503, 0, 1, 2), RowKind("waf_audit", 403, 1, 2, 0)}
SomeEdges == <<1, 2>>

MCInit ==
    /\ part \in Parts
    /\ Init /\ Reads!Init /\ Stats!Init /\ Pages!Init
    /\ part # "reads" => kind = "list"

Rollup(A) == part = "rollup" /\ A /\ UNCHANGED <<part, readVars, cacheVars, pageVars>>
MCNext ==
    \/ Rollup(Next)
    \/ part = "reads" /\ Reads!Next /\ UNCHANGED <<part, vars, cacheVars, pageVars>>
    \/ part = "stats" /\ Stats!Next /\ UNCHANGED <<part, vars, readVars, pageVars>>
    \/ part = "pages" /\ Pages!Next /\ UNCHANGED <<part, vars, readVars, cacheVars>>

\* The fairness of LogRollup, for the part whose liveness is checked.
MCSpec ==
    /\ MCInit /\ [][MCNext]_mcVars
    /\ WF_mcVars(Rollup(JanitorStep)) /\ SF_mcVars(Rollup(StartFill))
    /\ WF_mcVars(Rollup(PanelStarts))
=============================================================================
