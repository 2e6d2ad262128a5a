---------------------------- MODULE CountryBans ----------------------------
(***************************************************************************)
(* Country bans: an operator's "ban this country" becomes one CrowdSec     *)
(* range decision per CIDR.  A job runner with a single worker pushes the  *)
(* CIDRs to the LAPI in chunks and then writes a tracking row; Revoke      *)
(* removes both without taking the worker's mutex; a reconciler compares   *)
(* each row with the LAPI and records a verdict.                           *)
(***************************************************************************)
EXTENDS Integers, FiniteSets

CONSTANTS
    Countries,     \* country codes
    Size,          \* how many CIDRs the GeoIP database lists for each
    ChunkSize,     \* CIDRs in one POST to the LAPI
    DriftThresholdPct,
    Jobs,          \* job ids
    Revokers,      \* concurrent DELETE requests
    None,
    Faults,        \* which faults of FaultKinds this instance may meet
    MaxFaults,     \* bound on the faults
    MaxRevokes     \* bound on the revocations

\* chunk: a POST fails after any part of it was stored; purge: a LAPI delete is
\* refused; unwind: the best-effort delete is; lookup, persist, row, mark: a
\* statement fails; count: the LAPI cannot be read; expire: decisions end or
\* are removed behind the panel's back; crash: the panel stops.
FaultKinds == {"chunk", "purge", "unwind", "lookup", "persist", "row", "mark",
               "count", "expire", "crash"}

States   == {"pending", "running", "completed", "failed"}
Verdicts == {"active", "drifted"}
JobRow   == [cc: Countries, state: States]
Row      == [id: Nat, count: Nat, state: Verdicts]
Seen     == [cc: Countries, id: Nat, count: Nat, state: Verdicts]

ASSUME CountryAssumption ==
    /\ Size \in [Countries -> Nat]
    /\ ChunkSize \in Nat \ {0} /\ DriftThresholdPct \in 0 .. 100
    /\ None \notin Countries \cup Jobs
    /\ None \notin JobRow /\ None \notin Row
    /\ Faults \subseteq FaultKinds
    /\ MaxFaults \in Nat /\ MaxRevokes \in Nat

VARIABLES
    jobs,      \* table country_expansion_jobs
    queued,    \* goroutines waiting for the worker's mutex, by job
    worker,    \* the goroutine that holds it
    rows,      \* table country_ban_expansions, by country
    lapi,      \* decisions the LAPI holds for the country's origin
    revoke,    \* the DELETE requests under way
    drift,     \* the reconciler's tick
    running,   \* the panel is up
    raced,     \* history: countries where a revocation overlapped a job
    lastId, revokes, faults

jobVars == <<jobs, queued, worker>>
vars == <<jobVars, rows, lapi, revoke, drift, running, raced, lastId, revokes, faults>>

Steps    == {"idle", "lookup", "purge", "chunk", "decide", "unwind", "persist",
             "complete", "fail"}

NoWork  == [pc |-> "idle", job |-> None, cc |-> None, next |-> 0, committed |-> 0]
NoTick  == [pc |-> "idle", todo |-> {}, row |-> None, verdict |-> "active"]

On(c) == worker.pc # "idle" /\ worker.cc = c
Go(step) == worker' = [worker EXCEPT !.pc = step]
Fault(kind) == kind \in Faults /\ faults < MaxFaults /\ faults' = faults + 1

Init ==
    /\ jobs = [j \in Jobs |-> None]
    /\ queued = {} /\ worker = NoWork
    /\ rows = [c \in Countries |-> None]
    /\ lapi = [c \in Countries |-> 0]
    /\ revoke = [r \in Revokers |-> None]
    /\ drift = NoTick /\ running = TRUE /\ raced = {}
    /\ lastId = 0 /\ revokes = 0 /\ faults = 0

----------------------------------------------------------------------------
(* JobRunner *)

worldVars == <<rows, lapi, revoke, drift, running, raced, lastId, revokes>>

\* Submit: insert the pending row, start the goroutine, answer 202.
Submit(j, c) ==
    /\ running /\ jobs[j] = None
    /\ jobs' = [jobs EXCEPT ![j] = [cc |-> c, state |-> "pending"]]
    /\ queued' = queued \cup {j}
    /\ UNCHANGED <<worker, worldVars, faults>>

\* runJob takes the mutex (in no particular order) and marks the job running.
StartJob(j) ==
    /\ running /\ j \in queued /\ worker.pc = "idle"
    /\ queued' = queued \ {j}
    /\ jobs' = [jobs EXCEPT ![j].state = "running"]
    /\ worker' = [NoWork EXCEPT !.pc = "lookup", !.job = j, !.cc = jobs[j].cc]
    /\ raced' = IF \E r \in Revokers : revoke[r] = jobs[j].cc
                THEN raced \cup {jobs[j].cc} ELSE raced
    /\ UNCHANGED <<rows, lapi, revoke, drift, running, lastId, revokes, faults>>

\* The UPDATE to running fails: the goroutine returns, the row stays pending.
StartFails(j) ==
    /\ running /\ j \in queued /\ worker.pc = "idle" /\ Fault("mark")
    /\ queued' = queued \ {j}
    /\ UNCHANGED <<jobs, worker, worldVars>>

\* markCompleted, markFailed: the terminal state, then the mutex is released.
Finish(state) ==
    /\ jobs' = [jobs EXCEPT ![worker.job].state = state]
    /\ worker' = NoWork
    /\ UNCHANGED <<queued, worldVars>>

Complete == running /\ worker.pc = "complete" /\ Finish("completed") /\ UNCHANGED faults
FailJob  == running /\ worker.pc = "fail" /\ Finish("failed") /\ UNCHANGED faults

\* The terminal UPDATE fails and is only logged.
MarkFails ==
    /\ running /\ worker.pc \in {"complete", "fail"} /\ Fault("mark")
    /\ worker' = NoWork
    /\ UNCHANGED <<jobs, queued, worldVars>>

----------------------------------------------------------------------------
(* Expander.BanWithProgress *)

otherVars == <<jobs, queued, revoke, drift, running, raced, lastId, revokes>>

\* Mutant: the previous expansion is not looked for.
FindExistingNever ==
    /\ running /\ worker.pc = "lookup"
    /\ Go(IF Size[worker.cc] = 0 THEN "fail" ELSE "chunk")
    /\ UNCHANGED <<rows, lapi, otherVars, faults>>

\* A country without CIDRs is an error; an existing row sends us to the purge.
FindExisting ==
    /\ running /\ worker.pc = "lookup"
    /\ Go(IF Size[worker.cc] = 0 THEN "fail"
          ELSE IF rows[worker.cc] # None THEN "purge" ELSE "chunk")
    /\ UNCHANGED <<rows, lapi, otherVars, faults>>

\* The Scan's error is discarded: existing stays 0.
FindExistingFails ==
    /\ running /\ worker.pc = "lookup" /\ Size[worker.cc] # 0 /\ Fault("lookup")
    /\ Go("chunk")
    /\ UNCHANGED <<rows, lapi, otherVars>>

\* Revoke the previous expansion's decisions first.
Purge ==
    /\ running /\ worker.pc = "purge"
    /\ lapi' = [lapi EXCEPT ![worker.cc] = 0]
    /\ Go("chunk")
    /\ UNCHANGED <<rows, otherVars, faults>>

PurgeFails ==
    /\ running /\ worker.pc = "purge" /\ Fault("purge")
    /\ Go("fail")
    /\ UNCHANGED <<rows, lapi, otherVars>>

\* The size of the chunk that starts at CIDR number i.
ChunkLen(c, i) == IF i + ChunkSize > Size[c] THEN Size[c] - i ELSE ChunkSize

\* k of the chunk's n CIDRs are stored and the call answers ok or not.
Push(k, ok) ==
    LET c == worker.cc
        n == ChunkLen(c, worker.next)
    IN  /\ lapi' = [lapi EXCEPT ![c] = @ + k]
        /\ worker' = [worker EXCEPT !.next = @ + n,
                                    !.committed = IF ok THEN @ + n ELSE @,
                                    !.pc = IF worker.next + n < Size[c]
                                           THEN "chunk" ELSE "decide"]
        /\ UNCHANGED <<rows, otherVars>>

PushChunk ==
    /\ running /\ worker.pc = "chunk"
    /\ Push(ChunkLen(worker.cc, worker.next), TRUE)
    /\ UNCHANGED faults

\* A failed chunk is logged and the loop moves on.
ChunkFails ==
    /\ running /\ worker.pc = "chunk" /\ Fault("chunk")
    /\ \E k \in 0 .. ChunkLen(worker.cc, worker.next) : Push(k, FALSE)

Decide ==
    /\ running /\ worker.pc = "decide"
    /\ Go(IF worker.committed = 0 THEN "unwind" ELSE "persist")
    /\ UNCHANGED <<rows, lapi, otherVars, faults>>

\* Mutant: a failed job leaves what its chunks stored.
UnwindSkips ==
    /\ running /\ worker.pc = "unwind"
    /\ Go("fail")
    /\ UNCHANGED <<rows, lapi, otherVars, faults>>

\* Best-effort delete by origin, then the error is returned.
Unwind ==
    /\ running /\ worker.pc = "unwind"
    /\ lapi' = [lapi EXCEPT ![worker.cc] = 0]
    /\ Go("fail")
    /\ UNCHANGED <<rows, otherVars, faults>>

UnwindFails ==
    /\ running /\ worker.pc = "unwind" /\ Fault("unwind")
    /\ Go("fail")
    /\ UNCHANGED <<rows, lapi, otherVars>>

persistVars == <<jobs, queued, lapi, revoke, drift, running, raced, revokes>>

\* Mutant: the row counts the CIDRs that were requested.
PersistRequested ==
    /\ running /\ worker.pc = "persist"
    /\ lastId' = lastId + 1
    /\ rows' = [rows EXCEPT ![worker.cc] =
                 [id |-> lastId', count |-> Size[worker.cc], state |-> "active"]]
    /\ Go("complete")
    /\ UNCHANGED <<persistVars, faults>>

\* INSERT ... ON CONFLICT: an existing row keeps its id and its verdict.
Persist ==
    LET c == worker.cc
    IN  /\ running /\ worker.pc = "persist"
        /\ IF rows[c] = None
           THEN /\ lastId' = lastId + 1
                /\ rows' = [rows EXCEPT ![c] =
                     [id |-> lastId', count |-> worker.committed, state |-> "active"]]
           ELSE /\ rows' = [rows EXCEPT ![c].count = worker.committed]
                /\ UNCHANGED lastId
        /\ Go("complete")
        /\ UNCHANGED <<persistVars, faults>>

PersistFails ==
    /\ running /\ worker.pc = "persist" /\ Fault("persist")
    /\ Go("unwind")
    /\ UNCHANGED <<rows, lapi, otherVars>>

----------------------------------------------------------------------------
(* Expander.Revoke, called by the DELETE handler: no mutex. *)

revokeFrame == <<jobVars, drift, running, lastId>>

\* The LAPI delete by origin; the row is deleted in a second step.
RevokeDecisions(r, c) ==
    /\ running /\ revoke[r] = None
    /\ revokes < MaxRevokes /\ revokes' = revokes + 1
    /\ lapi' = [lapi EXCEPT ![c] = 0]
    /\ revoke' = [revoke EXCEPT ![r] = c]
    /\ raced' = IF On(c) THEN raced \cup {c} ELSE raced
    /\ UNCHANGED <<revokeFrame, rows, faults>>

RevokeRow(r) ==
    /\ running /\ revoke[r] # None
    /\ rows' = [rows EXCEPT ![revoke[r]] = None]
    /\ revoke' = [revoke EXCEPT ![r] = None]
    /\ UNCHANGED <<revokeFrame, lapi, raced, revokes, faults>>

\* The DELETE of the row fails: 500, the row stays.
RevokeRowFails(r) ==
    /\ running /\ revoke[r] # None /\ Fault("row")
    /\ revoke' = [revoke EXCEPT ![r] = None]
    /\ UNCHANGED <<revokeFrame, rows, lapi, raced, revokes>>

----------------------------------------------------------------------------
(* Reconciler.checkOnce *)

driftFrame == <<jobVars, lapi, revoke, running, raced, lastId, revokes>>

\* classify: the tolerance is one percent of the row's count, at least one.
Classify(count, actual) ==
    LET delta == IF count >= actual THEN count - actual ELSE actual - count
        pct   == (count * DriftThresholdPct) \div 100
        tolerance == IF pct < 1 THEN 1 ELSE pct
    IN  IF count > 0 /\ delta > tolerance THEN "drifted" ELSE "active"

\* A tick reads every row first.
TickReads ==
    /\ running /\ drift.pc = "idle"
    /\ drift' = [NoTick EXCEPT !.pc = "scan",
          !.todo = {[cc |-> c, id |-> rows[c].id, count |-> rows[c].count,
                     state |-> rows[c].state] : c \in {d \in Countries : rows[d] # None}}]
    /\ UNCHANGED <<driftFrame, rows, faults>>

TickEnds ==
    /\ running /\ drift.pc = "scan" /\ drift.todo = {}
    /\ drift' = NoTick
    /\ UNCHANGED <<driftFrame, rows, faults>>

Scanned(x) == [NoTick EXCEPT !.pc = "scan", !.todo = drift.todo \ {x}]

\* Count the origin's decisions and compare with the row as it was read.
TickCounts(x) ==
    /\ running /\ drift.pc = "scan" /\ x \in drift.todo
    /\ LET v == Classify(x.count, lapi[x.cc])
       IN  drift' = IF v = x.state THEN Scanned(x)
                    ELSE [Scanned(x) EXCEPT !.pc = "update", !.row = x, !.verdict = v]
    /\ UNCHANGED <<driftFrame, rows, faults>>

TickCountFails(x) ==
    /\ running /\ drift.pc = "scan" /\ x \in drift.todo /\ Fault("count")
    /\ drift' = Scanned(x)
    /\ UNCHANGED <<driftFrame, rows>>

\* Mutant: only a row that was active is updated.
TickDriftsOnly ==
    /\ running /\ drift.pc = "update"
    /\ rows' = [c \in Countries |->
         IF rows[c] # None /\ rows[c].id = drift.row.id /\ rows[c].state = "active"
         THEN [rows[c] EXCEPT !.state = drift.verdict] ELSE rows[c]]
    /\ drift' = [NoTick EXCEPT !.pc = "scan", !.todo = drift.todo]
    /\ UNCHANGED <<driftFrame, faults>>

\* UPDATE ... WHERE id: a row replaced meanwhile has another id.
TickUpdates ==
    /\ running /\ drift.pc = "update"
    /\ rows' = [c \in Countries |->
         IF rows[c] # None /\ rows[c].id = drift.row.id
         THEN [rows[c] EXCEPT !.state = drift.verdict] ELSE rows[c]]
    /\ drift' = [NoTick EXCEPT !.pc = "scan", !.todo = drift.todo]
    /\ UNCHANGED <<driftFrame, faults>>

----------------------------------------------------------------------------
(* Surroundings *)

\* Decisions end, are flushed by the LAPI, or are deleted with cscli.
Expire(c) ==
    /\ lapi[c] > 0 /\ Fault("expire")
    /\ \E k \in 0 .. lapi[c] - 1 : lapi' = [lapi EXCEPT ![c] = k]
    /\ UNCHANGED <<jobVars, rows, revoke, drift, running, raced, lastId, revokes>>

\* A crash, or SIGTERM: the cancelled context fails every later call alike.
PanelStops ==
    /\ running /\ Fault("crash")
    /\ running' = FALSE /\ queued' = {} /\ worker' = NoWork
    /\ revoke' = [r \in Revokers |-> None] /\ drift' = NoTick
    /\ UNCHANGED <<jobs, rows, lapi, raced, lastId, revokes>>

\* Mutant: only running rows are recovered.
RecoverRunningOnly ==
    /\ ~running /\ running' = TRUE
    /\ jobs' = [j \in Jobs |-> IF jobs[j] # None /\ jobs[j].state = "running"
                               THEN [jobs[j] EXCEPT !.state = "failed"] ELSE jobs[j]]
    /\ UNCHANGED <<queued, worker, rows, lapi, revoke, drift, raced, lastId, revokes, faults>>

\* RecoverOnBoot, before the first request is served.
RecoverOnBoot ==
    /\ ~running /\ running' = TRUE
    /\ jobs' = [j \in Jobs |->
         IF jobs[j] # None /\ jobs[j].state \in {"pending", "running"}
         THEN [jobs[j] EXCEPT !.state = "failed"] ELSE jobs[j]]
    /\ UNCHANGED <<queued, worker, rows, lapi, revoke, drift, raced, lastId, revokes, faults>>

----------------------------------------------------------------------------
Work == \/ \E j \in Jobs : StartJob(j)
        \/ FindExisting \/ Purge \/ PushChunk \/ Decide \/ Unwind \/ Persist
        \/ Complete \/ FailJob
Tick == TickReads \/ TickEnds \/ (\E x \in drift.todo : TickCounts(x)) \/ TickUpdates
WorkFails ==
    \/ \E j \in Jobs : StartFails(j)
    \/ MarkFails \/ FindExistingFails \/ PurgeFails \/ ChunkFails \/ UnwindFails
    \/ PersistFails
RevokeStep ==
    \/ \E r \in Revokers, c \in Countries : RevokeDecisions(r, c)
    \/ \E r \in Revokers : RevokeRow(r) \/ RevokeRowFails(r)

Next ==
    \/ \E j \in Jobs, c \in Countries : Submit(j, c)
    \/ Work \/ WorkFails \/ RevokeStep \/ Tick
    \/ \E x \in drift.todo : TickCountFails(x)
    \/ \E c \in Countries : Expire(c)
    \/ PanelStops \/ RecoverOnBoot

Spec == Init /\ [][Next]_vars

\* The worker and the ticker are goroutines the scheduler keeps running, every
\* call they make has a timeout, and the container restarts a stopped panel.
FairSpec == Spec /\ WF_vars(Work) /\ WF_vars(Tick) /\ WF_vars(RecoverOnBoot)

----------------------------------------------------------------------------
(* Properties *)

\* Every variable keeps its type: rows, jobs and what each goroutine holds.
TypeOK ==
    /\ jobs \in [Jobs -> JobRow \cup {None}]
    /\ queued \subseteq Jobs
    /\ worker \in [pc: Steps, job: Jobs \cup {None}, cc: Countries \cup {None},
                   next: Nat, committed: Nat]
    /\ \A j \in queued : jobs[j] # None
    /\ worker.pc # "idle" =>
         worker.job \in Jobs /\ jobs[worker.job] # None /\ worker.cc \in Countries
    /\ worker.pc \in {"lookup", "purge"} => worker.next = 0
    /\ worker.pc \in {"purge", "chunk"} => worker.next < Size[worker.cc]
    /\ rows \in [Countries -> Row \cup {None}]
    /\ lapi \in [Countries -> Nat]
    /\ revoke \in [Revokers -> Countries \cup {None}]
    /\ drift.pc \in {"idle", "scan", "update"} /\ drift.todo \subseteq Seen
    /\ drift.row \in Seen \cup {None} /\ drift.verdict \in Verdicts
    /\ running \in BOOLEAN /\ raced \subseteq Countries
    /\ lastId \in Nat /\ revokes \in Nat /\ faults \in Nat

\* No job or revocation of c is under way.
Quiet(c) == ~On(c) /\ \A r \in Revokers : revoke[r] # c

\* The LAPI holds at most one decision per CIDR of a country: what the purge
\* before a new expansion is for ("so we don't double-stack").
Stacked(c) == lapi[c] > Size[c]
NoDoubleStack == \A c \in Countries \ raced : ~Stacked(c)

\* Decisions the panel cannot see: nothing is in the LAPI without a row, the
\* purpose of both best-effort deletes of BanWithProgress.
Leaked(c) == Quiet(c) /\ rows[c] = None /\ lapi[c] > 0
NeverLeaked == \A c \in Countries : ~Leaked(c)
NoLeak == \A c \in Countries \ raced : ~Leaked(c)

\* When a job becomes completed, the row holds the number of CIDRs its accepted
\* chunks add up to, and the LAPI holds that many, unless decisions expired.
CompletedIsTracked ==
    [][\A j \in Jobs :
         /\ jobs[j] # None /\ jobs[j].state # "completed" /\ jobs'[j].state = "completed"
         /\ jobs[j].cc \notin raced
         => /\ rows[jobs[j].cc] # None
            /\ rows[jobs[j].cc].count = worker.committed
            /\ "expire" \in Faults \/ rows[jobs[j].cc].count <= lapi[jobs[j].cc]]_vars

\* Every submitted job reaches a terminal state, a restart included.
EveryJobEnds ==
    \A j \in Jobs : jobs[j] # None
        ~> jobs[j] # None /\ jobs[j].state \in {"completed", "failed"}

\* The reconciler's verdict ends up right for every row, whatever jobs,
\* revocations, faults and stale reads came before.
VerdictConverges ==
    <>[](\A c \in Countries : rows[c] # None
            => rows[c].state = Classify(rows[c].count, lapi[c]))
=============================================================================
