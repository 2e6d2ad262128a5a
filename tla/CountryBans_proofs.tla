------------------------- MODULE CountryBans_proofs -------------------------
(***************************************************************************)
(* Proofs about CountryBans for every set of countries, sizes and jobs:    *)
(* type correctness, and that without a crash, an unread table or a lost   *)
(* clean-up no country is stacked and no decision is left without its row. *)
(***************************************************************************)
EXTENDS CountryBans, TLAPS

\* A chunk that starts inside the list has at least one CIDR and ends in it.
LEMMA ChunkBounds ==
    ASSUME NEW c \in Countries, NEW i \in Nat, i < Size[c]
    PROVE  ChunkLen(c, i) \in Nat /\ ChunkLen(c, i) > 0 /\ i + ChunkLen(c, i) <= Size[c]
  BY CountryAssumption DEF ChunkLen

\* A verdict is one of the two states of the table.
LEMMA ClassifyType == \A count, actual \in Nat : Classify(count, actual) \in Verdicts
  BY DEF Classify, Verdicts

\* A chunk's step keeps every type, whatever part of it was stored.
LEMMA PushType ==
    ASSUME TypeOK, worker.pc = "chunk", NEW k \in Nat, NEW ok \in BOOLEAN, Push(k, ok),
           faults' \in Nat
    PROVE  TypeOK'
<1> USE CountryAssumption DEF TypeOK
<1> DEFINE n == ChunkLen(worker.cc, worker.next)
<1>1. n \in Nat /\ worker.cc \in Countries /\ worker.next \in Nat /\ worker.committed \in Nat
  BY ChunkBounds
<1> HIDE DEF n
<1>2. lapi' \in [Countries -> Nat]
  BY <1>1 DEF Push
<1> DEFINE m == IF ok THEN worker.committed + n ELSE worker.committed
           p == IF worker.next + n < Size[worker.cc] THEN "chunk" ELSE "decide"
<1>3. /\ worker' = [worker EXCEPT !.next = worker.next + n, !.committed = m, !.pc = p]
      /\ m \in Nat /\ p \in {"chunk", "decide"} /\ worker.next + n \in Nat
      /\ p = "chunk" => worker.next + n < Size[worker.cc]
  BY <1>1 DEF Push, n
<1> HIDE DEF m, p
<1>4. /\ worker' \in [pc: Steps, job: Jobs \cup {None}, cc: Countries \cup {None},
                     next: Nat, committed: Nat]
      /\ worker'.job = worker.job /\ worker'.cc = worker.cc
      /\ worker'.pc \in {"chunk", "decide"}
      /\ worker'.pc = "chunk" => worker'.next < Size[worker.cc]
  BY <1>1, <1>3 DEF Steps
<1>5. UNCHANGED <<rows, otherVars>>
  BY DEF Push
<1>6. UNCHANGED <<jobs, queued, rows, revoke, drift, running, raced, lastId, revokes>>
  BY <1>5 DEF otherVars
<1>7. worker'.job \in Jobs /\ jobs'[worker'.job] # None /\ worker'.cc \in Countries
  BY <1>1, <1>4, <1>6
<1> QED
  BY <1>2, <1>4, <1>6, <1>7

\* Every variable keeps its type, and the worker never starts a chunk past the
\* end of the country's list.
THEOREM TypeCorrect == Spec => []TypeOK
<1> USE CountryAssumption
<1>1. Init => TypeOK
  BY DEF Init, TypeOK, NoWork, NoTick, Steps, Verdicts
<1>2. TypeOK /\ [Next]_vars => TypeOK'
  <2> SUFFICES ASSUME TypeOK, [Next]_vars PROVE TypeOK'
    OBVIOUS
  <2> USE DEF TypeOK, worldVars, otherVars, Fault, Steps
  <2>1. CASE UNCHANGED vars
    BY <2>1 DEF vars, jobVars
  <2>2. ASSUME NEW j \in Jobs, NEW c \in Countries, Submit(j, c) PROVE TypeOK'
    <3>1. [cc |-> c, state |-> "pending"] \in JobRow
      BY DEF JobRow, States
    <3> QED
      BY <2>2, <3>1 DEF Submit
  <2>3. CASE Work
    <3>1. ASSUME NEW j \in Jobs, StartJob(j) PROVE TypeOK'
      <4>1. jobs[j] \in JobRow
        BY <3>1 DEF StartJob
      <4>2. [jobs[j] EXCEPT !.state = "running"] \in JobRow
        BY <4>1 DEF JobRow, States
      <4>3. /\ jobs' = [jobs EXCEPT ![j] = [jobs[j] EXCEPT !.state = "running"]]
            /\ jobs' \in [Jobs -> JobRow \cup {None}]
            /\ \A i \in Jobs : jobs[i] # None => jobs'[i] # None
        BY <3>1, <4>2 DEF StartJob
      <4>4. worker' = [pc |-> "lookup", job |-> j, cc |-> jobs[j].cc,
                       next |-> 0, committed |-> 0] /\ jobs[j].cc \in Countries
        BY <3>1, <4>1 DEF StartJob, NoWork, JobRow
      <4>5. raced' \subseteq Countries /\ queued' \subseteq queued
        BY <3>1, <4>4 DEF StartJob
      <4>6. UNCHANGED <<rows, lapi, revoke, drift, running, lastId, revokes, faults>>
        BY <3>1 DEF StartJob
      <4>7. jobs[j] # None
        BY <4>1
      <4>8. jobs'[j] # None
        BY <4>3, <4>7
      <4> QED
        BY <4>3, <4>4, <4>5, <4>6, <4>8
    <3>2. CASE FindExisting
      BY <3>2 DEF FindExisting, Go
    <3>3. CASE Purge
      BY <3>3 DEF Purge, Go
    <3>4. CASE PushChunk
      <4>1. ChunkLen(worker.cc, worker.next) \in Nat
        BY <3>4, ChunkBounds DEF PushChunk
      <4> QED
        BY <3>4, <4>1, PushType DEF PushChunk
    <3>5. CASE Decide \/ Unwind
      BY <3>5 DEF Decide, Unwind, Go
    <3>6. CASE Persist
      <4>1. [id |-> lastId + 1, count |-> worker.committed, state |-> "active"] \in Row
        BY DEF Row, Verdicts
      <4>2. rows' \in [Countries -> Row \cup {None}] /\ lastId' \in Nat
        <5>1. CASE rows[worker.cc] = None
          BY <3>6, <4>1, <5>1 DEF Persist
        <5>2. CASE rows[worker.cc] # None
          <6>1. worker.cc \in Countries /\ worker.committed \in Nat
            BY <3>6 DEF Persist
          <6>2. [rows[worker.cc] EXCEPT !.count = worker.committed] \in Row
            BY <5>2, <6>1 DEF Row
          <6> QED
            BY <3>6, <5>2, <6>1, <6>2 DEF Persist
        <5> QED
          BY <5>1, <5>2
      <4> QED
        BY <3>6, <4>2 DEF Persist, Go, persistVars
    <3>7. ASSUME NEW s \in States, Finish(s), worker.pc # "idle", UNCHANGED faults
          PROVE  TypeOK'
      <4>1. [jobs[worker.job] EXCEPT !.state = s] \in JobRow
        BY <3>7 DEF JobRow
      <4>2. jobs' \in [Jobs -> JobRow \cup {None}]
            /\ \A i \in Jobs : jobs[i] # None => jobs'[i] # None
        BY <3>7, <4>1 DEF Finish
      <4> QED
        BY <3>7, <4>2 DEF Finish, NoWork
    <3> QED
      BY <2>3, <3>1, <3>2, <3>3, <3>4, <3>5, <3>6, <3>7
         DEF Work, Complete, FailJob, States
  <2>4. CASE WorkFails
    <3>1. ASSUME NEW j \in Jobs, StartFails(j) PROVE TypeOK'
      BY <3>1 DEF StartFails
    <3>2. CASE MarkFails
      BY <3>2 DEF MarkFails, NoWork
    <3>3. CASE FindExistingFails
      BY <3>3 DEF FindExistingFails, Go
    <3>4. CASE PurgeFails \/ UnwindFails \/ PersistFails
      BY <3>4 DEF PurgeFails, UnwindFails, PersistFails, Go
    <3>5. CASE ChunkFails
      <4>1. PICK k \in 0 .. ChunkLen(worker.cc, worker.next) : Push(k, FALSE)
        BY <3>5 DEF ChunkFails
      <4>2. k \in Nat /\ worker.pc = "chunk" /\ faults' \in Nat
        BY <3>5, <4>1 DEF ChunkFails
      <4> QED
        BY <4>1, <4>2, PushType
    <3> QED
      BY <2>4, <3>1, <3>2, <3>3, <3>4, <3>5 DEF WorkFails
  <2>5. CASE RevokeStep
    <3> USE DEF revokeFrame, jobVars
    <3>1. ASSUME NEW r \in Revokers, NEW c \in Countries, RevokeDecisions(r, c)
          PROVE  TypeOK'
      BY <3>1 DEF RevokeDecisions
    <3>2. ASSUME NEW r \in Revokers, RevokeRow(r) \/ RevokeRowFails(r) PROVE TypeOK'
      BY <3>2 DEF RevokeRow, RevokeRowFails
    <3> QED
      BY <2>5, <3>1, <3>2 DEF RevokeStep
  <2>6. ASSUME NEW x \in drift.todo,
               TickCounts(x) \/ TickCountFails(x)
        PROVE  TypeOK'
    <3> USE DEF driftFrame, jobVars
    <3>1. Scanned(x).pc = "scan" /\ Scanned(x).todo \subseteq Seen
          /\ Scanned(x).row = None /\ Scanned(x).verdict \in Verdicts
      BY DEF Scanned, NoTick, Verdicts
    <3>2. Classify(x.count, lapi[x.cc]) \in Verdicts
      BY ClassifyType DEF Seen
    <3>3. drift'.pc \in {"scan", "update"} /\ drift'.todo \subseteq Seen
          /\ drift'.row \in Seen \cup {None} /\ drift'.verdict \in Verdicts
      <4>1. CASE drift' = Scanned(x)
        BY <3>1, <4>1
      <4>2. CASE drift' = [Scanned(x) EXCEPT !.pc = "update", !.row = x,
                                             !.verdict = Classify(x.count, lapi[x.cc])]
        BY <3>2, <4>2 DEF Scanned, NoTick
      <4> QED
        BY <2>6, <4>1, <4>2 DEF TickCounts, TickCountFails
    <3> QED
      BY <2>6, <3>3 DEF TickCounts, TickCountFails
  <2>7. CASE TickReads
    <3>1. {[cc |-> c, id |-> rows[c].id, count |-> rows[c].count, state |-> rows[c].state] :
             c \in {d \in Countries : rows[d] # None}} \subseteq Seen
      BY DEF Seen, Row
    <3> QED
      BY <2>7, <3>1 DEF TickReads, NoTick, driftFrame, jobVars, Verdicts
  <2>8. CASE TickEnds
    BY <2>8 DEF TickEnds, NoTick, Verdicts, driftFrame, jobVars
  <2>9. CASE TickUpdates
    <3>1. rows' \in [Countries -> Row \cup {None}]
      BY <2>9 DEF TickUpdates, Row
    <3> QED
      BY <2>9, <3>1 DEF TickUpdates, NoTick, driftFrame, jobVars, Verdicts
  <2>10. ASSUME NEW c \in Countries, Expire(c) PROVE TypeOK'
    BY <2>10 DEF Expire, jobVars
  <2>11. CASE PanelStops
    <3>0. revoke' = [r \in Revokers |-> None] /\ faults' = faults + 1
      BY <2>11 DEF PanelStops
    <3>1. worker' = NoWork /\ drift' = NoTick /\ queued' = {} /\ running' = FALSE
      BY <2>11 DEF PanelStops
    <3>2. UNCHANGED <<jobs, rows, lapi, raced, lastId, revokes>>
      BY <2>11 DEF PanelStops
    <3>3. worker' \in [pc: Steps, job: Jobs \cup {None}, cc: Countries \cup {None},
                       next: Nat, committed: Nat] /\ worker'.pc = "idle"
      BY <3>1 DEF NoWork
    <3>4. drift'.pc = "idle" /\ drift'.todo = {} /\ drift'.row = None
          /\ drift'.verdict \in Verdicts
      BY <3>1 DEF NoTick, Verdicts
    <3>5. revoke' \in [Revokers -> Countries \cup {None}]
      BY <3>0
    <3>6. running' \in BOOLEAN
      BY <3>1, Zenon
    <3>7. faults' \in Nat
      BY <3>0
    <3>8. /\ jobs' \in [Jobs -> JobRow \cup {None}] /\ rows' \in [Countries -> Row \cup {None}]
          /\ lapi' \in [Countries -> Nat] /\ raced' \subseteq Countries
          /\ lastId' \in Nat /\ revokes' \in Nat
      BY <3>2
    <3> QED
      BY <3>1, <3>3, <3>4, <3>5, <3>6, <3>7, <3>8
  <2>12. CASE RecoverOnBoot
    <3>1. jobs' \in [Jobs -> JobRow \cup {None}]
          /\ \A i \in Jobs : jobs[i] # None => jobs'[i] # None
      BY <2>12 DEF RecoverOnBoot, JobRow, States
    <3> QED
      BY <2>12, <3>1 DEF RecoverOnBoot
  <2> QED
    BY <2>1, <2>2, <2>3, <2>4, <2>5, <2>6, <2>7, <2>8, <2>9, <2>10, <2>11, <2>12
       DEF Next, Tick
<1> QED
  BY <1>1, <1>2, PTL DEF Spec

----------------------------------------------------------------------------
\* What holds of a country no revocation overlapped, step by step: without a
\* row there are no decisions, except while the worker is on the country; and
\* what the worker has pushed never exceeds what it has gone through.
Good(c) ==
    /\ lapi[c] <= Size[c]
    /\ \A r \in Revokers : revoke[r] = c => ~On(c) /\ lapi[c] = 0
    /\ (On(c) => worker.pc \in {"lookup", "fail"}) => (rows[c] = None => lapi[c] = 0)
    /\ On(c) /\ worker.pc \in {"purge", "complete"} => rows[c] # None
    /\ On(c) /\ worker.pc = "chunk" => lapi[c] <= worker.next
LedgerInv == \A c \in Countries \ raced : Good(c)

\* Good depends on these variables only.
LEMMA GoodFrame ==
    ASSUME NEW c \in Countries, Good(c), worker' = worker, rows'[c] = rows[c],
           lapi' = lapi, revoke' = revoke
    PROVE  Good(c)'
  BY DEF Good, On

\* A step of the worker on another country, or of an idle one, leaves c alone.
LEMMA GoodElsewhere ==
    ASSUME NEW c \in Countries, Good(c), ~On(c), ~On(c)', rows'[c] = rows[c],
           lapi'[c] = lapi[c], revoke' = revoke
    PROVE  Good(c)'
  BY DEF Good

\* A chunk stores no more than its own CIDRs.
LEMMA PushGood ==
    ASSUME TypeOK, worker.pc = "chunk", NEW ok \in BOOLEAN,
           NEW k \in 0 .. ChunkLen(worker.cc, worker.next), Push(k, ok),
           NEW c \in Countries, Good(c)
    PROVE  Good(c)'
<1> DEFINE n == ChunkLen(worker.cc, worker.next)
<1>1. /\ worker.cc \in Countries /\ worker.next \in Nat /\ lapi \in [Countries -> Nat]
      /\ Size[c] \in Nat /\ Size[worker.cc] \in Nat
  BY CountryAssumption DEF TypeOK
<1>2. n \in Nat /\ worker.next + n <= Size[worker.cc] /\ k \in Nat /\ k <= n
  BY <1>1, ChunkBounds DEF TypeOK
<1> HIDE DEF n
<1>3. /\ worker'.cc = worker.cc /\ worker'.next = worker.next + n
      /\ worker'.pc \in {"chunk", "decide"}
      /\ lapi' = [lapi EXCEPT ![worker.cc] = @ + k]
  BY DEF Push, TypeOK, n
<1>4. UNCHANGED <<rows, revoke>>
  BY DEF Push, otherVars
<1> QED
  BY <1>1, <1>2, <1>3, <1>4 DEF Good, On

\* Every step keeps LedgerInv, if the panel does not crash, reads the row it
\* looks for and its best-effort delete succeeds.
LEMMA LedgerStep ==
    ASSUME TypeOK, LedgerInv, [Next]_vars,
           "crash" \notin Faults, "lookup" \notin Faults, "unwind" \notin Faults
    PROVE  LedgerInv'
<1> USE CountryAssumption
<1> SUFFICES ASSUME NEW c \in Countries, c \notin raced' PROVE Good(c)'
  BY DEF LedgerInv
<1>1. raced \subseteq raced'
  BY DEF Next, vars, Submit, worldVars, otherVars, Work, StartJob, Finish, Complete, FailJob,
         FindExisting, Purge, PushChunk, Push, Decide, Unwind, Persist, persistVars, WorkFails,
         StartFails, MarkFails, FindExistingFails, PurgeFails, ChunkFails, UnwindFails,
         PersistFails, RevokeStep, RevokeDecisions, RevokeRow, RevokeRowFails, Tick, TickReads,
         TickEnds, TickCounts, TickUpdates, TickCountFails, driftFrame, Expire, PanelStops,
         RecoverOnBoot
<1>2. Good(c)
  BY <1>1 DEF LedgerInv
<1>3. /\ lapi[c] \in Nat /\ Size[c] \in Nat /\ worker.next \in Nat
      /\ lapi \in [Countries -> Nat] /\ rows \in [Countries -> Row \cup {None}]
      /\ worker.pc # "idle" => worker.cc \in Countries
  BY DEF TypeOK
<1>4. CASE UNCHANGED vars
  BY <1>2, <1>4, GoodFrame DEF vars, jobVars
<1>5. ASSUME NEW j \in Jobs, NEW d \in Countries, Submit(j, d) PROVE Good(c)'
  BY <1>2, <1>5, GoodFrame DEF Submit, worldVars
<1>6. CASE Work
  <2>1. ASSUME NEW j \in Jobs, StartJob(j) PROVE Good(c)'
    <3>1. ~On(c) /\ worker'.pc = "lookup" /\ worker'.cc = jobs[j].cc
      BY <2>1 DEF StartJob, On, NoWork
    <3>2. worker'.cc = c => \A r \in Revokers : revoke[r] # c
      BY <2>1, <3>1 DEF StartJob
    <3>3. UNCHANGED <<rows, lapi, revoke>>
      BY <2>1 DEF StartJob
    <3> QED
      BY <1>2, <3>1, <3>2, <3>3 DEF Good, On
  <2>2. CASE FindExisting
    <3>1. /\ worker.pc = "lookup" /\ worker'.cc = worker.cc /\ worker'.next = worker.next
          /\ worker'.pc = IF Size[worker.cc] = 0 THEN "fail"
                          ELSE IF rows[worker.cc] # None THEN "purge" ELSE "chunk"
          /\ UNCHANGED <<rows, lapi, revoke>>
      BY <2>2 DEF FindExisting, Go, otherVars, TypeOK
    <3> QED
      BY <1>2, <1>3, <3>1 DEF Good, On
  <2>3. CASE Purge
    <3>1. /\ worker.pc = "purge" /\ worker'.cc = worker.cc /\ worker'.pc = "chunk"
          /\ worker'.next = worker.next
          /\ lapi' = [lapi EXCEPT ![worker.cc] = 0] /\ UNCHANGED <<rows, revoke>>
      BY <2>3 DEF Purge, Go, otherVars, TypeOK
    <3> QED
      BY <1>2, <1>3, <3>1 DEF Good, On
  <2>4. CASE PushChunk
    <3>1. ChunkLen(worker.cc, worker.next) \in 0 .. ChunkLen(worker.cc, worker.next)
      BY <2>4, <1>3, ChunkBounds DEF PushChunk, TypeOK
    <3> QED
      BY <1>2, <2>4, <3>1, PushGood DEF PushChunk
  <2>5. CASE Decide
    <3>1. /\ worker.pc = "decide" /\ worker'.cc = worker.cc
          /\ worker'.pc \in {"unwind", "persist"} /\ UNCHANGED <<rows, lapi, revoke>>
      BY <2>5 DEF Decide, Go, otherVars, TypeOK
    <3> QED
      BY <1>2, <1>3, <3>1 DEF Good, On
  <2>6. CASE Unwind
    <3>1. /\ worker.pc = "unwind" /\ worker'.cc = worker.cc /\ worker'.pc = "fail"
          /\ lapi' = [lapi EXCEPT ![worker.cc] = 0] /\ UNCHANGED <<rows, revoke>>
      BY <2>6 DEF Unwind, Go, otherVars, TypeOK
    <3> QED
      BY <1>2, <1>3, <3>1 DEF Good, On
  <2>7. CASE Persist
    <3>1. worker.pc = "persist" /\ worker'.cc = worker.cc /\ worker'.pc = "complete"
          /\ UNCHANGED <<lapi, revoke>>
      BY <2>7 DEF Persist, Go, persistVars, TypeOK
    <3>2. rows'[worker.cc] # None /\ \A d \in Countries \ {worker.cc} : rows'[d] = rows[d]
      <4>1. CASE rows[worker.cc] = None
        <5>1. [id |-> lastId + 1, count |-> worker.committed, state |-> "active"] \in Row
          BY DEF TypeOK, Row, Verdicts
        <5> QED
          BY <1>3, <2>7, <3>1, <4>1, <5>1 DEF Persist
      <4>2. CASE rows[worker.cc] # None
        <5>1. [rows[worker.cc] EXCEPT !.count = worker.committed] \in Row
          BY <1>3, <3>1, <4>2 DEF TypeOK, Row
        <5> QED
          BY <1>3, <2>7, <3>1, <4>2, <5>1 DEF Persist
      <4> QED
        BY <4>1, <4>2
    <3> QED
      BY <1>2, <1>3, <3>1, <3>2 DEF Good, On
  <2>8. CASE Complete \/ FailJob
    <3>1. worker.pc \in {"complete", "fail"} /\ worker'.pc = "idle"
          /\ UNCHANGED <<rows, lapi, revoke>>
      BY <2>8 DEF Complete, FailJob, Finish, NoWork, worldVars
    <3> QED
      BY <1>2, <1>3, <3>1 DEF Good, On
  <2> QED
    BY <1>6, <2>1, <2>2, <2>3, <2>4, <2>5, <2>6, <2>7, <2>8 DEF Work
<1>7. CASE WorkFails
  <2> USE DEF Fault
  <2>1. ASSUME NEW j \in Jobs, StartFails(j) PROVE Good(c)'
    BY <1>2, <2>1, GoodFrame DEF StartFails, worldVars
  <2>2. CASE MarkFails
    <3>1. worker.pc \in {"complete", "fail"} /\ worker'.pc = "idle"
          /\ UNCHANGED <<rows, lapi, revoke>>
      BY <2>2 DEF MarkFails, NoWork, worldVars
    <3> QED
      BY <1>2, <1>3, <3>1 DEF Good, On
  <2>3. CASE PurgeFails
    <3>1. /\ worker.pc = "purge" /\ worker'.cc = worker.cc /\ worker'.pc = "fail"
          /\ UNCHANGED <<rows, lapi, revoke>>
      BY <2>3 DEF PurgeFails, Go, otherVars, TypeOK
    <3> QED
      BY <1>2, <1>3, <3>1 DEF Good, On
  <2>4. CASE ChunkFails
    BY <1>2, <2>4, PushGood DEF ChunkFails
  <2>5. CASE PersistFails
    <3>1. /\ worker.pc = "persist" /\ worker'.cc = worker.cc /\ worker'.pc = "unwind"
          /\ UNCHANGED <<rows, lapi, revoke>>
      BY <2>5 DEF PersistFails, Go, otherVars, TypeOK
    <3> QED
      BY <1>2, <1>3, <3>1 DEF Good, On
  <2> QED
    BY <1>7, <2>1, <2>2, <2>3, <2>4, <2>5 DEF WorkFails, FindExistingFails, UnwindFails
<1>8. CASE RevokeStep
  <2>1. ASSUME NEW r \in Revokers, NEW d \in Countries, RevokeDecisions(r, d)
        PROVE  Good(c)'
    <3>1. /\ lapi' = [lapi EXCEPT ![d] = 0] /\ UNCHANGED <<worker, rows>>
          /\ \A q \in Revokers : revoke'[q] = c => revoke[q] = c \/ d = c
      BY <2>1 DEF RevokeDecisions, revokeFrame, jobVars, TypeOK
    <3>2. d = c => ~On(c)
      BY <2>1 DEF RevokeDecisions
    <3> QED
      BY <1>2, <1>3, <3>1, <3>2 DEF Good, On
  <2>2. ASSUME NEW r \in Revokers, RevokeRow(r) \/ RevokeRowFails(r)
        PROVE  Good(c)'
    <3>1. /\ UNCHANGED <<worker, lapi>> /\ revoke[r] # None
          /\ \A q \in Revokers : revoke'[q] = c => revoke[q] = c
      BY <2>2, <1>3 DEF RevokeRow, RevokeRowFails, revokeFrame, jobVars, TypeOK
    <3>2. rows'[c] = rows[c] \/ revoke[r] = c
      BY <2>2, <1>3 DEF RevokeRow, RevokeRowFails
    <3> QED
      BY <1>2, <1>3, <3>1, <3>2 DEF Good, On
  <2> QED
    BY <1>8, <2>1, <2>2 DEF RevokeStep
<1>9. CASE Tick \/ \E x \in drift.todo : TickCountFails(x)
  <2>1. UNCHANGED <<worker, lapi, revoke>>
    BY <1>9 DEF Tick, TickReads, TickEnds, TickCounts, TickUpdates, TickCountFails,
                driftFrame, jobVars
  <2>2. rows'[c] = None <=> rows[c] = None
    <3>1. CASE TickUpdates
      <4>1. ASSUME rows[c] # None PROVE [rows[c] EXCEPT !.state = drift.verdict] \in Row
        BY <1>3, <4>1 DEF Row, TypeOK
      <4> QED
        BY <1>3, <3>1, <4>1 DEF TickUpdates
    <3> QED
      BY <1>9, <3>1 DEF Tick, TickReads, TickEnds, TickCounts, TickCountFails
  <2> QED
    BY <1>2, <2>1, <2>2 DEF Good, On
<1>10. ASSUME NEW d \in Countries, Expire(d) PROVE Good(c)'
  <2>1. PICK k \in 0 .. lapi[d] - 1 : lapi' = [lapi EXCEPT ![d] = k]
    BY <1>10 DEF Expire
  <2>2. UNCHANGED <<worker, rows, revoke>> /\ lapi[d] > 0
    BY <1>10 DEF Expire, jobVars
  <2> QED
    BY <1>2, <1>3, <2>1, <2>2 DEF Good, On
<1>11. CASE RecoverOnBoot
  BY <1>2, <1>11, GoodFrame DEF RecoverOnBoot
<1>12. ~PanelStops
  BY DEF PanelStops, Fault
<1> QED
  BY <1>4, <1>5, <1>6, <1>7, <1>8, <1>9, <1>10, <1>11, <1>12 DEF Next

\* Without the three faults that break it, the ledger invariant holds, and with
\* it: a country no revocation overlapped has at most one decision per CIDR.
THEOREM NoDoubleStackHolds ==
    ASSUME "crash" \notin Faults, "lookup" \notin Faults, "unwind" \notin Faults
    PROVE  Spec => []NoDoubleStack
<1>1. Init => LedgerInv
  BY CountryAssumption DEF Init, LedgerInv, Good, On, NoWork
<1>2. TypeOK /\ LedgerInv /\ [Next]_vars => LedgerInv'
  BY LedgerStep
<1>3. TypeOK /\ LedgerInv => NoDoubleStack
  BY CountryAssumption DEF LedgerInv, Good, NoDoubleStack, Stacked, TypeOK
<1> QED
  BY <1>1, <1>2, <1>3, TypeCorrect, PTL DEF Spec

\* Under the same conditions, when no job or revocation of a country is under
\* way, decisions of its origin in the LAPI have their row in the panel.
THEOREM NoLeakHolds ==
    ASSUME "crash" \notin Faults, "lookup" \notin Faults, "unwind" \notin Faults
    PROVE  Spec => []NoLeak
<1>1. Init => LedgerInv
  BY CountryAssumption DEF Init, LedgerInv, Good, On, NoWork
<1>2. TypeOK /\ LedgerInv /\ [Next]_vars => LedgerInv'
  BY LedgerStep
<1>3. TypeOK /\ LedgerInv => NoLeak
  BY DEF LedgerInv, Good, NoLeak, Leaked, Quiet, TypeOK
<1> QED
  BY <1>1, <1>2, <1>3, TypeCorrect, PTL DEF Spec
=============================================================================
