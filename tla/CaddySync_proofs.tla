-------------------------- MODULE CaddySync_proofs --------------------------
(***************************************************************************)
(* Proofs about CaddySync for every set of handlers, hosts, groups and     *)
(* faults: type correctness; that a reconcile no writer overtook posts the *)
(* database as one consistent cut; and that, for one operator at a time,   *)
(* every finished change is live and the reconciler implements             *)
(* DesiredState.                                                           *)
(***************************************************************************)
EXTENDS CaddySync, TLAPS

\* A configuration built from well-typed rows is well typed.
LEMMA BuildType ==
    ASSUME NEW H \in [Hosts -> Maybe(Groups)], NEW R \in [Hosts -> Maybe(Groups)],
           NEW G \in [Groups -> Maybe(Contents)],
           NEW S \in [mode: Modes, bouncer: BOOLEAN]
    PROVE  Build(H, R, G, S) \in Config
  BY DEF Build, Config, Route, Maybe

\* The rows the reconciler keeps are target groups or nothing.
LEMMA EnabledType ==
    ASSUME NEW row \in Maybe(HostRow)
    PROVE  Enabled(row) \in Maybe(Groups)
  BY DEF Enabled, Maybe, HostRow

\* What the query of a host's rules adds to a snapshot keeps its type.
LEMMA RulesReadType ==
    ASSUME NEW p \in Procs, snap \in [Procs -> Snapshot], NEW h \in Hosts, NEW r \in Maybe(Groups)
    PROVE  [snap EXCEPT ![p].rules[h] = r, ![p].todo = @ \ {h},
                        ![p].need = @ \cup ({r} \ {None})] \in [Procs -> Snapshot]
<1> DEFINE s == [hosts |-> snap[p].hosts, rules |-> [snap[p].rules EXCEPT ![h] = r],
                 groups |-> snap[p].groups, todo |-> snap[p].todo \ {h},
                 need |-> snap[p].need \cup ({r} \ {None})]
<1>1. s \in Snapshot
  BY DEF Snapshot, Maybe
<1> DEFINE f == [snap EXCEPT ![p].rules[h] = r, ![p].todo = @ \ {h},
                             ![p].need = @ \cup ({r} \ {None})]
<1>2. f[p] = s
  BY DEF Snapshot
<1>3. f = [q \in Procs |-> f[q]] /\ \A q \in Procs : q # p => f[q] = snap[q]
  OBVIOUS
<1> HIDE DEF f, s
<1>4. f \in [Procs -> Snapshot]
  BY <1>1, <1>2, <1>3
<1> QED
  BY <1>4 DEF f

\* So does what the query of a group adds.
LEMMA GroupReadType ==
    ASSUME NEW p \in Procs, snap \in [Procs -> Snapshot], NEW g \in Groups, NEW c \in Maybe(Contents)
    PROVE  [snap EXCEPT ![p].groups[g] = c, ![p].need = @ \ {g}] \in [Procs -> Snapshot]
  BY DEF Snapshot, Maybe

\* What is counted of requests and of faults keeps its type.
LEMMA CountType ==
    ASSUME TypeOK
    PROVE  /\ \A p : Ready(p) => requests' \in [n: Nat, overlap: BOOLEAN]
           /\ \A kind : Fault(kind) => faults' \in [n: Nat, harm: BOOLEAN]
<1>1. requests.n + 1 \in Nat /\ faults.n + 1 \in Nat
  BY DEF TypeOK
<1>2. \A n \in Nat, b \in BOOLEAN : /\ [n |-> n, overlap |-> b] \in [n: Nat, overlap: BOOLEAN]
                                    /\ [n |-> n, harm |-> b] \in [n: Nat, harm: BOOLEAN]
  OBVIOUS
<1>3. ASSUME NEW p, Ready(p) PROVE requests' \in [n: Nat, overlap: BOOLEAN]
  <2> DEFINE b == requests.overlap \/ \E q \in Procs : pc[q] # "idle"
  <2>1. requests' = [n |-> requests.n + 1, overlap |-> b]
    BY <1>3 DEF Ready
  <2>2. b \in BOOLEAN
    OBVIOUS
  <2> HIDE DEF b
  <2> QED
    BY <1>1, <1>2, <2>1, <2>2
<1>4. ASSUME NEW kind, Fault(kind) PROVE faults' \in [n: Nat, harm: BOOLEAN]
  <2> DEFINE b == faults.harm \/ kind # "crash" \/ late' # {}
  <2>1. faults' = [n |-> faults.n + 1, harm |-> b]
    BY <1>4 DEF Fault
  <2>2. b \in BOOLEAN
    OBVIOUS
  <2> HIDE DEF b
  <2> QED
    BY <1>1, <1>2, <2>1, <2>2
<1> QED
  BY <1>3, <1>4

\* Every variable keeps its type: the rows, the snapshots and the
\* configurations built from them.
THEOREM TypeCorrect == Spec => []TypeOK
<1> USE ConstantsAssumption
<1>1. Init => TypeOK
  BY DEF Init, TypeOK, NoRows, EmptySnap, Snapshot, Bare, Config, Route, Maybe,
         Procs, Plain, Idle
<1>2. TypeOK /\ [Next]_vars => TypeOK'
  <2> SUFFICES ASSUME TypeOK, [Next]_vars PROVE TypeOK'
    OBVIOUS
  <2> USE DEF TypeOK, dbVars, procVars, edgeVars, mainVars
  <2>1. CASE UNCHANGED vars
    BY <2>1 DEF vars
  <2>2. ASSUME NEW p \in Procs, Mutate(p) PROVE TypeOK'
    <3> USE DEF Wrote, Procs
    <3>0. Ready(p) => requests' \in [n: Nat, overlap: BOOLEAN]
      BY CountType DEF TypeOK
    <3>1. ASSUME NEW h \in Hosts, NEW g \in Groups, NEW on \in BOOLEAN,
                 CreateHost(p, h, g, on) \/ UpdateHost(p, h, g, on)
          PROVE  TypeOK'
      <4>1. hosts' = [hosts EXCEPT ![h] = [tg |-> g, on |-> on]] /\ Wrote(p)
        BY <3>1 DEF CreateHost, UpdateHost
      <4>2. UNCHANGED <<rules, groups, settings, job>> /\ requests' \in [n: Nat, overlap: BOOLEAN]
        BY <3>0, <3>1 DEF CreateHost, UpdateHost
      <4> QED
        BY <4>1, <4>2 DEF HostRow, Maybe
    <3>2. ASSUME NEW h \in Hosts, DeleteHost(p, h) PROVE TypeOK'
      BY <3>0, <3>2 DEF DeleteHost, Maybe
    <3>3. ASSUME NEW h \in Hosts, ToggleHost(p, h) PROVE TypeOK'
      <4>1. hosts[h] \in HostRow
        BY <3>3 DEF ToggleHost, Maybe
      <4>2. [hosts[h] EXCEPT !.on = ~@] \in HostRow
        BY <4>1 DEF HostRow
      <4> QED
        BY <3>0, <3>3, <4>2 DEF ToggleHost, Maybe
    <3>4. ASSUME NEW g \in Groups, NEW c \in Contents,
                 CreateGroup(p, g, c) \/ UpdateGroup(p, g, c)
          PROVE  TypeOK'
      <4>1. groups' = [groups EXCEPT ![g] = c] /\ Wrote(p)
        BY <3>4 DEF CreateGroup, UpdateGroup
      <4>2. UNCHANGED <<hosts, rules, settings, job>> /\ requests' \in [n: Nat, overlap: BOOLEAN]
        BY <3>0, <3>4 DEF CreateGroup, UpdateGroup
      <4> QED
        BY <4>1, <4>2 DEF Maybe
    <3>5. ASSUME NEW g \in Groups, DeleteGroup(p, g) PROVE TypeOK'
      BY <3>0, <3>5 DEF DeleteGroup, Maybe
    <3>6. ASSUME NEW h \in Hosts, NEW g \in Groups, ValidateRule(p, h, g) PROVE TypeOK'
      BY <3>0, <3>6 DEF ValidateRule, RuleJob
    <3>7. ASSUME NEW h \in Hosts, DeleteRule(p, h) PROVE TypeOK'
      BY <3>0, <3>7 DEF DeleteRule, Maybe
    <3>8. ASSUME NEW h \in Hosts, ToggleRule(p, h) PROVE TypeOK'
      <4>1. rules[h] \in HostRow
        BY <3>8 DEF ToggleRule, Maybe
      <4>2. [rules[h] EXCEPT !.on = ~@] \in HostRow
        BY <4>1 DEF HostRow
      <4> QED
        BY <3>0, <3>8, <4>2 DEF ToggleRule, Maybe
    <3>9. ASSUME NEW m \in Modes, ReadPrevMode(p, m) PROVE TypeOK'
      BY <3>0, <3>9 DEF ReadPrevMode, ModeJob
    <3> QED
      BY <2>2, <3>1, <3>2, <3>3, <3>4, <3>5, <3>6, <3>7, <3>8, <3>9 DEF Mutate
  <2>3. ASSUME NEW p \in Procs, Proceed(p) PROVE TypeOK'
    <3> USE DEF Procs
    <3>1. CASE PutRule(p)
      BY <3>1 DEF PutRule, Wrote, RuleJob, HostRow, Maybe, Idle, Plain
    <3>2. CASE PutRuleFails(p)
      BY <3>2 DEF PutRuleFails, Idle, Plain
    <3>3. CASE UpsertMode(p)
      BY <3>3 DEF UpsertMode, Wrote, ModeJob
    <3>4. CASE ListEnabledHosts(p)
      <4> DEFINE H == [h \in Hosts |-> Enabled(hosts[h])]
      <4>1. H \in [Hosts -> Maybe(Groups)]
        BY EnabledType
      <4>2. [EmptySnap EXCEPT !.hosts = H, !.todo = {h \in Hosts : H[h] # None},
                              !.need = {H[h] : h \in Hosts} \ {None}] \in Snapshot
        <5>1. {H[h] : h \in Hosts} \ {None} \in SUBSET Groups
          BY <4>1 DEF Maybe
        <5>2. EmptySnap \in Snapshot
          BY DEF EmptySnap, Snapshot, NoRows, Maybe
        <5> HIDE DEF H
        <5> QED
          BY <4>1, <5>1, <5>2 DEF Snapshot
      <4> QED
        BY <3>4, <4>2 DEF ListEnabledHosts, Reading
    <3>5. ASSUME NEW h \in Hosts, ListEnabledRulesByHost(p, h) PROVE TypeOK'
      <4>1. Enabled(rules[h]) \in Maybe(Groups)
        BY EnabledType
      <4>2. snap' \in [Procs -> Snapshot]
        BY <3>5, <4>1, RulesReadType DEF ListEnabledRulesByHost
      <4> QED
        BY <3>5, <4>2 DEF ListEnabledRulesByHost, Reading
    <3>6. ASSUME NEW g \in Groups, GetTargetGroup(p, g) PROVE TypeOK'
      <4>1. snap' \in [Procs -> Snapshot]
        BY <3>6, GroupReadType DEF GetTargetGroup
      <4> QED
        BY <3>6, <4>1 DEF GetTargetGroup, Reading
    <3>7. CASE BuildConfig(p)
      <4>1. Build(snap[p].hosts, snap[p].rules, snap[p].groups, settings) \in Config
        BY BuildType DEF Snapshot
      <4> QED
        BY <3>7, <4>1 DEF BuildConfig, Reading
    <3>8. CASE CaddyLoads(p)
      BY <3>8 DEF CaddyLoads
    <3>9. CASE LoadOK(p)
      BY <3>9 DEF LoadOK, Succeed, Idle, Plain
    <3>10. ASSUME Fail(p), UNCHANGED <<edgeVars, faults>> PROVE TypeOK'
      BY <3>10 DEF Fail, AfterFailure, Plain, RuleJob, ModeJob
    <3>11. CASE Rollback(p)
      BY <3>11 DEF Rollback, ModeJob, Idle, Plain
    <3> QED
      BY <2>3, <3>1, <3>2, <3>3, <3>4, <3>5, <3>6, <3>7, <3>8, <3>9, <3>10, <3>11
         DEF Proceed, HydrateFails, LoadUnreachable
  <2>4. ASSUME NEW p \in Procs, Misfortune(p) PROVE TypeOK'
    <3> USE DEF Procs
    <3>0. \A kind : Fault(kind) => faults' \in [n: Nat, harm: BOOLEAN]
      BY CountType DEF TypeOK
    <3>1. CASE AnswerLost(p) \/ LoadRefused(p)
      BY <3>0, <3>1 DEF AnswerLost, LoadRefused, Fail, AfterFailure, Plain, RuleJob, ModeJob
    <3>2. CASE LoadTimesOut(p)
      BY <3>0, <3>2 DEF LoadTimesOut, Fail, AfterFailure, Plain, RuleJob, ModeJob
    <3>3. CASE Cancelled(p)
      BY <3>0, <3>3 DEF Cancelled, Posting, Idle, Plain
    <3> QED
      BY <2>4, <3>1, <3>2, <3>3 DEF Misfortune
  <2>5. CASE MainStep
    <3> USE DEF Procs
    <3>1. CASE BootRetry
      BY <3>1 DEF BootRetry
    <3>2. CASE BootGivesUp
      BY <3>2 DEF BootGivesUp
    <3>3. CASE WireCrowdSec
      BY <3>3 DEF WireCrowdSec
    <3> QED
      BY <2>5, <3>1, <3>2, <3>3 DEF MainStep
  <2>6. CASE Environment
    <3>1. CASE PanelCrash
      <4>1. late' \in SUBSET Config
        BY <3>1 DEF PanelCrash
      <4>2. job' \in [Procs -> Plain \cup RuleJob \cup ModeJob]
        BY <3>1 DEF PanelCrash, Idle, Plain
      <4>3. /\ pc' \in [Procs -> {"idle", "apply"}]
            /\ fresh' \in [Procs -> BOOLEAN]
        BY <3>1 DEF PanelCrash
      <4> QED
        BY <3>1, <4>1, <4>2, <4>3, CountType DEF PanelCrash
    <3>2. CASE CaddyStops
      <4>1. /\ late' \in SUBSET Config /\ up' \in BOOLEAN
        BY <3>2 DEF CaddyStops
      <4>3. faults' \in [n: Nat, harm: BOOLEAN]
        BY <3>2, CountType DEF CaddyStops
      <4>2. UNCHANGED <<dbVars, procVars, caddy, mainVars, requests>>
        BY <3>2 DEF CaddyStops
      <4> QED
        BY <4>1, <4>2, <4>3
    <3>4. CASE CaddyStarts
      <4>1. Bare \in Config
        BY DEF Bare, Config, Maybe
      <4> QED
        BY <3>4, <4>1 DEF CaddyStarts
    <3>3. CASE \E c \in late : LateLoad(c) \/ LateDrop(c)
      BY <3>3 DEF LateLoad, LateDrop
    <3> QED
      BY <2>6, <3>1, <3>2, <3>3, <3>4 DEF Environment
  <2> QED
    BY <2>1, <2>2, <2>3, <2>4, <2>5, <2>6 DEF Next
<1> QED
  BY <1>1, <1>2, PTL DEF Spec

\* Steps that leave the tables and q's reconcile alone keep what it knows.
LEMMA AgreesFrame ==
    ASSUME NEW q \in Procs, Agrees(q), UNCHANGED dbVars,
           snap'[q] = snap[q], cfg'[q] = cfg[q],
           pc'[q] = pc[q] \/ pc'[q] \notin {"read", "post"}
    PROVE  Agrees(q)'
  <1>1. Rendered' = Rendered
    BY DEF Rendered, Build, Enabled, dbVars
  <1> QED
    BY <1>1 DEF Agrees, Enabled, dbVars

\* Reading each table once, in the order of ApplyFromDB, keeps the rows read so
\* far equal to the tables as long as nobody writes.
LEMMA FreshStep == TypeOK /\ FreshInv /\ [Next]_vars => FreshInv'
<1> SUFFICES ASSUME TypeOK, FreshInv, [Next]_vars PROVE FreshInv'
  OBVIOUS
<1> SUFFICES ASSUME NEW q \in Procs, fresh'[q] PROVE Agrees(q)'
  BY DEF FreshInv
<1> USE ConstantsAssumption
<1>1. ASSUME NEW p \in Procs, ListEnabledHosts(p) PROVE Agrees(q)'
  <2>1. CASE p = q
    <3> DEFINE H == [h \in Hosts |-> Enabled(hosts[h])]
    <3>1. /\ pc'[q] = "read" /\ UNCHANGED dbVars
          /\ snap'[q] = [EmptySnap EXCEPT !.hosts = H,
                            !.todo = {h \in Hosts : H[h] # None},
                            !.need = {H[h] : h \in Hosts} \ {None}]
      BY <1>1, <2>1 DEF ListEnabledHosts, Reading, TypeOK
    <3>2. /\ snap'[q].hosts = H
          /\ snap'[q].todo = {h \in Hosts : H[h] # None}
          /\ snap'[q].need = {H[h] : h \in Hosts} \ {None}
      BY <3>1 DEF EmptySnap
    <3>3. H = [h \in Hosts |-> Enabled(hosts'[h])]
      BY <3>1 DEF dbVars
    <3> QED
      BY <3>1, <3>2, <3>3 DEF Agrees, Enabled
  <2>2. CASE p # q
    BY <1>1, <2>2, AgreesFrame DEF ListEnabledHosts, Reading, TypeOK, FreshInv
  <2> QED
    BY <2>1, <2>2
<1>2. ASSUME NEW p \in Procs, NEW h \in Hosts, ListEnabledRulesByHost(p, h) PROVE Agrees(q)'
  <2>1. CASE p = q
    <3> DEFINE r == Enabled(rules[h])
    <3>1. /\ pc[q] = "read" /\ pc'[q] = "read" /\ UNCHANGED dbVars /\ fresh[q]
          /\ h \in snap[q].todo
      BY <1>2, <2>1 DEF ListEnabledRulesByHost, Reading, TypeOK
    <3>2. /\ snap'[q].hosts = snap[q].hosts /\ snap'[q].groups = snap[q].groups
          /\ snap'[q].rules = [snap[q].rules EXCEPT ![h] = r]
          /\ snap'[q].todo = snap[q].todo \ {h}
          /\ snap'[q].need = snap[q].need \cup ({r} \ {None})
      BY <1>2, <2>1 DEF ListEnabledRulesByHost, TypeOK, Snapshot
    <3>3. snap[q].rules \in [Hosts -> Maybe(Groups)]
      BY DEF TypeOK, Snapshot
    <3>4. Agrees(q)
      BY <3>1 DEF FreshInv
    <3> HIDE DEF r
    <3>5. r = Enabled(rules[h]) /\ Enabled(rules[h])' = Enabled(rules[h])
      BY <3>1 DEF r, Enabled, dbVars
    <3>6. /\ rules' = rules /\ hosts' = hosts /\ groups' = groups
      BY <3>1 DEF dbVars
    <3> QED
      BY <3>1, <3>2, <3>3, <3>4, <3>5, <3>6 DEF Agrees, Enabled
  <2>2. CASE p # q
    BY <1>2, <2>2, AgreesFrame DEF ListEnabledRulesByHost, Reading, TypeOK, FreshInv
  <2> QED
    BY <2>1, <2>2
<1>3. ASSUME NEW p \in Procs, NEW g \in Groups, GetTargetGroup(p, g) PROVE Agrees(q)'
  <2>1. CASE p = q
    <3>1. /\ pc[q] = "read" /\ pc'[q] = "read" /\ fresh[q]
          /\ rules' = rules /\ hosts' = hosts /\ groups' = groups
      BY <1>3, <2>1 DEF GetTargetGroup, Reading, TypeOK, dbVars
    <3>2. /\ snap'[q].hosts = snap[q].hosts /\ snap'[q].rules = snap[q].rules
          /\ snap'[q].groups = [snap[q].groups EXCEPT ![g] = groups[g]]
          /\ snap'[q].todo = snap[q].todo
          /\ snap'[q].need = snap[q].need \ {g}
      BY <1>3, <2>1 DEF GetTargetGroup, TypeOK, Snapshot
    <3>3. snap[q].groups \in [Groups -> Maybe(Contents)]
      BY DEF TypeOK, Snapshot
    <3>4. Agrees(q)
      BY <3>1 DEF FreshInv
    <3> QED
      BY <3>1, <3>2, <3>3, <3>4 DEF Agrees, Enabled
  <2>2. CASE p # q
    BY <1>3, <2>2, AgreesFrame DEF GetTargetGroup, Reading, TypeOK, FreshInv
  <2> QED
    BY <2>1, <2>2
<1>4. ASSUME NEW p \in Procs, BuildConfig(p) PROVE Agrees(q)'
  <2>1. CASE p = q
    <3>1. /\ pc[q] = "read" /\ pc'[q] = "post" /\ fresh[q]
          /\ snap[q].todo = {} /\ snap[q].need = {} /\ UNCHANGED dbVars
          /\ cfg'[q] = Build(snap[q].hosts, snap[q].rules, snap[q].groups, settings)
      BY <1>4, <2>1 DEF BuildConfig, Reading, TypeOK
    <3>2. Agrees(q)
      BY <3>1 DEF FreshInv
    <3>3. snap[q].hosts = [h \in Hosts |-> Enabled(hosts[h])]
      BY <3>1, <3>2 DEF Agrees
    <3>4. ASSUME NEW h \in Hosts, Enabled(hosts[h]) # None
          PROVE  /\ snap[q].rules[h] = Enabled(rules[h])
                 /\ snap[q].groups[Enabled(hosts[h])] = groups[Enabled(hosts[h])]
                 /\ Enabled(rules[h]) # None =>
                      snap[q].groups[Enabled(rules[h])] = groups[Enabled(rules[h])]
      BY <3>1, <3>2, <3>3, <3>4 DEF Agrees
    <3>5. Build(snap[q].hosts, snap[q].rules, snap[q].groups, settings) = Rendered
      BY <3>3, <3>4 DEF Build, Rendered
    <3>6. Rendered' = Rendered
      BY <3>1 DEF Rendered, Build, Enabled, dbVars
    <3> QED
      BY <3>1, <3>5, <3>6 DEF Agrees
  <2>2. CASE p # q
    BY <1>4, <2>2, AgreesFrame DEF BuildConfig, Reading, TypeOK, FreshInv
  <2> QED
    BY <2>1, <2>2
<1>5. ASSUME NEW p \in Procs, Fail(p) PROVE Agrees(q)'
  BY <1>5, AgreesFrame DEF Fail, AfterFailure, TypeOK, FreshInv, dbVars
<1>6. ASSUME NEW p \in Procs,
             \/ Succeed(p) \/ CaddyLoads(p) \/ Cancelled(p) \/ PutRuleFails(p)
      PROVE  Agrees(q)'
  BY <1>6, AgreesFrame
     DEF Succeed, CaddyLoads, Cancelled, PutRuleFails, TypeOK, FreshInv, dbVars
<1>7. ASSUME NEW p \in Procs, Wrote(p) \/ Rollback(p) PROVE FALSE
  BY <1>7 DEF Wrote, Rollback
<1>8. ASSUME NEW p \in Procs,
             \/ \E h \in Hosts, g \in Groups : ValidateRule(p, h, g)
             \/ \E m \in Modes : ReadPrevMode(p, m)
      PROVE  Agrees(q)'
  BY <1>8, AgreesFrame DEF ValidateRule, ReadPrevMode, TypeOK, FreshInv, dbVars
<1>9. CASE MainStep
  BY <1>9, AgreesFrame
     DEF MainStep, BootRetry, BootGivesUp, WireCrowdSec, TypeOK, FreshInv, dbVars
<1>10. CASE Environment
  BY <1>10, AgreesFrame
     DEF Environment, PanelCrash, CaddyStops, CaddyStarts, LateLoad, LateDrop,
         FreshInv, dbVars, procVars
<1>11. CASE UNCHANGED vars
  BY <1>11, AgreesFrame DEF vars, FreshInv, dbVars, procVars
<1>12. ASSUME NEW p \in Procs, Mutate(p) PROVE Agrees(q)'
  BY <1>12, <1>7, <1>8
     DEF Mutate, CreateHost, UpdateHost, DeleteHost, ToggleHost, CreateGroup, UpdateGroup,
         DeleteGroup, DeleteRule, ToggleRule
<1>13. ASSUME NEW p \in Procs, Proceed(p) PROVE Agrees(q)'
  BY <1>13, <1>1, <1>2, <1>3, <1>4, <1>5, <1>6, <1>7
     DEF Proceed, PutRule, UpsertMode, HydrateFails, LoadOK, LoadUnreachable
<1>14. ASSUME NEW p \in Procs, Misfortune(p) PROVE Agrees(q)'
  BY <1>14, <1>5, <1>6 DEF Misfortune, AnswerLost, LoadRefused, LoadTimesOut
<1> QED
  BY <1>9, <1>10, <1>11, <1>12, <1>13, <1>14 DEF Next

\* A reconcile that no write overtook POSTs exactly what the tables say, however
\* many handlers, hosts and groups there are and whatever fails.
THEOREM FreshPushHolds == Spec => []FreshPush
<1>1. Init => FreshInv
  BY DEF Init, FreshInv
<1>2. FreshInv => FreshPush
  BY DEF FreshInv, FreshPush, Agrees
<1> QED
  BY <1>1, <1>2, FreshStep, TypeCorrect, PTL DEF Spec

\* Every step keeps a reconcile's snapshot and configuration as they are, or gives
\* both in a way that keeps each listed host servable.
LEMMA HydratedStep == TypeOK /\ HydratedInv /\ [Next]_vars => HydratedInv'
<1> SUFFICES ASSUME TypeOK, HydratedInv, [Next]_vars PROVE HydratedInv'
  OBVIOUS
<1> USE ConstantsAssumption
<1> DEFINE Read(p) == pc[p] = "read" => \A h \in Hosts : snap[p].hosts[h] # None =>
          /\ Hydrated(snap[p], snap[p].hosts[h])
          /\ snap[p].rules[h] # None => Hydrated(snap[p], snap[p].rules[h])
           Built(p) == pc[p] \in {"post", "answer"} => Serves(cfg[p], snap[p])
<1>1. ASSUME \A q \in Procs :
                \/ pc'[q] \notin {"read", "post", "answer"}
                \/ snap'[q] = snap[q] /\ cfg'[q] = cfg[q]
                     /\ (pc'[q] = pc[q] \/ {pc[q], pc'[q]} \subseteq {"post", "answer"})
                \/ pc'[q] = "read" /\ Read(q)'
                \/ pc'[q] \in {"post", "answer"} /\ Built(q)'
      PROVE  HydratedInv'
  <2>1. ASSUME NEW q \in Procs PROVE Read(q)' /\ Built(q)'
    <3>1. Read(q) /\ Built(q)
      BY DEF HydratedInv, NoHostVanishes
    <3> QED
      BY <1>1, <3>1 DEF Hydrated, Serves
  <2> QED
    BY <2>1 DEF HydratedInv, NoHostVanishes
<1> HIDE DEF Read, Built
<1> USE DEF dbVars, procVars, edgeVars, mainVars, TypeOK
<1>2. ASSUME NEW p \in Procs, Mutate(p) PROVE HydratedInv'
  BY <1>1, <1>2
     DEF Mutate, CreateHost, UpdateHost, DeleteHost, ToggleHost, CreateGroup, UpdateGroup,
         DeleteGroup, ValidateRule,
         DeleteRule, ToggleRule, ReadPrevMode, Wrote
<1>3. ASSUME NEW p \in Procs, ListEnabledHosts(p) PROVE HydratedInv'
  <2> DEFINE H == [h \in Hosts |-> Enabled(hosts[h])]
  <2>1. /\ snap'[p].hosts = H
        /\ snap'[p].need = {H[h] : h \in Hosts} \ {None}
        /\ snap'[p].rules = NoRows
    BY <1>3 DEF ListEnabledHosts, EmptySnap
  <2>2. Read(p)'
    BY <2>1 DEF Read, Hydrated, NoRows
  <2>3. /\ pc'[p] = "read"
        /\ \A q \in Procs : q # p => pc'[q] = pc[q] /\ snap'[q] = snap[q] /\ cfg'[q] = cfg[q]
    BY <1>3 DEF ListEnabledHosts, Reading
  <2> QED
    BY <1>1, <2>2, <2>3
<1>4. ASSUME NEW p \in Procs, NEW h \in Hosts, ListEnabledRulesByHost(p, h)
      PROVE  HydratedInv'
  <2> DEFINE r == Enabled(rules[h])
  <2>1. /\ snap'[p].hosts = snap[p].hosts /\ snap'[p].groups = snap[p].groups
        /\ snap'[p].need = snap[p].need \cup ({r} \ {None})
        /\ snap'[p].rules = [snap[p].rules EXCEPT ![h] = r]
        /\ snap[p].rules \in [Hosts -> Maybe(Groups)]
        /\ pc[p] = "read" /\ pc'[p] = "read"
    BY <1>4 DEF ListEnabledRulesByHost, Snapshot
  <2>2. Read(p)'
    <3>1. Read(p)
      BY DEF Read, HydratedInv
    <3>2. \A g : Hydrated(snap[p], g) => Hydrated(snap'[p], g)
      BY <2>1 DEF Hydrated
    <3>3. r # None => Hydrated(snap'[p], r)
      BY <2>1 DEF Hydrated
    <3> HIDE DEF r
    <3>4. \A x \in Hosts : snap'[p].rules[x] = IF x = h THEN r ELSE snap[p].rules[x]
      BY <2>1
    <3>5. ASSUME NEW x \in Hosts, snap[p].hosts[x] # None
          PROVE  /\ Hydrated(snap'[p], snap[p].hosts[x])
                 /\ snap'[p].rules[x] # None => Hydrated(snap'[p], snap'[p].rules[x])
      BY <3>1, <3>2, <3>3, <3>4, <3>5, <2>1 DEF Read
    <3> QED
      BY <3>5, <2>1 DEF Read, Hydrated
  <2> QED
    BY <1>1, <1>4, <2>1, <2>2 DEF ListEnabledRulesByHost, Reading
<1>5. ASSUME NEW p \in Procs, NEW g \in Groups, GetTargetGroup(p, g) PROVE HydratedInv'
  <2>1. /\ snap'[p].hosts = snap[p].hosts /\ snap'[p].rules = snap[p].rules
        /\ snap'[p].groups = [snap[p].groups EXCEPT ![g] = groups[g]]
        /\ snap'[p].need = snap[p].need \ {g}
        /\ snap[p].groups \in [Groups -> Maybe(Contents)]
        /\ groups[g] # None /\ pc[p] = "read" /\ pc'[p] = "read"
    BY <1>5 DEF GetTargetGroup, Snapshot
  <2>2. \A x \in Maybe(Groups) : x # None /\ Hydrated(snap[p], x) => Hydrated(snap'[p], x)
    BY <2>1 DEF Hydrated, Maybe
  <2>3. \A h \in Hosts : snap[p].hosts[h] \in Maybe(Groups) /\ snap[p].rules[h] \in Maybe(Groups)
    BY DEF Snapshot
  <2>4. Read(p)'
    <3>1. Read(p)
      BY DEF Read, HydratedInv
    <3>2. ASSUME NEW x \in Hosts, snap[p].hosts[x] # None
          PROVE  /\ Hydrated(snap'[p], snap[p].hosts[x])
                 /\ snap[p].rules[x] # None => Hydrated(snap'[p], snap[p].rules[x])
      BY <3>1, <3>2, <2>1, <2>2, <2>3 DEF Read
    <3> QED
      BY <3>2, <2>1 DEF Read, Hydrated
  <2> QED
    BY <1>1, <1>5, <2>1, <2>4 DEF GetTargetGroup, Reading
<1>6. ASSUME NEW p \in Procs, BuildConfig(p) PROVE HydratedInv'
  <2> DEFINE s == snap[p]
             c == Build(s.hosts, s.rules, s.groups, settings)
  <2>1. \A h \in Hosts : s.hosts[h] # None =>
           s.groups[s.hosts[h]] # None /\ (s.rules[h] # None => s.groups[s.rules[h]] # None)
    BY <1>6 DEF BuildConfig, HydratedInv, Hydrated
  <2>2. s \in Snapshot
    OBVIOUS
  <2>3. c \in Config
    BY <2>2, BuildType DEF Snapshot
  <2>4. Serves(c, s)
    <3>1. SUFFICES ASSUME NEW h \in Hosts, s.hosts[h] # None
                   PROVE  c.route[h] # None /\ (s.rules[h] # None => c.route[h].forward # None)
      BY DEF Serves
    <3>2. c.route[h] = [default |-> s.groups[s.hosts[h]],
                        forward |-> IF s.rules[h] = None THEN None ELSE s.groups[s.rules[h]]]
      BY <2>1, <3>1 DEF Build
    <3>3. /\ s.groups[s.hosts[h]] \in Contents
          /\ s.rules[h] # None => s.groups[s.rules[h]] \in Contents
      BY <2>1, <2>2, <3>1 DEF Snapshot, Maybe
    <3>4. c.route[h] \in Route
      BY <3>2, <3>3 DEF Route, Maybe
    <3> QED
      BY <2>1, <3>1, <3>2, <3>4, RouteAssumption
  <2>5. pc'[p] = "post" /\ cfg'[p] = c /\ snap'[p] = s
    BY <1>6 DEF BuildConfig, Reading
  <2> HIDE DEF c, s
  <2>6. Built(p)'
    BY <2>4, <2>5 DEF Built
  <2> QED
    BY <1>1, <1>6, <2>5, <2>6 DEF BuildConfig, Reading
<1>7. ASSUME NEW p \in Procs, CaddyLoads(p) PROVE HydratedInv'
  BY <1>1, <1>7 DEF CaddyLoads
<1>8. ASSUME NEW p \in Procs, Fail(p) PROVE HydratedInv'
  BY <1>1, <1>8 DEF Fail, AfterFailure
<1>8a. ASSUME NEW p \in Procs, Cancelled(p) PROVE HydratedInv'
  BY <1>1, <1>8a DEF Cancelled
<1>9. ASSUME NEW p \in Procs,
             \/ LoadOK(p) \/ Rollback(p)
             \/ PutRule(p) \/ PutRuleFails(p) \/ UpsertMode(p)
      PROVE  HydratedInv'
  BY <1>1, <1>9
     DEF LoadOK, Succeed, Rollback, PutRule, PutRuleFails, UpsertMode, Wrote
<1>10. ASSUME NEW p \in Procs, Proceed(p) PROVE HydratedInv'
  BY <1>10, <1>3, <1>4, <1>5, <1>6, <1>7, <1>8, <1>9
     DEF Proceed, HydrateFails, LoadUnreachable
<1>11. ASSUME NEW p \in Procs, Misfortune(p) PROVE HydratedInv'
  BY <1>11, <1>8, <1>9, <1>8a DEF Misfortune, AnswerLost, LoadRefused, LoadTimesOut
<1>12. CASE MainStep
  BY <1>1, <1>12 DEF MainStep, BootRetry, BootGivesUp, WireCrowdSec
<1>13. CASE Environment
  <2>2. CASE PanelCrash
    BY <1>1, <2>2 DEF PanelCrash
  <2>3. CASE CaddyStops \/ CaddyStarts
    BY <1>1, <2>3 DEF CaddyStops, CaddyStarts
  <2>4. CASE \E c \in late : LateLoad(c) \/ LateDrop(c)
    BY <1>1, <2>4 DEF LateLoad, LateDrop
  <2> QED
    BY <1>13, <2>2, <2>3, <2>4 DEF Environment
<1>14. CASE UNCHANGED vars
  BY <1>1, <1>14 DEF vars
<1> QED
  BY <1>2, <1>10, <1>11, <1>12, <1>13, <1>14 DEF Next

\* No interleaving of deletions with a reconcile drops an enabled host that the
\* reconcile has listed out of what it loads: hydration fails instead.
THEOREM NoHostVanishesHolds == Spec => []NoHostVanishes
<1>1. Init => HydratedInv
  BY DEF Init, HydratedInv, NoHostVanishes
<1>2. HydratedInv => NoHostVanishes
  BY DEF HydratedInv
<1> QED
  BY <1>1, <1>2, HydratedStep, TypeCorrect, PTL DEF Spec
----------------------------------------------------------------------------
\* Rows refer to groups that are there: the foreign key, and DeleteTargetGroup's
\* look at the hosts.
Referenced == \A h \in Hosts : hosts[h] # None => groups[hosts[h].tg] # None

\* A group that a reconcile nobody overtook still wants is wanted by an enabled row.
Needed(p) ==
    pc[p] = "read" =>
        /\ \A h \in snap[p].todo : Enabled(hosts[h]) # None
        /\ \A g \in snap[p].need : \E h \in Hosts :
              Enabled(hosts[h]) # None /\ g \in {Enabled(hosts[h]), Enabled(rules[h])}
NeedInv == \A p \in Procs : fresh[p] => Needed(p)

\* Every write leaves the rows referring to groups that are there.
LEMMA ReferencedStep == TypeOK /\ Referenced /\ [Next]_vars => Referenced'
<1> SUFFICES ASSUME TypeOK, Referenced, [Next]_vars PROVE Referenced'
  OBVIOUS
<1> USE ConstantsAssumption
<1>1. CASE hosts' = hosts /\ groups' = groups
  BY <1>1 DEF Referenced
<1>2. ASSUME NEW p \in Procs, NEW h \in Hosts, NEW g \in Groups, NEW on \in BOOLEAN,
             CreateHost(p, h, g, on) \/ UpdateHost(p, h, g, on)
      PROVE  Referenced'
  <2>1. groups[g] # None /\ groups' = groups /\ hosts' = [hosts EXCEPT ![h] = [tg |-> g, on |-> on]]
    BY <1>2 DEF CreateHost, UpdateHost
  <2> QED
    BY <2>1 DEF Referenced, TypeOK
<1>3. ASSUME NEW p \in Procs, NEW h \in Hosts, DeleteHost(p, h) PROVE Referenced'
  BY <1>3 DEF DeleteHost, Referenced, TypeOK
<1>4. ASSUME NEW p \in Procs, NEW h \in Hosts, ToggleHost(p, h) PROVE Referenced'
  <2>1. hosts[h] \in HostRow
    BY <1>4 DEF ToggleHost, TypeOK, Maybe
  <2>2. \A k \in Hosts : hosts'[k] # None => hosts[k] # None /\ hosts'[k].tg = hosts[k].tg
    <3> DEFINE off == ~hosts[h].on
    <3>1. hosts[h] # None /\ hosts' = [hosts EXCEPT ![h] = [hosts[h] EXCEPT !.on = off]]
      BY <1>4 DEF ToggleHost
    <3> HIDE DEF off
    <3>2. [hosts[h] EXCEPT !.on = off].tg = hosts[h].tg
      BY <2>1 DEF HostRow
    <3> QED
      BY <3>1, <3>2 DEF TypeOK
  <2>3. groups' = groups
    BY <1>4 DEF ToggleHost
  <2> QED
    BY <2>2, <2>3 DEF Referenced
<1>5. ASSUME NEW p \in Procs, NEW g \in Groups, NEW c \in Contents,
             CreateGroup(p, g, c) \/ UpdateGroup(p, g, c)
      PROVE  Referenced'
  <2>1. hosts' = hosts /\ groups' = [groups EXCEPT ![g] = c] /\ c # None
    BY <1>5 DEF CreateGroup, UpdateGroup
  <2> QED
    BY <2>1 DEF Referenced, TypeOK
<1>6. ASSUME NEW p \in Procs, NEW g \in Groups, DeleteGroup(p, g) PROVE Referenced'
  BY <1>6 DEF DeleteGroup, HostsUsing, Referenced, TypeOK
<1>7. ASSUME NEW p \in Procs, Mutate(p) PROVE Referenced'
  BY <1>1, <1>2, <1>3, <1>4, <1>5, <1>6, <1>7
     DEF Mutate, ValidateRule, DeleteRule, ToggleRule, ReadPrevMode, dbVars
<1>8. ASSUME NEW p \in Procs, Proceed(p) \/ Misfortune(p) PROVE hosts' = hosts /\ groups' = groups
  BY <1>8 DEF Proceed, PutRule, PutRuleFails, UpsertMode, ListEnabledHosts, ListEnabledRulesByHost,
     GetTargetGroup, HydrateFails, BuildConfig, CaddyLoads, LoadOK, Succeed, LoadUnreachable, Rollback,
     Misfortune, AnswerLost, LoadRefused, LoadTimesOut, Cancelled, Fail, Reading, dbVars
<1>9. MainStep \/ Environment \/ UNCHANGED vars => hosts' = hosts /\ groups' = groups
  BY DEF MainStep, BootRetry, BootGivesUp, WireCrowdSec, Environment, PanelCrash, CaddyStops,
     CaddyStarts, LateLoad, LateDrop, dbVars, vars
<1> QED
  BY <1>1, <1>7, <1>8, <1>9 DEF Next

\* Steps that leave the rows and q's reconcile alone keep what it needs.
LEMMA NeededFrame ==
    ASSUME NEW q \in Procs, Needed(q), UNCHANGED <<hosts, rules>>,
           snap'[q] = snap[q], pc'[q] = pc[q] \/ pc'[q] # "read"
    PROVE  Needed(q)'
  BY DEF Needed, Enabled

\* The queries of ApplyFromDB look for the groups of enabled rows only.
LEMMA NeedStep == TypeOK /\ NeedInv /\ [Next]_vars => NeedInv'
<1> SUFFICES ASSUME TypeOK, NeedInv, [Next]_vars, NEW q \in Procs, fresh'[q] PROVE Needed(q)'
  BY DEF NeedInv
<1> USE ConstantsAssumption
<1>1. ASSUME fresh[q], UNCHANGED <<hosts, rules>>, snap'[q] = snap[q], pc'[q] = pc[q] \/ pc'[q] # "read"
      PROVE  Needed(q)'
  BY <1>1, NeededFrame DEF NeedInv
<1>2. ASSUME NEW p \in Procs, ListEnabledHosts(p) PROVE Needed(q)'
  <2>1. CASE p = q
    <3> DEFINE H == [h \in Hosts |-> Enabled(hosts[h])]
    <3>1. /\ hosts' = hosts
          /\ snap'[q] = [EmptySnap EXCEPT !.hosts = H, !.todo = {h \in Hosts : H[h] # None},
                                          !.need = {H[h] : h \in Hosts} \ {None}]
      BY <1>2, <2>1 DEF ListEnabledHosts, Reading, TypeOK, dbVars
    <3>2. snap'[q].todo = {h \in Hosts : H[h] # None} /\ snap'[q].need = {H[h] : h \in Hosts} \ {None}
      BY <3>1 DEF EmptySnap
    <3>3. \A h \in Hosts : Enabled(hosts[h])' = H[h]
      BY <3>1 DEF Enabled
    <3> HIDE DEF H
    <3> QED
      BY <3>2, <3>3 DEF Needed
  <2>2. CASE p # q
    BY <1>1, <1>2, <2>2 DEF ListEnabledHosts, Reading, TypeOK, dbVars
  <2> QED
    BY <2>1, <2>2
<1>3. ASSUME NEW p \in Procs, NEW h \in Hosts, ListEnabledRulesByHost(p, h) PROVE Needed(q)'
  <2>1. CASE p = q
    <3> DEFINE r == Enabled(rules[h])
    <3>1. /\ UNCHANGED <<hosts, rules>> /\ fresh[q] /\ h \in snap[q].todo /\ pc[q] = "read"
          /\ snap'[q].todo = snap[q].todo \ {h}
          /\ snap'[q].need = snap[q].need \cup ({r} \ {None})
      BY <1>3, <2>1 DEF ListEnabledRulesByHost, Reading, TypeOK, Snapshot, dbVars
    <3>2. Needed(q)
      BY <3>1 DEF NeedInv
    <3>3. \A k \in Hosts : Enabled(hosts[k])' = Enabled(hosts[k]) /\ Enabled(rules[k])' = Enabled(rules[k])
      BY <3>1 DEF Enabled
    <3>4. snap[q].todo \subseteq Hosts
      BY DEF TypeOK, Snapshot
    <3> QED
      BY <3>1, <3>2, <3>3, <3>4 DEF Needed
  <2>2. CASE p # q
    BY <1>1, <1>3, <2>2 DEF ListEnabledRulesByHost, Reading, TypeOK, dbVars
  <2> QED
    BY <2>1, <2>2
<1>4. ASSUME NEW p \in Procs, NEW g \in Groups, GetTargetGroup(p, g) PROVE Needed(q)'
  <2>1. CASE p = q
    <3>1. /\ UNCHANGED <<hosts, rules>> /\ fresh[q] /\ pc[q] = "read"
          /\ snap'[q].todo = snap[q].todo /\ snap'[q].need = snap[q].need \ {g}
      BY <1>4, <2>1 DEF GetTargetGroup, Reading, TypeOK, Snapshot, dbVars
    <3>2. Needed(q)
      BY <3>1 DEF NeedInv
    <3> QED
      BY <3>1, <3>2 DEF Needed, Enabled
  <2>2. CASE p # q
    BY <1>1, <1>4, <2>2 DEF GetTargetGroup, Reading, TypeOK, dbVars
  <2> QED
    BY <2>1, <2>2
<1>5. ASSUME NEW p \in Procs, Wrote(p) \/ Rollback(p) PROVE FALSE
  BY <1>5 DEF Wrote, Rollback
<1>6. ASSUME NEW p \in Procs,
             \/ Fail(p) \/ Succeed(p) \/ CaddyLoads(p) \/ Cancelled(p) \/ PutRuleFails(p) \/ BuildConfig(p)
             \/ \E h \in Hosts, g \in Groups : ValidateRule(p, h, g)
             \/ \E m \in Modes : ReadPrevMode(p, m)
      PROVE  Needed(q)'
  BY <1>1, <1>6 DEF Fail, AfterFailure, Succeed, CaddyLoads, Cancelled, PutRuleFails, BuildConfig, Reading,
     ValidateRule, ReadPrevMode, TypeOK, dbVars
<1>7. CASE MainStep \/ Environment \/ UNCHANGED vars
  BY <1>1, <1>7 DEF MainStep, BootRetry, BootGivesUp, WireCrowdSec, Environment, PanelCrash, CaddyStops,
     CaddyStarts, LateLoad, LateDrop, TypeOK, dbVars, procVars, vars
<1>8. ASSUME NEW p \in Procs, Mutate(p) PROVE Needed(q)'
  BY <1>5, <1>6, <1>8
     DEF Mutate, CreateHost, UpdateHost, DeleteHost, ToggleHost, CreateGroup, UpdateGroup,
         DeleteGroup, DeleteRule, ToggleRule
<1>9. ASSUME NEW p \in Procs, Proceed(p) PROVE Needed(q)'
  BY <1>9, <1>2, <1>3, <1>4, <1>5, <1>6
     DEF Proceed, PutRule, UpsertMode, HydrateFails, LoadOK, LoadUnreachable
<1>10. ASSUME NEW p \in Procs, Misfortune(p) PROVE Needed(q)'
  BY <1>10, <1>6 DEF Misfortune, AnswerLost, LoadRefused, LoadTimesOut
<1> QED
  BY <1>7, <1>8, <1>9, <1>10 DEF Next
----------------------------------------------------------------------------
\* One request at a time, the boot's reconcile among them; nothing on its way to
\* Caddy but that of a reconcile that nobody overtook, and whoever gave up had to.
OneAtATime == \A p, q \in Procs : pc[p] # "idle" /\ pc[q] # "idle" => p = q
Undisturbed ==
    /\ up /\ late = {} /\ OneAtATime
    /\ job[Boot].kind # "mode" /\ pc[Boot] \notin {"rule", "mode", "rollback"}
    /\ phase = "boot" => pc[Boot] # "idle"
    /\ phase = "wire" => \A p \in Procs : pc[p] = "idle"
    /\ \A p \in Procs :
          /\ pc[p] \in {"read", "post"} => fresh[p]
          /\ pc[p] = "answer" => caddy = Rendered
          /\ pc[p] \in {"retry", "rollback"} => ~Hydratable

\* Nobody has written since the last reconcile: it reached Caddy, unless a group
\* it needs is gone.
Resting == \A p \in Procs : pc[p] \in {"idle", "rule", "mode"}
Settled == settings.bouncer = KeySet /\ (Resting /\ Hydratable => caddy = Rendered)

SerialInv == Serial => Undisturbed
SettledInv == Serial => Settled

\* What the reconciler reads, and whether it can, follow from the tables.
LEMMA TablesDecide ==
    /\ UNCHANGED dbVars => Rendered' = Rendered
    /\ UNCHANGED <<hosts, rules, groups>> => Hydratable' = Hydratable
  BY DEF Rendered, Build, Hydratable, Enabled, dbVars

\* The one request, or one that begins while there is none, moves on and leaves
\* the tables alone.
LEMMA Advance ==
    ASSUME TypeOK, Undisturbed, NEW p \in Procs, NEW to,
           pc' = [pc EXCEPT ![p] = to],
           pc[p] # "idle" \/ (phase = "serving" /\ \A q \in Procs : pc[q] = "idle"),
           UNCHANGED dbVars, UNCHANGED <<late, up>>,
           job'[Boot].kind # "mode", p = Boot => to \notin {"rule", "mode", "rollback"},
           phase' = phase \/ (p = Boot /\ to = "idle" /\ phase' = "wire"),
           p = Boot /\ to = "idle" => phase' = "wire",
           \A q \in Procs : q # p => fresh'[q] = fresh[q],
           to \in {"read", "post"} => fresh'[p],
           to = "answer" => caddy' = Rendered,
           to \in {"retry", "rollback"} => ~Hydratable,
           to \in {"idle", "rule", "mode"} /\ Hydratable => caddy' = Rendered \/ (Resting /\ caddy' = caddy)
    PROVE  Undisturbed' /\ (Settled => Settled')
<1>1. Rendered' = Rendered /\ Hydratable' = Hydratable /\ settings' = settings
  BY TablesDecide DEF dbVars
<1>2. \A q \in Procs : q # p => pc[q] = "idle" /\ pc'[q] = "idle"
  BY DEF Undisturbed, OneAtATime, TypeOK
<1>3. pc'[p] = to /\ Boot \in Procs
  BY DEF TypeOK, Procs
<1>4. p # Boot => pc'[Boot] = "idle" /\ pc[Boot] = "idle" /\ phase # "boot"
  BY <1>2, <1>3 DEF Undisturbed
<1>5. phase = "wire" => FALSE
  BY DEF Undisturbed
<1>6. up' /\ late' = {} /\ OneAtATime'
  BY <1>2 DEF Undisturbed, OneAtATime
<1>7. /\ pc'[Boot] \notin {"rule", "mode", "rollback"}
      /\ phase' = "boot" => pc'[Boot] # "idle"
      /\ phase' = "wire" => \A q \in Procs : pc'[q] = "idle"
  BY <1>2, <1>3, <1>4, <1>5
<1>8. \A q \in Procs : /\ pc'[q] \in {"read", "post"} => fresh'[q]
                       /\ pc'[q] = "answer" => caddy' = Rendered
                       /\ pc'[q] \in {"retry", "rollback"} => ~Hydratable
  BY <1>2, <1>3
<1>9. Undisturbed'
  BY <1>1, <1>6, <1>7, <1>8 DEF Undisturbed
<1>10. ASSUME Settled PROVE Settled'
  <2>1. Resting' => to \in {"idle", "rule", "mode"}
    BY <1>3 DEF Resting
  <2> QED
    BY <1>1, <1>10, <2>1 DEF Settled
<1> QED
  BY <1>9, <1>10

\* A request that has written will reconcile.
LEMMA WriteSettles ==
    ASSUME TypeOK, Undisturbed, NEW p \in Handlers, Wrote(p), settings'.bouncer = settings.bouncer,
           job'[Boot] = job[Boot],
           pc[p] # "idle" \/ (phase = "serving" /\ \A q \in Procs : pc[q] = "idle")
    PROVE  Undisturbed' /\ (Settled => Settled')
<1>1. p \in Procs /\ Boot \in Procs /\ p # Boot
  BY ConstantsAssumption DEF Procs
<1>2. \A q \in Procs : q # p => pc[q] = "idle" /\ pc'[q] = "idle"
  BY <1>1 DEF Undisturbed, OneAtATime, TypeOK, Wrote
<1>3. pc'[p] = "apply" /\ pc'[Boot] = "idle" /\ phase' = phase /\ phase # "boot"
  BY <1>1, <1>2 DEF Undisturbed, TypeOK, Wrote, mainVars
<1>4. phase # "wire"
  BY <1>1 DEF Undisturbed
<1>5. up' /\ late' = {} /\ OneAtATime'
  BY <1>1, <1>2 DEF Undisturbed, OneAtATime, Wrote, edgeVars
<1>6. Undisturbed'
  BY <1>2, <1>3, <1>4, <1>5 DEF Undisturbed
<1>7. ~Resting'
  BY <1>1, <1>3 DEF Resting
<1> QED
  BY <1>6, <1>7 DEF Settled

\* What ends a serial behaviour is for good.
LEMMA SerialBefore ==
    ASSUME TypeOK, [Next]_vars, Serial'
    PROVE  /\ Serial
           /\ \A p : Ready(p) => p \in Handlers /\ phase = "serving" /\ \A q \in Procs : pc[q] = "idle"
           /\ \A kind : Fault(kind) => kind = "crash" /\ late' = {}
<1>1. ASSUME NEW p, Ready(p)
      PROVE  ~requests.overlap /\ p \in Handlers /\ phase = "serving" /\ \A q \in Procs : pc[q] = "idle"
  <2> DEFINE busy == requests.overlap \/ \E q \in Procs : pc[q] # "idle"
  <2>1. requests' = [n |-> requests.n + 1, overlap |-> busy]
    BY <1>1 DEF Ready
  <2>2. requests'.overlap = busy
    BY <2>1
  <2>3. ~requests.overlap /\ \A q \in Procs : pc[q] = "idle"
    BY <2>2 DEF Serial
  <2> QED
    BY <1>1, <2>3 DEF Ready
<1>2. ASSUME NEW kind, Fault(kind) PROVE ~faults.harm /\ kind = "crash" /\ late' = {}
  <2> DEFINE worse == faults.harm \/ kind # "crash" \/ late' # {}
  <2>1. faults' = [n |-> faults.n + 1, harm |-> worse]
    BY <1>2 DEF Fault
  <2>2. faults'.harm = worse
    BY <2>1
  <2> QED
    BY <2>2 DEF Serial
<1>3. ASSUME NEW p \in Procs, Mutate(p) PROVE Ready(p) /\ faults' = faults
  BY <1>3 DEF Mutate, CreateHost, UpdateHost, DeleteHost, ToggleHost, CreateGroup, UpdateGroup,
     DeleteGroup, DeleteRule, ToggleRule, ValidateRule, ReadPrevMode, Wrote
<1>4. ASSUME NEW p \in Procs, Proceed(p) PROVE requests' = requests /\ faults' = faults
  BY <1>4 DEF Proceed, PutRule, PutRuleFails, UpsertMode, Wrote, ListEnabledHosts, ListEnabledRulesByHost,
     GetTargetGroup, HydrateFails, BuildConfig, CaddyLoads, LoadOK, Succeed, LoadUnreachable, Rollback,
     Fail, Reading
<1>5. ASSUME NEW p \in Procs, Misfortune(p) PROVE requests' = requests /\ \E kind \in FaultKinds : Fault(kind)
  BY <1>5 DEF Misfortune, AnswerLost, LoadRefused, LoadTimesOut, Cancelled, Fail, FaultKinds
<1>6. MainStep \/ UNCHANGED vars => requests' = requests /\ faults' = faults
  BY DEF MainStep, BootRetry, BootGivesUp, WireCrowdSec, vars
<1>7. Environment => requests' = requests /\ (faults' = faults \/ \E kind \in FaultKinds : Fault(kind))
  BY DEF Environment, PanelCrash, CaddyStops, CaddyStarts, LateLoad, LateDrop, FaultKinds
<1>8. Serial
  BY <1>1, <1>2, <1>3, <1>4, <1>5, <1>6, <1>7 DEF Next, Serial
<1> QED
  BY <1>1, <1>2, <1>8

\* In a serial behaviour a reconcile that fails could not find a group, and one
\* that succeeds leaves Caddy with the tables.
LEMMA SerialStep ==
    ASSUME TypeOK, FreshInv, NeedInv, Referenced, SerialInv, Next, Serial'
    PROVE  /\ Undisturbed' /\ (Settled => Settled')
           /\ caddy' = caddy \/ (caddy' = Rendered /\ Rendered' = Rendered)
<1> DEFINE Goal == /\ Undisturbed' /\ (Settled => Settled')
                   /\ caddy' = caddy \/ (caddy' = Rendered /\ Rendered' = Rendered)
<1> USE ConstantsAssumption
<1>0. Undisturbed /\ up /\ late = {} /\ Boot \in Procs
      /\ \A p \in Handlers : p \in Procs /\ p # Boot
  BY SerialBefore DEF SerialInv, Undisturbed, Procs
<1>1. \A p : Ready(p) => p \in Handlers /\ phase = "serving" /\ \A q \in Procs : pc[q] = "idle"
  BY SerialBefore
<1>2. ASSUME NEW p \in Procs, Wrote(p), Ready(p), job' = job, settings' = settings PROVE Goal
  BY <1>0, <1>1, <1>2, WriteSettles DEF Wrote, edgeVars
<1>3. ASSUME NEW p \in Procs, NEW h \in Hosts, NEW g \in Groups, ValidateRule(p, h, g) PROVE Goal
  <2>1. /\ p \in Handlers /\ phase = "serving" /\ \A q \in Procs : pc[q] = "idle"
        /\ pc' = [pc EXCEPT ![p] = "rule"] /\ job'[Boot] = job[Boot]
        /\ UNCHANGED dbVars /\ UNCHANGED <<late, up>> /\ phase' = phase /\ fresh' = fresh /\ caddy' = caddy
    BY <1>0, <1>1, <1>3 DEF ValidateRule, TypeOK, edgeVars, mainVars
  <2> QED
    BY <1>0, <2>1, Advance DEF Resting, Undisturbed
<1>4. ASSUME NEW p \in Procs, NEW m \in Modes, ReadPrevMode(p, m) PROVE Goal
  <2>1. /\ p \in Handlers /\ phase = "serving" /\ \A q \in Procs : pc[q] = "idle"
        /\ pc' = [pc EXCEPT ![p] = "mode"] /\ job'[Boot] = job[Boot]
        /\ UNCHANGED dbVars /\ UNCHANGED <<late, up>> /\ phase' = phase /\ fresh' = fresh /\ caddy' = caddy
    BY <1>0, <1>1, <1>4 DEF ReadPrevMode, TypeOK, edgeVars, mainVars
  <2> QED
    BY <1>0, <2>1, Advance DEF Resting, Undisturbed
<1>5. ASSUME NEW p \in Procs, Mutate(p) PROVE Goal
  BY <1>2, <1>3, <1>4, <1>5 DEF Mutate, CreateHost, UpdateHost, DeleteHost, ToggleHost, CreateGroup,
     UpdateGroup, DeleteGroup, DeleteRule, ToggleRule
<1>6. ASSUME NEW p \in Procs, pc[p] \in {"rule", "mode", "rollback"} PROVE p \in Handlers
  BY <1>0, <1>6 DEF Undisturbed, Procs
<1>7. ASSUME NEW p \in Procs, PutRule(p) \/ UpsertMode(p) PROVE Goal
  <2>1. p \in Handlers /\ pc[p] # "idle" /\ Wrote(p) /\ job'[Boot] = job[Boot]
    BY <1>0, <1>6, <1>7 DEF PutRule, UpsertMode, TypeOK
  <2>2. settings'.bouncer = settings.bouncer /\ caddy' = caddy
    BY <1>7 DEF PutRule, UpsertMode, Wrote, TypeOK, edgeVars
  <2> QED
    BY <1>0, <2>1, <2>2, WriteSettles
\* A request that moves on, with nothing but its place changed.
<1>8. ASSUME NEW p \in Procs, NEW to, pc' = [pc EXCEPT ![p] = to], pc[p] # "idle",
             UNCHANGED dbVars, UNCHANGED <<late, up, caddy>>, job'[Boot].kind # "mode",
             p = Boot => to \notin {"rule", "mode", "rollback"},
             \/ phase' = phase /\ (p = Boot => to # "idle")
             \/ p = Boot /\ to = "idle" /\ phase' = "wire",
             \A q \in Procs : q # p => fresh'[q] = fresh[q],
             to \in {"read", "post"} => fresh'[p],
             to = "answer" => caddy = Rendered,
             to \in {"retry", "rollback"} => ~Hydratable,
             to \in {"idle", "rule", "mode"} /\ Hydratable => caddy = Rendered \/ Resting
      PROVE  Goal
  BY <1>0, <1>8, Advance
<1>9. ASSUME NEW p \in Procs, PutRuleFails(p) PROVE Goal
  <2>1. p \in Handlers /\ pc[p] = "rule" /\ pc' = [pc EXCEPT ![p] = "idle"] /\ job'[Boot] = job[Boot]
        /\ UNCHANGED dbVars /\ UNCHANGED <<late, up, caddy, phase, fresh>>
    BY <1>0, <1>6, <1>9 DEF PutRuleFails, TypeOK, edgeVars, mainVars
  <2>2. Resting
    BY <1>0, <2>1 DEF Resting, Undisturbed, OneAtATime
  <2> QED
    BY <1>0, <1>8, <2>1, <2>2 DEF Undisturbed
<1>10. ASSUME NEW p \in Procs, ListEnabledHosts(p) PROVE Goal
  <2>1. pc[p] = "apply" /\ pc' = [pc EXCEPT ![p] = "read"] /\ fresh' = [fresh EXCEPT ![p] = TRUE]
        /\ UNCHANGED dbVars /\ UNCHANGED <<late, up, caddy, phase, job>>
    BY <1>10 DEF ListEnabledHosts, Reading, edgeVars, mainVars
  <2> QED
    BY <1>0, <1>8, <2>1 DEF Undisturbed, TypeOK
<1>11. ASSUME NEW p \in Procs,
              \/ \E h \in Hosts : ListEnabledRulesByHost(p, h)
              \/ \E g \in Groups : GetTargetGroup(p, g)
       PROVE  Goal
  <2>1. pc[p] = "read" /\ pc' = pc /\ fresh' = fresh
        /\ UNCHANGED dbVars /\ UNCHANGED <<late, up, caddy, phase, job>>
    BY <1>11 DEF ListEnabledRulesByHost, GetTargetGroup, Reading, edgeVars, mainVars
  <2>2. pc' = [pc EXCEPT ![p] = "read"] /\ fresh'[p]
    BY <1>0, <2>1 DEF TypeOK, Undisturbed
  <2> QED
    BY <1>0, <1>8, <2>1, <2>2 DEF Undisturbed
<1>12. ASSUME NEW p \in Procs, BuildConfig(p) PROVE Goal
  <2>1. pc[p] = "read" /\ pc' = [pc EXCEPT ![p] = "post"] /\ fresh' = fresh
        /\ UNCHANGED dbVars /\ UNCHANGED <<late, up, caddy, phase, job>>
    BY <1>12 DEF BuildConfig, Reading, edgeVars, mainVars
  <2> QED
    BY <1>0, <1>8, <2>1 DEF Undisturbed
<1>13. ASSUME NEW p \in Procs, CaddyLoads(p) PROVE Goal
  <2>1. pc[p] = "post" /\ pc' = [pc EXCEPT ![p] = "answer"] /\ caddy' = cfg[p]
        /\ UNCHANGED dbVars /\ UNCHANGED <<late, up, phase, job, fresh>>
    BY <1>13 DEF CaddyLoads, mainVars
  <2>2. cfg[p] = Rendered
    BY <1>0, <2>1 DEF Undisturbed, FreshInv, Agrees
  <2> QED
    BY <1>0, <2>1, <2>2, Advance, TablesDecide DEF Undisturbed
<1>14. ASSUME NEW p \in Procs, LoadOK(p) PROVE Goal
  <2>1. pc[p] = "answer" /\ pc' = [pc EXCEPT ![p] = "idle"] /\ phase' = (IF p = Boot THEN "wire" ELSE phase)
        /\ job' = [job EXCEPT ![p] = Idle]
        /\ UNCHANGED dbVars /\ UNCHANGED <<late, up, caddy, fresh>>
    BY <1>14 DEF LoadOK, Succeed, edgeVars
  <2>2. job'[Boot].kind # "mode" /\ caddy = Rendered
    BY <1>0, <2>1 DEF Undisturbed, TypeOK, Idle
  <2> QED
    BY <1>0, <1>8, <2>1, <2>2
<1>15. ASSUME NEW p \in Procs, NEW g \in Groups, HydrateFails(p, g) PROVE Goal
  <2>1. /\ pc[p] = "read" /\ pc' = [pc EXCEPT ![p] = AfterFailure(p)]
        /\ UNCHANGED dbVars /\ UNCHANGED <<late, up, caddy, phase, job, fresh>>
    BY <1>15 DEF HydrateFails, Fail, edgeVars, mainVars
  <2>2. p = Boot => AfterFailure(p) = "retry"
    BY <1>0 DEF AfterFailure, Undisturbed
  <2>3. PICK h \in Hosts : Enabled(hosts[h]) # None /\ g \in {Enabled(hosts[h]), Enabled(rules[h])}
    BY <1>0, <1>15, <2>1 DEF HydrateFails, NeedInv, Needed, Undisturbed
  <2>4. g # Enabled(hosts[h])
    BY <1>15, <2>3 DEF HydrateFails, Referenced, Enabled
  <2>5. ~Hydratable
    BY <1>15, <2>3, <2>4 DEF HydrateFails, Hydratable
  <2>6. AfterFailure(p) \in {"rollback", "retry", "idle"}
    BY DEF AfterFailure
  <2> QED
    BY <1>0, <1>8, <2>1, <2>2, <2>5, <2>6 DEF Undisturbed
<1>16. ASSUME NEW p \in Procs, Rollback(p) PROVE Goal
  <2>1. /\ pc[p] = "rollback" /\ p \in Handlers /\ pc' = [pc EXCEPT ![p] = "idle"]
        /\ settings'.bouncer = settings.bouncer /\ job'[Boot] = job[Boot]
        /\ UNCHANGED <<hosts, rules, groups, late, up, caddy, phase>>
    BY <1>0, <1>6, <1>16 DEF Rollback, TypeOK, edgeVars, mainVars
  <2>2. ~Hydratable'
    BY <1>0, <2>1, TablesDecide DEF Undisturbed
  <2>3. \A q \in Procs : pc'[q] = "idle"
    BY <1>0, <2>1 DEF Undisturbed, OneAtATime, TypeOK
  <2>4. phase # "boot"
    BY <1>0, <2>1 DEF Undisturbed, OneAtATime
  <2>5. Undisturbed'
    BY <1>0, <2>1, <2>3, <2>4 DEF Undisturbed, OneAtATime
  <2> QED
    BY <2>1, <2>2, <2>5 DEF Settled
<1>17. ASSUME NEW p \in Procs, Proceed(p) PROVE Goal
  BY <1>0, <1>7, <1>9, <1>10, <1>11, <1>12, <1>13, <1>14, <1>15, <1>16, <1>17 DEF Proceed, LoadUnreachable
<1>18. ASSUME NEW p \in Procs, Misfortune(p) PROVE FALSE
  BY <1>18, SerialBefore DEF Misfortune, AnswerLost, LoadRefused, LoadTimesOut, Cancelled
<1>19. CASE BootRetry
  BY <1>0, <1>8, <1>19 DEF BootRetry, edgeVars, procVars, Undisturbed
<1>20. CASE BootGivesUp
  <2>1. ~Hydratable
    BY <1>0, <1>20 DEF BootGivesUp, Undisturbed
  <2> QED
    BY <1>0, <1>8, <1>20, <2>1 DEF BootGivesUp, edgeVars, Undisturbed
<1>21. CASE WireCrowdSec
  <2>1. /\ \A q \in Procs : pc'[q] = "idle" /\ pc[q] = "idle"
        /\ phase' = "serving" /\ UNCHANGED <<hosts, rules, groups, pc, job, caddy, late, up>>
        /\ settings' = [settings EXCEPT !.bouncer = KeySet]
    BY <1>0, <1>21 DEF WireCrowdSec, Undisturbed, edgeVars
  <2>2. Undisturbed'
    BY <1>0, <2>1 DEF Undisturbed, OneAtATime
  <2>3. ASSUME Settled PROVE Settled'
    <3>1. settings' = settings
      BY <2>1, <2>3 DEF Settled, TypeOK
    <3> QED
      BY <2>1, <2>3, <3>1, TablesDecide DEF Settled, Resting, dbVars
  <2> QED
    BY <2>1, <2>2, <2>3
<1>22. CASE PanelCrash
  <2>1. /\ late' = {} /\ UNCHANGED dbVars /\ UNCHANGED <<caddy, up>> /\ phase' = "boot"
        /\ \A q \in Procs : pc'[q] = IF q = Boot THEN "apply" ELSE "idle"
        /\ job'[Boot].kind = "boot"
    BY <1>0, <1>22, SerialBefore DEF PanelCrash
  <2>2. Undisturbed'
    BY <1>0, <2>1 DEF Undisturbed, OneAtATime
  <2>3. ~Resting' /\ settings' = settings
    BY <1>0, <2>1 DEF Resting, dbVars
  <2> QED
    BY <2>1, <2>2, <2>3 DEF Settled
<1>23. ~CaddyStops /\ ~CaddyStarts /\ ~\E c \in late : LateLoad(c) \/ LateDrop(c)
  BY <1>0, SerialBefore DEF CaddyStops, CaddyStarts
<1> QED
  BY <1>5, <1>17, <1>18, <1>19, <1>20, <1>21, <1>22, <1>23 DEF Next, MainStep, Environment

\* The invariants at the start: the boot's reconcile is the one request.
LEMMA SerialInit == Init => /\ NeedInv /\ Referenced /\ SerialInv
                            /\ Seed.bouncer = KeySet => SettledInv
<1> SUFFICES ASSUME Init
             PROVE  /\ NeedInv /\ Referenced /\ SerialInv
                    /\ Seed.bouncer = KeySet => SettledInv
  OBVIOUS
<1>1. \A p \in Procs : ~fresh[p] /\ pc[p] = IF p = Boot THEN "apply" ELSE "idle"
  BY DEF Init
<1>2. Boot \in Procs /\ job[Boot].kind = "boot"
  BY DEF Init, Procs
<1>3. NeedInv /\ Referenced
  BY <1>1 DEF Init, NeedInv, Referenced, NoRows
<1>4. Undisturbed
  BY <1>1, <1>2 DEF Init, Undisturbed, OneAtATime
<1>5. Seed.bouncer = KeySet => Settled
  BY <1>1, <1>2 DEF Init, Settled, Resting
<1> QED
  BY <1>3, <1>4, <1>5 DEF SerialInv, SettledInv

\* Every step keeps them.
SerialAll == FreshInv /\ NeedInv /\ Referenced /\ SerialInv

\* Serial steps keep what a serial configuration knows, and the settled part with it.
LEMMA SerialAllStep == TypeOK /\ SerialAll /\ [Next]_vars => SerialAll' /\ (SettledInv => SettledInv')
<1> SUFFICES ASSUME TypeOK, SerialAll, [Next]_vars PROVE SerialAll' /\ (SettledInv => SettledInv')
  OBVIOUS
<1>1. FreshInv' /\ NeedInv' /\ Referenced'
  BY FreshStep, NeedStep, ReferencedStep DEF SerialAll
<1>2. CASE Next
  BY <1>1, <1>2, SerialStep, SerialBefore DEF SerialAll, SerialInv, SettledInv
<1>3. CASE UNCHANGED vars
  <2>1. Serial' = Serial /\ Rendered' = Rendered /\ Hydratable' = Hydratable
    BY <1>3, TablesDecide DEF Serial, vars, dbVars
  <2>2. SerialInv'
    BY <1>3, <2>1 DEF SerialAll, SerialInv, Undisturbed, OneAtATime, vars, procVars, edgeVars, mainVars
  <2>3. SettledInv => SettledInv'
    BY <1>3, <2>1 DEF SettledInv, Settled, Resting, vars, dbVars, procVars, edgeVars
  <2> QED
    BY <1>1, <2>2, <2>3 DEF SerialAll
<1> QED
  BY <1>2, <1>3

\* What tables give is a configuration.
LEMMA TablesType ==
    ASSUME NEW H \in [Hosts -> Maybe(HostRow)], NEW R \in [Hosts -> Maybe(HostRow)],
           NEW G \in [Groups -> Maybe(Contents)], NEW S \in [mode: Modes, bouncer: BOOLEAN]
    PROVE  Build([h \in Hosts |-> Enabled(H[h])], [h \in Hosts |-> Enabled(R[h])], G, S) \in Config
<1>1. /\ [h \in Hosts |-> Enabled(H[h])] \in [Hosts -> Maybe(Groups)]
      /\ [h \in Hosts |-> Enabled(R[h])] \in [Hosts -> Maybe(Groups)]
  BY EnabledType
<1> QED
  BY <1>1, BuildType

\* SyncedWhenQuiet for one operator at a time: when the panel has been wired before,
\* a finished change is live, whatever crashes came between.
THEOREM SerialSyncedHolds ==
    ASSUME Seed.bouncer = KeySet
    PROVE  Spec => []SerialSynced
<1>1. Init => SerialAll /\ SettledInv
  BY SerialInit DEF Init, FreshInv, SerialAll
<1>2. SettledInv => SerialSynced
  BY DEF SettledInv, SerialSynced, SyncedWhenQuiet, Settled, Resting, Quiet
<1>3. TypeOK /\ SerialAll /\ SettledInv /\ [Next]_vars => (SerialAll /\ SettledInv)'
  BY SerialAllStep
<1> QED
  BY <1>1, <1>2, <1>3, TypeCorrect, PTL DEF Spec

\* DesiredState: in a serial behaviour a step changes what is desired, or makes what
\* runs what is desired.
THEOREM SerialImplementsHolds == Spec => SerialImplements
<1>1. Init => SerialAll
  BY SerialInit DEF Init, FreshInv, SerialAll
<1>2. TypeOK /\ SerialAll /\ [Next]_vars => SerialAll'
  BY SerialAllStep
<1>3. TypeOK /\ TypeOK' /\ SerialAll /\ [Next]_vars => [Serial' => [Desired!Next]_<<Rendered, caddy>>]_vars
  <2> SUFFICES ASSUME TypeOK, TypeOK', SerialAll, Next, Serial'
               PROVE  Desired!Next
    OBVIOUS
  <2>1. Rendered' \in Config
    BY TablesType DEF Rendered, TypeOK
  <2>2. caddy' = caddy \/ (caddy' = Rendered /\ Rendered' = Rendered)
    BY SerialStep DEF SerialAll
  <2> QED
    BY <2>1, <2>2 DEF Desired!Next, Desired!Change, Desired!Push
<1> QED
  BY <1>1, <1>2, <1>3, TypeCorrect, PTL DEF Spec, SerialImplements
=============================================================================
