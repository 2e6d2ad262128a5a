----------------------------- MODULE CaddySync -----------------------------
(***************************************************************************)
(* The panel's write path and the reconciler that carries it to Caddy.    *)
(* Every mutation handler of the API commits its row to SQLite and then    *)
(* calls Reconciler.ApplyFromDB, which reads the tables again, one query   *)
(* at a time, builds the whole Caddy configuration and POSTs it to /load.  *)
(* Nothing serialises two handlers: the pool has one connection, so single *)
(* statements are atomic, but two reconciles interleave freely.            *)
(***************************************************************************)
EXTENDS Naturals, FiniteSets

CONSTANTS
    Handlers,     \* HTTP requests that may be in flight at the same time
    Boot,         \* the goroutine of main() that runs the first reconcile
    Hosts,        \* host ids
    Groups,       \* target group ids
    Contents,     \* what a target group may hold: its targets and health check
    Modes,        \* values of the setting appsec.mode
    None,         \* no row, no route, no AppSec URL
    Faults,       \* which faults of FaultKinds this instance may meet
    KeySet,       \* CROWDSEC_BOUNCER_API_KEY is in the panel's environment
    Seed,         \* appsec and bouncer settings in the database at Init
    MaxRequests,  \* bound on the mutating requests
    MaxFaults,    \* bound on the faults
    MaxAttempts   \* attempts that fit in the 30 s of ApplyFromDBWithBackoff

FaultKinds == {"refuse", "lose", "late", "cancel", "crash", "caddy"}

ASSUME ConstantsAssumption ==
    /\ None \notin Groups \cup Contents \cup Modes \cup Hosts
    /\ Boot \notin Handlers
    /\ Faults \subseteq FaultKinds
    /\ KeySet \in BOOLEAN
    /\ Seed \in [mode: Modes, bouncer: BOOLEAN]
    /\ MaxRequests \in Nat /\ MaxFaults \in Nat /\ MaxAttempts \in Nat \ {0}

VARIABLES
    hosts,     \* table hosts: None or the row's target group and enabled flag
    rules,     \* each host's forward rule: None or its target group and flag
    groups,    \* table target_groups: None or the group's contents
    settings,  \* appsec.mode and crowdsec.bouncer_configured
    pc,        \* where each request is
    job,       \* what it must remember outside the reconcile
    snap,      \* the rows its reconcile has read so far
    cfg,       \* the configuration it has built
    fresh,     \* history: no row was written since its reconcile began
    caddy,     \* the configuration Caddy serves
    late,      \* /load requests whose client has given up
    up,        \* Caddy's admin API answers
    phase,     \* "boot", "wire" or "serving": how far main() is
    attempts,  \* attempts of the boot reconcile
    requests,  \* how many began, and whether one began before another's end
    faults     \* how many, and whether one did more than end the panel

dbVars   == <<hosts, rules, groups, settings>>
procVars == <<pc, job, snap, cfg, fresh>>
edgeVars == <<caddy, late, up>>
mainVars == <<phase, attempts>>
vars == <<dbVars, procVars, edgeVars, mainVars, requests, faults>>

Procs == Handlers \cup {Boot}
Maybe(S) == S \cup {None}
HostRow  == [tg: Groups, on: BOOLEAN]
Plain    == [kind: {"plain", "boot"}]
RuleJob  == [kind: {"rule"}, host: Hosts, tg: Groups]
ModeJob  == [kind: {"mode"}, to: Modes, prev: Modes]
Snapshot == [hosts: [Hosts -> Maybe(Groups)], rules: [Hosts -> Maybe(Groups)],
             groups: [Groups -> Maybe(Contents)],
             todo: SUBSET Hosts, need: SUBSET Groups]
Route    == [default: Maybe(Contents), forward: Maybe(Contents)]
Config   == [route: [Hosts -> Maybe(Route)], appsec: Maybe(Modes)]

\* A route that is there is not the route that is not.
ASSUME RouteAssumption == None \notin Route

----------------------------------------------------------------------------
\* The target group of a row the reconciler sees: disabled rows are filtered.
Enabled(row) == IF row # None /\ row.on THEN row.tg ELSE None

\* caddycfg.HostsToCaddyConfig: a route per enabled host; a host, and a forward
\* rule, whose group is missing is skipped with a warning; AppSec only with the
\* bouncer configured.
Build(H, R, G, S) ==
    [route  |-> [h \in Hosts |->
                    IF H[h] = None \/ G[H[h]] = None THEN None
                    ELSE [default |-> G[H[h]],
                          forward |-> IF R[h] = None THEN None ELSE G[R[h]]]],
     appsec |-> IF S.bouncer THEN S.mode ELSE None]

\* What the tables would give if they were all read at once.
Rendered == Build([h \in Hosts |-> Enabled(hosts[h])],
                  [h \in Hosts |-> Enabled(rules[h])], groups, settings)

\* The Caddyfile the caddy container starts from: no host at all.
Bare == [route |-> [h \in Hosts |-> None], appsec |-> None]

NoRows == [h \in Hosts |-> None]
EmptySnap == [hosts |-> NoRows, rules |-> NoRows,
              groups |-> [g \in Groups |-> None], todo |-> {}, need |-> {}]
Idle == [kind |-> "plain"]

Init ==
    /\ hosts = NoRows /\ rules = NoRows
    /\ groups = [g \in Groups |-> None]
    /\ settings = Seed
    /\ pc = [p \in Procs |-> IF p = Boot THEN "apply" ELSE "idle"]
    /\ job = [p \in Procs |-> IF p = Boot THEN [kind |-> "boot"] ELSE Idle]
    /\ snap = [p \in Procs |-> EmptySnap]
    /\ cfg = [p \in Procs |-> Bare]
    /\ fresh = [p \in Procs |-> FALSE]
    /\ caddy = Bare /\ late = {} /\ up = TRUE
    /\ phase = "boot" /\ attempts = 0
    /\ requests = [n |-> 0, overlap |-> FALSE] /\ faults = [n |-> 0, harm |-> FALSE]

----------------------------------------------------------------------------
(* Mutations: one committed statement, then the handler calls reconcile(). *)

\* p commits a mutation; every reconcile under way has read older rows.
Wrote(p) ==
    /\ pc' = [pc EXCEPT ![p] = "apply"]
    /\ fresh' = [q \in Procs |-> FALSE]
    /\ UNCHANGED <<snap, cfg, edgeVars, mainVars, faults>>

\* The server accepts a mutating request, once main() has started it.
Ready(p) ==
    /\ p \in Handlers /\ phase = "serving" /\ pc[p] = "idle"
    /\ requests.n < MaxRequests
    /\ requests' = [n |-> requests.n + 1,
                    overlap |-> requests.overlap \/ \E q \in Procs : pc[q] # "idle"]

\* CreateHost: the group must exist (checked, and a foreign key).
CreateHost(p, h, g, on) ==
    /\ Ready(p) /\ hosts[h] = None /\ groups[g] # None
    /\ hosts' = [hosts EXCEPT ![h] = [tg |-> g, on |-> on]]
    /\ Wrote(p) /\ UNCHANGED <<rules, groups, settings, job>>

\* UpdateHost: a full overwrite, with the same condition on the group.
UpdateHost(p, h, g, on) ==
    /\ Ready(p) /\ hosts[h] # None /\ groups[g] # None
    /\ hosts' = [hosts EXCEPT ![h] = [tg |-> g, on |-> on]]
    /\ Wrote(p) /\ UNCHANGED <<rules, groups, settings, job>>

\* Mutant: the handler returns without calling reconcile().
DeleteHostOnly(p, h) ==
    /\ Ready(p) /\ hosts[h] # None
    /\ hosts' = [hosts EXCEPT ![h] = None]
    /\ rules' = [rules EXCEPT ![h] = None]
    /\ fresh' = [q \in Procs |-> FALSE]
    /\ UNCHANGED <<groups, settings, pc, job, snap, cfg, edgeVars, mainVars, faults>>

\* DeleteHost: the host's rules go with it (ON DELETE CASCADE).
DeleteHost(p, h) ==
    /\ Ready(p) /\ hosts[h] # None
    /\ hosts' = [hosts EXCEPT ![h] = None]
    /\ rules' = [rules EXCEPT ![h] = None]
    /\ Wrote(p) /\ UNCHANGED <<groups, settings, job>>

ToggleHost(p, h) ==
    /\ Ready(p) /\ hosts[h] # None
    /\ hosts' = [hosts EXCEPT ![h].on = ~@]
    /\ Wrote(p) /\ UNCHANGED <<rules, groups, settings, job>>

CreateGroup(p, g, c) ==
    /\ Ready(p) /\ groups[g] = None
    /\ groups' = [groups EXCEPT ![g] = c]
    /\ Wrote(p) /\ UNCHANGED <<hosts, rules, settings, job>>

\* UpdateTargetGroup, and the target sub-routes (add, update, delete, toggle):
\* what the group holds changes, the group stays.
UpdateGroup(p, g, c) ==
    /\ Ready(p) /\ groups[g] \notin {None, c}
    /\ groups' = [groups EXCEPT ![g] = c]
    /\ Wrote(p) /\ UNCHANGED <<hosts, rules, settings, job>>

\* DeleteTargetGroup: refused while a host refers to it; rules are not asked.
HostsUsing(g) == {h \in Hosts : hosts[h] # None /\ hosts[h].tg = g}

DeleteGroup(p, g) ==
    /\ Ready(p) /\ groups[g] # None
    /\ HostsUsing(g) = {}
    /\ groups' = [groups EXCEPT ![g] = None]
    /\ Wrote(p) /\ UNCHANGED <<hosts, rules, settings, job>>

\* CreateRule / UpdateRule: requireHost and rule.Validate read first ...
ValidateRule(p, h, g) ==
    /\ Ready(p) /\ hosts[h] # None /\ groups[g] # None
    /\ pc' = [pc EXCEPT ![p] = "rule"]
    /\ job' = [job EXCEPT ![p] = [kind |-> "rule", host |-> h, tg |-> g]]
    /\ UNCHANGED <<dbVars, snap, cfg, fresh, edgeVars, mainVars, faults>>

\* ... and the row is written in a statement of its own.
PutRule(p) ==
    /\ pc[p] = "rule" /\ hosts[job[p].host] # None
    /\ rules' = [rules EXCEPT ![job[p].host] = [tg |-> job[p].tg, on |-> TRUE]]
    /\ job' = [job EXCEPT ![p] = Idle]
    /\ Wrote(p) /\ UNCHANGED <<hosts, groups, settings, requests>>

\* The host went away between the two: the foreign key refuses the row.
PutRuleFails(p) ==
    /\ pc[p] = "rule" /\ hosts[job[p].host] = None
    /\ pc' = [pc EXCEPT ![p] = "idle"]
    /\ job' = [job EXCEPT ![p] = Idle]
    /\ UNCHANGED <<dbVars, snap, cfg, fresh, edgeVars, mainVars, requests, faults>>

DeleteRule(p, h) ==
    /\ Ready(p) /\ rules[h] # None
    /\ rules' = [rules EXCEPT ![h] = None]
    /\ Wrote(p) /\ UNCHANGED <<hosts, groups, settings, job>>

\* ToggleRule flips the flag and validates nothing.
ToggleRule(p, h) ==
    /\ Ready(p) /\ rules[h] # None
    /\ rules' = [rules EXCEPT ![h].on = ~@]
    /\ Wrote(p) /\ UNCHANGED <<hosts, groups, settings, job>>

\* SetAppSecMode: remember the old mode, write the new one, reconcile.
ReadPrevMode(p, m) ==
    /\ Ready(p)
    /\ pc' = [pc EXCEPT ![p] = "mode"]
    /\ job' = [job EXCEPT ![p] = [kind |-> "mode", to |-> m, prev |-> settings.mode]]
    /\ UNCHANGED <<dbVars, snap, cfg, fresh, edgeVars, mainVars, faults>>

UpsertMode(p) ==
    /\ pc[p] = "mode"
    /\ settings' = [settings EXCEPT !.mode = job[p].to]
    /\ Wrote(p) /\ UNCHANGED <<hosts, rules, groups, job, requests>>

----------------------------------------------------------------------------
(* Reconciler.ApplyFromDB, one query per step.                             *)

\* A step that only moves p's own reconcile forward.
Reading(p) == UNCHANGED <<dbVars, job, edgeVars, mainVars, requests, faults>>

ListEnabledHosts(p) ==
    /\ pc[p] = "apply"
    /\ LET H == [h \in Hosts |-> Enabled(hosts[h])]
       IN  snap' = [snap EXCEPT ![p] =
             [EmptySnap EXCEPT !.hosts = H,
                               !.todo = {h \in Hosts : H[h] # None},
                               !.need = {H[h] : h \in Hosts} \ {None}]]
    /\ pc' = [pc EXCEPT ![p] = "read"]
    /\ fresh' = [fresh EXCEPT ![p] = TRUE]
    /\ UNCHANGED cfg /\ Reading(p)

\* Mutant: the query forgets "AND enabled = 1".
ListRulesByHost(p, h) ==
    /\ pc[p] = "read" /\ h \in snap[p].todo
    /\ LET r == IF rules[h] = None THEN None ELSE rules[h].tg
       IN  snap' = [snap EXCEPT ![p].rules[h] = r,
                                ![p].todo = @ \ {h},
                                ![p].need = @ \cup ({r} \ {None})]
    /\ UNCHANGED <<pc, cfg, fresh>> /\ Reading(p)

\* The enabled forward rule of one host; its group joins those to hydrate.
ListEnabledRulesByHost(p, h) ==
    /\ pc[p] = "read" /\ h \in snap[p].todo
    /\ LET r == Enabled(rules[h])
       IN  snap' = [snap EXCEPT ![p].rules[h] = r,
                                ![p].todo = @ \ {h},
                                ![p].need = @ \cup ({r} \ {None})]
    /\ UNCHANGED <<pc, cfg, fresh>> /\ Reading(p)

\* Groups are read once every host's rules are.
GetTargetGroup(p, g) ==
    /\ pc[p] = "read" /\ snap[p].todo = {} /\ g \in snap[p].need
    /\ groups[g] # None
    /\ snap' = [snap EXCEPT ![p].groups[g] = groups[g],
                            ![p].need = @ \ {g}]
    /\ UNCHANGED <<pc, cfg, fresh>> /\ Reading(p)

\* crowdsecOpts reads the settings and the configuration is built.
BuildConfig(p) ==
    /\ pc[p] = "read" /\ snap[p].todo = {} /\ snap[p].need = {}
    /\ cfg' = [cfg EXCEPT ![p] =
                 Build(snap[p].hosts, snap[p].rules, snap[p].groups, settings)]
    /\ pc' = [pc EXCEPT ![p] = "post"]
    /\ UNCHANGED <<snap, fresh>> /\ Reading(p)

----------------------------------------------------------------------------
(* How a reconcile ends.                                                   *)

AfterFailure(p) == IF job[p].kind = "mode" THEN "rollback"
                   ELSE IF p = Boot THEN "retry" ELSE "idle"

\* The handler (or main) goes on; a plain handler only logs an error.
Succeed(p) ==
    /\ pc' = [pc EXCEPT ![p] = "idle"]
    /\ job' = [job EXCEPT ![p] = Idle]
    /\ phase' = IF p = Boot THEN "wire" ELSE phase
    /\ UNCHANGED <<dbVars, snap, cfg, fresh, attempts, requests>>

Fail(p) ==
    /\ pc' = [pc EXCEPT ![p] = AfterFailure(p)]
    /\ UNCHANGED <<dbVars, job, snap, cfg, fresh, mainVars, requests>>

\* The calls Caddy may be handling.
Posting == {p \in Procs : pc[p] = "post" /\ up}

Fault(kind) ==
    /\ kind \in Faults /\ faults.n < MaxFaults
    /\ faults' = [n |-> faults.n + 1,
                  harm |-> faults.harm \/ kind # "crash" \/ late' # {}]

\* Mutant: a missing group is logged and skipped.
HydrateSkips(p, g) ==
    /\ pc[p] = "read" /\ snap[p].todo = {} /\ g \in snap[p].need
    /\ groups[g] = None
    /\ snap' = [snap EXCEPT ![p].need = @ \ {g}]
    /\ UNCHANGED <<pc, cfg, fresh>> /\ Reading(p)

\* A group vanished since it was referenced: "hydrate target group: not found".
HydrateFails(p, g) ==
    /\ pc[p] = "read" /\ snap[p].todo = {} /\ g \in snap[p].need
    /\ groups[g] = None
    /\ Fail(p) /\ UNCHANGED <<edgeVars, faults>>

\* Caddy swaps its whole configuration; the answer is still on the wire.
CaddyLoads(p) ==
    /\ pc[p] = "post" /\ up
    /\ caddy' = cfg[p]
    /\ pc' = [pc EXCEPT ![p] = "answer"]
    /\ UNCHANGED <<dbVars, job, snap, cfg, fresh, late, up, mainVars, requests, faults>>

LoadOK(p) == pc[p] = "answer" /\ Succeed(p) /\ UNCHANGED <<edgeVars, faults>>

\* The answer to a load that took effect never arrives.
AnswerLost(p) ==
    /\ pc[p] = "answer" /\ Fault("lose")
    /\ Fail(p) /\ UNCHANGED edgeVars

\* Caddy rejects the configuration.
LoadRefused(p) ==
    /\ pc[p] = "post" /\ up /\ Fault("refuse")
    /\ Fail(p) /\ UNCHANGED edgeVars

\* Mutant: an HTTP client that waits for Caddy for ever.
LoadWaits(p) == FALSE /\ Fail(p) /\ UNCHANGED <<edgeVars, faults>>

\* Nothing listens: the connection is refused or reset.
LoadUnreachable(p) ==
    /\ pc[p] \in {"post", "answer"} /\ ~up
    /\ Fail(p) /\ UNCHANGED <<edgeVars, faults>>

\* The 10 s client timeout fires first; Caddy may still get to the request.
LoadTimesOut(p) ==
    /\ pc[p] = "post" /\ up /\ Fault("late")
    /\ late' = late \cup {cfg[p]}
    /\ Fail(p) /\ UNCHANGED <<caddy, up>>

\* The browser goes away: the handler's context ends, and with it its queries,
\* its load (which Caddy may still perform) and SetAppSecMode's own restore.
Cancelled(p) ==
    /\ p \in Handlers /\ pc[p] # "idle" /\ Fault("cancel")
    /\ pc' = [pc EXCEPT ![p] = "idle"]
    /\ job' = [job EXCEPT ![p] = Idle]
    /\ late' \in {late} \cup {late \cup {cfg[q]} : q \in {p} \cap Posting}
    /\ UNCHANGED <<dbVars, snap, cfg, fresh, caddy, up, mainVars, requests>>

\* SetAppSecMode's best-effort restore of the previous mode.
Rollback(p) ==
    /\ pc[p] = "rollback"
    /\ settings' = [settings EXCEPT !.mode = job[p].prev]
    /\ pc' = [pc EXCEPT ![p] = "idle"]
    /\ job' = [job EXCEPT ![p] = Idle]
    /\ fresh' = [q \in Procs |-> FALSE]
    /\ UNCHANGED <<hosts, rules, groups, snap, cfg, edgeVars, mainVars, requests, faults>>

----------------------------------------------------------------------------
(* main(): backoff, bouncer wiring, crashes; and Caddy itself.             *)

BootRetry ==
    /\ pc[Boot] = "retry" /\ attempts + 1 < MaxAttempts
    /\ attempts' = attempts + 1
    /\ pc' = [pc EXCEPT ![Boot] = "apply"]
    /\ UNCHANGED <<dbVars, job, snap, cfg, fresh, edgeVars, phase, requests, faults>>

\* "Not fatal": the panel starts without having reached Caddy.
BootGivesUp ==
    /\ pc[Boot] = "retry" /\ attempts + 1 = MaxAttempts
    /\ pc' = [pc EXCEPT ![Boot] = "idle"]
    /\ phase' = "wire"
    /\ UNCHANGED <<dbVars, job, snap, cfg, fresh, edgeVars, attempts, requests, faults>>

\* crowdsec.bouncer_configured is synced after the boot reconcile; no other
\* reconcile follows it.
WireCrowdSec ==
    /\ phase = "wire"
    /\ settings' = [settings EXCEPT !.bouncer = KeySet]
    /\ fresh' = [q \in Procs |-> FALSE]
    /\ phase' = "serving"
    /\ UNCHANGED <<hosts, rules, groups, pc, job, snap, cfg, edgeVars, attempts, requests, faults>>

\* The panel dies and is restarted; requests already sent may still be served.
PanelCrash ==
    /\ late' = IF "late" \in Faults
               THEN late \cup {cfg[p] : p \in {q \in Procs : pc[q] = "post"}} ELSE late
    /\ Fault("crash")
    /\ pc' = [p \in Procs |-> IF p = Boot THEN "apply" ELSE "idle"]
    /\ job' = [p \in Procs |-> IF p = Boot THEN [kind |-> "boot"] ELSE Idle]
    /\ fresh' = [p \in Procs |-> FALSE]
    /\ phase' = "boot" /\ attempts' = 0
    /\ UNCHANGED <<dbVars, snap, cfg, caddy, up, requests>>

LateLoad(c) ==
    /\ c \in late /\ up
    /\ caddy' = c /\ late' = late \ {c}
    /\ UNCHANGED <<dbVars, procVars, up, mainVars, requests, faults>>

LateDrop(c) ==
    /\ c \in late
    /\ late' = late \ {c}
    /\ UNCHANGED <<dbVars, procVars, caddy, up, mainVars, requests, faults>>

CaddyStops ==
    /\ up /\ Fault("caddy")
    /\ up' = FALSE
    /\ late' = {}
    /\ UNCHANGED <<dbVars, procVars, caddy, mainVars, requests>>

\* "caddy run --config /etc/caddy/Caddyfile", without --resume.
CaddyStarts ==
    /\ ~up
    /\ up' = TRUE /\ caddy' = Bare
    /\ UNCHANGED <<dbVars, procVars, late, mainVars, requests, faults>>

----------------------------------------------------------------------------
Mutate(p) ==
    \/ \E h \in Hosts, g \in Groups, on \in BOOLEAN :
            CreateHost(p, h, g, on) \/ UpdateHost(p, h, g, on)
    \/ \E h \in Hosts : DeleteHost(p, h) \/ ToggleHost(p, h)
    \/ \E g \in Groups, c \in Contents : CreateGroup(p, g, c) \/ UpdateGroup(p, g, c)
    \/ \E g \in Groups : DeleteGroup(p, g)
    \/ \E h \in Hosts, g \in Groups : ValidateRule(p, h, g)
    \/ \E h \in Hosts : DeleteRule(p, h) \/ ToggleRule(p, h)
    \/ \E m \in Modes : ReadPrevMode(p, m)

\* The steps a started request owes: the scheduler and the timeouts drive them.
Proceed(p) ==
    \/ PutRule(p) \/ PutRuleFails(p) \/ UpsertMode(p)
    \/ ListEnabledHosts(p)
    \/ \E h \in Hosts : ListEnabledRulesByHost(p, h)
    \/ \E g \in Groups : GetTargetGroup(p, g) \/ HydrateFails(p, g)
    \/ BuildConfig(p)
    \/ CaddyLoads(p) \/ LoadOK(p) \/ LoadUnreachable(p)
    \/ Rollback(p)

Misfortune(p) == \/ AnswerLost(p) \/ LoadRefused(p) \/ LoadTimesOut(p)
                 \/ Cancelled(p)

MainStep == BootRetry \/ BootGivesUp \/ WireCrowdSec

Environment ==
    \/ PanelCrash \/ CaddyStops \/ CaddyStarts
    \/ \E c \in late : LateLoad(c) \/ LateDrop(c)

Next ==
    \/ \E p \in Procs : Mutate(p) \/ Proceed(p) \/ Misfortune(p)
    \/ MainStep
    \/ Environment

Fairness ==
    /\ \A p \in Procs : WF_vars(Proceed(p))
    /\ WF_vars(MainStep)

Spec == Init /\ [][Next]_vars
FairSpec == Spec /\ Fairness

----------------------------------------------------------------------------
TypeOK ==
    /\ hosts \in [Hosts -> Maybe(HostRow)] /\ rules \in [Hosts -> Maybe(HostRow)]
    /\ groups \in [Groups -> Maybe(Contents)]
    /\ settings \in [mode: Modes, bouncer: BOOLEAN]
    /\ pc \in [Procs -> {"idle", "rule", "mode", "apply", "read", "post",
                         "answer", "rollback", "retry"}]
    /\ job \in [Procs -> Plain \cup RuleJob \cup ModeJob]
    /\ \A p \in Procs : /\ pc[p] = "rule" => job[p] \in RuleJob
                        /\ pc[p] \in {"mode", "rollback"} => job[p] \in ModeJob
    /\ snap \in [Procs -> Snapshot]
    /\ cfg \in [Procs -> Config]
    /\ fresh \in [Procs -> BOOLEAN]
    /\ caddy \in Config /\ late \in SUBSET Config /\ up \in BOOLEAN
    /\ phase \in {"boot", "wire", "serving"}
    /\ attempts \in Nat
    /\ requests \in [n: Nat, overlap: BOOLEAN] /\ faults \in [n: Nat, harm: BOOLEAN]

\* Nothing is in flight between the panel and Caddy.
Quiet == up /\ late = {} /\ phase = "serving" /\ \A p \in Procs : pc[p] = "idle"

\* Every group the reconciler would look up exists.
Hydratable == \A h \in Hosts :
    (Enabled(hosts[h]) # None /\ Enabled(rules[h]) # None)
        => groups[Enabled(rules[h])] # None

\* ApplyFromDB reads the tables in many separate queries. If no row changed
\* since its first one, what it POSTs is the database as one consistent cut.
FreshPush == \A p \in Procs : pc[p] = "post" /\ fresh[p] => cfg[p] = Rendered

\* The inductive form of FreshPush: what each step of the reconcile has read
\* so far equals the tables, and every group still to hydrate is in need.
Agrees(p) ==
    LET s == snap[p]
        wanted(h) == ({s.hosts[h]} \cup (IF h \in s.todo THEN {} ELSE {s.rules[h]})) \ {None}
    IN  /\ pc[p] = "read" =>
            /\ s.hosts = [h \in Hosts |-> Enabled(hosts[h])]
            /\ \A h \in Hosts : s.hosts[h] # None =>
                  /\ h \notin s.todo => s.rules[h] = Enabled(rules[h])
                  /\ \A g \in wanted(h) : g \in s.need \/ s.groups[g] = groups[g]
        /\ pc[p] = "post" => cfg[p] = Rendered

FreshInv == \A p \in Procs : fresh[p] => Agrees(p)

\* c serves every host that s listed as enabled, with its enabled forward rule.
Serves(c, s) == \A h \in Hosts : s.hosts[h] # None =>
    /\ c.route[h] # None
    /\ s.rules[h] # None => c.route[h].forward # None

\* The renderer skips a host whose group it was not given, and the rows are read
\* in separate queries while groups are deleted: it is hydration, which fails and
\* ends the reconcile, that keeps an enabled host (or its forward rule) from
\* silently vanishing out of the configuration the panel loads.
NoHostVanishes == \A p \in Procs : pc[p] \in {"post", "answer"} => Serves(cfg[p], snap[p])

\* Its inductive form: a group is hydrated, or still to be.
Hydrated(s, g) == g \in s.need \/ s.groups[g] # None

HydratedInv ==
    /\ NoHostVanishes
    /\ \A p \in Procs : pc[p] = "read" => \A h \in Hosts : snap[p].hosts[h] # None =>
          /\ Hydrated(snap[p], snap[p].hosts[h])
          /\ snap[p].rules[h] # None => Hydrated(snap[p], snap[p].rules[h])

\* Once every handler has returned, Caddy serves what the tables say: each
\* mutation handler ends with a reconcile, and the boot runs one after a crash.
SyncedWhenQuiet == Quiet /\ Hydratable => caddy = Rendered

\* One operator, who waits for each answer, and a panel that may crash; requests
\* that overlap may load in either order, and the other faults leave Caddy behind.
Serial == ~requests.overlap /\ ~faults.harm
SerialSynced == Serial => SyncedWhenQuiet

\* The client timeout and the error paths end every request and the boot,
\* whatever Caddy does.
RequestsEnd == \A p \in Procs : pc[p] # "idle" ~> pc[p] = "idle"

\* The desired state and the running one: in a serial behaviour every step is a
\* step of DesiredState.
Desired == INSTANCE DesiredState
               WITH Configs <- Config, Empty <- Bare, desired <- Rendered, running <- caddy
SerialImplements == [][Serial' => [Desired!Next]_<<Rendered, caddy>>]_vars
=============================================================================
