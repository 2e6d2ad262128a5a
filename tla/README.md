# argos-edge in TLA+

argos-edge is a panel for a Caddy reverse proxy: one Go process (`src/backend`) with one SQLite
database, a Caddy container that it drives through the admin API, and a CrowdSec container whose
decisions it reads and writes. This directory models the parts of the panel where order, failure
and concurrency decide whether it is right, checks them with TLC on small instances, and proves the
main results with TLAPS for every instance.

Run everything from this directory: `tlc -config X.cfg M` for the module and configuration named in
the table of runs, `tlapm M_proofs.tla` for the proofs.

## 1. The system

### 1.1 Parts, their state and what they do

| Part (source under `src/backend`) | State it keeps | Operations | What makes it correct |
|---|---|---|---|
| Handlers of hosts, target groups, rules (`internal/api/hosts.go`, `target_groups.go`, `rules.go`) | SQLite rows | create, update, delete, toggle; each ends in a reconcile | what Caddy serves is what the rows say |
| Reconciler (`internal/reconciler`) | none; one HTTP client | `ApplyFromDB` (read, render, `POST /load`), `SetAppSecMode`, boot backoff | a consistent cut is posted; a failed push leaves rows and Caddy in agreement |
| Country bans (`internal/security/country`, `internal/crowdsec/client.go`) | job rows, expansion rows, decisions in CrowdSec's LAPI, a worker mutex | submit, run a job, revoke, periodic drift tick | no decision without its row, none twice, a verdict that converges |
| Notifications (`internal/notifications`) | channel of 1000 events, throttle map, token buckets, delivery rows | emit, dispatch, send with backoff, retry by hand, purge | rates and windows hold, a delivery is tried before it is given up |
| Backups (`internal/backup`, `internal/api/backup.go`, `cmd/argos/main.go`) | archives, their rows, a restore flag and payload on disk | create, purge, delete, restore, upload, apply at boot | rows and archives agree; the panel boots with what was promised |
| Manual certificates (`internal/certs`, `internal/api/manual_certs.go`) | certificate row, two files, the host's `tls_mode` | upload, delete, cascade, boot repair | the pair on disk matches, and matches the row |
| Certificate probes (`internal/certprobe`) | one cached pass | `Results`, `Invalidate` | single flight; no result older than the last invalidation |
| Logs (`internal/logs`, `internal/db/logs*.go`) | channel of 1000, `log_entries`, `log_hourly`, watermarks | ingest, purge, roll up, drift check, vacuum | an hour's rollup is its rows; a purge never loses what is kept |
| Log pages, export, stream (`internal/api/logs.go`, `security_panel.go`) | a cache of aggregates, counters of open streams | list, audit, CSV export, server-sent events, statistics | a walk passes over no row that was there throughout, whatever is written and purged meanwhile, and export and stream give none twice; an aggregate is of the filter asked for |
| Traffic statistics (`internal/dashboard/queries.go`, `internal/db/rollup_read.go`, `logs_rollup.go`) | none: three ways to read the same figures | overview, series, totals, percentiles, buckets | every path gives what the rows give |
| Dashboard cache (`internal/dashboard/cache.go`) | entries of a stale-while-revalidate cache | `GetOrLoad`, `Refresh`, `Run` | single flight, bounded age, waiters end |
| Sign-in (`internal/session`, `totp`, `hardening`, `api/auth.go`, `api/totp.go`, `api/forward.go`) | sessions, challenges, recovery codes, attempts, a ForwardAuth cache | login, verify, recovery, enrol, logout | a recovery code is used once; session clocks |
| OIDC (`internal/oidc`) | pending flows, users | start, callback, provisioning | a flow is used once, a user is provisioned once |
| Rules and routes (`internal/db/rules.go`, `api/rules.go`, `internal/caddycfg`) | rule rows, priorities unique per host | create, update, toggle, delete, reorder; render | the enabled rule of least priority that matches answers, and nothing before the gates |
| Drift detector (`internal/security/drift`, `files.go`, `crowdsec/setup-appsec.sh`) | two verdicts in the settings, sentinel files | requests, the script, the detector's pass | file and database agree; a pass shows the truth; a run of the script clears it |
| Configuration export and import (`internal/configio`) | none | one transaction, then a reconcile | all or nothing |
| Alarms (`notifications/cron.go`, `watcher.go`, `internal/appsec`) | burst windows, last-emit clocks | ticks, log observers | an outage is reported, and once |
| DNS providers (`api/dns_providers.go`, `db/dns_providers*.go`) | one row per provider, encrypted under the master key | PUT, legacy import, host check, render | what is switched on has its credentials; what was accepted can be rendered |
| Rest: GeoIP, target health, threats, settings, command line, server, frontend | caches and single rows | | |

### 1.2 How they interact

* Every writer shares one SQLite write connection (`db.Open`, `SetMaxOpenConns(1)`), so a statement
  or a transaction is atomic; a handler is several of them, and anything can run in between. No
  lock is held across the statements of a handler.
* Handlers call the reconciler synchronously. `ApplyFromDB` has no mutex: two handlers' reconciles
  overlap, and Caddy takes the one it receives last.
* The panel talks to Caddy and to CrowdSec over HTTP with a timeout: a call may fail, may be
  performed although its answer is lost, or may be performed after the caller gave up.
* Country-ban jobs are goroutines that take `JobRunner.mu`; revocations and the drift tick do not.
* Any part may `Emit` an event; a full queue drops it. One worker dispatches and sends inline.
* A restore ends the process (`os.Exit` 800 ms after the answer); the container's restart policy
  starts it again, and `main` applies the flag before it opens the database.
* A stop of the panel, whether SIGTERM, `os.Exit` or a crash, ends its goroutines where they are.
  The background goroutines have no join, so the models make no difference between them, except
  where the code does (`Emitter.Close`, the restore's delayed exit).

### 1.3 What is hard

Overlapping reconciles; reads of one configuration spread over many statements; a rollback after an
unknown outcome; jobs, revocations and ticks over a store that another process owns; retries that
race the worker; a boot that can die anywhere in the middle of applying a restore; names that are
taken by a later rename; one-time codes and flows redeemed twice; caches that store what they read
before a change; figures stitched from two tables at an hour's boundary. `PROJECT.json` lists each at
its line under `hazards`, with the properties that would catch it. Hazards that are real but carry no
property, beyond those listed there: Caddy restarts and nobody pushes until the next change;
`SetAppSecMode` reads the previous mode in a statement of its own; the country look-up discards its
error; the boot's flag file is created and filled in two steps; an unknown domain is cached as unknown
for the life of the process; a full log channel drops audit rows, and `Ingestor.Close` closes the
channel that tailers may still send on; the counter of open log streams is changed without a lock
(`incrSSE`, `decrSSE`); `DeleteManualCert` writes back the whole host row that it read at its start.

## 2. The modules

| Module | Models | State in the module and in the code |
|---|---|---|
| `CaddySync` | handlers' writes, `ApplyFromDB`, `/load`, `SetAppSecMode`, the boot | `hosts`, `rules`, `groups`, `settings`: the tables. `pc`, `job`, `snap`, `cfg`: the local variables of each handler's goroutine and of `main`. `caddy`, `late`, `up`: Caddy's configuration, calls it may still perform, and whether it listens |
| `DesiredState` | abstract: a desired configuration, a running one, `Push` makes them equal | `Rendered` and `caddy` under the refinement mapping |
| `CountryBans` | `JobRunner`, `Expander.BanWithProgress`, `Revoke`, the drift reconciler, panel stops | `jobs`, `rows`: the two tables; `lapi`: how often each CIDR of a country is stored; the worker's position; the tick's copy of a row |
| `Notifications` | `Emitter`, `Worker`, `Throttle`, `RateLimiter`, deliveries, retry, purge, configuration changes | queue, throttle map, buckets, deliveries, and the copies each sender works on |
| `Backups` | `Manager.Create`, `Purge`, `Delete`, `Reconcile`, `Prepare`, `Apply`, `ApplyPending`, the handlers | archives and `.partial` files by name, rows, the flag, the payload, the live database with the rows inside it |
| `LogRollup` | `Ingestor`, `retentionLoop`, `PurgeWithPolicy`, `rollupFillMissing`, the pages' split of a range, an operator's purge | `channel`: the entries not yet written; `rows`, `hourly`: `log_entries`, `log_hourly`; `watermark`: the strip's setting; `proc`: the local variables of each purge and of the fill; `reader`: a page between its queries |
| `LogReads` | the export's keyset walk, the logs page, the audit page, the live stream, over a table that grows and is purged | the reader's position, and what it has been given |
| `StatsCache` | `statsCache`, `LogStats`, `LogTimeseries` | the map's entries by key, each request |
| `TrafficPages` | every figure of the dashboard and the log pages, along each path the code may choose | the log, the rollup, the clock; the pages are operators of the state |
| `SecondFactor` | enrolment, challenges, six-digit and recovery codes, `CheckTOTPRateLimit` | the users row, `ChallengeStore`, `totp_attempts`, each request |
| `Sessions` | `session.Create`, `Lookup`, `Touch`, `TimeoutCache`, `ForwardAuth` with its cache, logout | times left and ages of each |
| `SingleSignOn` | `OIDCConfigPut`, `OIDCProviderCache`, `StartAuth`, `HandleCallback`, `UpsertUserFromClaims` | settings by key, the cached provider, flows, users, each callback |
| `LoginLimiter` | `LoginRateLimiter` | failures by age, the ban, each login |
| `Routing` | the rules' handlers, `nextPriority`, `ReorderRules`, `Rule.Validate`, and the route list of one host with its gates | rule rows; rendering is operators of the state |
| `Certificates` | upload, delete, cascades, `ReconcileManualCerts` | the row, the two files, the host's mode, what Caddy loaded, each request |
| `ProbeCache` | `certprobe.Cache`, `RenewCert`, the reconcile's invalidation | the pass cached, the pass in flight, each caller |
| `DashboardCache` | `dashboard.Cache` and its refresher | per view the value's age and the load in flight |
| `Drift` | the settings' PATCH handlers, the whitelist, the sentinel files, `setup-appsec.sh`, the detector | `wanted`, `file`, `actual`: database, shared volume, CrowdSec |
| `HealthCrons` | `HealthCron`, `appsec.Health` | consecutive failures, the time of the last alarm |
| `LogWatcher` | `onWAFAudit`, `onCaddyAccess`, `onCaddyError` | the window of one address or host, a target's state |
| `AlertBursts` | `appsec.Provider.Alerts`, `detectBursts` | the LAPI's alerts, `since`, the last burst told |
| `Issuance` | the provider rows, their PUT, the legacy import, the host's check, the provider block | rows, master key, `.env` token, a host, each request |
| `Access` | `SecondFactor`, `Sessions`, `SingleSignOn` and `LoginLimiter` side by side, their parameters open | the variables of each; `part`; the properties of the run `access` |
| `Logs` | `LogRollup`, `LogReads`, `StatsCache` and `TrafficPages` side by side, their parameters open | the variables of each; `part`; the properties of the run `logs` |
| `Panel` | `Routing`, `Certificates`, `ProbeCache`, `DashboardCache`, `Drift`, `HealthCrons`, `LogWatcher`, `AlertBursts` and `Issuance` side by side, their parameters open | the variables of each; `part`; the properties of the run `panel`, and what its proofs assume of the parameters |
| `MC*` | instances for TLC | model values and seeds; `MCLogs`, `MCAccess` and `MCPanel` put several modules in one run |
| `*_proofs` | theorems and their proofs | |

Parts that share no state are checked in one run as alternatives: a variable `part`, chosen at the
start, names the module a behaviour belongs to, and the other modules' variables keep their initial
values. Nothing is lost by that, because the code does not couple them either, and each part is
explored exactly as it would be alone. `Logs`, `Access` and `Panel` state the properties of such a
run over parameters that are still open, so that the run checks an instance of the very formulas that
the theorems of `Logs_proofs`, `Access_proofs` and `Panel_proofs` are about. A theorem about one part
speaks of the behaviours of that part's specification, whatever `part` says.

One action stands for one SQLite statement (or transaction), one HTTP call or its answer, or one
file operation, because those are the points where another goroutine or the end of the process can
come in between. What a handler does after its last such step is part of that step. `map` in
`PROJECT.json` names the lines behind every definition.

**CaddySync.** A handler writes its row (`CreateHost` ... `ToggleRule`), then reads hosts, the
rules of each host, each target group and the settings, one query per action, builds the
configuration and posts it. `CaddyLoads` and `LoadOK` are separate, so that the answer can be lost.
`Cancelled` is the end of the request's context (the browser went away): nothing later in that
handler succeeds, not even `SetAppSecMode`'s restore. A disabled row is filtered by the query, not
by the renderer; the renderer does skip, with a warning, a host or a rule whose group it was not given
(`Build`). A configuration is, per host, the contents of the group behind its default route
and behind its forward rule, and the AppSec mode; the rest of `caddycfg` is text. Two histories,
`requests.overlap` (two handlers were under way at once) and `faults.harm` (Caddy or the request's
context got in the way), say when a behaviour has been `Serial`.

**CountryBans.** The list of a country's CIDRs is its length. A decision is counted, since the LAPI
takes a second copy. `Push` adds a chunk; `ChunkFails` stores any part of it. The only history
variable is `raced`, the countries where a revocation overlapped a job. `Faults` says which failures
an instance may meet; a lost clean-up (`unwind`), an unread look-up (`lookup`) and a stop of the
panel (`crash`) are left out where `NoDoubleStack` and `NoLeak` are checked, because the code keeps
neither promise after them (section 5).

**Notifications.** Time is a clock in minutes, and a token bucket is counted in whole tokens. A
dispatch keeps the clock of its start, as the code does. Sends run inline in the worker; a manual
retry is a second sender with its own copy of the row. `PushChannels` are the channels of the browser push,
whose sends may take for ever (`Pushing`); a channel's type is fixed when it is created.

**Backups.** A database is the contents it was saved with and the table of backups inside it, so
that a restore rewinds that table while the archives stay. A boot that cannot use the file it finds
makes an empty database. The history `shared` has the names that were given again while something
still stood under them (`Taken`): another goroutine, a row without its file, or a row in the table
of some snapshot. The last of these is a real mismatch of the code: an archive deleted and its name
given again within the same second are told apart by nobody once the snapshot that lists the first
is restored. The clock of names is the second; the size of `Names` bounds how many
distinct seconds there are.

**LogRollup.** Time is the number of the hour in progress, and a row is its id, its hour and whether it
still has its raw JSON; an hour of the rollup is its number of requests. Policy, clock and watermark are
read at the start of a purge, as in the code; every batch of a delete or a strip is a step, and so is the
write of the watermark after it. A fill goes hour by hour. A page reads the span, the closed hours and
the edges in three steps, and is followed unless a purge or a late row changes its closed hours; what it
owes is the number of the requests of its range (`Requests`). The histories `missed` (hours with a row
written after their last fill), `purged` (hours that lost rows or their rollup to a purge) and `overlap`
(two purges at the same time) name what the code makes no promise about.

**LogReads, StatsCache, TrafficPages.** A read of several statements is a step per statement, and
rows arrive (late ones too) and are purged in between. `held` is what was in the table all along, which
is what a walk owes its reader. A cached aggregate is the filter it was computed for and the age of
what it read. In `TrafficPages` nothing happens inside a page: `LogRollup` has the races, and
`TrafficPages` the arithmetic. Its figures by rows are the reference, and every other path (covering
index, rollup stitched to the rows of the two edges) is an operator compared with it for every window.

**SecondFactor, Sessions, SingleSignOn, LoginLimiter.** One user, one address, one token is enough for
what each promises, and requests are what overlaps. Codes, secrets and tokens are identities; a
ciphertext is the identity of its writing, which is what the compare-and-swap compares. Clocks are ages
and times left, so they run on for ever. The histories (`spent`, `confirmed`, `accepted`, `refused`,
`slipped`) say what no row remembers; `refused` has the sessions that a look-up turned away or whose
touch failed, `overtaken` the enrolment requests behind whose back another has written, and `blind` the
secrets such a request switched on. A statement may fail where the code ignores it and goes on: the
DELETE of a logout, the UPDATE of a touch, the reading of the timeouts, both limiters' counts, each
with a bound on how often (`MaxDisturbances`, `MaxUncounted`, `MaxUnread`).

**Routing.** A rule is a priority, a switch, a list of matchers and what it does. The rendered route list
is walked the way Caddy walks one: gates in order, then the first route whose matchers all hold.
`FirstRuleWins` compares that with the rules themselves. Matchers of one field are folded as
`translateMatchers` folds them.

**Certificates.** A certificate is the number of its upload, so a pair matches when the numbers agree.
Each rename and each statement is a step, and each may fail: a statement, a write or a removal of a file, the
load at the end, which the handlers only log (`ReconcileFails`), the row's delete in a cascade, which goes on
(`DeleteRowFails`), and at boot the list of the rows, the decryption and both writes (`Unrestorable`,
`RestoreCert`, `RestoreKey`). `disturbed` says whether such a fault, a crash or a lost volume came since an
upload or a removal last did all of its work.

**ProbeCache, DashboardCache.** What a pass saw, or how old a value is, stands for the value. Time passes
only when no goroutine could run; what the loads of a round take is bounded by `Slack`.

**Drift.** Three topics (disabled scenarios, thresholds, whitelist) go through the same four places:
database, a request's copy, file, CrowdSec. A setting that cannot be read is its default, a threshold that
cannot be stored is dropped and the file written all the same (`LoseThreshold`), a verdict that cannot be
stored is the one before, and a removal that fails in the script is passed over. `crossed` names the topics
whose last request failed somewhere or was not alone, `calm` and `settled` are off when the detector's pass or
the script's run was disturbed or had such a failure: of these the code promises nothing.

**HealthCrons, LogWatcher, AlertBursts.** Sources of events: what matters is when they fire. The
histories count what should have been told. A list of times, in `LogWatcher` and `AlertBursts`, is a
set of ages with a number each (of two lines of one age the number tells which is which): only how many
there are of which age is ever looked at. Entries beyond the window, which the code drops before it
counts, are alike. A fetch of `AlertBursts` is two steps, because the LAPI answers over HTTP: the scan
reads alerts of a moment before its own time.

**Issuance.** A stored blob is a key and a set of fields, so that decryption with another key fails. The
PUT reads the row twice and writes once, as three steps.

## 3. The runs

| Run | Question | Result |
|---|---|---|
| `sync` | Part "serial": one operator at a time, panel crashes: is every finished change live (`SerialSynced`), does the reconciler implement `DesiredState` (`SerialImplements`)? Part "race": two concurrent handlers, each kind of fault: is an unovertaken push one cut of the tables (`FreshPush`), does every host and forward rule that a reconcile listed reach what it posts (`NoHostVanishes`), does every request end (`RequestsEnd`)? | holds |
| `country_jobs` | Three jobs, a revocation, every failure but a crash: `NoDoubleStack`, `NoLeak` | holds |
| `country_live` | Jobs, two revocations, crashes: `EveryJobEnds`, `CompletedIsTracked`, `VerdictConverges` | holds |
| `find_leak` | A revocation while a job of the country runs: is every decision tracked? | violated |
| `notif` | Parts "flow" and "push" (whose sends may never return): failing sends, a manual retry, changes of the configuration, a purge, a restart: `FailedWasTried`, `SentUnlessRetried`, `FlowDrains`. Part "rate": `LimitsHold` (`RateBound`, `ThrottleSpacing`) over time | holds |
| `backup_create` | The scheduler, an operator, a deletion, a crash: `RowsMatchFiles` (`RowVouches`, `RowsHaveFiles`), `KeepsOne` | holds |
| `backup_restore` | Two restores, an upload, unknown versions, failed copies, crashes at every step: `BootServes`, `FlagIsFresh`, `NoDowngrade`, `RestoreLands` | holds |
| `find_restore` | The copy fails at boot: is the live database used as it is? | violated |
| `logs` | Four parts. Store: closed hours are exact, a page counts each row once, the strip skips no row (`StoreIsSound`); the cap deletes no more than the excess, and the rollup stays (`PurgesKeep`); in the end every hour is counted (`HoursCounted`). Reads: export, logs page in either order, audit page and stream give each row that was there throughout, export and stream none twice (`WalksAreExact`). Cache: an aggregate is of the window asked for, and recent (`AnswersFit`). Pages: all paths to a figure agree with the rows (`FiguresAgree`) | holds |
| `find_stats` | Is a cached aggregate of the filter that was asked for? | violated |
| `access` | Four parts. A recovery code opens one session and does not come back (`CodesAreSpentOnce`), what is enabled was confirmed unless the activation was overtaken (`EnabledIsConfirmed`), and it is turned off by a disable, or by a setup that was overtaken (`OnlyDisableTurnsOff`). Wrong codes are bounded by the limit, the requests in flight and the failed look-ups, and a consumed challenge is not good again (`GuessesBounded`). A session ends at its expiry and not while it is used, a logout whose row went is seen at once but for look-ups in progress, and a ban holds unless the query that seeds it fails or the panel restarts (`SessionsAndBansHold`). One row per identity, a session is its owner's, a flow is used once, the provider is that of the settings read (`SignOnIsOwn`) | holds |
| `panel` | Nine parts: `Routing` (`RulesHold`), `Certificates` (`CertsHold`), `ProbeCache` (`ProbesAreFresh`, `CallsReturn`), `DashboardCache` (`ViewsAreFresh`), `Drift` (`SentinelsAgree`), `HealthCrons`, `LogWatcher` and `AlertBursts` (`AlarmsAreRaised`), `Issuance` (`CredentialsThere`) | holds |

What one module promises about one subject is one property of its run, the conjunction of the named
invariants of that module (its type invariant among them); TLC's counterexample says which part
failed. Every property of a passing run is broken by the mutant of the code that `PROJECT.json` names
for it, defined beside the definition that it changes. The type invariants of `CaddySync`,
`CountryBans`, `Notifications` and `Backups` are theorems (section 4) and are not checked again.

### 3.1 Bounds, and why they are enough

* **CaddySync**: two handlers are what it takes for an overlap, and the boot is a third process;
  one host, two groups in the serial part, so that an update really moves a host, and one in the
  other; four or five requests allow create, rule, delete and one more around them; one fault at a
  time, of each kind.
* **CountryBans**: three CIDRs in chunks of two make a full and a short chunk, so that a job can
  stop between them. `country_jobs` has three jobs and one revocation over two countries, so that a
  job can follow a failed one and stand beside a job of the other country; `country_live` has two
  jobs and two revocations of one country. Both meet two faults.
* **Notifications**: one rule on one channel, whose rows differ from one initial state to the next
  (with a window or without, for one host or all, enabled or not; limited, unlimited, failing,
  off). The flow and the push part have a queue of one, two events, two attempts, one manual retry, one change of
  the configuration and one restart; the rate part a queue of two, four events and a clock that
  reaches the sweeper's age. `RateBound` needs a rate above one to be more than
  `Allow`'s own test; windows up to the sweeper's age are the boundary at which a sweep could
  forget a window that still counts.
* **Backups**: a name is a second and the first suffix found free, so that two creations of the same
  second may pick the same one.
  `backup_create` has three seconds, the scheduler, one operator and one deletion, and three
  creations; `backup_restore` two seconds, two restores, one creation and two faults, so that a boot
  can die while it recovers from an earlier crash. The upload is newer than the panel, and a fault may hide
  its version from `Apply`.
* **LogRollup**: three hour boundaries, because a row must be old enough for the strip, then for the
  age purge, while a newer hour is filled; three rows against a cap of two make an excess and gaps
  in the ids; a strip batch of one cuts an hour's rows in two, a page covers two closed hours. One
  disturbance, of any kind: a lost batch, a failed statement, a stop, or an operator's purge beside
  the janitor's work.
* **LogReads**: five rows of two timestamps, two to a page: three pages with a tie across two of them,
  and an export of more rows than its limit; the logs page in both orders. What a statement returns is stated by rank (so many of the
  matching rows are older, or have a larger id), which is `ORDER BY` with `LIMIT` and `OFFSET`.
  **StatsCache**: two windows, two kinds of aggregate and a map of two, so that the map is at its limit.
  **TrafficPages**: hours of two ticks, two closed and a third begun, so that a window has closed hours,
  edges on both sides and either alone; three rows out of a kind that passed, one refused, one of no
  known host, and a row of the WAF's audit log.
* **SecondFactor**: two requests, two codes in a set, six starts, one restart; the limit is one
  failure, the compare-and-swap is tried twice, as often as two requests can disturb it. One
  look-up of the limit may fail. **Sessions**: two requests of one token; one disturbance, which is an
  edit of the settings, a failed statement or a restart; the
  second pair of timeouts has the idle one above the absolute one, and the third has the first's absolute
  timeout with a longer idle one, so that the idle timeout alone can be raised. **SingleSignOn**: two callbacks,
  two identities that want the same name, which a local user may have; one disturbance.
  **LoginLimiter**: a ban that outlasts the window, two logins at a time, one restart,
  one failed count.
* **Routing**: three rules, priorities on both sides of the bound of the API, four kinds of body (a
  rule without a working matcher among them) and requests that differ in every attribute a gate or a
  matcher looks at; four changes.
* **Certificates**: one request at a time, four requests, three faults out of crash, lost volume,
  failed decryption, statement, write, removal and load.
* **ProbeCache**, **DashboardCache**: two callers, two sets of domains or a pinned and another view, and
  ages up to where the code no longer tells them apart; the refresher's interval is four fifths of the
  TTL (rounded down), as in the code. The TTL is six units, so that the interval is four and leaves one for the
  loads of the boot and one for those of a round; a view is too old after seven.
* **Drift**: two requests of two changes, one fault (a failed read, statement, write or removal, a stop, a volume that goes away).
  **HealthCrons**: quiet and interval in units of the 30 s tick, scaled down together; two restarts or
  changes of the mode. **LogWatcher**: a line more than the threshold and one restart. **AlertBursts**:
  twice as many alerts as make a burst, so that a second burst follows one that was told; a fetch takes up to a
  tick, half the window; one restart.
* **Issuance**: two providers, one with an optional field; two keys, three requests or restarts.
* `MaxRequests`, `MaxFaults`, `MaxAttempts` and their like cap counters in guards. Since requests,
  events and time run out, a finished run has no next step, and all configurations but those of
  `CountryBans` say `CHECK_DEADLOCK FALSE`; the liveness properties say that the system does not
  stop earlier. In `CountryBans` the reconciler always has a next tick, and TLC checks it for
  deadlock.

### 3.2 Fairness, and why the code justifies it

* A started request goes on (`WF` of each process's own steps): the Go scheduler runs it, the HTTP
  client gives up after 10 s, and every error path returns. Nothing is assumed about Caddy or about
  the operator.
* Weak fairness of each job's own step (the goroutine runs as soon as it gets the mutex, which a
  finished job releases), of the boot, and of the reconciler's tick (a ticker).
* Weak fairness of the notification worker and of a retry's goroutine, except while a push is being sent:
  the webhook's and Telegram's clients give up after 10 s and go-mail after its own timeout, but `push.go`
  passes `webpush` no client, and the worker's context has no deadline. `QueueDrains` therefore assumes that
  no push is left unanswered for ever, and nothing of the others.
* In `ProbeCache`, weak fairness of the probes (each has a timeout) and of the caller's own look-up and
  return, which the mutex and the closed channel release.
* In `LogRollup`, weak fairness of the retention goroutine; strong fairness of `StartFill`, since the
  `select` of `retentionLoop` chooses at random among the timers that are due; and weak fairness of
  the container's restart. Nothing is assumed of the writer or of the faults.
* In `Backups`, weak fairness of the exit after a restore and of the boot, which is the container's
  restart policy. Nothing makes an operator act or a crash happen.

## 4. The proofs

TLAPS proves the following for every value of the constants that satisfies the named assumption of
the module, with no bound on requests, faults, jobs or backups.

* `CaddySync_proofs`: `TypeCorrect`; `FreshPushHolds`, from the invariant `FreshInv`;
  `NoHostVanishesHolds`, from `HydratedInv`. `FreshPush` speaks of the moment of the post and is not
  inductive: `FreshInv` adds, for each reconcile that no write has overtaken, that what it has read
  so far equals the tables and that the groups it still owes are in `need`. `HydratedInv` adds that
  each host and each forward rule of a snapshot has its group read or still to be read, which is why a
  vanished group makes the reconcile fail before the renderer could skip the host.
  `SerialSyncedHolds` and `SerialImplementsHolds` are about one operator at a time: a finished
  change is live, and every step of such a behaviour is a step of `DesiredState` or leaves both
  sides alone. They rest on `Undisturbed` (of the processes one at most is not idle, nothing is on
  its way to Caddy but the configuration of a reconcile that nobody overtook, and who gives up has
  found a group gone), on `NeedInv` and `Referenced` (a group that a fresh reconcile wants is wanted
  by an enabled row, and hosts' groups exist, so that only a forward rule can want a group that is
  gone) and on `Settled`. `SerialSyncedHolds` has a hypothesis, `Seed.bouncer = KeySet`: a panel
  that is wired for the first time writes a setting after its boot reconcile (section 5). The run's
  instance satisfies it.
* `CountryBans_proofs`: `TypeCorrect`; `NoDoubleStackHolds` and `NoLeakHolds`, from `LedgerInv`,
  which accounts for every decision in the LAPI: at each position of the worker it says how many
  copies of each CIDR there can be, given what was purged and pushed so far. The theorems hold for
  any list and chunk size. Their assumptions say that `crash`, `lookup` and `unwind` are not in
  `Faults`, and the properties exempt the countries in `raced`; every other failure may happen any
  number of times.
* `Backups_proofs`: `TypeCorrect`; `FlagIsFreshHolds`; `BootServesHolds`. The invariant `IInv` is
  `SafeInv /\ RestoreInv`. `SafeInv` has the types, that every archive, payload and database in
  sight carries contents that existed (`KnownData`, `KnownProc`), and that the boot sequence is
  alone while it runs (`BootInv`); `RestoreInv` ties the flag, the payload and the live database
  together at each step of `ApplyPending`, so that a crash after any of them leads back to a state
  from which the same promise is kept. `NoDowngradeHolds` adds `AgeInv`: the live database, the
  archive that was promised and the one about to be are no newer than the panel, since `Apply`
  refuses one newer than the database and the boot copies only what was promised. Both hold unless
  `waived`: an archive without a version, or a database whose version could not be read, is not compared.
  `RowsMatchFilesHolds`, for the names outside `shared`, from `FilesInv`: an inode is found or
  written under one name (`InodesInv`); whoever makes a backup has its name for itself, and no table
  lists it yet (`MakingInv`); whoever deletes one has the id of the row that is there (`DeletingInv`);
  and the rows of the live table vouch for the files, and so do those of every snapshot
  (`VouchInv`), since a restore may bring any of them back.
  `KeepsOneHolds`: while the purge is the only one that deletes and `shared` is empty, it never takes
  the newest backup that has an archive. `KeepInv` has, at each step of the purge, that a row without
  its archive is not the newest of the rows that have one, and that a row newer than all that the
  purge is about to delete still has its archive. That there is a newest row at all is a lemma, a
  minimal element of a finite set.
* `Notifications_proofs`: `TypeCorrect`; `FailedWasTriedHolds`, from `TypeOK` strengthened with what
  a sending loop has counted; `SentUnlessRetriedHolds` (an action property), from `RowsInv` (ids go
  up, a suppressed delivery is nobody's) and `SentInv` (without a retry by hand only the worker
  sends, and what it sends is still pending). `RateBoundHolds`: `RateInv` has each bucket account
  for the deliveries it let pass, the tokens it holds and what was refilled since, for every run of
  deliveries up to now, so that a burst across a refill is bounded too. `ThrottleSpacingHolds`, while
  the configuration and the process last: `ThrottleInv` says that the map remembers every delivery
  whose window still counts, the sweeper included, and that a copy of a rule in flight is the row.
  `LimitsHoldHolds` is the two together, the property of the run.
* `Logs_proofs`: `StoreIsSoundHolds` and `PurgesKeepHolds` (an action property), for any number of hours,
  of purges at the same time, and any cap and batch. `IInv` has seven parts: the types; the table (ids
  are keys, and what waits to be written is of this hour or the last); the watermark (what is before it
  is stripped, what will come is not); the same for the cursor of each purge; the rollup (an hour it has
  passed is counted exactly, one it has not is never over-counted); the page that is followed (what it
  has added up are the rows of its hours); the cap (while one purge runs, what it has yet to delete is
  over the cap). An `ORDER BY ... LIMIT` is a set of first rows, whose properties are lemmas over finite
  sets; the excess over the cap is counted by a bijection between rows and the span of their ids.
  `WalksAreExactHolds`, for any number of rows, pages and limits, from `ReadsInv`, one part for each
  reader: nothing the export has given is past its cursor, and a row that was there all along has been
  given or is still past it (`ExportInv`); such a row, not yet shown, has at least as many before it in the order
  of the page as the offset (`ListInv`; oldest first, while no purge has taken one of them), or as many larger ids (`AuditInv`); and the stream has given all that
  came up to its cursor (`StreamInv`). The rank of a row in a set is a bijection with an interval, and
  rows that arrive or go move it the safe way. `AnswersFitHolds`, from `StatsInv`: an entry of the map is
  of its key's window, and what it read is older than the entry by a computation at most.
  `ReadsAssumption` and `StatsAssumption` ask for bounds that are numbers.
* `SingleSignOn_proofs`: `TypeCorrect`, `OneRowEachHolds`, `SessionIsOwnHolds`,
  `FlowIsSingleUseHolds`, `ProviderMatchesHolds`, for any number of callbacks, identities and settings.
  `FlowIsSingleUse` counts: the sign-ins of a flow and the callbacks that still hold it are together no
  more than the callbacks (`FlowInv`), because nobody is past the flow's removal while it can still be
  found. The module is only ever an instance, where an `ASSUME` of its own would not be evaluated, so
  what the theorems need of the parameters is their hypothesis `Parameters`; `Access` assumes it
  (`SignOnAssumption`), and TLC evaluates it for the instance that is checked.
* `Access_proofs`: `CodesAreSpentOnceHolds`, from `OnceInv`. A redemption swaps the whole list
  of codes against the text it read; `SwapInv` says that a text that still matches holds the codes
  that were read, because every write has an identity of its own, and `SpentInv` that a redeemed code
  is neither in the list nor held by a session or by another request that can still win its swap.
  `EnabledIsConfirmedHolds` and `OnlyDisableTurnsOffHolds`, from `EnrolInv`: what an enrolment request
  read of the row (off, before a setup's UPDATE; a checked secret, before an activation's) is still so
  when it writes, unless another request has written meanwhile and it is in `overtaken`. Requests
  overlap freely.
  `GuessesBoundedHolds` counts. `LimitInv`: the failures of the window and the requests past the
  limiter together are fewer than the limit, the requests and the look-ups that failed (`uncounted`),
  since whoever is let through otherwise saw fewer failures than the limit. `BoundInv`, of each challenge: as long as it can be found, each session
  it opened has a request that has yet to consume it, so that those who find it now, with those
  sessions, are no more than the requests.
  `SignOnIsOwnHolds` is the theorem of `SingleSignOn_proofs` for the property of the run.
  `SessionsAndBansHoldHolds` is about two machines. Of the clocks, `ClockInv`: a row's expiry is the
  one it was created with, and the row is gone before its logout is done (`RowFits`); whatever lets a
  request through (the cached verdict, a look-up in flight, the last answer) was found by a look-up no
  older than the request or than that verdict (`VerdictFits`, `CacheFits`, `FlightFits`, `LastFits`).
  A session in use is therefore touched at least every `Lag`, the throttle, the cache's life and the
  longest request together, and what a logout lets pass is older than the logout. Of the limiter,
  `TriesInv` counts the failures of the window and the logins past the check together, and `BanInv` says
  that the entry in memory lasts at least as long as the lockout it was seeded for, unless the lockout is
  `weak` (its seeding query failed, or the panel has restarted since); a later query cannot end it,
  because none is made while the entry is there.
  `ClockAssumption` has every timeout below the horizon up to which ages are told apart, and
  `LimiterAssumption` has finitely many logins.
* `Panel_proofs`, of the parts of the run `panel`: `ProbesAreFreshHolds`, from `ProbesInv`: there is one
  leader at most, a stored pass is no older than its age says, and it and the pass in flight saw nothing
  older than `floor`, because the cache is empty and no pass is in flight when `floor` rises.
  `ViewsAreFreshHolds`, from `DashInv`: a pinned view is as old as the time since the round that loaded
  it: the interval, what that round took and what this one has taken (`PinnedFits`); a load in flight is
  younger than the value it replaces (`LoadFits`); and a caller finds what has landed since it came
  (`AskFits`). `DashAssumption` says what that needs of the refresher (section 5). `CertsHoldHolds` and
  `BootRestoresHolds`, from `CertInv`: what the boot has put back so far (`CertBase`), and, of a request
  that is alone, what it finds at each of its steps (`JobFits`). The boot's promise holds for any
  requests; that row, files, mode and what is served agree at rest holds when requests do not overlap (`~Overlap`,
  `OneAtATime`), of which nothing in the code makes sure and which the run supposes as well. Each failure is a
  step of the proof: `Agree` promises nothing while one has not been made good, and an upload or a removal that
  does all of its work makes it good, whatever it finds.
  `SentinelsAgreeHolds`, from `DriftInv`: `FileInv` ties the settings, the file and the copy of a request
  that is alone with its topic, `DetectorInv` what a calm pass has read so far, `ScriptInv` what the
  script has done so far; a request, a pass or a run in which something failed is not `sound`, `calm` or
  `settled`, and the three say nothing of it. `CredentialsThereHolds`, from `IssueInv`: what is stored of a provider has all
  it requires, and so has what a request is about to store; what is stored is never taken away, so that a
  request that only switches a provider on may rely on what it saw; and a host that was saved, or is
  about to be, can be rendered as long as nothing it was checked against has changed (`sound`).
  `AlarmsAreRaisedHolds`, from three invariants. `CronsInv`: what fails alone and was not told about has
  failed no longer than the last alarm is old, and that is no more than the quiet; an alarm about AppSec
  is as old as the probes since, so that it never stands in the way of the next outage's, given that the
  minute without a second alarm is shorter than two intervals of five (`AlarmsAssumption`). `WatchInv`:
  of the lines of the last window, those in the list are exactly those that no alarm has counted.
  `BurstsInv` is types and the bound on a fetch's time, `seen <= since + MaxFetch`: with it a burst that
  is due lies entirely within what the scan considers (`DueIsConsidered`), whatever happened before.
  `AlarmsAssumption` has fetches shorter than the window (the LAPI client's timeout is 10 s, the window 60 s).

Only model-checked: everything temporal beyond `[]` and `[][A]_v` (`RequestsEnd`, `EveryJobEnds`,
`VerdictConverges`, `FlowDrains`, `RestoreLands`, `HoursCounted`, `CallsReturn`: liveness needs
fairness, which the prover does not reason about here); `RulesHold`, whose rendered list is folded from
sequences, and `FiguresAgree`, whose figures are sums; and the three properties that the code breaks.
The prover cannot instantiate a theorem of induction, whose parameter is an operator; where an induction
over a finite set or the naturals was needed (a least row, a first gap) the proof takes a minimal
element of a well-founded relation instead. What a fold or a recursive function computes is left to TLC.

## 5. Where code and documents disagree

Shown by a run:

* `find_leak`: a revocation during a job of the same country leaves decisions that no row tracks.
* `find_restore`: the comment in `main` says that the live database is used as it is when a restore
  fails; it has been removed by then.
* `find_stats`: "parseLogFilter decodes the shared query-string filter used by every /api/logs
  endpoint", but the key under which an aggregate is cached leaves out the filter's WAF rule ids and
  severity, so for a few seconds one filter is answered with another one's figures.

Met while modelling, and in the models without a run of their own:

* "The reconciler turns them into a Caddy config every time a row changes", but reconciles are not
  serialised, and of two at once the older configuration may be the last one loaded. `SerialSynced`
  is therefore stated of one handler at a time.
* `SetAppSecMode` promises that the stored mode and the served one never disagree. When the load
  takes effect and only its answer is lost, the rollback makes them disagree (`AnswerLost`,
  `Rollback`); a cancelled request cannot roll back at all (`Cancelled`).
* `main` says that wiring the CrowdSec bouncer triggers an immediate reconcile; on the first boot
  the setting is written after the boot's reconcile and nothing follows (`WireCrowdSec`).
* `DeleteTargetGroup` counts the hosts of a group and not the forward rules: a group that only such
  a rule uses can be deleted, and every later reconcile fails (`HydrateFails`).
* `logs.rollup_days` is how long `log_hourly` keeps closed hours, but each fill starts at the newest
  hour again: when a purge has taken rows of that hour, the fill lowers or erases it, and with it
  gone the next run does the same to the hour before. On a panel without new rows the rollup thus
  goes with the rows. `ClosedHoursExact` and `RollupKeeps` exempt the hours in `purged`.
* The comments of `retention.go` and `rollup.go` say that the rollup never overlaps a purge; an
  operator's purge (`POST /api/logs/purge`) takes no part in that. Two purges at the same time each
  delete the whole excess over the cap: `OnlyExcessGoes` exempts `overlap`.
* A row that is written after the rollup has passed its hour is never counted (`missed`).
* `Ingestor.Close` "flushes any pending rows", but the writer may choose its cancelled context over
  the entries still in the channel (`PanelStops`).
* `docs/features/reverse-proxy.md` reads as if Caddy kept its configuration; its container starts
  from the Caddyfile, and nobody pushes until the next change (`CaddyStarts`).
* When the panel stops in the middle of an expansion, the next job of that country finds no row,
  skips its purge, and stacks a second copy; when a re-expansion fails after its purge, the old row
  stays although its decisions are gone.
* A delivery that was sent can be retried by hand and is then sent again; `Emitter.Close` discards
  what is still queued. "One runaway channel cannot block another by itself" (`notifications/worker.go`, 21 to
  23), but the one worker sends and waits inline: a dead channel delays every other by its attempts, and a push
  service that accepts the connection and never answers stops the worker until the panel restarts
  (`Pushing`, exempt from `QueueDrains`).
* Two backups of the same second share one `.partial` file; `docs/features/backups.md` says that
  leftovers of a crash are cleaned up at boot, while the boot only skips them. "Downgrade blocked"
  (`internal/backup/manager.go`, `Prepare`) is so only where both versions are known: metadata without a
  `schema_version` is let through, and `currentSchema` ignores the error of its query, which leaves nothing to
  compare with (`ApplyUnknown`; `NoDowngrade` exempts `waived`).
* Logs: the export's cap (`ARCHITECTURE.md`, "100k filas max") is counted before the walk, and rows that
  arrive meanwhile can pass it; an error in the middle of the walk ends a file whose status was 200.
  By `order=asc` the logs page reads by `OFFSET` from the oldest row on: a purge between two pages moves the
  rest under the offset, and as many rows are passed over (`ListIsComplete` exempts just that); in any
  order of the logs or the audit page a row that came meanwhile can push another onto the next page again.
  The audit page counts before it reads, and two lists skip rows when their sources have different
  retentions. `computeStatsLong` takes "status >= 100" for access rows, which rows of the WAF's audit
  log have too; the index path counts every source. `percentileIndex` is one rank above the nearest rank when
  p*n is a multiple of 100. The row path leaves out durations of 0, the histogram counts them. A whole
  hour as the upper end leaves out a row of that instant on the rollup's path. Each property of
  `TrafficPages` says which paths it compares, and under which of these conditions.
* Sign-in: the ban's
  comment has it hold across a restart; after one it lasts only while five failures are in the
  window. Two overlapping enrolments of one user can enable a
  secret that was not the one confirmed: `ActivateTOTP` sets the flag of whatever secret the row then
  has. `TOTPSetup` says that "Re-running /setup AFTER /activate is rejected" (`internal/api/totp.go`,
  39 to 40), but a setup that read the flag before the activation turns the factor off again, since the UPDATE
  of `SetUserTOTP` looks at nothing (`overtaken` has both, and the two properties exempt no other).
  `Logout` ignores the error of its DELETE: it answers 204, clears the cookie and leaves the session's
  row good for whoever still has the token (`LogoutFails`). Both limiters let a request through when they
  cannot count (`CheckUnread`, `CountFails`), and a failed count after the last failure leaves the ban
  unseeded (`RecordUnread`). A failed touch is ignored, and settings that cannot be read are the defaults
  for as long as they are kept (`TouchFails`, `ReadFails`). A request
  whose second look-up in `ForwardAuth` finds the session idle still goes on and its verdict is cached,
  but nothing is touched: when the idle timeout is raised afterwards, the session is found again with an
  old last-seen time. `KeptAlive` therefore speaks of sessions that no look-up has refused and
  whose touches succeeded.
* Rules: an automatic priority may pass 50000, the bound `Rule.Validate` and migration 007 name, since it is
  picked after the check; two creations without a priority may pick the same one, and the index
  refuses the second; `ReorderRules` takes an id twice, although its comment asks for the exact set.
  Matchers of one field are or-ed, and of two regular expressions for one header the last is kept.
  A redirect's `strip_query` and a target's weight are never rendered.
* Certificates: a crash between the two renames of an upload over an older pair leaves halves of two
  uploads, and the boot repairs only what is missing, while the comment of `Store.Write` says that
  "a partial write never leaves Caddy with a half-updated pair". Deleting a host leaves its files.
  What fails on the way is often logged and answered with 200: the load after any change, the delete of the row
  and of the files when an update takes a host out of `manual`, so that the mode says `auto` while the row and
  the served pair stay (`DeleteRowFails`, `ReconcileFails`); at boot, a list, a decryption or a write that
  fails, after which the configuration names files that are not there (`Unrestorable`). A removal by
  `DELETE /api/manual-certs` deletes row and files before it reverts the mode: when that statement fails, the
  host stays `manual` without a certificate, and the delete cannot be repeated (`UpdateHostFails`).
* Caches: `RenewCert` invalidates before it applies; failures of a leader that left are cached as if
  fresh; a pass in flight survives an invalidation (`ChangeIsSeen` speaks of passes begun after it).
  The comment of `WarmInterval` counts only the pinned views' loads in a round. It says that "the whole
  pinned set may take up to TTL/5 to reload serially before any value ages past its TTL"
  (`internal/dashboard/cache.go`, 198 to 200); the proof shows that this is not so of the first interval,
  since the views loaded first at boot age while the others load: the boot's loads, `WarmInterval` and a
  round's loads together have to fit into the TTL, so a round may take a tenth of it. The operator's rule
  in `internal/api/dashboard.go` (the sum below 3 s of 30 s) is just that, and `DashAssumption` says so.
  A load that fails after `MaxStale` hands whoever waits the too-old value without an error.
* Sentinel files: "Failure here surfaces to the operator" (`internal/api/security_scenarios.go`, 134 to 136), but
  without the shared directory nothing is written, nil is returned and the answer is 200 (`Fail`). After a failed
  write the same request finds nothing to change and cannot repair it; two crossing requests leave file and
  database apart; a threshold that could not be stored is written to the file and answered with 200
  (`LoseThreshold`), and one that could not be read goes there as its default (`ReadTuning`). `crossed` exempts
  all of these. The script force-reinstalls the installed collections, which links a scenario that was enabled
  again, but it drops the errors of that and of each removal, so that a run can leave more or fewer scenarios
  than the file says (`Setup`, `RemoveScenarios`); a removal that failed is drift which the next pass shows. A
  verdict that cannot be stored is only a warning, and the page goes on with the one before.
* Alerts: `SetNotifier` says that a restart does not notify history again, but the first scan looks a
  burst window further back. `detectBursts` says that alerts since the last scan and a window before are
  considered and that `lastBurst` de-duplicates, but it breaks off at the first burst it finds: as long as one it
  has told is still considered, a second burst of the address is passed over and may never be told, and of two
  new ones only the first is. A burst as long as the window that ends while the LAPI answers is lost too: the
  next scan goes back a window from the answer, not from what the answer showed. `ScansTell` exempts just
  these. The comment on `Health` counts a 5xx answer of AppSec as unreachable
  (`internal/appsec/healthcheck.go`, 33 to 35); `ping` takes any answer but 404 as reachable, and `HealthCrons`
  follows the code.
* DNS providers: "a caller sending the full credentials map without the sentinel replaces everything",
  but the fields are merged into the stored ones, so that an optional field that is left out stays.
  Two overlapping PUTs lose one update. A provider that hosts use can be switched off. `DeleteManualCert` reverts
  its host to `auto` by an `UpdateHost` of its own, without `validateDNSProvider` (`internal/api/manual_certs.go`,
  264 to 265): a host whose challenge provider is not ready by then cannot be rendered, and `CredentialsThere`
  speaks of hosts saved by their own handlers. The proof of
  `CredentialsThere` also asked for the save of a host that is under way when the panel restarts: its
  check is as old as the process, and `sound` takes it into account.

## 6. What is left out, and why

* Text: WAF directives, templates, headers, archives' encoding. The models keep what their properties
  tell apart.
* SQLite errors in `Notifications` (each statement there succeeds), and Caddy's own files in
  `Backups` (an archive is its database).
* Frontend, containers and scripts: clients and environment. Caddy's and CrowdSec's answers,
  restarts and delays are actions of the models.
* The parts that `PROJECT.json` lists as `not_modelled`, each with its reason or its place in the
  plan.

## 7. Plan

In order of what the panel's users depend on:

1. Proofs: what `Routing` renders and what `TrafficPages` adds up, once there is a way to reason
   about folds; until then, TLC's enumeration of small lists.
2. `ConfigTransfer`: export and import, whose merge rules decide what a second import changes.
3. `GeoIP` (a reader swapped under a lock, an LRU of look-ups) and `TargetHealth`, which have the shape
   of `ProbeCache`; the drift check of `LogRollup`; the certificate and detect-mode sweeps.
4. The renderer's remaining handlers (rate limits, header rules, health checks), where their order
   among the gates matters.
