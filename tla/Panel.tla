------------------------------- MODULE Panel -------------------------------
(***************************************************************************)
(* The panel's smaller parts: the rules of a host (Routing), the uploaded  *)
(* certificate (Certificates), the cache of probes (ProbeCache), the       *)
(* dashboard's (DashboardCache), the AppSec sentinels (Drift), the sources *)
(* of alarms (HealthCrons, LogWatcher, AlertBursts) and the DNS providers  *)
(* (Issuance).  They share no state: part says which of them a behaviour   *)
(* is about.                                                               *)
(***************************************************************************)
EXTENDS Routing

CONSTANTS
    Uploaders, Overlap, CertFaults, MaxStarts, MaxFaults,       \* of the certificate
    DomainSets, PassTTL, PassTime, MaxLive,                     \* of the probes
    Pinned, Unpinned, ViewTTL, MaxStale, LoadTime, Slack, MaxFails, \* of the dashboard
    Scenarios, Thresholds, Default, Entries, MaxPatches, MaxUpsets, \* of the sentinels
    QuietTime, Interval, Flutter, MaxDisturbances,                  \* of the crons
    WafWindow, WafThresh, RateWindow, RateThresh, MaxLines, MaxRestarts, \* of the watcher
    BurstWindow, BurstThresh, FetchTTL, MaxFetch, MaxAlerts, MaxReboots, \* of the bursts
    Keys, Values, MaxPuts                                       \* of the providers

VARIABLES
    part,
    crtHost, crtRow, crt, crtKey, served, boot, upload, disturbed, starts, faults,
    hosts, live, admin, cache, inflight, call, floor,
    entry, load, ask, due, at, timer, spent, failed,
    settings, file, actual, mounted, shown, detector, script, patch, crossed, calm, settled,
    patches, upsets,
    misses, emitted, alone, told, mode, next, lastUp, alarmed, alarms, disturbances,
    kind, window, lines, counted, fired, target, restarts,
    alerts, asked, since, fetched, lastBurst, seen, missed, reboots,
    providers, env, master, saved, work, sound, puts

\* No value is None, and a lifetime is a number of units.
Pass == [set: DomainSets, saw: Nat \cup {None}, age: Nat]
ASSUME ProbesAssumption ==
    /\ PassTTL \in Nat /\ PassTime \in Nat /\ MaxLive \in Nat
    /\ None \notin DomainSets \cup Nat \cup Pass

Certs == INSTANCE Certificates WITH
    host <- crtHost, row <- crtRow, key <- crtKey, request <- upload,
    Requests <- Uploaders, Faults <- CertFaults

Probes == INSTANCE ProbeCache WITH
    Sets <- DomainSets, TTL <- PassTTL, MaxChanges <- MaxLive

Dash == INSTANCE DashboardCache WITH
    fails <- failed, Others <- Unpinned, TTL <- ViewTTL

Drifts == INSTANCE Drift WITH
    wanted <- settings, request <- patch, changes <- patches, faults <- upsets,
    Requests <- Callers, MaxChanges <- MaxPatches, MaxFaults <- MaxUpsets

Crons == INSTANCE HealthCrons WITH fails <- misses, Quiet <- QuietTime

Watch == INSTANCE LogWatcher

Bursts == INSTANCE AlertBursts WITH
    restarts <- reboots, Window <- BurstWindow, Thresh <- BurstThresh, MaxRestarts <- MaxReboots

Issue == INSTANCE Issuance WITH
    rows <- providers, key <- master, host <- saved, changes <- puts, MaxChanges <- MaxPuts

\* A view is pinned or is not.  The boot's loads, an interval and a round's loads together
\* are no longer than the TTL: so they are when a round's loads take at most a tenth of it,
\* the operator's rule (3 s of 30, WarmDashboard).
ASSUME DashAssumption ==
    /\ ViewTTL \in Nat /\ MaxStale \in Nat /\ LoadTime \in Nat /\ Slack \in Nat
    /\ Dash!WarmInterval + Slack + Slack <= ViewTTL /\ Slack <= Dash!WarmInterval
    /\ Pinned \cap Unpinned = {} /\ None \notin Pinned \cup Unpinned \cup Nat \cup {"tick"}
    /\ "tick" \notin Pinned \cup Unpinned

\* None is no certificate, and no row of the hosts.
CertHosts == [mode: Certs!Modes, edit: 0 .. MaxStarts]
ASSUME CertsAssumption ==
    /\ MaxStarts \in Nat /\ None \notin Nat \cup CertHosts \cup {"upload", "delete", "cascade", "edit", "remove"}

\* What a topic of the sentinels may hold; a file has some of it, or is not there.
Contents == [scn: SUBSET Scenarios, tune: [Drifts!Fields -> Thresholds], white: SUBSET Entries]
ASSUME DriftAssumption ==
    /\ Default \in Thresholds /\ None \notin Drifts!Topics
    /\ \A S \in (SUBSET Scenarios) \cup (SUBSET Entries) : S # None
    /\ \A f \in [Drifts!Fields -> Thresholds] : f # None

\* No age is None.  An outage of AppSec is over for two probes before the next can be
\* told: a minute without a second alarm (Flutter) is shorter than that.
ASSUME AlarmsAssumption ==
    /\ QuietTime \in Nat /\ Interval \in Nat \ {0} /\ Flutter \in Nat /\ Flutter < 2 * Interval
    /\ WafWindow \in Nat \ {0} /\ WafThresh \in Nat \ {0} /\ MaxLines \in Nat
    /\ RateWindow \in Nat \ {0} /\ RateThresh \in Nat \ {0}
    /\ BurstWindow \in Nat /\ BurstThresh \in Nat \ {0} /\ FetchTTL \in Nat /\ MaxAlerts \in Nat
    /\ MaxFetch \in 0 .. BurstWindow
    /\ None \notin Nat \cup {"up", "down"}

\* What the fields of a provider may be set to; no set of them is None.
Credentials(p) == UNION {[S -> Values \cup {"blank", "legacy"}] : S \in SUBSET Issue!Fields(p)}
ASSUME IssueAssumption ==
    /\ MaxPuts \in Nat /\ None \notin [save: Issue!Providers]
    /\ \A p \in Issue!Providers : None \notin Credentials(p) \cup [key: Keys, creds: Credentials(p)]
----------------------------------------------------------------------------
(* The properties of the parts, together; each is stated in its module.    *)

\* Rules: a request gets the first rule that matches, after the host's checks, the
\* panel's sign-in pages behind none, and a reorder takes.
RulesHold ==
    part = "routing" => TypeOK /\ FirstRuleWins /\ NothingUnchecked /\ PanelIsSpared /\ ReorderTakes

\* Manual certificates: with nothing in progress and no failure left to make good row,
\* files and mode agree, and a boot gives every row its two files back or says that it
\* could not (ReconcileManualCerts).
CertsHold ==
    part = "certs" => Certs!TypeOK /\ Certs!AtRest /\ Certs!BootRestores

\* The probe cache: a caller is answered about its own domains, and a change is
\* seen by the next pass (Results, Invalidate).
ProbesAreFresh ==
    part = "probes" => Probes!TypeOK /\ Probes!OwnDomains /\ Probes!ChangeIsSeen

\* The probe cache: every caller gets an answer, or leaves (Results).
CallsReturn == Probes!CallsReturn

\* The dashboard's cache: a pinned view is always fresh, one nobody asks for is
\* not loaded, and no answer is older than one before it.
ViewsAreFresh ==
    part = "dash" => Dash!TypeOK /\ Dash!KeptWarm /\ Dash!OthersRest /\ Dash!NeverBack

\* The AppSec sentinels: after a sound request a file is what the settings say, a
\* difference is shown after an undisturbed pass, and a run of the script that removed
\* what it was to remove leaves none.
SentinelsAgree ==
    part = "drift" => Drifts!TypeOK /\ Drifts!FileAgrees /\ Drifts!DriftIsShown /\ Drifts!RunClears

\* The sources of alarms: what stays down, a burst of lines and a burst of alerts
\* are told about, and one outage is one alarm and one recovery.
AlarmsAreRaised ==
    /\ part = "crons" => Crons!TypeOK /\ Crons!FailuresAreTold /\ Crons!OneAlarmPerOutage
    /\ part = "watch" => Watch!TypeOK /\ Watch!BurstsAreTold /\ Watch!OutagesAreClosed
    /\ part = "bursts" => Bursts!TypeOK /\ Bursts!ScansTell

\* DNS providers: one that is on has what it requires, and a host that was saved
\* can be rendered.
CredentialsThere ==
    part = "issue" => Issue!TypeOK /\ Issue!EnabledHasCredentials /\ Issue!SavedHostHasCredentials
=============================================================================
