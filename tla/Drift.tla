------------------------------- MODULE Drift -------------------------------
(***************************************************************************)
(* What the panel wants of CrowdSec and what CrowdSec has: disabled        *)
(* scenarios, AppSec thresholds and whitelist entries go from the database *)
(* to a file each, from there to CrowdSec when somebody runs               *)
(* setup-appsec.sh, and a detector compares the two ends once a minute.    *)
(***************************************************************************)
EXTENDS Integers, FiniteSets

CONSTANTS
    Requests, None,
    Scenarios,          \* canonical names
    Thresholds,         \* values of one threshold; the default is one
    Default,
    Entries,            \* whitelist entries
    MaxChanges, MaxFaults   \* bounds

VARIABLES
    wanted,     \* the database: [scn, tune, white]
    file,       \* the three files of the shared volume, None before the first write
    actual,     \* CrowdSec's: installed scenarios, thresholds, whitelist
    mounted,    \* whether the panel can read CrowdSec's
    shown,      \* the verdicts stored in the settings: [scn, tune]
    detector,   \* where the detector's pass is, and what it has read
    script,     \* where setup-appsec.sh is
    request,    \* where each request is, and what it has for its topic
    crossed,    \* history: topics whose last writer failed somewhere or was not alone
    calm,       \* history: nothing changed since the detector's pass began
    settled,    \* history: nor since the script's run began
    changes, faults

vars == <<wanted, file, actual, mounted, shown, detector, script, request, crossed, calm, settled,
          changes, faults>>

Topics   == {"scn", "tune", "white"}
Fields   == {"in", "out"}
Defaults == [f \in Fields |-> Default]
\* What stands without a file.
Shipped(t) == IF t = "tune" THEN Defaults ELSE {}
\* todo: the settings it has yet to store; sound: it is alone with its topic, and
\* none of its statements has failed.
Idle     == [pc |-> "idle", topic |-> None, new |-> <<>>, todo |-> {}, sound |-> FALSE]

Init ==
    /\ wanted = [scn |-> {}, tune |-> Defaults, white |-> {}]
    /\ file = [t \in Topics |-> None]
    /\ actual = [scn |-> Scenarios, tune |-> Defaults, white |-> {}]
    /\ mounted = TRUE /\ shown = [scn |-> FALSE, tune |-> FALSE]
    /\ detector = [pc |-> "idle", read |-> None] /\ script = "idle"
    /\ request = [p \in Requests |-> Idle]
    /\ crossed = {} /\ calm = FALSE /\ settled = FALSE /\ changes = 0 /\ faults = 0

Busy(t) == {p \in Requests : request[p].topic = t}
Moved   == calm' = FALSE /\ settled' = FALSE
Still   == UNCHANGED <<calm, settled>>

\* Something fails, and what it is part of goes on.
Trouble(happens) ==
    \/ ~happens /\ UNCHANGED faults
    \/ happens /\ faults < MaxFaults /\ faults' = faults + 1

\* GetSettingValue: a setting that cannot be read is its default.
ReadTuning(lost) == [f \in Fields |-> IF f \in lost THEN Default ELSE wanted.tune[f]]

\* Another request about the topic, and neither is alone any more.
Begin(p, pc, t, new, todo, sound) ==
    request' = [q \in Requests |->
        IF q = p THEN [pc |-> pc, topic |-> t, new |-> [x \in {t} |-> new], todo |-> todo,
                       sound |-> sound /\ Busy(t) = {}]
        ELSE IF q \in Busy(t) THEN [request[q] EXCEPT !.sound = FALSE] ELSE request[q]]

End(p) == request' = [request EXCEPT ![p] = Idle]
----------------------------------------------------------------------------
(* The requests. *)

\* Only a change goes further: the setting as the request read it, and its own.
PatchScenario(p, s) ==
    /\ request[p].pc = "idle" /\ changes < MaxChanges /\ changes' = changes + 1
    /\ \E read \in {wanted.scn, {}} : \E on \in {read \cup {s}, read \ {s}} :
          /\ on # read /\ Trouble(read # wanted.scn)
          /\ Begin(p, "store", "scn", on, {"scn"}, TRUE)
    /\ UNCHANGED <<wanted, file, actual, mounted, shown, detector, script, crossed>> /\ Still

\* The file gets both thresholds, the one not asked for as it was read.
PatchAppSecTuning(p, fields, v) ==
    /\ request[p].pc = "idle" /\ changes < MaxChanges /\ changes' = changes + 1
    /\ \E lost \in SUBSET Fields :
          LET read == ReadTuning(lost)  todo == {f \in fields : read[f] # v} IN
          /\ todo # {} /\ Trouble(lost # {})
          /\ Begin(p, "store", "tune", [f \in Fields |-> IF f \in fields THEN v ELSE read[f]],
                   todo, lost = {})
    /\ UNCHANGED <<wanted, file, actual, mounted, shown, detector, script, crossed>> /\ Still

\* security_whitelist's rows, and what follows in the handler.
Rows(p, rows, pc, new) ==
    /\ request[p].pc = "idle" /\ changes < MaxChanges /\ changes' = changes + 1
    /\ wanted' = [wanted EXCEPT !.white = rows]
    /\ Begin(p, pc, "white", new, {}, TRUE) /\ Moved
    /\ UNCHANGED <<file, actual, mounted, shown, detector, script, crossed, faults>>

\* Mutant: the rows for the file are those of before.
AddWithRows(p, e) == e \notin wanted.white /\ Rows(p, wanted.white \cup {e}, "write", wanted.white)

\* AddManualWhitelist: a row that is there already ends the request; the rows
\* are read again for the file.
AddWhitelist(p, e) == e \notin wanted.white /\ Rows(p, wanted.white \cup {e}, "rows", None)

\* DeleteWhitelistByID: so does a row that is not there.
DeleteWhitelist(p, e) == e \in wanted.white /\ Rows(p, wanted.white \ {e}, "rows", None)

\* applyConfig rewrites this file after every configuration it loads.
Reconcile(p) ==
    /\ request[p].pc = "idle" /\ changes < MaxChanges /\ changes' = changes + 1
    /\ Begin(p, "rows", "white", None, {}, TRUE)
    /\ UNCHANGED <<wanted, file, actual, mounted, shown, detector, script, crossed, faults>>
    /\ Still

ReadRows(p) ==
    /\ request[p].pc = "rows"
    /\ request' = [request EXCEPT ![p].pc = "write", ![p].new["white"] = wanted.white]
    /\ UNCHANGED <<wanted, file, actual, mounted, shown, detector, script, crossed, changes, faults>>
    /\ Still

\* UpsertSetting of f, the inbound threshold before the outbound one.
Upsert(p, f, sound) ==
    /\ request[p].pc = "store" /\ f \in request[p].todo
    /\ f = "out" => "in" \notin request[p].todo
    /\ request' = [request EXCEPT ![p] =
                     [request[p] EXCEPT !.todo = @ \ {f}, !.sound = sound,
                                        !.pc = IF request[p].todo = {f} THEN "write" ELSE "store"]]
    /\ UNCHANGED <<file, actual, mounted, shown, detector, script, crossed, changes>>

StoreScenarios(p) ==
    /\ Upsert(p, "scn", request[p].sound) /\ Moved /\ UNCHANGED faults
    /\ wanted' = [wanted EXCEPT !.scn = request[p].new["scn"]]

StoreThreshold(p, f) ==
    /\ Upsert(p, f, request[p].sound) /\ Moved /\ UNCHANGED faults
    /\ wanted' = [wanted EXCEPT !.tune[f] = request[p].new["tune"][f]]

\* The error is dropped: the request goes on, writes the file and answers 200.
LoseThreshold(p, f) ==
    /\ Upsert(p, f, FALSE) /\ Trouble(TRUE) /\ Still /\ UNCHANGED wanted

\* What the request computed or read, by a rename.
Replace(p) == file' = [file EXCEPT ![request[p].topic] = request[p].new[request[p].topic]]

WriteFile(p) ==
    /\ request[p].pc = "write" /\ Replace(p) /\ End(p)
    /\ crossed' = IF request[p].sound THEN crossed \ {request[p].topic}
                                      ELSE crossed \cup {request[p].topic}
    /\ calm' = calm /\ settled' = FALSE
    /\ UNCHANGED <<wanted, actual, mounted, shown, detector, script, changes, faults>>

\* The statement or the write fails, the shared directory is not there (which ends the
\* request as if the file had been written), or the panel stops: the database keeps what
\* it has, and the same request would find nothing to change.
Fail(p) ==
    /\ request[p].pc \in {"store", "rows", "write"} /\ faults < MaxFaults /\ faults' = faults + 1
    /\ crossed' = crossed \cup {request[p].topic} /\ End(p)
    /\ UNCHANGED <<wanted, file, actual, mounted, shown, detector, script, changes>> /\ Still
----------------------------------------------------------------------------
(* setup-appsec.sh: run by hand; it may be interrupted. *)

\* The installed collections are installed again, each with what had been removed of
\* it or with an error nobody sees; the thresholds are the shipped ones.
Setup ==
    /\ script = "idle" /\ script' = "tune"
    /\ \E s \in {x \in SUBSET Scenarios : actual.scn \subseteq x} : actual' = [actual EXCEPT !.scn = s, !.tune = Defaults]
    /\ settled' = (\A p \in Requests : request[p].pc = "idle") /\ calm' = FALSE
    /\ UNCHANGED <<wanted, file, mounted, shown, detector, request, crossed, changes, faults>>

Known(t) == IF file[t] = None THEN Shipped(t) ELSE file[t]

Regenerated == [actual EXCEPT !.tune = Known("tune")]

Regenerate ==
    /\ script = "tune" /\ script' = "scn" /\ actual' = Regenerated
    /\ calm' = FALSE
    /\ UNCHANGED <<wanted, file, mounted, shown, detector, request, crossed, settled, changes, faults>>

\* A removal that fails is passed over.
RemoveScenarios ==
    /\ script = "scn" /\ script' = "white"
    /\ \E kept \in SUBSET Known("scn") :
          /\ actual' = [actual EXCEPT !.scn = @ \ (Known("scn") \ kept)]
          /\ Trouble(kept # {}) /\ settled' = (settled /\ kept = {})
    /\ calm' = FALSE
    /\ UNCHANGED <<wanted, file, mounted, shown, detector, request, crossed, changes>>

WriteWhitelist ==
    /\ script = "white" /\ script' = "done"
    /\ actual' = [actual EXCEPT !.white = Known("white")]
    /\ UNCHANGED <<wanted, file, mounted, shown, detector, request, crossed, calm, settled, changes, faults>>

Interrupt ==
    /\ script # "idle" /\ script' = "idle"
    /\ UNCHANGED <<wanted, file, actual, mounted, shown, detector, request, crossed, calm, settled,
                   changes, faults>>
----------------------------------------------------------------------------
(* The detector. *)

Check ==
    /\ detector.pc = "idle"
    /\ \E read \in {wanted.scn, {}} :
          /\ detector' = [pc |-> "scn", read |-> [scn |-> read]]
          /\ Trouble(read # wanted.scn) /\ calm' = (read = wanted.scn)
    /\ UNCHANGED <<wanted, file, actual, mounted, shown, script, request, crossed, settled, changes>>

Drifted(want) == mounted /\ want \cap actual.scn # {}

\* A verdict that cannot be stored is a warning, and the one before it stays.
Verdict(topic, bad, lost) == shown' = IF lost THEN shown ELSE [shown EXCEPT ![topic] = bad]

CheckScenarios ==
    /\ detector.pc = "scn"
    /\ \E lost \in BOOLEAN, unread \in SUBSET Fields :
          /\ Verdict("scn", Drifted(detector.read.scn), lost)
          /\ detector' = [pc |-> "tune", read |-> [tune |-> ReadTuning(unread)]]
          /\ Trouble(lost \/ unread # {}) /\ calm' = (calm /\ ~lost /\ unread = {})
    /\ UNCHANGED <<wanted, file, actual, mounted, script, request, crossed, settled, changes>>

CheckTuning ==
    /\ detector.pc = "tune" /\ detector' = [pc |-> "idle", read |-> None]
    /\ \E lost \in BOOLEAN :
          /\ Verdict("tune", mounted /\ actual.tune # detector.read.tune, lost)
          /\ Trouble(lost) /\ calm' = (calm /\ ~lost)
    /\ UNCHANGED <<wanted, file, actual, mounted, script, request, crossed, settled, changes>>

\* CrowdSec's volume is not there, or is again.
Mount ==
    /\ faults < MaxFaults /\ faults' = faults + 1 /\ mounted' = ~mounted /\ calm' = FALSE
    /\ UNCHANGED <<wanted, file, actual, shown, detector, script, request, crossed, settled, changes>>

Next ==
    \/ \E p \in Requests :
          \/ \E s \in Scenarios : PatchScenario(p, s)
          \/ \E fs \in SUBSET Fields, v \in Thresholds : PatchAppSecTuning(p, fs, v)
          \/ \E e \in Entries : AddWhitelist(p, e) \/ DeleteWhitelist(p, e)
          \/ \E f \in Fields : StoreThreshold(p, f) \/ LoseThreshold(p, f)
          \/ Reconcile(p) \/ ReadRows(p) \/ StoreScenarios(p) \/ WriteFile(p) \/ Fail(p)
    \/ Setup \/ Regenerate \/ RemoveScenarios \/ WriteWhitelist \/ Interrupt
    \/ Check \/ CheckScenarios \/ CheckTuning \/ Mount

Spec == Init /\ [][Next]_vars
----------------------------------------------------------------------------
(* Properties *)

\* Types; a request is about one topic.
TypeOK ==
    /\ wanted.scn \subseteq Scenarios /\ wanted.white \subseteq Entries
    /\ wanted.tune \in [Fields -> Thresholds]
    /\ actual.scn \subseteq Scenarios /\ actual.tune \in [Fields -> Thresholds]
    /\ shown \in [scn: BOOLEAN, tune: BOOLEAN] /\ detector.pc \in {"idle", "scn", "tune"}
    /\ \A p \in Requests : (request[p].pc = "idle") = (request[p].topic = None)

\* A request that was alone, and none of whose statements or writes failed, leaves the
\* file as the database is, whatever earlier ones left (PatchScenario, PatchAppSecTuning,
\* WriteWhitelistEntries).
FileAgrees ==
    \A t \in Topics : Busy(t) = {} /\ t \notin crossed =>
        Known(t) = wanted[t]

\* A pass of the detector during which nothing changed, and which could read the settings
\* and store its verdicts, shows a difference exactly when there is one, however it came
\* about (checkOnce).
DriftIsShown ==
    detector.pc = "idle" /\ calm =>
        shown = [scn |-> Drifted(wanted.scn), tune |-> mounted /\ actual.tune # wanted.tune]

\* A run of the script that could remove what it was to remove leaves nothing to show, if
\* the files were right and no request came in (setup-appsec.sh, PatchScenario's reload
\* hint).
RunClears ==
    script = "done" /\ settled =>
        /\ "scn" \notin crossed => ~Drifted(wanted.scn)
        /\ "tune" \notin crossed => actual.tune = wanted.tune
        /\ "white" \notin crossed => actual.white = wanted.white
=============================================================================
