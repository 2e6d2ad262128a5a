---------------------------- MODULE HealthCrons ----------------------------
(***************************************************************************)
(* The two goroutines that look after the other processes: HealthCron asks *)
(* the panel and Caddy every 30 s and alarms at the second failure in a    *)
(* row, appsec.Health asks CrowdSec's AppSec every five minutes and alarms *)
(* when it was there the time before.  A unit of time is 30 s; what they   *)
(* know is in memory, and a restart of the panel forgets it.               *)
(***************************************************************************)
EXTENDS Integers

CONSTANTS
    None,
    Quiet,          \* HealthCron: units without a second alarm
    Interval,       \* appsec.Health: units between probes
    Flutter,        \*    and without a second alarm
    MaxDisturbances \* bound on restarts and changes of the mode

VARIABLES
    fails,      \* consecutive failures of "panel" and "caddy", of which three are many
    emitted,    \* units since HealthCron's last alarm, None before the first
    alone,      \* history: units a component has been failing and the other has not
    told,       \* history: components alarmed about since they last answered
    mode,       \* the setting appsec.mode
    next,       \* units to the next probe
    lastUp,     \* whether the last probe found AppSec
    alarmed,    \* units since appsec.Health's last alarm
    alarms,     \* history: its alarms since a probe last found AppSec
    disturbances

vars == <<fails, emitted, alone, told, mode, next, lastUp, alarmed, alarms, disturbances>>
cronVars   == <<fails, emitted, alone, told>>
healthVars == <<next, lastUp, alarmed, alarms>>

Components == {"panel", "caddy"}
Other(c)   == IF c = "panel" THEN "caddy" ELSE "panel"
Many       == Quiet + 2 * Interval + 3
Older(n)   == IF n = None \/ n >= Many THEN n ELSE n + 1
Past(n, d) == n = None \/ n > d

Forgotten ==
    [fails |-> [c \in Components |-> 0], emitted |-> None, alone |-> [c \in Components |-> 0],
     told |-> {}, next |-> 1, lastUp |-> TRUE, alarmed |-> None, alarms |-> 0]

Init ==
    /\ fails = Forgotten.fails /\ emitted = None /\ alone = Forgotten.alone /\ told = {}
    /\ mode \in {"detect", "block", "disabled"}
    /\ next = 1 /\ lastUp = TRUE /\ alarmed = None /\ alarms = 0 /\ disturbances = 0
----------------------------------------------------------------------------
(* HealthCron.check; up is the set of components that answer. *)

Failures(up) == [c \in Components |-> IF c \in up THEN 0 ELSE IF fails[c] = 3 THEN 3 ELSE fails[c] + 1]

\* The panel is looked at first, and both share the quiet.
Emit(n, age) ==
    LET due == {c \in Components : n[c] >= 2 /\ Past(age, Quiet)} IN
    [about |-> IF "panel" \in due THEN {"panel"} ELSE due,
     age   |-> IF due = {} THEN age ELSE 0]

Check(up) ==
    LET n == Failures(up)  e == Emit(n, Older(emitted)) IN
    /\ fails' = n /\ emitted' = e.age
    /\ told' = (told \ up) \cup e.about
    /\ alone' = [c \in Components |->
                    IF n[c] >= 2 /\ n[Other(c)] < 2 THEN Older(alone[c]) ELSE 0]
----------------------------------------------------------------------------
(* appsec.Health.probe. *)

Fires == Past(Older(alarmed), Flutter)

Later == next' = next - 1 /\ alarmed' = Older(alarmed) /\ UNCHANGED <<lastUp, alarms>>

\* A layer that is off is not asked.
Skip == mode = "disabled" /\ alarmed' = Older(alarmed) /\ UNCHANGED <<lastUp, alarms>>

\* Any answer but 404.
Found == mode # "disabled" /\ lastUp' = TRUE /\ alarms' = 0 /\ alarmed' = Older(alarmed)

NotFound ==
    /\ mode # "disabled" /\ lastUp' = FALSE
    /\ IF lastUp /\ Fires THEN alarmed' = 0 /\ alarms' = alarms + 1
       ELSE alarmed' = Older(alarmed) /\ UNCHANGED alarms

Probe == IF next > 1 THEN Later ELSE next' = Interval /\ (Skip \/ Found \/ NotFound)

Tick ==
    /\ \E up \in SUBSET Components : Check(up)
    /\ Probe /\ UNCHANGED <<mode, disturbances>>

SetMode ==
    /\ disturbances < MaxDisturbances /\ disturbances' = disturbances + 1
    /\ mode' \in {"detect", "block", "disabled"} \ {mode} /\ UNCHANGED <<cronVars, healthVars>>

Restart ==
    /\ disturbances < MaxDisturbances /\ disturbances' = disturbances + 1
    /\ fails' = Forgotten.fails /\ emitted' = None /\ alone' = Forgotten.alone /\ told' = {}
    /\ next' = 1 /\ lastUp' = TRUE /\ alarmed' = None /\ alarms' = 0 /\ UNCHANGED mode

Next == Tick \/ SetMode \/ Restart
Spec == Init /\ [][Next]_vars
----------------------------------------------------------------------------
(* Properties *)

\* Types.
TypeOK ==
    /\ fails \in [Components -> 0 .. 3] /\ emitted \in (0 .. Many) \cup {None}
    /\ told \subseteq Components /\ next \in 1 .. Interval /\ lastUp \in BOOLEAN
    /\ alarmed \in (0 .. Many) \cup {None} /\ mode \in {"detect", "block", "disabled"}

\* While something fails there was an alarm lately, and what fails alone for
\* longer than the quiet is what an alarm is about (HealthCron.check); when both
\* fail the panel's alarms leave none for Caddy.
FailuresAreTold ==
    /\ \A c \in Components : fails[c] >= 2 => emitted # None /\ emitted <= Quiet
    /\ \A c \in Components : alone[c] > Quiet + 1 => c \in told

\* An outage of AppSec is alarmed about once (appsec.Health: the edge only,
\* consecutive failures are silent, a probe that succeeds resets the edge).
OneAlarmPerOutage == alarms = IF lastUp THEN 0 ELSE 1
=============================================================================
