------------------------------ MODULE MCPanel ------------------------------
(***************************************************************************)
(* Instances for TLC of the panel's smaller parts, which share no state: a *)
(* behaviour is one of them, and the others stay as they began.            *)
(***************************************************************************)
EXTENDS Panel

CONSTANT Parts

certVars   == <<crtHost, crtRow, crt, crtKey, served, boot, upload, disturbed, starts, faults>>
probeVars  == <<hosts, live, admin, cache, inflight, call, floor>>
dashVars   == <<entry, load, ask, due, at, timer, spent, failed>>
driftVars  == <<settings, file, actual, mounted, shown, detector, script, patch, crossed, calm,
                settled, patches, upsets>>
cronVars   == <<misses, emitted, alone, told, mode, next, lastUp, alarmed, alarms, disturbances>>
watchVars  == <<kind, window, lines, counted, fired, target, restarts>>
burstVars  == <<alerts, asked, since, fetched, lastBurst, seen, missed, reboots>>
issueVars  == <<providers, env, master, saved, work, sound, puts>>
mcVars == <<part, vars, certVars, probeVars, dashVars, driftVars, cronVars, watchVars, burstVars,
            issueVars>>

\* Rules: a forward on a path, a block of everyone outside the LAN on that path,
\* a rewrite on a header, and one whose only matcher is empty.
Matcher(type, values) ==
    [type |-> type, name |-> "", mode |-> "exact", values |-> values, negate |-> FALSE]
SomeBodies == {
    [when |-> <<Matcher("path", {"p"})>>, do |-> "forward"],
    [when |-> <<Matcher("path_exact", {"p"}), [Matcher("remote_ip", {"lan"}) EXCEPT !.negate = TRUE]>>,
     do |-> "block"],
    [when |-> <<[Matcher("header", {"x"}) EXCEPT !.mode = "regex", !.name = "n"]>>, do |-> "rewrite"],
    [when |-> <<Matcher("path", {})>>, do |-> "block"]}

\* Requests by path, header, TCP peer, client address and the checks that turn
\* them away; a client outside may come through a proxy on the LAN.
Ways(paths, headers, peers, trips) ==
    [path : paths, header : headers, peer : peers, client : {"lan", "wan"}, trips : trips]
SomeRequests ==
    Ways({"p", "q"}, {"x", "y"}, {"lan"}, {{}}) \cup
    Ways({"p"}, {"x"}, {"lan", "wan"}, {{}, {"crowdsec"}, {"waf", "forward_auth"}, {"appsec"},
                                 {"forward_auth"}, {"crowdsec", "forward_auth"}})

MCInit ==
    /\ part \in Parts
    /\ Init /\ Certs!Init /\ Probes!Init /\ Dash!Init /\ Drifts!Init /\ Crons!Init /\ Watch!Init
    /\ Bursts!Init /\ Issue!Init
    /\ part # "routing" => ~lan /\ gates = {}
    /\ hosts = "S1"        \* the two sets are alike
    /\ part # "crons" => mode = "detect"
    /\ part # "watch" => kind = CHOOSE k \in Watch!Kinds : TRUE
    /\ part # "issue" => env
    /\ master = "k1"       \* and the two keys

MCNext ==
    \/ /\ part = "routing" /\ Next
       /\ UNCHANGED <<part, certVars, probeVars, dashVars, driftVars, cronVars, watchVars, burstVars,
                      issueVars>>
    \/ /\ part = "certs" /\ Certs!Next
       /\ UNCHANGED <<part, vars, probeVars, dashVars, driftVars, cronVars, watchVars, burstVars,
                      issueVars>>
    \/ /\ part = "probes" /\ Probes!Next
       /\ UNCHANGED <<part, vars, certVars, dashVars, driftVars, cronVars, watchVars, burstVars,
                      issueVars>>
    \/ /\ part = "dash" /\ Dash!Next
       /\ UNCHANGED <<part, vars, certVars, probeVars, driftVars, cronVars, watchVars, burstVars,
                      issueVars>>
    \/ /\ part = "drift" /\ Drifts!Next
       /\ UNCHANGED <<part, vars, certVars, probeVars, dashVars, cronVars, watchVars, burstVars,
                      issueVars>>
    \/ /\ part = "crons" /\ Crons!Next
       /\ UNCHANGED <<part, vars, certVars, probeVars, dashVars, driftVars, watchVars, burstVars,
                      issueVars>>
    \/ /\ part = "watch" /\ Watch!Next
       /\ UNCHANGED <<part, vars, certVars, probeVars, dashVars, driftVars, cronVars, burstVars,
                      issueVars>>
    \/ /\ part = "bursts" /\ Bursts!Next
       /\ UNCHANGED <<part, vars, certVars, probeVars, dashVars, driftVars, cronVars, watchVars,
                      issueVars>>
    \/ /\ part = "issue" /\ Issue!Next
       /\ UNCHANGED <<part, vars, certVars, probeVars, dashVars, driftVars, cronVars, watchVars,
                      burstVars>>

\* The fairness of ProbeCache, for the part whose liveness is checked.
Others == <<part, vars, certVars, dashVars, driftVars, cronVars, watchVars, burstVars, issueVars>>
Probing    == part = "probes" /\ Probes!Probe /\ UNCHANGED Others
Looking(p) == part = "probes" /\ Probes!Results(p) /\ UNCHANGED Others
Going(p)   == part = "probes" /\ Probes!Return(p) /\ UNCHANGED Others
MCSpec ==
    /\ MCInit /\ [][MCNext]_mcVars
    /\ WF_probeVars(Probing)
    /\ \A p \in Callers : WF_probeVars(Looking(p)) /\ WF_probeVars(Going(p))
=============================================================================
