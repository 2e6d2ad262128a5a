---------------------------- MODULE MCCaddySync ----------------------------
(***************************************************************************)
(* Instances of CaddySync for TLC, as two parts of one run.  "serial": one *)
(* operator at a time, two groups, two modes, a panel that may crash.      *)
(* "race": two handlers at once, one group, and every kind of fault.       *)
(***************************************************************************)
EXTENDS CaddySync

CONSTANTS h1, h2, g1, g2, c1, c2
VARIABLE part

\* The settings of a panel that has run before.
WiredSeed == [mode |-> "detect", bouncer |-> TRUE]

\* The smaller half of the constants: nothing but a request starts it, so the
\* restriction of a part withholds requests and faults, and no step owed.
Serially == INSTANCE CaddySync WITH Faults <- {"crash"}
Racing   == INSTANCE CaddySync WITH MaxRequests <- 4

SerialNext == Serially!Next /\ pc'[h2] = "idle"
RaceNext ==
    /\ Racing!Next
    /\ groups'[g2] = None /\ groups'[g1] # c2
    /\ \A p \in Procs : job'[p].kind = "mode" => job'[p].to = "detect"

MCInit == part \in {"serial", "race"} /\ Init
MCNext == /\ part' = part
          /\ \/ part = "serial" /\ SerialNext
             \/ part = "race" /\ RaceNext
MCSpec == MCInit /\ [][MCNext]_<<vars, part>> /\ Fairness
=============================================================================
