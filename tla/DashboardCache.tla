--------------------------- MODULE DashboardCache ---------------------------
(***************************************************************************)
(* dashboard.Cache: a value per view, served while it is fresh, served and *)
(* refreshed while it is stale, waited for otherwise.  One goroutine keeps *)
(* the pinned views warm and the others only while somebody asks for them. *)
(* Times are ages, in units of which a few are a TTL.                      *)
(***************************************************************************)
EXTENDS Integers

CONSTANTS
    Callers, None,
    Pinned, Others,     \* views
    TTL, MaxStale,
    LoadTime,           \* LoadTimeout
    Slack,              \* what the loads of one round of the refresher take together
    MaxFails            \* bound on loads that fail

VARIABLES
    entry,      \* per view: the age of its value, the time since it was last asked
                \* for, whether the last load failed
    load,       \* per view: the ages of the loads in flight
    ask,        \* where each caller is
    due,        \* the refresher: views left in this round
    at,         \* and the one it waits for, None between two, "tick" between rounds
    timer,      \* since the ticker last fired
    spent,      \* how long the round has taken
    fails

vars == <<entry, load, ask, due, at, timer, spent, fails>>

Views == Pinned \cup Others
Old   == MaxStale + LoadTime + 1        \* ages are not told apart from here on

Idle  == [pc |-> "idle", view |-> None, since |-> 0]
Blank == [age |-> None, asked |-> Old, err |-> FALSE]

\* WarmDashboard pins its views and loads them before the ticker starts.
Init ==
    /\ entry = [k \in Views |-> Blank] /\ load = [k \in Views |-> {}]
    /\ ask = [p \in Callers |-> Idle]
    /\ due = Pinned /\ at = None /\ timer = None /\ spent = 0 /\ fails = 0

Has(k)  == entry[k].age # None

\* Mutant: a load for each caller who needs one.
StartAnother(k) == load' = [load EXCEPT ![k] = @ \cup {0}]

\* startLoadLocked: the load in flight is everybody's.
StartLoad(k) == load' = [load EXCEPT ![k] = IF @ = {} THEN {0} ELSE @]

Asked(k) == entry' = [entry EXCEPT ![k].asked = 0]
----------------------------------------------------------------------------
(* GetOrLoad. *)

\* Served at once; a stale value starts a load.
Serve(p, k) ==
    /\ ask[p].pc = "idle" /\ Has(k) /\ entry[k].age <= MaxStale
    /\ Asked(k) /\ IF entry[k].age > TTL THEN StartLoad(k) ELSE UNCHANGED load
    /\ UNCHANGED <<ask, due, at, timer, spent, fails>>

Wait(p, k) ==
    /\ ask[p].pc = "idle" /\ (Has(k) => entry[k].age > MaxStale)
    /\ Asked(k) /\ StartLoad(k)
    /\ ask' = [ask EXCEPT ![p] = [pc |-> "wait", view |-> k, since |-> 0]]
    /\ UNCHANGED <<due, at, timer, spent, fails>>

\* The load ends: those who wait are told, and so is the refresher.
Ended(k, l) ==
    /\ load' = [load EXCEPT ![k] = @ \ {l}]
    /\ ask' = [p \in Callers |-> IF ask[p].view = k /\ ask[p].pc = "wait"
                                 THEN [ask[p] EXCEPT !.pc = "told"] ELSE ask[p]]
    /\ at' = IF at = k THEN None ELSE at
    /\ UNCHANGED <<due, timer, spent>>

LoadOk(k) == \E l \in load[k] :
    /\ entry' = [entry EXCEPT ![k].age = 0, ![k].err = FALSE]
    /\ Ended(k, l) /\ UNCHANGED fails

\* What was there stays.
LoadFails(k) == \E l \in load[k] :
    /\ fails < MaxFails /\ fails' = fails + 1
    /\ entry' = [entry EXCEPT ![k].err = TRUE] /\ Ended(k, l)

\* The value there is then, or the error without one.
Answer(p) ==
    /\ ask[p].pc = "told" /\ ask' = [ask EXCEPT ![p] = Idle]
    /\ UNCHANGED <<entry, load, due, at, timer, spent, fails>>

Leave(p) ==
    /\ ask[p].pc = "wait" /\ ask' = [ask EXCEPT ![p] = Idle]
    /\ UNCHANGED <<entry, load, due, at, timer, spent, fails>>
----------------------------------------------------------------------------
(* The refresher: RefreshPinned once, then a round at every tick. *)

WarmInterval == (TTL * 4) \div 5

\* Refresh, one view after the other.
Refresh(k) ==
    /\ at = None /\ k \in due
    /\ due' = due \ {k} /\ at' = k /\ StartLoad(k)
    /\ UNCHANGED <<entry, ask, timer, spent, fails>>

dueKeys ==
    {k \in Views : \/ k \in Pinned
                   \/ entry[k].asked <= MaxStale /\ (Has(k) => entry[k].age > TTL)}

RoundEnds ==
    /\ at = None /\ due = {} /\ at' = "tick" /\ spent' = 0
    /\ timer' = IF timer = None THEN 0 ELSE timer
    /\ UNCHANGED <<entry, load, ask, due, fails>>

Round ==
    /\ at = "tick" /\ timer >= WarmInterval
    /\ timer' = timer - WarmInterval /\ at' = None /\ due' = dueKeys
    /\ UNCHANGED <<entry, load, ask, spent, fails>>

Busy == at # "tick"
Older(n) == IF n = None \/ n = Old THEN n ELSE n + 1

\* Goroutines that can run do so before time passes.
Tick ==
    /\ at # None /\ (Busy => spent < Slack) /\ (~Busy => timer < WarmInterval)
    /\ \A k \in Views : \A l \in load[k] : l < LoadTime
    /\ \A p \in Callers : ask[p].pc # "told"
    /\ entry' = [k \in Views |-> [entry[k] EXCEPT !.age = Older(@), !.asked = Older(@)]]
    /\ load' = [k \in Views |-> {l + 1 : l \in load[k]}]
    /\ ask' = [p \in Callers |-> IF ask[p].pc = "wait" THEN [ask[p] EXCEPT !.since = @ + 1] ELSE ask[p]]
    /\ timer' = (IF timer = None THEN None ELSE timer + 1)
    /\ spent' = (IF Busy THEN spent + 1 ELSE 0)
    /\ UNCHANGED <<due, at, fails>>

Next ==
    \/ \E p \in Callers : Answer(p) \/ Leave(p) \/ \E k \in Views : Serve(p, k) \/ Wait(p, k)
    \/ \E k \in Views : LoadOk(k) \/ LoadFails(k) \/ Refresh(k)
    \/ RoundEnds \/ Round \/ Tick

Spec == Init /\ [][Next]_vars
----------------------------------------------------------------------------
(* Properties *)

\* Types; the refresher waits for a load that is in flight.
TypeOK ==
    /\ \A k \in Views : /\ entry[k].age \in (0 .. Old) \cup {None} /\ entry[k].asked \in 0 .. Old
                        /\ load[k] \subseteq 0 .. LoadTime
    /\ \A p \in Callers : ask[p].pc \in {"idle", "wait", "told"}
    /\ due \subseteq Views /\ at \in Views \cup {None, "tick"}
    /\ at \in Views => load[at] # {}

\* Once the first round has ended a pinned view whose loads succeed is never
\* past its TTL, when the loads of the boot and those of a round fit in what the
\* interval leaves (WarmInterval, WarmDashboard: a fifth of the TTL for both).
KeptWarm ==
    timer # None => \A k \in Pinned : entry[k].err \/ (Has(k) /\ entry[k].age <= TTL)

\* A view nobody asks for is left alone: a load of one begins at most a round
\* after it was last of interest (Run, dueKeys).
OthersRest ==
    \A k \in Others : \A l \in load[k] : entry[k].asked <= MaxStale + Slack + l

\* A load begins after the one before has ended, so a value never replaces a
\* younger one; and who waited gets a value that landed since, unless the load
\* failed (startLoadLocked).
NeverBack ==
    /\ \A k \in Views : \A l \in load[k] : Has(k) => l <= entry[k].age
    /\ \A p \in Callers : ask[p].pc = "told" =>
          entry[ask[p].view].err \/ (Has(ask[p].view) /\ entry[ask[p].view].age <= ask[p].since)
=============================================================================
