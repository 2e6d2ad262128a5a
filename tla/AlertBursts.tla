---------------------------- MODULE AlertBursts -----------------------------
(***************************************************************************)
(* The AppSec provider's search for bursts in the alerts it fetches from   *)
(* the LAPI, for one address.  A fetch is an HTTP call under the cache's   *)
(* lock: what it returns is of an earlier time than the scan that reads    *)
(* it.  What the provider remembers is in memory.  A time is an age; of    *)
(* two alerts of one age the number tells which is which.                  *)
(***************************************************************************)
EXTENDS Integers, FiniteSets

CONSTANTS
    None,
    Window, Thresh,           \* burstWindow, burstThresh
    FetchTTL,                 \* alertsTTLShort
    MaxFetch,                 \* how long a fetch may take, the client's timeout
    MaxAlerts, MaxRestarts    \* bounds

VARIABLES
    alerts,     \* the LAPI's alerts of the address, <<age, number>>
    asked,      \* the fetch in progress: the alerts the LAPI had, and their age since
    since,      \* burstSince: age of the last scan, or of SetNotifier
    fetched,    \* age of the last fetch, None before one
    lastBurst,  \* age of the end of the last burst told
    seen,       \* history: age of the newest the last scan could see
    missed,     \* history: a scan passed over a burst that it should have told
    restarts

vars == <<alerts, asked, since, fetched, lastBurst, seen, missed, restarts>>

Old == 2 * Window + 2 * FetchTTL
Older(n) == IF n = None \/ n >= Old THEN n ELSE n + 1
Aged(list) == {<<a[1] + 1, a[2]>> : a \in {b \in list : b[1] + 1 < Old}}

Init ==
    /\ alerts = {} /\ asked = None /\ since = 0 /\ fetched = None /\ lastBurst = None
    /\ seen = 0 /\ missed = FALSE /\ restarts = 0
----------------------------------------------------------------------------
Newest == {a \in alerts : a[1] = 0}

Alert ==
    /\ Cardinality(alerts) < MaxAlerts /\ alerts' = alerts \cup {<<0, Cardinality(Newest) + 1>>}
    /\ UNCHANGED <<asked, since, fetched, lastBurst, seen, missed, restarts>>

\* A window before the last scan, so that a burst that straddles it is seen.
Considered(list) == {a \in list : a[1] <= since + Window}

\* The times at which a burst ends: so many alerts in the span before.
Within(list, b, span) == {c \in list : c[1] >= b[1] /\ c[1] - b[1] <= span}
Ends(list, span) == {a[1] : a \in {b \in list : Cardinality(Within(list, b, span)) >= Thresh}}

\* What lastBurst becomes: the end of the first burst in the list, unless that
\* is no later than the one told last; a burst after it is not looked at.
Told(list) ==
    IF Ends(list, Window) = {} THEN lastBurst
    ELSE LET end == CHOOSE e \in Ends(list, Window) : \A x \in Ends(list, Window) : x <= e IN
         IF lastBurst = None \/ end < lastBurst THEN end ELSE lastBurst

\* The bursts that are for this scan to tell: those that ended after the scan before,
\* and of those that ended while its fetch was under way the ones with a fetch's time
\* to spare, whose first alerts are still considered.
Due(list) == {e \in Ends(list, Window) : e <= since}
                 \cup {e \in Ends(list, Window - MaxFetch) : e <= seen}

\* One told before is still among what is considered, and hides what follows it.
Hidden == lastBurst # None /\ lastBurst <= since + Window

detectBursts(list) ==
    /\ lastBurst' = Told(Considered(list))
    /\ missed' = (missed \/ (Due(list) # {} /\ ~Hidden /\ lastBurst' = lastBurst))
    /\ since' = 0 /\ seen' = asked.age

\* Alerts, once what it has is too old: the lock is held until the LAPI has answered.
Fetch ==
    /\ asked = None /\ (fetched # None => fetched >= FetchTTL)
    /\ asked' = [list |-> alerts, age |-> 0]
    /\ UNCHANGED <<alerts, since, fetched, lastBurst, seen, missed, restarts>>

\* A fetch that fails keeps the alerts of the one before, and is not scanned.
Answer(ok) ==
    /\ asked # None /\ asked' = None /\ fetched' = 0
    /\ IF ok THEN detectBursts(asked.list) ELSE UNCHANGED <<since, lastBurst, seen, missed>>
    /\ UNCHANGED <<alerts, restarts>>

Restart ==
    /\ restarts < MaxRestarts /\ restarts' = restarts + 1
    /\ since' = 0 /\ seen' = 0 /\ asked' = None /\ fetched' = None /\ lastBurst' = None
    /\ UNCHANGED <<alerts, missed>>

Tick ==
    /\ asked # None => asked.age < MaxFetch
    /\ alerts' = Aged(alerts)
    /\ asked' = IF asked = None THEN None ELSE [list |-> Aged(asked.list), age |-> asked.age + 1]
    /\ since' = Older(since) /\ fetched' = Older(fetched) /\ lastBurst' = Older(lastBurst)
    /\ seen' = Older(seen)
    /\ UNCHANGED <<missed, restarts>>

Next == Alert \/ Fetch \/ Restart \/ Tick \/ \E ok \in BOOLEAN : Answer(ok)

Spec == Init /\ [][Next]_vars
----------------------------------------------------------------------------
(* Properties *)

\* Types.
TypeOK ==
    /\ \A t \in {since, fetched, lastBurst, seen} : t = None \/ t \in 0 .. Old
    /\ asked # None => asked.age \in 0 .. MaxFetch

\* A scan that finds bursts to tell tells one, unless one told before ended less than
\* a window before the scan before this one: then detectBursts breaks off, and a second
\* burst of the address may never be told.  What it considers (one window back) loses
\* no burst, but for one that ended during a fetch and was as long as the window.
ScansTell == ~missed
=============================================================================
