----------------------------- MODULE LogWatcher -----------------------------
(***************************************************************************)
(* What the notifications' LogWatcher makes of the log lines it is shown:  *)
(* a sliding window over the lines of one key (a client's violations, a    *)
(* host's 429s) and the last state of a target.  All of it is in memory.   *)
(* A time is an age; of two lines of one age the number tells which is     *)
(* which.                                                                  *)
(***************************************************************************)
EXTENDS Integers, FiniteSets

CONSTANTS
    None,
    WafWindow, WafThresh,     \* so many violations in so long are a burst
    RateWindow, RateThresh,   \* and so many 429s
    MaxLines, MaxRestarts     \* bounds

VARIABLES
    kind,       \* what the key is: a client's violations, a host's 429s
    window,     \* the list of the key, lines <<age, number>>; beyond the window ages are alike
    lines,      \* history: the lines of the last window in this life of the panel
    counted,    \* history: those of them that an alarm was about
    fired,      \* history: how many lines not yet counted the last alarm was about
    target,     \* the last state known of a target, and the outages told and not closed
    restarts

vars == <<kind, window, lines, counted, fired, target, restarts>>

Kinds  == {"waf", "rate"}
Window == IF kind = "waf" THEN WafWindow ELSE RateWindow
Thresh == IF kind = "waf" THEN WafThresh ELSE RateThresh

NoTarget == [state |-> None, open |-> 0]

Init ==
    /\ kind \in Kinds /\ window = {} /\ lines = {} /\ counted = {} /\ fired = Thresh
    /\ target = NoTarget /\ restarts = 0
----------------------------------------------------------------------------
Young(l) == l[1] < Window
Older(l) == IF Young(l) THEN <<l[1] + 1, l[2]>> ELSE l

\* Mutant: lines are not dropped for their age.
KeepAll(w) == w

Evict(w) == {l \in w : Young(l)}

Uncounted == lines \ counted

\* After an alarm the window starts again.
Rest(w) == IF Cardinality(w) >= Thresh THEN {} ELSE w

\* The number of a line of now: the first that is free.
Numbers == {n \in 1 .. MaxLines : <<0, n>> \notin lines /\ \A m \in 1 .. n - 1 : <<0, m>> \in lines}

\* At the threshold one alarm.
Line ==
    /\ Cardinality(lines) < MaxLines
    /\ \E n \in Numbers :
       LET w == Evict(window) \cup {<<0, n>>}  fire == Cardinality(w) >= Thresh IN
       /\ window' = Rest(w)
       /\ lines' = lines \cup {<<0, n>>}
       /\ counted' = IF fire THEN lines' ELSE counted
       /\ fired' = IF fire THEN Cardinality(Uncounted) + 1 ELSE fired
    /\ UNCHANGED <<kind, target, restarts>>

onWAFAudit    == kind = "waf" /\ Line
onCaddyAccess == kind = "rate" /\ Line

\* One alarm as it goes down, and a recovery only of what was down.
HostIsDown ==
    /\ target' = [state |-> "down", open |-> target.open + (IF target.state = "down" THEN 0 ELSE 1)]
    /\ UNCHANGED <<kind, window, lines, counted, fired, restarts>>

HostIsUp ==
    /\ target' = [state |-> "up", open |-> target.open - (IF target.state = "down" THEN 1 ELSE 0)]
    /\ UNCHANGED <<kind, window, lines, counted, fired, restarts>>

Restart ==
    /\ restarts < MaxRestarts /\ restarts' = restarts + 1
    /\ window' = {} /\ lines' = {} /\ counted' = {} /\ fired' = Thresh /\ target' = NoTarget
    /\ UNCHANGED kind

Tick ==
    /\ window' = {Older(l) : l \in window}
    /\ lines' = Evict({Older(l) : l \in lines})
    /\ counted' = Evict({Older(l) : l \in counted})
    /\ UNCHANGED <<kind, fired, target, restarts>>

Next == onWAFAudit \/ onCaddyAccess \/ HostIsDown \/ HostIsUp \/ Restart \/ Tick

Spec == Init /\ [][Next]_vars
----------------------------------------------------------------------------
(* Properties *)

\* Types; the list never reaches the threshold.
TypeOK ==
    /\ window \subseteq (0 .. Window) \X (1 .. MaxLines) /\ Cardinality(window) < Thresh
    /\ target.state \in {None, "up", "down"} /\ target.open \in 0 .. 1

\* Lines that are a burst and that no alarm has counted are alarmed about at
\* once, and an alarm counts that many lines that none has counted before
\* (LogWatcher: reset when it fires).
BurstsAreTold == Cardinality(Uncounted) < Thresh /\ fired >= Thresh

\* What was told of a target is what is so: an outage is told once and closed
\* once, in a life of the panel (onCaddyError).
OutagesAreClosed == target.open = IF target.state = "down" THEN 1 ELSE 0
=============================================================================
