-------------------------- MODULE MCNotifications --------------------------
(***************************************************************************)
(* Instances of Notifications for TLC, as three parts of one run.  "flow": *)
(* failing senders, a Retry request, a configuration change, a purge and a *)
(* restart.  "push": the same of a channel whose sends may never return.   *)
(* "rate": four events of two hosts over a minute, for the limiter and the *)
(* throttle.                                                               *)
(***************************************************************************)
EXTENDS Notifications

CONSTANTS c1, c2, h1, h2
VARIABLE part

\* A channel that sends two a minute; one that sends one, one whose template
\* fails and which is not limited, one that is off.
Limited   == {[on |-> TRUE, rate |-> 2, ok |-> TRUE]}
Variety   == {[on |-> TRUE, rate |-> 1, ok |-> TRUE], [on |-> TRUE, rate |-> 0, ok |-> FALSE],
              [on |-> FALSE, rate |-> 1, ok |-> TRUE]}
AnyChannel == Limited \cup Variety
\* A rule without a window; with a window, for every host or for one; enabled
\* and disabled.
Windowed  == {[ch |-> c1, on |-> TRUE, filter |-> {}, window |-> 0],
              [ch |-> c1, on |-> TRUE, filter |-> {h1}, window |-> 60]}
Assorted  == {[ch |-> c1, on |-> TRUE, filter |-> {}, window |-> 60],
              [ch |-> c1, on |-> FALSE, filter |-> {}, window |-> 0]}
AnyRule   == Windowed \cup Assorted

Flow == INSTANCE Notifications WITH
    RuleRows <- Assorted, ChannelRows <- Variety, QueueCapacity <- 1, Ticks <- {61}, MaxTime <- 61
Push == INSTANCE Notifications WITH PushChannels <- {c1},
    RuleRows <- Assorted, ChannelRows <- Variety, QueueCapacity <- 1, Ticks <- {61}, MaxTime <- 61
Rate == INSTANCE Notifications WITH
    RuleRows <- Windowed, ChannelRows <- Limited, Retention <- 600, KeepMax <- 0,
    Ticks <- {20, 30}, MaxTime <- 60, MaxRetries <- 0, MaxChanges <- 0, MaxStops <- 0

\* Two events, of one host.
Few      == emitted' <= 2 /\ \A i \in 1 .. Len(queue') : queue'[i] # h2
FlowNext == Flow!Next /\ Few
PushNext == Push!Next /\ Few
\* In the rate part a send does not fail.
RateNext == Rate!Next /\ try'[Worker].pc # "wait"

MCInit == \/ part = "flow" /\ Flow!Init
          \/ part = "push" /\ Push!Init
          \/ part = "rate" /\ Rate!Init
MCNext == /\ part' = part
          /\ \/ part = "flow" /\ FlowNext
             \/ part = "push" /\ PushNext
             \/ part = "rate" /\ RateNext
mcVars == <<vars, part>>

\* The fairness of Notifications, for the parts whose liveness is checked: they
\* differ in the sends that are sure to return.
Live           == part \in {"flow", "push"}
FlowDispatch   == Live /\ Flow!Dispatch /\ part' = part
FlowStarts     == Live /\ Flow!PanelStarts /\ part' = part
Stalled(p)     == part = "push" /\ Push!Pushing(p)
FlowAttempt(p) == Live /\ ~Stalled(p) /\ Flow!Attempt(p) /\ part' = part
MCSpec == /\ MCInit /\ [][MCNext]_mcVars
          /\ WF_mcVars(FlowDispatch) /\ WF_mcVars(FlowStarts)
          /\ \A p \in Procs : WF_mcVars(FlowAttempt(p))
----------------------------------------------------------------------------
\* QueueDrains of the two, whose worker the scheduler keeps running: every queued
\* event is dispatched, whatever fails, unless a push is never answered.
FlowDrains ==
    []<>~Stalled(Worker) =>
        [](Live /\ queue # <<>> => <>(queue = <<>> /\ worker.pc = "idle"))
=============================================================================
