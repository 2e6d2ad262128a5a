--------------------------- MODULE Notifications ---------------------------
(***************************************************************************)
(* The notification pipeline: a bounded queue that drops when full, one    *)
(* worker that matches each event against the rules, throttles per rule    *)
(* and host, limits per channel, records a delivery and sends it with      *)
(* retries; the operator's Retry button, which sends from the request's    *)
(* own goroutine; the hourly purge; and configuration changes and restarts *)
(* at any point.  One event type; an event is the host it is about.        *)
(***************************************************************************)
EXTENDS Integers, Sequences, FiniteSets

CONSTANTS
    Hosts, Rules, Channels,
    PushChannels,   \* those of the browser push, whose sender has no timeout
    RuleRows,       \* what a rule may be: channel, enabled, host filter, window
    ChannelRows,    \* what a channel may be: enabled, rate, template renders
    Worker,         \* the worker goroutine
    Retriers,       \* concurrent Retry requests
    None,
    QueueCapacity, MaxAttempts,
    SweepAge,       \* age in seconds at which the sweeper forgets a window
    Retention,      \* age at which the purge removes a delivery
    KeepMax,        \* how many deliveries it keeps at most
    Ticks, MaxTime, \* how time advances, and its bound
    MaxEvents, MaxRetries, MaxChanges, MaxStops  \* bounds

Procs == {Worker} \cup Retriers
Ids   == 1 .. MaxEvents * Cardinality(Rules)

\* validateRulePayload and validateChannelPayload bound windows and rates.
ASSUME NotificationsAssumption ==
    /\ RuleRows \subseteq [ch: Channels, on: BOOLEAN, filter: SUBSET Hosts,
                           window: 0 .. SweepAge]
    /\ ChannelRows \subseteq [on: BOOLEAN, rate: Nat, ok: BOOLEAN]
    /\ PushChannels \subseteq Channels /\ None \notin Channels
    /\ Worker \notin Retriers /\ None \notin Rules \cup Hosts
    /\ QueueCapacity \in Nat \ {0} /\ MaxAttempts \in Nat \ {0}
    /\ KeepMax \in Nat /\ Ticks \subseteq Nat /\ MaxTime \in Nat /\ SweepAge \in Nat /\ Retention \in Nat
    /\ MaxEvents \in Nat
    /\ None \notin Nat /\ None \notin [cap: Nat, tokens: Nat, at: Nat]

VARIABLES
    channels, rules,  \* the two configuration tables
    retired,          \* channel ids that were used: AUTOINCREMENT gives new ones
    deliveries,       \* table notification_deliveries, by id
    lastId,
    queue, dropped,   \* the emitter
    emitted,
    worker,           \* where dispatch is
    seen,             \* Throttle: when each (rule, host) was last allowed
    bucket,           \* RateLimiter: each channel's tokens, in sixtieths
    dropping,         \* deleted channels whose bucket is not yet dropped
    try,              \* attempt: one sending loop per process
    now, up,
    passed,           \* history: when the limiter let the channel's bucket pass
    counts            \* retries, changes and stops so far

configVars == <<channels, rules, retired, dropping>>
queueVars  == <<queue, dropped, emitted>>
tableVars  == <<deliveries, lastId>>
memoryVars == <<seen, bucket, passed>>
vars == <<configVars, tableVars, queueVars, memoryVars, worker, try, now, up, counts>>

Statuses == {"pending", "sent", "failed", "throttled", "rate_limited"}
NoEvent  == [pc |-> "idle", host |-> None, at |-> 0, todo |-> {}, rule |-> None,
             ch |-> None, status |-> "pending"]
NoTry    == [pc |-> "idle", id |-> 0, ch |-> None, n |-> 0]
Counted(f) == counts' = [counts EXCEPT ![f] = @ + 1]

Init ==
    /\ channels \in [Channels -> ChannelRows \cup {None}]
    /\ rules \in [Rules -> RuleRows \cup {None}]
    /\ \A r \in Rules : rules[r] # None => channels[rules[r].ch] # None
    /\ retired = {} /\ dropping = {}
    /\ deliveries = [i \in Ids |-> None] /\ lastId = 0
    /\ queue = <<>> /\ dropped = 0 /\ emitted = 0
    /\ worker = NoEvent
    /\ seen = [r \in Rules |-> [h \in Hosts |-> None]]
    /\ bucket = [c \in Channels |-> None]
    /\ passed = [c \in Channels |-> <<>>]
    /\ try = [p \in Procs |-> NoTry]
    /\ now = 0 /\ up = TRUE
    /\ counts = [retries |-> 0, changes |-> 0, stops |-> 0]

----------------------------------------------------------------------------
(* Emitter *)

\* Emit never blocks: at capacity the event is dropped.
Emit(h) ==
    /\ up /\ emitted < MaxEvents /\ emitted' = emitted + 1
    /\ IF Len(queue) < QueueCapacity
       THEN queue' = Append(queue, h) /\ UNCHANGED dropped
       ELSE dropped' = dropped + 1 /\ UNCHANGED queue
    /\ UNCHANGED <<configVars, tableVars, memoryVars, worker, try, now, up, counts>>

----------------------------------------------------------------------------
(* Worker.dispatch *)

dispatchFrame == <<configVars, dropped, emitted, try, now, up, counts>>

Dequeue ==
    /\ up /\ worker.pc = "idle" /\ queue # <<>>
    /\ queue' = Tail(queue)
    /\ worker' = [NoEvent EXCEPT !.pc = "list", !.host = Head(queue)]
    /\ UNCHANGED <<dispatchFrame, tableVars, memoryVars>>

\* ActiveRulesFor; dispatch takes its clock once, here.
ActiveRulesFor ==
    /\ up /\ worker.pc = "list"
    /\ worker' = [worker EXCEPT !.pc = "rule", !.at = now,
          !.todo = {[rule |-> r, row |-> rules[r]] :
                      r \in {x \in Rules : rules[x] # None /\ rules[x].on}}]
    /\ UNCHANGED <<dispatchFrame, queue, tableVars, memoryVars>>

matchesFilters(row, h) == row.filter = {} \/ h \in row.filter

\* Throttle.Allow, as of the dispatch's clock.
Allow(r, h, window) ==
    \/ window <= 0
    \/ seen[r][h] = None
    \/ worker.at - seen[r][h] >= window

\* The next rule: skipped by its filters, suppressed, or allowed.
Throttled(x) ==
    /\ up /\ worker.pc = "rule" /\ x \in worker.todo
    /\ LET rest == [worker EXCEPT !.todo = @ \ {x}, !.rule = x]
           h == worker.host
       IN  IF ~matchesFilters(x.row, h)
           THEN worker' = rest /\ UNCHANGED seen
           ELSE IF ~Allow(x.rule, h, x.row.window)
           THEN /\ worker' = [rest EXCEPT !.pc = "insert", !.status = "throttled", !.ch = None]
                /\ UNCHANGED seen
           ELSE /\ worker' = [rest EXCEPT !.pc = "channel"]
                /\ seen' = IF x.row.window > 0
                           THEN [seen EXCEPT ![x.rule][h] = worker.at] ELSE seen
    /\ UNCHANGED <<dispatchFrame, queue, tableVars, bucket, passed>>

EventDone ==
    /\ up /\ worker.pc = "rule" /\ worker.todo = {}
    /\ worker' = NoEvent
    /\ UNCHANGED <<dispatchFrame, queue, tableVars, memoryVars>>

\* GetChannel, the enabled flag and the template.
GetChannel ==
    /\ up /\ worker.pc = "channel"
    /\ LET c == worker.rule.row.ch
           row == channels[c]
       IN  worker' =
             IF row = None \/ ~row.on THEN [worker EXCEPT !.pc = "rule"]
             ELSE IF row.ok
             THEN [worker EXCEPT !.pc = "limit", !.ch = [id |-> c, row |-> row]]
             ELSE [worker EXCEPT !.pc = "insert", !.status = "failed",
                                 !.ch = [id |-> c, row |-> row]]
    /\ UNCHANGED <<dispatchFrame, queue, tableVars, memoryVars>>

Least(a, b) == IF a < b THEN a ELSE b

\* Mutant: the refill is not capped at the bucket's capacity.
RefilledUncapped(c, rate) ==
    IF bucket[c] = None \/ bucket[c].cap # rate
    THEN [cap |-> rate, tokens |-> 60 * rate, at |-> worker.at]
    ELSE [bucket[c] EXCEPT !.tokens = @ + (worker.at - bucket[c].at) * rate,
                           !.at = worker.at]

\* The bucket as of the dispatch's clock: new, reset by a new rate, or refilled
\* at rate tokens a minute up to its capacity.
Refilled(c, rate) ==
    IF bucket[c] = None \/ bucket[c].cap # rate
    THEN [cap |-> rate, tokens |-> 60 * rate, at |-> worker.at]
    ELSE [bucket[c] EXCEPT !.tokens = Least(60 * rate, @ + (worker.at - bucket[c].at) * rate),
                           !.at = worker.at]

\* RateLimiter.Allow: a token is one delivery, sixty of the model's units.
RateLimit ==
    /\ up /\ worker.pc = "limit"
    /\ LET c == worker.ch.id
           rate == worker.ch.row.rate
           b == Refilled(c, rate)
           fresh == bucket[c] = None \/ bucket[c].cap # rate
           log == IF fresh THEN <<>> ELSE passed[c]
       IN  IF rate <= 0
           THEN /\ worker' = [worker EXCEPT !.pc = "insert", !.status = "pending"]
                /\ UNCHANGED <<bucket, passed>>
           ELSE IF b.tokens < 60
           THEN /\ worker' = [worker EXCEPT !.pc = "insert", !.status = "rate_limited"]
                /\ bucket' = [bucket EXCEPT ![c] = b]
                /\ passed' = [passed EXCEPT ![c] = log]
           ELSE /\ worker' = [worker EXCEPT !.pc = "insert", !.status = "pending"]
                /\ bucket' = [bucket EXCEPT ![c] = [b EXCEPT !.tokens = @ - 60]]
                /\ passed' = [passed EXCEPT ![c] = Append(log, worker.at)]
    /\ UNCHANGED <<dispatchFrame, queue, tableVars, seen>>

\* InsertDelivery, terminal or pending; the foreign keys refuse a delivery
\* whose rule or channel has been deleted meanwhile.
InsertDelivery ==
    /\ up /\ worker.pc = "insert"
    /\ LET c == IF worker.ch = None THEN None ELSE worker.ch.id
       IN  IF rules[worker.rule.rule] = None \/ (c # None /\ channels[c] = None)
           THEN /\ worker' = [worker EXCEPT !.pc = "rule"]
                /\ UNCHANGED <<tableVars, try>>
           ELSE /\ lastId' = lastId + 1
                /\ deliveries' = [deliveries EXCEPT ![lastId'] =
                     [rule |-> worker.rule.rule, host |-> worker.host, ch |-> c,
                      status |-> worker.status, attempts |-> 0, at |-> worker.at,
                      window |-> worker.rule.row.window, created |-> now]]
                /\ IF worker.status = "pending"
                   THEN /\ try' = [try EXCEPT ![Worker] = [NoTry EXCEPT !.pc = "send",
                                                                    !.id = lastId', !.ch = c]]
                        /\ worker' = [worker EXCEPT !.pc = "attempt"]
                   ELSE /\ worker' = [worker EXCEPT !.pc = "rule"]
                        /\ UNCHANGED try
    /\ UNCHANGED <<configVars, queueVars, memoryVars, now, up, counts>>

----------------------------------------------------------------------------
(* Worker.attempt: run by the worker and by each Retry request *)

tryFrame == <<configVars, queueVars, lastId, memoryVars, worker, now, up, counts>>

\* Mutant: the counter of the delivery is not the one that is compared.
SendForever(p) ==
    /\ up /\ try[p].pc = "send"
    /\ \E step \in {"sent", "wait"} : try' = [try EXCEPT ![p].pc = step]
    /\ UNCHANGED <<tryFrame, deliveries>>

\* Mutant: the comparison counts the attempt before it is made.
SendOneLess(p) ==
    /\ up /\ try[p].pc = "send"
    /\ \E step \in {"sent", "error"} :
         try' = [try EXCEPT ![p].n = @ + 1,
                            ![p].pc = IF step = "sent" THEN "sent"
                                      ELSE IF try[p].n + 2 >= MaxAttempts
                                      THEN "failed" ELSE "wait"]
    /\ UNCHANGED <<tryFrame, deliveries>>

\* One call of the sender: accepted, or an error and what follows from it.  That of
\* the browser push waits for its answer without a bound.
Send(p) ==
    /\ up /\ try[p].pc = "send"
    /\ \E step \in {"sent", "error"} :
         try' = [try EXCEPT ![p].n = @ + 1,
                            ![p].pc = IF step = "sent" THEN "sent"
                                      ELSE IF try[p].n + 1 >= MaxAttempts
                                      THEN "failed" ELSE "wait"]
    /\ UNCHANGED <<tryFrame, deliveries>>

\* The backoff is over.
Backoff(p) ==
    /\ up /\ try[p].pc = "wait"
    /\ try' = [try EXCEPT ![p].pc = "send"]
    /\ UNCHANGED <<tryFrame, deliveries>>

\* Mutant: the row that is updated is the first one of the rule.
UpdateFirst(p) ==
    /\ up /\ try[p].pc \in {"sent", "failed"}
    /\ deliveries' = [deliveries EXCEPT ![1] =
         IF @ = None THEN None
         ELSE [@ EXCEPT !.status = try[p].pc, !.attempts = try[p].n]]
    /\ try' = [try EXCEPT ![p] = NoTry]
    /\ UNCHANGED tryFrame

\* UpdateDelivery: sent or failed; a purged row is not there any more.
UpdateDelivery(p) ==
    /\ up /\ try[p].pc \in {"sent", "failed"}
    /\ deliveries' = [deliveries EXCEPT ![try[p].id] =
         IF @ = None THEN None
         ELSE [@ EXCEPT !.status = try[p].pc, !.attempts = try[p].n]]
    /\ try' = [try EXCEPT ![p] = NoTry]
    /\ UNCHANGED tryFrame

\* The worker's attempt has returned: dispatch goes on with the next rule.
AttemptReturns ==
    /\ up /\ worker.pc = "attempt" /\ try[Worker].pc = "idle"
    /\ worker' = [worker EXCEPT !.pc = "rule"]
    /\ UNCHANGED <<dispatchFrame, queue, tableVars, memoryVars>>

\* A Retry request's context ends (30 s, or the client left): the send, the backoff
\* or the update of the row that is under way fails, and those that follow.
RetryAbandons(p) ==
    /\ up /\ p \in Retriers /\ try[p].pc # "idle"
    /\ try' = [try EXCEPT ![p] = NoTry]
    /\ UNCHANGED <<tryFrame, deliveries>>

\* RetryNotificationDelivery: the delivery and its channel must still exist.
\* Neither its status nor the channel's flag is looked at.
RetryDelivery(p, i) ==
    /\ up /\ p \in Retriers /\ try[p].pc = "idle"
    /\ counts.retries < MaxRetries /\ Counted("retries")
    /\ deliveries[i] # None /\ deliveries[i].ch # None
    /\ channels[deliveries[i].ch] # None
    /\ try' = [try EXCEPT ![p] = [NoTry EXCEPT !.pc = "reset", !.id = i,
                                                  !.ch = deliveries[i].ch]]
    /\ UNCHANGED <<configVars, queueVars, tableVars, memoryVars, worker, now, up>>

\* Back to pending with no attempts, then the sending loop.
RetryResets(p) ==
    /\ up /\ try[p].pc = "reset"
    /\ deliveries' = [deliveries EXCEPT ![try[p].id] =
         IF @ = None THEN None ELSE [@ EXCEPT !.status = "pending", !.attempts = 0]]
    /\ try' = [try EXCEPT ![p].pc = "send"]
    /\ UNCHANGED tryFrame

----------------------------------------------------------------------------
(* Housekeeping, configuration, restarts *)

quietFrame == <<queueVars, worker, try, now, up>>

\* Throttle.Sweep, every ten minutes.
Sweep ==
    /\ up
    /\ seen' = [r \in Rules |-> [h \in Hosts |->
         IF seen[r][h] # None /\ seen[r][h] < now - SweepAge THEN None ELSE seen[r][h]]]
    /\ seen' # seen
    /\ UNCHANGED <<quietFrame, configVars, tableVars, bucket, passed, counts>>

\* PurgeDeliveries: by age, then all but the newest KeepMax rows.
PurgeDeliveries ==
    /\ up
    /\ LET kept == {i \in Ids : deliveries[i] # None /\ deliveries[i].created >= now - Retention}
           newer(i) == {j \in kept : deliveries[j].created > deliveries[i].created
                                       \/ (deliveries[j].created = deliveries[i].created /\ j > i)}
       IN  deliveries' = [i \in Ids |->
             IF i \in kept /\ (KeepMax = 0 \/ Cardinality(newer(i)) < KeepMax)
             THEN deliveries[i] ELSE None]
    /\ deliveries' # deliveries
    /\ UNCHANGED <<quietFrame, configVars, lastId, memoryVars, counts>>

changeFrame == <<queueVars, memoryVars, worker, try, now, up>>
Change == up /\ counts.changes < MaxChanges /\ Counted("changes")

\* Create, update and toggle of a rule; its channel is a foreign key.
PutRule(r, row) ==
    /\ Change /\ channels[row.ch] # None /\ rules[r] # row
    /\ rules' = [rules EXCEPT ![r] = row]
    /\ UNCHANGED <<changeFrame, channels, retired, dropping, tableVars>>

DeleteRule(r) ==
    /\ Change /\ rules[r] # None
    /\ rules' = [rules EXCEPT ![r] = None]
    /\ UNCHANGED <<changeFrame, channels, retired, dropping, tableVars>>

PutChannel(c, row) ==
    /\ Change /\ c \notin retired /\ channels[c] # row
    /\ channels' = [channels EXCEPT ![c] = row]
    /\ UNCHANGED <<changeFrame, rules, retired, dropping, tableVars>>

\* The channel, its rules (CASCADE) and the references to it (SET NULL).
DeleteChannel(c) ==
    /\ Change /\ channels[c] # None
    /\ channels' = [channels EXCEPT ![c] = None]
    /\ rules' = [r \in Rules |-> IF rules[r] # None /\ rules[r].ch = c THEN None ELSE rules[r]]
    /\ retired' = retired \cup {c} /\ dropping' = dropping \cup {c}
    /\ deliveries' = [i \in Ids |->
         IF deliveries[i] # None /\ deliveries[i].ch = c
         THEN [deliveries[i] EXCEPT !.ch = None] ELSE deliveries[i]]
    /\ UNCHANGED <<changeFrame, lastId>>

\* The handler then drops the bucket.
DropBucket(c) ==
    /\ up /\ c \in dropping
    /\ dropping' = dropping \ {c}
    /\ bucket' = [bucket EXCEPT ![c] = None]
    /\ passed' = [passed EXCEPT ![c] = <<>>]
    /\ UNCHANGED <<quietFrame, channels, rules, retired, tableVars, seen, counts>>

\* The worker's context ends, then the emitter is closed: the queue, the
\* windows and the buckets are memory; the deliveries stay as they are.
PanelStops ==
    /\ up /\ counts.stops < MaxStops /\ Counted("stops")
    /\ up' = FALSE /\ queue' = <<>> /\ worker' = NoEvent
    /\ seen' = [r \in Rules |-> [h \in Hosts |-> None]]
    /\ bucket' = [c \in Channels |-> None] /\ passed' = [c \in Channels |-> <<>>]
    /\ try' = [p \in Procs |-> NoTry] /\ dropping' = {}
    /\ UNCHANGED <<channels, rules, retired, tableVars, dropped, emitted, now>>

PanelStarts ==
    /\ ~up /\ up' = TRUE
    /\ UNCHANGED <<configVars, tableVars, queueVars, memoryVars, worker, try, now, counts>>

Tick(t) ==
    /\ now + t <= MaxTime /\ t > 0 /\ now' = now + t
    /\ UNCHANGED <<configVars, tableVars, queueVars, memoryVars, worker, try, up, counts>>

----------------------------------------------------------------------------
Dispatch == \/ Dequeue \/ ActiveRulesFor \/ EventDone \/ GetChannel \/ RateLimit
            \/ InsertDelivery \/ AttemptReturns \/ (\E x \in worker.todo : Throttled(x))
Attempt(p) == Send(p) \/ Backoff(p) \/ UpdateDelivery(p) \/ RetryResets(p)
Admin == \/ \E r \in Rules, row \in RuleRows : PutRule(r, row)
         \/ \E c \in Channels, row \in ChannelRows : PutChannel(c, row)
         \/ \E r \in Rules : DeleteRule(r)
         \/ \E c \in Channels : DeleteChannel(c) \/ DropBucket(c)

Next == \/ \E h \in Hosts : Emit(h)
        \/ Dispatch
        \/ \E p \in Procs : Attempt(p) \/ RetryAbandons(p)
        \/ \E p \in Retriers, i \in Ids : RetryDelivery(p, i)
        \/ Sweep \/ PurgeDeliveries \/ Admin \/ PanelStops \/ PanelStarts
        \/ \E t \in Ticks : Tick(t)

Spec == Init /\ [][Next]_vars

\* A push that has not been answered.
Pushing(p) == try[p].pc = "send" /\ try[p].ch \in PushChannels

\* The worker and each request are goroutines; every sender but the push has a
\* timeout, so that its calls return; a stopped panel is restarted by its container.
FairSpec == /\ Spec /\ WF_vars(Dispatch) /\ WF_vars(PanelStarts)
            /\ \A p \in Procs : WF_vars(~Pushing(p) /\ Attempt(p))

----------------------------------------------------------------------------
(* Properties *)

\* Every variable keeps its type.
TypeOK ==
    /\ channels \in [Channels -> ChannelRows \cup {None}]
    /\ rules \in [Rules -> RuleRows \cup {None}]
    /\ \A i \in Ids : deliveries[i] # None =>
         deliveries[i].status \in Statuses /\ deliveries[i].attempts \in 0 .. MaxAttempts
    /\ Len(queue) <= QueueCapacity /\ dropped <= emitted
    /\ \A c \in Channels : bucket[c] # None =>
         bucket[c].tokens >= 0 /\ bucket[c].tokens <= 60 * bucket[c].cap
    /\ \A p \in Procs : try[p].n <= MaxAttempts

\* The limiter is a token bucket: while a channel keeps its rate, any run of
\* deliveries it lets pass is at most a burst of rate, plus rate a minute.
RateBound ==
    \A c \in Channels : \A i, j \in 1 .. Len(passed[c]) :
        i <= j => 60 * (j - i + 1) <=
                  60 * bucket[c].cap + bucket[c].cap * (passed[c][j] - passed[c][i])

\* While no rule is edited and the panel runs, a delivery that was not suppressed
\* is made no sooner than its rule's window after the one before it for the same
\* host, though dispatch uses the clock of its start and the sweeper its own.
ThrottleSpacing ==
    counts.stops = 0 /\ counts.changes = 0 =>
      \A i, j \in Ids :
         /\ i < j /\ deliveries[i] # None /\ deliveries[j] # None
         /\ deliveries[i].status # "throttled" /\ deliveries[j].status # "throttled"
         /\ deliveries[i].rule = deliveries[j].rule /\ deliveries[i].host = deliveries[j].host
         => deliveries[j].created - deliveries[i].at >= deliveries[i].window

\* Limiter and throttle, with the types.
LimitsHold == TypeOK /\ RateBound /\ ThrottleSpacing

\* A failed delivery was attempted MaxAttempts times, or never because its
\* template failed, even when the worker and Retry requests handle it at once.
FailedWasTried ==
    \A i \in Ids : deliveries[i] # None /\ deliveries[i].status = "failed"
        => deliveries[i].attempts \in {0, MaxAttempts}

\* A delivery that reached its channel stays sent as long as nobody asked for a
\* retry: no purge, edit, restart or other delivery takes it back.
SentUnlessRetried ==
    [][counts.retries = 0 =>
       \A i \in Ids : deliveries[i] # None /\ deliveries[i].status = "sent"
                        /\ deliveries'[i] # None => deliveries'[i].status = "sent"]_vars

\* A slow or dead channel never stops the worker, unless a push is never answered:
\* every queued event is dispatched, or lost with the panel, and the worker comes
\* to rest.
QueueDrains ==
    []<>~Pushing(Worker) => [](queue # <<>> => <>(queue = <<>> /\ worker.pc = "idle"))
=============================================================================
