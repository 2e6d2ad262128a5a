----------------------- MODULE Notifications_proofs -----------------------
(***************************************************************************)
(* Proofs about Notifications for any number of rules, channels, hosts,    *)
(* events, retries, edits and restarts: the limiter is a token bucket, the *)
(* throttle keeps its windows, a delivery is tried before it is given up,  *)
(* and one that was sent stays sent.                                       *)
(***************************************************************************)
EXTENDS Notifications, SequenceTheorems, TLAPS

Stages == {"idle", "list", "rule", "channel", "limit", "insert", "attempt"}
Steps  == {"idle", "reset", "send", "wait", "sent", "failed"}
Item   == [rule: Rules, row: RuleRows]
Choice == [id: Channels, row: ChannelRows]
Event  == [pc: Stages, host: Hosts \cup {None}, at: Nat, todo: SUBSET Item,
           rule: Item \cup {None}, ch: Choice \cup {None}, status: Statuses]
Loop   == [pc: Steps, id: Nat, ch: Channels \cup {None}, n: 0 .. MaxAttempts]
Bucket == [cap: Nat, tokens: Nat, at: Nat]
Delivery == [rule: Rules, host: Hosts, ch: Channels \cup {None}, status: Statuses,
             attempts: 0 .. MaxAttempts, at: Nat, window: 0 .. SweepAge, created: Nat]

\* The types of the tables, and of what only memory holds.
TableType ==
    /\ channels \in [Channels -> ChannelRows \cup {None}]
    /\ rules \in [Rules -> RuleRows \cup {None}]
    /\ deliveries \in [Ids -> Delivery \cup {None}] /\ lastId \in Nat
    /\ now \in Nat /\ counts \in [retries: Nat, changes: Nat, stops: Nat]
MemoryType ==
    /\ queue \in Seq(Hosts) /\ Len(queue) <= QueueCapacity
    /\ dropped \in Nat /\ emitted \in Nat /\ dropped <= emitted
    /\ seen \in [Rules -> [Hosts -> Nat \cup {None}]]
    /\ bucket \in [Channels -> Bucket \cup {None}] /\ passed \in [Channels -> Seq(Nat)]
LoopType ==
    /\ worker \in Event /\ try \in [Procs -> Loop]
    /\ worker.pc # "idle" => worker.host \in Hosts
    /\ worker.pc \in {"channel", "limit", "insert", "attempt"} => worker.rule \in Item
    /\ worker.pc = "limit" => worker.ch \in Choice

\* What a sending loop has counted at each of its steps.
TryInv ==
    \A p \in Procs :
        /\ try[p].pc \in {"reset", "send", "wait"} => try[p].n < MaxAttempts
        /\ try[p].pc = "failed" => try[p].n = MaxAttempts

\* A dispatch keeps the clock of its start, and no bucket is ahead of it.
ClockInv ==
    /\ worker.at <= now
    /\ \A c \in Channels : bucket[c] # None =>
          /\ bucket[c].at <= now /\ bucket[c].tokens <= 60 * bucket[c].cap
          /\ worker.pc \notin {"idle", "list"} => bucket[c].at <= worker.at

Typed == TableType /\ MemoryType /\ LoopType /\ TryInv /\ ClockInv
----------------------------------------------------------------------------
\* What every step does to the tables.
LEMMA TableStep == Typed /\ [Next]_vars => TableType'
<1> SUFFICES ASSUME Typed, [Next]_vars PROVE TableType'
  OBVIOUS
<1>0. MaxAttempts \in Nat /\ 0 \in 0 .. MaxAttempts /\ Ticks \subseteq Nat
  BY NotificationsAssumption
<1> USE DEF configVars, queueVars, tableVars, memoryVars, dispatchFrame,
        tryFrame, quietFrame, changeFrame, Change, Counted
<1>1. ASSUME UNCHANGED <<channels, rules, deliveries, lastId>>, now' \in Nat,
             counts' \in [retries: Nat, changes: Nat, stops: Nat]
      PROVE  TableType'
  BY <1>1 DEF Typed, TableType
<1>2. CASE (\E h \in Hosts : Emit(h)) \/ Dequeue \/ ActiveRulesFor \/ EventDone \/ GetChannel
           \/ RateLimit \/ AttemptReturns \/ (\E x \in worker.todo : Throttled(x))
  BY <1>1, <1>2 DEF Typed, TableType, Emit, Dequeue, ActiveRulesFor, EventDone, GetChannel, RateLimit,
     AttemptReturns, Throttled
<1>3. CASE InsertDelivery
  <2> DEFINE c == IF worker.ch = None THEN None ELSE worker.ch.id
             d == [rule |-> worker.rule.rule, host |-> worker.host, ch |-> c,
                   status |-> worker.status, attempts |-> 0, at |-> worker.at,
                   window |-> worker.rule.row.window, created |-> now]
  <2>1. worker.rule \in Item /\ worker.host \in Hosts /\ worker.at \in Nat
        /\ worker.status \in Statuses /\ c \in Channels \cup {None} /\ now \in Nat
    BY <1>3 DEF InsertDelivery, Typed, LoopType, TableType, Event, Choice
  <2>2. d \in Delivery
    <3>1. worker.rule.rule \in Rules /\ worker.rule.row.window \in 0 .. SweepAge
      BY <2>1, NotificationsAssumption DEF Item
    <3> QED
      BY <1>0, <2>1, <3>1 DEF Delivery
  <2> HIDE DEF d
  <2>3. deliveries' = deliveries \/ deliveries' = [deliveries EXCEPT ![lastId + 1] = d]
    BY <1>3 DEF InsertDelivery, d
  <2>4. lastId' \in {lastId, lastId + 1} /\ UNCHANGED <<channels, rules, now, counts>>
    BY <1>3 DEF InsertDelivery
  <2> QED
    BY <2>2, <2>3, <2>4 DEF Typed, TableType
<1>4. ASSUME NEW p \in Procs, Send(p) \/ Backoff(p) \/ RetryAbandons(p) PROVE TableType'
  BY <1>1, <1>4 DEF Send, Backoff, RetryAbandons, Typed, TableType
<1>5. ASSUME NEW p \in Procs, UpdateDelivery(p) PROVE TableType'
  <2>1. try[p].pc \in Statuses /\ try[p].n \in 0 .. MaxAttempts
    BY <1>5 DEF UpdateDelivery, Typed, LoopType, Loop, Statuses
  <2>2. ASSUME NEW d \in Delivery
        PROVE  [d EXCEPT !.status = try[p].pc, !.attempts = try[p].n] \in Delivery
    BY <2>1 DEF Delivery
  <2>3. deliveries' \in [Ids -> Delivery \cup {None}]
    BY <1>5, <2>2 DEF UpdateDelivery, Typed, TableType
  <2> QED
    BY <1>5, <2>3 DEF UpdateDelivery, Typed, TableType
<1>6. ASSUME NEW p \in Procs, RetryResets(p) PROVE TableType'
  <2>2. ASSUME NEW d \in Delivery
        PROVE  [d EXCEPT !.status = "pending", !.attempts = 0] \in Delivery
    BY <1>0 DEF Delivery, Statuses
  <2>3. deliveries' \in [Ids -> Delivery \cup {None}]
    BY <1>6, <2>2 DEF RetryResets, Typed, TableType
  <2> QED
    BY <1>6, <2>3 DEF RetryResets, Typed, TableType
<1>7. CASE Sweep \/ PanelStarts \/ (\E t \in Ticks : Tick(t)) \/ (\E c \in Channels : DropBucket(c))
  BY <1>0, <1>1, <1>7 DEF Sweep, PanelStarts, Tick, DropBucket, Typed, TableType
<1>14. CASE (\E p \in Retriers, i \in Ids : RetryDelivery(p, i)) \/ PanelStops
  <2>1. \/ counts' = [counts EXCEPT !.retries = @ + 1]
        \/ counts' = [counts EXCEPT !.stops = @ + 1]
    BY <1>14 DEF RetryDelivery, PanelStops
  <2>2. counts' \in [retries: Nat, changes: Nat, stops: Nat]
    BY <2>1 DEF Typed, TableType
  <2> QED
    BY <1>1, <1>14, <2>2 DEF RetryDelivery, PanelStops, Typed, TableType
<1>8. CASE PurgeDeliveries
  <2>1. deliveries' \in [Ids -> Delivery \cup {None}]
    BY <1>8 DEF PurgeDeliveries, Typed, TableType
  <2> QED
    BY <1>8, <2>1 DEF PurgeDeliveries, Typed, TableType
<1>9. ASSUME Change, UNCHANGED <<lastId, now>> PROVE lastId' \in Nat /\ now' \in Nat
             /\ counts' \in [retries: Nat, changes: Nat, stops: Nat]
  BY <1>9 DEF Typed, TableType
<1>10. ASSUME NEW r \in Rules, DeleteRule(r) \/ \E row \in RuleRows : PutRule(r, row) PROVE TableType'
  BY <1>9, <1>10 DEF DeleteRule, PutRule, Typed, TableType
<1>11. ASSUME NEW c \in Channels, NEW row \in ChannelRows, PutChannel(c, row) PROVE TableType'
  BY <1>9, <1>11 DEF PutChannel, Typed, TableType
<1>12. ASSUME NEW c \in Channels, DeleteChannel(c) PROVE TableType'
  <2>1. ASSUME NEW d \in Delivery PROVE [d EXCEPT !.ch = None] \in Delivery
    BY DEF Delivery
  <2>2. deliveries' \in [Ids -> Delivery \cup {None}]
    BY <1>12, <2>1 DEF DeleteChannel, Typed, TableType
  <2>3. channels' \in [Channels -> ChannelRows \cup {None}] /\ rules' \in [Rules -> RuleRows \cup {None}]
    BY <1>12 DEF DeleteChannel, Typed, TableType
  <2> QED
    BY <1>9, <1>12, <2>2, <2>3 DEF DeleteChannel, TableType
<1>13. CASE UNCHANGED vars
  BY <1>13 DEF vars, Typed, TableType
<1> QED
  BY <1>2, <1>3, <1>4, <1>5, <1>6, <1>7, <1>8, <1>10, <1>11, <1>12, <1>13,
     <1>14 DEF Next, Dispatch, Attempt, Admin

\* A refill is a bucket of the channel's rate with at most its burst of tokens,
\* and at most those that the time since the last refill has earned.
LEMMA RefilledType ==
    ASSUME NEW c \in Channels, NEW rate \in Nat, bucket[c] \in Bucket \cup {None},
           worker.at \in Nat, bucket[c] # None => bucket[c].at <= worker.at
    PROVE  LET b == Refilled(c, rate)
               fresh == bucket[c] = None \/ bucket[c].cap # rate
           IN  /\ b \in Bucket /\ b.cap = rate /\ b.at = worker.at /\ b.tokens <= 60 * rate
               /\ fresh => b.tokens = 60 * rate
               /\ ~fresh => b.tokens <= bucket[c].tokens + (worker.at - bucket[c].at) * rate
<1>1. CASE bucket[c] = None \/ bucket[c].cap # rate
  BY <1>1 DEF Refilled, Bucket
<1>2. CASE bucket[c] # None /\ bucket[c].cap = rate
  <2> DEFINE earned == (worker.at - bucket[c].at) * rate
  <2>1. bucket[c] \in Bucket /\ worker.at - bucket[c].at \in Nat
    BY <1>2 DEF Bucket
  <2>2. earned \in Nat
    BY <2>1
  <2> HIDE DEF earned
  <2>3. Least(60 * rate, bucket[c].tokens + earned) \in Nat
        /\ Least(60 * rate, bucket[c].tokens + earned) <= 60 * rate
        /\ Least(60 * rate, bucket[c].tokens + earned) <= bucket[c].tokens + earned
    BY <2>1, <2>2 DEF Least, Bucket
  <2>4. Refilled(c, rate) = [bucket[c] EXCEPT !.tokens = Least(60 * rate, @ + earned), !.at = worker.at]
    BY <1>2 DEF Refilled, earned
  <2>5. /\ Refilled(c, rate).cap = rate /\ Refilled(c, rate).at = worker.at
        /\ Refilled(c, rate).tokens = Least(60 * rate, bucket[c].tokens + earned)
        /\ Refilled(c, rate) \in Bucket
    BY <1>2, <2>1, <2>3, <2>4 DEF Bucket
  <2> QED
    BY <1>2, <2>3, <2>5 DEF earned
<1> QED
  BY <1>1, <1>2

\* What every step does to the emitter, the windows and the buckets.
LEMMA MemoryStep == Typed /\ [Next]_vars => MemoryType'
<1> SUFFICES ASSUME Typed, [Next]_vars PROVE MemoryType'
  OBVIOUS
<1> USE DEF configVars, queueVars, tableVars, memoryVars, dispatchFrame,
        tryFrame, quietFrame, changeFrame, Change
<1>1. CASE UNCHANGED <<queueVars, memoryVars>>
  BY <1>1 DEF Typed, MemoryType
<1>2. CASE EventDone \/ ActiveRulesFor \/ GetChannel \/ InsertDelivery \/ AttemptReturns
           \/ (\E p \in Procs : Attempt(p) \/ RetryAbandons(p))
           \/ (\E p \in Retriers, i \in Ids : RetryDelivery(p, i))
           \/ PurgeDeliveries \/ PanelStarts \/ (\E t \in Ticks : Tick(t))
           \/ (\E r \in Rules, row \in RuleRows : PutRule(r, row))
           \/ (\E c \in Channels, row \in ChannelRows : PutChannel(c, row))
           \/ (\E r \in Rules : DeleteRule(r)) \/ (\E c \in Channels : DeleteChannel(c))
           \/ UNCHANGED vars
  <2>1. UNCHANGED <<queueVars, memoryVars>>
    BY <1>2 DEF EventDone, ActiveRulesFor, GetChannel, InsertDelivery, AttemptReturns, Attempt, Send,
       Backoff, UpdateDelivery, RetryResets, RetryAbandons, RetryDelivery, PurgeDeliveries,
       PanelStarts, Tick, PutRule, PutChannel, DeleteRule, DeleteChannel, vars
  <2> QED
    BY <1>1, <2>1
<1>3. ASSUME NEW h \in Hosts, Emit(h) PROVE MemoryType'
  <2>1. Append(queue, h) \in Seq(Hosts) /\ Len(Append(queue, h)) = Len(queue) + 1
    BY AppendProperties DEF Typed, MemoryType
  <2>2. Len(queue) \in Nat /\ QueueCapacity \in Nat
    BY NotificationsAssumption, LenProperties DEF Typed, MemoryType
  <2>3. queue' \in Seq(Hosts) /\ Len(queue') <= QueueCapacity
    <3>1. CASE Len(queue) < QueueCapacity /\ queue' = Append(queue, h)
      BY <2>1, <2>2, <3>1
    <3>2. CASE queue' = queue
      BY <3>2 DEF Typed, MemoryType
    <3> QED
      BY <1>3, <3>1, <3>2 DEF Emit
  <2>4. dropped' \in Nat /\ emitted' \in Nat /\ dropped' <= emitted'
    BY <1>3 DEF Emit, Typed, MemoryType
  <2> QED
    BY <1>3, <2>3, <2>4 DEF Emit, Typed, MemoryType
<1>4. CASE Dequeue
  <2>1. Tail(queue) \in Seq(Hosts) /\ Len(Tail(queue)) <= Len(queue)
    BY <1>4, HeadTailProperties, LenProperties DEF Dequeue, Typed, MemoryType
  <2>2. Len(queue) \in Nat /\ Len(Tail(queue)) \in Nat /\ QueueCapacity \in Nat
    BY <2>1, NotificationsAssumption, LenProperties DEF Typed, MemoryType
  <2> QED
    BY <1>4, <2>1, <2>2 DEF Dequeue, Typed, MemoryType
<1>5. ASSUME NEW x \in worker.todo, Throttled(x) PROVE MemoryType'
  <2>1. worker.at \in Nat /\ worker.host \in Hosts /\ x.rule \in Rules
    BY <1>5 DEF Throttled, Typed, LoopType, Event, Item
  <2>2. seen' \in [Rules -> [Hosts -> Nat \cup {None}]]
    <3>1. UNCHANGED seen \/ seen' = [seen EXCEPT ![x.rule][worker.host] = worker.at]
      BY <1>5 DEF Throttled
    <3>2. seen[x.rule] \in [Hosts -> Nat \cup {None}] /\ seen \in [Rules -> [Hosts -> Nat \cup {None}]]
      BY <2>1 DEF Typed, MemoryType
    <3>3. [seen[x.rule] EXCEPT ![worker.host] = worker.at] \in [Hosts -> Nat \cup {None}]
      BY <2>1, <3>2
    <3> QED
      BY <2>1, <3>1, <3>2, <3>3
  <2> QED
    BY <1>5, <2>2 DEF Throttled, Typed, MemoryType
<1>6. CASE Sweep
  <2>1. seen' \in [Rules -> [Hosts -> Nat \cup {None}]]
    BY <1>6 DEF Sweep, Typed, MemoryType
  <2> QED
    BY <1>6, <2>1 DEF Sweep, Typed, MemoryType
<1>7. ASSUME NEW c \in Channels, DropBucket(c) PROVE MemoryType'
  <2>1. bucket' \in [Channels -> Bucket \cup {None}] /\ passed' \in [Channels -> Seq(Nat)]
    <3>1. <<>> \in Seq(Nat)
      BY EmptySeq
    <3> QED
      BY <1>7, <3>1 DEF DropBucket, Typed, MemoryType
  <2> QED
    BY <1>7, <2>1 DEF DropBucket, Typed, MemoryType
<1>8. CASE PanelStops
  <2>1. /\ seen' \in [Rules -> [Hosts -> Nat \cup {None}]]
        /\ bucket' \in [Channels -> Bucket \cup {None}] /\ passed' \in [Channels -> Seq(Nat)]
        /\ queue' = <<>>
    <3>1. <<>> \in Seq(Nat)
      BY EmptySeq
    <3> QED
      BY <1>8, <3>1 DEF PanelStops, Typed, MemoryType
  <2>2. queue' \in Seq(Hosts) /\ Len(queue') <= QueueCapacity
    BY <2>1, NotificationsAssumption, EmptySeq
  <2> QED
    BY <1>8, <2>1, <2>2 DEF PanelStops, Typed, MemoryType
<1>9. CASE RateLimit
  <2> DEFINE c == worker.ch.id
             rate == worker.ch.row.rate
             b == Refilled(c, rate)
             fresh == bucket[c] = None \/ bucket[c].cap # rate
             log == IF fresh THEN <<>> ELSE passed[c]
  <2>1. c \in Channels /\ rate \in Nat /\ worker.at \in Nat /\ bucket[c] \in Bucket \cup {None}
        /\ (bucket[c] # None => bucket[c].at <= worker.at) /\ passed[c] \in Seq(Nat)
    BY <1>9, NotificationsAssumption
       DEF RateLimit, Typed, LoopType, MemoryType, ClockInv, Event, Choice
  <2>2. b \in Bucket
    BY <2>1, RefilledType
  <2>3. log \in Seq(Nat) /\ Append(log, worker.at) \in Seq(Nat)
    BY <2>1, EmptySeq, AppendProperties
  <2>4. b.tokens >= 60 => [b EXCEPT !.tokens = @ - 60] \in Bucket
    BY <2>2 DEF Bucket
  <2> HIDE DEF b, log
  <2>5. \/ UNCHANGED <<bucket, passed>>
        \/ b.tokens < 60 /\ bucket' = [bucket EXCEPT ![c] = b] /\ passed' = [passed EXCEPT ![c] = log]
        \/ /\ ~(b.tokens < 60) /\ bucket' = [bucket EXCEPT ![c] = [b EXCEPT !.tokens = @ - 60]]
           /\ passed' = [passed EXCEPT ![c] = Append(log, worker.at)]
    BY <1>9 DEF RateLimit, b, log
  <2>6. bucket' \in [Channels -> Bucket \cup {None}] /\ passed' \in [Channels -> Seq(Nat)]
    <3>1. ~(b.tokens < 60) => b.tokens >= 60
      BY <2>2 DEF Bucket
    <3> HIDE DEF c
    <3> QED
      BY <2>1, <2>2, <2>3, <2>4, <2>5, <3>1 DEF Typed, MemoryType
  <2> QED
    BY <1>9, <2>6 DEF RateLimit, Typed, MemoryType
<1> QED
  BY <1>2, <1>3, <1>4, <1>5, <1>6, <1>7, <1>8, <1>9 DEF Next, Dispatch, Admin

\* What every step does to the worker and to the sending loops.
LEMMA LoopStep == Typed /\ [Next]_vars => LoopType' /\ TryInv'
<1> SUFFICES ASSUME Typed, [Next]_vars PROVE LoopType' /\ TryInv'
  OBVIOUS
<1>0. MaxAttempts \in Nat \ {0}
  BY NotificationsAssumption
<1> USE DEF configVars, queueVars, tableVars, memoryVars, dispatchFrame,
        tryFrame, quietFrame, changeFrame, Change
<1>1. CASE (\E h \in Hosts : Emit(h)) \/ Sweep \/ PurgeDeliveries \/ PanelStarts
           \/ (\E t \in Ticks : Tick(t)) \/ (\E c \in Channels : DropBucket(c))
           \/ (\E r \in Rules, row \in RuleRows : PutRule(r, row))
           \/ (\E c \in Channels, row \in ChannelRows : PutChannel(c, row))
           \/ (\E r \in Rules : DeleteRule(r)) \/ (\E c \in Channels : DeleteChannel(c))
           \/ UNCHANGED vars
  <2>1. UNCHANGED <<worker, try>>
    BY <1>1 DEF Emit, Sweep, PurgeDeliveries, PanelStarts, Tick, DropBucket, PutRule, PutChannel,
       DeleteRule, DeleteChannel, vars
  <2> QED
    BY <2>1 DEF Typed, LoopType, TryInv
<1>2. ASSUME UNCHANGED try, worker' \in Event, worker'.pc # "idle" => worker'.host \in Hosts,
             worker'.pc \in {"channel", "limit", "insert", "attempt"} => worker'.rule \in Item,
             worker'.pc = "limit" => worker'.ch \in Choice
      PROVE  LoopType' /\ TryInv'
  BY <1>2 DEF Typed, LoopType, TryInv
<1>3. NoEvent \in Event
  BY DEF NoEvent, Event, Stages, Statuses
<1>13. NoTry \in Loop /\ NoTry.pc = "idle" /\ NoTry.n = 0
  BY <1>0 DEF NoTry, Loop, Steps
<1>19. ASSUME NEW i \in Nat, NEW c \in Channels \cup {None}, NEW s \in {"send", "reset"}
       PROVE  /\ [NoTry EXCEPT !.pc = s, !.id = i, !.ch = c] \in Loop
              /\ [NoTry EXCEPT !.pc = s, !.id = i, !.ch = c].pc = s
              /\ [NoTry EXCEPT !.pc = s, !.id = i, !.ch = c].n = 0
  BY <1>13 DEF Loop, Steps
<1>4. CASE Dequeue
  <2>1. Head(queue) \in Hosts
    BY <1>4, HeadTailProperties DEF Dequeue, Typed, MemoryType
  <2>2. [NoEvent EXCEPT !.pc = "list", !.host = Head(queue)] \in Event
    BY <2>1 DEF NoEvent, Event, Stages, Statuses
  <2> QED
    BY <1>2, <1>4, <2>1, <2>2 DEF Dequeue, NoEvent
<1>5. CASE EventDone
  BY <1>2, <1>3, <1>5 DEF EventDone, NoEvent
<1>6. CASE ActiveRulesFor
  <2>1. {[rule |-> r, row |-> rules[r]] : r \in {x \in Rules : rules[x] # None /\ rules[x].on}}
          \subseteq Item
    BY DEF Item, Typed, TableType
  <2>2. now \in Nat
    BY DEF Typed, TableType
  <2>3. worker' \in Event /\ worker'.pc = "rule" /\ worker'.host = worker.host
    BY <1>6, <2>1, <2>2 DEF ActiveRulesFor, Typed, LoopType, Event, Stages
  <2> QED
    BY <1>2, <1>6, <2>3 DEF ActiveRulesFor, Typed, LoopType
<1>7. ASSUME NEW x \in worker.todo, Throttled(x) PROVE LoopType' /\ TryInv'
  <2> DEFINE rest == [worker EXCEPT !.todo = @ \ {x}, !.rule = x]
  <2>1. rest \in Event /\ rest.rule = x /\ x \in Item /\ rest.host = worker.host /\ rest.pc = "rule"
    BY <1>7 DEF Throttled, Typed, LoopType, Event
  <2> HIDE DEF rest
  <2>2. /\ [rest EXCEPT !.pc = "insert", !.status = "throttled", !.ch = None] \in Event
        /\ [rest EXCEPT !.pc = "channel"] \in Event
    BY <2>1 DEF Event, Stages, Statuses
  <2>3. worker' \in {rest, [rest EXCEPT !.pc = "insert", !.status = "throttled", !.ch = None],
                      [rest EXCEPT !.pc = "channel"]}
    BY <1>7 DEF Throttled, rest
  <2>4. worker'.rule = x /\ worker'.host = worker.host /\ worker'.pc \in {"rule", "insert", "channel"}
    BY <2>1, <2>3 DEF Event
  <2> QED
    BY <1>2, <1>7, <2>1, <2>2, <2>3, <2>4 DEF Throttled, Typed, LoopType
<1>8. CASE GetChannel
  <2>1. worker.rule \in Item /\ worker.rule.row.ch \in Channels /\ worker.host \in Hosts
    BY <1>8, NotificationsAssumption DEF GetChannel, Typed, LoopType, Item
  <2> DEFINE c == worker.rule.row.ch
             pick == [id |-> c, row |-> channels[c]]
  <2>2. channels[c] # None => pick \in Choice
    BY <2>1 DEF Choice, Typed, TableType
  <2> HIDE DEF pick
  <2>3. \/ worker' = [worker EXCEPT !.pc = "rule"]
        \/ pick \in Choice /\ worker' = [worker EXCEPT !.pc = "limit", !.ch = pick]
        \/ pick \in Choice /\ worker' = [worker EXCEPT !.pc = "insert", !.status = "failed", !.ch = pick]
    BY <1>8, <2>2 DEF GetChannel, pick
  <2>4. worker' \in Event /\ worker'.rule = worker.rule /\ worker'.host = worker.host
        /\ (worker'.pc = "limit" => worker'.ch \in Choice)
    BY <2>3 DEF Typed, LoopType, Event, Stages, Statuses
  <2> QED
    BY <1>2, <1>8, <2>1, <2>4 DEF GetChannel
<1>9. CASE RateLimit
  <2>1. \E s \in {"pending", "rate_limited"} : worker' = [worker EXCEPT !.pc = "insert", !.status = s]
    BY <1>9 DEF RateLimit
  <2>2. worker' \in Event /\ worker'.rule = worker.rule /\ worker'.host = worker.host
        /\ worker'.pc = "insert"
    BY <2>1 DEF Typed, LoopType, Event, Stages, Statuses
  <2> QED
    BY <1>2, <1>9, <2>2 DEF RateLimit, Typed, LoopType
<1>10. CASE InsertDelivery
  <2> DEFINE c == IF worker.ch = None THEN None ELSE worker.ch.id
  <2>1. /\ \E s \in {"rule", "attempt"} : worker' = [worker EXCEPT !.pc = s]
        /\ \/ UNCHANGED try
           \/ try' = [try EXCEPT ![Worker] = [NoTry EXCEPT !.pc = "send", !.id = lastId + 1, !.ch = c]]
    BY <1>10 DEF InsertDelivery
  <2>2. worker' \in Event /\ worker'.rule = worker.rule /\ worker'.host = worker.host
        /\ worker'.pc # "limit" /\ worker.rule \in Item /\ worker.host \in Hosts
    BY <1>10, <2>1 DEF InsertDelivery, Typed, LoopType, Event, Stages
  <2> DEFINE g == [NoTry EXCEPT !.pc = "send", !.id = lastId + 1, !.ch = c]
  <2>5. lastId + 1 \in Nat /\ c \in Channels \cup {None}
    BY DEF Typed, TableType, LoopType, Event, Choice
  <2>3. g \in Loop /\ g.pc = "send" /\ g.n = 0
    BY <1>19, <2>5
  <2>4. try' \in [Procs -> Loop] /\ TryInv'
    <3>1. UNCHANGED try \/ try' = [try EXCEPT ![Worker] = g]
      BY <2>1, <2>3
    <3> HIDE DEF g
    <3>2. g.pc # "failed" /\ g.n < MaxAttempts
      BY <1>0, <2>3
    <3> QED
      BY <2>3, <3>1, <3>2 DEF Typed, LoopType, TryInv
  <2> QED
    BY <2>2, <2>4 DEF LoopType
<1>11. CASE AttemptReturns
  <2>1. worker' \in Event /\ worker'.rule = worker.rule /\ worker'.host = worker.host
        /\ worker'.pc = "rule"
    BY <1>11 DEF AttemptReturns, Typed, LoopType, Event, Stages
  <2> QED
    BY <1>2, <1>11, <2>1 DEF AttemptReturns, Typed, LoopType
<1>12. ASSUME NEW p \in Procs, NEW g \in Loop, try' = [try EXCEPT ![p] = g], UNCHANGED worker,
              g.pc \in {"reset", "send", "wait"} => g.n < MaxAttempts,
              g.pc = "failed" => g.n = MaxAttempts
       PROVE  LoopType' /\ TryInv'
  BY <1>12 DEF Typed, LoopType, TryInv
<1>14. ASSUME NEW p \in Procs, UpdateDelivery(p) \/ RetryAbandons(p) PROVE LoopType' /\ TryInv'
  BY <1>12, <1>13, <1>14 DEF UpdateDelivery, RetryAbandons
<1>15. ASSUME NEW p \in Procs, Backoff(p) \/ RetryResets(p) PROVE LoopType' /\ TryInv'
  <2>1. try' = [try EXCEPT ![p] = [try[p] EXCEPT !.pc = "send"]]
    BY <1>15 DEF Backoff, RetryResets, Typed, LoopType
  <2>2. [try[p] EXCEPT !.pc = "send"] \in Loop /\ try[p].n < MaxAttempts
        /\ [try[p] EXCEPT !.pc = "send"].n = try[p].n
    BY <1>15 DEF Backoff, RetryResets, Typed, LoopType, TryInv, Loop, Steps
  <2> QED
    BY <1>12, <1>15, <2>1, <2>2 DEF Backoff, RetryResets, Loop
<1>16. ASSUME NEW p \in Procs, Send(p) PROVE LoopType' /\ TryInv'
  <2>1. PICK step \in {"sent", "error"} :
          try' = [try EXCEPT ![p].n = @ + 1,
                             ![p].pc = IF step = "sent" THEN "sent"
                                       ELSE IF try[p].n + 1 >= MaxAttempts THEN "failed" ELSE "wait"]
    BY <1>16 DEF Send
  <2> DEFINE pc == IF step = "sent" THEN "sent"
                   ELSE IF try[p].n + 1 >= MaxAttempts THEN "failed" ELSE "wait"
             g == [try[p] EXCEPT !.n = @ + 1, !.pc = pc]
  <2>2. try' = [try EXCEPT ![p] = g]
    BY <2>1 DEF Typed, LoopType, Loop
  <2>3. try[p] \in Loop /\ try[p].n < MaxAttempts
    BY <1>16 DEF Send, Typed, LoopType, TryInv
  <2>4. g \in Loop /\ g.n = try[p].n + 1 /\ g.pc = pc
    <3>1. pc \in Steps
      BY DEF Steps
    <3>2. try[p].n + 1 \in 0 .. MaxAttempts
      BY <1>0, <2>3 DEF Loop
    <3> HIDE DEF pc
    <3> QED
      BY <2>3, <3>1, <3>2 DEF Loop
  <2>5. g.pc = "wait" => g.n < MaxAttempts
    BY <1>0, <2>3, <2>4 DEF Loop
  <2>6. g.pc = "failed" => g.n = MaxAttempts
    BY <1>0, <2>3, <2>4 DEF Loop
  <2>7. g.pc \notin {"reset", "send"}
    BY <2>4
  <2>8. UNCHANGED worker
    BY <1>16 DEF Send
  <2> HIDE DEF g
  <2> QED
    BY <1>12, <2>2, <2>4, <2>5, <2>6, <2>7, <2>8
<1>17. ASSUME NEW p \in Retriers, NEW i \in Ids, RetryDelivery(p, i) PROVE LoopType' /\ TryInv'
  <2> DEFINE c == deliveries[i].ch
             g == [NoTry EXCEPT !.pc = "reset", !.id = i, !.ch = c]
  <2>4. i \in Nat /\ p \in Procs /\ c \in Channels \cup {None}
    BY <1>17 DEF RetryDelivery, Ids, Procs, Typed, TableType, Delivery
  <2>1. g \in Loop /\ g.pc = "reset" /\ g.n = 0
    BY <1>19, <2>4
  <2>2. try' = [try EXCEPT ![p] = g] /\ UNCHANGED worker
    BY <1>17, <2>1 DEF RetryDelivery
  <2>3. g.pc # "failed" /\ g.n < MaxAttempts
    BY <1>0, <2>1
  <2> HIDE DEF g
  <2> QED
    BY <1>12, <2>1, <2>2, <2>3, <2>4
<1>18. CASE PanelStops
  BY <1>3, <1>13, <1>18 DEF PanelStops, NoEvent, LoopType, TryInv
<1> QED
  BY <1>1, <1>4, <1>5, <1>6, <1>7, <1>8, <1>9, <1>10, <1>11, <1>14, <1>15, <1>16, <1>17, <1>18
     DEF Next, Dispatch, Attempt, Admin

\* Time does not go back, and a dispatch that begins takes the latest clock.
LEMMA ClockStep == Typed /\ [Next]_vars => ClockInv'
<1> SUFFICES ASSUME Typed, [Next]_vars PROVE ClockInv'
  OBVIOUS
<1> USE DEF configVars, queueVars, tableVars, memoryVars, dispatchFrame,
        tryFrame, quietFrame, changeFrame, Change
<1>1. CASE UNCHANGED <<worker, now, bucket>>
  BY <1>1 DEF Typed, ClockInv
<1>2. CASE (\E h \in Hosts : Emit(h)) \/ Sweep \/ PurgeDeliveries \/ PanelStarts
           \/ (\E r \in Rules, row \in RuleRows : PutRule(r, row))
           \/ (\E c \in Channels, row \in ChannelRows : PutChannel(c, row))
           \/ (\E r \in Rules : DeleteRule(r)) \/ (\E c \in Channels : DeleteChannel(c))
           \/ (\E p \in Procs : Attempt(p) \/ RetryAbandons(p))
           \/ (\E p \in Retriers, i \in Ids : RetryDelivery(p, i))
           \/ UNCHANGED vars
  <2>1. UNCHANGED <<worker, now, bucket>>
    BY <1>2 DEF Emit, Sweep, PurgeDeliveries, PanelStarts, PutRule, PutChannel, DeleteRule,
       DeleteChannel, Attempt, Send, Backoff, UpdateDelivery, RetryResets, RetryAbandons,
       RetryDelivery, vars
  <2> QED
    BY <1>1, <2>1
<1>3. ASSUME UNCHANGED <<now, bucket>>, worker'.at = worker.at,
             worker.pc \notin {"idle", "list"} \/ worker'.pc \in {"idle", "list"}
      PROVE  ClockInv'
  BY <1>3 DEF Typed, ClockInv
<1>4. ASSUME NEW x \in worker.todo, Throttled(x) PROVE ClockInv'
  <2>1. worker'.at = worker.at
    BY <1>4 DEF Throttled, Typed, LoopType, Event
  <2> QED
    BY <1>3, <1>4, <2>1 DEF Throttled
<1>5. CASE GetChannel \/ InsertDelivery \/ AttemptReturns
  <2>1. worker'.at = worker.at
    BY <1>5 DEF GetChannel, InsertDelivery, AttemptReturns, Typed, LoopType, Event
  <2> QED
    BY <1>3, <1>5, <2>1 DEF GetChannel, InsertDelivery, AttemptReturns
<1>6. CASE Dequeue \/ EventDone
  <2>1. NoEvent.at = 0 /\ NoEvent.pc = "idle" /\ now \in Nat
    BY DEF NoEvent, Typed, TableType
  <2>2. [NoEvent EXCEPT !.pc = "list", !.host = Head(queue)].at = 0
        /\ [NoEvent EXCEPT !.pc = "list", !.host = Head(queue)].pc = "list"
    BY DEF NoEvent
  <2>3. worker'.at = 0 /\ worker'.pc \in {"idle", "list"} /\ UNCHANGED <<now, bucket>>
    BY <1>6, <2>1, <2>2 DEF Dequeue, EventDone
  <2> QED
    BY <2>1, <2>3 DEF Typed, ClockInv
<1>7. CASE ActiveRulesFor
  <2>1. worker'.at = now /\ UNCHANGED <<now, bucket>> /\ now \in Nat
    BY <1>7 DEF ActiveRulesFor, Typed, LoopType, Event, TableType
  <2> QED
    BY <2>1 DEF Typed, ClockInv
<1>8. CASE RateLimit
  <2> DEFINE c == worker.ch.id
             rate == worker.ch.row.rate
             b == Refilled(c, rate)
  <2>1. c \in Channels /\ rate \in Nat /\ worker.at \in Nat /\ bucket[c] \in Bucket \cup {None}
        /\ (bucket[c] # None => bucket[c].at <= worker.at) /\ worker.at <= now /\ now \in Nat
    BY <1>8, NotificationsAssumption
       DEF RateLimit, Typed, LoopType, MemoryType, TableType, ClockInv, Event, Choice
  <2>2. b \in Bucket /\ b.at = worker.at /\ b.cap = rate /\ b.tokens <= 60 * rate
    BY <2>1, RefilledType
  <2> HIDE DEF b
  <2>3. PICK g : /\ g \in {b, [b EXCEPT !.tokens = @ - 60]}
                 /\ UNCHANGED bucket \/ bucket' = [bucket EXCEPT ![c] = g]
    BY <1>8 DEF RateLimit, b
  <2>4. g.at = worker.at /\ g.cap = rate /\ g.tokens <= 60 * g.cap
    BY <2>1, <2>2, <2>3 DEF Bucket
  <2>5. worker'.at = worker.at /\ now' = now
    BY <1>8 DEF RateLimit, Typed, LoopType, Event
  <2>6. bucket \in [Channels -> Bucket \cup {None}] /\ worker.pc = "limit"
    BY <1>8 DEF RateLimit, Typed, MemoryType
  <2> HIDE DEF c, rate
  <2> QED
    BY <2>1, <2>3, <2>4, <2>5, <2>6 DEF Typed, ClockInv
<1>9. ASSUME NEW t \in Ticks, Tick(t) PROVE ClockInv'
  <2>1. now' >= now /\ now' \in Nat /\ now \in Nat /\ UNCHANGED <<worker, bucket>> /\ worker.at \in Nat
    BY <1>9, NotificationsAssumption DEF Tick, Typed, TableType, LoopType, Event
  <2>2. \A c \in Channels : bucket[c] # None => bucket[c].at \in Nat
    BY DEF Typed, MemoryType, Bucket
  <2> QED
    BY <2>1, <2>2 DEF Typed, ClockInv
<1>10. ASSUME NEW c \in Channels, DropBucket(c) PROVE ClockInv'
  BY <1>10 DEF DropBucket, Typed, MemoryType, ClockInv
<1>11. CASE PanelStops
  BY <1>11 DEF PanelStops, NoEvent, Typed, TableType, ClockInv
<1> QED
  BY <1>2, <1>4, <1>5, <1>6, <1>7, <1>8, <1>9, <1>10, <1>11 DEF Next, Dispatch, Admin

\* The types and the clock are kept by every step, and hold at the start.
LEMMA TypedStep == Typed /\ [Next]_vars => Typed'
  BY TableStep, MemoryStep, LoopStep, ClockStep DEF Typed

\* The initial state has the types.
LEMMA TypedInit == Init => Typed
<1> SUFFICES ASSUME Init PROVE Typed
  OBVIOUS
<1> USE NotificationsAssumption
<1>1. TableType
  BY DEF Init, TableType
<1>2. <<>> \in Seq(Nat) /\ <<>> \in Seq(Hosts) /\ Len(<<>>) = 0
  BY EmptySeq
<1>3. MemoryType
  BY <1>2 DEF Init, MemoryType
<1>4. NoEvent \in Event /\ NoTry \in Loop
  BY DEF NoEvent, Event, Stages, Statuses, NoTry, Loop, Steps
<1>5. LoopType /\ TryInv
  BY <1>4 DEF Init, LoopType, TryInv, NoEvent, NoTry
<1>6. ClockInv
  BY DEF Init, ClockInv, NoEvent
<1> QED
  BY <1>1, <1>3, <1>5, <1>6 DEF Typed
----------------------------------------------------------------------------
\* What a step may do to a row of the deliveries: keep it, finish or reset it,
\* or insert it with the next id.
NewRow ==
    [rule |-> worker.rule.rule, host |-> worker.host,
     ch |-> IF worker.ch = None THEN None ELSE worker.ch.id,
     status |-> worker.status, attempts |-> 0, at |-> worker.at,
     window |-> worker.rule.row.window, created |-> now]
SameRow(i) ==
    /\ deliveries[i] # None
    /\ deliveries'[i].rule = deliveries[i].rule /\ deliveries'[i].host = deliveries[i].host
    /\ deliveries'[i].at = deliveries[i].at /\ deliveries'[i].window = deliveries[i].window
    /\ deliveries'[i].created = deliveries[i].created
    /\ deliveries'[i].ch \in {deliveries[i].ch, None}
Untouched(i) == /\ deliveries'[i].status = deliveries[i].status
                /\ deliveries'[i].attempts = deliveries[i].attempts
Finished(i, p) == /\ UpdateDelivery(p) /\ try[p].id = i
                  /\ deliveries'[i].status = try[p].pc /\ deliveries'[i].attempts = try[p].n
ResetBy(i, p) == /\ RetryResets(p) /\ try[p].id = i
                 /\ deliveries'[i].status = "pending" /\ deliveries'[i].attempts = 0
Inserted(i) == InsertDelivery /\ i = lastId + 1 /\ lastId' = lastId + 1 /\ deliveries'[i] = NewRow

\* Those are all the things a step may do to a row that it leaves in the table.
LEMMA RowStep ==
    ASSUME Typed, [Next]_vars, NEW i \in Ids, deliveries'[i] # None
    PROVE  \/ SameRow(i) /\ \/ Untouched(i)
                            \/ \E p \in Procs : Finished(i, p) \/ ResetBy(i, p)
           \/ Inserted(i)
<1> USE DEF configVars, queueVars, tableVars, memoryVars, dispatchFrame,
        tryFrame, quietFrame, changeFrame, Change
<1>1. deliveries \in [Ids -> Delivery \cup {None}]
  BY DEF Typed, TableType
<1>2. CASE deliveries'[i] = deliveries[i]
  BY <1>2 DEF SameRow, Untouched
<1>3. CASE (\E h \in Hosts : Emit(h)) \/ Sweep \/ PurgeDeliveries \/ PanelStarts \/ PanelStops
           \/ Dequeue \/ ActiveRulesFor \/ EventDone \/ GetChannel \/ RateLimit \/ AttemptReturns
           \/ (\E x \in worker.todo : Throttled(x))
           \/ (\E r \in Rules, row \in RuleRows : PutRule(r, row))
           \/ (\E c \in Channels, row \in ChannelRows : PutChannel(c, row))
           \/ (\E r \in Rules : DeleteRule(r)) \/ (\E c \in Channels : DropBucket(c))
           \/ (\E p \in Procs : Send(p) \/ Backoff(p) \/ RetryAbandons(p))
           \/ (\E p \in Retriers, j \in Ids : RetryDelivery(p, j))
           \/ (\E t \in Ticks : Tick(t)) \/ UNCHANGED vars
  <2>1. CASE PurgeDeliveries
    BY <1>2, <2>1 DEF PurgeDeliveries
  <2>2. CASE ~PurgeDeliveries
    <3>1. UNCHANGED deliveries
      BY <1>3, <2>2 DEF Emit, Sweep, PanelStarts, PanelStops, Dequeue, ActiveRulesFor, EventDone,
         GetChannel, RateLimit, AttemptReturns, Throttled, PutRule, PutChannel, DeleteRule,
         DropBucket, Send, Backoff, RetryAbandons, RetryDelivery, Tick, vars
    <3> QED
      BY <1>2, <3>1
  <2> QED
    BY <2>1, <2>2
<1>4. CASE InsertDelivery
  <2>1. \/ UNCHANGED deliveries
        \/ lastId' = lastId + 1 /\ deliveries' = [deliveries EXCEPT ![lastId + 1] = NewRow]
    BY <1>4 DEF InsertDelivery, NewRow
  <2> QED
    BY <1>1, <1>2, <1>4, <2>1 DEF Inserted
<1>5. ASSUME NEW p \in Procs, UpdateDelivery(p), deliveries'[i] # deliveries[i]
      PROVE  SameRow(i) /\ Finished(i, p)
  <2>1. try[p].id = i /\ deliveries[i] \in Delivery /\ deliveries[i] # None
        /\ deliveries'[i] = [deliveries[i] EXCEPT !.status = try[p].pc, !.attempts = try[p].n]
    BY <1>1, <1>5 DEF UpdateDelivery
  <2> QED
    BY <1>5, <2>1 DEF SameRow, Finished, Delivery
<1>6. ASSUME NEW p \in Procs, RetryResets(p), deliveries'[i] # deliveries[i]
      PROVE  SameRow(i) /\ ResetBy(i, p)
  <2>1. try[p].id = i /\ deliveries[i] \in Delivery /\ deliveries[i] # None
        /\ deliveries'[i] = [deliveries[i] EXCEPT !.status = "pending", !.attempts = 0]
    BY <1>1, <1>6 DEF RetryResets
  <2> QED
    BY <1>6, <2>1 DEF SameRow, ResetBy, Delivery
<1>7. ASSUME NEW c \in Channels, DeleteChannel(c) PROVE SameRow(i) /\ Untouched(i)
  <2>1. \/ deliveries'[i] = deliveries[i] /\ deliveries[i] # None
        \/ /\ deliveries[i] \in Delivery /\ deliveries[i] # None
           /\ deliveries'[i] = [deliveries[i] EXCEPT !.ch = None]
    BY <1>1, <1>7 DEF DeleteChannel
  <2> QED
    BY <2>1 DEF SameRow, Untouched, Delivery
<1> QED
  BY <1>2, <1>3, <1>4, <1>5, <1>6, <1>7 DEF Next, Dispatch, Attempt, Admin
----------------------------------------------------------------------------
\* Every variable keeps its type and every clock its order.
LEMMA TypedAlways == Spec => []Typed
<1>1. Init => Typed
  BY TypedInit
<1>2. Typed /\ [Next]_vars => Typed'
  BY TypedStep
<1> QED
  BY <1>1, <1>2, PTL DEF Spec

\* What the proofs type implies what the model promises.
LEMMA TypedIsTypeOK == Typed => TypeOK
<1> SUFFICES ASSUME Typed PROVE TypeOK
  OBVIOUS
<1>1. \A i \in Ids : deliveries[i] # None =>
         deliveries[i].status \in Statuses /\ deliveries[i].attempts \in 0 .. MaxAttempts
  BY DEF Typed, TableType, Delivery
<1>2. \A c \in Channels : bucket[c] # None =>
         bucket[c].tokens >= 0 /\ bucket[c].tokens <= 60 * bucket[c].cap
  <2>1. \A c \in Channels : bucket[c] # None => bucket[c].tokens \in Nat
    BY DEF Typed, MemoryType, Bucket
  <2> QED
    BY <2>1 DEF Typed, ClockInv
<1>3. \A p \in Procs : try[p].n <= MaxAttempts
  <2>1. \A p \in Procs : try[p].n \in 0 .. MaxAttempts
    BY DEF Typed, LoopType, Loop
  <2> QED
    BY <2>1, NotificationsAssumption
<1> QED
  BY <1>1, <1>2, <1>3 DEF Typed, TableType, MemoryType, TypeOK

\* Every variable keeps its type: statuses and counters of the deliveries, the
\* queue within its capacity, the tokens within their bucket.
THEOREM TypeCorrect == Spec => []TypeOK
  BY TypedAlways, TypedIsTypeOK, PTL

\* A failed delivery was attempted MaxAttempts times or never, whoever sends it:
\* the loops of the worker and of the Retry requests count for themselves, and
\* a row's status and count are only written together.
THEOREM FailedWasTriedHolds == Spec => []FailedWasTried
<1>1. Init => FailedWasTried
  BY DEF Init, FailedWasTried
<1>2. Typed /\ FailedWasTried /\ [Next]_vars => FailedWasTried'
  <2> SUFFICES ASSUME Typed, FailedWasTried, [Next]_vars, NEW i \in Ids,
                      deliveries'[i] # None, deliveries'[i].status = "failed"
               PROVE  deliveries'[i].attempts \in {0, MaxAttempts}
    BY DEF FailedWasTried
  <2>1. CASE SameRow(i) /\ Untouched(i)
    BY <2>1 DEF SameRow, Untouched, FailedWasTried
  <2>2. ASSUME NEW p \in Procs, Finished(i, p) PROVE deliveries'[i].attempts \in {0, MaxAttempts}
    BY <2>2 DEF Finished, Typed, TryInv
  <2>3. CASE Inserted(i)
    BY <2>3 DEF Inserted, NewRow
  <2>4. ASSUME NEW p \in Procs, ResetBy(i, p) PROVE FALSE
    BY <2>4 DEF ResetBy
  <2> QED
    BY <2>1, <2>2, <2>3, <2>4, RowStep
<1> QED
  BY <1>1, <1>2, TypedAlways, PTL DEF Spec
----------------------------------------------------------------------------
\* Ids are handed out in order; no sending loop holds an id of the future, nor
\* a suppressed delivery, which has no channel to be retried on.
RowsInv ==
    /\ \A i \in Ids : deliveries[i] # None =>
          i <= lastId /\ (deliveries[i].status = "throttled" => deliveries[i].ch = None)
    /\ \A p \in Procs : try[p].pc # "idle" =>
          /\ try[p].id <= lastId
          /\ \A i \in Ids : i = try[p].id /\ deliveries[i] # None => deliveries[i].status # "throttled"
    /\ worker.pc = "insert" /\ worker.status = "throttled" => worker.ch = None

\* How a step may change a sending loop: it goes on with its delivery, ends, or
\* takes up a new one.
LEMMA TryStep ==
    ASSUME Typed, [Next]_vars, NEW p \in Procs, try'[p].pc # "idle"
    PROVE  \/ try[p].pc # "idle" /\ try'[p].id = try[p].id
           \/ /\ p = Worker /\ InsertDelivery /\ worker.status = "pending"
              /\ lastId' = lastId + 1 /\ try'[p].id = lastId + 1
           \/ /\ p \in Retriers /\ counts'.retries > 0 /\ UNCHANGED <<deliveries, lastId>>
              /\ \E i \in Ids : try'[p].id = i /\ deliveries[i] # None /\ deliveries[i].ch # None
<1> USE DEF configVars, queueVars, tableVars, memoryVars, dispatchFrame,
        tryFrame, quietFrame, changeFrame, Change
<1>1. try \in [Procs -> Loop]
  BY DEF Typed, LoopType
<1>2. CASE try' = try
  BY <1>2
<1>3. CASE (\E h \in Hosts : Emit(h)) \/ Sweep \/ PurgeDeliveries \/ PanelStarts
           \/ Dequeue \/ ActiveRulesFor \/ EventDone \/ GetChannel \/ RateLimit \/ AttemptReturns
           \/ (\E x \in worker.todo : Throttled(x))
           \/ (\E r \in Rules, row \in RuleRows : PutRule(r, row))
           \/ (\E c \in Channels, row \in ChannelRows : PutChannel(c, row))
           \/ (\E r \in Rules : DeleteRule(r))
           \/ (\E c \in Channels : DropBucket(c) \/ DeleteChannel(c))
           \/ (\E t \in Ticks : Tick(t)) \/ UNCHANGED vars
  BY <1>2, <1>3 DEF Emit, Sweep, PanelStarts, PurgeDeliveries, Dequeue, ActiveRulesFor, EventDone,
     GetChannel, RateLimit, AttemptReturns, Throttled, PutRule, PutChannel, DeleteRule,
     DropBucket, DeleteChannel, Tick, vars
<1>4. CASE InsertDelivery
  <2> DEFINE c == IF worker.ch = None THEN None ELSE worker.ch.id
  <2>1. \/ UNCHANGED try
        \/ /\ lastId' = lastId + 1 /\ worker.status = "pending"
           /\ try' = [try EXCEPT ![Worker] = [NoTry EXCEPT !.pc = "send", !.id = lastId + 1, !.ch = c]]
    BY <1>4 DEF InsertDelivery
  <2>2. [NoTry EXCEPT !.pc = "send", !.id = lastId + 1, !.ch = c].id = lastId + 1
    BY DEF NoTry
  <2> QED
    BY <1>1, <1>2, <1>4, <2>1, <2>2
<1>5. ASSUME NEW q \in Procs, Send(q) \/ Backoff(q) \/ RetryResets(q)
      PROVE  try[q].pc # "idle" /\ try'[q].id = try[q].id /\ (p # q => try'[p] = try[p])
  BY <1>1, <1>5 DEF Send, Backoff, RetryResets, Loop
<1>6. ASSUME NEW q \in Procs, UpdateDelivery(q) \/ RetryAbandons(q)
      PROVE  p # q /\ try'[p] = try[p]
  BY <1>1, <1>6 DEF UpdateDelivery, RetryAbandons, NoTry
<1>7. CASE PanelStops
  BY <1>7 DEF PanelStops, NoTry
<1>8. ASSUME NEW q \in Retriers, NEW i \in Ids, RetryDelivery(q, i)
      PROVE  p = q => /\ counts'.retries > 0 /\ UNCHANGED <<deliveries, lastId>>
                      /\ try'[p].id = i /\ deliveries[i] # None /\ deliveries[i].ch # None
  <2>1. counts \in [retries: Nat, changes: Nat, stops: Nat]
    BY DEF Typed, TableType
  <2>2. counts'.retries > 0
    BY <1>8, <2>1 DEF RetryDelivery, Counted
  <2>3. [NoTry EXCEPT !.pc = "reset", !.id = i, !.ch = deliveries[i].ch].id = i
    BY DEF NoTry
  <2> QED
    BY <1>1, <1>8, <2>2, <2>3 DEF RetryDelivery
<1>9. ASSUME NEW q \in Retriers, NEW i \in Ids, RetryDelivery(q, i) PROVE p # q => try'[p] = try[p]
  BY <1>1, <1>9 DEF RetryDelivery
<1> QED
  BY <1>2, <1>3, <1>4, <1>5, <1>6, <1>7, <1>8, <1>9 DEF Next, Dispatch, Attempt, Admin, Procs

\* The next id never goes back, and a row that is in the table keeps its id.
LEMMA LastIdStep == Typed /\ [Next]_vars => lastId' \in {lastId, lastId + 1}
  BY DEF Typed, TableType, Next, Dispatch, Attempt, Admin, Emit, Sweep, PanelStarts, PanelStops,
     PurgeDeliveries, Dequeue, ActiveRulesFor, EventDone, GetChannel, RateLimit, AttemptReturns,
     Throttled, InsertDelivery, PutRule, PutChannel, DeleteRule, DropBucket, DeleteChannel, Tick, Send, Backoff,
     UpdateDelivery, RetryResets, RetryAbandons, RetryDelivery, vars, configVars, queueVars,
     tableVars, memoryVars, dispatchFrame, tryFrame, quietFrame, changeFrame, Change

\* A dispatch that is suppressed has no channel yet.
LEMMA SuppressedStep ==
    ASSUME Typed, [Next]_vars, RowsInv, worker'.pc = "insert", worker'.status = "throttled"
    PROVE  worker'.ch = None
<1> USE DEF configVars, queueVars, tableVars, memoryVars, dispatchFrame,
        tryFrame, quietFrame, changeFrame, Change
<1>1. CASE worker' = worker
  BY <1>1 DEF RowsInv
<1>2. CASE (\E h \in Hosts : Emit(h)) \/ Sweep \/ PurgeDeliveries \/ PanelStarts
           \/ (\E r \in Rules, row \in RuleRows : PutRule(r, row))
           \/ (\E c \in Channels, row \in ChannelRows : PutChannel(c, row))
           \/ (\E r \in Rules : DeleteRule(r))
           \/ (\E c \in Channels : DeleteChannel(c) \/ DropBucket(c))
           \/ (\E p \in Procs : Attempt(p) \/ RetryAbandons(p))
           \/ (\E p \in Retriers, i \in Ids : RetryDelivery(p, i))
           \/ (\E t \in Ticks : Tick(t)) \/ UNCHANGED vars
  BY <1>1, <1>2 DEF Emit, Sweep, PurgeDeliveries, PanelStarts, PutRule, PutChannel, DeleteRule,
     DeleteChannel, DropBucket, Attempt, Send, Backoff, UpdateDelivery, RetryResets,
     RetryAbandons, RetryDelivery, Tick, vars
<1>3. worker \in Event
  BY DEF Typed, LoopType
<1>4. ASSUME NEW x \in worker.todo, Throttled(x) PROVE worker'.ch = None
  <2>1. \/ worker'.pc \in {"rule", "channel"}
        \/ worker' = [[worker EXCEPT !.todo = @ \ {x}, !.rule = x]
                        EXCEPT !.pc = "insert", !.status = "throttled", !.ch = None]
    BY <1>3, <1>4 DEF Throttled, Event
  <2> QED
    BY <1>3, <2>1 DEF Event
<1>5. CASE Dequeue \/ EventDone \/ PanelStops
  <2>1. NoEvent.pc = "idle" /\ [NoEvent EXCEPT !.pc = "list", !.host = Head(queue)].pc = "list"
    BY DEF NoEvent
  <2> QED
    BY <1>5, <2>1 DEF Dequeue, EventDone, PanelStops
<1>8. CASE ActiveRulesFor \/ AttemptReturns
  BY <1>3, <1>8 DEF ActiveRulesFor, AttemptReturns, Event
<1>9. CASE InsertDelivery
  <2>1. worker' = [worker EXCEPT !.pc = "rule"] \/ worker' = [worker EXCEPT !.pc = "attempt"]
    BY <1>9 DEF InsertDelivery
  <2> QED
    BY <1>3, <2>1 DEF Event
<1>6. CASE GetChannel
  BY <1>3, <1>6 DEF GetChannel, Event
<1>7. CASE RateLimit
  BY <1>3, <1>7 DEF RateLimit, Event
<1> QED
  BY <1>2, <1>4, <1>5, <1>6, <1>7, <1>8, <1>9 DEF Next, Dispatch, Admin

\* The order of the ids is kept by every step.
LEMMA RowsStep == Typed /\ RowsInv /\ [Next]_vars => RowsInv'
<1> SUFFICES ASSUME Typed, RowsInv, [Next]_vars PROVE RowsInv'
  OBVIOUS
<1>1. lastId \in Nat /\ lastId' \in {lastId, lastId + 1} /\ Ids \subseteq Int
  BY LastIdStep DEF Typed, TableType, Ids
<1>2. ASSUME NEW i \in Ids, deliveries'[i] # None
      PROVE  i <= lastId' /\ (deliveries'[i].status = "throttled" => deliveries'[i].ch = None)
  <2>1. CASE SameRow(i) /\ Untouched(i)
    BY <1>1, <2>1 DEF RowsInv, SameRow, Untouched
  <2>2. ASSUME NEW p \in Procs, SameRow(i), Finished(i, p) \/ ResetBy(i, p)
        PROVE  i <= lastId' /\ deliveries'[i].status # "throttled"
    BY <1>1, <2>2 DEF RowsInv, SameRow, Finished, ResetBy, UpdateDelivery
  <2>3. CASE Inserted(i)
    BY <1>1, <2>3 DEF Inserted, NewRow, InsertDelivery, RowsInv
  <2> QED
    BY <1>2, <2>1, <2>2, <2>3, RowStep
<1>3. ASSUME NEW p \in Procs, try'[p].pc # "idle"
      PROVE  /\ try'[p].id <= lastId'
             /\ \A i \in Ids : i = try'[p].id /\ deliveries'[i] # None
                                 => deliveries'[i].status # "throttled"
  <2>1. CASE try[p].pc # "idle" /\ try'[p].id = try[p].id
    <3>1. try[p].id <= lastId /\ try[p].id \in Nat
      BY <2>1 DEF RowsInv, Typed, LoopType, Loop
    <3>2. ASSUME NEW i \in Ids, i = try'[p].id, deliveries'[i] # None
          PROVE  deliveries'[i].status # "throttled"
      <4>1. CASE SameRow(i) /\ Untouched(i)
        BY <2>1, <3>2, <4>1 DEF RowsInv, SameRow, Untouched
      <4>2. ASSUME NEW q \in Procs, Finished(i, q) \/ ResetBy(i, q)
            PROVE  deliveries'[i].status # "throttled"
        BY <4>2 DEF Finished, ResetBy, UpdateDelivery
      <4>3. CASE Inserted(i)
        BY <1>1, <2>1, <3>1, <3>2, <4>3 DEF Inserted
      <4> QED
        BY <3>2, <4>1, <4>2, <4>3, RowStep
    <3> QED
      BY <1>1, <2>1, <3>1, <3>2
  <2>2. CASE /\ p = Worker /\ InsertDelivery /\ worker.status = "pending"
             /\ lastId' = lastId + 1 /\ try'[p].id = lastId + 1
    <3>1. ASSUME NEW i \in Ids, i = try'[p].id, deliveries'[i] # None
          PROVE  deliveries'[i].status # "throttled"
      <4>1. ~SameRow(i)
        BY <1>1, <2>2, <3>1 DEF RowsInv, SameRow
      <4>2. Inserted(i)
        BY <3>1, <4>1, RowStep
      <4> QED
        BY <2>2, <4>2 DEF Inserted, NewRow
    <3> QED
      BY <1>1, <2>2, <3>1
  <2>3. CASE /\ UNCHANGED <<deliveries, lastId>>
             /\ \E i \in Ids : try'[p].id = i /\ deliveries[i] # None /\ deliveries[i].ch # None
    BY <1>1, <2>3 DEF RowsInv
  <2> QED
    BY <1>3, <2>1, <2>2, <2>3, TryStep
<1>4. worker'.pc = "insert" /\ worker'.status = "throttled" => worker'.ch = None
  BY SuppressedStep
<1> QED
  BY <1>2, <1>3, <1>4 DEF RowsInv

\* So the order of the ids holds for ever.
LEMMA RowsAlways == Spec => [](Typed /\ RowsInv)
<1>1. Init => RowsInv
  BY DEF Init, RowsInv, NoEvent, NoTry
<1>2. Typed /\ RowsInv /\ [Next]_vars => RowsInv'
  BY RowsStep
<1> QED
  BY <1>1, <1>2, TypedAlways, PTL DEF Spec
----------------------------------------------------------------------------
\* Until somebody asks for a retry only the worker sends, and what it sends is
\* still pending, unless it has been purged.
SentInv ==
    counts.retries = 0 =>
       /\ \A p \in Retriers : try[p].pc = "idle"
       /\ \A i \in Ids : try[Worker].pc # "idle" /\ i = try[Worker].id /\ deliveries[i] # None
                           => deliveries[i].status = "pending"

\* Nobody takes a retry back.
LEMMA RetriesStep == Typed /\ [Next]_vars => counts'.retries >= counts.retries
<1> SUFFICES ASSUME Typed, [Next]_vars PROVE counts'.retries >= counts.retries
  OBVIOUS
<1>1. counts \in [retries: Nat, changes: Nat, stops: Nat] /\ counts.retries \in Nat
  BY DEF Typed, TableType
<1>2. counts' = counts \/ Counted("changes") \/ Counted("stops") \/ Counted("retries")
  BY DEF Typed, TableType, Next, Dispatch, Attempt, Admin, Emit, Sweep, PanelStarts, PanelStops,
     PurgeDeliveries, Dequeue, ActiveRulesFor, EventDone, GetChannel, RateLimit, AttemptReturns,
     Throttled, InsertDelivery, PutRule, PutChannel, DeleteRule, DropBucket, DeleteChannel, Tick, Send, Backoff,
     UpdateDelivery, RetryResets, RetryAbandons, RetryDelivery, vars, configVars, queueVars,
     tableVars, memoryVars, dispatchFrame, tryFrame, quietFrame, changeFrame, Change
<1> QED
  BY <1>1, <1>2 DEF Counted

\* Only the worker finishes or resets a row while nobody retries.
LEMMA WorkerOnly ==
    ASSUME Typed, SentInv, counts.retries = 0, NEW i \in Ids, deliveries[i] # None,
           NEW p \in Procs, Finished(i, p) \/ ResetBy(i, p)
    PROVE  p = Worker /\ deliveries[i].status = "pending"
  BY DEF SentInv, Finished, ResetBy, UpdateDelivery, RetryResets, Procs

\* What the worker sends stays pending until it is done with it.
LEMMA SentStep == Typed /\ RowsInv /\ SentInv /\ [Next]_vars => SentInv'
<1> SUFFICES ASSUME Typed, RowsInv, SentInv, [Next]_vars, counts'.retries = 0 PROVE SentInv'
  BY DEF SentInv
<1>1. counts.retries = 0
  BY RetriesStep DEF Typed, TableType
<1>2. lastId \in Nat /\ Ids \subseteq Int /\ Worker \notin Retriers /\ Worker \in Procs
  BY NotificationsAssumption DEF Typed, TableType, Ids, Procs
<1>3. ASSUME NEW p \in Retriers, try'[p].pc # "idle" PROVE FALSE
  <2>1. p \in Procs /\ p # Worker /\ try[p].pc = "idle"
    BY <1>1, <1>2, <1>3 DEF SentInv, Procs
  <2> QED
    BY <1>3, <2>1, TryStep
<1>4. ASSUME NEW i \in Ids, try'[Worker].pc # "idle", i = try'[Worker].id, deliveries'[i] # None
      PROVE  deliveries'[i].status = "pending"
  <2>1. CASE SameRow(i)
    <3>1. deliveries[i] # None /\ i <= lastId
      BY <2>1 DEF SameRow, RowsInv
    <3>2. try[Worker].pc # "idle" /\ i = try[Worker].id
      BY <1>2, <1>4, <3>1, TryStep
    <3>3. deliveries[i].status = "pending"
      BY <1>1, <3>1, <3>2 DEF SentInv
    <3>4. ASSUME NEW p \in Procs, Finished(i, p) PROVE FALSE
      <4>1. p = Worker
        BY <1>1, <3>1, <3>4, WorkerOnly
      <4>2. try'[Worker].pc = "idle"
        BY <3>4, <4>1 DEF Finished, UpdateDelivery, NoTry, Typed, LoopType
      <4> QED
        BY <1>4, <4>2
    <3>5. ASSUME NEW p \in Procs, ResetBy(i, p) PROVE deliveries'[i].status = "pending"
      BY <3>5 DEF ResetBy
    <3>6. ~Inserted(i)
      BY <1>2, <3>1 DEF Inserted
    <3> QED
      BY <1>4, <3>3, <3>4, <3>5, <3>6, RowStep DEF Untouched
  <2>2. CASE Inserted(i)
    <3>1. worker.status = "pending"
      <4>1. ~(try[Worker].pc # "idle" /\ try'[Worker].id = try[Worker].id)
        BY <1>2, <1>4, <2>2 DEF Inserted, RowsInv
      <4> QED
        BY <1>2, <1>4, <4>1, TryStep
    <3> QED
      BY <2>2, <3>1 DEF Inserted, NewRow
  <2> QED
    BY <1>4, <2>1, <2>2, RowStep
<1> QED
  BY <1>3, <1>4 DEF SentInv

\* A delivery that was sent stays sent until somebody asks for a retry: no purge,
\* edit, restart or other delivery writes its status.
THEOREM SentUnlessRetriedHolds == Spec => SentUnlessRetried
<1> DEFINE Kept == counts.retries = 0 =>
              \A i \in Ids : deliveries[i] # None /\ deliveries[i].status = "sent"
                               /\ deliveries'[i] # None => deliveries'[i].status = "sent"
<1>1. Init => SentInv
  BY NotificationsAssumption DEF Init, SentInv, NoTry, Procs
<1>2. Typed /\ RowsInv /\ SentInv /\ [Next]_vars => SentInv'
  BY SentStep
<1>3. Typed /\ RowsInv /\ SentInv /\ [Next]_vars => [Kept]_vars
  <2> SUFFICES ASSUME Typed, RowsInv, SentInv, [Next]_vars, counts.retries = 0, NEW i \in Ids,
                      deliveries[i] # None, deliveries[i].status = "sent", deliveries'[i] # None
               PROVE  deliveries'[i].status = "sent"
    OBVIOUS
  <2>1. \A p \in Procs : ~Finished(i, p) /\ ~ResetBy(i, p)
    BY WorkerOnly
  <2>2. ~Inserted(i)
    BY DEF Inserted, RowsInv, Typed, TableType, Ids
  <2> QED
    BY <2>1, <2>2, RowStep DEF Untouched
<1>4. Spec => []SentInv
  BY <1>1, <1>2, RowsAlways, PTL DEF Spec
<1>5. Spec => [][Kept]_vars
  BY <1>3, <1>4, RowsAlways, PTL DEF Spec
<1> QED
  BY <1>5 DEF SentUnlessRetried
----------------------------------------------------------------------------
\* What a rate of k a minute refills between two times, in sixtieths.
Refill(k, from, to) == k * (to - from)

\* Refills add up, and none comes without time: the only arithmetic beyond
\* Presburger's that the limiter needs.
LEMMA RefillFacts ==
    ASSUME NEW k \in Nat, NEW x \in Nat, NEW y \in Nat, NEW z \in Nat
    PROVE  /\ Refill(k, x, y) \in Int /\ Refill(k, x, x) = 0
           /\ Refill(k, x, z) = Refill(k, x, y) + Refill(k, y, z)
<1> DEFINE f == y - x
           g == z - y
<1>1. f \in Int /\ g \in Int /\ z - x = f + g /\ x - x = 0
  OBVIOUS
<1>2. Refill(k, x, y) = k * f /\ Refill(k, y, z) = k * g /\ Refill(k, x, z) = k * (f + g)
      /\ Refill(k, x, x) = k * 0
  BY <1>1 DEF Refill
<1> HIDE DEF f, g
<1>3. k * f \in Int /\ k * 0 = 0 /\ k * (f + g) = k * f + k * g
  BY <1>1
<1> QED
  BY <1>2, <1>3

\* A bucket accounts for what its channel let pass since it was made: any run of
\* deliveries up to now, with the tokens that are left, is at most a burst of its
\* capacity and what was refilled since the first of them.
Metered(s, b) ==
    /\ \A i \in 1 .. Len(s) :
          /\ s[i] <= b.at
          /\ 60 * (Len(s) - i + 1) + b.tokens <= 60 * b.cap + Refill(b.cap, s[i], b.at)
    /\ \A i, j \in 1 .. Len(s) :
          i <= j => 60 * (j - i + 1) <= 60 * b.cap + Refill(b.cap, s[i], s[j])
RateInv == \A c \in Channels : IF bucket[c] = None THEN passed[c] = <<>>
                                                   ELSE Metered(passed[c], bucket[c])

\* An empty log is within every bucket.
LEMMA MeteredEmpty == \A b : Metered(<<>>, b)
  BY EmptySeq DEF Metered

\* A refill adds no more than the rate allows for the time that went by.
LEMMA MeteredRefill ==
    ASSUME NEW s \in Seq(Nat), NEW b \in Bucket, NEW t \in Nat, NEW n \in Nat,
           Metered(s, b), b.at <= t, n <= b.tokens + Refill(b.cap, b.at, t)
    PROVE  Metered(s, [cap |-> b.cap, tokens |-> n, at |-> t])
<1> DEFINE d == [cap |-> b.cap, tokens |-> n, at |-> t]
<1>1. d.cap = b.cap /\ d.tokens = n /\ d.at = t
  OBVIOUS
<1> HIDE DEF d
<1>2. b.cap \in Nat /\ b.tokens \in Nat /\ b.at \in Nat /\ Len(s) \in Nat
      /\ \A i \in 1 .. Len(s) : s[i] \in Nat
  BY DEF Bucket
<1>3. ASSUME NEW i \in 1 .. Len(s)
      PROVE  s[i] <= t /\ 60 * (Len(s) - i + 1) + n <= 60 * b.cap + Refill(b.cap, s[i], t)
  <2> DEFINE x == Refill(b.cap, s[i], b.at)
             y == Refill(b.cap, b.at, t)
             z == Refill(b.cap, s[i], t)
  <2>1. s[i] \in Nat
    BY <1>2
  <2>2. s[i] <= b.at /\ 60 * (Len(s) - i + 1) + b.tokens <= 60 * b.cap + x
    BY DEF Metered
  <2>3. x \in Int /\ y \in Int /\ z = x + y
    <3> DEFINE k == b.cap
               from == s[i]
               at == b.at
    <3>1. k \in Nat /\ from \in Nat /\ at \in Nat
      BY <1>2, <2>1
    <3> HIDE DEF k, from, at
    <3>2. Refill(k, from, at) \in Int
      BY <3>1, RefillFacts
    <3>3. Refill(k, at, t) \in Int
      BY <3>1, RefillFacts
    <3>4. Refill(k, from, t) = Refill(k, from, at) + Refill(k, at, t)
      BY <3>1, RefillFacts
    <3> QED
      BY <3>2, <3>3, <3>4 DEF k, from, at
  <2>4. n <= b.tokens + y
    OBVIOUS
  <2> HIDE DEF x, y, z
  <2>5. 60 * (Len(s) - i + 1) + n <= 60 * b.cap + z
    <3> DEFINE p == 60 * (Len(s) - i + 1)
               q == 60 * b.cap
    <3>1. p \in Int /\ q \in Int /\ b.tokens \in Int
      BY <1>2
    <3>2. p + b.tokens <= q + x
      BY <2>2
    <3> HIDE DEF p, q
    <3>3. p + n <= q + z
      BY <2>3, <2>4, <3>1, <3>2
    <3> QED
      BY <3>3 DEF p, q
  <2>6. s[i] <= t
    BY <1>2, <2>1, <2>2
  <2> QED
    BY <2>5, <2>6 DEF z
<1>4. Metered(s, d)
  BY <1>1, <1>3 DEF Metered
<1> QED
  BY <1>4 DEF d

\* A delivery that takes a token is within the bucket it leaves.
LEMMA MeteredTake ==
    ASSUME NEW s \in Seq(Nat), NEW b \in Bucket, Metered(s, b),
           b.tokens >= 60, b.tokens <= 60 * b.cap
    PROVE  Metered(Append(s, b.at), [b EXCEPT !.tokens = @ - 60])
<1> DEFINE d == [b EXCEPT !.tokens = @ - 60]
           u == Append(s, b.at)
           w(x) == Refill(b.cap, x, b.at)
<1>1. d.cap = b.cap /\ d.tokens = b.tokens - 60 /\ d.at = b.at
  BY DEF Bucket
<1>2. b.cap \in Nat /\ b.tokens \in Nat /\ b.at \in Nat /\ Len(s) \in Nat
      /\ \A i \in 1 .. Len(s) : s[i] \in Nat
  BY DEF Bucket
<1>3. Len(u) = Len(s) + 1 /\ u[Len(s) + 1] = b.at /\ \A i \in 1 .. Len(s) : u[i] = s[i]
  BY <1>2
<1>4. w(b.at) = 0 /\ \A x \in Nat : w(x) \in Int
  BY <1>2, RefillFacts
<1>5. \A i \in 1 .. Len(s) : s[i] <= b.at /\ 60 * (Len(s) - i + 1) + b.tokens <= 60 * b.cap + w(s[i])
  BY DEF Metered
<1> HIDE DEF d, u, w
<1>6. ASSUME NEW i \in 1 .. Len(u)
      PROVE  u[i] <= b.at /\ 60 * (Len(u) - i + 1) + d.tokens <= 60 * b.cap + w(u[i])
  <2>1. CASE i = Len(s) + 1
    <3>1. u[i] = b.at /\ w(u[i]) = 0 /\ Len(u) - i + 1 = 1
      BY <1>2, <1>3, <1>4, <2>1
    <3> QED
      BY <1>1, <1>2, <3>1
  <2>2. CASE i \in 1 .. Len(s)
    <3>1. u[i] = s[i] /\ w(s[i]) \in Int /\ s[i] \in Nat
      BY <1>2, <1>3, <1>4, <2>2
    <3>2. s[i] <= b.at /\ 60 * (Len(s) - i + 1) + b.tokens <= 60 * b.cap + w(s[i])
      BY <1>5, <2>2
    <3>3. 60 * (Len(u) - i + 1) = 60 * (Len(s) - i + 1) + 60 /\ 60 * (Len(s) - i + 1) \in Int
      BY <1>2, <1>3, <2>2
    <3> QED
      BY <1>1, <1>2, <3>1, <3>2, <3>3
  <2> QED
    BY <1>2, <1>3, <2>1, <2>2
<1>7. ASSUME NEW i \in 1 .. Len(u), NEW j \in 1 .. Len(u), i <= j
      PROVE  60 * (j - i + 1) <= 60 * b.cap + Refill(b.cap, u[i], u[j])
  <2>1. CASE j \in 1 .. Len(s)
    <3>1. i \in 1 .. Len(s)
      BY <1>2, <1>7, <2>1
    <3> QED
      BY <1>3, <1>7, <2>1, <3>1 DEF Metered
  <2>2. CASE j = Len(s) + 1
    <3>1. u[j] = b.at /\ Refill(b.cap, u[i], u[j]) = w(u[i])
      BY <1>3, <2>2 DEF w
    <3>2. u[i] \in Nat
      <4>1. i \in 1 .. Len(s) \/ i = Len(s) + 1
        BY <1>2, <1>3
      <4> QED
        BY <1>2, <1>3, <4>1
    <3>3. 60 * (Len(u) - i + 1) + d.tokens <= 60 * b.cap + w(u[i]) /\ w(u[i]) \in Int
      BY <1>4, <1>6, <3>2
    <3>4. Len(u) = j /\ d.tokens >= 0 /\ d.tokens \in Int
      BY <1>1, <1>2, <1>3, <2>2
    <3>5. 60 * (j - i + 1) <= 60 * b.cap + w(u[i])
      BY <1>2, <3>3, <3>4
    <3> QED
      BY <3>1, <3>5
  <2> QED
    BY <1>2, <1>3, <2>1, <2>2
<1>8. Metered(u, d)
  BY <1>1, <1>6, <1>7 DEF Metered, w
<1> QED
  BY <1>8 DEF d, u

\* The accounts of every bucket stay right.
LEMMA RateStep == Typed /\ RateInv /\ [Next]_vars => RateInv'
<1> SUFFICES ASSUME Typed, RateInv, [Next]_vars PROVE RateInv'
  OBVIOUS
<1> USE DEF configVars, queueVars, tableVars, memoryVars, dispatchFrame,
        tryFrame, quietFrame, changeFrame, Change
<1>1. CASE UNCHANGED <<bucket, passed>>
  BY <1>1 DEF RateInv
<1>2. CASE (\E h \in Hosts : Emit(h)) \/ Sweep \/ PurgeDeliveries \/ PanelStarts
           \/ Dequeue \/ ActiveRulesFor \/ EventDone \/ GetChannel \/ InsertDelivery \/ AttemptReturns
           \/ (\E x \in worker.todo : Throttled(x))
           \/ (\E r \in Rules, row \in RuleRows : PutRule(r, row))
           \/ (\E c \in Channels, row \in ChannelRows : PutChannel(c, row))
           \/ (\E r \in Rules : DeleteRule(r)) \/ (\E c \in Channels : DeleteChannel(c))
           \/ (\E p \in Procs : Attempt(p) \/ RetryAbandons(p))
           \/ (\E p \in Retriers, i \in Ids : RetryDelivery(p, i))
           \/ (\E t \in Ticks : Tick(t)) \/ UNCHANGED vars
  <2>1. UNCHANGED <<bucket, passed>>
    BY <1>2 DEF Emit, Sweep, PurgeDeliveries, PanelStarts, Dequeue, ActiveRulesFor, EventDone,
       GetChannel, InsertDelivery, AttemptReturns, Throttled, PutRule, PutChannel, DeleteRule,
       DeleteChannel, Attempt, Send, Backoff, UpdateDelivery, RetryResets, RetryAbandons,
       RetryDelivery, Tick, vars
  <2> QED
    BY <1>1, <2>1
<1>3. CASE PanelStops
  BY <1>3 DEF PanelStops, RateInv
<1>4. ASSUME NEW c \in Channels, DropBucket(c) PROVE RateInv'
  BY <1>4 DEF DropBucket, RateInv, Typed, MemoryType
<1>5. CASE RateLimit
  <2> DEFINE c == worker.ch.id
             rate == worker.ch.row.rate
             b == Refilled(c, rate)
             fresh == bucket[c] = None \/ bucket[c].cap # rate
             log == IF fresh THEN <<>> ELSE passed[c]
  <2>1. c \in Channels /\ rate \in Nat /\ worker.at \in Nat /\ bucket[c] \in Bucket \cup {None}
        /\ (bucket[c] # None => bucket[c].at <= worker.at) /\ passed[c] \in Seq(Nat)
    BY <1>5, NotificationsAssumption
       DEF RateLimit, Typed, LoopType, MemoryType, ClockInv, Event, Choice
  <2>2. b \in Bucket /\ b.at = worker.at /\ b.cap = rate /\ b.tokens <= 60 * rate
    BY <2>1, RefilledType
  <2>3. log \in Seq(Nat)
    BY <2>1, EmptySeq
  <2>4. Metered(log, b)
    <3>1. CASE fresh
      BY <3>1, MeteredEmpty
    <3>2. CASE ~fresh
      <4>1. /\ bucket[c] \in Bucket /\ bucket[c].cap = rate /\ bucket[c].at <= worker.at
            /\ bucket[c].tokens \in Nat /\ bucket[c].at \in Nat /\ log = passed[c]
        BY <2>1, <3>2 DEF Bucket
      <4>2. b = [bucket[c] EXCEPT !.tokens = Least(60 * rate, @ + (worker.at - bucket[c].at) * rate),
                                  !.at = worker.at]
        BY <3>2 DEF Refilled
      <4>3. b.tokens = Least(60 * rate, bucket[c].tokens + (worker.at - bucket[c].at) * rate)
        BY <4>1, <4>2 DEF Bucket
      <4>4. b.tokens <= bucket[c].tokens + Refill(rate, bucket[c].at, worker.at)
        <5> DEFINE from == bucket[c].at
                   at == worker.at
                   had == bucket[c].tokens
        <5>1. from \in Nat /\ at \in Nat /\ had \in Nat /\ rate \in Nat
              /\ b.tokens = Least(60 * rate, had + (at - from) * rate)
          BY <2>1, <4>1, <4>3
        <5> HIDE DEF from, at, had, b, c, rate
        <5>2. (at - from) * rate = Refill(rate, from, at)
          BY <5>1 DEF Refill
        <5>3. Refill(rate, from, at) \in Int
          BY <5>1, RefillFacts
        <5> DEFINE m == had + Refill(rate, from, at)
        <5>4. m \in Int /\ 60 * rate \in Int /\ b.tokens = Least(60 * rate, m)
          BY <5>1, <5>2, <5>3
        <5> HIDE DEF m
        <5>5. b.tokens <= m
          BY <5>4 DEF Least
        <5> QED
          BY <5>5 DEF m, from, at, had, b, c, rate
      <4>5. b = [cap |-> rate, tokens |-> b.tokens, at |-> worker.at] /\ b.tokens \in Nat
        BY <2>2 DEF Bucket
      <4>6. Metered(log, bucket[c])
        BY <2>1, <3>2, <4>1 DEF RateInv
      <4> HIDE DEF b, c, rate, log
      <4> QED
        BY <2>1, <2>3, <4>1, <4>4, <4>5, <4>6, MeteredRefill
    <3> QED
      BY <3>1, <3>2
  <2>5. b.tokens >= 60 => Metered(Append(log, b.at), [b EXCEPT !.tokens = @ - 60])
    BY <2>2, <2>3, <2>4, MeteredTake
  <2>6. \/ UNCHANGED <<bucket, passed>>
        \/ bucket' = [bucket EXCEPT ![c] = b] /\ passed' = [passed EXCEPT ![c] = log]
        \/ /\ b.tokens >= 60 /\ bucket' = [bucket EXCEPT ![c] = [b EXCEPT !.tokens = @ - 60]]
           /\ passed' = [passed EXCEPT ![c] = Append(log, b.at)]
    <3>1. b.tokens \in Nat
      BY <2>2 DEF Bucket
    <3> QED
      BY <1>5, <2>2, <3>1 DEF RateLimit
  <2>7. b # None /\ ([b EXCEPT !.tokens = @ - 60] # None \/ b.tokens < 60)
    <3>1. b \in Bucket /\ (b.tokens >= 60 => [b EXCEPT !.tokens = @ - 60] \in Bucket)
      BY <2>2 DEF Bucket
    <3>2. b.tokens \in Nat
      BY <2>2 DEF Bucket
    <3> QED
      BY <3>1, <3>2, NotificationsAssumption DEF Bucket
  <2>8. b # None
    BY <2>2, NotificationsAssumption DEF Bucket
  <2>9. bucket \in [Channels -> Bucket \cup {None}] /\ passed \in [Channels -> Seq(Nat)]
        /\ b.tokens \in Nat
    BY <2>2 DEF Typed, MemoryType, Bucket
  <2> HIDE DEF b, c, rate, log
  <2>10. CASE UNCHANGED <<bucket, passed>>
    BY <1>1, <2>10
  <2>11. CASE bucket' = [bucket EXCEPT ![c] = b] /\ passed' = [passed EXCEPT ![c] = log]
    BY <2>1, <2>4, <2>8, <2>9, <2>11 DEF RateInv
  <2>12. CASE /\ b.tokens >= 60 /\ bucket' = [bucket EXCEPT ![c] = [b EXCEPT !.tokens = @ - 60]]
              /\ passed' = [passed EXCEPT ![c] = Append(log, b.at)]
    <3> DEFINE g == [b EXCEPT !.tokens = @ - 60]
               l == Append(log, b.at)
    <3>1. g # None /\ Metered(l, g)
      BY <2>5, <2>7, <2>9, <2>12
    <3>2. bucket' = [bucket EXCEPT ![c] = g] /\ passed' = [passed EXCEPT ![c] = l]
      BY <2>12
    <3> HIDE DEF g, l
    <3> QED
      BY <2>1, <2>9, <3>1, <3>2 DEF RateInv
  <2> QED
    BY <2>6, <2>10, <2>11, <2>12
<1> QED
  BY <1>2, <1>3, <1>4, <1>5 DEF Next, Dispatch, Admin

\* Exact accounts bound what passes.
LEMMA MeteredIsRateBound == Typed /\ RateInv => RateBound
<1> SUFFICES ASSUME Typed, RateInv, NEW c \in Channels, NEW i \in 1 .. Len(passed[c]),
                    NEW j \in 1 .. Len(passed[c]), i <= j
             PROVE  60 * (j - i + 1) <= 60 * bucket[c].cap + bucket[c].cap * (passed[c][j] - passed[c][i])
  BY DEF RateBound
<1>1. bucket[c] # None
  <2>1. bucket[c] = None => Len(passed[c]) = 0
    BY EmptySeq DEF RateInv
  <2> QED
    BY <2>1
<1> QED
  BY <1>1 DEF RateInv, Metered, Refill

\* The limiter is a token bucket: any run of deliveries that a channel lets pass
\* while it keeps its rate is at most a burst plus the rate times the minutes.
THEOREM RateBoundHolds == Spec => []RateBound
<1>1. Init => RateInv
  BY DEF Init, RateInv
<1>2. Spec => []RateInv
  BY <1>1, RateStep, TypedAlways, PTL DEF Spec
<1> QED
  BY <1>2, TypedAlways, MeteredIsRateBound, PTL
----------------------------------------------------------------------------
\* A delivery that was not suppressed, and the throttle's key of it.
Allowed(i) == deliveries[i] # None /\ deliveries[i].status # "throttled"
KeyOf(i)   == <<deliveries[i].rule, deliveries[i].host>>

\* The throttle still remembers what it allowed at a time, or its window is over.
Remembers(r, h, at, window) ==
    at + window <= now \/ (seen[r][h] # None /\ seen[r][h] >= at)

\* Every rule that dispatch works with is the rule of the table, and so is every
\* window a delivery was made under.
HasRule == worker.pc \in {"channel", "limit", "insert", "attempt"}
SameRules ==
    /\ \A x \in worker.todo : rules[x.rule] = x.row
    /\ HasRule => rules[worker.rule.rule] = worker.rule.row
    /\ \A i \in Ids : deliveries[i] # None =>
          /\ rules[deliveries[i].rule] # None
          /\ rules[deliveries[i].rule].window = deliveries[i].window

\* Dispatch has allowed a delivery that it has not yet inserted.
Granted == worker.pc \in {"channel", "limit"} \/ (worker.pc = "insert" /\ worker.status # "throttled")

\* What the throttle knows while the panel runs and no rule is edited.
Remembered ==
    /\ \A i \in Ids : Allowed(i) =>
          /\ deliveries[i].at <= now
          /\ Remembers(deliveries[i].rule, deliveries[i].host, deliveries[i].at, deliveries[i].window)
    /\ Granted =>
          /\ \A i \in Ids : Allowed(i) /\ KeyOf(i) = <<worker.rule.rule, worker.host>>
                => deliveries[i].at + worker.rule.row.window <= now
          /\ Remembers(worker.rule.rule, worker.host, worker.at, worker.rule.row.window)

Spaced ==
    \A i, j \in Ids : i < j /\ Allowed(i) /\ Allowed(j) /\ KeyOf(i) = KeyOf(j)
        => deliveries[j].created - deliveries[i].at >= deliveries[i].window

Quiet == counts.stops = 0 /\ counts.changes = 0
ThrottleInv == Quiet => SameRules /\ Remembered /\ Spaced

\* Spaced is what the model promises of the throttle.
LEMMA SpacedIsSpacing == Typed /\ ThrottleInv => ThrottleSpacing
  BY DEF ThrottleInv, Quiet, Spaced, ThrottleSpacing, Allowed, KeyOf

\* A row that is not suppressed was there and was not suppressed, or is new.
LEMMA AllowedStep ==
    ASSUME Typed, RowsInv, [Next]_vars, NEW i \in Ids, Allowed(i)'
    PROVE  \/ SameRow(i) /\ Allowed(i)
           \/ Inserted(i) /\ worker.status # "throttled"
<1>1. deliveries'[i] # None /\ deliveries'[i].status # "throttled"
  BY DEF Allowed
<1>2. CASE SameRow(i) /\ Untouched(i)
  BY <1>1, <1>2 DEF SameRow, Untouched, Allowed
<1>3. ASSUME NEW p \in Procs, SameRow(i), Finished(i, p) \/ ResetBy(i, p)
      PROVE  SameRow(i) /\ Allowed(i)
  BY <1>3 DEF RowsInv, Finished, ResetBy, UpdateDelivery, RetryResets, SameRow, Allowed
<1>4. CASE Inserted(i)
  BY <1>1, <1>4 DEF Inserted, NewRow
<1> QED
  BY <1>1, <1>2, <1>3, <1>4, RowStep

\* The types of what the throttle compares.
LEMMA ThrottleTypes ==
    Typed => /\ now \in Nat /\ worker.at \in Nat /\ worker.at <= now /\ SweepAge \in Nat
             /\ \A r \in Rules, h \in Hosts : seen[r][h] \in Nat \cup {None}
             /\ \A i \in Ids : deliveries[i] # None =>
                   /\ deliveries[i].at \in Nat /\ deliveries[i].window \in 0 .. SweepAge
                   /\ deliveries[i].created \in Nat
                   /\ deliveries[i].rule \in Rules /\ deliveries[i].host \in Hosts
             /\ \A x \in Item : x.rule \in Rules /\ x.row.window \in 0 .. SweepAge
             /\ HasRule => worker.rule \in Item /\ worker.host \in Hosts
<1> SUFFICES ASSUME Typed
             PROVE  /\ now \in Nat /\ worker.at \in Nat /\ worker.at <= now /\ SweepAge \in Nat
                    /\ \A r \in Rules, h \in Hosts : seen[r][h] \in Nat \cup {None}
                    /\ \A i \in Ids : deliveries[i] # None =>
                          /\ deliveries[i].at \in Nat /\ deliveries[i].window \in 0 .. SweepAge
                          /\ deliveries[i].created \in Nat
                          /\ deliveries[i].rule \in Rules /\ deliveries[i].host \in Hosts
                    /\ \A x \in Item : x.rule \in Rules /\ x.row.window \in 0 .. SweepAge
                    /\ HasRule => worker.rule \in Item /\ worker.host \in Hosts
  OBVIOUS
<1>1. now \in Nat /\ worker.at \in Nat /\ worker.at <= now /\ SweepAge \in Nat
  BY NotificationsAssumption DEF Typed, TableType, LoopType, ClockInv, Event
<1>2. \A r \in Rules, h \in Hosts : seen[r][h] \in Nat \cup {None}
  BY DEF Typed, MemoryType
<1>3. \A i \in Ids : deliveries[i] # None =>
          /\ deliveries[i].at \in Nat /\ deliveries[i].window \in 0 .. SweepAge
          /\ deliveries[i].created \in Nat
          /\ deliveries[i].rule \in Rules /\ deliveries[i].host \in Hosts
  BY DEF Typed, TableType, Delivery
<1>4. \A x \in Item : x.rule \in Rules /\ x.row.window \in 0 .. SweepAge
  BY NotificationsAssumption DEF Item
<1>5. HasRule => worker.rule \in Item /\ worker.host \in Hosts
  BY DEF Typed, LoopType, HasRule
<1> QED
  BY <1>1, <1>2, <1>3, <1>4, <1>5

\* The throttle forgets a time only when the longest window after it is over.
Forgets ==
    \A r \in Rules, h \in Hosts :
        seen'[r][h] = seen[r][h] \/ (seen[r][h] # None /\ seen[r][h] + SweepAge < now)

\* So what it remembers stays remembered, or is no longer of interest.
LEMMA RemembersKept ==
    ASSUME Typed, Forgets, now' \in Nat, now <= now', NEW r \in Rules, NEW h \in Hosts,
           NEW at \in Nat, NEW window \in 0 .. SweepAge, Remembers(r, h, at, window)
    PROVE  at + window <= now' \/ (seen'[r][h] # None /\ seen'[r][h] >= at)
<1>1. now \in Nat /\ SweepAge \in Nat /\ seen[r][h] \in Nat \cup {None}
  BY ThrottleTypes
<1>2. CASE seen'[r][h] = seen[r][h]
  BY <1>1, <1>2 DEF Remembers
<1>3. CASE seen[r][h] # None /\ seen[r][h] + SweepAge < now
  BY <1>1, <1>3 DEF Remembers
<1> QED
  BY <1>2, <1>3 DEF Forgets

\* Steps that insert nothing and allow nothing new keep the throttle's account.
LEMMA ThrottleKept ==
    ASSUME Typed, RowsInv, [Next]_vars, SameRules, Remembered, Spaced,
           rules' = rules, lastId' = lastId, now' \in Nat, now <= now', Forgets,
           \A x \in worker'.todo : rules[x.rule] = x.row,
           HasRule' => rules[worker'.rule.rule] = worker'.rule.row,
           Granted' => /\ Granted /\ worker'.rule = worker.rule
                       /\ worker'.host = worker.host /\ worker'.at = worker.at
    PROVE  SameRules' /\ Remembered' /\ Spaced'
<1>1. \A i \in Ids : ~Inserted(i)
  BY DEF Inserted, Typed, TableType
<1>2. \A i \in Ids : deliveries'[i] # None => SameRow(i)
  BY <1>1, RowStep
<1>3. \A i \in Ids : Allowed(i)' => Allowed(i) /\ SameRow(i)
  BY <1>1, AllowedStep
<1>4. SameRules'
  BY <1>2 DEF SameRules, SameRow
<1>5. ASSUME NEW i \in Ids, Allowed(i)'
      PROVE  /\ deliveries'[i].at <= now'
             /\ Remembers(deliveries[i].rule, deliveries[i].host, deliveries[i].at, deliveries[i].window)'
  <2>1. Allowed(i) /\ SameRow(i) /\ deliveries[i] # None
    BY <1>3, <1>5 DEF Allowed
  <2>2. deliveries[i].at <= now
        /\ Remembers(deliveries[i].rule, deliveries[i].host, deliveries[i].at, deliveries[i].window)
    BY <2>1 DEF Remembered
  <2>3. \/ deliveries[i].at + deliveries[i].window <= now'
        \/ /\ seen'[deliveries[i].rule][deliveries[i].host] # None
           /\ seen'[deliveries[i].rule][deliveries[i].host] >= deliveries[i].at
    BY <2>1, <2>2, ThrottleTypes, RemembersKept
  <2>4. deliveries[i].at <= now'
    BY <2>1, <2>2, ThrottleTypes
  <2> QED
    BY <2>1, <2>3, <2>4 DEF SameRow, Remembers
<1>6. ASSUME Granted'
      PROVE  /\ \A i \in Ids : Allowed(i)' /\ KeyOf(i)' = <<worker'.rule.rule, worker'.host>>
                   => deliveries'[i].at + worker'.rule.row.window <= now'
             /\ Remembers(worker.rule.rule, worker.host, worker.at, worker.rule.row.window)'
  <2>1. Granted /\ worker'.rule = worker.rule /\ worker'.host = worker.host /\ worker'.at = worker.at
    BY <1>6
  <2>2. worker.rule \in Item /\ worker.host \in Hosts /\ worker.rule.rule \in Rules
        /\ worker.rule.row.window \in 0 .. SweepAge /\ worker.at \in Nat
    BY <2>1, ThrottleTypes DEF Granted, HasRule
  <2>3. \/ worker.at + worker.rule.row.window <= now'
        \/ seen'[worker.rule.rule][worker.host] # None /\ seen'[worker.rule.rule][worker.host] >= worker.at
    BY <2>1, <2>2, RemembersKept DEF Remembered
  <2>4. ASSUME NEW i \in Ids, Allowed(i)', KeyOf(i)' = <<worker'.rule.rule, worker'.host>>
        PROVE  deliveries'[i].at + worker'.rule.row.window <= now'
    <3>1. Allowed(i) /\ SameRow(i) /\ deliveries[i] # None
      BY <1>3, <2>4 DEF Allowed
    <3>2. deliveries[i].at + worker.rule.row.window <= now
      BY <2>1, <2>4, <3>1 DEF Remembered, KeyOf, SameRow
    <3> QED
      BY <2>1, <2>2, <3>1, <3>2, ThrottleTypes DEF SameRow
  <2> QED
    BY <2>1, <2>3, <2>4 DEF Remembers
<1>7. Spaced'
  <2> SUFFICES ASSUME NEW i \in Ids, NEW j \in Ids, i < j, Allowed(i)', Allowed(j)', KeyOf(i)' = KeyOf(j)'
               PROVE  deliveries'[j].created - deliveries'[i].at >= deliveries'[i].window
    BY DEF Spaced
  <2>1. Allowed(i) /\ SameRow(i) /\ Allowed(j) /\ SameRow(j)
    BY <1>3
  <2>2. KeyOf(i) = KeyOf(j)
    BY <2>1 DEF KeyOf, SameRow
  <2> QED
    BY <2>1, <2>2 DEF Spaced, SameRow
<1> QED
  BY <1>4, <1>5, <1>6, <1>7 DEF Remembered

\* No step takes a change or a stop back.
LEMMA QuietStep == Typed /\ [Next]_vars /\ Quiet' => Quiet
<1> SUFFICES ASSUME Typed, [Next]_vars, Quiet' PROVE Quiet
  OBVIOUS
<1>1. counts \in [retries: Nat, changes: Nat, stops: Nat]
  BY DEF Typed, TableType
<1>2. counts' = counts \/ Counted("changes") \/ Counted("stops") \/ Counted("retries")
  BY DEF Typed, TableType, Next, Dispatch, Attempt, Admin, Emit, Sweep, PanelStarts, PanelStops,
     PurgeDeliveries, Dequeue, ActiveRulesFor, EventDone, GetChannel, RateLimit, AttemptReturns,
     Throttled, InsertDelivery, PutRule, PutChannel, DeleteRule, DropBucket, DeleteChannel, Tick, Send, Backoff,
     UpdateDelivery, RetryResets, RetryAbandons, RetryDelivery, vars, configVars, queueVars,
     tableVars, memoryVars, dispatchFrame, tryFrame, quietFrame, changeFrame, Change
<1> QED
  BY <1>1, <1>2 DEF Counted, Quiet

\* Insertion of a delivery that the throttle allowed, or suppressed.
LEMMA ThrottleInserts ==
    ASSUME Typed, RowsInv, [Next]_vars, SameRules, Remembered, Spaced, InsertDelivery,
           lastId' = lastId + 1
    PROVE  SameRules' /\ Remembered' /\ Spaced'
<1>1. worker \in Event /\ worker.pc = "insert" /\ rules[worker.rule.rule] # None
      /\ UNCHANGED <<rules, seen, now>>
  <2>1. lastId' # lastId
    BY DEF Typed, TableType
  <2> QED
    BY <2>1 DEF InsertDelivery, Typed, LoopType, configVars, memoryVars, tableVars
<1>2. worker'.todo = worker.todo /\ worker'.rule = worker.rule /\ worker'.host = worker.host
      /\ worker'.pc \in {"rule", "attempt"}
  <2>1. worker' = [worker EXCEPT !.pc = "rule"] \/ worker' = [worker EXCEPT !.pc = "attempt"]
    BY DEF InsertDelivery
  <2> QED
    BY <1>1, <2>1 DEF Event
<1>3. HasRule /\ worker.rule \in Item /\ worker.host \in Hosts /\ worker.rule.rule \in Rules
      /\ rules[worker.rule.rule] = worker.rule.row /\ worker.rule.row.window \in 0 .. SweepAge
  BY <1>1, ThrottleTypes DEF HasRule, SameRules
<1>4. \A i \in Ids : deliveries'[i] # None => SameRow(i) \/ Inserted(i)
  BY RowStep
<1>5. \A i \in Ids : Inserted(i) => /\ deliveries'[i].rule = worker.rule.rule
                                    /\ deliveries'[i].host = worker.host
                                    /\ deliveries'[i].at = worker.at /\ deliveries'[i].created = now
                                    /\ deliveries'[i].window = worker.rule.row.window
  BY DEF Inserted, NewRow
<1>6. SameRules'
  <2>1. \A x \in worker'.todo : rules'[x.rule] = x.row
    BY <1>1, <1>2 DEF SameRules
  <2>2. HasRule' => rules'[worker'.rule.rule] = worker'.rule.row
    BY <1>1, <1>2, <1>3
  <2>3. ASSUME NEW i \in Ids, deliveries'[i] # None
        PROVE  rules'[deliveries'[i].rule] # None
               /\ rules'[deliveries'[i].rule].window = deliveries'[i].window
    <3>1. CASE SameRow(i)
      BY <1>1, <3>1 DEF SameRules, SameRow
    <3>2. CASE Inserted(i)
      BY <1>1, <1>3, <1>5, <3>2
    <3> QED
      BY <1>4, <2>3, <3>1, <3>2
  <2> QED
    BY <2>1, <2>2, <2>3 DEF SameRules
<1>7. Remembered'
  <2>1. ~Granted'
    BY <1>2 DEF Granted
  <2>2. ASSUME NEW i \in Ids, Allowed(i)'
        PROVE  /\ deliveries'[i].at <= now'
               /\ Remembers(deliveries[i].rule, deliveries[i].host, deliveries[i].at, deliveries[i].window)'
    <3>1. CASE SameRow(i) /\ Allowed(i)
      BY <1>1, <3>1 DEF Remembered, SameRow, Remembers
    <3>2. CASE Inserted(i) /\ worker.status # "throttled"
      <4>1. Granted
        BY <1>1, <3>2 DEF Granted
      <4>2. Remembers(worker.rule.rule, worker.host, worker.at, worker.rule.row.window) /\ worker.at <= now
        BY <4>1, ThrottleTypes DEF Remembered
      <4> QED
        BY <1>1, <1>5, <3>2, <4>2 DEF Remembers
    <3> QED
      BY <2>2, <3>1, <3>2, AllowedStep
  <2> QED
    BY <2>1, <2>2 DEF Remembered
<1>8. ASSUME NEW i \in Ids, NEW j \in Ids, i < j, Allowed(i)', Allowed(j)', KeyOf(i)' = KeyOf(j)'
      PROVE  deliveries'[j].created - deliveries'[i].at >= deliveries'[i].window
  <2>1. CASE SameRow(i) /\ Allowed(i) /\ SameRow(j) /\ Allowed(j)
    <3>1. KeyOf(i) = KeyOf(j)
      BY <1>8, <2>1 DEF KeyOf, SameRow
    <3> QED
      BY <1>8, <2>1, <3>1 DEF Spaced, SameRow
  <2>2. CASE SameRow(i) /\ Allowed(i) /\ Inserted(j) /\ worker.status # "throttled"
    <3>1. Granted /\ deliveries[i] # None
      BY <1>1, <2>2 DEF Granted, Allowed
    <3>2. KeyOf(i) = <<worker.rule.rule, worker.host>>
      BY <1>5, <1>8, <2>2 DEF KeyOf, SameRow
    <3>3. deliveries[i].at + worker.rule.row.window <= now
      BY <2>2, <3>1, <3>2 DEF Remembered
    <3>4. deliveries[i].window = worker.rule.row.window
      BY <1>3, <3>1, <3>2 DEF SameRules, KeyOf
    <3>5. deliveries'[j].created = now /\ deliveries'[i].at = deliveries[i].at
          /\ deliveries'[i].window = deliveries[i].window
      BY <1>5, <2>2 DEF SameRow
    <3>6. now \in Nat /\ deliveries[i].at \in Nat /\ worker.rule.row.window \in Nat
      BY <1>3, <3>1, ThrottleTypes
    <3> QED
      BY <3>3, <3>4, <3>5, <3>6
  <2>3. ~Inserted(i)
    <3>1. ASSUME Inserted(i) PROVE FALSE
      <4>1. i = lastId + 1 /\ ~Inserted(j) /\ lastId \in Nat /\ j \in Int
        BY <1>8, <3>1 DEF Inserted, Typed, TableType, Ids
      <4>2. deliveries[j] # None
        BY <1>8, <4>1, AllowedStep DEF SameRow
      <4> QED
        BY <1>8, <4>1, <4>2 DEF RowsInv
    <3> QED
      BY <3>1
  <2> QED
    BY <1>8, <2>1, <2>2, <2>3, AllowedStep
<1> QED
  BY <1>6, <1>7, <1>8 DEF Spaced

\* The throttle allows a delivery: its window since the last one is over.
LEMMA ThrottleAllows ==
    ASSUME Typed, RowsInv, [Next]_vars, SameRules, Remembered, Spaced,
           NEW x \in worker.todo, Throttled(x), worker'.pc = "channel"
    PROVE  SameRules' /\ Remembered' /\ Spaced'
<1> DEFINE h == worker.host
           w == x.row.window
           r == x.rule
<1>1. worker \in Event /\ worker.pc = "rule" /\ x \in Item /\ UNCHANGED <<rules, deliveries, lastId, now>>
  BY DEF Throttled, Typed, LoopType, Event, dispatchFrame, configVars, tableVars
<1>2. h \in Hosts /\ r \in Rules /\ w \in 0 .. SweepAge /\ w \in Int /\ rules[r] = x.row
  <2>1. h \in Hosts /\ SweepAge \in Nat
    BY <1>1, NotificationsAssumption DEF Typed, LoopType
  <2> QED
    BY <1>1, <2>1, ThrottleTypes DEF SameRules
<1>3. /\ Allow(r, h, w)
      /\ seen' = IF w > 0 THEN [seen EXCEPT ![r][h] = worker.at] ELSE seen
      /\ worker' = [[worker EXCEPT !.todo = @ \ {x}, !.rule = x] EXCEPT !.pc = "channel"]
  <2>1. [[worker EXCEPT !.todo = @ \ {x}, !.rule = x] EXCEPT !.pc = "insert", !.status = "throttled",
                                                             !.ch = None].pc = "insert"
        /\ [worker EXCEPT !.todo = @ \ {x}, !.rule = x].pc = "rule"
    BY <1>1 DEF Event
  <2> QED
    BY <2>1 DEF Throttled
<1>4. worker'.todo = worker.todo \ {x} /\ worker'.rule = x /\ worker'.host = h /\ worker'.at = worker.at
  BY <1>1, <1>3 DEF Event
<1>5. \A i \in Ids : Allowed(i)' = Allowed(i) /\ KeyOf(i)' = KeyOf(i)
  BY <1>1 DEF Allowed, KeyOf
<1>6. SameRules'
  BY <1>1, <1>2, <1>4 DEF SameRules
<1>7. Spaced'
  BY <1>1, <1>5 DEF Spaced
<1>8. now \in Nat /\ worker.at \in Nat /\ worker.at <= now /\ seen[r][h] \in Nat \cup {None}
  BY <1>2, ThrottleTypes
<1>9. /\ w > 0 => seen'[r][h] = worker.at /\ worker.at # None
      /\ w <= 0 => seen' = seen
      /\ \A q \in Rules, g \in Hosts : <<q, g>> # <<r, h>> => seen'[q][g] = seen[q][g]
  <2>1. seen \in [Rules -> [Hosts -> Nat \cup {None}]] /\ worker.at # None
    BY <1>8, NotificationsAssumption DEF Typed, MemoryType
  <2>2. CASE w > 0
    <3>1. seen' = [seen EXCEPT ![r] = [seen[r] EXCEPT ![h] = worker.at]] /\ seen[r] \in [Hosts -> Nat \cup {None}]
      BY <1>2, <1>3, <2>1, <2>2
    <3> HIDE DEF r, h, w
    <3> QED
      BY <1>2, <2>1, <2>2, <3>1
  <2>3. CASE ~(w > 0)
    BY <1>2, <1>3, <2>3
  <2> QED
    BY <2>2, <2>3
<1>10. w <= 0 \/ seen[r][h] = None \/ worker.at - seen[r][h] >= w
  BY <1>3 DEF Allow
<1> HIDE DEF r, h, w
<1>11. ASSUME NEW i \in Ids, Allowed(i)
       PROVE  /\ deliveries[i].at <= now
              /\ Remembers(deliveries[i].rule, deliveries[i].host, deliveries[i].at, deliveries[i].window)'
              /\ KeyOf(i) = <<r, h>> => deliveries[i].at + w <= now
  <2>1. deliveries[i] # None /\ deliveries[i].at \in Nat /\ deliveries[i].at <= now
        /\ deliveries[i].rule \in Rules /\ deliveries[i].host \in Hosts /\ deliveries[i].window \in Int
    BY <1>11, ThrottleTypes DEF Allowed, Remembered
  <2>2. Remembers(deliveries[i].rule, deliveries[i].host, deliveries[i].at, deliveries[i].window)
    BY <1>11 DEF Remembered
  <2>3. CASE KeyOf(i) # <<r, h>>
    <3>1. seen'[deliveries[i].rule][deliveries[i].host] = seen[deliveries[i].rule][deliveries[i].host]
      BY <1>9, <2>1, <2>3 DEF KeyOf
    <3> QED
      BY <1>1, <2>1, <2>2, <2>3, <3>1 DEF Remembers
  <2>4. CASE KeyOf(i) = <<r, h>>
    <3>1. deliveries[i].rule = r /\ deliveries[i].host = h
      BY <2>4 DEF KeyOf
    <3>2. deliveries[i].window = w
      BY <1>2, <2>1, <3>1 DEF SameRules, w
    <3>3. deliveries[i].at + w <= now \/ (seen[r][h] # None /\ seen[r][h] >= deliveries[i].at)
      BY <2>2, <3>1, <3>2 DEF Remembers
    <3>4. deliveries[i].at + w <= now
      BY <1>2, <1>8, <1>10, <2>1, <3>3
    <3> QED
      BY <1>1, <2>1, <3>1, <3>2, <3>4 DEF Remembers
  <2> QED
    BY <2>3, <2>4
<1>12. Remembers(worker.rule.rule, worker.host, worker.at, worker.rule.row.window)'
  <2>1. worker.at + w <= now \/ (seen'[r][h] # None /\ seen'[r][h] >= worker.at)
    BY <1>2, <1>8, <1>9
  <2> QED
    BY <1>1, <1>4, <2>1 DEF Remembers, r, h, w
<1>13. Remembered'
  <2>1. ASSUME NEW i \in Ids, Allowed(i)'
        PROVE  /\ deliveries'[i].at <= now'
               /\ Remembers(deliveries[i].rule, deliveries[i].host, deliveries[i].at, deliveries[i].window)'
               /\ KeyOf(i)' = <<worker'.rule.rule, worker'.host>>
                     => deliveries'[i].at + worker'.rule.row.window <= now'
    BY <1>1, <1>4, <1>5, <1>11, <2>1 DEF r, h, w
  <2> QED
    BY <1>12, <2>1 DEF Remembered
<1> QED
  BY <1>6, <1>7, <1>13

\* Every step of a panel that runs, with its rules as they are, keeps the account.
LEMMA ThrottleStep == Typed /\ RowsInv /\ ThrottleInv /\ [Next]_vars => ThrottleInv'
<1> SUFFICES ASSUME Typed, RowsInv, ThrottleInv, [Next]_vars, Quiet'
             PROVE  SameRules' /\ Remembered' /\ Spaced'
  BY DEF ThrottleInv
<1>1. Quiet /\ SameRules /\ Remembered /\ Spaced
  BY QuietStep DEF ThrottleInv
<1>2. /\ counts \in [retries: Nat, changes: Nat, stops: Nat] /\ worker \in Event
      /\ now \in Nat /\ lastId \in Nat /\ lastId # lastId + 1
  BY DEF Typed, TableType, LoopType
<1> DEFINE Kept == /\ rules' = rules /\ lastId' = lastId /\ now' \in Nat /\ now <= now' /\ Forgets
           Moves == /\ \A x \in worker'.todo : rules[x.rule] = x.row
                    /\ HasRule' => rules[worker'.rule.rule] = worker'.rule.row
                    /\ Granted' => /\ Granted /\ worker'.rule = worker.rule
                                   /\ worker'.host = worker.host /\ worker'.at = worker.at
<1>3. ASSUME Kept, Moves PROVE SameRules' /\ Remembered' /\ Spaced'
  BY <1>1, <1>3, ThrottleKept
<1>4. seen' = seen => Forgets
  BY DEF Forgets
<1>5. worker' = worker => Moves
  BY <1>1 DEF SameRules, HasRule, Granted
<1> HIDE DEF Kept, Moves
<1> USE DEF configVars, queueVars, tableVars, memoryVars, dispatchFrame,
        tryFrame, quietFrame, changeFrame, Change
<1>6. CASE (\E h \in Hosts : Emit(h)) \/ PurgeDeliveries \/ PanelStarts
           \/ (\E c \in Channels : DropBucket(c))
           \/ (\E p \in Procs : Attempt(p) \/ RetryAbandons(p))
           \/ (\E p \in Retriers, i \in Ids : RetryDelivery(p, i)) \/ UNCHANGED vars
  <2>1. UNCHANGED <<worker, rules, lastId, now, seen>>
    BY <1>6 DEF Emit, PurgeDeliveries, PanelStarts, DropBucket, Attempt, Send, Backoff,
       UpdateDelivery, RetryResets, RetryAbandons, RetryDelivery, vars
  <2> QED
    BY <1>2, <1>3, <1>4, <1>5, <2>1 DEF Kept
<1>7. ASSUME NEW t \in Ticks, Tick(t) PROVE SameRules' /\ Remembered' /\ Spaced'
  <2>1. UNCHANGED <<worker, rules, lastId, seen>> /\ now' \in Nat /\ now <= now'
    BY <1>2, <1>7, NotificationsAssumption DEF Tick
  <2> QED
    BY <1>3, <1>4, <1>5, <2>1 DEF Kept
<1>8. CASE Sweep
  <2>1. UNCHANGED <<worker, rules, lastId, now>>
    BY <1>8 DEF Sweep
  <2>2. Forgets
    <3>1. \A r \in Rules, h \in Hosts : seen[r][h] \in Nat \cup {None}
      BY ThrottleTypes
    <3>2. SweepAge \in Nat
      BY NotificationsAssumption
    <3> QED
      BY <1>2, <1>8, <3>1, <3>2 DEF Sweep, Forgets
  <2> QED
    BY <1>2, <1>3, <1>5, <2>1, <2>2 DEF Kept
<1>9. CASE Admin \/ PanelStops
  <2>1. CASE (\E c \in Channels : DropBucket(c))
    BY <1>6, <2>1
  <2>2. ASSUME Counted("changes") \/ Counted("stops") PROVE FALSE
    BY <1>1, <1>2, <2>2 DEF Quiet, Counted
  <2> QED
    BY <1>9, <2>1, <2>2 DEF Admin, PanelStops, PutRule, PutChannel, DeleteRule, DeleteChannel
<1>10. CASE Dequeue \/ EventDone
  <2>1. UNCHANGED <<rules, lastId, now, seen>> /\ worker'.todo = {} /\ worker'.pc \in {"idle", "list"}
    <3>1. NoEvent.pc = "idle" /\ NoEvent.todo = {}
          /\ [NoEvent EXCEPT !.pc = "list", !.host = Head(queue)].pc = "list"
          /\ [NoEvent EXCEPT !.pc = "list", !.host = Head(queue)].todo = {}
      BY DEF NoEvent
    <3> QED
      BY <1>10, <3>1 DEF Dequeue, EventDone
  <2>2. Moves
    BY <2>1 DEF Moves, HasRule, Granted
  <2> QED
    BY <1>2, <1>3, <1>4, <2>1, <2>2 DEF Kept
<1>11. CASE ActiveRulesFor
  <2>1. UNCHANGED <<rules, lastId, now, seen>>
    BY <1>11 DEF ActiveRulesFor
  <2>2. worker'.pc = "rule" /\ worker'.todo = {[rule |-> r, row |-> rules[r]] :
                      r \in {x \in Rules : rules[x] # None /\ rules[x].on}}
    BY <1>2, <1>11 DEF ActiveRulesFor, Event
  <2>3. Moves
    BY <2>2 DEF Moves, HasRule, Granted
  <2> QED
    BY <1>2, <1>3, <1>4, <2>1, <2>3 DEF Kept
<1>12. CASE AttemptReturns
  <2>1. UNCHANGED <<rules, lastId, now, seen>>
    BY <1>12 DEF AttemptReturns
  <2>2. worker'.pc = "rule" /\ worker'.todo = worker.todo
    BY <1>2, <1>12 DEF AttemptReturns, Event
  <2>3. Moves
    BY <1>1, <2>2 DEF Moves, HasRule, Granted, SameRules
  <2> QED
    BY <1>2, <1>3, <1>4, <2>1, <2>3 DEF Kept
<1>13. CASE GetChannel
  <2>1. UNCHANGED <<rules, lastId, now, seen>> /\ worker.pc = "channel"
    BY <1>13 DEF GetChannel
  <2>2. worker'.todo = worker.todo /\ worker'.rule = worker.rule /\ worker'.host = worker.host
        /\ worker'.at = worker.at
    BY <1>2, <1>13 DEF GetChannel, Event
  <2>3. Moves
    BY <1>1, <2>1, <2>2 DEF Moves, HasRule, Granted, SameRules
  <2> QED
    BY <1>2, <1>3, <1>4, <2>1, <2>3 DEF Kept
<1>14. CASE RateLimit
  <2>1. UNCHANGED <<rules, lastId, now, seen>> /\ worker.pc = "limit"
    BY <1>14 DEF RateLimit
  <2>2. worker'.todo = worker.todo /\ worker'.rule = worker.rule /\ worker'.host = worker.host
        /\ worker'.at = worker.at
    BY <1>2, <1>14 DEF RateLimit, Event
  <2>3. Moves
    BY <1>1, <2>1, <2>2 DEF Moves, HasRule, Granted, SameRules
  <2> QED
    BY <1>2, <1>3, <1>4, <2>1, <2>3 DEF Kept
<1>15. CASE InsertDelivery
  <2>1. UNCHANGED <<rules, now, seen>> /\ worker.pc = "insert"
    BY <1>15 DEF InsertDelivery
  <2>2. worker'.todo = worker.todo /\ worker'.rule = worker.rule /\ worker'.pc \in {"rule", "attempt"}
    <3>1. worker' = [worker EXCEPT !.pc = "rule"] \/ worker' = [worker EXCEPT !.pc = "attempt"]
      BY <1>15 DEF InsertDelivery
    <3> QED
      BY <1>2, <3>1 DEF Event
  <2>3. Moves
    BY <1>1, <2>1, <2>2 DEF Moves, HasRule, Granted, SameRules
  <2>4. lastId' = lastId \/ lastId' = lastId + 1
    BY <1>15 DEF InsertDelivery
  <2>5. CASE lastId' = lastId
    BY <1>2, <1>3, <1>4, <2>1, <2>3, <2>5 DEF Kept
  <2> QED
    BY <1>1, <1>15, <2>4, <2>5, ThrottleInserts
<1>16. ASSUME NEW x \in worker.todo, Throttled(x) PROVE SameRules' /\ Remembered' /\ Spaced'
  <2> DEFINE rest == [worker EXCEPT !.todo = @ \ {x}, !.rule = x]
  <2>1. UNCHANGED <<rules, lastId, now>> /\ worker.pc = "rule" /\ rules[x.rule] = x.row
    BY <1>1, <1>16 DEF Throttled, SameRules
  <2>2. \/ worker' = rest /\ seen' = seen
        \/ worker' = [rest EXCEPT !.pc = "insert", !.status = "throttled", !.ch = None] /\ seen' = seen
        \/ worker' = [rest EXCEPT !.pc = "channel"]
    BY <1>16 DEF Throttled
  <2>3. CASE worker' = rest /\ seen' = seen
    <3>1. worker'.pc = "rule" /\ worker'.todo = worker.todo \ {x}
      BY <1>2, <2>1, <2>3 DEF Event
    <3>2. Moves
      BY <1>1, <3>1 DEF Moves, HasRule, Granted, SameRules
    <3> QED
      BY <1>2, <1>3, <1>4, <2>1, <2>3, <3>2 DEF Kept
  <2>4. CASE worker' = [rest EXCEPT !.pc = "insert", !.status = "throttled", !.ch = None] /\ seen' = seen
    <3>1. worker'.pc = "insert" /\ worker'.todo = worker.todo \ {x} /\ worker'.status = "throttled"
          /\ worker'.rule = x
      BY <1>2, <2>4 DEF Event
    <3>2. Moves
      BY <1>1, <2>1, <3>1 DEF Moves, HasRule, Granted, SameRules
    <3> QED
      BY <1>2, <1>3, <1>4, <2>1, <2>4, <3>2 DEF Kept
  <2>5. CASE worker' = [rest EXCEPT !.pc = "channel"]
    <3>1. worker'.pc = "channel"
      BY <1>2, <2>5 DEF Event
    <3> QED
      BY <1>1, <1>16, <3>1, ThrottleAllows
  <2> QED
    BY <2>2, <2>3, <2>4, <2>5
<1> QED
  BY <1>6, <1>7, <1>8, <1>9, <1>10, <1>11, <1>12, <1>13, <1>14, <1>15, <1>16 DEF Next, Dispatch

\* The throttle holds its windows: while no rule is edited and the panel runs, a
\* delivery that was not suppressed is made no sooner than its rule's window after
\* the one before it, though the sweeper forgets and dispatch keeps its own clock.
THEOREM ThrottleSpacingHolds == Spec => []ThrottleSpacing
<1>1. Init => ThrottleInv
  BY DEF Init, ThrottleInv, SameRules, Remembered, Spaced, Allowed, HasRule, Granted, NoEvent
<1>2. Spec => []ThrottleInv
  BY <1>1, ThrottleStep, RowsAlways, PTL DEF Spec
<1> QED
  BY <1>2, TypedAlways, SpacedIsSpacing, PTL

\* What the limiter and the throttle hold, for any rules, channels and rates.
THEOREM LimitsHoldHolds == Spec => []LimitsHold
  BY TypeCorrect, RateBoundHolds, ThrottleSpacingHolds, PTL DEF LimitsHold
=============================================================================
