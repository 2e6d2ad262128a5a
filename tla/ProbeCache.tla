----------------------------- MODULE ProbeCache -----------------------------
(***************************************************************************)
(* certprobe.Cache: the pass of TLS probes that the certificates page, the *)
(* dashboard and the daily sweep share.  A caller lists the hosts, and is  *)
(* answered from the cache, joins the pass in flight, or makes one.  What  *)
(* Caddy serves is a number that each applied change raises; a change      *)
(* invalidates the cache after it is applied, a renewal before.            *)
(***************************************************************************)
EXTENDS Integers

CONSTANTS
    Callers, None,
    Sets,               \* sets of domains with an automatic certificate
    TTL, PassTime,      \* how long a pass is good for; how long it may take
    MaxChanges          \* bound

VARIABLES
    hosts,      \* the set the database lists
    live,       \* what Caddy serves
    admin,      \* where the request that changes it is
    cache,      \* the last pass: its set, what it saw, its age, the time since it began
    inflight,   \* the pass being made, or None
    call,       \* where each caller is
    floor       \* history: what Caddy served when the cache was last emptied
                \* with no pass in flight

vars == <<hosts, live, admin, cache, inflight, call, floor>>

Idle  == [pc |-> "idle", set |-> None]
Empty == [set |-> None, saw |-> 0, age |-> 0, old |-> 0]

\* Init has an empty cache.
Init ==
    /\ hosts \in Sets /\ live = 0 /\ admin = "idle"
    /\ cache = Empty /\ inflight = None
    /\ call = [p \in Callers |-> Idle] /\ floor = 0
----------------------------------------------------------------------------
(* The caller. *)

At(p, pc) == call[p].pc = pc

List(p) ==
    /\ At(p, "idle")
    /\ call' = [call EXCEPT ![p] = [pc |-> "look", set |-> hosts]]
    /\ UNCHANGED <<hosts, live, admin, cache, inflight, floor>>

Answer(p, c) == call' = [call EXCEPT ![p] = [pc |-> "answered", set |-> call[p].set, got |-> c]]

\* A pass over this very set, and not too old.
Fresh(p) == cache.set = call[p].set /\ cache.age <= TTL

Hit(p) ==
    /\ At(p, "look") /\ Fresh(p) /\ Answer(p, cache)
    /\ UNCHANGED <<hosts, live, admin, cache, inflight, floor>>

Join(p) ==
    /\ At(p, "look") /\ ~Fresh(p) /\ inflight # None
    /\ call' = [call EXCEPT ![p].pc = "wait"]
    /\ UNCHANGED <<hosts, live, admin, cache, inflight, floor>>

Lead(p) ==
    /\ At(p, "look") /\ ~Fresh(p) /\ inflight = None
    /\ call' = [call EXCEPT ![p].pc = "lead"]
    /\ inflight' = [set |-> call[p].set, saw |-> None, age |-> 0]
    /\ UNCHANGED <<hosts, live, admin, cache, floor>>

\* probeAll dials; a host that does not answer is a result too, and so are the
\* dials of a caller whose request is gone.
Probe ==
    /\ inflight # None /\ inflight.saw = None
    /\ inflight' = [inflight EXCEPT !.saw = live]
    /\ UNCHANGED <<hosts, live, admin, cache, call, floor>>

Woken == [q \in Callers |-> IF At(q, "wait") THEN [call[q] EXCEPT !.pc = "look"] ELSE call[q]]

\* Mutant: those who wait are not told.
StoreQuietly(p) ==
    /\ At(p, "lead") /\ inflight.saw # None
    /\ cache' = [set |-> inflight.set, saw |-> inflight.saw, age |-> 0, old |-> inflight.age]
    /\ inflight' = None /\ Answer(p, cache')
    /\ UNCHANGED <<hosts, live, admin, floor>>

\* What is stored counts as fresh, whatever happened since the pass began.
Store(p) ==
    /\ At(p, "lead") /\ inflight.saw # None
    /\ cache' = [set |-> inflight.set, saw |-> inflight.saw, age |-> 0, old |-> inflight.age]
    /\ inflight' = None
    /\ call' = [Woken EXCEPT ![p] = [pc |-> "answered", set |-> call[p].set, got |-> cache']]
    /\ UNCHANGED <<hosts, live, admin, floor>>

\* The request of a caller who waits is gone.
Cancel(p) ==
    /\ At(p, "wait") /\ call' = [call EXCEPT ![p] = Idle]
    /\ UNCHANGED <<hosts, live, admin, cache, inflight, floor>>

Return(p) ==
    /\ At(p, "answered") /\ call' = [call EXCEPT ![p] = Idle]
    /\ UNCHANGED <<hosts, live, admin, cache, inflight, floor>>
----------------------------------------------------------------------------
(* Changes to what Caddy serves. *)

\* A handler's statement, reconcile's two parts.
Mutate(s) ==
    /\ admin = "idle" /\ live < MaxChanges /\ hosts' = s /\ admin' = "apply"
    /\ UNCHANGED <<live, cache, inflight, call, floor>>

Apply ==
    /\ admin = "apply" /\ live' = live + 1 /\ admin' = "invalidate"
    /\ UNCHANGED <<hosts, cache, inflight, call, floor>>

\* Mutant: the pass is kept.
KeepPass == UNCHANGED cache

DropPass == cache' = Empty

Invalidate ==
    /\ admin = "invalidate" /\ admin' = "idle" /\ DropPass
    /\ floor' = IF inflight = None THEN live ELSE floor
    /\ UNCHANGED <<hosts, live, inflight, call>>

\* RenewCert: the cache first, the configuration after it; Caddy may then serve the
\* same certificate under a new number.
RenewCert ==
    /\ admin = "idle" /\ live < MaxChanges /\ admin' = "renew" /\ DropPass
    /\ floor' = IF inflight = None THEN live ELSE floor
    /\ UNCHANGED <<hosts, live, inflight, call>>

Renewed ==
    /\ admin = "renew" /\ admin' = "idle" /\ live' = live + 1
    /\ UNCHANGED <<hosts, cache, inflight, call, floor>>

\* A unit of time is longer than what a running goroutine needs.
Tick ==
    /\ \A p \in Callers : ~At(p, "look")
    /\ inflight # None => inflight.age < PassTime
    /\ cache' = IF cache.set = None \/ cache.age > TTL THEN cache
                ELSE [cache EXCEPT !.age = @ + 1, !.old = IF @ > TTL + PassTime THEN @ ELSE @ + 1]
    /\ inflight' = IF inflight = None THEN None ELSE [inflight EXCEPT !.age = @ + 1]
    /\ UNCHANGED <<hosts, live, admin, call, floor>>

Results(p) == Hit(p) \/ Join(p) \/ Lead(p) \/ Store(p)

Next ==
    \/ \E p \in Callers : List(p) \/ Results(p) \/ Cancel(p) \/ Return(p)
    \/ \E s \in Sets : Mutate(s)
    \/ Probe \/ Apply \/ Invalidate \/ RenewCert \/ Renewed \/ Tick

\* The pass has a timeout; a goroutine that can run does.
Fairness == WF_vars(Probe) /\ \A p \in Callers : WF_vars(Results(p)) /\ WF_vars(Return(p))
Spec == Init /\ [][Next]_vars /\ Fairness
----------------------------------------------------------------------------
(* Properties *)

\* Types; a pass has one leader.
TypeOK ==
    /\ hosts \in Sets /\ live \in 0 .. MaxChanges /\ floor \in 0 .. MaxChanges
    /\ admin \in {"idle", "apply", "invalidate", "renew"}
    /\ cache.set \in Sets \cup {None} /\ cache.age \in 0 .. TTL + 1
    /\ \A p \in Callers : call[p].pc \in {"idle", "look", "wait", "lead", "answered"}
    /\ \A p, q \in Callers : At(p, "lead") /\ At(q, "lead") => p = q
    /\ (inflight = None) = (\A p \in Callers : ~At(p, "lead"))

\* A caller is answered about the domains it asked for, from a pass that began
\* at most the lifetime and the duration of a pass ago (Cache.Results).
OwnDomains ==
    \A p \in Callers : At(p, "answered") =>
        call[p].got.set = call[p].set /\ call[p].got.old <= TTL + PassTime

\* What was seen before a change is not kept over the invalidation that follows
\* the change, unless the pass was in flight then; and a pass never replaces a
\* younger one (Cache.Invalidate, inflight).
ChangeIsSeen ==
    /\ cache.set # None => cache.saw >= floor
    /\ inflight # None /\ inflight.saw # None /\ cache.set # None => inflight.saw >= cache.saw

\* Whoever calls is answered or gives up, whatever the others ask for.
CallsReturn == \A p \in Callers : At(p, "look") ~> At(p, "idle")
=============================================================================
