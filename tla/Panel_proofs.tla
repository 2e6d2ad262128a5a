---------------------------- MODULE Panel_proofs ----------------------------
(***************************************************************************)
(* The panel's smaller parts, proved: the cache of probes, the dashboard's *)
(* cache, the uploaded certificate, the AppSec sentinels, the DNS          *)
(* providers and the sources of alarms.  Each has its inductive invariant, *)
(* a lemma per action and a theorem; they share no state, and no lemma.    *)
(***************************************************************************)
EXTENDS Panel, FiniteSetTheorems, TLAPS

----------------------------------------------------------------------------
(* The cache of probes.  A pass, stored or in flight, began no longer ago  *)
(* than its age says, and what it saw is no older than floor: the cache is *)
(* emptied before floor rises, and only while no pass is in flight.        *)

Stored == [set: DomainSets \cup {None}, saw: Nat, age: Nat, old: Nat]

\* A stored pass: there is one, it has its ages, and it saw what is served now at
\* the latest.
StoredFits(c) ==
    /\ c \in Stored /\ c.age <= PassTTL + 1 /\ c.saw <= live
    /\ c.set # None => c.old <= c.age + PassTime /\ c.saw >= floor

\* The pass in flight sees no less than the one that is stored.
PassFits ==
    /\ inflight # None => inflight \in Pass /\ inflight.age <= PassTime
    /\ inflight # None /\ inflight.saw # None =>
          /\ inflight.saw <= live /\ inflight.saw >= floor
          /\ cache.set # None => inflight.saw >= cache.saw

\* A caller that waits or leads has its set; one that is answered has its answer.
CallerFits(c) ==
    /\ c.pc \in {"idle", "look", "wait", "lead", "answered"}
    /\ c.pc # "idle" => c.set \in DomainSets
    /\ c.pc = "answered" => c.got.set = c.set /\ c.got.old <= PassTTL + PassTime

ProbesTypes ==
    /\ hosts \in DomainSets /\ live \in Nat /\ floor \in Nat /\ floor <= live
    /\ admin \in {"idle", "apply", "invalidate", "renew"}
    /\ live <= MaxLive /\ (admin \in {"apply", "renew"} => live < MaxLive)
    /\ DOMAIN call = Callers /\ call = [p \in Callers |-> call[p]]

ProbesInv ==
    /\ ProbesTypes /\ StoredFits(cache) /\ PassFits
    /\ \A p \in Callers : CallerFits(call[p])
    /\ \A p, q \in Callers : call[p].pc = "lead" /\ call[q].pc = "lead" => p = q
    /\ inflight = None <=> \A p \in Callers : call[p].pc # "lead"
    /\ \A p \in Callers : call[p].pc = "lead" => inflight.set = call[p].set

\* Nothing is cached, and nobody asks.
LEMMA ProbesInitHolds == Probes!Init => ProbesInv
<1> SUFFICES ASSUME Probes!Init PROVE ProbesInv
  OBVIOUS
<1>1. /\ hosts \in DomainSets /\ live = 0 /\ admin = "idle" /\ cache = Probes!Empty
      /\ inflight = None /\ call = [p \in Callers |-> Probes!Idle] /\ floor = 0
  BY DEF Probes!Init
<1>2. StoredFits(cache)
  BY <1>1, ProbesAssumption DEF StoredFits, Stored, Probes!Empty
<1>3. CallerFits(Probes!Idle) /\ Probes!Idle.pc = "idle"
  BY DEF CallerFits, Probes!Idle
<1>4. ProbesTypes /\ PassFits
  BY <1>1, ProbesAssumption DEF ProbesTypes, PassFits
<1> QED
  BY <1>1, <1>2, <1>3, <1>4 DEF ProbesInv

\* One caller goes on, to c.
LEMMA OneCaller ==
  ASSUME ProbesInv, NEW p \in Callers, NEW c, CallerFits(c), call' = [call EXCEPT ![p] = c]
  PROVE  /\ DOMAIN call' = Callers /\ call' = [q \in Callers |-> call'[q]]
         /\ call'[p] = c /\ \A q \in Callers : q = p \/ call'[q] = call[q]
         /\ \A q \in Callers : CallerFits(call'[q])
BY DEF ProbesInv, ProbesTypes

\* A caller that neither leads nor led goes on, and the rest stays.
LEMMA CallerKeeps ==
  ASSUME ProbesInv, NEW p \in Callers, NEW c, CallerFits(c), call' = [call EXCEPT ![p] = c],
         c.pc # "lead", call[p].pc # "lead", UNCHANGED <<hosts, live, admin, cache, inflight, floor>>
  PROVE  ProbesInv'
<1>1. /\ DOMAIN call' = Callers /\ call' = [q \in Callers |-> call'[q]]
      /\ call'[p] = c /\ \A q \in Callers : q = p \/ call'[q] = call[q]
      /\ \A q \in Callers : CallerFits(call'[q])
  BY OneCaller
<1>2. ProbesTypes' /\ PassFits' /\ StoredFits(cache)'
  BY <1>1 DEF ProbesInv, ProbesTypes, PassFits, StoredFits
<1>3. \A q \in Callers : call'[q].pc = "lead" <=> call[q].pc = "lead"
  BY <1>1
<1> QED
  BY <1>1, <1>2, <1>3 DEF ProbesInv

\* A caller lists the hosts.
LEMMA ListKeeps == ASSUME ProbesInv, NEW p \in Callers, Probes!List(p) PROVE ProbesInv'
<1> DEFINE c == [pc |-> "look", set |-> hosts]
<1>1. CallerFits(c) /\ c.pc = "look"
  BY DEF CallerFits, ProbesInv, ProbesTypes
<1>2. /\ call' = [call EXCEPT ![p] = c] /\ call[p].pc # "lead"
      /\ UNCHANGED <<hosts, live, admin, cache, inflight, floor>>
  BY DEF Probes!List, Probes!At
<1> HIDE DEF c
<1> QED
  BY <1>1, <1>2, CallerKeeps

\* It is answered from the cache: the very set, and not too old.
LEMMA HitKeeps == ASSUME ProbesInv, NEW p \in Callers, Probes!Hit(p) PROVE ProbesInv'
<1> DEFINE c == [pc |-> "answered", set |-> call[p].set, got |-> cache]
<1>1. call[p].pc = "look" /\ cache.set = call[p].set /\ cache.age <= PassTTL
  BY DEF Probes!Hit, Probes!At, Probes!Fresh
<1>2. call[p].set \in DomainSets
  BY <1>1 DEF ProbesInv, CallerFits
<1>3. cache.set # None
  BY <1>1, <1>2, ProbesAssumption
<1>4. cache.old <= cache.age + PassTime /\ cache.old \in Nat /\ cache.age \in Nat
  BY <1>3 DEF ProbesInv, StoredFits, Stored
<1>5. cache.old <= PassTTL + PassTime
  BY <1>1, <1>4, ProbesAssumption
<1>6. CallerFits(c) /\ c.pc = "answered"
  BY <1>1, <1>2, <1>5 DEF CallerFits
<1>7. call' = [call EXCEPT ![p] = c] /\ UNCHANGED <<hosts, live, admin, cache, inflight, floor>>
  BY DEF Probes!Hit, Probes!Answer
<1> HIDE DEF c
<1> QED
  BY <1>1, <1>6, <1>7, CallerKeeps

\* It waits for the pass in flight.
LEMMA JoinKeeps == ASSUME ProbesInv, NEW p \in Callers, Probes!Join(p) PROVE ProbesInv'
<1> DEFINE c == [call[p] EXCEPT !.pc = "wait"]
<1>1. /\ call[p].pc = "look" /\ call' = [call EXCEPT ![p].pc = "wait"]
      /\ UNCHANGED <<hosts, live, admin, cache, inflight, floor>>
  BY DEF Probes!Join, Probes!At
<1>2. call' = [call EXCEPT ![p] = c]
  BY <1>1
<1>3. CallerFits(call[p])
  BY DEF ProbesInv
<1>4. CallerFits(c) /\ c.pc = "wait"
  BY <1>1, <1>3 DEF CallerFits
<1> HIDE DEF c
<1> QED
  BY <1>1, <1>2, <1>4, CallerKeeps

\* It gives up, or takes its answer.
LEMMA IdleKeeps ==
  ASSUME ProbesInv, NEW p \in Callers, Probes!Cancel(p) \/ Probes!Return(p)
  PROVE  ProbesInv'
<1>1. CallerFits(Probes!Idle) /\ Probes!Idle.pc = "idle"
  BY DEF CallerFits, Probes!Idle
<1>2. /\ call' = [call EXCEPT ![p] = Probes!Idle] /\ call[p].pc # "lead"
      /\ UNCHANGED <<hosts, live, admin, cache, inflight, floor>>
  BY DEF Probes!Cancel, Probes!Return, Probes!At
<1> QED
  BY <1>1, <1>2, CallerKeeps

\* It leads a pass of its own.
LEMMA LeadKeeps == ASSUME ProbesInv, NEW p \in Callers, Probes!Lead(p) PROVE ProbesInv'
<1> DEFINE c == [call[p] EXCEPT !.pc = "lead"]
           n == [set |-> call[p].set, saw |-> None, age |-> 0]
<1>1. /\ call[p].pc = "look" /\ call' = [call EXCEPT ![p].pc = "lead"] /\ inflight = None
      /\ inflight' = n /\ UNCHANGED <<hosts, live, admin, cache, floor>>
  BY DEF Probes!Lead, Probes!At
<1>2. call' = [call EXCEPT ![p] = c] /\ CallerFits(call[p])
  BY <1>1 DEF ProbesInv
<1>3. CallerFits(c) /\ c.pc = "lead" /\ call[p].set \in DomainSets /\ c.set = n.set
  BY <1>1, <1>2 DEF CallerFits
<1>4. n \in Pass /\ n.saw = None /\ n.age = 0
  BY <1>3 DEF Pass
<1> HIDE DEF c, n
<1>5. /\ DOMAIN call' = Callers /\ call' = [q \in Callers |-> call'[q]]
      /\ call'[p] = c /\ \A q \in Callers : q = p \/ call'[q] = call[q]
      /\ \A q \in Callers : CallerFits(call'[q])
  BY <1>2, <1>3, OneCaller
<1>6. inflight' # None
  BY <1>1, <1>4, ProbesAssumption
<1>7. \A q \in Callers : call[q].pc # "lead"
  BY <1>1 DEF ProbesInv
<1>8. ProbesTypes' /\ StoredFits(cache)'
  BY <1>1, <1>5 DEF ProbesInv, ProbesTypes, StoredFits
<1>9. PassFits'
  BY <1>1, <1>4, ProbesAssumption DEF PassFits
<1>10. \A q \in Callers : call'[q].pc = "lead" <=> q = p
  BY <1>3, <1>5, <1>7
<1>11. inflight'.set = call'[p].set
  BY <1>1, <1>3, <1>5
<1> QED
  BY <1>5, <1>6, <1>8, <1>9, <1>10, <1>11 DEF ProbesInv

\* The pass sees what is served now.
LEMMA ProbeKeeps == ASSUME ProbesInv, Probes!Probe PROVE ProbesInv'
<1>1. /\ inflight # None /\ inflight.saw = None /\ inflight' = [inflight EXCEPT !.saw = live]
      /\ UNCHANGED <<hosts, live, admin, cache, call, floor>>
  BY DEF Probes!Probe
<1>2. inflight \in Pass /\ inflight.age <= PassTime
  BY <1>1 DEF ProbesInv, PassFits
<1>3. live \in Nat /\ floor <= live /\ (cache.set # None => cache.saw <= live)
  BY DEF ProbesInv, ProbesTypes, StoredFits
<1>4. inflight' \in Pass /\ inflight'.saw = live /\ inflight'.age = inflight.age
  BY <1>1, <1>2, <1>3 DEF Pass
<1>5. inflight' # None
  BY <1>4, ProbesAssumption
<1>6. PassFits'
  BY <1>1, <1>2, <1>3, <1>4 DEF PassFits
<1>7. ProbesTypes' /\ StoredFits(cache)'
  BY <1>1 DEF ProbesInv, ProbesTypes, StoredFits
<1> QED
  BY <1>1, <1>5, <1>6, <1>7 DEF ProbesInv

\* Who led stores what the pass saw, and is answered; who waited looks again.
LEMMA StoreKeeps == ASSUME ProbesInv, NEW p \in Callers, Probes!Store(p) PROVE ProbesInv'
<1> DEFINE n == [set |-> inflight.set, saw |-> inflight.saw, age |-> 0, old |-> inflight.age]
           c == [pc |-> "answered", set |-> call[p].set, got |-> n]
           W == Probes!Woken
<1>1. /\ call[p].pc = "lead" /\ inflight.saw # None /\ cache' = n /\ inflight' = None
      /\ call' = [W EXCEPT ![p] = c] /\ UNCHANGED <<hosts, live, admin, floor>>
  BY DEF Probes!Store, Probes!At
<1>2. inflight # None
  BY <1>1 DEF ProbesInv
<1>3. /\ inflight \in Pass /\ inflight.saw \in Nat /\ inflight.age <= PassTime
      /\ inflight.saw <= live /\ inflight.saw >= floor
  BY <1>1, <1>2 DEF ProbesInv, PassFits, Pass
<1>4. /\ n \in Stored /\ n.age = 0 /\ n.saw = inflight.saw /\ n.old = inflight.age
      /\ n.old \in Nat
  BY <1>3 DEF Pass, Stored
<1>5. StoredFits(cache)'
  <2> HIDE DEF n
  <2> QED
    BY <1>1, <1>3, <1>4, ProbesAssumption DEF StoredFits
<1>6. n.set = call[p].set /\ call[p].set \in DomainSets
  BY <1>1 DEF ProbesInv, CallerFits
<1>7. CallerFits(c) /\ c.pc = "answered"
  <2> HIDE DEF n
  <2> QED
    BY <1>3, <1>4, <1>6, ProbesAssumption DEF CallerFits
<1> HIDE DEF n, c
<1>8. \A q \in Callers : CallerFits(W[q]) /\ (W[q].pc = "lead" => q = p)
  BY <1>1 DEF ProbesInv, CallerFits, Probes!Woken, Probes!At
<1>9. DOMAIN W = Callers
  BY DEF Probes!Woken
<1> HIDE DEF W
<1>10. /\ DOMAIN call' = Callers /\ call' = [q \in Callers |-> call'[q]] /\ call'[p] = c
       /\ \A q \in Callers : q = p \/ call'[q] = W[q]
  BY <1>1, <1>9
<1>11. \A q \in Callers : CallerFits(call'[q]) /\ call'[q].pc # "lead"
  BY <1>7, <1>8, <1>10
<1>12. ProbesTypes' /\ PassFits'
  BY <1>1, <1>10 DEF ProbesInv, ProbesTypes, PassFits
<1> QED
  BY <1>1, <1>5, <1>10, <1>11, <1>12 DEF ProbesInv

\* A change is made, applied, and invalidates the pass.
LEMMA ChangeKeeps ==
  ASSUME ProbesInv,
         (\E s \in DomainSets : Probes!Mutate(s)) \/ Probes!Apply \/ Probes!Renewed
  PROVE  ProbesInv'
<1>1. /\ UNCHANGED <<cache, inflight, call, floor>> /\ hosts' \in DomainSets
      /\ admin' \in {"idle", "apply", "invalidate", "renew"}
      /\ live' = live \/ (live' = live + 1 /\ admin \in {"apply", "renew"})
      /\ admin' = "apply" => live < MaxLive /\ live' = live
      /\ admin' # "renew"
  BY DEF ProbesInv, ProbesTypes, Probes!Mutate, Probes!Apply, Probes!Renewed
<1>2. ProbesTypes'
  BY <1>1, ProbesAssumption DEF ProbesInv, ProbesTypes
<1>3. live' \in Nat /\ live <= live' /\ live \in Nat
  BY <1>1 DEF ProbesInv, ProbesTypes
<1>4. StoredFits(cache)'
  BY <1>1, <1>3 DEF ProbesInv, StoredFits, Stored
<1>5. PassFits'
  BY <1>1, <1>3 DEF ProbesInv, PassFits, Pass
<1> QED
  BY <1>1, <1>2, <1>4, <1>5 DEF ProbesInv

\* The cache is emptied, by a change or a renewal.
LEMMA DropKeeps == ASSUME ProbesInv, Probes!Invalidate \/ Probes!RenewCert PROVE ProbesInv'
<1>1. /\ UNCHANGED <<hosts, live, inflight, call>> /\ cache' = Probes!Empty
      /\ floor' = IF inflight = None THEN live ELSE floor
      /\ admin' \in {"idle", "renew"} /\ (admin' = "renew" => live < MaxLive)
  BY DEF Probes!Invalidate, Probes!RenewCert, Probes!DropPass
<1>2. ProbesTypes'
  BY <1>1 DEF ProbesInv, ProbesTypes
<1>4. StoredFits(cache)'
  BY <1>1, ProbesAssumption DEF StoredFits, Stored, Probes!Empty, ProbesInv, ProbesTypes
<1>5. PassFits'
  BY <1>1 DEF ProbesInv, PassFits, Probes!Empty
<1> QED
  BY <1>1, <1>2, <1>4, <1>5 DEF ProbesInv

\* Time: what is cached and the pass in flight are older by one.
LEMMA ProbesTickKeeps == ASSUME ProbesInv, Probes!Tick PROVE ProbesInv'
<1> DEFINE n == [cache EXCEPT !.age = @ + 1,
                              !.old = IF @ > PassTTL + PassTime THEN @ ELSE @ + 1]
<1>1. /\ inflight # None => inflight.age < PassTime
      /\ cache' = IF cache.set = None \/ cache.age > PassTTL THEN cache ELSE n
      /\ inflight' = IF inflight = None THEN None ELSE [inflight EXCEPT !.age = @ + 1]
      /\ UNCHANGED <<hosts, live, admin, call, floor>>
  BY DEF Probes!Tick
<1>2. cache \in Stored /\ StoredFits(cache)
  BY DEF ProbesInv, StoredFits
<1>3. /\ cache'.set = cache.set /\ cache'.saw = cache.saw /\ cache' \in Stored
      /\ \/ cache' = cache
         \/ /\ cache.age <= PassTTL /\ cache'.age = cache.age + 1
            /\ cache'.old \in Nat /\ cache'.old <= cache.old + 1
  <2>1. CASE cache.set = None \/ cache.age > PassTTL
    BY <1>1, <1>2, <2>1
  <2>2. CASE ~(cache.set = None \/ cache.age > PassTTL)
    <3>1. cache' = n /\ cache.age <= PassTTL
      BY <1>1, <1>2, <2>2, ProbesAssumption DEF Stored
    <3>2. /\ n.set = cache.set /\ n.saw = cache.saw /\ n.age = cache.age + 1
          /\ n.old \in {cache.old, cache.old + 1} /\ n \in Stored
      <4> DEFINE m == [cache EXCEPT !.age = @ + 1]
      <4>1. /\ m \in Stored /\ m.set = cache.set /\ m.saw = cache.saw /\ m.age = cache.age + 1
            /\ m.old = cache.old
        BY <1>2 DEF Stored
      <4>2. n = [m EXCEPT !.old = IF @ > PassTTL + PassTime THEN @ ELSE @ + 1]
        OBVIOUS
      <4> HIDE DEF m, n
      <4> QED
        BY <4>1, <4>2 DEF Stored
    <3> HIDE DEF n
    <3> QED
      BY <1>2, <3>1, <3>2 DEF Stored
  <2> QED
    BY <2>1, <2>2
<1> HIDE DEF n
<1>4. StoredFits(cache)'
  BY <1>1, <1>2, <1>3, ProbesAssumption DEF StoredFits, Stored
<1>5. PassFits'
  <2>1. CASE inflight = None
    BY <1>1, <2>1 DEF PassFits
  <2>2. CASE inflight # None
    <3>1. inflight \in Pass /\ inflight.age < PassTime
      BY <1>1, <2>2 DEF ProbesInv, PassFits
    <3>2. inflight' \in Pass /\ inflight'.saw = inflight.saw /\ inflight'.age = inflight.age + 1
      BY <1>1, <2>2, <3>1 DEF Pass
    <3>3. inflight'.age <= PassTime
      BY <3>1, <3>2, ProbesAssumption DEF Pass
    <3> QED
      BY <1>1, <1>3, <2>2, <3>2, <3>3 DEF ProbesInv, PassFits
  <2> QED
    BY <2>1, <2>2
<1>6. inflight' = None <=> inflight = None
  <2>1. CASE inflight # None
    <3>1. inflight \in Pass
      BY <2>1 DEF ProbesInv, PassFits
    <3>2. inflight' \in Pass
      BY <1>1, <2>1, <3>1 DEF Pass
    <3> QED
      BY <2>1, <3>2, ProbesAssumption
  <2> QED
    BY <1>1, <2>1
<1>7. ProbesTypes'
  BY <1>1 DEF ProbesInv, ProbesTypes
<1> QED
  BY <1>1, <1>4, <1>5, <1>6, <1>7 DEF ProbesInv

\* Every step keeps it.
LEMMA ProbesStepKeeps == ProbesInv /\ [Probes!Next]_Probes!vars => ProbesInv'
<1> SUFFICES ASSUME ProbesInv, [Probes!Next]_Probes!vars PROVE ProbesInv'
  OBVIOUS
<1>1. ASSUME NEW p \in Callers,
             Probes!List(p) \/ Probes!Results(p) \/ Probes!Cancel(p) \/ Probes!Return(p)
      PROVE  ProbesInv'
  BY <1>1, ListKeeps, HitKeeps, JoinKeeps, LeadKeeps, StoreKeeps, IdleKeeps DEF Probes!Results
<1>2. CASE UNCHANGED Probes!vars
  BY <1>2 DEF Probes!vars, ProbesInv, ProbesTypes, StoredFits, PassFits
<1> QED
  BY <1>1, <1>2, ProbeKeeps, ChangeKeeps, DropKeeps, ProbesTickKeeps DEF Probes!Next

\* ProbesAreFresh, for every value of the constants: a caller is answered about its
\* own domains from a pass that is not too old, and no pass from before a change
\* outlives the invalidation after it, but the one in flight then.
THEOREM ProbesAreFreshHolds == Probes!Spec => []ProbesAreFresh
<1>1. Probes!Init => ProbesInv
  BY ProbesInitHolds
<1>2. ProbesInv /\ [Probes!Next]_Probes!vars => ProbesInv'
  BY ProbesStepKeeps
<1>3. ProbesInv => ProbesAreFresh
  <2> SUFFICES ASSUME ProbesInv
               PROVE  Probes!TypeOK /\ Probes!OwnDomains /\ Probes!ChangeIsSeen
    BY DEF ProbesAreFresh
  <2>1. Probes!TypeOK
    <3>1. live \in 0 .. MaxLive /\ floor \in 0 .. MaxLive
      BY ProbesAssumption DEF ProbesInv, ProbesTypes
    <3>2. cache.set \in DomainSets \cup {None} /\ cache.age \in 0 .. PassTTL + 1
      BY ProbesAssumption DEF ProbesInv, StoredFits, Stored
    <3>3. \A p \in Callers : call[p].pc \in {"idle", "look", "wait", "lead", "answered"}
      BY DEF ProbesInv, CallerFits
    <3> QED
      BY <3>1, <3>2, <3>3 DEF ProbesInv, ProbesTypes, Probes!TypeOK, Probes!At
  <2>2. Probes!OwnDomains
    BY DEF ProbesInv, CallerFits, Probes!OwnDomains, Probes!At
  <2>3. Probes!ChangeIsSeen
    BY DEF ProbesInv, StoredFits, PassFits, Probes!ChangeIsSeen
  <2> QED
    BY <2>1, <2>2, <2>3
<1> QED
  BY <1>1, <1>2, <1>3, PTL DEF Probes!Spec
----------------------------------------------------------------------------
(* The dashboard's cache.  A view is as old as the time since the round    *)
(* that loaded it last: the interval, what that round took and what this   *)
(* one has taken.                                                          *)

Item == [age: Nat \cup {None}, asked: Nat, err: BOOLEAN]

\* A view whose last load failed, or that is no older than n.
Within(e, n) == e.err \/ (e.age # None /\ e.age <= n)

\* A caller that was told finds what has landed since it came.
AskFits(a) ==
    /\ a \in [pc: {"idle", "wait", "told"}, view: Dash!Views \cup {None}, since: Nat]
    /\ a.pc # "idle" => a.view \in Dash!Views
    /\ a.pc = "told" => Within(entry[a.view], a.since)

\* At most one load, younger than the value there is.
LoadFits(k) ==
    /\ load[k] \subseteq 0 .. LoadTime /\ \A l, m \in load[k] : l = m
    /\ \A l \in load[k] : entry[k].age # None => l <= entry[k].age

\* A pinned view: between two rounds, before it is loaded in a round, and after.
PinnedFits(k) ==
    /\ at = "tick" => Within(entry[k], timer + Slack)
    /\ at # "tick" /\ timer # None => Within(entry[k], Dash!WarmInterval + Slack + spent)
    /\ at # "tick" /\ k \notin due /\ at # k => Within(entry[k], spent)

\* Another: it was asked for lately if it is to be loaded, or is being loaded.
UnpinnedFits(k) ==
    /\ k \in due => entry[k].asked <= MaxStale + spent
    /\ \A l \in load[k] : entry[k].asked <= MaxStale + Slack + l

Clock ==
    /\ due \subseteq Dash!Views /\ at \in Dash!Views \cup {None, "tick"}
    /\ at \in Dash!Views => load[at] # {}
    /\ spent \in Nat /\ timer \in Nat \cup {None} /\ (timer # None => timer <= Dash!WarmInterval)
    /\ at = "tick" => timer # None /\ due = {} /\ spent = 0
    /\ at # "tick" => spent <= Slack /\ (timer # None => timer = spent)

EntryFits(e) ==
    /\ e \in Item /\ e.asked <= Dash!Old
    /\ e.age # None => e.age <= Dash!Old

DashMaps ==
    /\ DOMAIN entry = Dash!Views /\ entry = [k \in Dash!Views |-> entry[k]]
    /\ DOMAIN load = Dash!Views /\ load = [k \in Dash!Views |-> load[k]]
    /\ DOMAIN ask = Callers /\ ask = [p \in Callers |-> ask[p]]

DashInv ==
    /\ DashMaps /\ Clock
    /\ \A k \in Dash!Views : EntryFits(entry[k]) /\ LoadFits(k)
    /\ \A k \in Pinned : PinnedFits(k)
    /\ \A k \in Unpinned : UnpinnedFits(k)
    /\ \A p \in Callers : AskFits(ask[p])

\* The constants, as the proofs use them.
LEMMA DashConstants ==
  /\ ViewTTL \in Nat /\ MaxStale \in Nat /\ LoadTime \in Nat /\ Slack \in Nat
  /\ Dash!WarmInterval \in Nat /\ Dash!Old \in Nat /\ Dash!Old = MaxStale + LoadTime + 1
  /\ Dash!WarmInterval + Slack + Slack <= ViewTTL /\ Slack <= Dash!WarmInterval
  /\ None \notin Nat /\ None # "tick" /\ None \notin Dash!Views /\ "tick" \notin Dash!Views
  /\ Dash!Views = Pinned \cup Unpinned /\ Pinned \cap Unpinned = {}
BY DashAssumption DEF Dash!Views, Dash!Old, Dash!WarmInterval

\* What asking for a view changes of it.
LEMMA AskedEffect ==
  ASSUME DashInv, NEW k \in Dash!Views, Dash!Asked(k)
  PROVE  /\ DOMAIN entry' = Dash!Views /\ entry' = [j \in Dash!Views |-> entry'[j]]
         /\ \A j \in Dash!Views : j # k => entry'[j] = entry[j]
         /\ entry'[k] \in Item /\ entry'[k].asked = 0
         /\ \A j \in Dash!Views : entry'[j].age = entry[j].age /\ entry'[j].err = entry[j].err
         /\ \A j \in Dash!Views : EntryFits(entry'[j])
<1> DEFINE e == [entry[k] EXCEPT !.asked = 0]
<1>1. DOMAIN entry = Dash!Views /\ \A j \in Dash!Views : EntryFits(entry[j])
  BY DEF DashInv, DashMaps
<1>2. entry' = [entry EXCEPT ![k] = e]
  BY DEF Dash!Asked
<1>3. e \in Item /\ e.asked = 0 /\ e.age = entry[k].age /\ e.err = entry[k].err
  BY <1>1 DEF EntryFits, Item
<1>4. EntryFits(e)
  BY <1>1, <1>3, DashConstants DEF EntryFits
<1> HIDE DEF e
<1>5. entry'[k] = e /\ \A j \in Dash!Views : j # k => entry'[j] = entry[j]
  BY <1>1, <1>2
<1>6. \A j \in Dash!Views : EntryFits(entry'[j])
  BY <1>1, <1>4, <1>5
<1>7. DOMAIN entry' = Dash!Views /\ entry' = [j \in Dash!Views |-> entry'[j]]
  BY <1>1, <1>2
<1> QED
  BY <1>3, <1>5, <1>6, <1>7

\* What starting a load changes: the view has one afterwards, the one it had or a new one.
LEMMA LoadEffect ==
  ASSUME DashInv, NEW k \in Dash!Views, Dash!StartLoad(k)
  PROVE  /\ DOMAIN load' = Dash!Views /\ load' = [j \in Dash!Views |-> load'[j]]
         /\ \A j \in Dash!Views : j # k => load'[j] = load[j]
         /\ load'[k] = IF load[k] = {} THEN {0} ELSE load[k]
BY DEF DashInv, DashMaps, Dash!StartLoad

\* Two views as old, and two whose last load failed alike, are as fresh.
LEMMA AsFresh ==
  ASSUME NEW d, NEW e, d.age = e.age, d.err = e.err, NEW n
  PROVE  Within(d, n) <=> Within(e, n)
BY DEF Within

\* A load that is new is no older than any value.
LEMMA LoadStays ==
  ASSUME NEW k, NEW new, LoadFits(k), EntryFits(entry[k]), EntryFits(entry'[k]),
         new = {0} \/ new = load[k], load'[k] = new, entry'[k].age = entry[k].age
  PROVE  LoadFits(k)'
<1>1. LoadFits(k)' <=> (/\ load'[k] \subseteq 0 .. LoadTime /\ \A l, m \in load'[k] : l = m
                       /\ \A l \in load'[k] : entry'[k].age # None => l <= entry'[k].age)
  BY DEF LoadFits
<1>2. CASE load'[k] = load[k]
  BY <1>1, <1>2 DEF LoadFits
<1>3. CASE load'[k] = {0}
  <2>1. entry'[k].age # None => 0 <= entry'[k].age
    BY DashConstants DEF EntryFits, Item
  <2> QED
    BY <1>1, <1>3, <2>1, DashConstants
<1> QED
  BY <1>2, <1>3

\* Serve and Wait: a view is asked for, and a load of it may begin.
LEMMA AskStep ==
  ASSUME DashInv, NEW k \in Dash!Views, Dash!Asked(k), Dash!StartLoad(k) \/ UNCHANGED load,
         UNCHANGED <<due, at, timer, spent, failed>>
  PROVE  /\ Clock' /\ DOMAIN entry' = Dash!Views /\ entry' = [j \in Dash!Views |-> entry'[j]]
         /\ DOMAIN load' = Dash!Views /\ load' = [j \in Dash!Views |-> load'[j]]
         /\ \A j \in Dash!Views : EntryFits(entry'[j]) /\ LoadFits(j)'
         /\ \A j \in Pinned : PinnedFits(j)'
         /\ \A j \in Unpinned : UnpinnedFits(j)'
         /\ \A j \in Dash!Views, n \in Nat : Within(entry[j], n) => Within(entry'[j], n)
<1>1. \A j \in Dash!Views : EntryFits(entry[j]) /\ LoadFits(j)
  BY DEF DashInv
<1>2. /\ DOMAIN load' = Dash!Views /\ load' = [j \in Dash!Views |-> load'[j]]
      /\ \A j \in Dash!Views : load'[j] = load[j] \/ (j = k /\ load[j] = {} /\ load'[j] = {0})
  <2>1. CASE Dash!StartLoad(k)
    BY <2>1, LoadEffect
  <2>2. CASE UNCHANGED load
    BY <2>2 DEF DashInv, DashMaps
  <2> QED
    BY <2>1, <2>2
<1>3. /\ DOMAIN entry' = Dash!Views /\ entry' = [j \in Dash!Views |-> entry'[j]]
      /\ \A j \in Dash!Views : j # k => entry'[j] = entry[j]
      /\ entry'[k].asked = 0
      /\ \A j \in Dash!Views : entry'[j].age = entry[j].age /\ entry'[j].err = entry[j].err
      /\ \A j \in Dash!Views : EntryFits(entry'[j])
  BY AskedEffect
<1>4. ASSUME NEW j \in Dash!Views PROVE LoadFits(j)'
  BY <1>1, <1>2, <1>3, LoadStays
<1>5. \A j \in Dash!Views : \A n : Within(entry'[j], n) <=> Within(entry[j], n)
  BY <1>3, AsFresh
<1>6. Clock'
  BY <1>2 DEF DashInv, Clock
<1>7. ASSUME NEW j \in Pinned PROVE PinnedFits(j)'
  <2>1. PinnedFits(j) /\ j \in Dash!Views
    BY DashConstants DEF DashInv
  <2> QED
    BY <1>5, <2>1 DEF PinnedFits
<1>8. ASSUME NEW j \in Unpinned PROVE UnpinnedFits(j)'
  <2>1. UnpinnedFits(j) /\ j \in Dash!Views
    BY DashConstants DEF DashInv
  <2>2. CASE j # k
    <3>1. entry'[j] = entry[j] /\ load'[j] = load[j]
      BY <1>2, <1>3, <2>1, <2>2
    <3> QED
      BY <2>1, <3>1 DEF UnpinnedFits
  <2>3. CASE j = k
    <3>1. entry'[j].asked = 0 /\ load'[j] \subseteq Nat /\ spent \in Nat /\ spent' = spent
      BY <1>1, <1>2, <1>3, <2>1, <2>3, DashConstants DEF LoadFits, DashInv, Clock
    <3> QED
      BY <3>1, DashConstants DEF UnpinnedFits
  <2> QED
    BY <2>2, <2>3
<1> QED
  BY <1>2, <1>3, <1>4, <1>5, <1>6, <1>7, <1>8

\* A caller that was there stays in place when no view gets older.
LEMMA CallersStay ==
  ASSUME DashInv, \A j \in Dash!Views, n \in Nat : Within(entry[j], n) => Within(entry'[j], n)
  PROVE  \A p \in Callers : AskFits(ask[p]) => 
           /\ ask[p] \in [pc: {"idle", "wait", "told"}, view: Dash!Views \cup {None}, since: Nat]
           /\ ask[p].pc # "idle" => ask[p].view \in Dash!Views
           /\ ask[p].pc = "told" => Within(entry'[ask[p].view], ask[p].since)
BY DEF AskFits

\* A caller who is served.
LEMMA ServeKeeps ==
  ASSUME DashInv, NEW p \in Callers, NEW k \in Dash!Views, Dash!Serve(p, k)
  PROVE  DashInv'
<1>1. /\ Dash!Asked(k) /\ (Dash!StartLoad(k) \/ UNCHANGED load)
      /\ UNCHANGED <<ask, due, at, timer, spent, failed>>
  BY DEF Dash!Serve
<1>2. \A q \in Callers : AskFits(ask[q])'
  <2>1. \A j \in Dash!Views, n \in Nat : Within(entry[j], n) => Within(entry'[j], n)
    BY <1>1, AskStep
  <2> QED
    BY <1>1, <2>1, CallersStay DEF AskFits, DashInv
<1> QED
  BY <1>1, <1>2, AskStep DEF DashInv, DashMaps

\* A caller who waits.
LEMMA WaitKeeps ==
  ASSUME DashInv, NEW p \in Callers, NEW k \in Dash!Views, Dash!Wait(p, k)
  PROVE  DashInv'
<1> DEFINE a == [pc |-> "wait", view |-> k, since |-> 0]
<1>1. /\ Dash!Asked(k) /\ Dash!StartLoad(k) /\ ask' = [ask EXCEPT ![p] = a]
      /\ UNCHANGED <<due, at, timer, spent, failed>>
  BY DEF Dash!Wait
<1>2. /\ a \in [pc: {"idle", "wait", "told"}, view: Dash!Views \cup {None}, since: Nat]
      /\ a.pc = "wait" /\ a.view \in Dash!Views
  OBVIOUS
<1> HIDE DEF a
<1>3. DOMAIN ask = Callers
  BY DEF DashInv, DashMaps
<1>4. /\ DOMAIN ask' = Callers /\ ask' = [q \in Callers |-> ask'[q]]
      /\ \A q \in Callers : ask'[q] = IF q = p THEN a ELSE ask[q]
  BY <1>1, <1>3
<1>5. \A q \in Callers : AskFits(ask[q])'
  <2>1. \A j \in Dash!Views, n \in Nat : Within(entry[j], n) => Within(entry'[j], n)
    BY <1>1, AskStep
  <2> QED
    BY <1>2, <1>4, <2>1, CallersStay DEF AskFits, DashInv
<1> QED
  BY <1>1, <1>4, <1>5, AskStep DEF DashInv, DashMaps

\* A load that has ended, and left a value or an error.
LEMMA EndKeeps ==
  ASSUME DashInv, NEW k \in Dash!Views, NEW l \in load[k], Dash!Ended(k, l), NEW e,
         entry' = [entry EXCEPT ![k] = e], EntryFits(e), e.asked = entry[k].asked,
         \A n \in Nat : Within(e, n)
  PROVE  DashInv'
<1>1. /\ load' = [load EXCEPT ![k] = @ \ {l}]
      /\ ask' = [p \in Callers |-> IF ask[p].view = k /\ ask[p].pc = "wait"
                                   THEN [ask[p] EXCEPT !.pc = "told"] ELSE ask[p]]
      /\ at' = (IF at = k THEN None ELSE at) /\ UNCHANGED <<due, timer, spent>>
  BY DEF Dash!Ended
<1>2. /\ DOMAIN entry = Dash!Views /\ DOMAIN load = Dash!Views /\ Clock
      /\ \A j \in Dash!Views : EntryFits(entry[j]) /\ LoadFits(j)
      /\ \A p \in Callers : AskFits(ask[p])
  BY DEF DashInv, DashMaps
<1>3. /\ DOMAIN load' = Dash!Views /\ load' = [j \in Dash!Views |-> load'[j]] /\ load'[k] = {}
      /\ \A j \in Dash!Views : j # k => load'[j] = load[j]
  <2>1. load[k] \ {l} = {}
    BY <1>2 DEF LoadFits
  <2> QED
    BY <1>1, <1>2, <2>1
<1>4. /\ DOMAIN entry' = Dash!Views /\ entry' = [j \in Dash!Views |-> entry'[j]] /\ entry'[k] = e
      /\ \A j \in Dash!Views : j # k => entry'[j] = entry[j]
  BY <1>2
<1>5. \A j \in Dash!Views : EntryFits(entry'[j])
  BY <1>2, <1>4
<1>6. ASSUME NEW j \in Dash!Views PROVE LoadFits(j)'
  BY <1>2, <1>3, <1>4 DEF LoadFits
<1>7. Clock'
  BY <1>1, <1>2, <1>3, DashConstants DEF Clock
<1>8. ASSUME NEW j \in Pinned PROVE PinnedFits(j)'
  <2>1. PinnedFits(j) /\ j \in Dash!Views
    BY DashConstants DEF DashInv
  <2>2. CASE j # k
    <3>1. entry'[j] = entry[j] /\ (at' = "tick" <=> at = "tick") /\ (at' # j => at # j)
      BY <1>1, <1>4, <2>1, <2>2, DashConstants
    <3> QED
      BY <1>1, <2>1, <3>1 DEF PinnedFits
  <2>3. CASE j = k
    <3>1. \A n \in Nat : Within(entry'[j], n)
      BY <1>4, <2>3
    <3>2. /\ Dash!WarmInterval + Slack + spent' \in Nat /\ spent' \in Nat
          /\ timer' # None => timer' + Slack \in Nat
      BY <1>1, <1>2, DashConstants DEF Clock
    <3>3. at' = "tick" => timer' # None
      BY <1>7 DEF Clock
    <3> QED
      BY <3>1, <3>2, <3>3 DEF PinnedFits
  <2> QED
    BY <2>2, <2>3
<1>9. ASSUME NEW j \in Unpinned PROVE UnpinnedFits(j)'
  <2>1. UnpinnedFits(j) /\ j \in Dash!Views
    BY DashConstants DEF DashInv
  <2>2. entry'[j].asked = entry[j].asked /\ load'[j] \subseteq load[j]
    BY <1>3, <1>4, <2>1
  <2> QED
    BY <1>1, <2>1, <2>2 DEF UnpinnedFits
<1>10. ASSUME NEW p \in Callers PROVE AskFits(ask[p])'
  <2> DEFINE a == [ask[p] EXCEPT !.pc = "told"]
  <2>1. AskFits(ask[p])
    BY <1>2
  <2>2. CASE ask[p].view = k /\ ask[p].pc = "wait"
    <3>1. a \in [pc: {"idle", "wait", "told"}, view: Dash!Views \cup {None}, since: Nat]
      BY <2>1 DEF AskFits
    <3>2. a.pc = "told" /\ a.view = k /\ a.since \in Nat
      BY <2>1, <2>2 DEF AskFits
    <3> HIDE DEF a
    <3>3. ask'[p] = a
      BY <1>1, <2>2 DEF a
    <3> QED
      BY <1>4, <3>1, <3>2, <3>3 DEF AskFits
  <2>3. CASE ~(ask[p].view = k /\ ask[p].pc = "wait")
    <3>1. ask'[p] = ask[p]
      BY <1>1, <2>3
    <3>2. ask[p].pc = "told" => Within(entry'[ask[p].view], ask[p].since)
      BY <1>4, <2>1 DEF AskFits
    <3> QED
      BY <2>1, <3>1, <3>2 DEF AskFits
  <2> QED
    BY <2>2, <2>3
<1>11. DOMAIN ask' = Callers /\ ask' = [p \in Callers |-> ask'[p]]
  BY <1>1
<1> QED
  BY <1>3, <1>4, <1>5, <1>6, <1>7, <1>8, <1>9, <1>10, <1>11 DEF DashInv, DashMaps

\* A load that brought a value.
LEMMA LoadOkKeeps ==
  ASSUME DashInv, NEW k \in Dash!Views, Dash!LoadOk(k)
  PROVE  DashInv'
<1> DEFINE f == [entry[k] EXCEPT !.age = 0]
           e == [f EXCEPT !.err = FALSE]
<1>1. PICK l \in load[k] : entry' = [entry EXCEPT ![k].age = 0, ![k].err = FALSE] /\ Dash!Ended(k, l)
  BY DEF Dash!LoadOk
<1>2. DOMAIN entry = Dash!Views /\ EntryFits(entry[k])
  BY DEF DashInv, DashMaps
<1>3. entry' = [entry EXCEPT ![k] = e]
  BY <1>1, <1>2
<1>4. f \in Item /\ f.age = 0 /\ f.asked = entry[k].asked
  BY <1>2 DEF EntryFits, Item
<1> HIDE DEF f
<1>5. e \in Item /\ e.age = 0 /\ e.asked = entry[k].asked
  BY <1>4 DEF Item
<1> HIDE DEF e
<1>6. EntryFits(e) /\ \A n \in Nat : Within(e, n)
  BY <1>2, <1>5, DashConstants DEF EntryFits, Within
<1> QED
  BY <1>1, <1>3, <1>5, <1>6, EndKeeps

\* A load that failed.
LEMMA LoadFailsKeeps ==
  ASSUME DashInv, NEW k \in Dash!Views, Dash!LoadFails(k)
  PROVE  DashInv'
<1> DEFINE e == [entry[k] EXCEPT !.err = TRUE]
<1>1. PICK l \in load[k] : entry' = [entry EXCEPT ![k].err = TRUE] /\ Dash!Ended(k, l)
  BY DEF Dash!LoadFails
<1>2. DOMAIN entry = Dash!Views /\ EntryFits(entry[k])
  BY DEF DashInv, DashMaps
<1>3. entry' = [entry EXCEPT ![k] = e]
  BY <1>1
<1>4. e \in Item /\ e.age = entry[k].age /\ e.asked = entry[k].asked /\ e.err
  BY <1>2 DEF EntryFits, Item
<1> HIDE DEF e
<1>5. EntryFits(e) /\ \A n \in Nat : Within(e, n)
  BY <1>2, <1>4 DEF EntryFits, Within
<1> QED
  BY <1>1, <1>3, <1>4, <1>5, EndKeeps

\* A caller who has an answer or leaves.
LEMMA CallEndsKeeps ==
  ASSUME DashInv, NEW p \in Callers, Dash!Answer(p) \/ Dash!Leave(p)
  PROVE  DashInv'
<1>1. ask' = [ask EXCEPT ![p] = Dash!Idle] /\ UNCHANGED <<entry, load, due, at, timer, spent, failed>>
  BY DEF Dash!Answer, Dash!Leave
<1>2. AskFits(Dash!Idle)
  BY DEF AskFits, Dash!Idle
<1>3. /\ DOMAIN ask' = Callers /\ ask' = [q \in Callers |-> ask'[q]]
      /\ \A q \in Callers : ask'[q] = IF q = p THEN Dash!Idle ELSE ask[q]
  BY <1>1 DEF DashInv, DashMaps
<1>4. ASSUME NEW q \in Callers PROVE AskFits(ask[q])'
  <2>1. AskFits(ask'[q])
    BY <1>2, <1>3 DEF DashInv
  <2> QED
    BY <1>1, <2>1 DEF AskFits
<1>5. Clock'
  BY <1>1 DEF DashInv, Clock
<1>6. \A k \in Dash!Views : LoadFits(k)'
  BY <1>1 DEF DashInv, LoadFits
<1>7. \A k \in Pinned : PinnedFits(k)'
  BY <1>1 DEF DashInv, PinnedFits
<1>8. \A k \in Unpinned : UnpinnedFits(k)'
  BY <1>1 DEF DashInv, UnpinnedFits
<1>9. \A k \in Dash!Views : EntryFits(entry'[k])
  BY <1>1 DEF DashInv
<1> QED
  BY <1>1, <1>3, <1>4, <1>5, <1>6, <1>7, <1>8, <1>9 DEF DashInv, DashMaps

\* The refresher starts, or joins, the load of a view that is due.
LEMMA RefreshKeeps ==
  ASSUME DashInv, NEW k \in Dash!Views, Dash!Refresh(k)
  PROVE  DashInv'
<1>1. /\ at = None /\ k \in due /\ due' = due \ {k} /\ at' = k /\ Dash!StartLoad(k)
      /\ UNCHANGED <<entry, ask, timer, spent, failed>>
  BY DEF Dash!Refresh
<1>2. Clock /\ (\A j \in Dash!Views : EntryFits(entry[j]) /\ LoadFits(j)) /\ DashMaps
  BY DEF DashInv
<1>3. /\ DOMAIN load' = Dash!Views /\ load' = [j \in Dash!Views |-> load'[j]]
      /\ \A j \in Dash!Views : j # k => load'[j] = load[j]
      /\ load'[k] = IF load[k] = {} THEN {0} ELSE load[k]
  BY <1>1, LoadEffect
<1>4. ASSUME NEW j \in Dash!Views PROVE LoadFits(j)'
  <2>1. load'[j] = {0} \/ load'[j] = load[j]
    BY <1>3
  <2> QED
    BY <1>1, <1>2, <2>1, LoadStays
<1>5. Clock'
  BY <1>1, <1>2, <1>3, DashConstants DEF Clock
<1>6. ASSUME NEW j \in Pinned PROVE PinnedFits(j)'
  <2>1. PinnedFits(j) /\ j \in Dash!Views
    BY DashConstants DEF DashInv
  <2>2. at # "tick" /\ at # j /\ (j \notin due' /\ at' # j => j \notin due)
    BY <1>1, <2>1, DashConstants
  <2>3. at' # "tick"
    BY <1>1, DashConstants
  <2> QED
    BY <1>1, <2>1, <2>2, <2>3 DEF PinnedFits
<1>7. ASSUME NEW j \in Unpinned PROVE UnpinnedFits(j)'
  <2>1. UnpinnedFits(j) /\ j \in Dash!Views
    BY DashConstants DEF DashInv
  <2>2. CASE load'[j] = load[j]
    BY <1>1, <2>1, <2>2 DEF UnpinnedFits
  <2>3. CASE j = k /\ load'[j] = {0}
    <3>1. entry[j].asked <= MaxStale + spent /\ spent <= Slack /\ spent \in Nat
      BY <1>1, <1>2, <2>1, <2>3, DashConstants DEF UnpinnedFits, Clock
    <3>2. entry[j].asked \in Nat
      BY <1>2, <2>1 DEF EntryFits, Item
    <3>3. entry[j].asked <= MaxStale + Slack + 0
      BY <3>1, <3>2, DashConstants
    <3>4. j \notin due'
      BY <1>1, <2>3
    <3> QED
      BY <1>1, <2>3, <3>3, <3>4 DEF UnpinnedFits
  <2> QED
    BY <1>3, <2>1, <2>2, <2>3
<1>8. \A p \in Callers : AskFits(ask[p])'
  BY <1>1 DEF DashInv, AskFits
<1>9. \A j \in Dash!Views : EntryFits(entry'[j])
  BY <1>1, <1>2
<1>10. DashMaps'
  BY <1>1, <1>2, <1>3 DEF DashMaps
<1> QED
  BY <1>4, <1>5, <1>6, <1>7, <1>8, <1>9, <1>10 DEF DashInv

\* A view that is fresh by n is fresh by more.
LEMMA FreshByMore ==
  ASSUME NEW e \in Item, NEW n \in Nat, NEW m \in Nat, n <= m, Within(e, n)
  PROVE  Within(e, m)
BY DashConstants DEF Within, Item

\* A round ends, and the ticker starts after the first.
LEMMA RoundEndsKeeps ==
  ASSUME DashInv, Dash!RoundEnds
  PROVE  DashInv'
<1>1. /\ at = None /\ due = {} /\ at' = "tick" /\ spent' = 0
      /\ timer' = (IF timer = None THEN 0 ELSE timer)
      /\ UNCHANGED <<entry, load, ask, due, failed>>
  BY DEF Dash!RoundEnds
<1>2. Clock /\ (\A j \in Dash!Views : EntryFits(entry[j]) /\ LoadFits(j)) /\ DashMaps
  BY DEF DashInv
<1>3. timer' \in Nat /\ timer' <= Dash!WarmInterval /\ spent \in Nat /\ spent <= Slack
  BY <1>1, <1>2, DashConstants DEF Clock
<1>4. Clock'
  BY <1>1, <1>2, <1>3, DashConstants DEF Clock
<1>5. ASSUME NEW j \in Pinned PROVE PinnedFits(j)'
  <2>1. PinnedFits(j) /\ j \in Dash!Views
    BY DashConstants DEF DashInv
  <2>2. Within(entry[j], spent)
    BY <1>1, <2>1, DashConstants DEF PinnedFits
  <2>3. spent <= timer' + Slack /\ timer' + Slack \in Nat
    <3>1. Slack \in Nat
      BY DashConstants
    <3>2. ASSUME NEW n \in Nat PROVE spent <= n + Slack /\ n + Slack \in Nat
      BY <1>3, <3>1
    <3> QED
      BY <1>3, <3>2
  <2>4. Within(entry[j], timer' + Slack)
    BY <1>2, <1>3, <2>1, <2>2, <2>3, FreshByMore DEF EntryFits
  <2> QED
    BY <1>1, <2>4 DEF PinnedFits
<1>6. ASSUME NEW j \in Unpinned PROVE UnpinnedFits(j)'
  <2>1. UnpinnedFits(j)
    BY DEF DashInv
  <2> QED
    BY <1>1, <2>1 DEF UnpinnedFits
<1>7. \A p \in Callers : AskFits(ask[p])'
  BY <1>1 DEF DashInv, AskFits
<1>8. \A j \in Dash!Views : EntryFits(entry'[j]) /\ LoadFits(j)'
  BY <1>1, <1>2 DEF LoadFits
<1>9. DashMaps'
  BY <1>1, <1>2 DEF DashMaps
<1> QED
  BY <1>4, <1>5, <1>6, <1>7, <1>8, <1>9 DEF DashInv

\* The ticker fires: every pinned view is due, and another that was asked for lately.
LEMMA RoundKeeps ==
  ASSUME DashInv, Dash!Round
  PROVE  DashInv'
<1>1. /\ at = "tick" /\ timer >= Dash!WarmInterval /\ timer' = timer - Dash!WarmInterval
      /\ at' = None /\ due' = Dash!dueKeys /\ UNCHANGED <<entry, load, ask, spent, failed>>
  BY DEF Dash!Round
<1>2. Clock /\ (\A j \in Dash!Views : EntryFits(entry[j]) /\ LoadFits(j)) /\ DashMaps
  BY DEF DashInv
<1>3. timer = Dash!WarmInterval /\ timer' = 0 /\ spent' = 0 /\ spent = 0
  BY <1>1, <1>2, DashConstants DEF Clock
<1>4. due' \subseteq Dash!Views
  BY <1>1 DEF Dash!dueKeys
<1>5. Clock'
  BY <1>1, <1>2, <1>3, <1>4, DashConstants DEF Clock
<1>6. ASSUME NEW j \in Pinned PROVE PinnedFits(j)'
  <2>1. PinnedFits(j) /\ j \in Dash!Views
    BY DashConstants DEF DashInv
  <2>2. Within(entry[j], Dash!WarmInterval + Slack)
    BY <1>1, <1>3, <2>1 DEF PinnedFits
  <2>3. Within(entry[j], Dash!WarmInterval + Slack + 0)
    <3>1. Dash!WarmInterval + Slack + 0 = Dash!WarmInterval + Slack
      BY DashConstants
    <3> QED
      BY <2>2, <3>1
  <2>4. j \in due'
    BY <1>1, <2>1 DEF Dash!dueKeys
  <2>5. at' # "tick"
    BY <1>1, DashConstants
  <2> QED
    BY <1>1, <1>3, <2>3, <2>4, <2>5 DEF PinnedFits
<1>7. ASSUME NEW j \in Unpinned PROVE UnpinnedFits(j)'
  <2>1. UnpinnedFits(j) /\ j \in Dash!Views /\ j \notin Pinned
    BY DashConstants DEF DashInv
  <2>2. j \in due' => entry[j].asked <= MaxStale + 0
    <3>1. j \in due' => entry[j].asked <= MaxStale
      BY <1>1, <2>1 DEF Dash!dueKeys
    <3> QED
      BY <3>1, DashConstants
  <2> QED
    BY <1>1, <1>3, <2>1, <2>2 DEF UnpinnedFits
<1>8. \A p \in Callers : AskFits(ask[p])'
  BY <1>1 DEF DashInv, AskFits
<1>9. \A j \in Dash!Views : EntryFits(entry'[j]) /\ LoadFits(j)'
  BY <1>1, <1>2 DEF LoadFits
<1>10. DashMaps'
  BY <1>1, <1>2 DEF DashMaps
<1> QED
  BY <1>5, <1>6, <1>7, <1>8, <1>9, <1>10 DEF DashInv

\* One unit later a view is one unit older.
LEMMA OlderEntry ==
  ASSUME NEW e, EntryFits(e)
  PROVE  LET o == [e EXCEPT !.age = Dash!Older(@), !.asked = Dash!Older(@)] IN
         /\ EntryFits(o) /\ o.err = e.err /\ o.asked <= e.asked + 1
         /\ o.age # None <=> e.age # None
         /\ e.age # None => o.age <= e.age + 1 /\ \A l \in 0 .. LoadTime : l <= e.age => l + 1 <= o.age \/ l = LoadTime
         /\ \A n \in Nat : Within(e, n) => Within(o, n + 1)
<1> DEFINE f == [e EXCEPT !.age = Dash!Older(e.age)]
           o == [f EXCEPT !.asked = Dash!Older(e.asked)]
<1>1. /\ e.age \in Nat \cup {None} /\ e.asked \in Nat /\ e.err \in BOOLEAN /\ e.asked <= Dash!Old
      /\ e.age # None => e.age <= Dash!Old
  BY DEF EntryFits, Item
<1>2. /\ Dash!Older(e.asked) \in Nat /\ Dash!Older(e.asked) <= Dash!Old /\ Dash!Older(e.asked) <= e.asked + 1
  BY <1>1, DashConstants DEF Dash!Older
<1>3. /\ Dash!Older(e.age) \in Nat \cup {None} /\ (Dash!Older(e.age) = None <=> e.age = None)
      /\ e.age # None => /\ Dash!Older(e.age) <= Dash!Old /\ Dash!Older(e.age) <= e.age + 1
                         /\ Dash!Older(e.age) = e.age + 1 \/ Dash!Older(e.age) = Dash!Old
  BY <1>1, DashConstants DEF Dash!Older
<1>4. f \in Item /\ f.age = Dash!Older(e.age) /\ f.asked = e.asked /\ f.err = e.err
  BY <1>3 DEF EntryFits, Item
<1> HIDE DEF f
<1>5. /\ o \in Item /\ o.age = Dash!Older(e.age) /\ o.asked = Dash!Older(e.asked) /\ o.err = e.err
  BY <1>2, <1>4 DEF Item
<1>6. o = [e EXCEPT !.age = Dash!Older(@), !.asked = Dash!Older(@)]
  <2>1. e.asked = f.asked
    BY <1>4
  <2> QED
    BY <1>4 DEF f, EntryFits, Item
<1> HIDE DEF o
<1>7. EntryFits(o) /\ o.asked <= e.asked + 1 /\ (o.age # None <=> e.age # None)
  BY <1>2, <1>3, <1>5 DEF EntryFits
<1>8. ASSUME e.age # None
      PROVE  /\ o.age <= e.age + 1
             /\ \A l \in 0 .. LoadTime : l <= e.age => l + 1 <= o.age \/ l = LoadTime
  BY <1>1, <1>3, <1>5, <1>8, DashConstants
<1>9. ASSUME NEW n \in Nat, Within(e, n) PROVE Within(o, n + 1)
  BY <1>1, <1>3, <1>5, <1>9, DashConstants DEF Within
<1> QED
  BY <1>5, <1>6, <1>7, <1>8, <1>9

\* Time passes: nobody who can go on is waiting, and no load has taken its time.
LEMMA TickKeeps ==
  ASSUME DashInv, Dash!Tick
  PROVE  DashInv'
<1>1. /\ at # None /\ (at # "tick" => spent < Slack) /\ (at = "tick" => timer < Dash!WarmInterval)
      /\ (\A k \in Dash!Views : \A l \in load[k] : l < LoadTime)
      /\ (\A p \in Callers : ask[p].pc # "told")
      /\ entry' = [k \in Dash!Views |-> [entry[k] EXCEPT !.age = Dash!Older(@), !.asked = Dash!Older(@)]]
      /\ load' = [k \in Dash!Views |-> {l + 1 : l \in load[k]}]
      /\ ask' = [p \in Callers |-> IF ask[p].pc = "wait" THEN [ask[p] EXCEPT !.since = @ + 1] ELSE ask[p]]
      /\ timer' = (IF timer = None THEN None ELSE timer + 1)
      /\ spent' = (IF at # "tick" THEN spent + 1 ELSE 0)
      /\ UNCHANGED <<due, at, failed>>
  BY DEF Dash!Tick, Dash!Busy
<1>2. Clock /\ (\A j \in Dash!Views : EntryFits(entry[j]) /\ LoadFits(j)) /\ DashMaps
  BY DEF DashInv
<1>3. ASSUME NEW k \in Dash!Views
      PROVE  /\ EntryFits(entry'[k]) /\ entry'[k].err = entry[k].err /\ entry'[k].asked <= entry[k].asked + 1
             /\ entry'[k].age # None <=> entry[k].age # None
             /\ entry[k].age # None =>
                   \A l \in 0 .. LoadTime : l <= entry[k].age => l + 1 <= entry'[k].age \/ l = LoadTime
             /\ \A n \in Nat : Within(entry[k], n) => Within(entry'[k], n + 1)
  BY <1>1, <1>2, OlderEntry
<1>4. ASSUME NEW k \in Dash!Views PROVE LoadFits(k)'
  <2>1. load[k] \subseteq 0 .. LoadTime /\ load'[k] = {l + 1 : l \in load[k]}
    BY <1>1, <1>2 DEF LoadFits
  <2>2. load'[k] \subseteq 0 .. LoadTime
    <3>1. LoadTime \in Nat /\ \A l \in load[k] : l < LoadTime
      BY <1>1, DashConstants
    <3> QED
      BY <2>1, <3>1
  <2>3. \A l, m \in load'[k] : l = m
    BY <1>2, <2>1 DEF LoadFits
  <2>4. ASSUME NEW m \in load'[k], entry'[k].age # None PROVE m <= entry'[k].age
    <3>1. PICK l \in load[k] : m = l + 1
      BY <2>1
    <3>2. l <= entry[k].age /\ entry[k].age # None /\ l < LoadTime /\ l \in 0 .. LoadTime
      BY <1>1, <1>2, <1>3, <2>1, <2>4 DEF LoadFits
    <3>3. l # LoadTime
      BY <3>2, DashConstants
    <3> QED
      BY <1>3, <3>1, <3>2, <3>3
  <2> QED
    BY <2>2, <2>3, <2>4 DEF LoadFits
<1>a. /\ at # None /\ (at # "tick" => spent < Slack) /\ (at = "tick" => timer < Dash!WarmInterval)
      /\ timer' = (IF timer = None THEN None ELSE timer + 1)
      /\ spent' = (IF at # "tick" THEN spent + 1 ELSE 0)
      /\ due' = due /\ at' = at
  BY <1>1
<1>b. /\ spent \in Nat /\ timer \in Nat \cup {None} /\ (timer # None => timer <= Dash!WarmInterval)
      /\ at = "tick" => timer # None /\ due = {} /\ spent = 0
      /\ at # "tick" => spent <= Slack /\ (timer # None => timer = spent)
  BY <1>2 DEF Clock
<1>c. /\ Slack \in Nat /\ Dash!WarmInterval \in Nat /\ Slack <= Dash!WarmInterval /\ None \notin Nat
  BY DashConstants
<1>5. /\ spent \in Nat /\ spent' \in Nat /\ timer \in Nat \cup {None} /\ (timer # None => timer' = timer + 1)
      /\ (timer' # None <=> timer # None) /\ (at # "tick" => spent' = spent + 1)
  BY <1>a, <1>b, <1>c
<1>6. Clock'
  <2>1. at \in Dash!Views => load'[at] # {}
    BY <1>1, <1>2 DEF Clock
  <2>2. at # "tick" => spent' <= Slack /\ (timer' # None => timer' = spent')
    BY <1>a, <1>b, <1>c, <1>5
  <2>3. timer' # None => timer' <= Dash!WarmInterval
    BY <1>a, <1>b, <1>c, <1>5, <2>2
  <2>4. timer' \in Nat \cup {None} /\ (at = "tick" => timer' # None /\ due = {} /\ spent' = 0)
    BY <1>a, <1>b, <1>c, <1>5
  <2> QED
    BY <1>1, <1>2, <1>5, <2>1, <2>2, <2>3, <2>4 DEF Clock
<1>7. ASSUME NEW k \in Pinned PROVE PinnedFits(k)'
  <2>1. PinnedFits(k) /\ k \in Dash!Views
    BY DashConstants DEF DashInv
  <2>2. at = "tick" => Within(entry'[k], timer' + Slack)
    <3>1. at = "tick" => timer + Slack \in Nat /\ timer' + Slack = timer + Slack + 1
      BY <1>2, <1>5, DashConstants DEF Clock
    <3> QED
      BY <1>3, <2>1, <3>1 DEF PinnedFits
  <2>3. at # "tick" /\ timer' # None => Within(entry'[k], Dash!WarmInterval + Slack + spent')
    <3>1. Dash!WarmInterval + Slack + spent \in Nat
      BY <1>5, DashConstants
    <3>2. at # "tick" => Dash!WarmInterval + Slack + spent' = Dash!WarmInterval + Slack + spent + 1
      BY <1>5, DashConstants
    <3> QED
      BY <1>3, <1>5, <2>1, <3>1, <3>2 DEF PinnedFits
  <2>4. at # "tick" /\ k \notin due /\ at # k => Within(entry'[k], spent')
    BY <1>3, <1>5, <2>1 DEF PinnedFits
  <2> QED
    BY <1>1, <2>2, <2>3, <2>4 DEF PinnedFits
<1>8. ASSUME NEW k \in Unpinned PROVE UnpinnedFits(k)'
  <2>1. UnpinnedFits(k) /\ k \in Dash!Views
    BY DashConstants DEF DashInv
  <2>2. entry[k].asked \in Nat /\ entry'[k].asked \in Nat /\ entry'[k].asked <= entry[k].asked + 1
    BY <1>2, <1>3, <2>1 DEF EntryFits, Item
  <2>3. k \in due => entry'[k].asked <= MaxStale + spent'
    BY <1>2, <1>5, <2>1, <2>2, DashConstants DEF UnpinnedFits, Clock
  <2>4. ASSUME NEW m \in load'[k] PROVE entry'[k].asked <= MaxStale + Slack + m
    <3>1. PICK l \in load[k] : m = l + 1
      BY <1>1, <2>1
    <3>2. l \in Nat /\ entry[k].asked <= MaxStale + Slack + l
      BY <1>2, <2>1, DashConstants DEF UnpinnedFits, LoadFits
    <3> QED
      BY <2>2, <3>1, <3>2, DashConstants
  <2> QED
    BY <1>1, <2>3, <2>4 DEF UnpinnedFits
<1>9. ASSUME NEW p \in Callers PROVE AskFits(ask[p])'
  <2> DEFINE a == [ask[p] EXCEPT !.since = ask[p].since + 1]
  <2>1. AskFits(ask[p])
    BY DEF DashInv
  <2>2. CASE ask[p].pc = "wait"
    <3>1. a \in [pc: {"idle", "wait", "told"}, view: Dash!Views \cup {None}, since: Nat]
      BY <2>1 DEF AskFits
    <3>2. a.pc = "wait" /\ a.view \in Dash!Views
      BY <2>1, <2>2 DEF AskFits
    <3>3. ask'[p] = a
      BY <1>1, <2>2
    <3> HIDE DEF a
    <3> QED
      BY <3>1, <3>2, <3>3 DEF AskFits
  <2>3. CASE ask[p].pc # "wait"
    <3>1. ask'[p] = ask[p]
      BY <1>1, <2>3
    <3> QED
      BY <1>1, <2>1, <3>1 DEF AskFits
  <2> QED
    BY <2>2, <2>3
<1>10. DashMaps'
  BY <1>1 DEF DashMaps
<1> QED
  BY <1>3, <1>4, <1>6, <1>7, <1>8, <1>9, <1>10 DEF DashInv

\* It holds when the panel has booted: the pinned views are due, and there is nothing yet.
LEMMA DashStarts == Dash!Init => DashInv
<1> SUFFICES ASSUME Dash!Init PROVE DashInv
  OBVIOUS
<1>1. /\ entry = [k \in Dash!Views |-> Dash!Blank] /\ load = [k \in Dash!Views |-> {}]
      /\ ask = [p \in Callers |-> Dash!Idle] /\ due = Pinned /\ at = None /\ timer = None /\ spent = 0
  BY DEF Dash!Init
<1>2. /\ Dash!Blank \in Item /\ Dash!Blank.age = None /\ Dash!Blank.asked = Dash!Old
  BY DashConstants DEF Dash!Blank, Item
<1>3. Dash!Idle.pc = "idle" /\ Dash!Idle \in [pc: {"idle", "wait", "told"}, view: Dash!Views \cup {None}, since: Nat]
  BY DEF Dash!Idle
<1>4. DashMaps
  BY <1>1 DEF DashMaps
<1>5. Clock
  BY <1>1, DashConstants DEF Clock
<1>6. \A k \in Dash!Views : EntryFits(entry[k]) /\ LoadFits(k)
  BY <1>1, <1>2, DashConstants DEF EntryFits, LoadFits
<1>7. \A k \in Pinned : PinnedFits(k)
  BY <1>1, DashConstants DEF PinnedFits
<1>8. \A k \in Unpinned : UnpinnedFits(k)
  BY <1>1, DashConstants DEF UnpinnedFits
<1>9. \A p \in Callers : AskFits(ask[p])
  BY <1>1, <1>3 DEF AskFits
<1> QED
  BY <1>4, <1>5, <1>6, <1>7, <1>8, <1>9 DEF DashInv

\* Every step keeps it.
LEMMA DashKeeps == DashInv /\ [Dash!Next]_Dash!vars => DashInv'
<1> SUFFICES ASSUME DashInv, [Dash!Next]_Dash!vars PROVE DashInv'
  OBVIOUS
<1>1. CASE UNCHANGED Dash!vars
  BY <1>1 DEF Dash!vars, DashInv, DashMaps, Clock, EntryFits, LoadFits, PinnedFits, UnpinnedFits, AskFits
<1>2. CASE \E p \in Callers : \/ Dash!Answer(p) \/ Dash!Leave(p)
                              \/ \E k \in Dash!Views : Dash!Serve(p, k) \/ Dash!Wait(p, k)
  BY <1>2, CallEndsKeeps, ServeKeeps, WaitKeeps
<1>3. CASE \E k \in Dash!Views : Dash!LoadOk(k) \/ Dash!LoadFails(k) \/ Dash!Refresh(k)
  BY <1>3, LoadOkKeeps, LoadFailsKeeps, RefreshKeeps
<1>4. CASE Dash!RoundEnds \/ Dash!Round \/ Dash!Tick
  BY <1>4, RoundEndsKeeps, RoundKeeps, TickKeeps
<1> QED
  BY <1>1, <1>2, <1>3, <1>4 DEF Dash!Next

\* And it says what the dashboard's readers rely on: an interval and twice what the
\* loads of a round may take are within the TTL.
LEMMA DashSays == DashInv => ViewsAreFresh
<1> SUFFICES ASSUME DashInv PROVE Dash!TypeOK /\ Dash!KeptWarm /\ Dash!OthersRest /\ Dash!NeverBack
  BY DEF ViewsAreFresh
<1>1. Clock /\ \A j \in Dash!Views : EntryFits(entry[j]) /\ LoadFits(j)
  BY DEF DashInv
<1>2. Dash!TypeOK
  <2>1. ASSUME NEW k \in Dash!Views
        PROVE  /\ entry[k].age \in (0 .. Dash!Old) \cup {None} /\ entry[k].asked \in 0 .. Dash!Old
               /\ load[k] \subseteq 0 .. LoadTime
    BY <1>1, DashConstants DEF EntryFits, Item, LoadFits
  <2>2. \A p \in Callers : ask[p].pc \in {"idle", "wait", "told"}
    BY DEF DashInv, AskFits
  <2> QED
    BY <1>1, <2>1, <2>2 DEF Dash!TypeOK, Clock
<1>3. Dash!KeptWarm
  <2> SUFFICES ASSUME timer # None, NEW k \in Pinned
               PROVE  entry[k].err \/ (entry[k].age # None /\ entry[k].age <= ViewTTL)
    BY DEF Dash!KeptWarm, Dash!Has
  <2>1. PinnedFits(k) /\ k \in Dash!Views /\ entry[k] \in Item
    BY <1>1, DashConstants DEF DashInv, EntryFits
  <2>2. CASE at = "tick"
    <3>1. timer + Slack \in Nat /\ timer + Slack <= ViewTTL
      BY <1>1, <2>2, DashConstants DEF Clock
    <3>2. Within(entry[k], timer + Slack)
      BY <2>1, <2>2 DEF PinnedFits
    <3> QED
      BY <2>1, <3>1, <3>2, FreshByMore, DashConstants DEF Within
  <2>3. CASE at # "tick"
    <3>1. Dash!WarmInterval + Slack + spent \in Nat /\ Dash!WarmInterval + Slack + spent <= ViewTTL
      BY <1>1, <2>3, DashConstants DEF Clock
    <3>2. Within(entry[k], Dash!WarmInterval + Slack + spent)
      BY <2>1, <2>3 DEF PinnedFits
    <3> QED
      BY <2>1, <3>1, <3>2, FreshByMore, DashConstants DEF Within
  <2> QED
    BY <2>2, <2>3
<1>4. Dash!OthersRest
  BY DEF DashInv, UnpinnedFits, Dash!OthersRest
<1>5. Dash!NeverBack
  <2>1. \A k \in Dash!Views : \A l \in load[k] : Dash!Has(k) => l <= entry[k].age
    BY <1>1 DEF LoadFits, Dash!Has
  <2>2. ASSUME NEW p \in Callers, ask[p].pc = "told"
        PROVE  \/ entry[ask[p].view].err
               \/ Dash!Has(ask[p].view) /\ entry[ask[p].view].age <= ask[p].since
    BY <2>2 DEF DashInv, AskFits, Within, Dash!Has
  <2> QED
    BY <2>1, <2>2 DEF Dash!NeverBack
<1> QED
  BY <1>2, <1>3, <1>4, <1>5

\* The dashboard's cache: a pinned view is never past its TTL, one nobody asks for is not
\* loaded, and no answer is older than one before it (GetOrLoad, Run, dueKeys).
THEOREM ViewsAreFreshHolds == Dash!Spec => []ViewsAreFresh
<1>1. Dash!Init => DashInv
  BY DashStarts
<1>2. DashInv /\ [Dash!Next]_Dash!vars => DashInv'
  BY DashKeeps
<1>3. DashInv => ViewsAreFresh
  BY DashSays
<1> QED
  BY <1>1, <1>2, <1>3, PTL DEF Dash!Spec
----------------------------------------------------------------------------
(* The uploaded certificate.  One request at a time: what each has done    *)
(* already, and what it still relies on, the state the last one left.      *)

CertJobs == [pc: {"idle", "apply", "crt", "key", "reconcile", "row", "rm_crt", "rm_key", "host", "gone"},
             kind: {"upload", "delete", "cascade", "edit", "remove", "left"} \cup {None},
             up: 0 .. MaxStarts, host: CertHosts \cup {None}]

JobTyped(w) ==
    /\ w \in CertJobs
    /\ w.pc # "idle" => w.up \in 1 .. MaxStarts /\ w.host \in CertHosts

\* Whatever the requests do to each other: types, and what the start has put back.
CertBase ==
    /\ crtHost \in CertHosts \cup {None} /\ {crtRow, crt, crtKey} \subseteq (1 .. MaxStarts) \cup {None}
    /\ served = None \/ served \in [mode: Certs!Modes, crt: (1 .. MaxStarts) \cup {None}]
    /\ boot \in {"scan", "crt", "key", "apply", "apply_without", "up"}
    /\ starts \in 0 .. MaxStarts
    /\ DOMAIN upload = Uploaders /\ upload = [p \in Uploaders |-> upload[p]]
    /\ \A p \in Uploaders : JobTyped(upload[p])
    /\ boot # "up" => Certs!Quiet /\ disturbed
    /\ boot \in {"crt", "key"} => crtRow # None
    /\ boot = "key" => crt # None
    /\ boot = "apply" /\ crtRow # None => crt # None /\ crtKey # None

\* Row, mode and files agree, and Caddy serves what they say.
RowsAgree ==
    /\ crtHost.mode = "manual" <=> crtRow # None
    /\ crtRow # None => crt = crtRow /\ crtKey = crtRow

Agree == ~disturbed /\ crtHost # None => RowsAgree /\ served = Certs!Serving(crtHost.mode, crtRow)

Automatic == crtHost # None /\ crtHost.mode # "manual"

\* What a request that is alone finds at each of its steps.
JobFits(w) ==
    /\ w.pc = "apply" => w.kind = "upload" /\ Agree
    /\ w.pc \in {"crt", "key"} =>
          /\ w.kind = "upload" /\ crtHost # None /\ crtHost.mode = "manual" /\ crtRow = w.up
          /\ w.pc = "key" => crt = w.up
    /\ w.pc = "row" =>
          /\ w.host.mode # "manual"
          /\ (w.kind = "delete" /\ Agree) \/ (w.kind = "cascade" /\ Automatic)
    /\ w.pc \in {"rm_crt", "rm_key"} =>
          \/ w.kind = "left" /\ disturbed
          \/ /\ w.host.mode # "manual" /\ crtRow = None
             /\ w.kind = "delete" \/ (w.kind = "cascade" /\ Automatic)
    /\ w.pc = "host" =>
          \/ w.kind = "delete" /\ w.host.mode # "manual" /\ crtRow = None
          \/ w.kind = "cascade" /\ w.host.mode # "manual" /\ Agree
          \/ w.kind = "edit" /\ Agree /\ (crtHost # None => (w.host.mode = "manual" <=> crtHost.mode = "manual"))
    /\ w.pc = "gone" => w.kind = "remove" /\ Agree
    /\ w.pc = "reconcile" =>
          \/ w.kind = "upload" /\ crtHost # None /\ crtHost.mode = "manual" /\ crtRow # None /\ RowsAgree
          \/ w.kind \in {"delete", "cascade"} /\ crtRow = None /\ Automatic
          \/ w.kind = "edit" /\ crtHost # None /\ (~disturbed => RowsAgree)
          \/ w.kind = "remove" /\ crtHost = None
          \/ w.kind = "left" /\ disturbed

OneAtATime ==
    /\ \A p, q \in Uploaders : upload[p].pc # "idle" /\ upload[q].pc # "idle" => p = q
    /\ Certs!Quiet /\ boot = "up" => Agree
    /\ \A p \in Uploaders : JobFits(upload[p])

CertInv == CertBase /\ (~Overlap => OneAtATime)

CertPcs == {"apply", "crt", "key", "reconcile", "row", "rm_crt", "rm_key", "host", "gone"}

\* A request goes on: only where it is changes.
LEMMA JobGoes ==
  ASSUME CertBase, NEW p \in Uploaders, upload[p].pc # "idle", NEW pc \in CertPcs, Certs!Goto(p, pc)
  PROVE  /\ DOMAIN upload' = Uploaders /\ upload' = [q \in Uploaders |-> upload'[q]]
         /\ \A q \in Uploaders : q # p => upload'[q] = upload[q]
         /\ JobTyped(upload'[p]) /\ upload'[p].pc = pc /\ upload'[p].kind = upload[p].kind
         /\ upload'[p].up = upload[p].up /\ upload'[p].host = upload[p].host
<1> DEFINE w == [upload[p] EXCEPT !.pc = pc]
<1>1. DOMAIN upload = Uploaders /\ JobTyped(upload[p])
  BY DEF CertBase
<1>2. upload' = [upload EXCEPT ![p] = w]
  BY DEF Certs!Goto
<1>3. w \in CertJobs /\ w.pc = pc /\ w.kind = upload[p].kind /\ w.up = upload[p].up /\ w.host = upload[p].host
  BY <1>1 DEF JobTyped, CertJobs, CertPcs
<1> HIDE DEF w
<1>4. JobTyped(w)
  BY <1>1, <1>3 DEF JobTyped
<1>5. upload'[p] = w
  BY <1>1, <1>2
<1> QED
  BY <1>1, <1>2, <1>3, <1>4, <1>5

\* A request ends.
LEMMA JobEnds ==
  ASSUME CertBase, NEW p \in Uploaders, Certs!End(p)
  PROVE  /\ DOMAIN upload' = Uploaders /\ upload' = [q \in Uploaders |-> upload'[q]]
         /\ \A q \in Uploaders : q # p => upload'[q] = upload[q]
         /\ JobTyped(upload'[p]) /\ upload'[p].pc = "idle"
<1>1. DOMAIN upload = Uploaders /\ upload' = [upload EXCEPT ![p] = Certs!Idle]
  BY DEF CertBase, Certs!End
<1>2. JobTyped(Certs!Idle) /\ Certs!Idle.pc = "idle"
  BY CertsAssumption DEF JobTyped, CertJobs, Certs!Idle
<1> QED
  BY <1>1, <1>2

\* What is left to show of a step of a request: the types of what it writes, and what it
\* finds at its next step, or leaves behind, when it is alone.
LEMMA JobStep ==
  ASSUME CertInv, NEW p \in Uploaders, upload[p].pc # "idle", boot' = boot, starts' = starts,
         DOMAIN upload' = Uploaders, upload' = [q \in Uploaders |-> upload'[q]],
         \A q \in Uploaders : q # p => upload'[q] = upload[q], JobTyped(upload'[p]),
         crtHost' \in CertHosts \cup {None},
         {crtRow', crt', crtKey'} \subseteq (1 .. MaxStarts) \cup {None},
         served' = None \/ served' \in [mode: Certs!Modes, crt: (1 .. MaxStarts) \cup {None}],
         OneAtATime => /\ upload'[p].pc # "idle" => JobFits(upload[p])'
                       /\ upload'[p].pc = "idle" => Agree'
  PROVE  CertInv'
<1>1. boot = "up" /\ boot' = "up"
  BY DEF CertInv, CertBase, Certs!Quiet, Certs!At
<1>2. \A q \in Uploaders : JobTyped(upload'[q])
  BY DEF CertInv, CertBase
<1>3. ASSUME NEW q \in Uploaders PROVE JobTyped(upload[q])'
  BY <1>2 DEF JobTyped, CertJobs, CertHosts
<1>4. CertBase'
  BY <1>1, <1>3 DEF CertInv, CertBase, CertHosts
<1>5. ASSUME OneAtATime PROVE OneAtATime'
  <2>1. \A q \in Uploaders : q # p => upload'[q].pc = "idle"
    BY <1>5 DEF OneAtATime
  <2>2. ASSUME NEW q \in Uploaders PROVE JobFits(upload[q])'
    <3>1. CASE upload'[q].pc = "idle"
      BY <3>1 DEF JobFits
    <3>2. CASE upload'[q].pc # "idle"
      BY <1>5, <2>1, <3>2
    <3> QED
      BY <3>1, <3>2
  <2>3. Certs!Quiet' => Agree'
    BY <1>5 DEF Certs!Quiet, Certs!At
  <2> QED
    BY <2>1, <2>2, <2>3 DEF OneAtATime
<1> QED
  BY <1>4, <1>5 DEF CertInv

\* Where a request is, and what it and the store are then.
LEMMA JobFacts ==
  ASSUME CertInv, NEW p \in Uploaders
  PROVE  /\ CertBase /\ JobTyped(upload[p]) /\ (OneAtATime => JobFits(upload[p]))
         /\ crtHost \in CertHosts \cup {None} /\ {crtRow, crt, crtKey} \subseteq (1 .. MaxStarts) \cup {None}
         /\ served = None \/ served \in [mode: Certs!Modes, crt: (1 .. MaxStarts) \cup {None}]
         /\ None \notin CertHosts /\ None \notin 1 .. MaxStarts
         /\ upload[p].pc # "idle" => upload[p].up \in 1 .. MaxStarts /\ upload[p].host \in CertHosts
<1>1. None \notin CertHosts /\ None \notin 1 .. MaxStarts
  BY CertsAssumption
<1>2. CertBase /\ (OneAtATime => JobFits(upload[p]))
  BY DEF CertInv, OneAtATime
<1>3. JobTyped(upload[p])
  BY <1>2 DEF CertBase
<1>4. /\ crtHost \in CertHosts \cup {None} /\ {crtRow, crt, crtKey} \subseteq (1 .. MaxStarts) \cup {None}
      /\ served = None \/ served \in [mode: Certs!Modes, crt: (1 .. MaxStarts) \cup {None}]
  BY <1>2, Zenon DEF CertBase
<1> QED
  BY <1>1, <1>2, <1>3, <1>4 DEF JobTyped

\* A request that ends before it has changed anything.
LEMMA RequestGivesUp ==
  ASSUME CertInv, NEW p \in Uploaders, upload[p].pc \in {"apply", "gone"}, Certs!End(p),
         UNCHANGED <<crtHost, crtRow, crt, crtKey, served, boot, starts, disturbed>>
  PROVE  CertInv'
<1>1. OneAtATime => Agree
  BY JobFacts DEF JobFits
<1>2. Agree => Agree'
  BY DEF Agree, RowsAgree
<1> QED
  BY <1>1, <1>2, JobFacts, JobEnds, JobStep

\* A request that a failure ends.
LEMMA FailureKeeps ==
  ASSUME CertInv, NEW p \in Uploaders, upload[p].pc # "idle", Certs!End(p), NEW f, Certs!Fault(f),
         UNCHANGED <<crtHost, crtRow, crt, crtKey, served, boot, starts>>
  PROVE  CertInv'
<1>1. Agree'
  BY DEF Agree, Certs!Fault
<1> QED
  BY <1>1, JobFacts, JobEnds, JobStep

\* The row and the mode of an upload.
LEMMA ApplyManualCertUploadKeeps ==
  ASSUME CertInv, NEW p \in Uploaders, Certs!ApplyManualCertUpload(p)
  PROVE  CertInv'
<1>0. upload[p].pc = "apply" /\ upload[p].pc # "idle"
  BY DEF Certs!ApplyManualCertUpload, Certs!At
<1>1. CASE Certs!End(p) /\ UNCHANGED <<crtHost, crtRow>>
  BY <1>0, <1>1, RequestGivesUp DEF Certs!ApplyManualCertUpload, Certs!NoFault
<1>2. CASE /\ crtHost # None /\ Certs!Goto(p, "crt")
           /\ crtRow' = upload[p].up /\ crtHost' = [crtHost EXCEPT !.mode = "manual"]
  <2>1. /\ crtRow' = upload[p].up /\ crtHost' = [crtHost EXCEPT !.mode = "manual"] /\ Certs!Goto(p, "crt")
        /\ UNCHANGED <<crt, crtKey, served, boot, starts>>
    BY <1>2 DEF Certs!ApplyManualCertUpload
  <2>2. crtHost' \in CertHosts /\ crtHost'.mode = "manual" /\ crtHost' # None
    BY <1>2, <2>1, JobFacts DEF CertHosts, Certs!Modes
  <2>3. crtRow' \in 1 .. MaxStarts
    BY <1>0, <2>1, JobFacts
  <2>4. /\ DOMAIN upload' = Uploaders /\ upload' = [q \in Uploaders |-> upload'[q]]
        /\ \A q \in Uploaders : q # p => upload'[q] = upload[q]
        /\ JobTyped(upload'[p]) /\ upload'[p].pc = "crt" /\ upload'[p].kind = upload[p].kind
        /\ upload'[p].up = upload[p].up
    BY <1>0, <2>1, JobFacts, JobGoes DEF CertPcs
  <2>5. OneAtATime => JobFits(upload[p])'
    BY <1>0, <2>1, <2>2, <2>4, JobFacts DEF JobFits
  <2> QED
    BY <1>0, <2>1, <2>2, <2>3, <2>4, <2>5, JobFacts, JobStep
<1> QED
  BY <1>1, <1>2 DEF Certs!ApplyManualCertUpload

\* The first file of an upload.
LEMMA WriteCertKeeps ==
  ASSUME CertInv, NEW p \in Uploaders, Certs!WriteCert(p)
  PROVE  CertInv'
<1>0. upload[p].pc = "crt" /\ upload[p].pc # "idle"
  BY DEF Certs!WriteCert, Certs!At
<1>1. UNCHANGED <<crtHost, crtRow, crtKey, served, boot, starts>>
  BY DEF Certs!WriteCert
<1>2. CASE crt' = upload[p].up /\ Certs!Goto(p, "key") /\ Certs!NoFault
  <2>1. crt' = upload[p].up /\ Certs!Goto(p, "key") /\ disturbed' = disturbed
    BY <1>2 DEF Certs!NoFault
  <2>2. /\ DOMAIN upload' = Uploaders /\ upload' = [q \in Uploaders |-> upload'[q]]
        /\ \A q \in Uploaders : q # p => upload'[q] = upload[q]
        /\ JobTyped(upload'[p]) /\ upload'[p].pc = "key" /\ upload'[p].kind = upload[p].kind
        /\ upload'[p].up = upload[p].up /\ upload'[p].host = upload[p].host
    BY <1>0, <2>1, JobFacts, JobGoes DEF CertPcs
  <2>3. crt' \in 1 .. MaxStarts
    BY <1>0, <2>1, JobFacts
  <2>4. OneAtATime => JobFits(upload[p])'
    BY <1>0, <1>1, <2>1, <2>2, JobFacts DEF JobFits, RowsAgree
  <2> QED
    BY <1>0, <1>1, <2>1, <2>2, <2>3, <2>4, JobFacts, JobStep
<1>3. CASE UNCHANGED crt /\ Certs!End(p) /\ Certs!Fault("write")
  <2>1. Agree'
    BY <1>3 DEF Agree, Certs!Fault
  <2> QED
    BY <1>0, <1>1, <1>3, <2>1, JobFacts, JobEnds, JobStep
<1> QED
  BY <1>2, <1>3 DEF Certs!WriteCert

\* The second file of an upload.
LEMMA WriteKeyKeeps ==
  ASSUME CertInv, NEW p \in Uploaders, Certs!WriteKey(p)
  PROVE  CertInv'
<1>0. upload[p].pc = "key" /\ upload[p].pc # "idle"
  BY DEF Certs!WriteKey, Certs!At
<1>1. UNCHANGED <<crtHost, crtRow, crt, served, boot, starts>>
  BY DEF Certs!WriteKey
<1>2. CASE crtKey' = upload[p].up /\ Certs!Goto(p, "reconcile") /\ Certs!NoFault
  <2>1. crtKey' = upload[p].up /\ Certs!Goto(p, "reconcile") /\ disturbed' = disturbed
    BY <1>2 DEF Certs!NoFault
  <2>2. /\ DOMAIN upload' = Uploaders /\ upload' = [q \in Uploaders |-> upload'[q]]
        /\ \A q \in Uploaders : q # p => upload'[q] = upload[q]
        /\ JobTyped(upload'[p]) /\ upload'[p].pc = "reconcile" /\ upload'[p].kind = upload[p].kind
        /\ upload'[p].up = upload[p].up /\ upload'[p].host = upload[p].host
    BY <1>0, <2>1, JobFacts, JobGoes DEF CertPcs
  <2>3. crtKey' \in 1 .. MaxStarts
    BY <1>0, <2>1, JobFacts
  <2>4. OneAtATime => JobFits(upload[p])'
    BY <1>0, <1>1, <2>1, <2>2, JobFacts DEF JobFits, RowsAgree
  <2> QED
    BY <1>0, <1>1, <2>1, <2>2, <2>3, <2>4, JobFacts, JobStep
<1>3. CASE UNCHANGED crtKey /\ Certs!End(p) /\ Certs!Fault("write")
  <2>1. Agree'
    BY <1>3 DEF Agree, Certs!Fault
  <2> QED
    BY <1>0, <1>1, <1>3, <2>1, JobFacts, JobEnds, JobStep
<1> QED
  BY <1>2, <1>3 DEF Certs!WriteKey

\* The whole row of the host is written.
LEMMA UpdateHostKeeps ==
  ASSUME CertInv, NEW p \in Uploaders, Certs!UpdateHost(p)
  PROVE  CertInv'
<1>0. upload[p].pc = "host" /\ upload[p].pc # "idle"
  BY DEF Certs!UpdateHost, Certs!At
<1>1. UNCHANGED <<crtRow, crt, crtKey, served, boot, starts, disturbed>>
  BY DEF Certs!UpdateHost, Certs!NoFault
<1>2. CASE crtHost = None
  <2>1. Certs!End(p) /\ UNCHANGED crtHost
    BY <1>2 DEF Certs!UpdateHost
  <2>2. Agree'
    BY <1>2, <2>1 DEF Agree
  <2> QED
    BY <1>0, <1>1, <2>1, <2>2, JobFacts, JobEnds, JobStep
<1>3. CASE crtHost # None
  <2> DEFINE pc == IF upload[p].kind = "cascade" THEN "row" ELSE "reconcile"
             e == IF upload[p].kind = "delete" THEN upload[p].host.edit ELSE upload[p].up
             h == [upload[p].host EXCEPT !.edit = e]
  <2>1. Certs!Goto(p, pc) /\ crtHost' = h
    BY <1>3 DEF Certs!UpdateHost
  <2>0. upload[p].host \in CertHosts /\ upload[p].up \in 1 .. MaxStarts
    BY <1>0, JobFacts
  <2>2. e \in 0 .. MaxStarts
    BY <2>0 DEF CertHosts
  <2>a. pc \in CertPcs
    BY DEF CertPcs
  <2> HIDE DEF e
  <2>3. h \in CertHosts /\ h.mode = upload[p].host.mode
    BY <2>0, <2>2 DEF CertHosts
  <2> HIDE DEF h, pc
  <2>4. /\ DOMAIN upload' = Uploaders /\ upload' = [q \in Uploaders |-> upload'[q]]
        /\ \A q \in Uploaders : q # p => upload'[q] = upload[q]
        /\ JobTyped(upload'[p]) /\ upload'[p].pc = pc /\ upload'[p].kind = upload[p].kind
        /\ upload'[p].up = upload[p].up /\ upload'[p].host = upload[p].host
    BY <1>0, <2>1, <2>a, JobFacts, JobGoes 
  <2>5. crtHost' # None /\ crtHost'.mode = upload[p].host.mode
    BY <2>1, <2>3, JobFacts
  <2>6. OneAtATime => JobFits(upload[p])'
    <3> SUFFICES ASSUME OneAtATime PROVE JobFits(upload[p])'
      OBVIOUS
    <3>1. \/ upload[p].kind = "delete" /\ upload[p].host.mode # "manual" /\ crtRow = None
          \/ upload[p].kind = "cascade" /\ upload[p].host.mode # "manual" /\ Agree
          \/ upload[p].kind = "edit" /\ Agree /\ (upload[p].host.mode = "manual" <=> crtHost.mode = "manual")
      BY <1>0, <1>3, JobFacts DEF JobFits
    <3>2. CASE upload[p].kind = "delete" /\ upload[p].host.mode # "manual" /\ crtRow = None
      BY <1>1, <2>4, <2>5, <3>2 DEF pc, JobFits, Automatic
    <3>3. CASE upload[p].kind = "cascade" /\ upload[p].host.mode # "manual" /\ Agree
      BY <1>1, <2>4, <2>5, <3>3 DEF pc, JobFits, Automatic
    <3>4. CASE upload[p].kind = "edit" /\ Agree /\ (upload[p].host.mode = "manual" <=> crtHost.mode = "manual")
      <4>1. ~disturbed => RowsAgree'
        BY <1>1, <1>3, <2>5, <3>4 DEF Agree, RowsAgree
      <4> QED
        BY <1>1, <2>4, <2>5, <3>4, <4>1 DEF pc, JobFits
    <3> QED
      BY <3>1, <3>2, <3>3, <3>4
  <2>7. upload'[p].pc # "idle" /\ crtHost' \in CertHosts
    BY <2>1, <2>3, <2>4 DEF pc
  <2> QED
    BY <1>0, <1>1, <2>4, <2>6, <2>7, JobFacts, JobStep
<1> QED
  BY <1>2, <1>3

\* The row of the certificate goes.
LEMMA DeleteRowKeeps ==
  ASSUME CertInv, NEW p \in Uploaders, Certs!DeleteRow(p)
  PROVE  CertInv'
<1>0. upload[p].pc = "row" /\ upload[p].pc # "idle"
  BY DEF Certs!DeleteRow, Certs!At
<1>1. UNCHANGED <<crtHost, crt, crtKey, served, boot, starts, disturbed>> /\ crtRow' = None
  BY DEF Certs!DeleteRow, Certs!NoFault
<1>2. CASE crtRow = None /\ upload[p].kind = "delete"
  <2>1. Certs!End(p)
    BY <1>2 DEF Certs!DeleteRow
  <2>2. OneAtATime => Agree'
    BY <1>0, <1>1, <1>2, JobFacts DEF JobFits, Agree, RowsAgree
  <2> QED
    BY <1>0, <1>1, <2>1, <2>2, JobFacts, JobEnds, JobStep
<1>3. CASE ~(crtRow = None /\ upload[p].kind = "delete")
  <2>1. Certs!Goto(p, "rm_crt")
    BY <1>3 DEF Certs!DeleteRow
  <2>2. /\ DOMAIN upload' = Uploaders /\ upload' = [q \in Uploaders |-> upload'[q]]
        /\ \A q \in Uploaders : q # p => upload'[q] = upload[q]
        /\ JobTyped(upload'[p]) /\ upload'[p].pc = "rm_crt" /\ upload'[p].kind = upload[p].kind
        /\ upload'[p].up = upload[p].up /\ upload'[p].host = upload[p].host
    BY <1>0, <2>1, JobFacts, JobGoes DEF CertPcs
  <2>3. OneAtATime => JobFits(upload[p])'
    BY <1>0, <1>1, <2>2, JobFacts DEF JobFits, Automatic
  <2> QED
    BY <1>0, <1>1, <2>2, <2>3, JobFacts, JobStep
<1> QED
  BY <1>2, <1>3

\* The row of the certificate stays: a delete ends, a cascade goes on.
LEMMA DeleteRowFailsKeeps ==
  ASSUME CertInv, NEW p \in Uploaders, Certs!DeleteRowFails(p)
  PROVE  CertInv'
<1>0. upload[p].pc = "row" /\ upload[p].pc # "idle"
  BY DEF Certs!DeleteRowFails, Certs!At
<1>1. UNCHANGED <<crtHost, crtRow, crt, crtKey, served, boot, starts>> /\ Certs!Fault("db")
  BY DEF Certs!DeleteRowFails
<1>2. CASE upload[p].kind = "delete"
  BY <1>0, <1>1, <1>2, FailureKeeps DEF Certs!DeleteRowFails
<1>3. CASE upload[p].kind # "delete"
  <2> DEFINE w == [upload[p] EXCEPT !.pc = "rm_crt", !.kind = "left"]
  <2>1. /\ DOMAIN upload = Uploaders /\ JobTyped(upload[p])
        /\ upload[p].up \in 1 .. MaxStarts /\ upload[p].host \in CertHosts
    BY <1>0, JobFacts DEF CertBase
  <2>2. upload' = [upload EXCEPT ![p] = w]
    BY <1>3 DEF Certs!DeleteRowFails
  <2>3. w \in CertJobs /\ w.pc = "rm_crt" /\ w.kind = "left" /\ w.up = upload[p].up /\ w.host = upload[p].host
    BY <2>1 DEF JobTyped, CertJobs
  <2> HIDE DEF w
  <2>4. JobTyped(w)
    BY <2>1, <2>3 DEF JobTyped
  <2>5. /\ DOMAIN upload' = Uploaders /\ upload' = [q \in Uploaders |-> upload'[q]]
        /\ \A q \in Uploaders : q # p => upload'[q] = upload[q]
        /\ upload'[p] = w
    BY <2>1, <2>2
  <2>6. disturbed'
    BY <1>1 DEF Certs!Fault
  <2>7. JobFits(upload[p])'
    BY <2>3, <2>5, <2>6 DEF JobFits
  <2> QED
    BY <1>0, <1>1, <2>3, <2>4, <2>5, <2>7, JobFacts, JobStep
<1> QED
  BY <1>2, <1>3

\* A removal that has dealt with the files goes on.
LEMMA RemovedKeeps ==
  ASSUME CertInv, NEW p \in Uploaders, upload[p].pc \in {"rm_crt", "rm_key"}, Certs!Removed(p),
         UNCHANGED <<crtHost, crtRow, served, boot, starts>>, disturbed => disturbed',
         {crt', crtKey'} \subseteq (1 .. MaxStarts) \cup {None}
  PROVE  CertInv'
<1>0. upload[p].pc # "idle"
  OBVIOUS
<1> DEFINE pc == IF upload[p].kind = "delete" THEN "host" ELSE "reconcile"
<1>1. Certs!Goto(p, pc) /\ pc \in CertPcs
  BY DEF Certs!Removed, CertPcs
<1> HIDE DEF pc
<1>2. /\ DOMAIN upload' = Uploaders /\ upload' = [q \in Uploaders |-> upload'[q]]
      /\ \A q \in Uploaders : q # p => upload'[q] = upload[q]
      /\ JobTyped(upload'[p]) /\ upload'[p].pc = pc /\ upload'[p].kind = upload[p].kind
      /\ upload'[p].host = upload[p].host
  BY <1>0, <1>1, JobFacts, JobGoes
<1>3. OneAtATime => JobFits(upload[p])'
  BY <1>2, JobFacts DEF pc, JobFits, Automatic
<1>4. upload'[p].pc # "idle"
  BY <1>2 DEF pc
<1> QED
  BY <1>0, <1>2, <1>3, <1>4, JobFacts, JobStep

\* The first file goes, or the removal gives up.
LEMMA RemoveCertKeeps ==
  ASSUME CertInv, NEW p \in Uploaders, Certs!RemoveCert(p)
  PROVE  CertInv'
<1>0. upload[p].pc = "rm_crt" /\ upload[p].pc # "idle"
  BY DEF Certs!RemoveCert, Certs!At
<1>1. UNCHANGED <<crtHost, crtRow, crtKey, served, boot, starts>>
  BY DEF Certs!RemoveCert
<1>2. CASE crt' = None /\ Certs!Goto(p, "rm_key") /\ Certs!NoFault
  <2>1. Certs!Goto(p, "rm_key") /\ disturbed' = disturbed
    BY <1>2 DEF Certs!NoFault
  <2>2. /\ DOMAIN upload' = Uploaders /\ upload' = [q \in Uploaders |-> upload'[q]]
        /\ \A q \in Uploaders : q # p => upload'[q] = upload[q]
        /\ JobTyped(upload'[p]) /\ upload'[p].pc = "rm_key" /\ upload'[p].kind = upload[p].kind
        /\ upload'[p].up = upload[p].up /\ upload'[p].host = upload[p].host
    BY <1>0, <2>1, JobFacts, JobGoes DEF CertPcs
  <2>3. OneAtATime => JobFits(upload[p])'
    BY <1>0, <1>1, <2>1, <2>2, JobFacts DEF JobFits, Automatic
  <2> QED
    BY <1>0, <1>1, <1>2, <2>2, <2>3, JobFacts, JobStep
<1>3. CASE UNCHANGED crt /\ Certs!Removed(p) /\ Certs!Fault("remove")
  <2>1. disturbed'
    BY <1>3 DEF Certs!Fault
  <2> QED
    BY <1>0, <1>1, <1>3, <2>1, JobFacts, RemovedKeeps
<1> QED
  BY <1>2, <1>3 DEF Certs!RemoveCert

\* The second file goes, or stays.
LEMMA RemoveKeyKeeps ==
  ASSUME CertInv, NEW p \in Uploaders, Certs!RemoveKey(p)
  PROVE  CertInv'
<1>0. upload[p].pc = "rm_key" /\ upload[p].pc # "idle"
  BY DEF Certs!RemoveKey, Certs!At
<1>1. UNCHANGED <<crtHost, crtRow, crt, served, boot, starts>> /\ crtKey' \in {None, crtKey} /\ Certs!Removed(p)
  BY DEF Certs!RemoveKey
<1>2. disturbed => disturbed'
  BY DEF Certs!RemoveKey, Certs!Fault, Certs!NoFault
<1> QED
  BY <1>0, <1>1, <1>2, JobFacts, RemovedKeeps

\* The host goes, and its row of the certificate with it.
LEMMA DeleteHostRowKeeps ==
  ASSUME CertInv, NEW p \in Uploaders, Certs!DeleteHostRow(p)
  PROVE  CertInv'
<1>0. upload[p].pc = "gone" /\ upload[p].pc # "idle"
  BY DEF Certs!DeleteHostRow, Certs!At
<1>1. UNCHANGED <<crt, crtKey, served, boot, starts, disturbed>>
  BY DEF Certs!DeleteHostRow, Certs!NoFault
<1>2. CASE Certs!End(p) /\ UNCHANGED <<crtHost, crtRow>>
  BY <1>0, <1>1, <1>2, RequestGivesUp
<1>3. CASE Certs!Goto(p, "reconcile") /\ crtHost' = None /\ crtRow' = None
  <2>1. Certs!Goto(p, "reconcile") /\ crtHost' = None /\ crtRow' = None
    BY <1>3
  <2>2. /\ DOMAIN upload' = Uploaders /\ upload' = [q \in Uploaders |-> upload'[q]]
        /\ \A q \in Uploaders : q # p => upload'[q] = upload[q]
        /\ JobTyped(upload'[p]) /\ upload'[p].pc = "reconcile" /\ upload'[p].kind = upload[p].kind
        /\ upload'[p].up = upload[p].up /\ upload'[p].host = upload[p].host
    BY <1>0, <2>1, JobFacts, JobGoes DEF CertPcs
  <2>3. OneAtATime => JobFits(upload[p])'
    BY <1>0, <1>1, <2>1, <2>2, JobFacts DEF JobFits
  <2> QED
    BY <1>0, <1>1, <2>1, <2>2, <2>3, JobFacts, JobStep
<1> QED
  BY <1>2, <1>3 DEF Certs!DeleteHostRow

\* What Caddy serves after it has taken a configuration has a type, and is what rows and
\* files say when they agree.
LEMMA LoadFact ==
  ASSUME CertBase, Certs!Load
  PROVE  /\ served' = None \/ served' \in [mode: Certs!Modes, crt: (1 .. MaxStarts) \cup {None}]
         /\ crtHost # None /\ RowsAgree => served' = Certs!Serving(crtHost.mode, crtRow)
<1>1. /\ crtHost \in CertHosts \cup {None} /\ {crtRow, crt, crtKey} \subseteq (1 .. MaxStarts) \cup {None}
      /\ served = None \/ served \in [mode: Certs!Modes, crt: (1 .. MaxStarts) \cup {None}]
  BY Zenon DEF CertBase
<1>2. \A m \in Certs!Modes, c \in (1 .. MaxStarts) \cup {None} :
         Certs!Serving(m, c) \in [mode: Certs!Modes, crt: (1 .. MaxStarts) \cup {None}]
  BY DEF Certs!Serving
<1>3. crtHost # None => crtHost.mode \in Certs!Modes /\ "manual" \in Certs!Modes
  BY <1>1 DEF CertHosts, Certs!Modes
<1>4. \/ crtHost = None /\ served' = None
      \/ crtHost # None /\ crtHost.mode # "manual" /\ served' = Certs!Serving(crtHost.mode, None)
      \/ crtHost # None /\ crtHost.mode = "manual" /\ crt # None /\ crt = crtKey
         /\ served' = Certs!Serving("manual", crt)
      \/ crtHost # None /\ crtHost.mode = "manual" /\ ~(crt # None /\ crt = crtKey) /\ served' = served
  BY DEF Certs!Load
<1>5. served' = None \/ served' \in [mode: Certs!Modes, crt: (1 .. MaxStarts) \cup {None}]
  <2> DEFINE C == (1 .. MaxStarts) \cup {None}
             S == [mode: Certs!Modes, crt: C]
  <2>1. None \in C /\ crt \in C
    BY <1>1
  <2>2. (served = None \/ served \in S) /\ \A m \in Certs!Modes, c \in C : Certs!Serving(m, c) \in S
    BY <1>1, <1>2
  <2> HIDE DEF C, S
  <2>3. served' = None \/ served' \in S
    BY <1>3, <1>4, <2>1, <2>2
  <2> QED
    BY <2>3 DEF C, S
<1>6. crtHost # None /\ RowsAgree => served' = Certs!Serving(crtHost.mode, crtRow)
  BY <1>4 DEF RowsAgree
<1> QED
  BY <1>5, <1>6

\* Caddy takes the configuration, and the request is done.
LEMMA ReconcileKeeps ==
  ASSUME CertInv, NEW p \in Uploaders, Certs!Reconcile(p)
  PROVE  CertInv'
<1>0. upload[p].pc = "reconcile" /\ upload[p].pc # "idle"
  BY DEF Certs!Reconcile, Certs!At
<1>1. /\ Certs!Load /\ Certs!End(p) /\ UNCHANGED <<crtHost, crtRow, crt, crtKey, boot, starts>>
      /\ disturbed' = (disturbed /\ upload[p].kind \notin {"upload", "cascade", "delete"})
  BY DEF Certs!Reconcile
<1>2. /\ served' = None \/ served' \in [mode: Certs!Modes, crt: (1 .. MaxStarts) \cup {None}]
      /\ crtHost # None /\ RowsAgree => served' = Certs!Serving(crtHost.mode, crtRow)
  BY <1>1, LoadFact, JobFacts
<1>3. ASSUME OneAtATime PROVE Agree'
  <2>1. upload[p].kind \in {"edit", "left"} /\ ~disturbed' => ~disturbed
    BY <1>1
  <2>2. crtHost # None /\ ~disturbed' => RowsAgree
    BY <1>0, <1>3, <2>1, JobFacts DEF JobFits, Automatic, RowsAgree
  <2> QED
    BY <1>1, <1>2, <2>2 DEF Agree, RowsAgree
<1> QED
  BY <1>0, <1>1, <1>2, <1>3, JobFacts, JobEnds, JobStep

\* The host's statement fails, or the configuration is not taken.
LEMMA EndingsKeep ==
  ASSUME CertInv, NEW p \in Uploaders, Certs!UpdateHostFails(p) \/ Certs!ReconcileFails(p)
  PROVE  CertInv'
<1>1. CASE Certs!UpdateHostFails(p)
  BY <1>1, FailureKeeps DEF Certs!UpdateHostFails, Certs!At
<1>2. CASE Certs!ReconcileFails(p)
  BY <1>2, FailureKeeps DEF Certs!ReconcileFails, Certs!At
<1> QED
  BY <1>1, <1>2

\* A request begins.
LEMMA BeginKeeps ==
  ASSUME CertInv, NEW p \in Uploaders, NEW k \in {"upload", "delete", "cascade", "edit", "remove"},
         NEW pc \in {"apply", "row", "host", "gone"}, NEW m \in Certs!Modes,
         Certs!Begin(p, k, pc, m),
         \/ k = "upload" /\ pc = "apply"
         \/ k = "delete" /\ pc = "row" /\ m # "manual"
         \/ k = "cascade" /\ pc = "host" /\ m # "manual"
         \/ k = "edit" /\ pc = "host" /\ (m = "manual" <=> crtHost.mode = "manual")
         \/ k = "remove" /\ pc = "gone"
  PROVE  CertInv'
<1> DEFINE h == [crtHost EXCEPT !.mode = m]
           w == [pc |-> pc, kind |-> k, up |-> starts + 1, host |-> h]
<1>1. /\ boot = "up" /\ upload[p].pc = "idle" /\ (Overlap \/ Certs!Quiet) /\ crtHost # None
      /\ starts < MaxStarts /\ starts' = starts + 1 /\ upload' = [upload EXCEPT ![p] = w]
      /\ UNCHANGED <<crtHost, crtRow, crt, crtKey, served, boot, disturbed>>
  BY DEF Certs!Begin, Certs!NoFault, Certs!At
<1>2. CertBase /\ DOMAIN upload = Uploaders
  BY DEF CertInv, CertBase
<1>3. starts + 1 \in 1 .. MaxStarts /\ starts' \in 0 .. MaxStarts
  <2>1. starts \in 0 .. MaxStarts /\ MaxStarts \in Nat
    BY <1>2, CertsAssumption DEF CertBase
  <2> QED
    BY <1>1, <2>1
<1>4. h \in CertHosts /\ h.mode = m
  BY <1>1, JobFacts DEF CertHosts
<1> HIDE DEF h
<1>5. w \in CertJobs /\ w.pc = pc /\ w.kind = k /\ w.host = h /\ w.up = starts + 1
  BY <1>3, <1>4 DEF CertJobs
<1> HIDE DEF w
<1>6. JobTyped(w) /\ w.pc # "idle"
  BY <1>3, <1>4, <1>5 DEF JobTyped
<1>7. /\ DOMAIN upload' = Uploaders /\ upload' = [q \in Uploaders |-> upload'[q]]
      /\ \A q \in Uploaders : upload'[q] = IF q = p THEN w ELSE upload[q]
  BY <1>1, <1>2
<1>8. CertBase'
  <2>1. \A q \in Uploaders : JobTyped(upload'[q])
    BY <1>2, <1>6, <1>7 DEF CertBase
  <2>2. ASSUME NEW q \in Uploaders PROVE JobTyped(upload[q])'
    BY <2>1 DEF JobTyped, CertJobs, CertHosts
  <2> QED
    BY <1>1, <1>2, <1>3, <1>7, <2>2 DEF CertBase, CertHosts
<1>9. ASSUME ~Overlap PROVE OneAtATime'
  <2>1. OneAtATime /\ Certs!Quiet
    BY <1>1, <1>9 DEF CertInv
  <2>2. Agree
    BY <1>1, <2>1 DEF OneAtATime
  <2>3. Agree' <=> Agree
    BY <1>1 DEF Agree, RowsAgree
  <2>5. ASSUME NEW q \in Uploaders PROVE JobFits(upload[q])'
    <3>1. CASE q = p
      BY <1>1, <1>4, <1>5, <1>7, <2>2, <2>3, <3>1 DEF JobFits
    <3>2. CASE q # p
      <4>1. upload'[q].pc = "idle"
        BY <1>7, <2>1, <3>2 DEF Certs!Quiet, Certs!At
      <4> QED
        BY <4>1 DEF JobFits
    <3> QED
      BY <3>1, <3>2
  <2> QED
    BY <1>6, <1>7, <2>1, <2>2, <2>3, <2>5 DEF OneAtATime, Certs!Quiet, Certs!At
<1> QED
  BY <1>8, <1>9 DEF CertInv

\* The requests, each begun.
LEMMA RequestsKeep ==
  ASSUME CertInv, NEW p \in Uploaders,
         \/ Certs!Upload(p) \/ Certs!DeleteHost(p)
         \/ \E m \in Certs!Modes : Certs!Delete(p, m) \/ Certs!Update(p, m)
  PROVE  CertInv'
<1>1. CASE Certs!Upload(p)
  BY <1>1, BeginKeeps DEF Certs!Upload, Certs!Modes
<1>2. CASE Certs!DeleteHost(p)
  BY <1>2, BeginKeeps DEF Certs!DeleteHost, Certs!Modes
<1>3. ASSUME NEW m \in Certs!Modes, Certs!Delete(p, m) PROVE CertInv'
  BY <1>3, BeginKeeps DEF Certs!Delete
<1>4. ASSUME NEW m \in Certs!Modes, Certs!Update(p, m) PROVE CertInv'
  <2>1. CASE crtHost.mode = "manual" /\ m # "manual"
    <3>1. Certs!Begin(p, "cascade", "host", m)
      BY <1>4, <2>1 DEF Certs!Update
    <3> QED
      BY <2>1, <3>1, BeginKeeps
  <2>2. CASE ~(crtHost.mode = "manual" /\ m # "manual")
    <3>1. Certs!Begin(p, "edit", "host", m) /\ (m = "manual" <=> crtHost.mode = "manual")
      BY <1>4, <2>2 DEF Certs!Update
    <3> QED
      BY <3>1, BeginKeeps
  <2> QED
    BY <2>1, <2>2
<1> QED
  BY <1>1, <1>2, <1>3, <1>4

\* The panel's stop and start: with no request, all that counts is what is put back.
LEMMA StartStep ==
  ASSUME CertInv, upload' = [p \in Uploaders |-> Certs!Idle] \/ (upload' = upload /\ boot # "up"),
         UNCHANGED <<crtHost, crtRow, starts>>, disturbed',
         crt' \in {crt, None, crtRow}, crtKey' \in {crtKey, None, crtRow},
         served' = None \/ served' \in [mode: Certs!Modes, crt: (1 .. MaxStarts) \cup {None}],
         boot' \in {"scan", "crt", "key", "apply", "apply_without", "up"},
         boot' \in {"crt", "key"} => crtRow # None, boot' = "key" => crt' # None,
         boot' = "apply" /\ crtRow # None => crt' # None /\ crtKey' # None
  PROVE  CertInv'
<1>1. CertBase
  BY DEF CertInv
<1>2. JobTyped(Certs!Idle) /\ Certs!Idle.pc = "idle"
  BY CertsAssumption DEF JobTyped, CertJobs, Certs!Idle
<1>3. /\ DOMAIN upload' = Uploaders /\ upload' = [p \in Uploaders |-> upload'[p]]
      /\ \A p \in Uploaders : JobTyped(upload'[p]) /\ upload'[p].pc = "idle"
  <2>1. CASE upload' = [p \in Uploaders |-> Certs!Idle]
    BY <1>2, <2>1
  <2>2. CASE upload' = upload /\ boot # "up"
    BY <1>1, <2>2 DEF CertBase, Certs!Quiet, Certs!At
  <2> QED
    BY <2>1, <2>2
<1>4. ASSUME NEW p \in Uploaders PROVE JobTyped(upload[p])' /\ JobFits(upload[p])'
  BY <1>3 DEF JobTyped, CertJobs, CertHosts, JobFits
<1>5. Certs!Quiet'
  BY <1>3 DEF Certs!Quiet, Certs!At
<1>6. /\ crtHost' \in CertHosts \cup {None} /\ {crtRow', crt', crtKey'} \subseteq (1 .. MaxStarts) \cup {None}
      /\ starts' \in 0 .. MaxStarts
  <2>1. /\ crtHost \in CertHosts \cup {None} /\ {crtRow, crt, crtKey} \subseteq (1 .. MaxStarts) \cup {None}
        /\ starts \in 0 .. MaxStarts
    BY <1>1, Zenon DEF CertBase
  <2> DEFINE C == (1 .. MaxStarts) \cup {None}
  <2>2. crtRow \in C /\ crt \in C /\ crtKey \in C /\ None \in C
    BY <2>1
  <2>3. crtRow' \in C /\ crt' \in C /\ crtKey' \in C
    <3> HIDE DEF C
    <3> QED
      BY <2>2
  <2> QED
    BY <2>1, <2>3
<1>7. CertBase'
  BY <1>3, <1>4, <1>5, <1>6 DEF CertBase, CertHosts
<1>8. OneAtATime'
  BY <1>3, <1>4 DEF OneAtATime, Agree
<1> QED
  BY <1>7, <1>8 DEF CertInv

\* The panel stops, and starts again.
LEMMA StartKeeps ==
  ASSUME CertInv, Certs!Stop \/ Certs!Scan \/ Certs!RestoreCert \/ Certs!RestoreKey \/ Certs!Apply
  PROVE  CertInv'
<1>0. /\ served = None \/ served \in [mode: Certs!Modes, crt: (1 .. MaxStarts) \cup {None}]
      /\ boot # "up" => disturbed
      /\ boot \in {"crt", "key"} => crtRow # None
      /\ boot = "key" => crt # None
  BY Zenon DEF CertInv, CertBase
<1>1. CASE Certs!Stop
  <2>1. /\ boot' = "scan" /\ upload' = [p \in Uploaders |-> Certs!Idle] /\ disturbed' = TRUE
        /\ crt' \in {crt, None} /\ crtKey' \in {crtKey, None} /\ UNCHANGED <<crtHost, crtRow, served, starts>>
    BY <1>1 DEF Certs!Stop, Certs!Fault
  <2> QED
    BY <1>0, <2>1, StartStep
<1>2. CASE Certs!Scan
  <2>1. /\ boot = "scan" /\ UNCHANGED <<crtHost, crtRow, crt, crtKey, served, upload, starts>>
        /\ \/ boot' = "apply" /\ (crtRow = None \/ (crt # None /\ crtKey # None)) /\ disturbed' = disturbed
           \/ boot' = "crt" /\ crtRow # None /\ disturbed' = disturbed
           \/ boot' = "apply_without" /\ disturbed' = TRUE
    BY <1>2 DEF Certs!Scan, Certs!Unrestorable, Certs!Fault, Certs!NoFault
  <2>2. disturbed'
    BY <1>0, <2>1
  <2> QED
    BY <1>0, <2>1, <2>2, StartStep
<1>3. CASE Certs!RestoreCert
  <2>1. /\ boot = "crt" /\ UNCHANGED <<crtHost, crtRow, crtKey, served, upload, starts>>
        /\ \/ boot' = "key" /\ crt' = crtRow /\ disturbed' = disturbed
           \/ boot' = "apply_without" /\ crt' = crt /\ disturbed' = TRUE
    BY <1>3 DEF Certs!RestoreCert, Certs!NoFault, Certs!Fault
  <2>2. disturbed'
    BY <1>0, <2>1
  <2> QED
    BY <1>0, <2>1, <2>2, StartStep
<1>4. CASE Certs!RestoreKey
  <2>1. /\ boot = "key" /\ UNCHANGED <<crtHost, crtRow, crt, served, upload, starts>>
        /\ \/ boot' = "apply" /\ crtKey' = crtRow /\ disturbed' = disturbed
           \/ boot' = "apply_without" /\ crtKey' = crtKey /\ disturbed' = TRUE
    BY <1>4 DEF Certs!RestoreKey, Certs!NoFault, Certs!Fault
  <2>2. disturbed'
    BY <1>0, <2>1
  <2> QED
    BY <1>0, <2>1, <2>2, StartStep
<1>5. CASE Certs!Apply
  <2>1. /\ boot \in {"apply", "apply_without"} /\ boot' = "up"
        /\ \/ Certs!Load /\ disturbed' = disturbed
           \/ UNCHANGED served /\ disturbed' = TRUE
        /\ UNCHANGED <<crtHost, crtRow, crt, crtKey, upload, starts>>
    BY <1>5 DEF Certs!Apply, Certs!NoFault, Certs!Fault
  <2>a. disturbed
    BY <1>0, <2>1
  <2>2. disturbed'
    BY <2>1, <2>a
  <2>3. served' = None \/ served' \in [mode: Certs!Modes, crt: (1 .. MaxStarts) \cup {None}]
    <3>1. CASE Certs!Load
      BY <3>1, LoadFact DEF CertInv
    <3>2. CASE UNCHANGED served
      <4> DEFINE S == [mode: Certs!Modes, crt: (1 .. MaxStarts) \cup {None}]
      <4>1. served = None \/ served \in S
        BY <1>0
      <4> HIDE DEF S
      <4>2. served' = None \/ served' \in S
        BY <3>2, <4>1
      <4> QED
        BY <4>2 DEF S
    <3> QED
      BY <2>1, <3>1, <3>2
  <2> QED
    BY <2>1, <2>2, <2>3, StartStep
<1> QED
  BY <1>1, <1>2, <1>3, <1>4, <1>5

\* It holds before the first upload.
LEMMA CertStarts == Certs!Init => CertInv
<1> SUFFICES ASSUME Certs!Init PROVE CertInv
  OBVIOUS
<1>1. /\ crtHost = [mode |-> "auto", edit |-> 0] /\ crtRow = None /\ crt = None /\ crtKey = None
      /\ served = Certs!Serving("auto", None) /\ boot = "up" /\ starts = 0
      /\ upload = [p \in Uploaders |-> Certs!Idle]
  BY DEF Certs!Init
<1>2. JobTyped(Certs!Idle) /\ Certs!Idle.pc = "idle"
  BY CertsAssumption DEF JobTyped, CertJobs, Certs!Idle
<1>3. crtHost \in CertHosts /\ crtHost.mode = "auto"
  BY <1>1, CertsAssumption DEF CertHosts, Certs!Modes
<1>4. served \in [mode: Certs!Modes, crt: (1 .. MaxStarts) \cup {None}]
  BY <1>1 DEF Certs!Serving, Certs!Modes
<1>5. \A p \in Uploaders : JobTyped(upload[p]) /\ upload[p].pc = "idle"
  BY <1>1, <1>2
<1>6. DOMAIN upload = Uploaders /\ upload = [p \in Uploaders |-> upload[p]] /\ starts \in 0 .. MaxStarts
  BY <1>1, CertsAssumption
<1>7. CertBase
  BY <1>1, <1>3, <1>4, <1>5, <1>6 DEF CertBase
<1>8. OneAtATime
  BY <1>1, <1>3, <1>5 DEF OneAtATime, JobFits, Agree, RowsAgree
<1> QED
  BY <1>7, <1>8 DEF CertInv

\* Every step keeps it.
LEMMA CertKeeps == CertInv /\ [Certs!Next]_Certs!vars => CertInv'
<1> SUFFICES ASSUME CertInv, [Certs!Next]_Certs!vars PROVE CertInv'
  OBVIOUS
<1>1. CASE UNCHANGED Certs!vars
  BY <1>1 DEF Certs!vars, CertInv, CertBase, OneAtATime, JobTyped, JobFits, Agree, RowsAgree, Automatic,
              Certs!Quiet, Certs!At, CertJobs, CertHosts
<1>2. ASSUME NEW p \in Uploaders, Certs!Step(p) PROVE CertInv'
  BY <1>2, ApplyManualCertUploadKeeps, WriteCertKeeps, WriteKeyKeeps, UpdateHostKeeps, DeleteRowKeeps,
     DeleteRowFailsKeeps, EndingsKeep, RemoveCertKeeps, RemoveKeyKeeps, DeleteHostRowKeeps, ReconcileKeeps DEF Certs!Step
<1> QED
  BY <1>1, <1>2, RequestsKeep, StartKeeps DEF Certs!Next

\* A start puts back both files of a certificate that has a row before Caddy is given a
\* configuration that names them, whatever requests were doing, unless it has logged that
\* it could not (ReconcileManualCerts).
THEOREM BootRestoresHolds == Certs!Spec => [](Certs!TypeOK /\ Certs!BootRestores)
<1>1. CertInv => Certs!TypeOK /\ Certs!BootRestores
  <2> SUFFICES ASSUME CertInv PROVE Certs!TypeOK /\ Certs!BootRestores
    OBVIOUS
  <2>1. /\ crtHost \in CertHosts \cup {None} /\ {crtRow, crt, crtKey} \subseteq (1 .. MaxStarts) \cup {None}
        /\ served = None \/ served \in [mode: Certs!Modes, crt: (1 .. MaxStarts) \cup {None}]
        /\ boot \in {"scan", "crt", "key", "apply", "apply_without", "up"} /\ (boot # "up" => Certs!Quiet)
        /\ boot = "apply" /\ crtRow # None => crt # None /\ crtKey # None
    BY Zenon DEF CertInv, CertBase
  <2>2. crtHost = None \/ crtHost \in CertHosts
    BY <2>1
  <2> QED
    BY <2>1, <2>2, Zenon DEF Certs!TypeOK, Certs!BootRestores, CertHosts
<1> QED
  BY <1>1, CertStarts, CertKeeps, PTL DEF Certs!Spec

\* Manual certificates: when requests do not overlap, row, files, mode and what Caddy serves
\* agree between two of them, after any failure, logged or answered, that a later upload or
\* removal has made good by doing all of its own work (UploadManualCert, DeleteManualCert,
\* UpdateHost's cascade, ReconcileManualCerts).
THEOREM CertsHoldHolds == ~Overlap => (Certs!Spec => []CertsHold)
<1> SUFFICES ASSUME ~Overlap PROVE Certs!Spec => []CertsHold
  OBVIOUS
<1>1. CertInv /\ Certs!TypeOK /\ Certs!BootRestores => CertsHold
  BY DEF CertInv, OneAtATime, Agree, RowsAgree, CertsHold, Certs!AtRest
<1> QED
  BY <1>1, BootRestoresHolds, CertStarts, CertKeeps, PTL DEF Certs!Spec
----------------------------------------------------------------------------
(* The AppSec sentinels.  A request that is alone with its topic knows     *)
(* what the database holds when it writes the file; the detector what it   *)
(* held when it read it, while nothing has moved; a run of the script what *)
(* the files hold, while nobody has written one.                           *)

Holding(t) == IF t = "scn" THEN SUBSET Scenarios
              ELSE IF t = "tune" THEN [Drifts!Fields -> Thresholds] ELSE SUBSET Entries

PatchTyped(w) ==
    /\ DOMAIN w = {"pc", "topic", "new", "todo", "sound"}
    /\ \/ w.pc = "idle" /\ w.topic = None
       \/ /\ w.pc \in {"store", "rows", "write"} /\ w.topic \in Drifts!Topics
          /\ DOMAIN w.new = {w.topic}
          /\ w.pc = "rows" <=> w.new[w.topic] = None
          /\ w.pc = "rows" => w.topic = "white"
          /\ w.pc = "store" => \/ w.topic = "scn" /\ w.todo = {"scn"}
                               \/ w.topic = "tune" /\ w.todo \subseteq Drifts!Fields
          /\ w.pc # "rows" => w.new[w.topic] \in Holding(w.topic)
          /\ w.sound \in BOOLEAN

\* The requests, the database and the files.
SettingsFit ==
    /\ settings \in Contents /\ crossed \subseteq Drifts!Topics
    /\ DOMAIN file = Drifts!Topics /\ file = [t \in Drifts!Topics |-> file[t]]
    /\ \A t \in Drifts!Topics : file[t] \in Holding(t) \cup {None}
    /\ DOMAIN patch = Callers /\ patch = [p \in Callers |-> patch[p]]
    /\ \A p \in Callers : PatchTyped(patch[p])

\* The thresholds a request has nothing to store of any more.
StoringFits(w) ==
    w.topic = "tune" => \A f \in Drifts!Fields \ w.todo : w.new["tune"][f] = settings.tune[f]

LoneFits ==
    \A p \in Callers : patch[p].pc # "idle" /\ patch[p].sound =>
        /\ \A q \in Callers : patch[q].topic = patch[p].topic => q = p
        /\ patch[p].pc = "store" => StoringFits(patch[p])
        /\ patch[p].pc = "write" => patch[p].new[patch[p].topic] = settings[patch[p].topic]

FileInv == SettingsFit /\ LoneFits /\ Drifts!FileAgrees

\* The detector.
DetectorInv ==
    /\ actual \in Contents /\ shown \in [scn: BOOLEAN, tune: BOOLEAN]
    /\ detector.pc \in {"idle", "scn", "tune"}
    /\ calm => /\ detector.pc = "scn" => detector.read.scn = settings.scn
               /\ detector.pc = "tune" => detector.read.tune = settings.tune
               /\ detector.pc # "scn" => shown.scn = Drifts!Drifted(settings.scn)
               /\ detector.pc = "idle" => shown.tune = (mounted /\ actual.tune # settings.tune)

\* The run of the script.
ScriptInv ==
    settled /\ script # "idle" =>
        /\ \A t \in Drifts!Topics : t \notin crossed => Drifts!Known(t) = settings[t]
        /\ script \in {"tune", "scn", "white", "done"}
        /\ script # "tune" => actual.tune = Drifts!Known("tune")
        /\ script \in {"white", "done"} => actual.scn \cap Drifts!Known("scn") = {}
        /\ script = "done" => actual.white = Drifts!Known("white")

DriftInv == FileInv /\ DetectorInv /\ ScriptInv

\* The constants, as the proofs use them.
LEMMA DriftConstants ==
  /\ Drifts!Topics = {"scn", "tune", "white"} /\ None \notin Drifts!Topics
  /\ \A t \in Drifts!Topics : None \notin Holding(t)
  /\ Drifts!Fields = {"in", "out"} /\ Drifts!Defaults \in [Drifts!Fields -> Thresholds]
BY DriftAssumption DEF Drifts!Topics, Drifts!Fields, Drifts!Defaults, Holding

\* What the contents hold of a topic.
LEMMA ContentsHold == \A c \in Contents : \A t \in Drifts!Topics : c[t] \in Holding(t)
BY DEF Contents, Holding, Drifts!Topics

\* Where a request is.
LEMMA PatchFacts ==
  ASSUME FileInv, NEW p \in Callers
  PROVE  /\ PatchTyped(patch[p]) /\ DOMAIN patch = Callers
         /\ patch[p].pc # "idle" => /\ patch[p].pc \in {"store", "rows", "write"}
                                   /\ patch[p].topic \in Drifts!Topics /\ patch[p].topic # None
                                   /\ DOMAIN patch[p].new = {patch[p].topic}
         /\ patch[p].topic # None => patch[p].pc # "idle"
BY DriftConstants DEF FileInv, SettingsFit, PatchTyped

\* What a request is when it has begun, and that others about its topic are not alone.
Begun(p, t, pc, new, todo, good) ==
    /\ DOMAIN patch' = Callers /\ patch' = [q \in Callers |-> patch'[q]]
    /\ PatchTyped(patch'[p]) /\ patch'[p].pc = pc /\ patch'[p].topic = t
    /\ patch'[p].new = [x \in {t} |-> new] /\ patch'[p].todo = todo
    /\ patch'[p].sound => good /\ \A q \in Callers : patch[q].topic # t
    /\ \A q \in Callers : q # p =>
          /\ PatchTyped(patch'[q]) /\ patch'[q].pc = patch[q].pc /\ patch'[q].topic = patch[q].topic
          /\ patch'[q].new = patch[q].new /\ patch'[q].todo = patch[q].todo
          /\ patch'[q].sound => patch[q].sound /\ patch[q].topic # t

\* A request begins: another one about its topic is not alone any more, and neither is it.
LEMMA BeginEffect ==
  ASSUME FileInv, NEW p \in Callers, NEW t \in Drifts!Topics, NEW pc \in {"store", "rows"}, NEW new,
         NEW todo, NEW good \in BOOLEAN, patch[p].pc = "idle", pc = "rows" => t = "white" /\ new = None,
         pc = "store" => /\ new \in Holding(t)
                         /\ \/ t = "scn" /\ todo = {"scn"}
                            \/ t = "tune" /\ todo \subseteq Drifts!Fields,
         Drifts!Begin(p, pc, t, new, todo, good)
  PROVE  Begun(p, t, pc, new, todo, good)
<1> DEFINE w == [pc |-> pc, topic |-> t, new |-> [x \in {t} |-> new], todo |-> todo,
                sound |-> good /\ Drifts!Busy(t) = {}]
           d(q) == [patch[q] EXCEPT !.sound = FALSE]
<1>1. patch' = [q \in Callers |-> IF q = p THEN w ELSE IF q \in Drifts!Busy(t) THEN d(q) ELSE patch[q]]
  BY DEF Drifts!Begin
<1>2. /\ PatchTyped(w) /\ w.pc = pc /\ w.topic = t /\ w.new = [x \in {t} |-> new] /\ w.todo = todo
      /\ w.sound => good /\ \A q \in Callers : patch[q].topic # t
  <2>1. DOMAIN w = {"pc", "topic", "new", "todo", "sound"} /\ w.pc = pc /\ w.topic = t /\ w.new = [x \in {t} |-> new]
        /\ w.todo = todo
    OBVIOUS
  <2>2. w.sound => good /\ Drifts!Busy(t) = {}
    OBVIOUS
  <2>6. w.sound \in BOOLEAN
    <3>1. w.sound = (good /\ Drifts!Busy(t) = {})
      OBVIOUS
    <3> HIDE DEF w
    <3> QED
      BY <3>1, Zenon
  <2> HIDE DEF w
  <2>3. pc = "store" => new # None
    BY DriftConstants
  <2>4. DOMAIN w.new = {w.topic} /\ w.new[w.topic] = new
    BY <2>1
  <2>5. PatchTyped(w)
    BY <2>1, <2>3, <2>4, <2>6 DEF PatchTyped
  <2> QED
    BY <2>1, <2>2, <2>5 DEF Drifts!Busy
<1>3. ASSUME NEW q \in Callers
      PROVE  /\ PatchTyped(d(q)) /\ d(q).pc = patch[q].pc /\ d(q).topic = patch[q].topic
             /\ d(q).new = patch[q].new /\ d(q).todo = patch[q].todo /\ ~d(q).sound
  <2>1. PatchTyped(patch[q])
    BY PatchFacts
  <2>2. /\ DOMAIN d(q) = {"pc", "topic", "new", "todo", "sound"} /\ d(q).pc = patch[q].pc
        /\ d(q).topic = patch[q].topic /\ d(q).new = patch[q].new /\ d(q).todo = patch[q].todo
        /\ d(q).sound = FALSE
    BY <2>1 DEF PatchTyped
  <2>3. d(q).sound \in BOOLEAN /\ ~d(q).sound
    <3> HIDE DEF d
    <3> QED
      BY <2>2, Zenon
  <2> HIDE DEF d
  <2> QED
    BY <2>1, <2>2, <2>3 DEF PatchTyped
<1> HIDE DEF w, d
<1>4. ASSUME NEW q \in Callers, q # p
      PROVE  /\ PatchTyped(patch'[q]) /\ patch'[q].pc = patch[q].pc /\ patch'[q].topic = patch[q].topic
             /\ patch'[q].new = patch[q].new /\ patch'[q].todo = patch[q].todo
             /\ patch'[q].sound => patch[q].sound /\ patch[q].topic # t
  <2>1. CASE q \in Drifts!Busy(t)
    <3>1. patch'[q] = d(q)
      BY <1>1, <1>4, <2>1
    <3> QED
      BY <1>3, <3>1
  <2>2. CASE q \notin Drifts!Busy(t)
    <3>1. patch'[q] = patch[q] /\ patch[q].topic # t
      BY <1>1, <1>4, <2>2 DEF Drifts!Busy
    <3> QED
      BY <3>1, PatchFacts
  <2> QED
    BY <2>1, <2>2
<1> QED
  BY <1>1, <1>2, <1>4 DEF Begun

\* Nothing is promised of a topic while a request is about it.
LEMMA FilesByTopic ==
  ASSUME FileInv, NEW t \in Drifts!Topics, \A p \in Callers : patch[p].topic # t, t \notin crossed
  PROVE  Drifts!Known(t) = settings[t]
BY DEF FileInv, Drifts!FileAgrees, Drifts!Busy

\* Requests, files and settings after a request has begun.
LEMMA BeginFiles ==
  ASSUME FileInv, NEW p \in Callers, NEW t \in Drifts!Topics, NEW pc \in {"store", "rows"}, NEW new,
         NEW todo, NEW good \in BOOLEAN, patch[p].pc = "idle", pc = "rows" => t = "white" /\ new = None,
         pc = "store" => /\ new \in Holding(t)
                         /\ \/ t = "scn" /\ todo = {"scn"}
                            \/ t = "tune" /\ todo \subseteq Drifts!Fields,
         Drifts!Begin(p, pc, t, new, todo, good),
         UNCHANGED <<file, crossed>>, settings' \in Contents,
         \A u \in Drifts!Topics : u # t => settings'[u] = settings[u],
         good /\ t = "tune" => \A f \in Drifts!Fields \ todo : new[f] = settings'.tune[f]
  PROVE  FileInv'
<1>0. Begun(p, t, pc, new, todo, good)
  BY BeginEffect
<1>1. /\ DOMAIN patch' = Callers /\ patch' = [q \in Callers |-> patch'[q]]
      /\ PatchTyped(patch'[p]) /\ patch'[p].pc = pc /\ patch'[p].topic = t
      /\ patch'[p].new = [x \in {t} |-> new] /\ patch'[p].todo = todo
      /\ patch'[p].sound => good /\ \A q \in Callers : patch[q].topic # t
      /\ \A q \in Callers : q # p =>
            /\ PatchTyped(patch'[q]) /\ patch'[q].pc = patch[q].pc /\ patch'[q].topic = patch[q].topic
            /\ patch'[q].new = patch[q].new /\ patch'[q].todo = patch[q].todo
            /\ patch'[q].sound => patch[q].sound /\ patch[q].topic # t
  BY <1>0 DEF Begun
<1>2. SettingsFit'
  BY <1>1 DEF FileInv, SettingsFit, PatchTyped, Holding
<1>3. LoneFits'
  <2> SUFFICES ASSUME NEW q \in Callers, patch'[q].pc # "idle", patch'[q].sound
               PROVE  /\ \A r \in Callers : patch'[r].topic = patch'[q].topic => r = q
                      /\ patch'[q].pc = "store" => StoringFits(patch[q])'
                      /\ patch'[q].pc = "write" => patch'[q].new[patch'[q].topic] = settings'[patch'[q].topic]
    BY DEF LoneFits
  <2>1. CASE q = p
    <3>1. patch'[p].sound => StoringFits(patch[p])'
      BY <1>1 DEF StoringFits
    <3> QED
      BY <1>1, <2>1, <3>1
  <2>2. CASE q # p
    <3>1. /\ patch[q].pc # "idle" /\ patch[q].sound /\ patch[q].topic # t /\ patch[q].topic \in Drifts!Topics
      BY <1>1, <2>2, PatchFacts
    <3>2. /\ \A r \in Callers : patch[r].topic = patch[q].topic => r = q
          /\ patch[q].pc = "store" => StoringFits(patch[q])
          /\ patch[q].pc = "write" => patch[q].new[patch[q].topic] = settings[patch[q].topic]
      BY <3>1 DEF FileInv, LoneFits
    <3>3. patch[q].topic = "tune" => settings'.tune = settings.tune
      BY <3>1
    <3>4. patch[q].pc = "store" => StoringFits(patch[q])'
      BY <1>1, <2>2, <3>2, <3>3 DEF StoringFits
    <3> QED
      BY <1>1, <2>2, <3>1, <3>2, <3>4
  <2> QED
    BY <2>1, <2>2
<1>4. Drifts!FileAgrees'
  <2> SUFFICES ASSUME NEW u \in Drifts!Topics, Drifts!Busy(u)' = {}, u \notin crossed'
               PROVE  Drifts!Known(u)' = settings'[u]
    BY DEF Drifts!FileAgrees
  <2>1. \A q \in Callers : patch'[q].topic # u
    BY DEF Drifts!Busy
  <2>2. u # t /\ \A q \in Callers : patch[q].topic # u
    BY <1>1, <2>1, PatchFacts, DriftConstants
  <2>3. Drifts!Known(u) = settings[u]
    BY <2>2, FilesByTopic
  <2> QED
    BY <2>2, <2>3 DEF Drifts!Known
<1> QED
  BY <1>2, <1>3, <1>4 DEF FileInv

\* And after a request has gone on, or has ended.
LEMMA StepFiles ==
  ASSUME FileInv, NEW p \in Callers, NEW w, patch[p].pc # "idle", patch' = [patch EXCEPT ![p] = w],
         PatchTyped(w), settings' \in Contents, crossed' \subseteq Drifts!Topics,
         DOMAIN file' = Drifts!Topics, file' = [u \in Drifts!Topics |-> file'[u]],
         file'[patch[p].topic] \in Holding(patch[p].topic) \cup {None},
         \A u \in Drifts!Topics : u # patch[p].topic =>
            file'[u] = file[u] /\ settings'[u] = settings[u] /\ (u \in crossed' <=> u \in crossed),
         w.pc # "idle" => /\ w.topic = patch[p].topic /\ (w.sound => patch[p].sound)
                          /\ w.pc = "store" /\ w.sound /\ w.topic = "tune" =>
                                \A f \in Drifts!Fields \ w.todo : w.new["tune"][f] = settings'.tune[f]
                          /\ w.pc = "write" => w.new[w.topic] = settings'[w.topic] \/ ~w.sound,
         w.pc = "idle" /\ patch[p].topic \notin crossed' =>
            file'[patch[p].topic] = settings'[patch[p].topic] /\ file'[patch[p].topic] # None
  PROVE  FileInv'
<1> DEFINE t == patch[p].topic
<1>1. t \in Drifts!Topics /\ DOMAIN patch = Callers
  BY PatchFacts
<1>2. /\ DOMAIN patch' = Callers /\ patch' = [q \in Callers |-> patch'[q]] /\ patch'[p] = w
      /\ \A q \in Callers : q # p => patch'[q] = patch[q]
  BY <1>1
<1>3. SettingsFit'
  <2>1. \A q \in Callers : PatchTyped(patch'[q])
    BY <1>2, PatchFacts
  <2>2. \A u \in Drifts!Topics : file'[u] \in Holding(u) \cup {None}
    BY DEF FileInv, SettingsFit
  <2> QED
    BY <1>2, <2>1, <2>2 DEF SettingsFit, PatchTyped, Holding
<1>4. LoneFits'
  <2> SUFFICES ASSUME NEW q \in Callers, patch'[q].pc # "idle", patch'[q].sound
               PROVE  /\ \A r \in Callers : patch'[r].topic = patch'[q].topic => r = q
                      /\ patch'[q].pc = "store" => StoringFits(patch[q])'
                      /\ patch'[q].pc = "write" => patch'[q].new[patch'[q].topic] = settings'[patch'[q].topic]
    BY DEF LoneFits
  <2>0. w.topic = t \/ w.topic = None
    BY DEF PatchTyped
  <2>1. CASE q = p
    <3>1. w.topic = t /\ patch[p].sound
      BY <1>2, <2>1
    <3>2. \A r \in Callers : patch[r].topic = t => r = p
      BY <3>1 DEF FileInv, LoneFits
    <3>3. w.pc = "store" => StoringFits(patch[p])'
      BY <1>2, <2>1 DEF StoringFits
    <3> QED
      BY <1>2, <2>1, <3>1, <3>2, <3>3
  <2>2. CASE q # p
    <3>1. /\ patch'[q] = patch[q] /\ patch[q].pc # "idle" /\ patch[q].sound /\ patch[q].topic \in Drifts!Topics
      BY <1>2, <2>2, PatchFacts
    <3>2. /\ \A r \in Callers : patch[r].topic = patch[q].topic => r = q
          /\ patch[q].pc = "store" => StoringFits(patch[q])
          /\ patch[q].pc = "write" => patch[q].new[patch[q].topic] = settings[patch[q].topic]
      BY <3>1 DEF FileInv, LoneFits
    <3>3. patch[q].topic # t /\ patch[q].topic # None
      BY <2>2, <3>1, <3>2, DriftConstants
    <3>4. patch[q].topic = "tune" => settings'.tune = settings.tune
      BY <3>1, <3>3
    <3>5. patch[q].pc = "store" => StoringFits(patch[q])'
      BY <3>1, <3>2, <3>4 DEF StoringFits
    <3> QED
      BY <1>2, <2>0, <3>1, <3>2, <3>3, <3>5
  <2> QED
    BY <2>1, <2>2
<1>5. Drifts!FileAgrees'
  <2> SUFFICES ASSUME NEW u \in Drifts!Topics, Drifts!Busy(u)' = {}, u \notin crossed'
               PROVE  Drifts!Known(u)' = settings'[u]
    BY DEF Drifts!FileAgrees
  <2>1. \A q \in Callers : patch'[q].topic # u
    BY DEF Drifts!Busy
  <2>2. CASE u = t
    <3>1. w.pc = "idle"
      BY <1>2, <2>1, <2>2
    <3> QED
      BY <2>2, <3>1 DEF Drifts!Known
  <2>3. CASE u # t
    <3>1. \A q \in Callers : patch[q].topic # u
      BY <1>2, <2>1, <2>3
    <3>2. Drifts!Known(u) = settings[u]
      BY <2>3, <3>1, FilesByTopic
    <3> QED
      BY <2>3, <3>2 DEF Drifts!Known
  <2> QED
    BY <2>2, <2>3
<1> QED
  BY <1>3, <1>4, <1>5 DEF FileInv

\* What does not touch them leaves them.
LEMMA FilesStay ==
  ASSUME FileInv, UNCHANGED <<settings, file, patch, crossed>>
  PROVE  FileInv'
<1>1. FileInv
  OBVIOUS
<1>2. SettingsFit'
  BY <1>1 DEF FileInv, SettingsFit, PatchTyped, Holding, Contents
<1>3. LoneFits'
  BY <1>1 DEF FileInv, LoneFits, StoringFits
<1>4. Drifts!FileAgrees'
  BY <1>1 DEF FileInv, Drifts!FileAgrees, Drifts!Busy, Drifts!Known
<1> QED
  BY <1>2, <1>3, <1>4 DEF FileInv

\* The detector's pass goes on while nothing it compares changes; a change spoils it.
LEMMA DetectorStays ==
  ASSUME DetectorInv, UNCHANGED <<shown, detector>>, actual' \in Contents,
         calm' => calm /\ settings' = settings /\ mounted' = mounted
                  /\ actual'.scn = actual.scn /\ actual'.tune = actual.tune
  PROVE  DetectorInv'
<1>1. CASE ~calm'
  BY <1>1 DEF DetectorInv, Contents
<1>2. CASE calm'
  BY <1>2 DEF DetectorInv, Contents, Drifts!Drifted
<1> QED
  BY <1>1, <1>2

\* So does the run of the script while no file is written.
LEMMA ScriptStays ==
  ASSUME ScriptInv, UNCHANGED <<script, actual>>,
         settled' => settled /\ settings' = settings /\ file' = file /\ crossed \subseteq crossed'
  PROVE  ScriptInv'
<1>1. CASE ~settled'
  BY <1>1 DEF ScriptInv
<1>2. CASE settled'
  BY <1>2 DEF ScriptInv, Drifts!Known
<1> QED
  BY <1>1, <1>2

\* A request begins, and nothing else has happened: not even to what the detector or the
\* script rely on.
LEMMA QuietBegin ==
  ASSUME DriftInv, NEW p \in Callers, NEW t \in Drifts!Topics, NEW pc \in {"store", "rows"}, NEW new,
         NEW todo, NEW good \in BOOLEAN, patch[p].pc = "idle", pc = "rows" => t = "white" /\ new = None,
         pc = "store" => /\ new \in Holding(t)
                         /\ \/ t = "scn" /\ todo = {"scn"}
                            \/ t = "tune" /\ todo \subseteq Drifts!Fields,
         Drifts!Begin(p, pc, t, new, todo, good),
         good /\ t = "tune" => \A f \in Drifts!Fields \ todo : new[f] = settings.tune[f],
         UNCHANGED <<settings, file, actual, mounted, shown, detector, script, crossed, calm, settled>>
  PROVE  DriftInv'
<1>1. settings' \in Contents /\ actual' \in Contents
  BY DEF DriftInv, FileInv, SettingsFit, DetectorInv, Contents
<1>2. FileInv'
  BY <1>1, BeginFiles DEF DriftInv
<1>3. DetectorInv'
  BY <1>1, DetectorStays DEF DriftInv
<1>4. ScriptInv'
  BY ScriptStays DEF DriftInv
<1> QED
  BY <1>2, <1>3, <1>4 DEF DriftInv

\* PATCH of a scenario.
LEMMA PatchScenarioKeeps ==
  ASSUME DriftInv, NEW p \in Callers, NEW s \in Scenarios, Drifts!PatchScenario(p, s)
  PROVE  DriftInv'
<1>1. PICK read \in {settings.scn, {}} : \E on \in {read \cup {s}, read \ {s}} :
                  Drifts!Begin(p, "store", "scn", on, {"scn"}, TRUE)
  BY DEF Drifts!PatchScenario
<1>2. /\ patch[p].pc = "idle"
      /\ UNCHANGED <<settings, file, actual, mounted, shown, detector, script, crossed, calm, settled>>
  BY DEF Drifts!PatchScenario, Drifts!Still
<1>3. settings.scn \subseteq Scenarios
  BY DEF DriftInv, FileInv, SettingsFit, Contents
<1>a. PICK on \in {read \cup {s}, read \ {s}} : Drifts!Begin(p, "store", "scn", on, {"scn"}, TRUE)
  BY <1>1
<1>4. on \in Holding("scn") /\ "scn" \in Drifts!Topics
  BY <1>a, <1>3, DriftConstants DEF Holding
<1> QED
  BY <1>2, <1>4, <1>a, QuietBegin

\* PATCH of the thresholds.
LEMMA PatchTuningKeeps ==
  ASSUME DriftInv, NEW p \in Callers, NEW fields \in SUBSET Drifts!Fields, NEW v \in Thresholds,
         Drifts!PatchAppSecTuning(p, fields, v)
  PROVE  DriftInv'
<1> DEFINE read(lost) == Drifts!ReadTuning(lost)
           todo(lost) == {f \in fields : read(lost)[f] # v}
           new(lost) == [f \in Drifts!Fields |-> IF f \in fields THEN v ELSE read(lost)[f]]
<1>1. /\ patch[p].pc = "idle"
      /\ UNCHANGED <<settings, file, actual, mounted, shown, detector, script, crossed, calm, settled>>
  BY DEF Drifts!PatchAppSecTuning, Drifts!Still
<1>2. PICK lost \in SUBSET Drifts!Fields : Drifts!Begin(p, "store", "tune", new(lost), todo(lost), lost = {})
  BY DEF Drifts!PatchAppSecTuning
<1>3. settings.tune \in [Drifts!Fields -> Thresholds]
  BY DEF DriftInv, FileInv, SettingsFit, Contents
<1>4. read(lost) \in [Drifts!Fields -> Thresholds] /\ (lost = {} => read(lost) = settings.tune)
  BY <1>3, DriftAssumption DEF Drifts!ReadTuning
<1>5. new(lost) \in Holding("tune") /\ "tune" \in Drifts!Topics /\ todo(lost) \subseteq Drifts!Fields
  BY <1>4, DriftConstants DEF Holding
<1>6. lost = {} => \A f \in Drifts!Fields \ todo(lost) : new(lost)[f] = settings.tune[f]
  BY <1>4
<1> HIDE DEF new, todo
<1> QED
  BY <1>1, <1>2, <1>5, <1>6, QuietBegin

\* Reconcile writes the file of the whitelist again.
LEMMA RewriteKeeps ==
  ASSUME DriftInv, NEW p \in Callers, Drifts!Reconcile(p)
  PROVE  DriftInv'
<1>1. /\ patch[p].pc = "idle" /\ Drifts!Begin(p, "rows", "white", None, {}, TRUE)
      /\ UNCHANGED <<settings, file, actual, mounted, shown, detector, script, crossed, calm, settled>>
  BY DEF Drifts!Reconcile, Drifts!Still
<1> QED
  BY <1>1, QuietBegin, DriftConstants

\* A row of the whitelist comes or goes.
LEMMA RowsKeeps ==
  ASSUME DriftInv, NEW p \in Callers, NEW rows \in SUBSET Entries, Drifts!Rows(p, rows, "rows", None)
  PROVE  DriftInv'
<1>1. /\ patch[p].pc = "idle" /\ Drifts!Begin(p, "rows", "white", None, {}, TRUE) /\ ~calm' /\ ~settled'
      /\ settings' = [settings EXCEPT !.white = rows]
      /\ UNCHANGED <<file, actual, mounted, shown, detector, script, crossed>>
  BY DEF Drifts!Rows, Drifts!Moved
<1>2. settings \in Contents /\ actual \in Contents
  BY DEF DriftInv, FileInv, SettingsFit, DetectorInv
<1>3. settings' \in Contents /\ \A u \in Drifts!Topics : u # "white" => settings'[u] = settings[u]
  BY <1>1, <1>2, DriftConstants DEF Contents
<1>4. actual' \in Contents
  BY <1>1, <1>2 DEF Contents
<1>5. FileInv'
  BY <1>1, <1>3, BeginFiles, DriftConstants DEF DriftInv
<1>6. DetectorInv'
  BY <1>1, <1>4, DetectorStays DEF DriftInv
<1>7. ScriptInv'
  BY <1>1, ScriptStays DEF DriftInv
<1> QED
  BY <1>5, <1>6, <1>7 DEF DriftInv

\* The rows are read for the file.
LEMMA ReadRowsKeeps ==
  ASSUME DriftInv, NEW p \in Callers, Drifts!ReadRows(p)
  PROVE  DriftInv'
<1> DEFINE v == [patch[p] EXCEPT !.pc = "write"]
           n == [patch[p].new EXCEPT !["white"] = settings.white]
           w == [v EXCEPT !.new = n]
<1>1. /\ patch[p].pc = "rows"
      /\ patch' = [patch EXCEPT ![p].pc = "write", ![p].new["white"] = settings.white]
      /\ UNCHANGED <<settings, file, actual, mounted, shown, detector, script, crossed, calm, settled>>
  BY DEF Drifts!ReadRows, Drifts!Still
<1>2. /\ PatchTyped(patch[p]) /\ patch[p].topic = "white" /\ DOMAIN patch[p].new = {"white"}
      /\ DOMAIN patch = Callers /\ DOMAIN patch[p] = {"pc", "topic", "new", "todo", "sound"}
  BY <1>1, PatchFacts DEF DriftInv, PatchTyped
<1>3. settings' \in Contents /\ actual' \in Contents /\ settings.white \in SUBSET Entries
  BY <1>1 DEF DriftInv, FileInv, SettingsFit, DetectorInv, Contents
<1>4. DOMAIN v = {"pc", "topic", "new", "todo", "sound"} /\ v.pc = "write" /\ v.topic = "white" /\ v.new = patch[p].new
      /\ v.sound = patch[p].sound
  BY <1>2
<1>5. DOMAIN n = {"white"} /\ n["white"] = settings.white
  BY <1>2
<1>6. patch' = [patch EXCEPT ![p] = w]
  <2> DEFINE a == [patch EXCEPT ![p] = v]
  <2>1. patch' = [a EXCEPT ![p].new["white"] = settings.white]
    BY <1>1
  <2>2. DOMAIN a = Callers /\ a[p] = v /\ \A q \in Callers : q # p => a[q] = patch[q]
    BY <1>2
  <2> HIDE DEF a, v
  <2>3. [a[p].new EXCEPT !["white"] = settings.white] = n
    BY <1>4, <2>2
  <2>4. patch' = [a EXCEPT ![p] = [a[p] EXCEPT !.new = n]]
    BY <2>1, <2>3
  <2> HIDE DEF n
  <2>5. patch' = [a EXCEPT ![p] = w]
    BY <2>2, <2>4
  <2> HIDE DEF w
  <2> QED
    BY <1>2, <2>5 DEF a
<1> HIDE DEF v, n
<1>7. /\ DOMAIN w = {"pc", "topic", "new", "todo", "sound"} /\ w.pc = "write" /\ w.topic = "white" /\ w.new = n
      /\ w.sound = patch[p].sound
  BY <1>4
<1> HIDE DEF w
<1>8. settings.white \in Holding("white") /\ settings.white # None /\ "white" \in Drifts!Topics
  BY <1>3, DriftConstants DEF Holding
<1>9. PatchTyped(w)
  <2>1. w.sound \in BOOLEAN
    BY <1>1, <1>2, <1>7, DriftConstants DEF PatchTyped
  <2> QED
    BY <1>5, <1>7, <1>8, <2>1 DEF PatchTyped
<1>10. settings'["white"] = settings.white
  BY <1>1
<1>11. /\ crossed' \subseteq Drifts!Topics /\ DOMAIN file' = Drifts!Topics
       /\ file' = [u \in Drifts!Topics |-> file'[u]] /\ file'["white"] \in Holding("white") \cup {None}
  BY <1>1, <1>8 DEF DriftInv, FileInv, SettingsFit
<1>12. FileInv'
  <2>1. /\ patch[p].pc # "idle" /\ FileInv /\ \A u \in Drifts!Topics : u # "white" =>
                 file'[u] = file[u] /\ settings'[u] = settings[u] /\ (u \in crossed' <=> u \in crossed)
    <3>1. patch[p].pc = "rows" /\ UNCHANGED <<settings, file, crossed>>
      BY DEF Drifts!ReadRows
    <3> HIDE DEF w
    <3> QED
      BY <3>1 DEF DriftInv
  <2>2. /\ w.topic = patch[p].topic /\ w.pc # "idle" /\ w.sound = patch[p].sound
        /\ w.new[w.topic] = settings'[w.topic]
    BY <1>2, <1>5, <1>7, <1>10
  <2>3. file'[patch[p].topic] \in Holding(patch[p].topic) \cup {None}
    BY <1>2, <1>11
  <2>4. \A u \in Drifts!Topics : u # patch[p].topic =>
                 file'[u] = file[u] /\ settings'[u] = settings[u] /\ (u \in crossed' <=> u \in crossed)
    BY <1>2, <2>1
  <2> QED
    BY <1>3, <1>6, <1>9, <1>11, <2>1, <2>2, <2>3, <2>4, StepFiles
<1>13. DetectorInv'
  BY <1>1, <1>3, DetectorStays DEF DriftInv
<1>14. ScriptInv'
  BY <1>1, ScriptStays DEF DriftInv
<1> QED
  BY <1>12, <1>13, <1>14 DEF DriftInv

\* A setting is stored, or, of the thresholds, is not and nobody knows.
LEMMA UpsertKeeps ==
  ASSUME DriftInv, NEW p \in Callers, NEW f, NEW good \in BOOLEAN, Drifts!Upsert(p, f, good), settings' \in Contents,
         \A u \in Drifts!Topics : u # patch[p].topic => settings'[u] = settings[u],
         calm' => calm /\ settings' = settings, settled' => settled /\ settings' = settings,
         good => patch[p].sound,
         good => \/ patch[p].topic = "scn" /\ settings'["scn"] = patch[p].new["scn"]
                 \/ /\ patch[p].topic = "tune" /\ f \in Drifts!Fields
                    /\ settings'.tune = [settings.tune EXCEPT ![f] = patch[p].new["tune"][f]]
  PROVE  DriftInv'
<1> DEFINE t == patch[p].topic
           left == patch[p].todo \ {f}
           pc == IF patch[p].todo = {f} THEN "write" ELSE "store"
           w == [patch[p] EXCEPT !.todo = left, !.sound = good, !.pc = pc]
<1>1. /\ patch[p].pc = "store" /\ f \in patch[p].todo /\ patch' = [patch EXCEPT ![p] = w]
      /\ UNCHANGED <<file, actual, mounted, shown, detector, script, crossed>>
  BY DEF Drifts!Upsert
<1>2. /\ PatchTyped(patch[p]) /\ t \in Drifts!Topics /\ DOMAIN patch[p].new = {t}
      /\ \/ t = "scn" /\ patch[p].todo = {"scn"}
         \/ t = "tune" /\ patch[p].todo \subseteq Drifts!Fields
      /\ DOMAIN patch[p] = {"pc", "topic", "new", "todo", "sound"} /\ patch[p].new[t] \in Holding(t)
      /\ patch[p].new[t] # None
  BY <1>1, PatchFacts, DriftConstants DEF DriftInv, PatchTyped
<1>3. /\ DOMAIN w = {"pc", "topic", "new", "todo", "sound"} /\ w.pc = pc /\ w.topic = t
      /\ w.new = patch[p].new /\ w.todo = left /\ w.sound = good
  BY <1>2
<1>4. /\ pc \in {"store", "write"} /\ (pc = "write" <=> left = {})
      /\ pc = "store" => t = "tune" /\ left \subseteq Drifts!Fields
  BY <1>1, <1>2
<1> HIDE DEF w, pc
<1>5. PatchTyped(w)
  BY <1>2, <1>3, <1>4 DEF PatchTyped
<1>6. /\ crossed' \subseteq Drifts!Topics /\ DOMAIN file' = Drifts!Topics
      /\ file' = [u \in Drifts!Topics |-> file'[u]] /\ file'[t] \in Holding(t) \cup {None}
  BY <1>1, <1>2 DEF DriftInv, FileInv, SettingsFit
<1>7. ASSUME good, t = "tune"
      PROVE  \A g \in Drifts!Fields \ left : patch[p].new["tune"][g] = settings'.tune[g]
  <2>1. StoringFits(patch[p])
    BY <1>1, <1>7 DEF DriftInv, FileInv, LoneFits
  <2>2. settings.tune \in [Drifts!Fields -> Thresholds]
    BY DEF DriftInv, FileInv, SettingsFit, Contents
  <2>3. f \in Drifts!Fields /\ settings'.tune = [settings.tune EXCEPT ![f] = patch[p].new["tune"][f]]
    BY <1>7
  <2>4. ASSUME NEW g \in Drifts!Fields \ left PROVE patch[p].new["tune"][g] = settings'.tune[g]
    <3>1. CASE g = f
      BY <2>2, <2>3, <3>1
    <3>2. CASE g # f
      BY <1>7, <2>1, <2>2, <2>3, <3>2 DEF StoringFits
    <3> QED
      BY <3>1, <3>2
  <2> QED
    BY <2>4
<1>8. ASSUME good, left = {} PROVE patch[p].new[t] = settings'[t]
  <2>1. CASE t = "scn"
    BY <1>8, <2>1
  <2>2. CASE t = "tune"
    <3>1. \A g \in Drifts!Fields : patch[p].new["tune"][g] = settings'.tune[g]
      BY <1>7, <1>8, <2>2
    <3>2. patch[p].new["tune"] \in [Drifts!Fields -> Thresholds] /\ settings'.tune \in [Drifts!Fields -> Thresholds]
      BY <1>2, <2>2 DEF Holding, Contents
    <3>3. patch[p].new["tune"] = settings'.tune
      BY <3>1, <3>2
    <3> QED
      BY <2>2, <3>3
  <2> QED
    BY <1>2, <2>1, <2>2
<1>9. /\ w.sound => patch[p].sound
      /\ w.pc = "store" /\ w.sound /\ w.topic = "tune" =>
            \A g \in Drifts!Fields \ w.todo : w.new["tune"][g] = settings'.tune[g]
      /\ w.pc = "write" => w.new[w.topic] = settings'[w.topic] \/ ~w.sound
  BY <1>3, <1>4, <1>7, <1>8
<1> HIDE DEF t, left
<1>10. FileInv'
  BY <1>1, <1>2, <1>3, <1>4, <1>5, <1>6, <1>9, StepFiles DEF DriftInv, t
<1>11. actual' \in Contents
  BY <1>1 DEF DriftInv, DetectorInv, Contents
<1>12. DetectorInv' /\ ScriptInv'
  BY <1>1, <1>11, DetectorStays, ScriptStays DEF DriftInv
<1> QED
  BY <1>10, <1>12 DEF DriftInv

\* The disabled scenarios are stored.
LEMMA StoreScenariosKeeps ==
  ASSUME DriftInv, NEW p \in Callers, Drifts!StoreScenarios(p)
  PROVE  DriftInv'
<1> DEFINE new == patch[p].new["scn"]
<1>1. /\ patch[p].pc = "store" /\ "scn" \in patch[p].todo /\ Drifts!Upsert(p, "scn", patch[p].sound)
      /\ settings' = [settings EXCEPT !.scn = new] /\ ~calm' /\ ~settled'
  BY DEF Drifts!StoreScenarios, Drifts!Upsert, Drifts!Moved
<1>2. patch[p].topic = "scn" /\ new \in SUBSET Scenarios /\ patch[p].sound \in BOOLEAN
  BY <1>1, PatchFacts, DriftConstants DEF DriftInv, PatchTyped, Holding
<1> HIDE DEF new
<1>3. settings \in Contents
  BY DEF DriftInv, FileInv, SettingsFit
<1>4. /\ settings' \in Contents /\ settings'["scn"] = new
      /\ \A u \in Drifts!Topics : u # "scn" => settings'[u] = settings[u]
  BY <1>1, <1>2, <1>3, DriftConstants DEF Contents
<1> QED
  BY <1>1, <1>2, <1>4, UpsertKeeps DEF new

\* A threshold is stored, or its statement fails.
LEMMA ThresholdKeeps ==
  ASSUME DriftInv, NEW p \in Callers, NEW f \in Drifts!Fields,
         Drifts!StoreThreshold(p, f) \/ Drifts!LoseThreshold(p, f)
  PROVE  DriftInv'
<1>1. settings \in Contents /\ settings.tune \in [Drifts!Fields -> Thresholds]
  BY DEF DriftInv, FileInv, SettingsFit, Contents
<1>2. CASE Drifts!StoreThreshold(p, f)
  <2> DEFINE new == patch[p].new["tune"]
             n == [settings.tune EXCEPT ![f] = new[f]]
  <2>1. /\ patch[p].pc = "store" /\ f \in patch[p].todo /\ Drifts!Upsert(p, f, patch[p].sound)
        /\ settings' = [settings EXCEPT !.tune[f] = new[f]] /\ ~calm' /\ ~settled'
    BY <1>2 DEF Drifts!StoreThreshold, Drifts!Upsert, Drifts!Moved
  <2>2. patch[p].topic = "tune" /\ new \in [Drifts!Fields -> Thresholds] /\ patch[p].sound \in BOOLEAN
    BY <2>1, PatchFacts, DriftConstants DEF DriftInv, PatchTyped, Holding
  <2>3. n \in [Drifts!Fields -> Thresholds] /\ settings' = [settings EXCEPT !.tune = n]
    BY <1>1, <2>1, <2>2
  <2> HIDE DEF new, n
  <2>4. /\ settings' \in Contents /\ settings'.tune = n
        /\ \A u \in Drifts!Topics : u # "tune" => settings'[u] = settings[u]
    BY <1>1, <2>3, DriftConstants DEF Contents
  <2> QED
    BY <2>1, <2>2, <2>4, UpsertKeeps DEF n, new
<1>3. CASE Drifts!LoseThreshold(p, f)
  <2>1. Drifts!Upsert(p, f, FALSE) /\ UNCHANGED <<settings, calm, settled>>
    BY <1>3 DEF Drifts!LoseThreshold, Drifts!Still
  <2>2. settings' \in Contents
    BY <1>1, <2>1 DEF Contents
  <2> QED
    BY <2>1, <2>2, UpsertKeeps
<1> QED
  BY <1>2, <1>3

\* No request.
LEMMA IdlePatch == PatchTyped(Drifts!Idle) /\ Drifts!Idle.pc = "idle" /\ Drifts!Idle.topic = None
BY DEF PatchTyped, Drifts!Idle

\* The file is replaced: by what the database holds, if the request was alone.
LEMMA WriteFileKeeps ==
  ASSUME DriftInv, NEW p \in Callers, Drifts!WriteFile(p)
  PROVE  DriftInv'
<1> DEFINE t == patch[p].topic
           new == patch[p].new[t]
<1>1. /\ patch[p].pc = "write" /\ file' = [file EXCEPT ![t] = new] /\ patch' = [patch EXCEPT ![p] = Drifts!Idle]
      /\ crossed' = (IF patch[p].sound THEN crossed \ {t} ELSE crossed \cup {t})
      /\ calm' = calm /\ ~settled' /\ UNCHANGED <<settings, actual, mounted, shown, detector, script>>
  BY DEF Drifts!WriteFile, Drifts!Replace, Drifts!End
<1>2. t \in Drifts!Topics /\ new \in Holding(t) /\ new # None
  BY <1>1, PatchFacts, DriftConstants DEF DriftInv, PatchTyped
<1>3. settings' \in Contents /\ actual' \in Contents
  BY <1>1 DEF DriftInv, FileInv, SettingsFit, DetectorInv, Contents
<1>4. /\ DOMAIN file = Drifts!Topics /\ crossed \subseteq Drifts!Topics
      /\ patch[p].sound => new = settings[t]
  BY <1>1 DEF DriftInv, FileInv, SettingsFit, LoneFits
<1> HIDE DEF t, new
<1>5. /\ DOMAIN file' = Drifts!Topics /\ file' = [u \in Drifts!Topics |-> file'[u]] /\ file'[t] = new
      /\ \A u \in Drifts!Topics : u # t => file'[u] = file[u]
  BY <1>1, <1>2, <1>4
<1>6. /\ crossed' \subseteq Drifts!Topics
      /\ \A u \in Drifts!Topics : u # t => (u \in crossed' <=> u \in crossed)
      /\ t \notin crossed' => patch[p].sound
  BY <1>1, <1>2, <1>4
<1>7. FileInv'
  BY <1>1, <1>2, <1>3, <1>4, <1>5, <1>6, IdlePatch, StepFiles DEF DriftInv, t
<1>8. DetectorInv'
  BY <1>1, <1>3, DetectorStays DEF DriftInv
<1>9. ScriptInv'
  BY <1>1, ScriptStays DEF DriftInv
<1> QED
  BY <1>7, <1>8, <1>9 DEF DriftInv

\* A write that failed.
LEMMA FailKeeps ==
  ASSUME DriftInv, NEW p \in Callers, Drifts!Fail(p)
  PROVE  DriftInv'
<1> DEFINE t == patch[p].topic
<1>1. /\ patch[p].pc # "idle" /\ patch' = [patch EXCEPT ![p] = Drifts!Idle] /\ crossed' = crossed \cup {t}
      /\ UNCHANGED <<settings, file, actual, mounted, shown, detector, script, calm, settled>>
  BY DEF Drifts!Fail, Drifts!End, Drifts!Still
<1>2. t \in Drifts!Topics
  BY <1>1, PatchFacts DEF DriftInv
<1>3. settings' \in Contents /\ actual' \in Contents
  BY <1>1 DEF DriftInv, FileInv, SettingsFit, DetectorInv, Contents
<1>4. /\ DOMAIN file = Drifts!Topics /\ crossed \subseteq Drifts!Topics
      /\ file = [u \in Drifts!Topics |-> file[u]] /\ file[t] \in Holding(t) \cup {None}
  BY <1>2 DEF DriftInv, FileInv, SettingsFit
<1> HIDE DEF t
<1>5. FileInv'
  BY <1>1, <1>2, <1>3, <1>4, IdlePatch, StepFiles DEF DriftInv, t
<1>6. DetectorInv'
  BY <1>1, <1>3, DetectorStays DEF DriftInv
<1>7. ScriptInv'
  BY <1>1, ScriptStays DEF DriftInv
<1> QED
  BY <1>5, <1>6, <1>7 DEF DriftInv

\* The detector's pass, and the volume that comes and goes.
LEMMA DetectorKeeps ==
  ASSUME DriftInv, Drifts!Check \/ Drifts!CheckScenarios \/ Drifts!CheckTuning \/ Drifts!Mount
  PROVE  DriftInv'
<1>1. UNCHANGED <<settings, file, actual, script, patch, crossed, settled>>
  BY DEF Drifts!Check, Drifts!CheckScenarios, Drifts!CheckTuning, Drifts!Mount
<1>2. FileInv' /\ ScriptInv'
  BY <1>1, FilesStay, ScriptStays DEF DriftInv
<1>3. /\ actual' \in Contents /\ shown \in [scn: BOOLEAN, tune: BOOLEAN]
      /\ calm => /\ detector.pc = "scn" => detector.read.scn = settings.scn
                 /\ detector.pc = "tune" => detector.read.tune = settings.tune
                 /\ detector.pc # "scn" => shown.scn = Drifts!Drifted(settings.scn)
  BY <1>1 DEF DriftInv, DetectorInv, Contents
<1>4. CASE Drifts!Check
  <2>1. PICK read \in {settings.scn, {}} : /\ detector' = [pc |-> "scn", read |-> [scn |-> read]]
                                          /\ calm' = (read = settings.scn) /\ UNCHANGED <<shown, mounted>>
    BY <1>4 DEF Drifts!Check
  <2>2. detector'.pc = "scn" /\ (calm' => detector'.read.scn = settings'.scn)
    BY <1>1, <2>1
  <2>3. DetectorInv'
    BY <1>3, <2>1, <2>2 DEF DetectorInv, Contents
  <2> QED
    BY <1>2, <2>3 DEF DriftInv
<1>5. CASE Drifts!CheckScenarios
  <2> DEFINE bad == Drifts!Drifted(detector.read.scn)
  <2>1. PICK lost \in BOOLEAN, unread \in SUBSET Drifts!Fields :
          /\ shown' = (IF lost THEN shown ELSE [shown EXCEPT !["scn"] = bad])
          /\ detector' = [pc |-> "tune", read |-> [tune |-> Drifts!ReadTuning(unread)]]
          /\ calm' = (calm /\ ~lost /\ unread = {})
    BY <1>5 DEF Drifts!CheckScenarios, Drifts!Verdict
  <2>2. bad \in BOOLEAN
    BY <1>3, Zenon DEF Drifts!Drifted, DriftInv, DetectorInv
  <2>3. detector.pc = "scn" /\ UNCHANGED mounted
    BY <1>5 DEF Drifts!CheckScenarios
  <2>4. calm => bad = Drifts!Drifted(settings.scn)
    BY <1>3, <2>3
  <2>5. Drifts!Drifted(settings.scn)' = Drifts!Drifted(settings.scn)
    BY <1>1, <2>3 DEF Drifts!Drifted
  <2>6. settings.tune \in [Drifts!Fields -> Thresholds]
    BY DEF DriftInv, FileInv, SettingsFit, Contents
  <2>7. unread = {} => Drifts!ReadTuning(unread) = settings.tune
    BY <2>6 DEF Drifts!ReadTuning
  <2>8. detector'.pc = "tune" /\ detector'.read.tune = Drifts!ReadTuning(unread)
    BY <2>1
  <2> HIDE DEF bad
  <2>9. shown' \in [scn: BOOLEAN, tune: BOOLEAN] /\ (~lost => shown'.scn = bad)
    BY <1>3, <2>1, <2>2
  <2>10. calm' => calm /\ ~lost /\ unread = {}
    BY <2>1
  <2>11. calm' => shown'.scn = Drifts!Drifted(settings.scn)' /\ detector'.read.tune = settings'.tune
    BY <1>1, <2>4, <2>5, <2>7, <2>8, <2>9, <2>10
  <2>12. DetectorInv'
    BY <1>3, <2>8, <2>9, <2>11 DEF DetectorInv
  <2> QED
    BY <1>2, <2>12 DEF DriftInv
<1>6. CASE Drifts!CheckTuning
  <2> DEFINE bad == mounted /\ actual.tune # detector.read.tune
  <2>1. PICK lost \in BOOLEAN : /\ shown' = (IF lost THEN shown ELSE [shown EXCEPT !["tune"] = bad])
                               /\ calm' = (calm /\ ~lost)
    BY <1>6 DEF Drifts!CheckTuning, Drifts!Verdict
  <2>2. bad \in BOOLEAN
    BY Zenon
  <2>3. detector.pc = "tune" /\ UNCHANGED mounted /\ detector'.pc = "idle"
    BY <1>6 DEF Drifts!CheckTuning
  <2>4. calm => bad = (mounted' /\ actual'.tune # settings'.tune) /\ shown.scn = Drifts!Drifted(settings.scn)
    BY <1>1, <1>3, <2>3
  <2>5. Drifts!Drifted(settings.scn)' = Drifts!Drifted(settings.scn)
    BY <1>1, <2>3 DEF Drifts!Drifted
  <2> HIDE DEF bad
  <2>6. /\ shown' \in [scn: BOOLEAN, tune: BOOLEAN] /\ shown'.scn = shown.scn
        /\ ~lost => shown'.tune = bad
    BY <1>3, <2>1, <2>2
  <2>7. calm' => calm /\ ~lost
    BY <2>1
  <2>8. DetectorInv'
    BY <1>3, <2>3, <2>4, <2>5, <2>6, <2>7 DEF DetectorInv
  <2> QED
    BY <1>2, <2>8 DEF DriftInv
<1>7. CASE Drifts!Mount
  <2>1. UNCHANGED <<shown, detector>> /\ ~calm'
    BY <1>7 DEF Drifts!Mount
  <2>2. DetectorInv'
    BY <1>3, <2>1, DetectorStays DEF DriftInv
  <2> QED
    BY <1>2, <2>2 DEF DriftInv
<1> QED
  BY <1>4, <1>5, <1>6, <1>7

\* What a file holds, or what was shipped.
LEMMA KnownHolds ==
  ASSUME FileInv
  PROVE  /\ Drifts!Known("scn") \in SUBSET Scenarios
         /\ Drifts!Known("tune") \in [Drifts!Fields -> Thresholds]
         /\ Drifts!Known("white") \in SUBSET Entries
BY DriftConstants DEF FileInv, SettingsFit, Drifts!Known, Drifts!Shipped, Holding

\* The script, step by step, or interrupted.
LEMMA ScriptKeeps ==
  ASSUME DriftInv, Drifts!Setup \/ Drifts!Regenerate \/ Drifts!RemoveScenarios \/ Drifts!WriteWhitelist
                   \/ Drifts!Interrupt
  PROVE  DriftInv'
<1>1. UNCHANGED <<settings, file, mounted, shown, detector, patch, crossed>>
  BY DEF Drifts!Setup, Drifts!Regenerate, Drifts!RemoveScenarios, Drifts!WriteWhitelist, Drifts!Interrupt
<1>2. FileInv' /\ FileInv
  BY <1>1, FilesStay DEF DriftInv
<1>3. actual \in [scn: SUBSET Scenarios, tune: [Drifts!Fields -> Thresholds], white: SUBSET Entries]
  BY DEF DriftInv, DetectorInv, Contents
<1>4. \A t \in Drifts!Topics : Drifts!Known(t)' = Drifts!Known(t)
  BY <1>1 DEF Drifts!Known
<1>5. {"scn", "tune", "white"} = Drifts!Topics
  BY DriftConstants
<1> DEFINE Frozen == \A t \in Drifts!Topics : t \notin crossed => Drifts!Known(t) = settings[t]
<1>6. Frozen => \A t \in Drifts!Topics : t \notin crossed' => Drifts!Known(t)' = settings'[t]
  BY <1>1, <1>4
<1>7. CASE Drifts!Setup
  <2>1. PICK s \in SUBSET Scenarios : actual' = [actual EXCEPT !.scn = s, !.tune = Drifts!Defaults]
    BY <1>7 DEF Drifts!Setup
  <2>2. script' = "tune" /\ ~calm' /\ settled' = (\A p \in Callers : patch[p].pc = "idle")
    BY <1>7 DEF Drifts!Setup
  <2>3. actual' \in Contents
    BY <1>3, <2>1, DriftConstants DEF Contents
  <2>4. DetectorInv'
    BY <1>1, <2>2, <2>3, DetectorStays DEF DriftInv
  <2>5. settled' => Frozen
    <3> SUFFICES ASSUME settled', NEW t \in Drifts!Topics, t \notin crossed
                 PROVE  Drifts!Known(t) = settings[t]
      OBVIOUS
    <3>1. \A p \in Callers : patch[p].pc = "idle"
      BY <2>2
    <3>2. \A p \in Callers : patch[p].topic # t
      BY <1>2, <3>1, PatchFacts, DriftConstants
    <3> QED
      BY <1>2, <3>2, FilesByTopic
  <2> HIDE DEF Frozen
  <2>6. ScriptInv'
    BY <1>6, <2>2, <2>5 DEF ScriptInv
  <2> QED
    BY <1>2, <2>4, <2>6 DEF DriftInv
<1>8. CASE Drifts!Regenerate
  <2>1. /\ script = "tune" /\ script' = "scn" /\ ~calm' /\ settled' = settled
        /\ actual' = [actual EXCEPT !.tune = Drifts!Known("tune")]
    BY <1>8 DEF Drifts!Regenerate, Drifts!Regenerated
  <2>2. actual' \in Contents /\ actual'.tune = Drifts!Known("tune")
    BY <1>2, <1>3, <2>1, KnownHolds DEF Contents
  <2>3. DetectorInv'
    BY <1>1, <2>1, <2>2, DetectorStays DEF DriftInv
  <2>4. settled' => Frozen
    BY <2>1 DEF DriftInv, ScriptInv
  <2>5. actual'.tune = Drifts!Known("tune")'
    BY <1>4, <1>5, <2>2
  <2> HIDE DEF Frozen
  <2>6. ScriptInv'
    BY <1>6, <2>1, <2>4, <2>5 DEF ScriptInv
  <2> QED
    BY <1>2, <2>3, <2>6 DEF DriftInv
<1>9. CASE Drifts!RemoveScenarios
  <2>1. script = "scn" /\ script' = "white" /\ ~calm'
    BY <1>9 DEF Drifts!RemoveScenarios
  <2>a. PICK kept \in SUBSET Drifts!Known("scn") :
          /\ actual' = [actual EXCEPT !.scn = actual.scn \ (Drifts!Known("scn") \ kept)]
          /\ settled' = (settled /\ kept = {})
    BY <1>9 DEF Drifts!RemoveScenarios
  <2>b. settled' => settled /\ kept = {}
    BY <2>a
  <2>2. /\ actual' \in Contents /\ actual'.tune = actual.tune
        /\ actual'.scn = actual.scn \ (Drifts!Known("scn") \ kept)
    BY <1>3, <2>a DEF Contents
  <2>3. DetectorInv'
    BY <1>1, <2>1, <2>2, DetectorStays DEF DriftInv
  <2>4. settled' => Frozen /\ actual.tune = Drifts!Known("tune")
    BY <2>1, <2>b DEF DriftInv, ScriptInv
  <2>5. settled' => actual'.scn \cap Drifts!Known("scn") = {}
    BY <2>2, <2>b
  <2>6. settled' => actual'.scn \cap Drifts!Known("scn")' = {} /\ actual'.tune = Drifts!Known("tune")'
    BY <1>4, <1>5, <2>2, <2>4, <2>5
  <2> HIDE DEF Frozen
  <2>7. ScriptInv'
    BY <1>6, <2>1, <2>4, <2>6 DEF ScriptInv
  <2> QED
    BY <1>2, <2>3, <2>7 DEF DriftInv
<1>10. CASE Drifts!WriteWhitelist
  <2>1. /\ script = "white" /\ script' = "done" /\ calm' = calm /\ settled' = settled
        /\ actual' = [actual EXCEPT !.white = Drifts!Known("white")]
    BY <1>10 DEF Drifts!WriteWhitelist
  <2>2. /\ actual' \in Contents /\ actual'.tune = actual.tune /\ actual'.scn = actual.scn
        /\ actual'.white = Drifts!Known("white")
    BY <1>2, <1>3, <2>1, KnownHolds DEF Contents
  <2>3. DetectorInv'
    BY <1>1, <2>1, <2>2, DetectorStays DEF DriftInv
  <2>4. settled' => Frozen /\ actual.tune = Drifts!Known("tune") /\ actual.scn \cap Drifts!Known("scn") = {}
    BY <2>1 DEF DriftInv, ScriptInv
  <2>5. /\ settled' => actual'.scn \cap Drifts!Known("scn")' = {} /\ actual'.tune = Drifts!Known("tune")'
        /\ actual'.white = Drifts!Known("white")'
    BY <1>4, <1>5, <2>2, <2>4
  <2> HIDE DEF Frozen
  <2>6. ScriptInv'
    BY <1>6, <2>1, <2>4, <2>5 DEF ScriptInv
  <2> QED
    BY <1>2, <2>3, <2>6 DEF DriftInv
<1>11. CASE Drifts!Interrupt
  <2>1. script' = "idle" /\ UNCHANGED <<actual, calm>>
    BY <1>11 DEF Drifts!Interrupt
  <2>2. DetectorInv'
    BY <1>1, <1>3, <2>1, DetectorStays DEF DriftInv, Contents
  <2>3. ScriptInv'
    BY <2>1 DEF ScriptInv
  <2> QED
    BY <1>2, <2>2, <2>3 DEF DriftInv
<1> QED
  BY <1>7, <1>8, <1>9, <1>10, <1>11

\* It holds before anything was disabled or tuned.
LEMMA DriftStarts == Drifts!Init => DriftInv
<1> SUFFICES ASSUME Drifts!Init PROVE DriftInv
  OBVIOUS
<1>1. /\ settings = [scn |-> {}, tune |-> Drifts!Defaults, white |-> {}]
      /\ file = [t \in Drifts!Topics |-> None]
      /\ actual = [scn |-> Scenarios, tune |-> Drifts!Defaults, white |-> {}]
      /\ shown = [scn |-> FALSE, tune |-> FALSE] /\ detector = [pc |-> "idle", read |-> None]
      /\ script = "idle" /\ patch = [p \in Callers |-> Drifts!Idle] /\ crossed = {} /\ ~calm
  BY DEF Drifts!Init
<1>2. settings \in Contents /\ actual \in Contents
  BY <1>1, DriftConstants DEF Contents
<1>3. SettingsFit
  BY <1>1, <1>2, IdlePatch DEF SettingsFit
<1>4. LoneFits
  BY <1>1, IdlePatch DEF LoneFits
<1>5. Drifts!FileAgrees
  <2>1. settings["scn"] = {} /\ settings["tune"] = Drifts!Defaults /\ settings["white"] = {}
    BY <1>1
  <2>2. \A t \in Drifts!Topics : Drifts!Known(t) = settings[t]
    BY <1>1, <2>1, DriftConstants DEF Drifts!Known, Drifts!Shipped
  <2> QED
    BY <2>2 DEF Drifts!FileAgrees
<1>6. shown \in [scn: BOOLEAN, tune: BOOLEAN]
  BY <1>1
<1>7. DetectorInv
  BY <1>1, <1>2, <1>6 DEF DetectorInv
<1>8. ScriptInv
  BY <1>1 DEF ScriptInv
<1> QED
  BY <1>3, <1>4, <1>5, <1>7, <1>8 DEF DriftInv, FileInv

\* Every step keeps it.
LEMMA DriftKeeps == DriftInv /\ [Drifts!Next]_Drifts!vars => DriftInv'
<1> SUFFICES ASSUME DriftInv, [Drifts!Next]_Drifts!vars PROVE DriftInv'
  OBVIOUS
<1>1. CASE UNCHANGED Drifts!vars
  <2>1. /\ UNCHANGED <<settings, file, actual, mounted, shown, detector, script, patch, crossed, calm, settled>>
    BY <1>1 DEF Drifts!vars
  <2>2. actual' \in Contents
    BY <2>1 DEF DriftInv, DetectorInv, Contents
  <2> QED
    BY <2>1, <2>2, FilesStay, DetectorStays, ScriptStays DEF DriftInv
<1>2. ASSUME NEW p \in Callers, NEW e \in Entries, Drifts!AddWhitelist(p, e) \/ Drifts!DeleteWhitelist(p, e)
      PROVE  DriftInv'
  <2>1. settings.white \in SUBSET Entries
    BY DEF DriftInv, FileInv, SettingsFit, Contents
  <2>2. settings.white \cup {e} \in SUBSET Entries /\ settings.white \ {e} \in SUBSET Entries
    BY <2>1
  <2> QED
    BY <1>2, <2>2, RowsKeeps DEF Drifts!AddWhitelist, Drifts!DeleteWhitelist
<1>3. ASSUME NEW p \in Callers,
             \/ \E s \in Scenarios : Drifts!PatchScenario(p, s)
             \/ \E fs \in SUBSET Drifts!Fields, v \in Thresholds : Drifts!PatchAppSecTuning(p, fs, v)
             \/ \E f \in Drifts!Fields : Drifts!StoreThreshold(p, f) \/ Drifts!LoseThreshold(p, f)
             \/ Drifts!Reconcile(p) \/ Drifts!ReadRows(p) \/ Drifts!StoreScenarios(p)
             \/ Drifts!WriteFile(p) \/ Drifts!Fail(p)
      PROVE  DriftInv'
  BY <1>3, PatchScenarioKeeps, PatchTuningKeeps, RewriteKeeps, ReadRowsKeeps, StoreScenariosKeeps, ThresholdKeeps, WriteFileKeeps,
     FailKeeps
<1> QED
  BY <1>1, <1>2, <1>3, DetectorKeeps, ScriptKeeps DEF Drifts!Next

\* And it says what the three ends are held to.
LEMMA DriftSays == DriftInv => SentinelsAgree
<1> SUFFICES ASSUME DriftInv
             PROVE  Drifts!TypeOK /\ Drifts!FileAgrees /\ Drifts!DriftIsShown /\ Drifts!RunClears
  BY DEF SentinelsAgree
<1>1. settings \in Contents /\ actual \in Contents /\ FileInv
  BY DEF DriftInv, FileInv, SettingsFit, DetectorInv
<1>2. Drifts!TypeOK
  <2>1. /\ settings.scn \subseteq Scenarios /\ settings.white \subseteq Entries
        /\ settings.tune \in [Drifts!Fields -> Thresholds]
        /\ actual.scn \subseteq Scenarios /\ actual.tune \in [Drifts!Fields -> Thresholds]
    BY <1>1 DEF Contents
  <2>2. \A p \in Callers : (patch[p].pc = "idle") = (patch[p].topic = None)
    BY <1>1, DriftConstants DEF FileInv, SettingsFit, PatchTyped
  <2>3. shown \in [scn: BOOLEAN, tune: BOOLEAN] /\ detector.pc \in {"idle", "scn", "tune"}
    BY DEF DriftInv, DetectorInv
  <2> QED
    BY <2>1, <2>2, <2>3, Zenon DEF Drifts!TypeOK
<1>3. Drifts!FileAgrees
  BY <1>1 DEF FileInv
<1>4. Drifts!DriftIsShown
  <2> SUFFICES ASSUME detector.pc = "idle", calm
               PROVE  shown = [scn |-> Drifts!Drifted(settings.scn),
                               tune |-> mounted /\ actual.tune # settings.tune]
    BY DEF Drifts!DriftIsShown
  <2> DEFINE a == Drifts!Drifted(settings.scn)
             b == mounted /\ actual.tune # settings.tune
  <2>1. shown \in [scn: BOOLEAN, tune: BOOLEAN] /\ shown.scn = a /\ shown.tune = b
    BY DEF DriftInv, DetectorInv
  <2> HIDE DEF a, b
  <2>2. shown = [scn |-> a, tune |-> b]
    BY <2>1
  <2> QED
    BY <2>2 DEF a, b
<1>5. Drifts!RunClears
  <2> SUFFICES ASSUME script = "done", settled
               PROVE  /\ "scn" \notin crossed => ~Drifts!Drifted(settings.scn)
                      /\ "tune" \notin crossed => actual.tune = settings.tune
                      /\ "white" \notin crossed => actual.white = settings.white
    BY DEF Drifts!RunClears
  <2>1. /\ \A t \in Drifts!Topics : t \notin crossed => Drifts!Known(t) = settings[t]
        /\ actual.tune = Drifts!Known("tune") /\ actual.scn \cap Drifts!Known("scn") = {}
        /\ actual.white = Drifts!Known("white")
    BY DEF DriftInv, ScriptInv
  <2>2. "scn" \in Drifts!Topics /\ "tune" \in Drifts!Topics /\ "white" \in Drifts!Topics
    BY DriftConstants
  <2>3. "scn" \notin crossed => settings.scn \cap actual.scn = {}
    BY <2>1, <2>2
  <2> QED
    BY <2>1, <2>2, <2>3 DEF Drifts!Drifted
<1> QED
  BY <1>2, <1>3, <1>4, <1>5

\* The AppSec sentinels: a file is what the settings say once the last request about it,
\* alone and with none of its statements or writes failed, is over; a difference is shown
\* after an undisturbed pass that could read and store; and a run of the script that could
\* remove leaves none (PatchScenario, PatchAppSecTuning, WriteWhitelistEntries, checkOnce,
\* setup-appsec.sh).
THEOREM SentinelsAgreeHolds == Drifts!Spec => []SentinelsAgree
BY DriftStarts, DriftKeeps, DriftSays, PTL DEF Drifts!Spec
----------------------------------------------------------------------------
(* The DNS providers.  What is stored of a provider has all that it        *)
(* requires, and so has what a request is about to store; what is stored   *)
(* is never taken away, so that a request that only switches a provider on *)
(* may rely on what it has seen.                                           *)

Fits(p, creds) == creds \in Credentials(p) /\ Issue!Valid(p, creds)

Blobs(p) == [key: Keys, creds: {creds \in Credentials(p) : Issue!Valid(p, creds)}]

RowFits(p, r) == r.on \in BOOLEAN /\ r.blob \in Blobs(p) \cup {None} /\ (r.on => r.blob # None)

\* A request: a PUT that has read, one that is going to write, or a save.
PutFits(w) ==
    /\ DOMAIN w = {"put", "sent", "seen", "on"} /\ w.put \in Issue!Providers
    /\ w.on \in BOOLEAN /\ (w.sent # None => w.sent \in Issue!Forms(w.put))
    /\ w.seen.blob # None => providers[w.put].blob # None

StoreFits(w) ==
    /\ DOMAIN w = {"store", "on", "creds"} /\ w.store \in Issue!Providers /\ w.on \in BOOLEAN
    /\ w.creds = None /\ w.on => providers[w.store].blob # None
    /\ w.creds # None => Fits(w.store, w.creds)

SaveFits(w) == DOMAIN w = {"save"} /\ w.save \in Issue!Providers

WorkFits(w) == w # None => PutFits(w) \/ StoreFits(w) \/ SaveFits(w)

\* A host with this provider can be rendered.
Renders(p) ==
    \/ providers[p].on /\ providers[p].blob # None /\ providers[p].blob.key = master
    \/ p = "cloudflare" /\ env

IssueTypes ==
    /\ DOMAIN providers = Issue!Providers /\ providers = [p \in Issue!Providers |-> providers[p]]
    /\ DOMAIN work = Callers /\ work = [c \in Callers |-> work[c]]
    /\ env \in BOOLEAN /\ sound \in BOOLEAN /\ master \in Keys
    /\ saved \in Issue!Providers \cup {None} /\ puts \in Nat /\ puts <= MaxPuts

IssueInv ==
    /\ IssueTypes
    /\ \A p \in Issue!Providers : RowFits(p, providers[p])
    /\ \A c \in Callers : WorkFits(work[c])
    /\ \A c, d \in Callers : Issue!Saving(c) /\ Issue!Saving(d) => c = d
    /\ sound => \A c \in Callers : Issue!Saving(c) => Renders(work[c].save)
    /\ sound /\ saved # None => (\E c \in Callers : Issue!Saving(c)) \/ Renders(saved)

\* No blob is None.
LEMMA BlobIsSome == \A p \in Issue!Providers : None \notin Blobs(p)
BY IssueAssumption DEF Blobs

\* The fields of a provider.
LEMMA ProviderFields ==
  /\ Issue!Providers = {"cloudflare", "route53"} /\ Issue!Fields("cloudflare") = {"token"}
  /\ \A p \in Issue!Providers : \A creds \in Credentials(p) : DOMAIN creds \subseteq Issue!Fields(p)
BY DEF Issue!Providers, Issue!Fields, Credentials

\* The legacy token becomes the credentials of its provider.
LEMMA ImportFits ==
  ASSUME NEW table, NEW e \in BOOLEAN, NEW k \in Keys,
         DOMAIN table = Issue!Providers, table = [p \in Issue!Providers |-> table[p]],
         \A p \in Issue!Providers : RowFits(p, table[p])
  PROVE  LET new == Issue!Imported(table, e, k) IN
         /\ DOMAIN new = Issue!Providers /\ new = [p \in Issue!Providers |-> new[p]]
         /\ \A p \in Issue!Providers :
               /\ RowFits(p, new[p])
               /\ new[p] = table[p] \/ (table[p].blob = None /\ new[p].blob # None /\ e /\ p = "cloudflare")
<1> DEFINE l == [f \in {"token"} |-> "legacy"]
           b == [key |-> k, creds |-> l]
           r == [on |-> TRUE, blob |-> b]
           new == Issue!Imported(table, e, k)
<1>1. l \in Credentials("cloudflare")
  <2>1. l \in [{"token"} -> Values \cup {"blank", "legacy"}] /\ {"token"} \in SUBSET Issue!Fields("cloudflare")
    BY ProviderFields
  <2> HIDE DEF l
  <2> QED
    BY <2>1 DEF Credentials
<1>2. Issue!Valid("cloudflare", l)
  BY ProviderFields DEF Issue!Valid, Issue!Required
<1> HIDE DEF l
<1>3. b \in Blobs("cloudflare") /\ b # None
  BY <1>1, <1>2, BlobIsSome, ProviderFields DEF Blobs
<1> HIDE DEF b
<1>4. RowFits("cloudflare", r) /\ r.blob # None
  BY <1>3 DEF RowFits
<1>5. new = table \/ (e /\ table["cloudflare"].blob = None /\ new = [table EXCEPT !["cloudflare"] = r])
  BY DEF Issue!Imported, b, l
<1> HIDE DEF r, new
<1>6. \A p \in Issue!Providers : new[p] = table[p]
         \/ (p = "cloudflare" /\ e /\ table[p].blob = None /\ new[p] = r)
  BY <1>5
<1>7. DOMAIN new = Issue!Providers /\ new = [p \in Issue!Providers |-> new[p]]
  BY <1>5
<1> QED
  BY <1>4, <1>6, <1>7 DEF new

\* Nothing is stored but the legacy token.
LEMMA IssueInitHolds == Issue!Init => IssueInv
<1> SUFFICES ASSUME Issue!Init PROVE IssueInv
  OBVIOUS
<1> DEFINE F == Issue!Fresh
<1>1. /\ env \in BOOLEAN /\ master \in Keys /\ providers = Issue!Imported(F, env, master)
      /\ saved = None /\ work = [c \in Callers |-> None] /\ sound = FALSE /\ puts = 0
  BY DEF Issue!Init
<1>2. /\ DOMAIN F = Issue!Providers /\ F = [p \in Issue!Providers |-> F[p]]
      /\ \A p \in Issue!Providers : RowFits(p, F[p])
  BY DEF Issue!Fresh, RowFits
<1> HIDE DEF F
<1>3. /\ DOMAIN providers = Issue!Providers /\ providers = [p \in Issue!Providers |-> providers[p]]
      /\ \A p \in Issue!Providers : RowFits(p, providers[p])
  BY <1>1, <1>2, ImportFits
<1>4. \A c \in Callers : work[c] = None
  BY <1>1
<1>5. DOMAIN work = Callers /\ work = [c \in Callers |-> work[c]]
  BY <1>1
<1>6. puts \in Nat /\ puts <= MaxPuts
  BY <1>1, IssueAssumption
<1>7. \A c \in Callers : WorkFits(work[c]) /\ ~Issue!Saving(c)
  BY <1>4 DEF WorkFits, Issue!Saving
<1>8. IssueTypes
  BY <1>1, <1>3, <1>5, <1>6, Zenon DEF IssueTypes
<1> QED
  BY <1>1, <1>3, <1>7, <1>8 DEF IssueInv

\* What is stored of a provider stays stored, and requests in progress keep what
\* they rely on.
LEMMA WorkStays ==
  ASSUME NEW w, WorkFits(w),
         \A p \in Issue!Providers : providers[p].blob # None => providers'[p].blob # None
  PROVE  WorkFits(w)'
BY DEF WorkFits, PutFits, StoreFits, SaveFits

\* The panel is started again.
LEMMA RestartKeeps ==
  ASSUME IssueInv, NEW e \in BOOLEAN, NEW k \in Keys, Issue!Restart(e, k) PROVE IssueInv'
<1>1. /\ puts < MaxPuts /\ puts' = puts + 1 /\ env' = e /\ master' = k
      /\ providers' = Issue!Imported(providers, e, k) /\ work' = [c \in Callers |-> None]
      /\ sound' = (sound /\ (env => e) /\ master = k /\ \A c \in Callers : ~Issue!Saving(c))
      /\ saved' = saved
  BY DEF Issue!Restart, Issue!Changed
<1>2. /\ DOMAIN providers' = Issue!Providers /\ providers' = [p \in Issue!Providers |-> providers'[p]]
      /\ \A p \in Issue!Providers :
           /\ RowFits(p, providers'[p])
           /\ providers'[p] = providers[p] \/ (providers[p].blob = None /\ e /\ p = "cloudflare")
  BY <1>1, ImportFits DEF IssueInv, IssueTypes
<1>3. \A c \in Callers : work'[c] = None
  BY <1>1
<1>4. \A c \in Callers : WorkFits(work[c])' /\ ~Issue!Saving(c)'
  BY <1>3 DEF WorkFits, Issue!Saving
<1>5. sound' \in BOOLEAN /\ (sound' => sound /\ (env => e) /\ master = k /\ \A c \in Callers : ~Issue!Saving(c))
  BY <1>1, Zenon
<1>6. IssueTypes'
  <2>1. puts' \in Nat /\ puts' <= MaxPuts
    BY <1>1, IssueAssumption DEF IssueInv, IssueTypes
  <2>2. DOMAIN work' = Callers /\ work' = [c \in Callers |-> work'[c]]
    BY <1>1
  <2>3. env' \in BOOLEAN /\ master' \in Keys /\ saved' \in Issue!Providers \cup {None}
    BY <1>1 DEF IssueInv, IssueTypes
  <2> QED
    BY <1>2, <1>5, <2>1, <2>2, <2>3, Zenon DEF IssueTypes
<1>7. ASSUME sound', saved # None PROVE Renders(saved)'
  <2>1. Renders(saved) /\ saved \in Issue!Providers /\ (env => e) /\ master = k
    BY <1>5, <1>7 DEF IssueInv, IssueTypes
  <2> QED
    BY <1>1, <1>2, <2>1 DEF Renders
<1>8. \A p \in Issue!Providers : RowFits(p, providers[p])'
  BY <1>2 DEF RowFits
<1> QED
  BY <1>1, <1>4, <1>6, <1>7, <1>8 DEF IssueInv

\* A request of one caller goes on to w, which is no save, and nothing else changes.
LEMMA RequestKeeps ==
  ASSUME IssueInv, NEW c \in Callers, NEW w, WorkFits(w), w # None => "save" \notin DOMAIN w,
         ~Issue!Saving(c), work' = [work EXCEPT ![c] = w],
         UNCHANGED <<providers, env, master, saved, sound>>, puts' \in Nat, puts' <= MaxPuts
  PROVE  IssueInv'
<1>1. /\ DOMAIN work' = Callers /\ work' = [d \in Callers |-> work'[d]]
      /\ work'[c] = w /\ \A d \in Callers : d = c \/ work'[d] = work[d]
  BY DEF IssueInv, IssueTypes
<1>2. IssueTypes'
  <2>1. IssueTypes
    BY DEF IssueInv
  <2> QED
    BY <1>1, <2>1, Zenon DEF IssueTypes
<1>3. \A d \in Callers : WorkFits(work'[d])
  BY <1>1 DEF IssueInv
<1>4. \A d \in Callers : WorkFits(work[d])'
  BY <1>3 DEF WorkFits, PutFits, StoreFits, SaveFits
<1>5. \A d \in Callers : /\ Issue!Saving(d)' <=> Issue!Saving(d)
                         /\ Issue!Saving(d) => work'[d] = work[d]
  BY <1>1 DEF Issue!Saving
<1>6. \A p \in Issue!Providers : RowFits(p, providers[p])' /\ (Renders(p)' <=> Renders(p))
  BY DEF IssueInv, RowFits, Renders
<1>7. \A d \in Callers : Issue!Saving(d) => work[d].save \in Issue!Providers
  BY DEF IssueInv, WorkFits, PutFits, StoreFits, SaveFits, Issue!Saving
<1>8. saved # None => saved \in Issue!Providers
  BY DEF IssueInv, IssueTypes
<1>9. ASSUME sound', NEW d \in Callers, Issue!Saving(d)' PROVE Renders(work[d].save)'
  <2>1. Issue!Saving(d) /\ work'[d] = work[d] /\ Renders(work[d].save)
    BY <1>5, <1>9 DEF IssueInv
  <2> QED
    BY <2>1 DEF Renders
<1>10. sound' /\ saved' # None => (\E d \in Callers : Issue!Saving(d)') \/ Renders(saved)'
  BY <1>5, <1>6, <1>8, Zenon DEF IssueInv, Renders
<1> QED
  BY <1>2, <1>4, <1>5, <1>6, <1>9, <1>10, Zenon DEF IssueInv

\* A PUT reads the row.
LEMMA PutStartsKeeps ==
  ASSUME IssueInv, NEW c \in Callers, NEW p \in Issue!Providers, NEW sent \in Issue!Forms(p) \cup {None},
         NEW on \in {None, "on", "off"}, Issue!PutStarts(c, p, sent, on)
  PROVE  IssueInv'
<1> DEFINE w == [put |-> p, sent |-> sent, seen |-> providers[p],
                 on |-> IF on = None THEN providers[p].on ELSE on = "on"]
<1>1. /\ puts < MaxPuts /\ puts' = puts + 1 /\ work[c] = None /\ work' = [work EXCEPT ![c] = w]
      /\ UNCHANGED <<providers, env, master, saved, sound>>
  BY DEF Issue!PutStarts, Issue!Changed
<1>2. puts' \in Nat /\ puts' <= MaxPuts
  BY <1>1, IssueAssumption DEF IssueInv, IssueTypes
<1>3. w.on \in BOOLEAN
  <2>1. providers[p].on \in BOOLEAN
    BY DEF IssueInv, RowFits
  <2> QED
    BY <2>1
<1>4. /\ DOMAIN w = {"put", "sent", "seen", "on"} /\ w.put = p /\ w.sent = sent
      /\ w.seen = providers[p]
  OBVIOUS
<1> HIDE DEF w
<1>5. WorkFits(w) /\ "save" \notin DOMAIN w
  BY <1>3, <1>4 DEF WorkFits, PutFits
<1>6. ~Issue!Saving(c)
  BY <1>1 DEF Issue!Saving
<1> QED
  BY <1>1, <1>2, <1>5, <1>6, RequestKeeps

\* The fields sent go over the stored ones; the result is stored only if it has all
\* that the provider requires.
LEMMA PutMergesKeeps ==
  ASSUME IssueInv, NEW c \in Callers, Issue!PutMerges(c) PROVE IssueInv'
<1> DEFINE w == work[c]
           m == IF w.sent = None THEN None ELSE Issue!Merged(w.put, w.sent)
           n == IF Issue!Storable(w) THEN [store |-> w.put, on |-> w.on, creds |-> m] ELSE None
<1>1. /\ w # None /\ "put" \in DOMAIN w /\ work' = [work EXCEPT ![c] = n]
      /\ UNCHANGED <<providers, env, master, saved, sound, puts>>
  BY DEF Issue!PutMerges
<1>2. PutFits(w) /\ ~Issue!Saving(c)
  BY <1>1 DEF IssueInv, WorkFits, PutFits, StoreFits, SaveFits, Issue!Saving
<1>3. ASSUME Issue!Storable(w), w.sent # None PROVE Fits(w.put, m)
  <2> DEFINE p == w.put
             f == Issue!Merged(p, w.sent)
             e == IF providers[p].blob = None THEN <<>> ELSE providers[p].blob.creds
  <2>1. Issue!Valid(p, f) /\ m = f
    BY <1>3 DEF Issue!Storable
  <2>2. p \in Issue!Providers /\ w.sent \in Issue!Forms(p)
    BY <1>2, <1>3 DEF PutFits
  <2>3. /\ DOMAIN e \subseteq Issue!Fields(p)
        /\ \A x \in DOMAIN e : e[x] \in Values \cup {"blank", "legacy"}
    BY <2>2 DEF IssueInv, RowFits, Blobs, Credentials
  <2>4. /\ Issue!Given(p, w.sent) \subseteq Issue!Fields(p)
        /\ \A x \in Issue!Given(p, w.sent) : w.sent[x] \in Values \cup {"blank", "legacy"}
    BY <2>2 DEF Issue!Given, Issue!Forms
  <2>5. f = [x \in Issue!Given(p, w.sent) \cup DOMAIN e |->
                IF x \in Issue!Given(p, w.sent) THEN w.sent[x] ELSE e[x]]
    BY DEF Issue!Merged
  <2> HIDE DEF f, e
  <2>6. f \in [DOMAIN f -> Values \cup {"blank", "legacy"}] /\ DOMAIN f \in SUBSET Issue!Fields(p)
    BY <2>3, <2>4, <2>5
  <2>7. f \in Credentials(p)
    BY <2>6 DEF Credentials
  <2> QED
    BY <2>1, <2>7 DEF Fits
<1>4. ASSUME Issue!Storable(w) PROVE WorkFits(n) /\ "save" \notin DOMAIN n
  <2>1. /\ DOMAIN n = {"store", "on", "creds"} /\ n.store = w.put /\ n.on = w.on /\ n.creds = m
    BY <1>4
  <2>2. w.put \in Issue!Providers /\ w.on \in BOOLEAN
    BY <1>2 DEF PutFits
  <2>3. m # None => Fits(w.put, m)
    BY <1>3, <1>4
  <2>4. m = None => w.sent = None
    <3>1. Fits(w.put, m) => m # None
      BY <2>2, IssueAssumption DEF Fits
    <3> QED
      BY <1>3, <1>4, <3>1
  <2>5. m = None /\ w.on => providers[w.put].blob # None
    BY <1>2, <1>4, <2>4 DEF Issue!Storable, PutFits
  <2> HIDE DEF n, m
  <2> QED
    BY <2>1, <2>2, <2>3, <2>5 DEF WorkFits, StoreFits
<1>5. WorkFits(n) /\ (n # None => "save" \notin DOMAIN n)
  BY <1>4 DEF WorkFits
<1>6. puts' \in Nat /\ puts' <= MaxPuts
  BY <1>1 DEF IssueInv, IssueTypes
<1> HIDE DEF n, w, m
<1> QED
  BY <1>1, <1>2, <1>5, <1>6, RequestKeeps

\* The row is written: it has all that the provider requires, and what made a host's
\* provider renderable is there still, unless the provider was switched off.
LEMMA PutStoresKeeps ==
  ASSUME IssueInv, NEW c \in Callers, Issue!PutStores(c) PROVE IssueInv'
<1> DEFINE w == work[c]
           p == w.store
           b == IF w.creds = None THEN providers[p].blob ELSE [key |-> master, creds |-> w.creds]
           r == [on |-> w.on, blob |-> b]
<1>1. /\ w # None /\ "store" \in DOMAIN w /\ providers' = [providers EXCEPT ![p] = r]
      /\ sound' = (sound /\ (providers[p].on => w.on)) /\ work' = [work EXCEPT ![c] = None]
      /\ UNCHANGED <<env, master, saved, puts>>
  BY DEF Issue!PutStores
<1>2. StoreFits(w) /\ p \in Issue!Providers /\ ~Issue!Saving(c)
  BY <1>1 DEF IssueInv, WorkFits, PutFits, StoreFits, SaveFits, Issue!Saving
<1>3. IssueTypes /\ master \in Keys /\ RowFits(p, providers[p])
  BY <1>2 DEF IssueInv, IssueTypes
<1>4. /\ b \in Blobs(p) \cup {None} /\ (providers[p].blob # None => b # None)
      /\ w.on => b # None
      /\ b # None => b = providers[p].blob \/ b.key = master
  <2>1. CASE w.creds = None
    BY <1>2, <1>3, <2>1 DEF RowFits, StoreFits
  <2>2. CASE w.creds # None
    <3>1. Fits(p, w.creds)
      BY <1>2, <2>2 DEF StoreFits
    <3>2. b = [key |-> master, creds |-> w.creds] /\ b \in Blobs(p)
      BY <1>3, <2>2, <3>1 DEF Blobs, Fits
    <3>3. b # None /\ b.key = master
      BY <1>2, <3>2, BlobIsSome
    <3> QED
      BY <3>2, <3>3
  <2> QED
    BY <2>1, <2>2
<1> HIDE DEF b
<1>5. r.on = w.on /\ r.blob = b /\ w.on \in BOOLEAN
  BY <1>2 DEF StoreFits
<1>6. RowFits(p, r)
  BY <1>4, <1>5 DEF RowFits
<1> HIDE DEF r
<1>7. /\ DOMAIN providers' = Issue!Providers
      /\ providers' = [q \in Issue!Providers |-> providers'[q]]
      /\ providers'[p] = r /\ \A q \in Issue!Providers : q = p \/ providers'[q] = providers[q]
  BY <1>1, <1>2, <1>3 DEF IssueTypes
<1> HIDE DEF p
<1>8. \A q \in Issue!Providers : RowFits(q, providers'[q])
  BY <1>6, <1>7 DEF IssueInv
<1>9. \A q \in Issue!Providers : RowFits(q, providers[q])'
  BY <1>8 DEF RowFits
<1>10. \A q \in Issue!Providers : providers[q].blob # None => providers'[q].blob # None
  BY <1>2, <1>4, <1>5, <1>7
<1>11. /\ DOMAIN work' = Callers /\ work' = [d \in Callers |-> work'[d]]
       /\ work'[c] = None /\ \A d \in Callers : d = c \/ work'[d] = work[d]
  BY <1>1, <1>3 DEF IssueTypes
<1>12. \A d \in Callers : WorkFits(work[d])'
  <2>1. ASSUME NEW d \in Callers PROVE WorkFits(work[d])'
    <3>1. CASE d = c
      BY <1>11, <3>1 DEF WorkFits
    <3>2. CASE d # c
      <4>1. work'[d] = work[d] /\ WorkFits(work[d])
        BY <1>11, <3>2 DEF IssueInv
      <4> QED
        BY <1>10, <4>1 DEF WorkFits, PutFits, StoreFits, SaveFits
    <3> QED
      BY <3>1, <3>2
  <2> QED
    BY <2>1
<1>13. \A d \in Callers : /\ Issue!Saving(d)' <=> Issue!Saving(d)
                          /\ Issue!Saving(d) => work'[d] = work[d]
  BY <1>2, <1>11 DEF Issue!Saving
<1>14. sound' \in BOOLEAN /\ (sound' => sound /\ (providers[p].on => w.on))
  BY <1>1, Zenon
<1>15. IssueTypes'
  BY <1>1, <1>3, <1>7, <1>11, <1>14, Zenon DEF IssueTypes
<1>16. ASSUME sound', NEW q \in Issue!Providers, Renders(q) PROVE Renders(q)'
  <2>1. CASE q = p
    BY <1>1, <1>4, <1>5, <1>7, <1>10, <1>14, <1>16, <2>1 DEF Renders
  <2>2. CASE q # p
    BY <1>1, <1>7, <1>16, <2>2 DEF Renders
  <2> QED
    BY <2>1, <2>2
<1>17. ASSUME sound', NEW d \in Callers, Issue!Saving(d)' PROVE Renders(work[d].save)'
  <2>1. Issue!Saving(d) /\ work'[d] = work[d] /\ Renders(work[d].save) /\ WorkFits(work[d])
    BY <1>13, <1>14, <1>17 DEF IssueInv
  <2>2. work[d].save \in Issue!Providers
    BY <2>1 DEF WorkFits, PutFits, StoreFits, SaveFits, Issue!Saving
  <2>3. \A q \in Issue!Providers : Renders(q) => Renders(q)'
    BY <1>16, <1>17
  <2> QED
    BY <2>1, <2>2, <2>3 DEF Renders
<1>18. ASSUME sound', saved' # None PROVE (\E d \in Callers : Issue!Saving(d)') \/ Renders(saved)'
  <2>1. saved \in Issue!Providers /\ saved' = saved
    BY <1>1, <1>3, <1>18 DEF IssueTypes
  <2>2. (\E d \in Callers : Issue!Saving(d)) \/ Renders(saved)
    BY <1>14, <1>18, <2>1 DEF IssueInv
  <2>3. Renders(saved) => Renders(saved)'
    BY <1>16, <1>18, <2>1 DEF Renders
  <2> QED
    BY <1>13, <2>2, <2>3
<1> QED
  BY <1>9, <1>12, <1>13, <1>15, <1>17, <1>18, Zenon DEF IssueInv

\* A save passes its check: its provider can be rendered then, unless what is
\* stored of it was encrypted with another key.
LEMMA SaveChecksKeeps ==
  ASSUME IssueInv, NEW c \in Callers, NEW p \in Issue!Providers, Issue!SaveChecks(c, p)
  PROVE  IssueInv'
<1> DEFINE w == [save |-> p]
<1>1. /\ puts < MaxPuts /\ puts' = puts + 1 /\ \A d \in Callers : ~Issue!Saving(d)
      /\ Issue!Ready(p) /\ work' = [work EXCEPT ![c] = w]
      /\ sound' = (providers[p].blob # None /\ providers[p].on => providers[p].blob.key = master)
      /\ UNCHANGED <<providers, env, master, saved>>
  BY DEF Issue!SaveChecks, Issue!Changed
<1>2. IssueTypes /\ RowFits(p, providers[p])
  BY DEF IssueInv
<1>3. puts' \in Nat /\ puts' <= MaxPuts
  BY <1>1, <1>2, IssueAssumption DEF IssueTypes
<1>4. DOMAIN w = {"save"} /\ w.save = p /\ w # None
  BY IssueAssumption
<1> HIDE DEF w
<1>5. /\ DOMAIN work' = Callers /\ work' = [d \in Callers |-> work'[d]]
      /\ work'[c] = w /\ \A d \in Callers : d = c \/ work'[d] = work[d]
  BY <1>1, <1>2 DEF IssueTypes
<1>6. \A d \in Callers : WorkFits(work[d])'
  <2>1. ASSUME NEW d \in Callers PROVE WorkFits(work[d])'
    <3>1. CASE d = c
      BY <1>4, <1>5, <3>1 DEF WorkFits, SaveFits
    <3>2. CASE d # c
      <4>1. work'[d] = work[d] /\ WorkFits(work[d])
        BY <1>5, <3>2 DEF IssueInv
      <4> QED
        BY <1>1, <4>1 DEF WorkFits, PutFits, StoreFits, SaveFits
    <3> QED
      BY <3>1, <3>2
  <2> QED
    BY <2>1
<1>7. Issue!Saving(c)' /\ \A d \in Callers : Issue!Saving(d)' => d = c
  BY <1>1, <1>4, <1>5 DEF Issue!Saving
<1>8. sound' \in BOOLEAN
       /\ (sound' => (providers[p].blob # None /\ providers[p].on => providers[p].blob.key = master))
  BY <1>1, Zenon
<1>9. IssueTypes'
  BY <1>1, <1>2, <1>3, <1>5, <1>8, Zenon DEF IssueTypes
<1>10. sound' => Renders(p)'
  BY <1>1, <1>8 DEF Renders, Issue!Ready
<1>11. sound' => Renders(work[c].save)'
  BY <1>4, <1>5, <1>10 DEF Renders
<1>12. \A q \in Issue!Providers : RowFits(q, providers[q])'
  BY <1>1 DEF IssueInv, RowFits
<1> QED
  BY <1>6, <1>7, <1>9, <1>11, <1>12 DEF IssueInv

\* The row of the host is written: its provider is the one checked.
LEMMA SaveStoresKeeps ==
  ASSUME IssueInv, NEW c \in Callers, Issue!SaveStores(c) PROVE IssueInv'
<1>1. /\ Issue!Saving(c) /\ saved' = work[c].save /\ work' = [work EXCEPT ![c] = None]
      /\ UNCHANGED <<providers, env, master, sound, puts>>
  BY DEF Issue!SaveStores
<1>2. saved' \in Issue!Providers /\ WorkFits(work[c])
  BY <1>1 DEF IssueInv, WorkFits, PutFits, StoreFits, SaveFits, Issue!Saving
<1>3. /\ DOMAIN work' = Callers /\ work' = [d \in Callers |-> work'[d]]
      /\ work'[c] = None /\ \A d \in Callers : d = c \/ work'[d] = work[d]
  BY <1>1 DEF IssueInv, IssueTypes
<1>4. IssueTypes'
  <2>1. IssueTypes
    BY DEF IssueInv
  <2> QED
    BY <1>1, <1>2, <1>3, <2>1, Zenon DEF IssueTypes
<1>5. \A d \in Callers : WorkFits(work[d])'
  <2>1. ASSUME NEW d \in Callers PROVE WorkFits(work[d])'
    <3>1. CASE d = c
      BY <1>3, <3>1 DEF WorkFits
    <3>2. CASE d # c
      <4>1. work'[d] = work[d] /\ WorkFits(work[d])
        BY <1>3, <3>2 DEF IssueInv
      <4> QED
        BY <1>1, <4>1 DEF WorkFits, PutFits, StoreFits, SaveFits
    <3> QED
      BY <3>1, <3>2
  <2> QED
    BY <2>1
<1>6. \A d \in Callers : ~Issue!Saving(d)'
  <2>1. \A d \in Callers : Issue!Saving(d) => d = c
    BY <1>1 DEF IssueInv
  <2> QED
    BY <1>3, <2>1 DEF Issue!Saving
<1>7. sound' => Renders(saved)'
  BY <1>1 DEF IssueInv, Renders
<1>8. \A q \in Issue!Providers : RowFits(q, providers[q])'
  BY <1>1 DEF IssueInv, RowFits
<1> QED
  BY <1>4, <1>5, <1>6, <1>7, <1>8 DEF IssueInv

\* Every step keeps it.
LEMMA IssueStepKeeps == IssueInv /\ [Issue!Next]_Issue!vars => IssueInv'
<1> SUFFICES ASSUME IssueInv, [Issue!Next]_Issue!vars PROVE IssueInv'
  OBVIOUS
<1>1. CASE UNCHANGED Issue!vars
  BY <1>1 DEF Issue!vars, IssueInv, IssueTypes, RowFits, WorkFits, PutFits, StoreFits, SaveFits,
              Renders, Issue!Saving
<1>2. CASE \E e \in BOOLEAN, k \in Keys : Issue!Restart(e, k)
  BY <1>2, RestartKeeps
<1>3. CASE \E c \in Callers, p \in Issue!Providers, on \in {None, "on", "off"} :
              \E sent \in Issue!Forms(p) \cup {None} : Issue!PutStarts(c, p, sent, on)
  BY <1>3, PutStartsKeeps
<1>4. CASE \E c \in Callers : Issue!PutMerges(c) \/ Issue!PutStores(c) \/ Issue!SaveStores(c)
  BY <1>4, PutMergesKeeps, PutStoresKeeps, SaveStoresKeeps
<1>5. CASE \E c \in Callers, p \in Issue!Providers : Issue!SaveChecks(c, p)
  BY <1>5, SaveChecksKeeps
<1> QED
  BY <1>1, <1>2, <1>3, <1>4, <1>5 DEF Issue!Next

\* CredentialsThere, for every value of the constants: a provider that is on has all
\* it requires, however requests and restarts interleave, and a host that was saved
\* can be rendered until something it needs is taken away.
THEOREM CredentialsThereHolds == Issue!Spec => []CredentialsThere
<1>1. Issue!Init => IssueInv
  BY IssueInitHolds
<1>2. IssueInv /\ [Issue!Next]_Issue!vars => IssueInv'
  BY IssueStepKeeps
<1>3. IssueInv => CredentialsThere
  <2> SUFFICES ASSUME IssueInv
               PROVE  /\ Issue!TypeOK /\ Issue!EnabledHasCredentials
                      /\ Issue!SavedHostHasCredentials
    BY DEF CredentialsThere
  <2>1. \A p \in Issue!Providers : RowFits(p, providers[p])
    BY DEF IssueInv
  <2>2. Issue!TypeOK
    <3>1. puts \in 0 .. MaxPuts
      BY IssueAssumption DEF IssueInv, IssueTypes
    <3>2. \A p \in Issue!Providers : providers[p].blob # None =>
             providers[p].blob.key \in Keys /\ DOMAIN providers[p].blob.creds \subseteq Issue!Fields(p)
      BY <2>1, ProviderFields DEF RowFits, Blobs
    <3>3. \A p \in Issue!Providers : providers[p].on \in BOOLEAN
      BY <2>1 DEF RowFits
    <3> QED
      BY <3>1, <3>2, <3>3, Zenon DEF IssueInv, IssueTypes, Issue!TypeOK
  <2>3. Issue!EnabledHasCredentials
    BY <2>1 DEF RowFits, Blobs, Issue!EnabledHasCredentials
  <2>4. ASSUME saved # None, sound, \A c \in Callers : ~Issue!Saving(c)
        PROVE  \/ Issue!buildDNSProvider(saved) = {"env"}
               \/ Issue!Required(saved) \subseteq Issue!buildDNSProvider(saved)
    <3>1. saved \in Issue!Providers /\ Renders(saved)
      BY <2>4 DEF IssueInv, IssueTypes
    <3>2. CASE saved \in Issue!Loaded
      <4>1. Issue!Valid(saved, providers[saved].blob.creds)
        BY <2>1, <3>1, <3>2 DEF RowFits, Blobs, Issue!Loaded
      <4> QED
        BY <3>2, <4>1 DEF Issue!buildDNSProvider, Issue!Valid
    <3>3. CASE saved \notin Issue!Loaded
      <4>1. saved = "cloudflare" /\ env
        BY <3>1, <3>3 DEF Renders, Issue!Loaded
      <4> QED
        BY <3>3, <4>1 DEF Issue!buildDNSProvider, Issue!LegacyCFEnvSet
    <3> QED
      BY <3>2, <3>3
  <2> QED
    BY <2>2, <2>3, <2>4 DEF Issue!SavedHostHasCredentials
<1> QED
  BY <1>1, <1>2, <1>3, PTL DEF Issue!Spec
----------------------------------------------------------------------------
(* The crons.  What fails alone and is not told about has failed for no    *)
(* longer than the quiet; an alarm about AppSec is as old as the probes    *)
(* since.                                                                  *)

CronTypes ==
    /\ misses \in [Crons!Components -> 0 .. 3] /\ emitted \in (0 .. Crons!Many) \cup {None}
    /\ alone \in [Crons!Components -> 0 .. Crons!Many] /\ told \subseteq Crons!Components
    /\ mode \in {"detect", "block", "disabled"} /\ next \in 1 .. Interval /\ lastUp \in BOOLEAN
    /\ alarmed \in (0 .. Crons!Many) \cup {None} /\ alarms \in Nat

CronsInv ==
    /\ CronTypes
    /\ \A c \in Crons!Components : misses[c] >= 2 => emitted # None /\ emitted <= QuietTime
    /\ \A c \in Crons!Components : alone[c] > 0 /\ c \notin told =>
          misses[c] >= 2 /\ alone[c] <= emitted + 1
    /\ alarms = IF lastUp THEN 0 ELSE 1
    /\ alarmed # None => alarmed + next >= IF lastUp THEN 2 * Interval ELSE Interval

\* The panel starts and knows nothing.
LEMMA CronsForget ==
  ASSUME misses = Crons!Forgotten.fails, emitted = None, alone = Crons!Forgotten.alone, told = {},
         mode \in {"detect", "block", "disabled"}, next = 1, lastUp = TRUE, alarmed = None, alarms = 0
  PROVE  CronsInv
<1>1. /\ misses = [c \in Crons!Components |-> 0] /\ alone = [c \in Crons!Components |-> 0]
  BY DEF Crons!Forgotten
<1>2. Crons!Many \in Nat
  BY AlarmsAssumption DEF Crons!Many
<1> QED
  BY <1>1, <1>2, AlarmsAssumption DEF CronsInv, CronTypes

\* HealthCron: a check keeps its half of the invariant.
LEMMA CheckKeeps ==
  ASSUME CronsInv, NEW answering \in SUBSET Crons!Components, Crons!Check(answering)
  PROVE  /\ misses' \in [Crons!Components -> 0 .. 3] /\ emitted' \in (0 .. Crons!Many) \cup {None}
         /\ alone' \in [Crons!Components -> 0 .. Crons!Many] /\ told' \subseteq Crons!Components
         /\ \A c \in Crons!Components : misses'[c] >= 2 => emitted' # None /\ emitted' <= QuietTime
         /\ \A c \in Crons!Components : alone'[c] > 0 /\ c \notin told' =>
               misses'[c] >= 2 /\ alone'[c] <= emitted' + 1
<1> DEFINE age == Crons!Older(emitted)
           telling == {c \in Crons!Components : misses'[c] >= 2 /\ Crons!Past(age, QuietTime)}
<1>1. Crons!Many \in Nat /\ QuietTime < Crons!Many /\ Crons!Many > 0 /\ None \notin Nat /\ QuietTime \in Nat
  BY AlarmsAssumption DEF Crons!Many
<1>2. /\ misses' = [c \in Crons!Components |->
                       IF c \in answering THEN 0 ELSE IF misses[c] = 3 THEN 3 ELSE misses[c] + 1]
      /\ emitted' = IF telling = {} THEN age ELSE 0
      /\ told' = (told \ answering) \cup IF "panel" \in telling THEN {"panel"} ELSE telling
      /\ alone' = [c \in Crons!Components |->
                      IF misses'[c] >= 2 /\ misses'[Crons!Other(c)] < 2 THEN Crons!Older(alone[c]) ELSE 0]
  BY DEF Crons!Check, Crons!Failures, Crons!Emit
<1>3. age \in (0 .. Crons!Many) \cup {None}
  BY <1>1 DEF CronsInv, CronTypes, Crons!Older
<1>4. misses' \in [Crons!Components -> 0 .. 3]
  BY <1>2 DEF CronsInv, CronTypes
<1>5. \A c \in Crons!Components : Crons!Older(alone[c]) \in 0 .. Crons!Many /\ Crons!Older(alone[c]) <= alone[c] + 1
  BY <1>1 DEF CronsInv, CronTypes, Crons!Older
<1>6. alone' \in [Crons!Components -> 0 .. Crons!Many]
  BY <1>1, <1>2, <1>5
<1>7. ASSUME NEW c \in Crons!Components, misses'[c] >= 2 PROVE emitted' # None /\ emitted' <= QuietTime
  <2>1. CASE Crons!Past(age, QuietTime)
    BY <1>1, <1>2, <1>7, <2>1
  <2>2. CASE ~Crons!Past(age, QuietTime)
    <3>1. telling = {} /\ age # None /\ age <= QuietTime
      BY <1>1, <1>3, <2>2 DEF Crons!Past
    <3> QED
      BY <1>2, <3>1
  <2> QED
    BY <2>1, <2>2
<1>8. ASSUME NEW c \in Crons!Components, alone'[c] > 0, c \notin told'
      PROVE  misses'[c] >= 2 /\ alone'[c] <= emitted' + 1
  <2>1. misses'[c] >= 2 /\ misses'[Crons!Other(c)] < 2 /\ alone'[c] = Crons!Older(alone[c])
    BY <1>2, <1>8
  <2>2. c \notin answering /\ c \notin told
    BY <1>2, <1>8, <2>1
  <2>3. telling = {}
    <3>1. \A d \in telling : d = c
      BY <2>1, <1>4 DEF Crons!Components, Crons!Other
    <3> QED
      BY <1>2, <1>8, <3>1
  <2>4. age # None /\ age <= QuietTime /\ emitted' = age
    BY <1>1, <1>2, <1>3, <2>1, <2>3 DEF Crons!Past
  <2>5. emitted \in 0 .. Crons!Many /\ age = emitted + 1
    BY <1>1, <2>4 DEF CronsInv, CronTypes, Crons!Older
  <2>6. CASE alone[c] = 0
    BY <1>1, <1>5, <2>1, <2>4, <2>5, <2>6
  <2>7. CASE alone[c] > 0
    <3>1. alone[c] <= emitted + 1 /\ alone[c] \in Nat
      BY <2>2, <2>7, <1>1 DEF CronsInv, CronTypes
    <3>2. alone'[c] <= alone[c] + 1 /\ alone'[c] \in Nat
      BY <1>1, <1>5, <2>1
    <3> QED
      BY <2>1, <2>4, <2>5, <3>1, <3>2
  <2>8. alone[c] \in Nat
    BY <1>1 DEF CronsInv, CronTypes
  <2> QED
    BY <2>6, <2>7, <2>8
<1> QED
  <2>1. told' \subseteq Crons!Components
    BY <1>2 DEF CronsInv, CronTypes
  <2>2. emitted' \in (0 .. Crons!Many) \cup {None}
    BY <1>1, <1>2, <1>3
  <2> QED
    BY <1>4, <1>6, <1>7, <1>8, <2>1, <2>2

\* appsec.Health: a unit of time keeps the other half.
LEMMA HealthKeeps ==
  ASSUME CronsInv, Crons!Probe
  PROVE  /\ next' \in 1 .. Interval /\ lastUp' \in BOOLEAN
         /\ alarmed' \in (0 .. Crons!Many) \cup {None} /\ alarms' \in Nat
         /\ alarms' = IF lastUp' THEN 0 ELSE 1
         /\ alarmed' # None => alarmed' + next' >= IF lastUp' THEN 2 * Interval ELSE Interval
<1>1. /\ Crons!Many \in Nat /\ 2 * Interval < Crons!Many /\ None \notin Nat
      /\ Interval \in Nat /\ Interval > 0 /\ Flutter \in Nat /\ Flutter < 2 * Interval
  BY AlarmsAssumption DEF Crons!Many
<1> DEFINE age == Crons!Older(alarmed)
<1>2. age \in (0 .. Crons!Many) \cup {None}
  BY <1>1 DEF CronsInv, CronTypes, Crons!Older
<1>3. ASSUME age # None PROVE age + next - 1 >= IF lastUp THEN 2 * Interval ELSE Interval
  <2>1. alarmed \in 0 .. Crons!Many /\ next \in 1 .. Interval
    BY <1>3, <1>1 DEF CronsInv, CronTypes, Crons!Older
  <2>2. alarmed + next >= IF lastUp THEN 2 * Interval ELSE Interval
    BY <2>1, <1>1 DEF CronsInv
  <2>3. age = IF alarmed = Crons!Many THEN Crons!Many ELSE alarmed + 1
    BY <1>1, <2>1 DEF Crons!Older
  <2> QED
    BY <1>1, <2>1, <2>2, <2>3
<1>4. CASE next > 1
  <2>1. next' = next - 1 /\ alarmed' = age /\ lastUp' = lastUp /\ alarms' = alarms
    BY <1>4 DEF Crons!Probe, Crons!Later
  <2> QED
    BY <1>1, <1>2, <1>3, <1>4, <2>1 DEF CronsInv, CronTypes
<1>5. CASE next = 1
  <2>1. next' = Interval /\ (Crons!Skip \/ Crons!Found \/ Crons!NotFound)
    BY <1>5 DEF Crons!Probe
  <2>2. CASE Crons!Skip
    BY <1>1, <1>2, <1>3, <1>5, <2>1, <2>2 DEF CronsInv, CronTypes, Crons!Skip
  <2>3. CASE Crons!Found
    <3>1. lastUp' = TRUE /\ alarms' = 0 /\ alarmed' = age
      BY <2>3 DEF Crons!Found
    <3>2. age # None => age >= Interval
      BY <1>1, <1>2, <1>3, <1>5
    <3> QED
      BY <1>1, <1>2, <2>1, <3>1, <3>2
  <2>4. CASE Crons!NotFound
    <3>1. lastUp => Crons!Fires
      BY <1>1, <1>2, <1>3, <1>5 DEF Crons!Fires, Crons!Past
    <3>2. /\ lastUp' = FALSE
          /\ IF lastUp THEN alarmed' = 0 /\ alarms' = alarms + 1 ELSE alarmed' = age /\ alarms' = alarms
      BY <2>4, <3>1 DEF Crons!NotFound
    <3>3. /\ alarms = IF lastUp THEN 0 ELSE 1
          /\ lastUp \in BOOLEAN
      BY DEF CronsInv, CronTypes
    <3>4. /\ lastUp' \in BOOLEAN /\ (IF lastUp' THEN 0 ELSE 1) = 1
          /\ (IF lastUp' THEN 2 * Interval ELSE Interval) = Interval
      BY <3>2, Zenon
    <3>5. alarms' = 1
      BY <3>2, <3>3
    <3>6. alarmed' \in (0 .. Crons!Many) \cup {None} 
      BY <1>1, <1>2, <3>2
    <3>7. next' = Interval /\ next' \in 1 .. Interval
      BY <1>1, <2>1
    <3>8. ASSUME alarmed' # None PROVE alarmed' + next' >= Interval
      <4>1. alarmed' \in Nat
        BY <1>1, <3>6, <3>8
      <4>2. next' = Interval /\ Interval \in Nat
        BY <1>1, <3>7
      <4>3. \A m, n \in Nat : m + n >= n
        OBVIOUS
      <4> QED
        BY <4>1, <4>2, <4>3
    <3>9. alarms' = (IF lastUp' THEN 0 ELSE 1) /\ alarms' \in Nat
      BY <3>4, <3>5
    <3>10. alarmed' # None => alarmed' + next' >= (IF lastUp' THEN 2 * Interval ELSE Interval)
      BY <3>4, <3>8
    <3> QED
      BY <3>4, <3>6, <3>7, <3>9, <3>10, Zenon
  <2> QED
    BY <2>1, <2>2, <2>3, <2>4
<1> QED
  BY <1>4, <1>5, <1>1 DEF CronsInv, CronTypes

\* Every step keeps the invariant.
LEMMA CronsStepKeeps == CronsInv /\ [Crons!Next]_Crons!vars => CronsInv'
<1> SUFFICES ASSUME CronsInv, [Crons!Next]_Crons!vars PROVE CronsInv'
  OBVIOUS
<1>1. CASE Crons!Tick
  <2>1. PICK answering \in SUBSET Crons!Components : Crons!Check(answering)
    BY <1>1 DEF Crons!Tick
  <2>2. Crons!Probe /\ mode' = mode
    BY <1>1 DEF Crons!Tick
  <2>3. mode' \in {"detect", "block", "disabled"} /\ Crons!Many' = Crons!Many
    BY <2>2 DEF CronsInv, CronTypes, Crons!Many
  <2> QED
    BY <2>1, <2>2, <2>3, CheckKeeps, HealthKeeps DEF CronsInv, CronTypes, Crons!Components
<1>2. CASE Crons!SetMode
  BY <1>2 DEF CronsInv, CronTypes, Crons!SetMode, Crons!cronVars, Crons!healthVars, Crons!Components, Crons!Many
<1>3. CASE Crons!Restart
  <2>1. /\ misses' = [c \in Crons!Components |-> 0] /\ alone' = [c \in Crons!Components |-> 0]
        /\ emitted' = None /\ told' = {} /\ next' = 1 /\ lastUp' = TRUE /\ alarmed' = None
        /\ alarms' = 0 /\ mode' = mode
    BY <1>3 DEF Crons!Restart, Crons!Forgotten
  <2>2. Crons!Many \in Nat /\ Crons!Many' = Crons!Many
    BY AlarmsAssumption DEF Crons!Many
  <2> QED
    BY <2>1, <2>2, AlarmsAssumption DEF CronsInv, CronTypes, Crons!Components
<1>4. CASE UNCHANGED Crons!vars
  BY <1>4 DEF CronsInv, CronTypes, Crons!vars, Crons!Components, Crons!Many
<1> QED
  BY <1>1, <1>2, <1>3, <1>4 DEF Crons!Next

\* The invariant says what the property does of the crons.
LEMMA CronsTell == CronsInv => Crons!TypeOK /\ Crons!FailuresAreTold /\ Crons!OneAlarmPerOutage
<1> SUFFICES ASSUME CronsInv PROVE Crons!TypeOK /\ Crons!FailuresAreTold /\ Crons!OneAlarmPerOutage
  OBVIOUS
<1>1. ASSUME NEW c \in Crons!Components, alone[c] > QuietTime + 1 PROVE c \in told
  <2>1. alone[c] \in Nat /\ QuietTime \in Nat /\ None \notin Nat /\ Crons!Many \in Nat
    BY AlarmsAssumption DEF CronsInv, CronTypes, Crons!Many
  <2> QED
    BY <1>1, <2>1 DEF CronsInv, CronTypes
<1> QED
  BY <1>1 DEF CronsInv, CronTypes, Crons!TypeOK, Crons!FailuresAreTold, Crons!OneAlarmPerOutage

----------------------------------------------------------------------------
(* The log watcher.  Of the lines of the last window those in the list are *)
(* exactly those that no alarm has counted.                                *)

WatchInv ==
    /\ kind \in Watch!Kinds /\ fired \in Nat /\ fired >= Watch!Thresh
    /\ lines \subseteq (0 .. Watch!Window - 1) \X (1 .. MaxLines) /\ counted \subseteq lines
    /\ window \subseteq (0 .. Watch!Window) \X (1 .. MaxLines)
    /\ IsFiniteSet(window) /\ Cardinality(window) < Watch!Thresh
    /\ Watch!Evict(window) = lines \ counted
    /\ target \in [state: {None, "up", "down"}, open: 0 .. 1] /\ Watch!OutagesAreClosed

\* What a module counts is what is counted here.
LEMMA WatchCounts == \A S : Watch!Cardinality(S) = Cardinality(S)
BY DEF Watch!Cardinality, Cardinality

\* The window and the threshold of a key.
LEMMA WatchLimits ==
  ASSUME kind \in Watch!Kinds
  PROVE  Watch!Window \in Nat /\ Watch!Window > 0 /\ Watch!Thresh \in Nat /\ Watch!Thresh > 0
BY AlarmsAssumption DEF Watch!Kinds, Watch!Window, Watch!Thresh

\* An empty list, as at the start and after an alarm.
LEMMA NothingListed ==
  ASSUME kind \in Watch!Kinds, window = {}, lines = counted
  PROVE  /\ window \subseteq (0 .. Watch!Window) \X (1 .. MaxLines)
         /\ IsFiniteSet(window) /\ Cardinality(window) < Watch!Thresh
         /\ Watch!Evict(window) = lines \ counted
<1>1. IsFiniteSet(window) /\ Cardinality(window) = 0
  BY FS_EmptySet
<1> QED
  BY <1>1, WatchLimits DEF Watch!Evict

\* The panel starts and knows nothing.
LEMMA WatchForgets ==
  ASSUME kind \in Watch!Kinds, window = {}, lines = {}, counted = {}, fired = Watch!Thresh,
         target = Watch!NoTarget
  PROVE  WatchInv
<1>1. target \in [state: {None, "up", "down"}, open: 0 .. 1] /\ Watch!OutagesAreClosed
  BY AlarmsAssumption DEF Watch!NoTarget, Watch!OutagesAreClosed
<1> QED
  BY <1>1, WatchLimits, NothingListed DEF WatchInv

\* One more line.
LEMMA LineKeeps ==
  ASSUME WatchInv, Watch!Line
  PROVE  WatchInv'
<1>1. kind' = kind /\ target' = target /\ Watch!Window' = Watch!Window /\ Watch!Thresh' = Watch!Thresh
  BY DEF Watch!Line, Watch!Window, Watch!Thresh
<1>2. PICK n \in Watch!Numbers :
         LET w == Watch!Evict(window) \cup {<<0, n>>}  fire == Cardinality(w) >= Watch!Thresh IN
         /\ window' = IF fire THEN {} ELSE w
         /\ lines' = lines \cup {<<0, n>>}
         /\ counted' = IF fire THEN lines' ELSE counted
         /\ fired' = IF fire THEN Cardinality(Watch!Uncounted) + 1 ELSE fired
  BY WatchCounts DEF Watch!Line, Watch!Rest
<1> DEFINE new == <<0, n>>
           w == Watch!Evict(window) \cup {new}
<1>3. n \in 1 .. MaxLines /\ new \notin lines
  BY DEF Watch!Numbers
<1>4. /\ Watch!Window \in Nat /\ Watch!Window > 0 /\ Watch!Thresh \in Nat /\ Watch!Thresh > 0
  BY WatchLimits DEF WatchInv
<1>5. Watch!Evict(window) = Watch!Uncounted /\ Watch!Evict(window) \subseteq window /\ new \notin Watch!Evict(window)
  BY <1>3 DEF WatchInv, Watch!Uncounted, Watch!Evict
<1>6. /\ IsFiniteSet(w) /\ Cardinality(w) = Cardinality(Watch!Uncounted) + 1
      /\ Cardinality(w) \in Nat
  <2>1. IsFiniteSet(Watch!Evict(window))
    BY <1>5, FS_Subset DEF WatchInv
  <2> QED
    BY <1>5, <2>1, FS_AddElement, FS_CardinalityType
<1>7. lines' \subseteq (0 .. Watch!Window - 1) \X (1 .. MaxLines)
  BY <1>2, <1>3, <1>4 DEF WatchInv
<1>8. kind' \in Watch!Kinds /\ target' \in [state: {None, "up", "down"}, open: 0 .. 1] /\ Watch!OutagesAreClosed'
  BY <1>1 DEF WatchInv, Watch!OutagesAreClosed
<1>9. CASE Cardinality(w) >= Watch!Thresh
  <2>1. window' = {} /\ counted' = lines' /\ fired' = Cardinality(w)
    BY <1>2, <1>6, <1>9
  <2>2. IsFiniteSet(window') /\ Cardinality(window') = 0
    BY <2>1, FS_EmptySet
  <2>3. Watch!Evict(window)' = {} /\ lines' \ counted' = {}
    BY <2>1 DEF Watch!Evict
  <2> QED
    BY <1>1, <1>4, <1>6, <1>7, <1>8, <1>9, <2>1, <2>2, <2>3 DEF WatchInv, Watch!Kinds
<1>10. CASE ~(Cardinality(w) >= Watch!Thresh)
  <2>1. window' = w /\ counted' = counted /\ fired' = fired /\ lines' = lines \cup {new}
    BY <1>2, <1>10
  <2>2. w \subseteq (0 .. Watch!Window) \X (1 .. MaxLines)
    BY <1>3, <1>4, <1>5 DEF WatchInv
  <2>3. \A l \in w : l[1] < Watch!Window
    BY <1>4 DEF Watch!Evict, Watch!Young
  <2>4. Watch!Evict(window)' = w
    BY <1>1, <2>1, <2>3 DEF Watch!Evict, Watch!Young
  <2>5. lines' \ counted' = w
    BY <1>3, <1>5, <2>1 DEF WatchInv, Watch!Uncounted
  <2>6. counted' \subseteq lines'
    BY <2>1 DEF WatchInv
  <2>7. Cardinality(window') < Watch!Thresh /\ IsFiniteSet(window')
    BY <1>4, <1>6, <1>10, <2>1
  <2> QED
    BY <1>1, <1>7, <1>8, <2>1, <2>2, <2>4, <2>5, <2>6, <2>7 DEF WatchInv, Watch!Kinds
<1> QED
  BY <1>9, <1>10

\* Time passes: a line leaves the window and the list together.
LEMMA WatchTickKeeps ==
  ASSUME WatchInv, Watch!Tick
  PROVE  WatchInv'
<1>1. /\ kind' = kind /\ target' = target /\ fired' = fired
      /\ Watch!Window' = Watch!Window /\ Watch!Thresh' = Watch!Thresh
  BY DEF Watch!Tick, Watch!Window, Watch!Thresh
<1>2. /\ window' = {Watch!Older(l) : l \in window}
      /\ lines' = {x \in {Watch!Older(l) : l \in lines} : x[1] < Watch!Window}
      /\ counted' = {x \in {Watch!Older(l) : l \in counted} : x[1] < Watch!Window}
  BY DEF Watch!Tick, Watch!Evict, Watch!Young
<1>3. Watch!Window \in Nat /\ Watch!Window > 0 /\ Watch!Thresh \in Nat
  BY WatchLimits DEF WatchInv
<1> DEFINE Pairs == (0 .. Watch!Window) \X (1 .. MaxLines)
<1>4. \A l \in Pairs : Watch!Older(l) \in Pairs
  BY <1>3 DEF Watch!Older, Watch!Young
<1>5. \A l \in Pairs : Watch!Older(l)[1] < Watch!Window =>
         l[1] < Watch!Window /\ Watch!Older(l) = <<l[1] + 1, l[2]>>
  BY <1>3 DEF Watch!Older, Watch!Young
<1>6. \A l, m \in Pairs :
         Watch!Older(l)[1] < Watch!Window /\ Watch!Older(l) = Watch!Older(m) => l = m
  BY <1>3, <1>5
<1>7. window \subseteq Pairs /\ lines \subseteq Pairs /\ counted \subseteq lines
  BY <1>3 DEF WatchInv
<1>8. window' \subseteq Pairs
  BY <1>2, <1>4, <1>7
<1>9. lines' \subseteq (0 .. Watch!Window - 1) \X (1 .. MaxLines)
  BY <1>2, <1>3, <1>4, <1>7
<1>10. counted' \subseteq lines'
  BY <1>2, <1>7
<1>11. IsFiniteSet(window') /\ Cardinality(window') < Watch!Thresh
  <2> DEFINE f == [l \in window |-> Watch!Older(l)]
  <2>1. f \in Surjection(window, window')
    BY <1>2 DEF Surjection
  <2>2. IsFiniteSet(window') /\ Cardinality(window') <= Cardinality(window)
    BY <2>1, FS_Surjection DEF WatchInv
  <2>3. Cardinality(window) \in Nat /\ Cardinality(window') \in Nat
    BY <2>2, FS_CardinalityType DEF WatchInv
  <2> QED
    BY <1>3, <2>2, <2>3 DEF WatchInv
<1>12. Watch!Evict(window)' = lines' \ counted'
  <2>1. Watch!Evict(window)' = {x \in window' : x[1] < Watch!Window}
    BY <1>1 DEF Watch!Evict, Watch!Young
  <2>2. \A l \in window : l[1] < Watch!Window => l \in lines /\ l \notin counted
    BY DEF WatchInv, Watch!Evict, Watch!Young
  <2>3. \A l \in lines : l \notin counted => l \in window
    BY DEF WatchInv, Watch!Evict
  <2>4. ASSUME NEW x \in window', x[1] < Watch!Window PROVE x \in lines' /\ x \notin counted'
    <3>1. PICK l \in window : x = Watch!Older(l)
      BY <1>2, <2>4
    <3>2. l \in lines /\ l \notin counted
      BY <1>5, <1>7, <2>2, <2>4, <3>1
    <3>3. x \in lines'
      BY <1>2, <2>4, <3>1, <3>2
    <3>4. ASSUME x \in counted' PROVE FALSE
      <4>1. PICK m \in counted : x = Watch!Older(m)
        BY <1>2, <3>4
      <4> QED
        BY <1>6, <1>7, <2>4, <3>1, <3>2, <4>1
    <3> QED
      BY <3>3, <3>4
  <2>5. ASSUME NEW x \in lines', x \notin counted' PROVE x \in window' /\ x[1] < Watch!Window
    <3>1. PICK l \in lines : x = Watch!Older(l) /\ x[1] < Watch!Window
      BY <1>2, <2>5
    <3>2. l \notin counted
      BY <1>2, <2>5, <3>1
    <3> QED
      BY <1>2, <2>3, <3>1, <3>2
  <2> QED
    BY <2>1, <2>4, <2>5
<1>13. target' \in [state: {None, "up", "down"}, open: 0 .. 1] /\ Watch!OutagesAreClosed'
  BY <1>1 DEF WatchInv, Watch!OutagesAreClosed
<1> QED
  BY <1>1, <1>8, <1>9, <1>10, <1>11, <1>12, <1>13 DEF WatchInv, Watch!Kinds

\* A target goes down or comes up.
LEMMA TargetKeeps ==
  ASSUME WatchInv, Watch!HostIsDown \/ Watch!HostIsUp
  PROVE  WatchInv'
<1>1. /\ UNCHANGED <<kind, window, lines, counted, fired>>
      /\ Watch!Window' = Watch!Window /\ Watch!Thresh' = Watch!Thresh
  BY DEF Watch!HostIsDown, Watch!HostIsUp, Watch!Window, Watch!Thresh
<1>2. target \in [state: {None, "up", "down"}, open: 0 .. 1] /\ Watch!OutagesAreClosed
  BY DEF WatchInv
<1>3. target' \in [state: {None, "up", "down"}, open: 0 .. 1] /\ Watch!OutagesAreClosed'
  <2>1. CASE Watch!HostIsDown
    <3>1. target' = [state |-> "down", open |-> 1]
      BY <1>2, <2>1 DEF Watch!HostIsDown, Watch!OutagesAreClosed
    <3> QED
      BY <3>1 DEF Watch!OutagesAreClosed
  <2>2. CASE Watch!HostIsUp
    <3>1. target' = [state |-> "up", open |-> 0]
      BY <1>2, <2>2 DEF Watch!HostIsUp, Watch!OutagesAreClosed
    <3> QED
      BY <3>1 DEF Watch!OutagesAreClosed
  <2> QED
    BY <2>1, <2>2
<1>4. Watch!Evict(window)' = Watch!Evict(window)
  BY <1>1 DEF Watch!Evict, Watch!Young
<1> QED
  BY <1>1, <1>3, <1>4 DEF WatchInv, Watch!Kinds

\* Every step keeps the invariant.
LEMMA WatchStepKeeps == WatchInv /\ [Watch!Next]_Watch!vars => WatchInv'
<1> SUFFICES ASSUME WatchInv, [Watch!Next]_Watch!vars PROVE WatchInv'
  OBVIOUS
<1>1. CASE Watch!onWAFAudit \/ Watch!onCaddyAccess
  BY <1>1, LineKeeps DEF Watch!onWAFAudit, Watch!onCaddyAccess
<1>2. CASE Watch!HostIsDown \/ Watch!HostIsUp
  BY <1>2, TargetKeeps
<1>3. CASE Watch!Restart
  <2>1. /\ kind' = kind /\ window' = {} /\ lines' = {} /\ counted' = {} /\ target' = Watch!NoTarget
        /\ fired' = Watch!Thresh /\ Watch!Window' = Watch!Window /\ Watch!Thresh' = Watch!Thresh
    BY <1>3 DEF Watch!Restart, Watch!Window, Watch!Thresh
  <2>2. target' \in [state: {None, "up", "down"}, open: 0 .. 1] /\ Watch!OutagesAreClosed'
    BY <2>1, AlarmsAssumption DEF Watch!NoTarget, Watch!OutagesAreClosed
  <2>3. IsFiniteSet(window') /\ Cardinality(window') = 0
    BY <2>1, FS_EmptySet
  <2>4. Watch!Evict(window)' = {}
    BY <2>1 DEF Watch!Evict
  <2> QED
    BY <2>1, <2>2, <2>3, <2>4, WatchLimits DEF WatchInv, Watch!Kinds
<1>4. CASE Watch!Tick
  BY <1>4, WatchTickKeeps
<1>5. CASE UNCHANGED Watch!vars
  <2>1. /\ UNCHANGED <<kind, window, lines, counted, fired, target>>
        /\ Watch!Window' = Watch!Window /\ Watch!Thresh' = Watch!Thresh
    BY <1>5 DEF Watch!vars, Watch!Window, Watch!Thresh
  <2>2. Watch!Evict(window)' = Watch!Evict(window) /\ (Watch!OutagesAreClosed <=> Watch!OutagesAreClosed')
    BY <2>1 DEF Watch!Evict, Watch!Young, Watch!OutagesAreClosed
  <2> QED
    BY <2>1, <2>2 DEF WatchInv, Watch!Kinds
<1> QED
  BY <1>1, <1>2, <1>3, <1>4, <1>5 DEF Watch!Next

\* The invariant says what the property does of the watcher.
LEMMA WatchTells == WatchInv => Watch!TypeOK /\ Watch!BurstsAreTold /\ Watch!OutagesAreClosed
<1> SUFFICES ASSUME WatchInv PROVE Watch!TypeOK /\ Watch!BurstsAreTold /\ Watch!OutagesAreClosed
  OBVIOUS
<1>1. Watch!Uncounted \subseteq window
  BY DEF WatchInv, Watch!Evict, Watch!Uncounted
<1>2. Cardinality(Watch!Uncounted) < Watch!Thresh
  <2>1. IsFiniteSet(Watch!Uncounted) /\ Cardinality(Watch!Uncounted) <= Cardinality(window)
    BY <1>1, FS_Subset DEF WatchInv
  <2>2. Cardinality(Watch!Uncounted) \in Nat /\ Cardinality(window) \in Nat /\ Watch!Thresh \in Nat
    BY <2>1, FS_CardinalityType, WatchLimits DEF WatchInv
  <2> QED
    BY <2>1, <2>2 DEF WatchInv
<1>3. target.state \in {None, "up", "down"} /\ target.open \in 0 .. 1
  BY DEF WatchInv
<1> QED
  BY <1>2, <1>3, WatchCounts DEF WatchInv, Watch!TypeOK, Watch!BurstsAreTold

----------------------------------------------------------------------------
(* The bursts.  One that is due lies, all of it, in what a scan considers; *)
(* the first that the scan finds is told, or one told before hides it.     *)

\* Alerts, few enough to be counted and none too old.
Counted(list) == IsFiniteSet(list) /\ \A a \in list : a[1] \in 0 .. Bursts!Old

BurstsInv ==
    /\ Counted(alerts) /\ (asked # None => Counted(asked.list) /\ asked.age \in 0 .. MaxFetch)
    /\ since \in 0 .. Bursts!Old /\ seen \in 0 .. Bursts!Old /\ seen <= since + MaxFetch
    /\ fetched \in (0 .. Bursts!Old) \cup {None} /\ lastBurst \in (0 .. Bursts!Old) \cup {None}
    /\ missed = FALSE

\* What a module counts is what is counted here.
LEMMA BurstsCount == \A S : Bursts!Cardinality(S) = Cardinality(S)
BY DEF Bursts!Cardinality, Cardinality

\* A non-empty set of ages has a greatest one: fewest ages are as great.
LEMMA GreatestAge ==
  ASSUME NEW N \in Nat, NEW S \in SUBSET (0 .. N), S # {}
  PROVE  \E e \in S : \A x \in S : x <= e
<1> DEFINE R == StrictSubsetOrdering(0 .. N)
           T == {e .. N : e \in S}
<1>1. IsWellFoundedOn(R, FiniteSubsetsOf(0 .. N))
  BY FS_StrictSubsetOrderingWellFounded
<1>2. T \subseteq FiniteSubsetsOf(0 .. N) /\ T # {}
  <2>1. \A e \in S : e .. N \in SUBSET (0 .. N) /\ IsFiniteSet(e .. N)
    BY FS_Interval
  <2> QED
    BY <2>1 DEF FiniteSubsetsOf
<1>3. \A x, e \in S : e < x => <<x .. N, e .. N>> \in R
  <2> SUFFICES ASSUME NEW x \in S, NEW e \in S, e < x PROVE <<x .. N, e .. N>> \in R
    OBVIOUS
  <2>1. x .. N \subseteq e .. N /\ e \in e .. N /\ e \notin x .. N /\ e .. N \subseteq 0 .. N
    OBVIOUS
  <2>2. x .. N # e .. N /\ x .. N \in SUBSET (0 .. N) /\ e .. N \in SUBSET (0 .. N)
    BY <2>1
  <2> QED
    BY <2>1, <2>2, Zenon DEF R, StrictSubsetOrdering
<1>4. (\A t \in T : \E e \in S : t = e .. N) /\ \A e \in S : e .. N \in T
  OBVIOUS
<1> HIDE DEF R, T
<1>5. PICK t \in T : \A y \in T : ~(<<y, t>> \in R)
  BY <1>1, <1>2, WFMin
<1>6. PICK e \in S : t = e .. N
  BY <1>4
<1>7. \A x \in S : ~(e < x)
  BY <1>3, <1>4, <1>5, <1>6
<1> QED
  BY <1>7

\* A list in which a burst ends changes what was told last to the end of one of its
\* bursts, or what was told last is no older than its oldest alert.
LEMMA ToldIsListed ==
  ASSUME BurstsInv, NEW list, Counted(list), NEW limit \in Nat, \A a \in list : a[1] <= limit
  PROVE  /\ Bursts!Told(list) \in (0 .. Bursts!Old) \cup {None}
         /\ Bursts!Ends(list, BurstWindow) # {} =>
              \/ Bursts!Told(list) # lastBurst
              \/ lastBurst # None /\ lastBurst <= limit
<1> DEFINE ends == Bursts!Ends(list, BurstWindow)
           end == CHOOSE e \in ends : \A x \in ends : x <= e
<1>1. Bursts!Old \in Nat /\ None \notin Nat
  BY AlarmsAssumption DEF Bursts!Old
<1>2. ends \subseteq 0 .. Bursts!Old /\ \A e \in ends : e <= limit
  BY DEF Counted, Bursts!Ends
<1>3. Bursts!Told(list) = IF ends = {} THEN lastBurst
                          ELSE IF lastBurst = None \/ end < lastBurst THEN end ELSE lastBurst
  BY DEF Bursts!Told
<1>4. lastBurst \in (0 .. Bursts!Old) \cup {None}
  BY DEF BurstsInv
<1>5. CASE ends = {}
  BY <1>3, <1>4, <1>5
<1>6. CASE ends # {}
  <2> HIDE DEF ends
  <2>1. \E e \in ends : \A x \in ends : x <= e
    BY <1>1, <1>2, <1>6, GreatestAge
  <2>2. end \in ends
    BY <2>1
  <2> HIDE DEF end
  <2>3. end \in 0 .. Bursts!Old /\ end <= limit
    BY <1>2, <2>2
  <2> QED
    BY <1>1, <1>3, <1>4, <1>6, <2>3 DEF ends
<1> QED
  BY <1>5, <1>6

\* What is considered holds the whole of a burst that is due.
LEMMA DueIsConsidered ==
  ASSUME BurstsInv, NEW list, Counted(list), Bursts!Due(list) # {}
  PROVE  Bursts!Ends(Bursts!Considered(list), BurstWindow) # {}
<1> DEFINE limit == since + BurstWindow
           found == Bursts!Considered(list)
<1>1. /\ since \in Nat /\ seen \in Nat /\ seen <= since + MaxFetch
      /\ BurstWindow \in Nat /\ BurstThresh \in Nat /\ MaxFetch \in 0 .. BurstWindow
  BY AlarmsAssumption DEF BurstsInv, Bursts!Old
<1>2. PICK e \in Nat, span \in 0 .. BurstWindow : e \in Bursts!Ends(list, span) /\ e + span <= limit
  <2>1. PICK e : \/ e \in Bursts!Ends(list, BurstWindow) /\ e <= since
                 \/ e \in Bursts!Ends(list, BurstWindow - MaxFetch) /\ e <= seen
    BY DEF Bursts!Due
  <2>2. e \in Nat
    BY <1>1, <2>1, AlarmsAssumption DEF Bursts!Ends, Counted, Bursts!Old
  <2>3. CASE e \in Bursts!Ends(list, BurstWindow) /\ e <= since
    <3>1. BurstWindow \in 0 .. BurstWindow /\ e + BurstWindow <= limit
      BY <1>1, <2>2, <2>3
    <3> QED
      BY <2>2, <2>3, <3>1
  <2>4. CASE e \in Bursts!Ends(list, BurstWindow - MaxFetch) /\ e <= seen
    <3>1. BurstWindow - MaxFetch \in 0 .. BurstWindow /\ e + (BurstWindow - MaxFetch) <= limit
      BY <1>1, <2>2, <2>4
    <3> QED
      BY <2>2, <2>4, <3>1
  <2> QED
    BY <2>1, <2>3, <2>4
<1>3. PICK b \in list : e = b[1] /\ Cardinality(Bursts!Within(list, b, span)) >= BurstThresh
  BY <1>2, BurstsCount DEF Bursts!Ends
<1>4. b[1] \in Nat /\ \A a \in list : a[1] \in Nat
  BY AlarmsAssumption DEF Counted, Bursts!Old
<1>5. b \in found
  BY <1>1, <1>2, <1>3, <1>4 DEF Bursts!Considered
<1>6. Bursts!Within(list, b, span) \subseteq Bursts!Within(found, b, BurstWindow)
  <2>1. \A c \in list : c[1] >= b[1] /\ c[1] - b[1] <= span
                           => c[1] <= limit /\ c[1] - b[1] <= BurstWindow
    BY <1>1, <1>2, <1>3, <1>4
  <2> QED
    BY <2>1 DEF Bursts!Within, Bursts!Considered
<1>7. IsFiniteSet(Bursts!Within(found, b, BurstWindow))
  <2>1. Bursts!Within(found, b, BurstWindow) \subseteq list
    BY DEF Bursts!Within, Bursts!Considered
  <2> QED
    BY <2>1, FS_Subset DEF Counted
<1>8. Cardinality(Bursts!Within(found, b, BurstWindow)) >= BurstThresh
  <2>1. Cardinality(Bursts!Within(list, b, span)) <= Cardinality(Bursts!Within(found, b, BurstWindow))
    BY <1>6, <1>7, FS_Subset
  <2>2. /\ Cardinality(Bursts!Within(list, b, span)) \in Nat
        /\ Cardinality(Bursts!Within(found, b, BurstWindow)) \in Nat
    BY <1>6, <1>7, FS_Subset, FS_CardinalityType
  <2> QED
    BY <1>1, <1>3, <2>1, <2>2
<1> QED
  BY <1>5, <1>8, BurstsCount DEF Bursts!Ends

\* A scan: what was due is told, or is hidden.
LEMMA ScanKeeps ==
  ASSUME BurstsInv, asked # None, Bursts!detectBursts(asked.list)
  PROVE  /\ lastBurst' \in (0 .. Bursts!Old) \cup {None} /\ missed' = FALSE
         /\ since' \in 0 .. Bursts!Old /\ seen' \in 0 .. Bursts!Old /\ seen' <= since' + MaxFetch
<1> DEFINE limit == since + BurstWindow
           list == Bursts!Considered(asked.list)
<1>1. /\ Bursts!Old \in Nat /\ BurstWindow \in Nat /\ since \in Nat
      /\ MaxFetch \in 0 .. BurstWindow /\ MaxFetch <= Bursts!Old
  BY AlarmsAssumption DEF BurstsInv, Bursts!Old
<1>2. Counted(asked.list) /\ asked.age \in 0 .. MaxFetch
  BY DEF BurstsInv
<1>3. limit \in Nat /\ Counted(list) /\ \A a \in list : a[1] <= limit
  BY <1>1, <1>2, FS_Subset DEF Counted, Bursts!Considered
<1>4. /\ Bursts!Told(list) \in (0 .. Bursts!Old) \cup {None}
      /\ Bursts!Ends(list, BurstWindow) # {} =>
           Bursts!Told(list) # lastBurst \/ (lastBurst # None /\ lastBurst <= limit)
  BY <1>3, ToldIsListed
<1>5. /\ lastBurst' = Bursts!Told(list) /\ since' = 0 /\ seen' = asked.age
      /\ missed' = (missed \/ (Bursts!Due(asked.list) # {} /\ ~Bursts!Hidden /\ lastBurst' = lastBurst))
  BY DEF Bursts!detectBursts
<1>6. ~(Bursts!Due(asked.list) # {} /\ ~Bursts!Hidden /\ Bursts!Told(list) = lastBurst)
  BY <1>2, <1>4, DueIsConsidered DEF Bursts!Hidden
<1>7. missed' = FALSE
  BY <1>5, <1>6 DEF BurstsInv
<1> QED
  BY <1>1, <1>2, <1>4, <1>5, <1>7

\* Nothing has happened; or the panel starts again, and the LAPI's alerts are there.
LEMMA BurstsForget ==
  ASSUME Counted(alerts), asked = None, since = 0, seen = 0, fetched = None, lastBurst = None,
         missed = FALSE
  PROVE  BurstsInv
BY AlarmsAssumption DEF BurstsInv, Bursts!Old

\* A tick later the alerts are as few, and none too old.
LEMMA AgedAreCounted ==
  ASSUME NEW list, Counted(list) PROVE Counted(Bursts!Aged(list))
<1> DEFINE S == {b \in list : b[1] + 1 < Bursts!Old}
           T == Bursts!Aged(list)
           f == [a \in S |-> <<a[1] + 1, a[2]>>]
<1>1. T = {<<a[1] + 1, a[2]>> : a \in S}
  BY DEF Bursts!Aged
<1>2. IsFiniteSet(S)
  BY FS_Subset DEF Counted
<1>3. f \in Surjection(S, T)
  BY <1>1 DEF Surjection
<1>4. IsFiniteSet(T)
  BY <1>2, <1>3, FS_Surjection
<1>5. \A a \in T : a[1] \in 0 .. Bursts!Old
  BY <1>1, AlarmsAssumption DEF Counted, Bursts!Old
<1> QED
  BY <1>4, <1>5 DEF Counted

\* Every step keeps the invariant.
LEMMA BurstsStepKeeps == BurstsInv /\ [Bursts!Next]_Bursts!vars => BurstsInv'
<1> SUFFICES ASSUME BurstsInv, [Bursts!Next]_Bursts!vars PROVE BurstsInv'
  OBVIOUS
<1>1. Bursts!Old \in Nat /\ None \notin Nat /\ Bursts!Old' = Bursts!Old /\ MaxFetch \in Nat
  BY AlarmsAssumption DEF Bursts!Old
<1>2. CASE Bursts!Alert
  <2>1. PICK a : alerts' = alerts \cup {<<0, a>>}
    BY <1>2 DEF Bursts!Alert
  <2>2. IsFiniteSet(alerts')
    BY <2>1, FS_AddElement DEF BurstsInv, Counted
  <2>3. \A b \in alerts' : b[1] \in 0 .. Bursts!Old
    BY <1>1, <2>1 DEF BurstsInv, Counted
  <2> QED
    BY <1>1, <1>2, <2>2, <2>3 DEF BurstsInv, Bursts!Alert, Counted
<1>3. CASE Bursts!Fetch
  <2>1. asked' = [list |-> alerts, age |-> 0]
    BY <1>3 DEF Bursts!Fetch
  <2>2. Counted(asked'.list) /\ asked'.age \in 0 .. MaxFetch
    BY <1>1, <2>1 DEF BurstsInv
  <2> QED
    BY <1>1, <1>3, <2>2 DEF BurstsInv, Bursts!Fetch, Counted
<1>4. CASE \E ok \in BOOLEAN : Bursts!Answer(ok)
  <2>1. /\ alerts' = alerts /\ fetched' = 0 /\ asked # None /\ asked' = None
        /\ Bursts!detectBursts(asked.list) \/ UNCHANGED <<since, lastBurst, seen, missed>>
    BY <1>4, Zenon DEF Bursts!Answer
  <2>2. fetched' \in (0 .. Bursts!Old) \cup {None}
    BY <1>1, <2>1
  <2>3. CASE Bursts!detectBursts(asked.list)
    BY <1>1, <2>1, <2>2, <2>3, ScanKeeps DEF BurstsInv, Counted
  <2>4. CASE UNCHANGED <<since, lastBurst, seen, missed>>
    BY <1>1, <2>1, <2>2, <2>4 DEF BurstsInv, Counted
  <2> QED
    BY <2>1, <2>3, <2>4
<1>5. CASE Bursts!Restart
  BY <1>1, <1>5 DEF BurstsInv, Bursts!Restart, Counted
<1>6. CASE Bursts!Tick
  <2>1. /\ alerts' = Bursts!Aged(alerts)
        /\ asked' = IF asked = None THEN None ELSE [list |-> Bursts!Aged(asked.list), age |-> asked.age + 1]
        /\ asked # None => asked.age < MaxFetch
    BY <1>6 DEF Bursts!Tick
  <2>2. Counted(Bursts!Aged(alerts)) /\ (asked # None => Counted(Bursts!Aged(asked.list)))
    BY AgedAreCounted DEF BurstsInv
  <2>3. Counted(alerts)' /\ (asked' # None => Counted(asked'.list) /\ asked'.age \in 0 .. MaxFetch)
    BY <1>1, <2>1, <2>2 DEF BurstsInv
  <2>4. /\ \A n \in 0 .. Bursts!Old : Bursts!Older(n) \in 0 .. Bursts!Old
        /\ \A n, m \in 0 .. Bursts!Old : n <= m + MaxFetch => Bursts!Older(n) <= Bursts!Older(m) + MaxFetch
        /\ Bursts!Older(None) = None
    BY <1>1 DEF Bursts!Older
  <2>5. /\ since' = Bursts!Older(since) /\ fetched' = Bursts!Older(fetched)
        /\ lastBurst' = Bursts!Older(lastBurst) /\ seen' = Bursts!Older(seen) /\ missed' = missed
    BY <1>6 DEF Bursts!Tick
  <2> QED
    BY <1>1, <2>3, <2>4, <2>5 DEF BurstsInv, Counted
<1>7. CASE UNCHANGED Bursts!vars
  BY <1>1, <1>7 DEF BurstsInv, Bursts!vars, Counted
<1> QED
  BY <1>2, <1>3, <1>4, <1>5, <1>6, <1>7 DEF Bursts!Next

\* The invariant says what the property does of the bursts.
LEMMA BurstsTell == BurstsInv => Bursts!TypeOK /\ Bursts!ScansTell
BY DEF BurstsInv, Bursts!TypeOK, Bursts!ScansTell
----------------------------------------------------------------------------
\* AlarmsAreRaised, for every value of the constants: what stays down is told about
\* within the quiet and an outage of AppSec once (HealthCron, Health); the lines of a
\* burst are told about once and a target's outage is closed once (LogWatcher); and a
\* scan tells of a burst that ended since the one before, unless it still sees the one
\* told last (detectBursts).
THEOREM AlarmsAreRaisedHolds == Crons!Spec /\ Watch!Spec /\ Bursts!Spec => []AlarmsAreRaised
<1>1. Crons!Init => CronsInv
  BY CronsForget DEF Crons!Init
<1>2. CronsInv /\ [Crons!Next]_Crons!vars => CronsInv'
  BY CronsStepKeeps
<1>3. Watch!Init => WatchInv
  BY WatchForgets DEF Watch!Init
<1>4. WatchInv /\ [Watch!Next]_Watch!vars => WatchInv'
  BY WatchStepKeeps
<1>5. Bursts!Init => BurstsInv
  <2> SUFFICES ASSUME Bursts!Init PROVE BurstsInv
    OBVIOUS
  <2>1. /\ alerts = {} /\ asked = None /\ since = 0 /\ seen = 0 /\ fetched = None
        /\ lastBurst = None /\ missed = FALSE
    BY DEF Bursts!Init
  <2>2. Counted(alerts)
    BY <2>1, FS_EmptySet DEF Counted
  <2> QED
    BY <2>1, <2>2, BurstsForget
<1>6. BurstsInv /\ [Bursts!Next]_Bursts!vars => BurstsInv'
  BY BurstsStepKeeps
<1>7. CronsInv /\ WatchInv /\ BurstsInv => AlarmsAreRaised
  BY CronsTell, WatchTells, BurstsTell DEF AlarmsAreRaised
<1> QED
  BY <1>1, <1>2, <1>3, <1>4, <1>5, <1>6, <1>7, PTL DEF Crons!Spec, Watch!Spec, Bursts!Spec
=============================================================================
