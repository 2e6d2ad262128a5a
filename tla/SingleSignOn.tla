---------------------------- MODULE SingleSignOn ----------------------------
(***************************************************************************)
(* Sign-in through an OIDC provider.  A login parks a pending flow and     *)
(* sends the browser away; the callback finds the flow, redeems the code   *)
(* at the issuer, drops the flow, and finds or creates the row of the      *)
(* identity before it opens a session.  The provider built from the        *)
(* settings is kept between requests; a change of the settings writes key  *)
(* by key.  The issuer and the users' addresses there are the environment. *)
(***************************************************************************)
EXTENDS Integers, FiniteSets

CONSTANTS
    Callbacks,     \* concurrent callbacks
    Subjects,      \* identities at the issuers
    Emails,
    Addresses,     \* the address each identity has at first
    None,
    First, Configs,  \* the first settings, and what a PUT may write: issuer, client, auto
    Disturbances,  \* what may happen around them: "put", "move", "expire", "restart"
    MaxFlows, MaxStarts, MaxDisturbances   \* bounds

VARIABLES
    setting,   \* the oidc.* settings, by key
    put,       \* the PUT in progress: the keys it has yet to write
    provider,  \* OIDCProviderCache: the configuration it was built from
    flow,      \* PendingStore: each flow, open or expired, None when absent
    email,     \* at the issuer: each identity's address
    users,     \* table users: the rows, local and provisioned
    callback,  \* where each callback is
    sessions,  \* sessions issued: the flow, its identity, the row
    counts     \* flows, callbacks and disturbances so far

settingVars == <<setting, put, provider>>
vars == <<settingVars, flow, email, users, callback, sessions, counts>>

SettingKeys == {"issuer", "client", "auto"}
Flows == 1 .. MaxFlows
\* usernameCandidate gives every identity the same name here, the case the
\* second name is for.
Candidate == "name"
Alternative == "name-oidc"
Local == [name |-> Candidate, sub |-> None, email |-> None]
Idle  == [pc |-> "idle", flow |-> 0, cfg |-> None, provider |-> None, sub |-> None,
          email |-> None, name |-> None]
Counted(f) == counts' = [counts EXCEPT ![f] = @ + 1]
Disturbance(d) ==
    d \in Disturbances /\ counts.disturbances < MaxDisturbances /\ Counted("disturbances")

Init ==
    /\ setting = First /\ put = None /\ provider = None
    /\ flow = [f \in Flows |-> None]
    /\ email = Addresses
    /\ users \in {{}, {Local}}
    /\ callback = [c \in Callbacks |-> Idle] /\ sessions = {}
    /\ counts = [flows |-> 0, starts |-> 0, disturbances |-> 0]

At(c, pc)   == callback[c].pc = pc
Goto(c, pc) == callback' = [callback EXCEPT ![c].pc = pc]
End(c)      == callback' = [callback EXCEPT ![c] = Idle]
----------------------------------------------------------------------------
(* OIDCConfigPut *)

PutBegin(v) ==
    /\ put = None /\ v # setting /\ Disturbance("put")
    /\ put' = [todo |-> {k \in SettingKeys : v[k] # setting[k]}, value |-> v]
    /\ UNCHANGED <<setting, provider, flow, email, users, callback, sessions>>

\* The keys are written one statement each, in no particular order.
UpsertSetting ==
    /\ put # None
    /\ \E k \in put.todo :
          /\ setting' = [setting EXCEPT ![k] = put.value[k]]
          /\ put' = [put EXCEPT !.todo = @ \ {k}]
    /\ UNCHANGED <<provider, flow, email, users, callback, sessions, counts>>

InvalidateProvider ==
    /\ put # None /\ put.todo = {} /\ put' = None /\ provider' = None
    /\ UNCHANGED <<setting, flow, email, users, callback, sessions, counts>>
----------------------------------------------------------------------------
(* OIDCLogin, and the addresses at the issuer *)

fingerprint(cfg) == [issuer |-> cfg.issuer, client |-> cfg.client]

\* The provider comes from the cache or from discovery; the flow is parked
\* either way.
StartAuth ==
    /\ counts.flows < MaxFlows /\ Counted("flows")
    /\ provider' = fingerprint(setting)
    /\ flow' = [flow EXCEPT ![counts.flows + 1] = "open"]
    /\ UNCHANGED <<setting, put, email, users, callback, sessions>>

\* An address changes hands.
Reassign(s, t) ==
    /\ s # t /\ Disturbance("move")
    /\ email' = [email EXCEPT ![s] = email[t], ![t] = email[s]]
    /\ UNCHANGED <<settingVars, flow, users, callback, sessions>>
----------------------------------------------------------------------------
(* OIDCCallback *)

\* oidc.Load
CallbackBegin(c, f) ==
    /\ At(c, "idle") /\ f <= counts.flows /\ counts.starts < MaxStarts /\ Counted("starts")
    /\ callback' = [callback EXCEPT ![c] =
          [Idle EXCEPT !.pc = "provider", !.flow = f, !.cfg = setting]]
    /\ UNCHANGED <<settingVars, flow, email, users, sessions>>

\* OIDCProviderCache.get: only a provider of the same fingerprint is a hit.
ProviderGet(c) ==
    /\ At(c, "provider")
    /\ IF provider = fingerprint(callback[c].cfg)
       THEN callback' = [callback EXCEPT ![c].pc = "pending", ![c].provider = provider]
       ELSE Goto(c, "discover")
    /\ UNCHANGED <<settingVars, flow, email, users, sessions, counts>>

\* LoadProvider, outside the lock; it stores what it built even if the
\* settings were changed meanwhile.
LoadProvider(c) ==
    /\ At(c, "discover")
    /\ \/ End(c) /\ UNCHANGED provider
       \/ /\ provider' = fingerprint(callback[c].cfg)
          /\ callback' = [callback EXCEPT ![c].pc = "pending", ![c].provider = provider']
    /\ UNCHANGED <<setting, put, flow, email, users, sessions, counts>>

\* HandleCallback up to the exchange.
FindPending(c) ==
    /\ At(c, "pending")
    /\ LET f == callback[c].flow IN
       IF flow[f] = "open"
       THEN Goto(c, "exchange") /\ UNCHANGED flow
       ELSE End(c) /\ flow' = [flow EXCEPT ![f] = None]
    /\ UNCHANGED <<settingVars, email, users, sessions, counts>>

\* The exchange, and the checks of the token.  The browser may bring a code that
\* is no longer good, or, sent twice through the issuer's page, a fresh one.
Exchange(c) ==
    /\ At(c, "exchange")
    /\ \/ End(c)
       \/ \E s \in Subjects :
             callback' = [callback EXCEPT ![c].pc = "drop", ![c].sub = s, ![c].email = email[s],
                                          ![c].provider = None]
    /\ UNCHANGED <<settingVars, flow, email, users, sessions, counts>>

DropPending(c) ==
    /\ At(c, "drop") /\ Goto(c, "find")
    /\ flow' = [flow EXCEPT ![callback[c].flow] = None]
    /\ UNCHANGED <<settingVars, email, users, sessions, counts>>
----------------------------------------------------------------------------
(* UpsertUserFromClaims *)

OpenSession(c, row) ==
    sessions' = sessions \cup {[id |-> Cardinality(sessions) + 1, flow |-> callback[c].flow,
                                sub |-> callback[c].sub, row |-> row.sub]}

\* The row is found by its subject, and its address brought up to date; an
\* address that is unverified or not on the list is refused before that.
FindUser(c) ==
    /\ At(c, "find")
    /\ \/ \E u \in users :
             /\ u.sub = callback[c].sub
             /\ users' = (users \ {u}) \cup {[u EXCEPT !.email = callback[c].email]}
             /\ OpenSession(c, u) /\ End(c)
       \/ /\ \A u \in users : u.sub # callback[c].sub
          /\ IF callback[c].cfg.auto THEN Goto(c, "name") ELSE End(c)
          /\ UNCHANGED <<users, sessions>>
       \/ End(c) /\ UNCHANGED <<users, sessions>>
    /\ UNCHANGED <<settingVars, flow, email, counts>>

Taken(n) == \E u \in users : u.name = n

\* The suffix is added once; a second collision is for the operator.
uniqueUsername(c) ==
    /\ At(c, "name")
    /\ IF ~Taken(Candidate) THEN callback' = [callback EXCEPT ![c].pc = "insert", ![c].name = Candidate]
       ELSE IF ~Taken(Alternative)
       THEN callback' = [callback EXCEPT ![c].pc = "insert", ![c].name = Alternative]
       ELSE End(c)
    /\ UNCHANGED <<settingVars, flow, email, users, sessions, counts>>

NewRow(c) == [name |-> callback[c].name, sub |-> callback[c].sub, email |-> callback[c].email]

\* Mutant: without the index on the external identity.
InsertNameOnly(c) ==
    /\ At(c, "insert") /\ End(c)
    /\ IF Taken(callback[c].name) THEN UNCHANGED <<users, sessions>>
       ELSE users' = users \cup {NewRow(c)} /\ OpenSession(c, NewRow(c))
    /\ UNCHANGED <<settingVars, flow, email, counts>>

\* Both unique indexes refuse what the checks before it may have missed.
InsertUser(c) ==
    /\ At(c, "insert") /\ End(c)
    /\ IF Taken(callback[c].name) \/ \E u \in users : u.sub = callback[c].sub
       THEN UNCHANGED <<users, sessions>>
       ELSE users' = users \cup {NewRow(c)} /\ OpenSession(c, NewRow(c))
    /\ UNCHANGED <<settingVars, flow, email, counts>>
----------------------------------------------------------------------------
(* The clock, the sweeper and the process *)

\* A flow outlives PendingTTL.
Expire(f) ==
    /\ flow[f] = "open" /\ Disturbance("expire")
    /\ flow' = [flow EXCEPT ![f] = "expired"]
    /\ UNCHANGED <<settingVars, email, users, callback, sessions>>

SweepPending ==
    /\ \E f \in Flows : flow[f] = "expired"
    /\ flow' = [f \in Flows |-> IF flow[f] = "expired" THEN None ELSE flow[f]]
    /\ UNCHANGED <<settingVars, email, users, callback, sessions, counts>>

\* A PUT that dies leaves some of its keys written.
Restart ==
    /\ Disturbance("restart")
    /\ put' = None /\ provider' = None
    /\ flow' = [f \in Flows |-> None] /\ callback' = [c \in Callbacks |-> Idle]
    /\ UNCHANGED <<setting, email, users, sessions>>

Next ==
    \/ \E v \in Configs : PutBegin(v)
    \/ UpsertSetting \/ InvalidateProvider \/ StartAuth
    \/ \E s, t \in Subjects : Reassign(s, t)
    \/ \E c \in Callbacks, f \in Flows : CallbackBegin(c, f)
    \/ \E c \in Callbacks :
          \/ ProviderGet(c) \/ LoadProvider(c) \/ FindPending(c) \/ Exchange(c)
          \/ DropPending(c) \/ FindUser(c) \/ uniqueUsername(c) \/ InsertUser(c)
    \/ \E f \in Flows : Expire(f)
    \/ SweepPending \/ Restart

Spec == Init /\ [][Next]_vars
----------------------------------------------------------------------------
\* What the parameters are: every setting has the three keys.
Settings == [issuer: {c.issuer : c \in Configs \cup {First}},
             client: {c.client : c \in Configs \cup {First}}, auto: BOOLEAN]
Parameters ==
    /\ IsFiniteSet(Callbacks) /\ MaxFlows \in Nat
    /\ First \in Settings /\ Configs \subseteq Settings
    /\ Addresses \in [Subjects -> Emails]
    /\ None # "open"
----------------------------------------------------------------------------
(* Properties *)

\* Types; a provisioned name has the suffix once at most.
TypeOK ==
    /\ setting \in Settings
    /\ flow \in [Flows -> {"open", "expired", None}]
    /\ users \subseteq [name: {Candidate, Alternative}, sub: Subjects \cup {None},
                        email: Emails \cup {None}]

\* One row per identity and one identity per name, however two first sign-ins
\* of one identity, or of two that ask for the same name, interleave.
OneRowEach == \A u, v \in users : u.sub = v.sub \/ u.name = v.name => u = v

\* A sign-in opens the row of its own identity, whatever became of the
\* addresses since that row was created.
SessionIsOwn == \A s \in sessions : s.row = s.sub

\* A flow is good for one sign-in, and for the callbacks that had found it
\* before the first of them dropped it.
FlowIsSingleUse ==
    \A f \in Flows : Cardinality({s \in sessions : s.flow = f}) <= Cardinality(Callbacks)

\* A callback talks to the issuer with the provider of the settings it read,
\* although a slow discovery stores its own after the PUT has dropped it.
ProviderMatches ==
    \A c \in Callbacks : callback[c].provider # None => callback[c].provider = fingerprint(callback[c].cfg)

\* All of it: a sign-in opens the row of its own identity, a flow for no more of
\* them than callbacks can have found it, with the provider of the settings read.
SignOnIsOwn == TypeOK /\ OneRowEach /\ SessionIsOwn /\ FlowIsSingleUse /\ ProviderMatches
=============================================================================
