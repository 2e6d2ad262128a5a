------------------------- MODULE SingleSignOn_proofs -------------------------
(***************************************************************************)
(* Proofs about SingleSignOn for any identities, settings, flows and any   *)
(* number of concurrent callbacks: a sign-in opens the row of its own      *)
(* identity, of which there is one, and a flow is good for no more         *)
(* sign-ins than callbacks can have found it.                              *)
(***************************************************************************)
EXTENDS SingleSignOn, FiniteSetTheorems, TLAPS

Fingerprints == {fingerprint(v) : v \in Settings}
Stages == {"idle", "provider", "discover", "pending", "exchange", "drop", "find", "name", "insert"}
Place  == [pc: Stages, flow: 0 .. MaxFlows, cfg: Settings \cup {None},
           provider: Fingerprints \cup {None}, sub: Subjects \cup {None},
           email: Emails \cup {None}, name: {Candidate, Alternative, None}]
Known  == {v \in Place :
             /\ v.pc # "idle" => v.flow \in Flows
             /\ v.pc = "idle" => v.flow = 0
             /\ v.pc \in {"provider", "discover"} => v.cfg \in Settings
             /\ v.pc \in {"drop", "find", "name", "insert"} => v.sub \in Subjects
             /\ v.pc = "insert" => v.name \in {Candidate, Alternative}}
Row    == [name: {Candidate, Alternative}, sub: Subjects \cup {None}, email: Emails \cup {None}]

\* The types, and what a callback knows at each of its steps.
Typed ==
    /\ setting \in Settings
    /\ put # None => put.todo \subseteq SettingKeys /\ put.value \in Settings
    /\ flow \in [Flows -> {"open", "expired", None}]
    /\ email \in [Subjects -> Emails]
    /\ users \subseteq Row
    /\ callback \in [Callbacks -> Known]
    /\ counts \in [flows: 0 .. MaxFlows, starts: Nat, disturbances: Nat]
----------------------------------------------------------------------------
\* A callback that is done is nowhere.
LEMMA IdleFacts == /\ Idle.pc = "idle" /\ Idle.flow = 0 /\ Idle.provider = None
                   /\ MaxFlows \in Nat => Idle \in Place
  BY DEF Idle, Place, Stages

\* Every step of a callback keeps what it knows.
LEMMA PlaceStep ==
    ASSUME Parameters, Typed, [Next]_vars
    PROVE  callback' \in [Callbacks -> Known]
<1> USE DEF settingVars, Counted, Disturbance, At, Goto, End
<1>1. callback \in [Callbacks -> Known] /\ MaxFlows \in Nat /\ setting \in Settings
      /\ Idle \in Place /\ email \in [Subjects -> Emails] /\ Flows \subseteq 0 .. MaxFlows
  BY IdleFacts DEF Typed, Parameters, Flows
<1>2. \A c \in Callbacks : callback[c] \in Known
  BY <1>1
<1>3. ASSUME NEW c \in Callbacks, NEW v, callback' = [callback EXCEPT ![c] = v], v \in Known
      PROVE  callback' \in [Callbacks -> Known]
  BY <1>1, <1>2, <1>3
<1>4. Idle \in Known
  BY <1>1, IdleFacts DEF Idle, Known
<1>5. ASSUME NEW c \in Callbacks, End(c) PROVE callback' \in [Callbacks -> Known]
  BY <1>3, <1>4, <1>5
<1>6. ASSUME NEW c \in Callbacks, NEW pc \in {"discover", "exchange", "find", "name"}, Goto(c, pc),
             pc = "discover" => callback[c].pc = "provider",
             pc = "exchange" => callback[c].pc = "pending",
             pc = "find" => callback[c].pc = "drop",
             pc = "name" => callback[c].pc = "find"
      PROVE  callback' \in [Callbacks -> Known]
  <2> DEFINE v == [callback[c] EXCEPT !.pc = pc]
  <2>1. callback[c] \in Known
    BY <1>2
  <2>2. v \in Known
    BY <1>6, <2>1 DEF Known, Place, Stages
  <2>3. callback' = [callback EXCEPT ![c] = v]
    BY <1>6
  <2> HIDE DEF v
  <2> QED
    BY <1>3, <2>2, <2>3
<1>7. CASE callback' = callback
  BY <1>1, <1>7
<1>8. CASE (\E v \in Configs : PutBegin(v)) \/ UpsertSetting \/ InvalidateProvider \/ StartAuth
           \/ (\E s, t \in Subjects : Reassign(s, t)) \/ (\E f \in Flows : Expire(f))
           \/ SweepPending \/ UNCHANGED vars
  <2>1. callback' = callback
    BY <1>8 DEF PutBegin, UpsertSetting, InvalidateProvider, StartAuth, Reassign, Expire,
       SweepPending, vars
  <2> QED
    BY <1>7, <2>1
<1>9. ASSUME NEW c \in Callbacks, NEW f \in Flows, CallbackBegin(c, f)
      PROVE  callback' \in [Callbacks -> Known]
  <2> DEFINE v == [Idle EXCEPT !.pc = "provider", !.flow = f, !.cfg = setting]
  <2>1. v \in Known
    BY <1>1 DEF Known, Idle, Place, Stages
  <2>2. callback' = [callback EXCEPT ![c] = v]
    BY <1>9 DEF CallbackBegin
  <2> HIDE DEF v
  <2> QED
    BY <1>3, <2>1, <2>2
<1>10. ASSUME NEW c \in Callbacks, ProviderGet(c) \/ LoadProvider(c)
       PROVE  callback' \in [Callbacks -> Known]
  <2> DEFINE p == fingerprint(callback[c].cfg)
             v == [callback[c] EXCEPT !.pc = "pending", !.provider = p]
  <2>1. callback[c] \in Known /\ callback[c].pc \in {"provider", "discover"} /\ p \in Fingerprints
    BY <1>2, <1>10 DEF ProviderGet, LoadProvider, Fingerprints, Known
  <2>2. v \in Known
    BY <2>1 DEF Known, Place, Stages
  <2>3. \/ callback' = [callback EXCEPT ![c] = v] \/ End(c)
        \/ callback[c].pc = "provider" /\ Goto(c, "discover")
    BY <1>1, <1>10 DEF ProviderGet, LoadProvider
  <2> HIDE DEF v, Goto, End
  <2> QED
    BY <1>3, <1>5, <1>6, <2>1, <2>2, <2>3
<1>11. ASSUME NEW c \in Callbacks, FindPending(c) \/ DropPending(c) \/ FindUser(c) \/ InsertUser(c)
       PROVE  callback' \in [Callbacks -> Known]
  <2>1. \/ End(c)
        \/ callback[c].pc = "pending" /\ Goto(c, "exchange")
        \/ callback[c].pc = "drop" /\ Goto(c, "find")
        \/ callback[c].pc = "find" /\ Goto(c, "name")
    BY <1>11 DEF FindPending, DropPending, FindUser, InsertUser
  <2> HIDE DEF Goto, End
  <2> QED
    BY <1>5, <1>6, <2>1
<1>12. ASSUME NEW c \in Callbacks, Exchange(c) PROVE callback' \in [Callbacks -> Known]
  <2>1. ASSUME NEW s \in Subjects,
               callback' = [callback EXCEPT ![c].pc = "drop", ![c].sub = s, ![c].email = email[s],
                                            ![c].provider = None]
        PROVE  callback' \in [Callbacks -> Known]
    <3> DEFINE v == [callback[c] EXCEPT !.pc = "drop", !.sub = s, !.email = email[s], !.provider = None]
    <3>1. callback[c] \in Known /\ callback[c].pc = "exchange" /\ email[s] \in Emails
      BY <1>1, <1>2, <1>12 DEF Exchange
    <3>2. v \in Known
      BY <3>1 DEF Known, Place, Stages
    <3>3. callback' = [callback EXCEPT ![c] = v]
      BY <1>1, <2>1
    <3> HIDE DEF v
    <3> QED
      BY <1>3, <3>2, <3>3
  <2> QED
    BY <1>5, <1>12, <2>1 DEF Exchange
<1>13. ASSUME NEW c \in Callbacks, uniqueUsername(c) PROVE callback' \in [Callbacks -> Known]
  <2>1. ASSUME NEW n \in {Candidate, Alternative},
               callback' = [callback EXCEPT ![c].pc = "insert", ![c].name = n]
        PROVE  callback' \in [Callbacks -> Known]
    <3> DEFINE v == [callback[c] EXCEPT !.pc = "insert", !.name = n]
    <3>1. callback[c] \in Known /\ callback[c].pc = "name"
      BY <1>2, <1>13 DEF uniqueUsername
    <3>2. v \in Known
      BY <3>1 DEF Known, Place, Stages
    <3>3. callback' = [callback EXCEPT ![c] = v]
      BY <1>1, <2>1
    <3> HIDE DEF v
    <3> QED
      BY <1>3, <3>2, <3>3
  <2> QED
    BY <1>5, <1>13, <2>1 DEF uniqueUsername
<1>14. CASE Restart
  BY <1>4, <1>14 DEF Restart
<1> HIDE DEF At, Goto, End
<1> QED
  BY <1>8, <1>9, <1>10, <1>11, <1>12, <1>13, <1>14 DEF Next

\* Every step keeps the types.
LEMMA TypeStep == ASSUME Parameters, Typed, [Next]_vars PROVE Typed'
<1> USE DEF settingVars, Counted, Disturbance
<1>1. callback' \in [Callbacks -> Known]
  BY PlaceStep
<1>2. setting \in Settings /\ setting' \in Settings
      /\ (put' # None => put'.todo \subseteq SettingKeys /\ put'.value \in Settings)
  <2>1. CASE UNCHANGED <<setting, put>>
    BY <2>1 DEF Typed
  <2>2. ASSUME NEW v \in Configs, PutBegin(v)
        PROVE  setting' \in Settings /\ put'.todo \subseteq SettingKeys /\ put'.value \in Settings
    BY <2>2 DEF PutBegin, Typed, Parameters
  <2>3. ASSUME UpsertSetting
        PROVE  setting' \in Settings /\ put'.todo \subseteq SettingKeys /\ put'.value \in Settings
    <3>1. PICK k \in put.todo : /\ setting' = [setting EXCEPT ![k] = put.value[k]]
                                /\ put' = [put EXCEPT !.todo = @ \ {k}]
      BY <2>3 DEF UpsertSetting
    <3>2. setting \in Settings /\ put.value \in Settings /\ put.todo \subseteq SettingKeys
      BY <2>3 DEF UpsertSetting, Typed
    <3>3. k = "issuer" \/ k = "client" \/ k = "auto"
      BY <3>1, <3>2 DEF SettingKeys
    <3>4. setting' \in Settings
      BY <3>1, <3>2, <3>3 DEF Settings
    <3> QED
      BY <3>1, <3>2, <3>4
  <2>4. CASE InvalidateProvider \/ Restart
    BY <2>4 DEF InvalidateProvider, Restart, Typed
  <2>5. CASE ~((\E v \in Configs : PutBegin(v)) \/ UpsertSetting \/ InvalidateProvider \/ Restart)
    BY <2>1, <2>5 DEF Next, vars, StartAuth, Reassign, Expire, SweepPending, CallbackBegin, ProviderGet,
       LoadProvider, FindPending, Exchange, DropPending, FindUser, uniqueUsername, InsertUser
  <2> QED
    BY <2>2, <2>3, <2>4, <2>5 DEF Typed
<1>3. flow' \in [Flows -> {"open", "expired", None}] /\ email' \in [Subjects -> Emails]
  BY DEF Typed, Next, vars, PutBegin, UpsertSetting, InvalidateProvider, StartAuth, Reassign, Expire,
     SweepPending, CallbackBegin, ProviderGet, LoadProvider, FindPending, Exchange, DropPending,
     FindUser, uniqueUsername, InsertUser, Restart, Goto, End
<1>4. users' \subseteq Row
  <2>1. users \subseteq Row
    BY DEF Typed
  <2>2. ASSUME NEW c \in Callbacks, FindUser(c) PROVE users' \subseteq Row
    <3>1. callback[c].email \in Emails \cup {None}
      BY DEF Typed, Known, Place
    <3>2. \A u \in Row : [u EXCEPT !.email = callback[c].email] \in Row
      BY <3>1 DEF Row
    <3> QED
      BY <2>1, <2>2, <3>2 DEF FindUser
  <2>3. ASSUME NEW c \in Callbacks, InsertUser(c) PROVE users' \subseteq Row
    <3>1. callback[c].email \in Emails \cup {None} /\ callback[c].sub \in Subjects
          /\ callback[c].name \in {Candidate, Alternative}
      BY <2>3 DEF InsertUser, At, Typed, Known, Place
    <3>2. NewRow(c) \in Row
      BY <3>1 DEF NewRow, Row
    <3> QED
      BY <2>1, <2>3, <3>2 DEF InsertUser
  <2>4. CASE UNCHANGED users
    BY <2>1, <2>4
  <2> QED
    BY <2>2, <2>3, <2>4 DEF Next, vars, PutBegin, UpsertSetting, InvalidateProvider, StartAuth, Reassign,
       Expire, SweepPending, CallbackBegin, ProviderGet, LoadProvider, FindPending, Exchange,
       DropPending, uniqueUsername, Restart
<1>5. counts' \in [flows: 0 .. MaxFlows, starts: Nat, disturbances: Nat]
  <2>1. counts \in [flows: 0 .. MaxFlows, starts: Nat, disturbances: Nat] /\ MaxFlows \in Nat
    BY DEF Typed, Parameters
  <2>2. counts' = counts \/ Counted("starts") \/ Counted("disturbances")
        \/ (Counted("flows") /\ counts.flows < MaxFlows)
    BY DEF Next, vars, PutBegin, UpsertSetting, InvalidateProvider, StartAuth, Reassign,
       Expire, SweepPending, CallbackBegin, ProviderGet, LoadProvider, FindPending, Exchange,
       DropPending, FindUser, uniqueUsername, InsertUser, Restart
  <2> QED
    BY <2>1, <2>2
<1> QED
  BY <1>1, <1>2, <1>3, <1>4, <1>5 DEF Typed

\* The first state is typed.
LEMMA TypeInit == ASSUME Parameters, Init PROVE Typed
<1>1. Idle \in Known
  BY IdleFacts DEF Idle, Known, Parameters
<1>2. Local \in Row
  BY DEF Local, Row
<1> QED
  BY <1>1, <1>2 DEF Init, Typed, Parameters

\* Hence every state is.
LEMMA TypedAlways == ASSUME Parameters PROVE Spec => []Typed
<1>1. Init => Typed
  BY TypeInit
<1>2. Typed /\ [Next]_vars => Typed'
  BY TypeStep
<1> QED
  BY <1>1, <1>2, PTL DEF Spec
----------------------------------------------------------------------------
\* What a sign-in does to the rows: nothing, a new address, or a new row that
\* both indexes let in; and the session it opens has the row's identity.
LEMMA UsersStep ==
    ASSUME Parameters, Typed, [Next]_vars
    PROVE  \/ UNCHANGED <<users, sessions>>
           \/ \E c \in Callbacks, u \in users :
                 /\ u.sub = callback[c].sub
                 /\ users' = (users \ {u}) \cup {[u EXCEPT !.email = callback[c].email]}
                 /\ OpenSession(c, u) /\ End(c) /\ callback[c].pc = "find" /\ UNCHANGED <<flow, counts>>
           \/ \E c \in Callbacks :
                 /\ \A u \in users : u.name # callback[c].name /\ u.sub # callback[c].sub
                 /\ users' = users \cup {NewRow(c)}
                 /\ OpenSession(c, NewRow(c)) /\ End(c) /\ callback[c].pc = "insert"
                 /\ UNCHANGED <<flow, counts>>
<1>1. ASSUME NEW c \in Callbacks, FindUser(c)
      PROVE  \/ UNCHANGED <<users, sessions>>
             \/ \E u \in users :
                 /\ u.sub = callback[c].sub
                 /\ users' = (users \ {u}) \cup {[u EXCEPT !.email = callback[c].email]}
                 /\ OpenSession(c, u) /\ End(c) /\ callback[c].pc = "find" /\ UNCHANGED <<flow, counts>>
  BY <1>1 DEF FindUser, At
<1>2. ASSUME NEW c \in Callbacks, InsertUser(c)
      PROVE  \/ UNCHANGED <<users, sessions>>
             \/  /\ \A u \in users : u.name # callback[c].name /\ u.sub # callback[c].sub
                 /\ users' = users \cup {NewRow(c)}
                 /\ OpenSession(c, NewRow(c)) /\ End(c) /\ callback[c].pc = "insert"
                 /\ UNCHANGED <<flow, counts>>
  BY <1>2 DEF InsertUser, At, Taken
<1>3. CASE ~\E c \in Callbacks : FindUser(c) \/ InsertUser(c)
  BY <1>3 DEF Next, vars, PutBegin, UpsertSetting, InvalidateProvider, StartAuth, Reassign,
       Expire, SweepPending, CallbackBegin, ProviderGet, LoadProvider, FindPending, Exchange,
       DropPending, uniqueUsername, Restart
<1> QED
  BY <1>1, <1>2, <1>3

\* The rows stay one per identity and one per name.
LEMMA OneRowStep == ASSUME Parameters, Typed, OneRowEach, [Next]_vars PROVE OneRowEach'
<1>1. users \subseteq Row
  BY DEF Typed
<1>2. CASE UNCHANGED users
  BY <1>2 DEF OneRowEach
<1>3. ASSUME NEW c \in Callbacks, NEW u \in users,
             users' = (users \ {u}) \cup {[u EXCEPT !.email = callback[c].email]}
      PROVE  OneRowEach'
  <2> DEFINE v == [u EXCEPT !.email = callback[c].email]
  <2>1. v.name = u.name /\ v.sub = u.sub
    BY <1>1 DEF Row
  <2> HIDE DEF v
  <2>2. users' = (users \ {u}) \cup {v}
    BY <1>3 DEF v
  <2> QED
    BY <2>1, <2>2 DEF OneRowEach
<1>4. ASSUME NEW c \in Callbacks, users' = users \cup {NewRow(c)},
             \A u \in users : u.name # callback[c].name /\ u.sub # callback[c].sub
      PROVE  OneRowEach'
  <2>1. NewRow(c).name = callback[c].name /\ NewRow(c).sub = callback[c].sub
    BY DEF NewRow
  <2> QED
    BY <1>4, <2>1 DEF OneRowEach
<1> QED
  BY <1>2, <1>3, <1>4, UsersStep

\* A session is opened on the row of its own identity.
LEMMA OwnStep == ASSUME Parameters, Typed, SessionIsOwn, [Next]_vars PROVE SessionIsOwn'
<1>1. ASSUME NEW c \in Callbacks, NEW row, OpenSession(c, row), row.sub = callback[c].sub
      PROVE  SessionIsOwn'
  BY <1>1 DEF OpenSession, SessionIsOwn
<1>2. CASE UNCHANGED sessions
  BY <1>2 DEF SessionIsOwn
<1>3. \A c \in Callbacks : NewRow(c).sub = callback[c].sub
  BY DEF NewRow
<1> HIDE DEF OpenSession
<1> QED
  BY <1>1, <1>2, <1>3, UsersStep

\* One row per identity and one identity per name, however first sign-ins of one
\* identity, or of two that ask for the same name, interleave.
THEOREM OneRowEachHolds == ASSUME Parameters PROVE Spec => []OneRowEach
<1>1. Init => OneRowEach
  BY DEF Init, OneRowEach
<1>2. Typed /\ OneRowEach /\ [Next]_vars => OneRowEach'
  BY OneRowStep
<1>3. Spec => []Typed
  BY TypedAlways
<1> QED
  BY <1>1, <1>2, <1>3, PTL DEF Spec

\* A sign-in opens the row of its own identity, whatever became of the addresses
\* since that row was created.
THEOREM SessionIsOwnHolds == ASSUME Parameters PROVE Spec => []SessionIsOwn
<1>1. Init => SessionIsOwn
  BY DEF Init, SessionIsOwn
<1>2. Typed /\ SessionIsOwn /\ [Next]_vars => SessionIsOwn'
  BY OwnStep
<1>3. Spec => []Typed
  BY TypedAlways
<1> QED
  BY <1>1, <1>2, <1>3, PTL DEF Spec
----------------------------------------------------------------------------
\* Every step of a callback keeps the provider it has, drops it, or takes the one
\* of the settings it read.
LEMMA ProviderStep == ASSUME Parameters, Typed, ProviderMatches, [Next]_vars PROVE ProviderMatches'
<1> SUFFICES ASSUME NEW d \in Callbacks, callback'[d].provider # None
             PROVE  callback'[d].provider = fingerprint(callback'[d].cfg)
  BY DEF ProviderMatches
<1>1. callback \in [Callbacks -> Place] /\ Idle.provider = None
  BY IdleFacts DEF Typed, Known
<1>2. callback[d].provider # None => callback[d].provider = fingerprint(callback[d].cfg)
  BY DEF ProviderMatches
<1>3. CASE callback'[d] = callback[d]
  BY <1>2, <1>3
<1>4. CASE callback'[d] = Idle
  BY <1>1, <1>4
<1>5. ASSUME NEW pc, callback'[d] = [callback[d] EXCEPT !.pc = pc]
      PROVE  callback'[d].provider = fingerprint(callback'[d].cfg)
  BY <1>1, <1>2, <1>5 DEF Place
<1>6. ASSUME NEW c \in Callbacks, End(c) PROVE callback'[d].provider = fingerprint(callback'[d].cfg)
  BY <1>1, <1>3, <1>4, <1>6 DEF End
<1>7. ASSUME NEW c \in Callbacks, NEW pc, Goto(c, pc)
      PROVE  callback'[d].provider = fingerprint(callback'[d].cfg)
  BY <1>1, <1>3, <1>5, <1>7 DEF Goto
<1>8. ASSUME NEW c \in Callbacks, NEW f \in Flows, CallbackBegin(c, f) PROVE callback'[d] = callback[d]
  BY <1>1, <1>8 DEF CallbackBegin, Idle
<1>9. ASSUME NEW c \in Callbacks, NEW p, p = fingerprint(callback[c].cfg),
             callback' = [callback EXCEPT ![c].pc = "pending", ![c].provider = p]
      PROVE  callback'[d].provider = fingerprint(callback'[d].cfg)
  <2>1. CASE d # c
    BY <1>1, <1>3, <1>9, <2>1
  <2>2. CASE d = c
    <3>1. callback'[d] = [callback[d] EXCEPT !.pc = "pending", !.provider = p]
      BY <1>1, <1>9, <2>2
    <3>2. callback'[d].provider = p /\ callback'[d].cfg = callback[d].cfg
      BY <1>1, <3>1 DEF Place
    <3> QED
      BY <1>9, <2>2, <3>2
  <2> QED
    BY <2>1, <2>2
<1>10. ASSUME NEW c \in Callbacks, ProviderGet(c) \/ LoadProvider(c)
       PROVE  callback'[d].provider = fingerprint(callback'[d].cfg)
  <2>1. \/ End(c) \/ Goto(c, "discover")
        \/ /\ callback' = [callback EXCEPT ![c].pc = "pending", ![c].provider = provider']
           /\ provider' = fingerprint(callback[c].cfg)
    BY <1>10 DEF ProviderGet, LoadProvider, settingVars
  <2> QED
    BY <1>6, <1>7, <1>9, <2>1
<1>11. ASSUME NEW c \in Callbacks,
              Exchange(c) \/ uniqueUsername(c) \/ FindPending(c) \/ DropPending(c) \/ FindUser(c) \/ InsertUser(c)
       PROVE  callback'[d].provider = fingerprint(callback'[d].cfg)
  <2>1. \/ End(c) \/ (\E pc \in Stages : Goto(c, pc))
        \/ \E s \in Subjects :
             callback' = [callback EXCEPT ![c].pc = "drop", ![c].sub = s, ![c].email = email[s],
                                          ![c].provider = None]
        \/ \E n \in {Candidate, Alternative} :
             callback' = [callback EXCEPT ![c].pc = "insert", ![c].name = n]
    BY <1>11 DEF Exchange, uniqueUsername, FindPending, DropPending, FindUser, InsertUser, Stages
  <2>2. ASSUME NEW s \in Subjects,
               callback' = [callback EXCEPT ![c].pc = "drop", ![c].sub = s, ![c].email = email[s],
                                            ![c].provider = None]
        PROVE  callback'[d] = callback[d]
    <3>1. CASE d = c
      <4>1. callback'[d] = [callback[d] EXCEPT !.pc = "drop", !.sub = s, !.email = email[s],
                                               !.provider = None]
        BY <1>1, <2>2, <3>1
      <4> QED
        BY <1>1, <4>1 DEF Place
    <3> QED
      BY <1>1, <2>2, <3>1
  <2>3. ASSUME NEW n \in {Candidate, Alternative},
               callback' = [callback EXCEPT ![c].pc = "insert", ![c].name = n]
        PROVE  callback'[d].provider = fingerprint(callback'[d].cfg)
    <3>1. CASE d = c
      <4>1. callback'[d] = [callback[d] EXCEPT !.pc = "insert", !.name = n]
        BY <1>1, <2>3, <3>1
      <4> QED
        BY <1>1, <1>2, <4>1 DEF Place
    <3> QED
      BY <1>1, <1>3, <2>3, <3>1
  <2> QED
    BY <1>3, <1>6, <1>7, <2>1, <2>2, <2>3
<1>12. CASE Restart
  BY <1>4, <1>12 DEF Restart
<1>13. CASE (\E v \in Configs : PutBegin(v)) \/ UpsertSetting \/ InvalidateProvider \/ StartAuth
           \/ (\E s, t \in Subjects : Reassign(s, t)) \/ (\E f \in Flows : Expire(f))
           \/ SweepPending \/ UNCHANGED vars
  BY <1>3, <1>13 DEF PutBegin, UpsertSetting, InvalidateProvider, StartAuth, Reassign, Expire,
     SweepPending, vars
<1> QED
  BY <1>3, <1>8, <1>10, <1>11, <1>12, <1>13 DEF Next

\* A callback talks to the issuer with the provider of the settings it read, though
\* a slow discovery stores its own after a PUT has dropped it.
THEOREM ProviderMatchesHolds == ASSUME Parameters PROVE Spec => []ProviderMatches
<1>1. Init => ProviderMatches
  BY IdleFacts DEF Init, ProviderMatches
<1>2. Typed /\ ProviderMatches /\ [Next]_vars => ProviderMatches'
  BY ProviderStep
<1>3. Spec => []Typed
  BY TypedAlways
<1> QED
  BY <1>1, <1>2, <1>3, PTL DEF Spec
----------------------------------------------------------------------------
\* The sign-ins of a flow, and the callbacks that have found it and may open one.
SignIns(f) == {s \in sessions : s.flow = f}
Holding == {"exchange", "drop", "find", "name", "insert"}
Past    == {"find", "name", "insert"}
Holders(f) == {c \in Callbacks : callback[c].pc \in Holding /\ callback[c].flow = f}

\* While a flow is open nobody has signed in with it, and nobody is past the
\* removal of it; once it is gone its holders only become fewer, one by one as
\* they sign in; and an id is not used before its flow is parked.
FlowInv ==
    /\ IsFiniteSet(sessions)
    /\ \A f \in Flows :
          /\ flow[f] = "open" => /\ f <= counts.flows /\ SignIns(f) = {}
                                 /\ \A c \in Holders(f) : callback[c].pc \notin Past
          /\ f > counts.flows => SignIns(f) = {} /\ Holders(f) = {}
          /\ Cardinality(SignIns(f)) + Cardinality(Holders(f)) <= Cardinality(Callbacks)

\* How a step may change the callbacks that hold a flow.
LEMMA HolderStep ==
    ASSUME Parameters, Typed, [Next]_vars, NEW f \in Flows, NEW d \in Callbacks, d \in Holders(f)'
    PROVE  \/ /\ d \in Holders(f)
              /\ \/ callback'[d].pc \in Past => callback[d].pc \in Past
                 \/ flow'[f] = None
           \/ /\ flow[f] = "open" /\ callback'[d].pc = "exchange" /\ UNCHANGED <<flow, sessions, counts>>
              /\ callback[d].pc = "pending" /\ callback[d].flow = f
<1> DEFINE Was == /\ d \in Holders(f)
                  /\ \/ callback'[d].pc \in Past => callback[d].pc \in Past
                     \/ flow'[f] = None
<1>1. callback \in [Callbacks -> Place] /\ Idle.pc = "idle" /\ flow \in [Flows -> {"open", "expired", None}]
      /\ callback'[d].pc \in Holding /\ callback'[d].flow = f
  BY IdleFacts DEF Typed, Known, Holders
<1>2. CASE callback'[d] = callback[d]
  BY <1>1, <1>2 DEF Holders
<1>3. ASSUME callback'[d] = Idle PROVE FALSE
  BY <1>1, <1>3 DEF Holding
<1>4. ASSUME NEW c \in Callbacks, End(c) PROVE Was
  BY <1>1, <1>2, <1>3, <1>4 DEF End
<1>5. ASSUME NEW c \in Callbacks, NEW pc, Goto(c, pc), c = d
      PROVE  callback'[d].pc = pc /\ callback[d].flow = f
  BY <1>1, <1>5 DEF Goto, Place
<1>6. ASSUME NEW c \in Callbacks, NEW pc, Goto(c, pc), c # d PROVE Was
  BY <1>1, <1>2, <1>6 DEF Goto
<1>7. ASSUME NEW c \in Callbacks, NEW g \in Flows, CallbackBegin(c, g) PROVE Was
  <2>1. [Idle EXCEPT !.pc = "provider", !.flow = g, !.cfg = setting].pc = "provider"
    BY DEF Idle
  <2> QED
    BY <1>1, <1>2, <1>7, <2>1 DEF CallbackBegin, Holding
<1>8. ASSUME NEW c \in Callbacks, ProviderGet(c) \/ LoadProvider(c) PROVE Was
  <2>1. \/ End(c) \/ Goto(c, "discover")
        \/ callback' = [callback EXCEPT ![c].pc = "pending", ![c].provider = provider']
    BY <1>8 DEF ProviderGet, LoadProvider, settingVars
  <2>2. ASSUME callback' = [callback EXCEPT ![c].pc = "pending", ![c].provider = provider'] PROVE Was
    <3>1. CASE c = d
      <4>1. callback'[d] = [callback[d] EXCEPT !.pc = "pending", !.provider = provider']
        BY <1>1, <2>2, <3>1
      <4> QED
        BY <1>1, <4>1 DEF Place, Holding
    <3> QED
      BY <1>1, <1>2, <2>2, <3>1
  <2> QED
    BY <1>1, <1>4, <1>5, <1>6, <2>1, <2>2 DEF Holding
<1>9. ASSUME NEW c \in Callbacks, Exchange(c) PROVE Was
  <2>1. ASSUME NEW s \in Subjects,
               callback' = [callback EXCEPT ![c].pc = "drop", ![c].sub = s, ![c].email = email[s],
                                            ![c].provider = None]
        PROVE  Was
    <3>1. CASE c = d
      <4>1. callback'[d] = [callback[d] EXCEPT !.pc = "drop", !.sub = s, !.email = email[s],
                                               !.provider = None]
        BY <1>1, <2>1, <3>1
      <4>2. callback'[d].pc = "drop" /\ callback[d].flow = f
        BY <1>1, <4>1 DEF Place
      <4> QED
        BY <1>9, <3>1, <4>2 DEF Exchange, At, Holders, Holding, Past
    <3> QED
      BY <1>1, <1>2, <2>1, <3>1
  <2> QED
    BY <1>4, <1>9, <2>1 DEF Exchange
<1>10. ASSUME NEW c \in Callbacks, uniqueUsername(c) PROVE Was
  <2>1. ASSUME NEW n, callback' = [callback EXCEPT ![c].pc = "insert", ![c].name = n] PROVE Was
    <3>1. CASE c = d
      <4>1. callback'[d] = [callback[d] EXCEPT !.pc = "insert", !.name = n]
        BY <1>1, <2>1, <3>1
      <4>2. callback[d].flow = f
        BY <1>1, <4>1 DEF Place
      <4> QED
        BY <1>10, <3>1, <4>2 DEF uniqueUsername, At, Holders, Holding, Past
    <3> QED
      BY <1>1, <1>2, <2>1, <3>1
  <2> QED
    BY <1>4, <1>10, <2>1 DEF uniqueUsername
<1>11. ASSUME NEW c \in Callbacks, DropPending(c) PROVE Was
  <2>1. CASE c = d
    <3>1. callback[d].flow = f /\ callback[d].pc = "drop"
      BY <1>5, <1>11, <2>1 DEF DropPending, At
    <3>2. flow'[f] = None
      BY <1>1, <1>11, <2>1, <3>1 DEF DropPending
    <3> QED
      BY <3>1, <3>2 DEF Holders, Holding
  <2> QED
    BY <1>6, <1>11, <2>1 DEF DropPending
<1>12. ASSUME NEW c \in Callbacks, FindUser(c) \/ InsertUser(c) PROVE Was
  <2>1. End(c) \/ (callback[c].pc = "find" /\ Goto(c, "name"))
    BY <1>12 DEF FindUser, InsertUser, At
  <2>2. CASE callback[c].pc = "find" /\ Goto(c, "name")
    BY <1>5, <1>6, <2>2 DEF Holders, Holding, Past
  <2> QED
    BY <1>4, <2>1, <2>2
<1>13. CASE Restart
  BY <1>3, <1>13 DEF Restart
<1>14. CASE (\E v \in Configs : PutBegin(v)) \/ UpsertSetting \/ InvalidateProvider \/ StartAuth
           \/ (\E s, t \in Subjects : Reassign(s, t)) \/ (\E g \in Flows : Expire(g))
           \/ SweepPending \/ UNCHANGED vars
  BY <1>2, <1>14 DEF PutBegin, UpsertSetting, InvalidateProvider, StartAuth, Reassign, Expire,
     SweepPending, vars
<1>15. ASSUME NEW c \in Callbacks, FindPending(c)
       PROVE  Was \/ /\ flow[f] = "open" /\ callback'[d].pc = "exchange"
                     /\ UNCHANGED <<flow, sessions, counts>>
                     /\ callback[d].pc = "pending" /\ callback[d].flow = f
  <2>1. End(c) \/ (Goto(c, "exchange") /\ flow[callback[c].flow] = "open" /\ UNCHANGED flow)
    BY <1>15 DEF FindPending
  <2> QED
    BY <1>4, <1>5, <1>6, <1>15, <2>1 DEF FindPending, At
<1> QED
  BY <1>7, <1>8, <1>9, <1>10, <1>11, <1>12, <1>13, <1>14, <1>15 DEF Next

\* A flow is opened once, by the login that parks it.
LEMMA FlowStep ==
    ASSUME Parameters, Typed, [Next]_vars, NEW f \in Flows
    PROVE  /\ counts'.flows >= counts.flows /\ counts.flows \in Nat /\ counts'.flows \in Nat
           /\ flow'[f] = "open" => \/ flow[f] = "open"
                                   \/ f = counts.flows + 1 /\ counts'.flows = f
<1> USE DEF settingVars, Counted, Disturbance
<1>1. counts \in [flows: 0 .. MaxFlows, starts: Nat, disturbances: Nat] /\ MaxFlows \in Nat
      /\ flow \in [Flows -> {"open", "expired", None}] /\ None # "open" /\ Flows \subseteq Nat
  BY DEF Typed, Parameters, Flows
<1>2. counts' \in [flows: 0 .. MaxFlows, starts: Nat, disturbances: Nat]
  BY TypeStep DEF Typed
<1>3. counts'.flows >= counts.flows
  <2>1. counts' = counts \/ Counted("starts") \/ Counted("disturbances") \/ Counted("flows")
    BY DEF Next, vars, PutBegin, UpsertSetting, InvalidateProvider, StartAuth, Reassign,
       Expire, SweepPending, CallbackBegin, ProviderGet, LoadProvider, FindPending, Exchange,
       DropPending, FindUser, uniqueUsername, InsertUser, Restart
  <2> QED
    BY <1>1, <2>1
<1>4. ASSUME flow'[f] = "open", flow[f] # "open" PROVE f = counts.flows + 1 /\ counts'.flows = f
  <2>1. CASE StartAuth
    BY <1>1, <1>4, <2>1 DEF StartAuth
  <2>2. ASSUME NEW g, flow' = [flow EXCEPT ![g] = None] \/ flow' = [flow EXCEPT ![g] = "expired"]
        PROVE  FALSE
    BY <1>1, <1>4, <2>2
  <2>3. ASSUME NEW c \in Callbacks, FindPending(c) \/ DropPending(c) PROVE FALSE
    BY <1>4, <2>2, <2>3 DEF FindPending, DropPending
  <2>4. ASSUME NEW g \in Flows, Expire(g) PROVE FALSE
    BY <2>2, <2>4 DEF Expire
  <2>5. ~Restart /\ ~SweepPending
    BY <1>1, <1>4 DEF Restart, SweepPending
  <2>6. CASE UNCHANGED flow
    BY <1>4, <2>6
  <2> QED
    BY <2>1, <2>3, <2>4, <2>5, <2>6 DEF Next, vars, PutBegin, UpsertSetting, InvalidateProvider, Reassign,
       CallbackBegin, ProviderGet, LoadProvider, Exchange, FindUser, uniqueUsername, InsertUser
<1> QED
  BY <1>1, <1>2, <1>3, <1>4

\* The counting: who signs in stops holding the flow.
LEMMA FlowInvStep == ASSUME Parameters, Typed, FlowInv, [Next]_vars PROVE FlowInv'
<1>1. \/ UNCHANGED sessions
      \/ \E c \in Callbacks : \E x : /\ callback[c].pc \in {"find", "insert"} /\ End(c) /\ UNCHANGED <<flow, counts>>
                                 /\ x.flow = callback[c].flow /\ sessions' = sessions \cup {x}
  <2>1. ASSUME NEW c \in Callbacks, NEW row, OpenSession(c, row)
        PROVE  \E x : x.flow = callback[c].flow /\ sessions' = sessions \cup {x}
    <3> DEFINE x == [id |-> Cardinality(sessions) + 1, flow |-> callback[c].flow,
                     sub |-> callback[c].sub, row |-> row.sub]
    <3>1. x.flow = callback[c].flow /\ sessions' = sessions \cup {x}
      BY <2>1 DEF OpenSession
    <3> QED
      BY <3>1
  <2> HIDE DEF OpenSession
  <2> QED
    BY <2>1, UsersStep
<1>2. IsFiniteSet(sessions')
  BY <1>1, FS_AddElement DEF FlowInv
<1>3. ASSUME NEW f \in Flows
      PROVE  /\ flow'[f] = "open" => /\ f <= counts'.flows /\ SignIns(f)' = {}
                                     /\ \A c \in Holders(f)' : callback'[c].pc \notin Past
             /\ f > counts'.flows => SignIns(f)' = {} /\ Holders(f)' = {}
             /\ Cardinality(SignIns(f)') + Cardinality(Holders(f)') <= Cardinality(Callbacks)
  <2>1. IsFiniteSet(Callbacks) /\ Holders(f) \subseteq Callbacks /\ Holders(f)' \subseteq Callbacks
        /\ None # "open" /\ f \in Nat
    BY DEF Parameters, Holders, Flows
  <2>2. IsFiniteSet(Holders(f)) /\ IsFiniteSet(SignIns(f)) /\ SignIns(f) \subseteq sessions
    BY <2>1, FS_Subset DEF FlowInv, SignIns
  <2>3. Cardinality(Holders(f)) \in Nat /\ Cardinality(Holders(f)') \in Nat /\ Cardinality(Callbacks) \in Nat
        /\ Cardinality(SignIns(f)) \in Nat /\ Cardinality(Holders(f)') <= Cardinality(Callbacks)
        /\ Cardinality({}) = 0
    <3>1. IsFiniteSet(Holders(f)')
      BY <2>1, FS_Subset
    <3> QED
      BY <2>1, <2>2, <3>1, FS_Subset, FS_CardinalityType, FS_EmptySet
  <2>4. flow[f] # "open" => Holders(f)' \subseteq Holders(f)
    BY <2>1, HolderStep
  <2>5. flow[f] = "open" => f <= counts.flows /\ SignIns(f) = {} /\ \A c \in Holders(f) : callback[c].pc \notin Past
    BY DEF FlowInv
  <2>6. f > counts.flows => SignIns(f) = {} /\ Holders(f) = {}
    BY DEF FlowInv
  <2>7. Cardinality(SignIns(f)) + Cardinality(Holders(f)) <= Cardinality(Callbacks)
    BY DEF FlowInv
  <2>8. /\ counts'.flows >= counts.flows /\ counts.flows \in Nat /\ counts'.flows \in Nat
        /\ flow'[f] = "open" => flow[f] = "open" \/ (f = counts.flows + 1 /\ counts'.flows = f)
    BY FlowStep
  <2>9. CASE SignIns(f)' = SignIns(f)
    <3>1. ASSUME flow'[f] = "open"
          PROVE  f <= counts'.flows /\ SignIns(f)' = {} /\ \A c \in Holders(f)' : callback'[c].pc \notin Past
      <4>1. CASE flow[f] = "open"
        <5>1. ASSUME NEW c \in Holders(f)' PROVE callback'[c].pc \notin Past
          BY <2>1, <2>5, <3>1, <4>1, HolderStep DEF Past
        <5> QED
          BY <2>1, <2>5, <2>8, <2>9, <4>1, <5>1
      <4>2. CASE flow[f] # "open"
        <5>1. f = counts.flows + 1 /\ counts'.flows = f
          BY <2>8, <3>1, <4>2
        <5> QED
          BY <2>1, <2>4, <2>6, <2>8, <2>9, <4>2, <5>1
      <4> QED
        BY <4>1, <4>2
    <3>2. ASSUME f > counts'.flows PROVE SignIns(f)' = {} /\ Holders(f)' = {}
      <4>1. f > counts.flows /\ flow[f] # "open"
        BY <2>1, <2>5, <2>8, <3>2
      <4> QED
        BY <2>4, <2>6, <2>9, <4>1
    <3>3. Cardinality(SignIns(f)') + Cardinality(Holders(f)') <= Cardinality(Callbacks)
      <4>1. CASE flow[f] = "open"
        BY <2>3, <2>5, <2>9, <4>1
      <4>2. CASE flow[f] # "open"
        <5>1. Cardinality(Holders(f)') <= Cardinality(Holders(f))
          BY <2>2, <2>4, <4>2, FS_Subset
        <5> QED
          BY <2>3, <2>7, <2>9, <5>1
      <4> QED
        BY <4>1, <4>2
    <3> QED
      BY <3>1, <3>2, <3>3
  <2>10. ASSUME NEW c \in Callbacks, NEW x, callback[c].pc \in {"find", "insert"}, End(c),
                UNCHANGED <<flow, counts>>, x.flow = f, callback[c].flow = f, sessions' = sessions \cup {x}
         PROVE  /\ flow'[f] = "open" => /\ f <= counts'.flows /\ SignIns(f)' = {}
                                        /\ \A d \in Holders(f)' : callback'[d].pc \notin Past
                /\ f > counts'.flows => SignIns(f)' = {} /\ Holders(f)' = {}
                /\ Cardinality(SignIns(f)') + Cardinality(Holders(f)') <= Cardinality(Callbacks)
    <3>1. c \in Holders(f) /\ callback[c].pc \in Past
      BY <2>10 DEF Holders, Holding, Past
    <3>2. flow[f] # "open" /\ f <= counts.flows
      BY <2>1, <2>5, <2>6, <2>8, <3>1
    <3>3. SignIns(f)' = SignIns(f) \cup {x}
      BY <2>10 DEF SignIns
    <3>4. c \notin Holders(f)'
      <4>1. callback'[c].pc = "idle"
        BY <2>10, IdleFacts DEF End, Typed
      <4> QED
        BY <4>1 DEF Holders, Holding
    <3>5. Holders(f)' \subseteq Holders(f) \ {c}
      BY <2>4, <3>2, <3>4
    <3>6. Cardinality(Holders(f)') <= Cardinality(Holders(f)) - 1
      <4>1. IsFiniteSet(Holders(f) \ {c}) /\ Cardinality(Holders(f) \ {c}) = Cardinality(Holders(f)) - 1
        BY <2>2, <3>1, FS_RemoveElement
      <4> QED
        BY <3>5, <4>1, FS_Subset
    <3>7. Cardinality(SignIns(f)') <= Cardinality(SignIns(f)) + 1 /\ Cardinality(SignIns(f)') \in Nat
      <4>1. x \in SignIns(f) => SignIns(f)' = SignIns(f)
        BY <3>3
      <4>2. x \notin SignIns(f) => Cardinality(SignIns(f)') = Cardinality(SignIns(f)) + 1
        BY <2>2, <3>3, FS_AddElement
      <4> QED
        BY <2>3, <4>1, <4>2
    <3> QED
      BY <2>1, <2>3, <2>7, <2>8, <2>10, <3>2, <3>6, <3>7
  <2>11. ASSUME NEW c \in Callbacks, NEW x, x.flow = callback[c].flow, callback[c].flow # f,
                sessions' = sessions \cup {x}
         PROVE  SignIns(f)' = SignIns(f)
    BY <2>11 DEF SignIns
  <2>12. UNCHANGED sessions => SignIns(f)' = SignIns(f)
    BY DEF SignIns
  <2> QED
    BY <1>1, <2>9, <2>10, <2>11, <2>12
<1> QED
  BY <1>2, <1>3 DEF FlowInv

\* A flow is good for one sign-in, and for the callbacks that had found it before
\* the first of them dropped it, however many more follow.
THEOREM FlowIsSingleUseHolds == ASSUME Parameters PROVE Spec => []FlowIsSingleUse
<1>1. Init => FlowInv
  <2> SUFFICES ASSUME Init PROVE FlowInv
    OBVIOUS
  <2>1. \A f \in Flows : SignIns(f) = {} /\ Holders(f) = {} /\ flow[f] # "open"
    BY IdleFacts DEF Init, SignIns, Holders, Holding, Parameters
  <2>2. IsFiniteSet(sessions) /\ Cardinality({}) = 0 /\ Cardinality(Callbacks) \in Nat
    BY FS_EmptySet, FS_CardinalityType DEF Init, Parameters
  <2> QED
    BY <2>1, <2>2 DEF FlowInv
<1>2. Typed /\ FlowInv /\ [Next]_vars => FlowInv'
  BY FlowInvStep
<1>3. FlowInv => FlowIsSingleUse
  <2> SUFFICES ASSUME FlowInv, NEW f \in Flows
               PROVE  Cardinality(SignIns(f)) <= Cardinality(Callbacks)
    BY DEF FlowIsSingleUse, SignIns
  <2>1. IsFiniteSet(SignIns(f)) /\ IsFiniteSet(Holders(f)) /\ IsFiniteSet(Callbacks)
    <3>1. SignIns(f) \subseteq sessions /\ Holders(f) \subseteq Callbacks
      BY DEF SignIns, Holders
    <3> QED
      BY <3>1, FS_Subset DEF FlowInv, Parameters
  <2>2. Cardinality(SignIns(f)) \in Nat /\ Cardinality(Holders(f)) \in Nat /\ Cardinality(Callbacks) \in Nat
    BY <2>1, FS_CardinalityType
  <2> QED
    BY <2>2 DEF FlowInv
<1>4. Spec => []Typed
  BY TypedAlways
<1> QED
  BY <1>1, <1>2, <1>3, <1>4, PTL DEF Spec

\* Every variable keeps its type, and a provisioned name has the suffix once.
THEOREM TypeCorrect == ASSUME Parameters PROVE Spec => []TypeOK
<1>1. Typed => TypeOK
  BY DEF Typed, TypeOK, Row
<1>2. Spec => []Typed
  BY TypedAlways
<1> QED
  BY <1>1, <1>2, PTL

\* Every sign-in is its owner's: rows, sessions, flows and providers together.
THEOREM SignOnIsOwnHolds == ASSUME Parameters PROVE Spec => []SignOnIsOwn
<1>1. Spec => []TypeOK /\ []OneRowEach /\ []SessionIsOwn /\ []FlowIsSingleUse /\ []ProviderMatches
  BY TypeCorrect, OneRowEachHolds, SessionIsOwnHolds, FlowIsSingleUseHolds, ProviderMatchesHolds
<1> QED
  BY <1>1, PTL DEF SignOnIsOwn
=============================================================================
