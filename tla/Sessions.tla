------------------------------ MODULE Sessions ------------------------------
(***************************************************************************)
(* The clocks of a session.  A row has an absolute expiry, fixed when it   *)
(* is created, and a last-seen time that requests push forward, at most    *)
(* once per throttle; Caddy asks the panel about every request of a        *)
(* protected host and the panel answers from a cache of short life; logout *)
(* deletes the row, then the cache entry.  Requests interleave between     *)
(* statements and last at most MaxFlight; a statement may fail, and the    *)
(* code then goes on.  Times are relative, in one unit, so the clock runs  *)
(* for ever: "left" counts down, ages count up.                            *)
(***************************************************************************)
EXTENDS Integers

CONSTANTS
    Tokens,       \* of sessions that may be created
    Flights,      \* concurrent requests
    None,
    Timeouts,     \* the pairs (absolute, idle) the settings may hold
    Default,      \* the pair that stands in for settings which cannot be read
    Throttle,     \* LastSeenUpdateThrottle
    CacheTTL,     \* forwardAuthCacheTTL
    SettingsTTL,  \* how long TimeoutCache keeps what it read
    MaxFlight,    \* how long a request may last
    Horizon,      \* ages and overdue times are not told apart beyond it
    MaxDisturbances   \* bound: edits of the settings, failed statements and restarts

VARIABLES
    session,    \* table sessions: time left, age of last_seen_at; None without a row
    cache,      \* ForwardAuthCache: time left of each entry
    setting,    \* the two timeouts in the settings table
    timeouts,   \* TimeoutCache: what it read, and the time left of it
    flight,     \* requests in progress
    due,        \* history: time left since the session was created
    accepted,   \* history: age of the last request let through
    revoked,    \* history: age of the logout
    overlapped, \* history: a look-up was in progress when the session was logged out
    refused,    \* history: the sessions that a look-up turned away, or whose touch failed
    verdict,    \* history: the last request let through at this time
    disturbances

histories == <<due, accepted, revoked, overlapped, refused, verdict>>
vars == <<session, cache, setting, timeouts, flight, histories, disturbances>>

Idle == [pc |-> "idle", token |-> None, idle |-> 0, seen |-> 0, left |-> 0, age |-> 0]
NoVerdict == [due |-> 0, revoked |-> None, overlapped |-> FALSE]

Init ==
    /\ session = [t \in Tokens |-> None] /\ cache = [t \in Tokens |-> None]
    /\ setting \in Timeouts /\ timeouts = None
    /\ flight = [f \in Flights |-> Idle]
    /\ due = [t \in Tokens |-> None] /\ accepted = [t \in Tokens |-> None]
    /\ revoked = [t \in Tokens |-> None] /\ overlapped = [t \in Tokens |-> FALSE]
    /\ refused = {} /\ verdict = NoVerdict /\ disturbances = 0

At(f, pc)   == flight[f].pc = pc
Token(f)    == flight[f].token
Goto(f, pc) == flight' = [flight EXCEPT ![f].pc = pc]
End(f)      == flight' = [flight EXCEPT ![f] = Idle]
Begin(f, pc, t) ==
    /\ At(f, "idle") /\ flight' = [flight EXCEPT ![f] = [Idle EXCEPT !.pc = pc, !.token = t]]

Disturbed == disturbances < MaxDisturbances /\ disturbances' = disturbances + 1

\* A request is let through.
Accept(t) ==
    /\ accepted' = [accepted EXCEPT ![t] = 0]
    /\ verdict' = [due |-> due[t], revoked |-> revoked[t], overlapped |-> overlapped[t]]
    /\ UNCHANGED <<due, revoked, overlapped, refused>>
----------------------------------------------------------------------------
(* Timeouts *)

\* TimeoutCache.Get: idle never exceeds absolute.
Fresh == timeouts # None /\ timeouts.left > 0
Kept(abs, idle) == [abs |-> abs, idle |-> IF idle > abs THEN abs ELSE idle, left |-> SettingsTTL]
Current == IF Fresh THEN timeouts ELSE Kept(setting.abs, setting.idle)
GetTimeouts == timeouts' = Current

\* A caller's Get reads the default in the place of a setting it cannot read, and
\* keeps it as it would the setting.
ReadFails(abs, idle) ==
    /\ ~Fresh /\ Disturbed
    /\ abs \in {setting.abs, Default.abs} /\ idle \in {setting.idle, Default.idle}
    /\ timeouts' = Kept(abs, idle)
    /\ UNCHANGED <<session, cache, setting, flight, histories>>

\* UpdateSetting, of either key.
PutTimeouts(v) ==
    /\ Disturbed
    /\ v # setting /\ setting' = v
    /\ UNCHANGED <<session, cache, timeouts, flight, histories>>
----------------------------------------------------------------------------
(* Sessions *)

\* session.Create, once the credentials are good.
Login(t) ==
    /\ session[t] = None /\ due[t] = None
    /\ GetTimeouts
    /\ session' = [session EXCEPT ![t] = [left |-> Current.abs, seen |-> 0]]
    /\ due' = [due EXCEPT ![t] = Current.abs] /\ accepted' = [accepted EXCEPT ![t] = 0]
    /\ UNCHANGED <<cache, setting, flight, revoked, overlapped, refused, verdict, disturbances>>

\* Lookup: the row is there, not expired and not idle for too long.
Lookup(t, idle) ==
    /\ session[t] # None /\ session[t].left >= 0
    /\ session[t].seen <= idle

Refuse(t) ==
    refused' = refused \cup {t} /\ UNCHANGED <<due, accepted, revoked, overlapped, verdict>>

\* Mutant: the request's own activity pushes the expiry too.
TouchRenews(t, seen) ==
    IF seen < Throttle \/ session[t] = None THEN UNCHANGED session
    ELSE session' = [session EXCEPT ![t] = [seen |-> 0, left |-> Current.abs]]

\* Touch, on the row as the look-up returned it; the UPDATE may find none.
Touch(t, seen) ==
    IF seen < Throttle \/ session[t] = None THEN UNCHANGED session
    ELSE session' = [session EXCEPT ![t].seen = 0]

\* Authenticate, around every handler of the panel.
Authenticate(f, t) ==
    /\ Begin(f, "panel", t)
    /\ UNCHANGED <<session, cache, setting, timeouts, histories, disturbances>>

PanelLookup(f) ==
    /\ At(f, "panel") /\ GetTimeouts
    /\ IF Lookup(Token(f), Current.idle)
       THEN /\ flight' = [flight EXCEPT ![f].pc = "serve", ![f].seen = session[Token(f)].seen]
            /\ UNCHANGED histories
       ELSE End(f) /\ Refuse(Token(f))
    /\ UNCHANGED <<session, cache, setting, disturbances>>

PanelServe(f) ==
    /\ At(f, "serve")
    /\ Touch(Token(f), flight[f].seen) /\ Accept(Token(f)) /\ End(f)
    /\ UNCHANGED <<cache, setting, timeouts, disturbances>>

\* The UPDATE of a touch fails, here or in ForwardAuth, and the request goes on as
\* if it had been throttled.
TouchFails(f) ==
    /\ (At(f, "serve") \/ At(f, "touch")) /\ flight[f].seen >= Throttle /\ Disturbed
    /\ flight' = [flight EXCEPT ![f].seen = 0] /\ Refuse(Token(f))
    /\ UNCHANGED <<session, cache, setting, timeouts>>

\* The query of a first look-up fails: an error to the panel's client, the login
\* page to a protected host's.
LookupFails(f) ==
    /\ (At(f, "panel") \/ At(f, "miss")) /\ Disturbed
    /\ GetTimeouts /\ End(f)
    /\ UNCHANGED <<session, cache, setting, histories>>
----------------------------------------------------------------------------
(* ForwardAuth *)

\* ForwardAuthCache.get: a hit is the answer; a stale entry is dropped.
CacheGet(f, t) ==
    /\ IF cache[t] # None /\ cache[t] >= 0
       THEN At(f, "idle") /\ Accept(t) /\ UNCHANGED <<cache, flight>>
       ELSE /\ Begin(f, "miss", t) /\ cache' = [cache EXCEPT ![t] = None]
            /\ UNCHANGED histories
    /\ UNCHANGED <<session, setting, timeouts, disturbances>>

ForwardLookup(f) ==
    /\ At(f, "miss") /\ GetTimeouts
    /\ IF Lookup(Token(f), Current.idle)
       THEN /\ flight' = [flight EXCEPT ![f].pc = "again", ![f].idle = Current.idle]
            /\ UNCHANGED histories
       ELSE End(f) /\ Refuse(Token(f))
    /\ UNCHANGED <<session, cache, setting, disturbances>>

\* The second look-up, with the timeout of the first, is only there for Touch: the
\* request goes on without it.
ForwardAgain(f) ==
    /\ At(f, "again")
    /\ IF Lookup(Token(f), flight[f].idle)
       THEN /\ flight' = [flight EXCEPT ![f].pc = "touch", ![f].seen = session[Token(f)].seen]
            /\ UNCHANGED histories
       ELSE Goto(f, "record") /\ Refuse(Token(f))
    /\ UNCHANGED <<session, cache, setting, timeouts, disturbances>>

AgainFails(f) ==
    /\ At(f, "again") /\ Disturbed
    /\ Goto(f, "record") /\ Refuse(Token(f))
    /\ UNCHANGED <<session, cache, setting, timeouts>>

ForwardTouch(f) ==
    /\ At(f, "touch") /\ Goto(f, "record")
    /\ Touch(Token(f), flight[f].seen)
    /\ UNCHANGED <<cache, setting, timeouts, histories, disturbances>>

\* The record's expiry is taken before the user's other columns are read.
ForwardRecord(f) ==
    /\ At(f, "record")
    /\ flight' = [flight EXCEPT ![f].pc = "put", ![f].left = CacheTTL]
    /\ UNCHANGED <<session, cache, setting, timeouts, histories, disturbances>>

ForwardPut(f) ==
    /\ At(f, "put") /\ cache' = [cache EXCEPT ![Token(f)] = flight[f].left]
    /\ Accept(Token(f)) /\ End(f)
    /\ UNCHANGED <<session, setting, timeouts, disturbances>>

\* The cache's sweeper.
SweepCache ==
    /\ \E t \in Tokens : cache[t] # None /\ cache[t] < 0
    /\ cache' = [t \in Tokens |-> IF cache[t] # None /\ cache[t] < 0 THEN None ELSE cache[t]]
    /\ UNCHANGED <<session, setting, timeouts, flight, histories, disturbances>>
----------------------------------------------------------------------------
(* Logout: behind Authenticate, then the row, then the cache entry. *)

Logout(f, t) ==
    /\ session[t] # None /\ Begin(f, "delete", t) /\ session' = [session EXCEPT ![t] = None]
    /\ UNCHANGED <<cache, setting, timeouts, histories, disturbances>>

\* The DELETE fails: the row stays, the answer is 204 all the same.
LogoutFails(f, t) ==
    /\ session[t] # None /\ Disturbed /\ Begin(f, "evict", t)
    /\ UNCHANGED <<session, cache, setting, timeouts, histories>>

Evict(f) ==
    /\ At(f, "evict") /\ End(f)
    /\ cache' = [cache EXCEPT ![Token(f)] = None]
    /\ UNCHANGED <<session, setting, timeouts, histories, disturbances>>

Asking(t) == \E g \in Flights : Token(g) = t /\ flight[g].pc \notin {"delete", "evict"}

Done(t) ==
    /\ revoked' = [revoked EXCEPT ![t] = 0]
    /\ overlapped' = [overlapped EXCEPT ![t] = Asking(t)]
    /\ UNCHANGED <<due, accepted, refused, verdict>>

Invalidate(f) ==
    /\ At(f, "delete") /\ Done(Token(f)) /\ End(f)
    /\ cache' = [cache EXCEPT ![Token(f)] = None]
    /\ UNCHANGED <<session, setting, timeouts, disturbances>>
----------------------------------------------------------------------------
(* The clock and the process *)

Older(a) == IF a = None \/ a = Horizon THEN a ELSE a + 1
Shorter(a) == IF a = None \/ a = -Horizon THEN a ELSE a - 1

\* A request in progress finishes within MaxFlight.
Tick ==
    /\ \A f \in Flights : flight[f].age < MaxFlight
    /\ session' = [t \in Tokens |-> IF session[t] = None THEN None
                      ELSE [left |-> Shorter(session[t].left), seen |-> Older(session[t].seen)]]
    /\ cache' = [t \in Tokens |-> Shorter(cache[t])]
    /\ timeouts' = IF timeouts = None THEN None ELSE [timeouts EXCEPT !.left = Shorter(@)]
    /\ flight' = [f \in Flights |-> IF At(f, "idle") THEN Idle
                     ELSE [flight[f] EXCEPT !.age = @ + 1, !.seen = Older(@),
                             !.left = IF At(f, "put") THEN @ - 1 ELSE 0]]
    /\ due' = [t \in Tokens |-> Shorter(due[t])]
    /\ accepted' = [t \in Tokens |-> Older(accepted[t])]
    /\ revoked' = [t \in Tokens |-> Older(revoked[t])]
    /\ verdict' = NoVerdict
    /\ UNCHANGED <<setting, overlapped, refused, disturbances>>

Restart ==
    /\ Disturbed
    /\ cache' = [t \in Tokens |-> None] /\ timeouts' = None
    /\ flight' = [f \in Flights |-> Idle]
    /\ UNCHANGED <<session, setting, histories>>

Next ==
    \/ \E v \in Timeouts : PutTimeouts(v)
    \/ \E abs \in {setting.abs, Default.abs}, idle \in {setting.idle, Default.idle} : ReadFails(abs, idle)
    \/ \E t \in Tokens : Login(t)
    \/ \E f \in Flights, t \in Tokens : Authenticate(f, t) \/ CacheGet(f, t)
          \/ Logout(f, t) \/ LogoutFails(f, t)
    \/ \E f \in Flights : PanelLookup(f) \/ PanelServe(f) \/ ForwardLookup(f)
          \/ ForwardAgain(f) \/ ForwardTouch(f) \/ ForwardRecord(f) \/ ForwardPut(f)
          \/ Invalidate(f) \/ Evict(f) \/ LookupFails(f) \/ AgainFails(f) \/ TouchFails(f)
    \/ SweepCache \/ Tick \/ Restart

Spec == Init /\ [][Next]_vars
----------------------------------------------------------------------------
(* Properties *)

\* Types; a request never lasts longer than MaxFlight.
TypeOK ==
    /\ session \in [Tokens -> [left: -Horizon .. Horizon, seen: 0 .. Horizon] \cup {None}]
    /\ cache \in [Tokens -> -Horizon .. CacheTTL \cup {None}]
    /\ \A f \in Flights : flight[f].age \in 0 .. MaxFlight

\* A session never outlives its absolute timeout, whatever its user does and
\* whatever the settings become: beyond the expiry it was created with, a
\* request passes only on a look-up already in progress or a cached verdict.
AbsoluteCap == verdict.due >= -(CacheTTL + MaxFlight)

\* A session in use stays alive: until a look-up refuses it, or a touch fails (which
\* the code ignores), the last-seen time it is judged by lags behind the last request
\* let through by the throttle, the life of a cached verdict and one request at most,
\* whoever touches it (Touch, ForwardAuth's cache in front of it).
KeptAlive ==
    \A t \in Tokens : session[t] # None /\ t \notin refused =>
        session[t].seen - accepted[t] < Throttle + CacheTTL + MaxFlight

\* A logged-out session, its row deleted, passes only because a look-up was in
\* progress during the logout (the verdict is stored after the entry is evicted).
LogoutIsPrompt == verdict.revoked # None => verdict.overlapped

\* And then for no longer than that request and the life of its verdict.
LogoutIsBounded == verdict.revoked # None => verdict.revoked <= CacheTTL + MaxFlight
=============================================================================
