------------------------------ MODULE MCAccess ------------------------------
(***************************************************************************)
(* Instances for TLC of the four modules about signing in, which share no  *)
(* state: a behaviour is one of them, and the others stay as they began.   *)
(* The second factor: two requests, one challenge, two codes in a set, one *)
(* failure closes the window, the compare-and-swap is tried twice.  One    *)
(* token and two requests of it at a time.  Two callbacks and two          *)
(* identities.  Two logins at a time, and a ban that outlasts the window.  *)
(***************************************************************************)
EXTENDS Access, TLC

CONSTANT Parts

sessionVars == <<session, cache, setting, timeouts, flight, due, accepted, revoked, overlapped,
                 refused, verdict, edits>>
signonVars  == <<settings, put, provider, flow, email, users, callback, signed, counts>>
limiterVars == <<tries, ban, login, lockout, slipped, unread, reboots>>
mcVars == <<part, vars, sessionVars, signonVars, limiterVars>>

\* In units of the throttle; the second idle timeout is above its absolute one, and the third
\* pair has the first's absolute timeout and a longer idle one.
SomeTimeouts == {[abs |-> 4, idle |-> 2], [abs |-> 2, idle |-> 4], [abs |-> 4, idle |-> 3]}

NoSetting == [abs |-> 4, idle |-> 3]

\* Two identities, both of which ask for the name the local user may have; a
\* PUT changes issuer and client and turns provisioning off.
SomeAddresses == "s1" :> "e1" @@ "s2" :> "e2"
FirstConfig   == [issuer |-> 1, client |-> 1, auto |-> TRUE]
OtherConfigs  == {[issuer |-> 2, client |-> 2, auto |-> FALSE]}

MCInit ==
    /\ part \in Parts
    /\ Init /\ Clock!Init /\ SignOn!Init /\ Limiter!Init
    /\ part # "clock" => setting = [abs |-> 4, idle |-> 3]
    /\ part # "signon" => users = {}

MCNext ==
    \/ part = "factor"  /\ Next         /\ UNCHANGED <<part, sessionVars, signonVars, limiterVars>>
    \/ part = "clock"   /\ Clock!Next   /\ UNCHANGED <<part, vars, signonVars, limiterVars>>
    \/ part = "signon"  /\ SignOn!Next  /\ UNCHANGED <<part, vars, sessionVars, limiterVars>>
    \/ part = "limiter" /\ Limiter!Next /\ UNCHANGED <<part, vars, sessionVars, signonVars>>

MCSpec == MCInit /\ [][MCNext]_mcVars
=============================================================================
