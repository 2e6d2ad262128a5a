------------------------------- MODULE Access -------------------------------
(***************************************************************************)
(* Signing in: the second factor (SecondFactor), the clocks of a session   *)
(* (Sessions), single sign-on (SingleSignOn) and the limiter of password   *)
(* sign-ins (LoginLimiter).  They share no state.  part says which of them *)
(* a behaviour is about.                                                   *)
(***************************************************************************)
EXTENDS SecondFactor

CONSTANTS
    Tokens, Flights, Timeouts, Default, Throttle, CacheTTL, SettingsTTL, MaxFlight, Horizon, \* of the clocks
    MaxEdits,
    Callbacks, Subjects, Emails, Addresses, First, Configs, Disturbances, \* of single sign-on
    MaxFlows, MaxCallbacks, MaxDisturbances,
    Logins, LoginFails, LoginWindow, BanDuration, MaxFailures, MaxReboots, MaxUnread \* of the limiter

VARIABLES
    part,
    session, cache, setting, timeouts, flight, due, accepted, revoked, overlapped, refused,
    verdict, edits,
    settings, put, provider, flow, email, users, callback, signed, counts,
    tries, ban, login, lockout, slipped, unread, reboots

Clock == INSTANCE Sessions WITH disturbances <- edits, MaxDisturbances <- MaxEdits

SignOn == INSTANCE SingleSignOn_proofs WITH
    setting <- settings, sessions <- signed, MaxStarts <- MaxCallbacks

Limiter == INSTANCE LoginLimiter WITH
    failures <- tries, restarts <- reboots,
    WindowFails <- LoginFails, Window <- LoginWindow, MaxRestarts <- MaxReboots

\* Times are told apart up to the Horizon, which no timeout reaches.
ASSUME ClockAssumption ==
    /\ \A v \in Timeouts \cup {Default} : v.abs \in 0 .. Horizon - 1 /\ v.idle \in 0 .. Horizon - 1
    /\ Throttle \in Nat \ {0} /\ CacheTTL \in Nat /\ SettingsTTL \in Nat
    /\ MaxFlight \in 0 .. Horizon /\ Horizon \in Nat
    /\ None \notin Tokens \cup Int \cup [left: Int, seen: Int]
                   \cup [abs: Int, left: Int, idle: Int]

\* The hypothesis of the theorems about single sign-on.
ASSUME SignOnAssumption == SignOn!Parameters

ASSUME LimiterAssumption ==
    LoginFails \in Nat \ {0} /\ LoginWindow \in Nat /\ BanDuration \in Nat \ {0} /\ IsFiniteSet(Logins)
----------------------------------------------------------------------------
(* The properties of the parts besides the second factor's, together; each *)
(* is stated in its module.                                                *)

\* Sessions and bans: no session outlives the expiry it was created with, one
\* in use does not become idle, and after a logout only a look-up in progress
\* lets it pass, for a bounded time; an address is kept out for the whole ban,
\* after the limit's failures and those of the logins in flight at most.  What a
\* failed statement does to each is said there.
SessionsAndBansHold ==
    /\ part = "clock" =>
          /\ Clock!TypeOK
          /\ Clock!AbsoluteCap /\ Clock!KeptAlive /\ Clock!LogoutIsPrompt /\ Clock!LogoutIsBounded
    /\ part = "limiter" => Limiter!TypeOK /\ Limiter!FailuresBounded /\ Limiter!LockoutHolds

\* SingleSignOn: one row per identity and one identity per name, a sign-in opens
\* the row of its own identity, a flow is good for the callbacks that found it
\* and no more, and the provider is that of the settings the request read.
SignOnIsOwn == part = "signon" => SignOn!SignOnIsOwn
=============================================================================
