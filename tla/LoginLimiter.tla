---------------------------- MODULE LoginLimiter ----------------------------
(***************************************************************************)
(* The limiter of password sign-ins from one address: failures are rows,   *)
(* the ban they lead to is an entry in memory.  A login is checked before  *)
(* its password and recorded after it, so logins overlap between the two;  *)
(* a query may fail, which lets the login through; the process may         *)
(* restart.  Ages and remaining times are relative.                        *)
(***************************************************************************)
EXTENDS Integers, FiniteSets

CONSTANTS
    Logins,        \* concurrent login requests from the address
    WindowFails, Window, BanDuration,
    MaxFailures, MaxRestarts, MaxUnread   \* bounds

VARIABLES
    failures,  \* login_attempts: the failures of the window, an age and a number each
    ban,       \* bans: time left, 0 without an entry
    login,     \* whether each login has passed the check
    lockout,   \* history: time left since the failures reached the limit,
               \* and whether the ban was not seeded or has been lost since
    slipped,   \* history: a login passed the check during a lockout
    unread,    \* failed queries
    restarts

vars == <<failures, ban, login, lockout, slipped, unread, restarts>>

NoLockout == [left |-> 0, weak |-> FALSE]

Init ==
    /\ failures = {} /\ ban = 0
    /\ login = [l \in Logins |-> "idle"]
    /\ lockout = NoLockout /\ slipped = "no" /\ unread = 0 /\ restarts = 0

\* Check: the entry in memory first, then the rows of the window.
Banned(f) == ban > 0 \/ Cardinality(f) >= WindowFails
Seeded(f) == IF ban > 0 THEN ban ELSE IF Cardinality(f) >= WindowFails THEN BanDuration ELSE 0

\* l goes on to its password.
LetThrough(l) ==
    /\ login' = [login EXCEPT ![l] = "password"]
    /\ slipped' = IF lockout.left = 0 THEN slipped ELSE IF lockout.weak THEN "weak" ELSE "held"

Check(l) ==
    /\ login[l] = "idle"
    /\ ban' = Seeded(failures)
    /\ IF Banned(failures) THEN UNCHANGED <<login, slipped>> ELSE LetThrough(l)
    /\ UNCHANGED <<failures, lockout, unread, restarts>>

\* A query is asked for only without an entry in memory; it may fail.
Unread == ban = 0 /\ unread < MaxUnread /\ unread' = unread + 1

CheckUnread(l) ==
    /\ login[l] = "idle" /\ Unread
    /\ LetThrough(l)
    /\ UNCHANGED <<failures, ban, lockout, restarts>>

\* The password is right, or the INSERT of a failure fails: nothing is recorded.
Authenticated(l) ==
    /\ login[l] = "password" /\ login' = [login EXCEPT ![l] = "idle"]
    /\ UNCHANGED <<failures, ban, lockout, slipped, unread, restarts>>

Failed == failures \cup {<<0, Cardinality({f \in failures : f[1] = 0}) + 1>>}
Reached(weak) == IF ban > 0 \/ Cardinality(Failed) < WindowFails THEN lockout
                 ELSE [left |-> BanDuration, weak |-> weak]

\* Mutant: the ban is left to the next check.
RecordOnly(l) ==
    /\ login[l] = "password" /\ login' = [login EXCEPT ![l] = "idle"]
    /\ Cardinality(failures) < MaxFailures
    /\ failures' = Failed /\ lockout' = Reached(FALSE)
    /\ UNCHANGED <<ban, slipped, unread, restarts>>

\* Record: the row, and at once the check that seeds the ban.
Record(l) ==
    /\ login[l] = "password" /\ login' = [login EXCEPT ![l] = "idle"]
    /\ Cardinality(failures) < MaxFailures
    /\ failures' = Failed /\ ban' = Seeded(Failed) /\ lockout' = Reached(FALSE)
    /\ UNCHANGED <<slipped, unread, restarts>>

\* The row is there, the check after it fails.
RecordUnread(l) ==
    /\ login[l] = "password" /\ login' = [login EXCEPT ![l] = "idle"]
    /\ Cardinality(failures) < MaxFailures /\ Unread
    /\ failures' = Failed /\ lockout' = Reached(TRUE)
    /\ UNCHANGED <<ban, slipped, restarts>>

Sooner(t) == IF t = 0 THEN 0 ELSE t - 1

Tick ==
    /\ failures' = {<<f[1] + 1, f[2]>> : f \in {g \in failures : g[1] < Window}}
    /\ ban' = Sooner(ban)
    /\ lockout' = IF lockout.left <= 1 THEN NoLockout ELSE [lockout EXCEPT !.left = @ - 1]
    /\ UNCHANGED <<login, slipped, unread, restarts>>

\* The entry is lost, the rows stay.
Restart ==
    /\ restarts < MaxRestarts /\ restarts' = restarts + 1
    /\ ban' = 0 /\ login' = [l \in Logins |-> "idle"]
    /\ lockout' = [lockout EXCEPT !.weak = lockout.left > 0]
    /\ UNCHANGED <<failures, slipped, unread>>

Next ==
    \/ \E l \in Logins : Check(l) \/ CheckUnread(l) \/ Authenticated(l)
          \/ Record(l) \/ RecordUnread(l)
    \/ Tick \/ Restart

Spec == Init /\ [][Next]_vars
----------------------------------------------------------------------------
(* Properties *)

\* Types; a ban never runs longer than its duration.
TypeOK ==
    /\ \A f \in failures : f[1] \in 0 .. Window
    /\ ban \in 0 .. BanDuration
    /\ login \in [Logins -> {"idle", "password"}]

\* Once the failures of a window reach the limit, no login is let through to its
\* password for the whole ban, although they age out of the window long before it
\* ends: unless the process restarts, or the check that follows the last failure
\* could not be read.  A later query that fails does no harm, since none is made.
LockoutHolds == slipped # "held"

\* Logins in flight together may pass the check before any of them is recorded,
\* and a check that could not be read lets one more through: that many failures
\* more than the limit, and no more.
FailuresBounded == Cardinality(failures) <= WindowFails - 1 + Cardinality(Logins) + unread
=============================================================================
