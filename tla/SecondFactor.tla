---------------------------- MODULE SecondFactor ----------------------------
(***************************************************************************)
(* The second factor of one user: enrolment (setup, activate, disable, new *)
(* recovery codes), the pending challenge a login opens, and the two ways  *)
(* of completing it, a six-digit code or a recovery code redeemed by       *)
(* compare-and-swap.  Every statement on the users row and every call of   *)
(* the challenge store is a step; requests interleave between them, and    *)
(* the panel may restart.  The row and the attempts survive a restart, the *)
(* challenges and the requests do not.  Ages are relative: time goes on.   *)
(***************************************************************************)
EXTENDS Integers, FiniteSets

CONSTANTS
    Requests,           \* concurrent requests of the user
    Keys,               \* the recovery codes of one set
    None,
    WindowFails,        \* failures that close the window
    Window,             \* the age after which a failure no longer counts
    TTL,                \* the age a challenge may reach
    Retries,            \* attempts of the compare-and-swap
    MaxLogins, MaxStarts, MaxUncounted, MaxRestarts   \* bounds

ASSUME SecondFactorAssumption ==
    /\ None \notin {"setup", "activate", "disable"}
    /\ MaxLogins \in Nat /\ MaxStarts \in Nat /\ TTL \in Nat /\ Window \in Nat
    /\ Retries \in Nat \ {0} /\ WindowFails \in Nat \ {0}
    /\ IsFiniteSet(Requests) /\ None \notin Nat

VARIABLES
    row,         \* the users row: enabled, secret, recovery codes, ciphertext
    writes,      \* identity of the last secret, set of codes or ciphertext written
    challenges,  \* ChallengeStore: the age of each challenge, None when absent
    logins,      \* challenges opened so far
    failures,    \* totp_attempts: the failures of the window, an age and a number each
    sessions,    \* sessions issued: the challenge and the code redeemed for each
    request,     \* where each request is
    confirmed,   \* history: secrets a six-digit code was checked against
    spent,       \* history: recovery codes that have left the row
    overtaken,   \* history: enrolment requests behind whose back another has written
    blind,       \* history: secrets that an overtaken activation switched on
    uncounted,   \* failed look-ups of the limit
    starts, restarts

rowVars == <<row, writes, spent, overtaken, blind>>
vars == <<rowVars, challenges, logins, failures, sessions, request, confirmed, uncounted,
          starts, restarts>>

Ids      == 1 .. MaxLogins
AllKeys  == (1 .. writes) \X Keys
NoRow    == [on |-> FALSE, secret |-> 0, codes |-> {}, blob |-> 0]
Idle     == [pc |-> "idle", kind |-> None, ch |-> 0, code |-> None, secret |-> 0,
             codes |-> {}, blob |-> 0, attempt |-> 0]
Enrolment == {"setup", "activate", "disable"}

Init ==
    /\ row = NoRow /\ writes = 0 /\ spent = {} /\ overtaken = {} /\ blind = {}
    /\ challenges = [c \in Ids |-> None] /\ logins = 0
    /\ failures = {}
    /\ sessions = {} /\ confirmed = {}
    /\ request = [p \in Requests |-> Idle]
    /\ uncounted = 0 /\ starts = 0 /\ restarts = 0

\* One UPDATE of the users row.
Write(new) == row' = new /\ spent' = spent \cup (row.codes \ new.codes)

\* Whoever has read the row in order to change its secret or its flag, and not yet
\* written.
Deciding == {p \in Requests : request[p].pc \in {"setup_write", "activate_write", "disable_write"}}

\* The UPDATE of an enrolment, by the requests of by: it looks at nothing, so the
\* others write over it.
Enrol(by, new) == Write(new) /\ overtaken' = (overtaken \cup Deciding) \ by

Goto(p, pc) == request' = [request EXCEPT ![p].pc = pc]
End(p)      == request' = [request EXCEPT ![p] = Idle]
At(p, pc)   == request[p].pc = pc

OpenSession(p, redeemed) ==
    sessions' = sessions \cup {[id |-> Cardinality(sessions) + 1, ch |-> request[p].ch,
                                via |-> redeemed]}
----------------------------------------------------------------------------
(* A request begins. *)

Begin(p, kind, ch, code) ==
    /\ At(p, "idle") /\ starts < MaxStarts /\ starts' = starts + 1
    /\ request' = [request EXCEPT ![p] = [Idle EXCEPT !.pc = kind, !.kind = kind,
                                                      !.ch = ch, !.code = code]]
    /\ UNCHANGED <<rowVars, challenges, logins, failures, sessions, confirmed, uncounted, restarts>>

\* The user sends a challenge it was given and, to redeem one, a code it was
\* handed, used or not.
BeginSome(p) ==
    \/ \E kind \in Enrolment \cup {"login", "regenerate"} : Begin(p, kind, 0, None)
    \/ \E c \in 1 .. logins : Begin(p, "verify", c, None)
    \/ \E c \in 1 .. logins, k \in row.codes \cup spent : Begin(p, "recovery", c, k)
----------------------------------------------------------------------------
(* Enrolment *)

\* Mutant: setup no longer refuses a factor that is already on.
SetupAnyway(p) ==
    /\ At(p, "setup")
    /\ Goto(p, "setup_write")
    /\ UNCHANGED <<rowVars, challenges, logins, failures, sessions, confirmed, starts, uncounted, restarts>>

SetupRead(p) ==
    /\ At(p, "setup")
    /\ IF row.on THEN End(p) ELSE Goto(p, "setup_write")
    /\ UNCHANGED <<rowVars, challenges, logins, failures, sessions, confirmed, starts, uncounted, restarts>>

\* SetUserTOTP: a new secret and ten new codes, and the flag off.
SetUserTOTP(p) ==
    /\ At(p, "setup_write") /\ writes' = writes + 1 /\ blind' = blind
    /\ Enrol({p}, [on |-> FALSE, secret |-> writes + 1, codes |-> {writes + 1} \X Keys,
              blob |-> writes + 1])
    /\ End(p)
    /\ UNCHANGED <<challenges, logins, failures, sessions, confirmed, starts, uncounted, restarts>>

\* Mutant: the pending secret is activated whatever the code.
ActivateUnchecked(p) ==
    /\ At(p, "activate")
    /\ IF row.on \/ row.secret = 0 THEN End(p) ELSE Goto(p, "activate_write")
    /\ UNCHANGED <<rowVars, challenges, logins, failures, sessions, confirmed, starts, uncounted, restarts>>

\* The code is checked against the secret this read returned.
ActivateRead(p) ==
    /\ At(p, "activate")
    /\ \/ End(p) /\ UNCHANGED confirmed
       \/ /\ ~row.on /\ row.secret # 0
          /\ confirmed' = confirmed \cup {row.secret}
          /\ Goto(p, "activate_write")
    /\ UNCHANGED <<rowVars, challenges, logins, failures, sessions, starts, uncounted, restarts>>

\* ActivateTOTP sets the flag of whatever secret the row then has.
ActivateTOTP(p) ==
    /\ At(p, "activate_write")
    /\ Enrol({p}, [row EXCEPT !.on = TRUE]) /\ End(p)
    /\ blind' = IF p \in overtaken THEN blind \cup {row.secret} ELSE blind
    /\ UNCHANGED <<writes, challenges, logins, failures, sessions, confirmed, starts, uncounted, restarts>>

\* Password and code are right, or the request ends.
DisableRead(p) ==
    /\ At(p, "disable")
    /\ \/ End(p)
       \/ row.on /\ Goto(p, "disable_write")
    /\ UNCHANGED <<rowVars, challenges, logins, failures, sessions, confirmed, starts, uncounted, restarts>>

DisableTOTP(p) ==
    /\ At(p, "disable_write")
    /\ Enrol({p}, NoRow) /\ End(p)
    /\ UNCHANGED <<writes, blind, challenges, logins, failures, sessions, confirmed, starts, uncounted, restarts>>

RegenerateRead(p) ==
    /\ At(p, "regenerate")
    /\ \/ End(p)
       \/ row.on /\ Goto(p, "regenerate_write")
    /\ UNCHANGED <<rowVars, challenges, logins, failures, sessions, confirmed, starts, uncounted, restarts>>

\* SaveRecoveryCodes overwrites whatever codes the row then has.
SaveRecoveryCodes(p) ==
    /\ At(p, "regenerate_write") /\ writes' = writes + 1
    /\ Write([row EXCEPT !.codes = {writes + 1} \X Keys, !.blob = writes + 1])
    /\ End(p)
    /\ UNCHANGED <<overtaken, blind, challenges, logins, failures, sessions, confirmed, starts, uncounted, restarts>>
----------------------------------------------------------------------------
(* Login, once the password is right *)

LoginRead(p) ==
    /\ At(p, "login")
    /\ Goto(p, IF row.on THEN "challenge" ELSE "open")
    /\ UNCHANGED <<rowVars, challenges, logins, failures, sessions, confirmed, starts, uncounted, restarts>>

\* ChallengeStore.Create
CreateChallenge(p) ==
    /\ At(p, "challenge") /\ logins < MaxLogins /\ logins' = logins + 1
    /\ challenges' = [challenges EXCEPT ![logins + 1] = 0]
    /\ End(p)
    /\ UNCHANGED <<rowVars, failures, sessions, confirmed, starts, uncounted, restarts>>

OpenByPassword(p) ==
    /\ At(p, "open") /\ OpenSession(p, {}) /\ End(p)
    /\ UNCHANGED <<rowVars, challenges, logins, failures, confirmed, starts, uncounted, restarts>>
----------------------------------------------------------------------------
(* Completing a challenge *)

\* ChallengeStore.Get: an expired challenge is dropped on the way.
GetChallenge(p) ==
    /\ request[p].pc \in {"verify", "recovery"}
    /\ LET age == challenges[request[p].ch] IN
       IF age \in 0 .. TTL
       THEN Goto(p, "limit") /\ UNCHANGED challenges
       ELSE /\ End(p)
            /\ challenges' = [challenges EXCEPT ![request[p].ch] = None]
    /\ UNCHANGED <<rowVars, logins, failures, sessions, confirmed, starts, uncounted, restarts>>

recent == Cardinality(failures)

\* Mutant: the failure that reaches the limit is let through.
CheckOneMore(p) ==
    /\ At(p, "limit")
    /\ IF recent > WindowFails THEN End(p)
       ELSE Goto(p, IF request[p].kind = "verify" THEN "check" ELSE "redeem")
    /\ UNCHANGED <<rowVars, challenges, logins, failures, sessions, confirmed, starts, uncounted, restarts>>

CheckTOTPRateLimit(p) ==
    /\ At(p, "limit")
    /\ IF recent >= WindowFails THEN End(p)
       ELSE Goto(p, IF request[p].kind = "verify" THEN "check" ELSE "redeem")
    /\ UNCHANGED <<rowVars, challenges, logins, failures, sessions, confirmed, starts, uncounted, restarts>>

\* The count cannot be read, and the caller goes on as if it were below the limit.
CountFails(p) ==
    /\ At(p, "limit") /\ uncounted < MaxUncounted /\ uncounted' = uncounted + 1
    /\ Goto(p, IF request[p].kind = "verify" THEN "check" ELSE "redeem")
    /\ UNCHANGED <<rowVars, challenges, logins, failures, sessions, confirmed, starts, restarts>>

\* The row is read and the code compared: off ends the request unrecorded.
Verify(p) ==
    /\ At(p, "check")
    /\ IF ~row.on THEN End(p)
       ELSE \E pc \in {"right", "wrong"} : Goto(p, pc)
    /\ UNCHANGED <<rowVars, challenges, logins, failures, sessions, confirmed, starts, uncounted, restarts>>

\* The INSERT may fail, which is ignored.
RecordFailure(p) ==
    /\ At(p, "wrong") /\ End(p)
    /\ failures' \in {failures, failures \cup {<<0, Cardinality({f \in failures : f[1] = 0}) + 1>>}}
    /\ UNCHANGED <<rowVars, challenges, logins, sessions, confirmed, starts, uncounted, restarts>>

\* The codes left when the one presented is taken out of the list.
Remaining(p) == row.codes \ {request[p].code}

\* GetUserTOTP and ConsumeRecoveryCode on what it returned.
ConsumeRecoveryCode(p) ==
    /\ At(p, "redeem")
    /\ IF ~row.on \/ row.blob = 0 THEN End(p)
       ELSE IF request[p].code \notin row.codes THEN Goto(p, "wrong")
       ELSE request' = [request EXCEPT ![p].pc = "cas", ![p].blob = row.blob,
                                       ![p].codes = Remaining(p)]
    /\ UNCHANGED <<rowVars, challenges, logins, failures, sessions, confirmed, starts, uncounted, restarts>>

\* Mutant: the shorter list is written whatever the row now holds.
SaveShorter(p) ==
    /\ At(p, "cas") /\ writes' = writes + 1
    /\ Write([row EXCEPT !.codes = request[p].codes, !.blob = writes + 1])
    /\ request' = [request EXCEPT ![p].pc = "right", ![p].codes = {}, ![p].blob = 0]
    /\ UNCHANGED <<overtaken, blind, challenges, logins, failures, sessions, confirmed, starts, uncounted, restarts>>

SaveRecoveryCodesCAS(p) ==
    /\ At(p, "cas")
    /\ IF row.blob = request[p].blob
       THEN /\ writes' = writes + 1
            /\ Write([row EXCEPT !.codes = request[p].codes, !.blob = writes + 1])
            /\ UNCHANGED <<overtaken, blind>>
            /\ request' = [request EXCEPT ![p].pc = "right", ![p].codes = {}, ![p].blob = 0]
       ELSE /\ UNCHANGED rowVars
            /\ IF request[p].attempt = Retries - 1 THEN End(p)
               ELSE request' = [request EXCEPT ![p].pc = "redeem", ![p].codes = {},
                                               ![p].blob = 0, ![p].attempt = @ + 1]
    /\ UNCHANGED <<challenges, logins, failures, sessions, confirmed, starts, uncounted, restarts>>

\* issueSession, after the attempt is recorded as a success.
IssueSession(p) ==
    /\ At(p, "right")
    /\ OpenSession(p, IF request[p].kind = "verify" THEN {} ELSE {request[p].code})
    /\ Goto(p, "consume")
    /\ UNCHANGED <<rowVars, challenges, logins, failures, confirmed, starts, uncounted, restarts>>

Consume(p) ==
    /\ At(p, "consume") /\ End(p)
    /\ challenges' = [challenges EXCEPT ![request[p].ch] = None]
    /\ UNCHANGED <<rowVars, logins, failures, sessions, confirmed, starts, uncounted, restarts>>
----------------------------------------------------------------------------
(* The command line, the clock, the sweeper and the process *)

\* argos disable-2fa: DisableTOTP from another process.
CliDisable ==
    /\ row.on /\ starts < MaxStarts /\ starts' = starts + 1
    /\ Enrol({}, NoRow)
    /\ UNCHANGED <<writes, blind, challenges, logins, failures, sessions, request, confirmed, uncounted, restarts>>

Tick ==
    /\ challenges' = [c \in Ids |-> IF challenges[c] \in 0 .. TTL THEN challenges[c] + 1
                                    ELSE challenges[c]]
    /\ failures' = {<<f[1] + 1, f[2]>> : f \in {g \in failures : g[1] < Window}}
    /\ UNCHANGED <<rowVars, logins, sessions, request, confirmed, starts, uncounted, restarts>>

Expired == {c \in Ids : challenges[c] # None /\ challenges[c] > TTL}

Sweep ==
    /\ Expired # {}
    /\ challenges' = [c \in Ids |-> IF c \in Expired THEN None ELSE challenges[c]]
    /\ UNCHANGED <<rowVars, logins, failures, sessions, request, confirmed, starts, uncounted, restarts>>

Restart ==
    /\ restarts < MaxRestarts /\ restarts' = restarts + 1
    /\ challenges' = [c \in Ids |-> None]
    /\ request' = [p \in Requests |-> Idle] /\ overtaken' = {}
    /\ UNCHANGED <<row, writes, spent, blind, logins, failures, sessions, confirmed, starts, uncounted>>

Step(p) ==
    \/ SetupRead(p) \/ SetUserTOTP(p) \/ ActivateRead(p) \/ ActivateTOTP(p)
    \/ DisableRead(p) \/ DisableTOTP(p) \/ RegenerateRead(p) \/ SaveRecoveryCodes(p)
    \/ LoginRead(p) \/ CreateChallenge(p) \/ OpenByPassword(p)
    \/ GetChallenge(p) \/ CheckTOTPRateLimit(p) \/ CountFails(p) \/ Verify(p) \/ RecordFailure(p)
    \/ ConsumeRecoveryCode(p) \/ SaveRecoveryCodesCAS(p) \/ IssueSession(p) \/ Consume(p)

Next ==
    \/ \E p \in Requests : BeginSome(p) \/ Step(p)
    \/ CliDisable \/ Tick \/ Sweep \/ Restart

Spec == Init /\ [][Next]_vars
----------------------------------------------------------------------------
(* Properties *)

\* Types; a request holds a list of codes only while it swaps it.
TypeOK ==
    /\ row \in [on: BOOLEAN, secret: 0 .. writes, codes: SUBSET AllKeys, blob: 0 .. writes]
    /\ challenges \in [Ids -> 0 .. TTL + 1 \cup {None}] /\ logins \in 0 .. MaxLogins
    /\ \A f \in failures : f[1] \in 0 .. Window
    /\ confirmed \subseteq 1 .. writes /\ spent \subseteq AllKeys
    /\ \A p \in Requests : request[p].attempt < Retries /\ (request[p].codes # {} => At(p, "cas"))

\* One recovery code opens at most one session, however many requests present
\* it at once and whatever set replaces it meanwhile.
OneSessionPerCode ==
    \A s, t \in sessions : s.via # {} /\ s.via = t.via => s = t

\* A code that was redeemed or replaced never comes back into the row: no
\* slow request writes an older list over a newer one.
SpentStaysSpent == row.codes \cap spent = {}

\* Both: what TOTPRecovery's compare-and-swap loop is for.
CodesAreSpentOnce == TypeOK /\ OneSessionPerCode /\ SpentStaysSpent

\* A second factor that is on has a secret the user has proved to hold, unless the
\* activation that switched it on was overtaken: a setup or a disable wrote between
\* its check of the code and its UPDATE, which sets the flag of whatever is there.
EnabledIsConfirmed == row.on => row.secret \in confirmed \cup blind

\* The limit is read before the attempt and recorded after it, so requests in
\* flight may pass it together, and no more than those and one for each look-up of
\* the limit that failed.
FailuresBounded == recent <= WindowFails - 1 + Cardinality(Requests) + uncounted

\* A challenge is good for one session, and for the requests that were already
\* past the store when the first one consumed it.
ReplayBound ==
    \A c \in Ids : Cardinality({s \in sessions : s.ch = c}) <= Cardinality(Requests)

\* Both: what a guesser gets out of the requests that overlap.
GuessesBounded == FailuresBounded /\ ReplayBound

\* A second factor that is on goes off by being disabled, its secret and its codes
\* with it, or by a setup that was overtaken: an activation came between its check
\* that the factor is off and its UPDATE.  No setup that finds it on does so.
OnlyDisableTurnsOff ==
    [][row.on /\ ~row'.on => \/ row' = NoRow
                            \/ \E p \in overtaken : At(p, "setup_write") /\ p \notin overtaken']_vars
=============================================================================
