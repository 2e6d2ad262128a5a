---------------------------- MODULE Access_proofs ----------------------------
(***************************************************************************)
(* Proofs about signing in.  The second factor, for any number of          *)
(* requests, challenges, codes and restarts: a recovery code is spent      *)
(* once; what is on was confirmed and only a disable turns it off, but for *)
(* enrolment requests that were overtaken.  Sessions, sign-on and limiter, *)
(* for any timeouts, limits and numbers of requests.                       *)
(***************************************************************************)
EXTENDS Access, FiniteSetTheorems, TLAPS

Pcs == {"idle", "setup", "setup_write", "activate", "activate_write", "disable", "disable_write",
        "regenerate", "regenerate_write", "login", "challenge", "open", "verify", "recovery",
        "limit", "check", "redeem", "cas", "right", "wrong", "consume"}
Kinds == Enrolment \cup {"login", "regenerate", "verify", "recovery"}
Request == [pc: Pcs, kind: Kinds \cup {None}, ch: Nat, code: (Nat \X Keys) \cup {None},
            secret: Nat, codes: SUBSET (Nat \X Keys), blob: Nat, attempt: Nat]

\* The types, of the requests too.
Typed ==
    /\ TypeOK
    /\ writes \in Nat /\ request \in [Requests -> Request]
    /\ \A p \in Requests : request[p].blob <= writes /\ request[p].codes \subseteq AllKeys

\* What a swap will write is the row's list less its own code, if the row is
\* still the one that was read.
SwapInv ==
    \A p \in Requests : At(p, "cas") =>
        /\ request[p].blob # 0
        /\ request[p].blob = row.blob => request[p].code \in row.codes /\ request[p].codes = Remaining(p)

\* Which requests redeem a code and which check one.
KindInv ==
    \A p \in Requests :
        /\ At(p, "check") => request[p].kind = "verify"
        /\ request[p].pc \in {"redeem", "cas"} => request[p].kind # "verify"

\* A request about to open a session by a code.
Redeemed(p) == At(p, "right") /\ request[p].kind # "verify"

\* A session's code is spent; and so is one about to open its session, which no
\* session and no other request has.
SpentInv ==
    /\ \A s \in sessions : s.via = {} \/ \E k \in spent : s.via = {k}
    /\ \A p \in Requests : Redeemed(p) =>
          /\ request[p].code \in spent
          /\ \A s \in sessions : s.via # {request[p].code}
          /\ \A q \in Requests : Redeemed(q) /\ request[q].code = request[p].code => q = p

OnceInv == Typed /\ SwapInv /\ KindInv /\ SpentInv /\ OneSessionPerCode /\ SpentStaysSpent

\* What a request read of the row in order to change its flag still holds when it
\* writes, unless it was overtaken.
EnrolInv ==
    /\ \A p \in Requests \ overtaken :
          /\ At(p, "setup_write") => ~row.on
          /\ At(p, "activate_write") => row.secret \in confirmed
    /\ EnabledIsConfirmed
----------------------------------------------------------------------------
\* A request that moves to another place keeps its type.
LEMMA GotoTyped ==
    ASSUME Typed, NEW p \in Requests, NEW pc \in Pcs, Goto(p, pc)
    PROVE  /\ request' \in [Requests -> Request]
           /\ request' = [q \in Requests |-> IF q = p THEN [request[p] EXCEPT !.pc = pc] ELSE request[q]]
<1>1. request[p] \in Request /\ request \in [Requests -> Request]
  BY DEF Typed
<1>2. [request[p] EXCEPT !.pc = pc] \in Request
  BY <1>1 DEF Request
<1> QED
  BY <1>1, <1>2 DEF Goto

\* And so does one that ends.
LEMMA EndTyped ==
    ASSUME Typed, NEW p \in Requests, End(p)
    PROVE  /\ request' \in [Requests -> Request]
           /\ request' = [q \in Requests |-> IF q = p THEN Idle ELSE request[q]]
  BY DEF Typed, End, Idle, Request, Pcs

\* Every step keeps the types.
LEMMA TypedNext == Typed /\ [Next]_vars => Typed'
<1> SUFFICES ASSUME Typed, [Next]_vars PROVE Typed'
  OBVIOUS
<1> USE SecondFactorAssumption
<1>1. ASSUME NEW p \in Requests, NEW kind \in Kinds, NEW ch \in Nat,
             NEW code \in (Nat \X Keys) \cup {None}, Begin(p, kind, ch, code)
      PROVE  Typed'
  <2>1. [Idle EXCEPT !.pc = kind, !.kind = kind, !.ch = ch, !.code = code] \in Request
    BY DEF Idle, Request, Pcs, Kinds, Enrolment
  <2> QED
    BY <1>1, <2>1 DEF Begin, Typed, TypeOK, Idle, rowVars, AllKeys, At
<1>2. ASSUME NEW p \in Requests, BeginSome(p) PROVE Typed'
  <2>1. ASSUME NEW c \in 1 .. logins PROVE c \in Nat
    BY DEF Typed, TypeOK
  <2>2. row.codes \cup spent \subseteq Nat \X Keys
    BY DEF Typed, TypeOK, AllKeys
  <2> QED
    BY <1>1, <1>2, <2>1, <2>2 DEF BeginSome, Kinds
<1>3. ASSUME NEW p \in Requests, NEW pc \in Pcs, pc # "cas", request[p].pc # "cas", Goto(p, pc),
             UNCHANGED <<rowVars, logins, starts, restarts>>, confirmed' \subseteq 1 .. writes,
             challenges' \in [Ids -> 0 .. TTL + 1 \cup {None}], (\A f \in failures' : f[1] \in 0 .. Window)
      PROVE  Typed'
  <2>1. request' \in [Requests -> Request] /\ AllKeys' = AllKeys /\ row' = row /\ writes' = writes
        /\ spent' = spent
    BY <1>3, GotoTyped DEF rowVars, AllKeys
  <2>2. ASSUME NEW q \in Requests
        PROVE  /\ request'[q].attempt = request[q].attempt /\ request'[q].blob = request[q].blob
               /\ request'[q].codes = request[q].codes
               /\ request'[q].codes # {} => request'[q].pc = "cas"
    <3>1. request[q] \in Request /\ request[p] \in Request /\ (request[q].codes # {} => request[q].pc = "cas")
      BY DEF Typed, TypeOK, At
    <3>2. request'[q] = IF q = p THEN [request[p] EXCEPT !.pc = pc] ELSE request[q]
      BY <1>3, GotoTyped
    <3> QED
      BY <1>3, <3>1, <3>2 DEF Request
  <2> QED
    BY <1>3, <2>1, <2>2 DEF Typed, TypeOK, At
<1>4. ASSUME NEW p \in Requests, End(p), writes' \in Nat, writes <= writes',
             row' \in [on: BOOLEAN, secret: 0 .. writes', codes: SUBSET AllKeys', blob: 0 .. writes'],
             spent' \subseteq AllKeys', UNCHANGED <<starts, restarts>>,
             confirmed' \subseteq 1 .. writes', logins' \in 0 .. MaxLogins,
             challenges' \in [Ids -> 0 .. TTL + 1 \cup {None}], (\A f \in failures' : f[1] \in 0 .. Window)
      PROVE  Typed'
  <2>1. Idle.blob = 0 /\ Idle.attempt = 0 /\ Idle.codes = {}
    BY DEF Idle
  <2>2. request' \in [Requests -> Request] /\ AllKeys \subseteq AllKeys'
    BY <1>4, EndTyped DEF AllKeys, Typed
  <2>3. ASSUME NEW q \in Requests
        PROVE  /\ request'[q].attempt < Retries /\ request'[q].blob <= writes'
               /\ request'[q].codes \subseteq AllKeys'
               /\ request'[q].codes # {} => request'[q].pc = "cas"
    <3>1. CASE q = p
      BY <1>4, <2>1, <3>1, EndTyped
    <3>2. CASE q # p
      <4>0. request[q] \in Request /\ writes \in Nat
        BY DEF Typed
      <4>1. request'[q] = request[q] /\ request[q].blob \in Nat /\ writes \in Nat
        <5>1. request'[q] = request[q]
          BY <1>4, <3>2, EndTyped
        <5>2. request[q].blob \in Nat
          BY <4>0 DEF Request
        <5> QED
          BY <4>0, <5>1, <5>2
      <4>2. /\ request[q].attempt < Retries /\ request[q].blob <= writes
            /\ request[q].codes \subseteq AllKeys
            /\ request[q].codes # {} => request[q].pc = "cas"
        BY DEF Typed, TypeOK, At
      <4>3. request[q].blob <= writes'
        BY <1>4, <4>1, <4>2
      <4> QED
        BY <2>2, <4>1, <4>2, <4>3
    <3> QED
      BY <3>1, <3>2
  <2> QED
    BY <1>4, <2>2, <2>3 DEF Typed, TypeOK, At
<1>5. /\ writes \in Nat /\ row.codes \subseteq AllKeys /\ spent \subseteq AllKeys
      /\ row \in [on: BOOLEAN, secret: 0 .. writes, codes: SUBSET AllKeys, blob: 0 .. writes]
      /\ confirmed \subseteq 1 .. writes /\ logins \in 0 .. MaxLogins
      /\ challenges \in [Ids -> 0 .. TTL + 1 \cup {None}] /\ (\A f \in failures : f[1] \in 0 .. Window)
  BY DEF Typed, TypeOK
<1>6. ASSUME NEW p \in Requests, End(p), UNCHANGED <<rowVars, logins, starts, restarts>>,
             confirmed' \subseteq 1 .. writes,
             challenges' \in [Ids -> 0 .. TTL + 1 \cup {None}], (\A f \in failures' : f[1] \in 0 .. Window)
      PROVE  Typed'
  <2>1. row' = row /\ writes' = writes /\ spent' = spent /\ AllKeys' = AllKeys /\ writes <= writes'
        /\ logins' = logins
    BY <1>5, <1>6 DEF rowVars, AllKeys
  <2>2. /\ row' \in [on: BOOLEAN, secret: 0 .. writes', codes: SUBSET AllKeys', blob: 0 .. writes']
        /\ writes' \in Nat /\ spent' \subseteq AllKeys' /\ logins' \in 0 .. MaxLogins
        /\ confirmed' \subseteq 1 .. writes'
    BY <1>5, <1>6, <2>1
  <2> QED
    BY <1>4, <1>6, <2>1, <2>2
<1>7. ASSUME NEW p \in Requests, Step(p) PROVE Typed'
  <2> DEFINE Same == UNCHANGED <<rowVars, logins, starts, restarts>>
  <2>1. CASE SetupRead(p)
    BY <1>3, <1>5, <1>6, <2>1 DEF SetupRead, At, Pcs
  <2>2. CASE SetUserTOTP(p)
    <3>1. row' \in [on: BOOLEAN, secret: 0 .. writes', codes: SUBSET AllKeys', blob: 0 .. writes']
      BY <1>5, <2>2 DEF SetUserTOTP, Enrol, Write, AllKeys
    <3>2. spent' \subseteq AllKeys' /\ confirmed' \subseteq 1 .. writes' /\ writes' \in Nat
          /\ writes <= writes'
      BY <1>5, <2>2 DEF SetUserTOTP, Enrol, Write, AllKeys
    <3> QED
      BY <1>4, <1>5, <2>2, <3>1, <3>2 DEF SetUserTOTP
  <2>3. CASE ActivateRead(p)
    <3>1. confirmed' \subseteq 1 .. writes
      <4>1. row.secret \in 0 .. writes /\ confirmed \subseteq 1 .. writes
        BY <1>5
      <4>2. confirmed' = confirmed \/ (row.secret # 0 /\ confirmed' = confirmed \cup {row.secret})
        BY <2>3 DEF ActivateRead
      <4>3. CASE confirmed' = confirmed
        BY <4>1, <4>3
      <4>4. CASE row.secret # 0 /\ confirmed' = confirmed \cup {row.secret}
        <5>1. row.secret \in 1 .. writes
          BY <1>5, <4>1, <4>4
        <5> QED
          BY <4>1, <4>4, <5>1
      <4> QED
        BY <4>2, <4>3, <4>4
    <3>2. End(p) \/ (Goto(p, "activate_write") /\ request[p].pc # "cas")
      BY <2>3 DEF ActivateRead, At
    <3>3. UNCHANGED <<rowVars, challenges, logins, failures, starts, restarts>>
      BY <2>3 DEF ActivateRead
    <3>4. CASE End(p)
      BY <1>5, <1>6, <3>1, <3>3, <3>4
    <3>5. CASE Goto(p, "activate_write") /\ request[p].pc # "cas"
      BY <1>3, <1>5, <3>1, <3>3, <3>5 DEF Pcs
    <3> QED
      BY <3>2, <3>4, <3>5
  <2>4. CASE ActivateTOTP(p)
    <3>1. row' = [on |-> TRUE, secret |-> row.secret, codes |-> row.codes, blob |-> row.blob]
          /\ spent' = spent /\ writes' = writes
      BY <1>5, <2>4 DEF ActivateTOTP, Enrol, Write
    <3>2. AllKeys' = AllKeys
      BY <3>1 DEF AllKeys
    <3>3. row' \in [on: BOOLEAN, secret: 0 .. writes', codes: SUBSET AllKeys', blob: 0 .. writes']
      BY <1>5, <3>1, <3>2
    <3> QED
      BY <1>4, <1>5, <2>4, <3>1, <3>2, <3>3 DEF ActivateTOTP
  <2>5. CASE DisableRead(p) \/ RegenerateRead(p) \/ LoginRead(p) \/ Verify(p) \/ CheckTOTPRateLimit(p)
             \/ CountFails(p)
    BY <1>3, <1>5, <1>6, <2>5
       DEF DisableRead, RegenerateRead, LoginRead, Verify, CheckTOTPRateLimit, CountFails, At, Pcs
  <2>6. CASE DisableTOTP(p)
    <3>1. row' \in [on: BOOLEAN, secret: 0 .. writes', codes: SUBSET AllKeys', blob: 0 .. writes']
      BY <1>5, <2>6 DEF DisableTOTP, Enrol, Write, NoRow
    <3>2. spent' \subseteq AllKeys' /\ writes' = writes
      BY <1>5, <2>6 DEF DisableTOTP, Enrol, Write, NoRow, AllKeys
    <3> QED
      BY <1>4, <1>5, <2>6, <3>1, <3>2 DEF DisableTOTP
  <2>7. CASE SaveRecoveryCodes(p)
    <3>1. row' \in [on: BOOLEAN, secret: 0 .. writes', codes: SUBSET AllKeys', blob: 0 .. writes']
      <4>1. row' = [on |-> row.on, secret |-> row.secret, codes |-> {writes + 1} \X Keys,
                    blob |-> writes + 1] /\ writes' = writes + 1
        BY <1>5, <2>7 DEF SaveRecoveryCodes, Write
      <4> QED
        BY <1>5, <4>1 DEF AllKeys
    <3>2. spent' \subseteq AllKeys' /\ confirmed' \subseteq 1 .. writes' /\ writes' \in Nat
          /\ writes <= writes'
      BY <1>5, <2>7 DEF SaveRecoveryCodes, Write, AllKeys
    <3> QED
      BY <1>4, <1>5, <2>7, <3>1, <3>2 DEF SaveRecoveryCodes
  <2>8. CASE CreateChallenge(p)
    <3>1. logins' \in 0 .. MaxLogins
      BY <1>5, <2>8 DEF CreateChallenge
    <3>2. 0 \in 0 .. TTL + 1 \cup {None}
      OBVIOUS
    <3>3. challenges' \in [Ids -> 0 .. TTL + 1 \cup {None}]
      BY <1>5, <2>8, <3>2 DEF CreateChallenge
    <3> QED
      BY <1>4, <1>5, <2>8, <3>1, <3>3 DEF CreateChallenge, rowVars, AllKeys
  <2>9. CASE OpenByPassword(p)
    BY <1>5, <1>6, <2>9 DEF OpenByPassword
  <2>10. CASE GetChallenge(p)
    <3>1. challenges' \in [Ids -> 0 .. TTL + 1 \cup {None}]
      BY <1>5, <2>10 DEF GetChallenge
    <3> QED
      BY <1>3, <1>5, <1>6, <2>10, <3>1 DEF GetChallenge, Pcs
  <2>11. CASE RecordFailure(p)
    <3>1. failures' = failures \/ \E n : failures' = failures \cup {<<0, n>>}
      BY <2>11 DEF RecordFailure
    <3>2. \A f \in failures' : f[1] \in 0 .. Window
      BY <1>5, <3>1
    <3> QED
      BY <1>5, <1>6, <2>11, <3>2 DEF RecordFailure
  <2>12. CASE ConsumeRecoveryCode(p)
    <3>1. CASE End(p) \/ Goto(p, "wrong")
      BY <1>3, <1>5, <1>6, <2>12, <3>1 DEF ConsumeRecoveryCode, At, Pcs
    <3>2. CASE ~(End(p) \/ Goto(p, "wrong"))
      <4> DEFINE r == [request[p] EXCEPT !.pc = "cas", !.blob = row.blob, !.codes = Remaining(p)]
      <4>1. request[p] \in Request /\ request[p].attempt < Retries
        BY DEF Typed, TypeOK
      <4>2. Remaining(p) \subseteq AllKeys /\ AllKeys \subseteq Nat \X Keys /\ row.blob \in Nat
            /\ row.blob <= writes
        BY <1>5 DEF Remaining, AllKeys
      <4>3. /\ r \in Request /\ r.pc = "cas" /\ r.codes = Remaining(p) /\ r.blob = row.blob
            /\ r.attempt = request[p].attempt
        BY <4>1, <4>2 DEF Request, Pcs
      <4>4. request' = [request EXCEPT ![p] = r]
        BY <2>12, <3>2 DEF ConsumeRecoveryCode
      <4> HIDE DEF r
      <4>5. /\ request' \in [Requests -> Request]
            /\ \A q \in Requests : request'[q] = IF q = p THEN r ELSE request[q]
        BY <4>3, <4>4 DEF Typed
      <4>6. UNCHANGED <<row, writes, spent, challenges, logins, failures, confirmed>> /\ AllKeys' = AllKeys
        BY <2>12 DEF ConsumeRecoveryCode, rowVars, AllKeys
      <4>7. ASSUME NEW q \in Requests
            PROVE  /\ request'[q].attempt < Retries /\ request'[q].blob <= writes
                   /\ request'[q].codes \subseteq AllKeys
                   /\ request'[q].codes # {} => request'[q].pc = "cas"
        <5>1. CASE q = p
          BY <4>1, <4>2, <4>3, <4>5, <5>1
        <5>2. CASE q # p
          BY <4>5, <5>2 DEF Typed, TypeOK, At
        <5> QED
          BY <5>1, <5>2
      <4> QED
        BY <1>5, <4>5, <4>6, <4>7 DEF Typed, TypeOK, At
    <3> QED
      BY <3>1, <3>2
  <2>13. CASE SaveRecoveryCodesCAS(p)
    <3>0. request[p] \in Request /\ request[p].codes \subseteq AllKeys
      BY DEF Typed
    <3>1. CASE row.blob = request[p].blob
      <4>1. /\ row' = [on |-> row.on, secret |-> row.secret, codes |-> request[p].codes,
                       blob |-> writes + 1]
            /\ writes' = writes + 1 /\ spent' = spent \cup (row.codes \ request[p].codes)
        BY <1>5, <2>13, <3>1 DEF SaveRecoveryCodesCAS, Write
      <4>2. AllKeys \subseteq AllKeys'
        BY <1>5, <4>1 DEF AllKeys
      <4>3. /\ row' \in [on: BOOLEAN, secret: 0 .. writes', codes: SUBSET AllKeys', blob: 0 .. writes']
            /\ spent' \subseteq AllKeys' /\ confirmed' \subseteq 1 .. writes'
        BY <1>5, <2>13, <3>0, <4>1, <4>2 DEF SaveRecoveryCodesCAS
      <4>4. request' = [request EXCEPT ![p] = [request[p] EXCEPT !.pc = "right", !.codes = {}, !.blob = 0]]
        BY <2>13, <3>1 DEF SaveRecoveryCodesCAS
      <4> DEFINE r == [request[p] EXCEPT !.pc = "right", !.codes = {}, !.blob = 0]
      <4>5. r \in Request /\ r.codes = {} /\ r.blob = 0 /\ r.attempt = request[p].attempt
        BY <3>0 DEF Request, Pcs
      <4> HIDE DEF r
      <4>6. /\ request' \in [Requests -> Request]
            /\ \A q \in Requests : request'[q] = IF q = p THEN r ELSE request[q]
        BY <4>4, <4>5 DEF Typed, r
      <4>7. ASSUME NEW q \in Requests
            PROVE  /\ request'[q].attempt < Retries /\ request'[q].blob <= writes'
                   /\ request'[q].codes \subseteq AllKeys'
                   /\ request'[q].codes # {} => request'[q].pc = "cas"
        <5>1. request[q].blob \in Nat /\ writes \in Nat
          BY DEF Typed, Request
        <5> QED
          BY <4>1, <4>2, <4>5, <4>6, <5>1 DEF Typed, TypeOK, At
      <4> QED
        BY <1>5, <2>13, <4>1, <4>3, <4>6, <4>7 DEF SaveRecoveryCodesCAS, Typed, TypeOK, At
    <3>2. CASE row.blob # request[p].blob /\ request[p].attempt = Retries - 1
      BY <1>5, <1>6, <2>13, <3>2 DEF SaveRecoveryCodesCAS
    <3>3. CASE row.blob # request[p].blob /\ request[p].attempt # Retries - 1
      <4>0. PICK n \in Nat : n = request[p].attempt + 1
        BY <3>0 DEF Request
      <4> DEFINE r == [request[p] EXCEPT !.pc = "redeem", !.codes = {}, !.blob = 0, !.attempt = n]
      <4>1. request' = [request EXCEPT ![p] = r]
        BY <2>13, <3>3, <4>0 DEF SaveRecoveryCodesCAS
      <4>2. r \in Request /\ r.codes = {} /\ r.blob = 0 /\ r.attempt = request[p].attempt + 1
        BY <3>0, <4>0 DEF Request, Pcs
      <4> HIDE DEF r
      <4>3. r.attempt < Retries
        <5>1. request[p].attempt \in Nat /\ request[p].attempt < Retries
          BY <3>0 DEF Request, Typed, TypeOK
        <5> QED
          BY <3>3, <4>2, <5>1
      <4>4. /\ request' \in [Requests -> Request]
            /\ \A q \in Requests : request'[q] = IF q = p THEN r ELSE request[q]
        BY <4>1, <4>2 DEF Typed
      <4>5. UNCHANGED <<row, writes, spent, challenges, logins, failures, confirmed>> /\ AllKeys' = AllKeys
        BY <2>13, <3>3 DEF SaveRecoveryCodesCAS, rowVars, AllKeys
      <4> QED
        BY <1>5, <4>2, <4>3, <4>4, <4>5 DEF Typed, TypeOK, At
    <3> QED
      BY <3>1, <3>2, <3>3
  <2>14. CASE IssueSession(p)
    BY <1>3, <1>5, <2>14 DEF IssueSession, At, Pcs
  <2>15. CASE Consume(p)
    <3>1. challenges' \in [Ids -> 0 .. TTL + 1 \cup {None}]
      BY <1>5, <2>15 DEF Consume
    <3> QED
      BY <1>5, <1>6, <2>15, <3>1 DEF Consume
  <2> QED
    BY <1>7, <2>1, <2>2, <2>3, <2>4, <2>5, <2>6, <2>7, <2>8, <2>9, <2>10, <2>11, <2>12, <2>13,
       <2>14, <2>15 DEF Step
<1>8. CASE CliDisable
  <2>1. row' \in [on: BOOLEAN, secret: 0 .. writes', codes: SUBSET AllKeys', blob: 0 .. writes']
    BY <1>5, <1>8 DEF CliDisable, Enrol, Write, NoRow
  <2> QED
    BY <1>5, <1>8, <2>1 DEF CliDisable, Enrol, Write, NoRow, Typed, TypeOK, AllKeys, At
<1>9. CASE Tick
  <2>1. \A f \in failures' : f[1] \in 0 .. Window
    BY <1>5, <1>9 DEF Tick
  <2>2. challenges' \in [Ids -> 0 .. TTL + 1 \cup {None}]
    BY <1>5, <1>9 DEF Tick
  <2> QED
    BY <1>9, <2>1, <2>2 DEF Tick, Typed, TypeOK, rowVars, AllKeys, At
<1>10. CASE Sweep
  BY <1>5, <1>10 DEF Sweep, Typed, TypeOK, rowVars, AllKeys, At
<1>11. CASE Restart
  <2>1. Idle \in Request /\ Idle.blob = 0 /\ Idle.attempt = 0 /\ Idle.codes = {}
    BY DEF Idle, Request, Pcs
  <2> QED
    BY <1>5, <1>11, <2>1 DEF Restart, Typed, TypeOK, rowVars, AllKeys, At
<1>12. CASE UNCHANGED vars
  BY <1>12 DEF vars, Typed, TypeOK, rowVars, AllKeys, At
<1> QED
  BY <1>2, <1>7, <1>8, <1>9, <1>10, <1>11, <1>12 DEF Next
----------------------------------------------------------------------------
\* A request that neither swaps nor is about to open a session by a code, and whose
\* kind is that of its place.
Harmless(r) ==
    /\ r.pc # "cas" /\ (r.pc = "right" => r.kind = "verify")
    /\ (r.pc = "check" => r.kind = "verify") /\ (r.pc = "redeem" => r.kind # "verify")

\* A step that leaves the codes and the sessions alone keeps the invariant, when
\* the requests it moves are harmless.
LEMMA HarmlessOnce ==
    ASSUME OnceInv, Typed', row'.blob = row.blob, row'.codes = row.codes, spent' = spent,
           sessions' = sessions,
           \A q \in Requests : request'[q] = request[q] \/ Harmless(request'[q])
    PROVE  OnceInv'
<1>1. ASSUME NEW q \in Requests, Redeemed(q)' PROVE request'[q] = request[q] /\ Redeemed(q)
  BY <1>1 DEF Redeemed, Harmless, At
<1>2. SwapInv'
  BY DEF OnceInv, SwapInv, Harmless, At, Remaining
<1>3. KindInv'
  BY DEF OnceInv, KindInv, Harmless, At
<1>4. SpentInv'
  <2>1. \A s \in sessions' : s.via = {} \/ \E k \in spent' : s.via = {k}
    BY DEF OnceInv, SpentInv
  <2>2. ASSUME NEW p \in Requests, Redeemed(p)'
        PROVE  /\ request'[p].code \in spent'
               /\ \A s \in sessions' : s.via # {request'[p].code}
               /\ \A q \in Requests : Redeemed(q)' /\ request'[q].code = request'[p].code => q = p
    BY <1>1, <2>2 DEF OnceInv, SpentInv
  <2> QED
    BY <2>1, <2>2 DEF SpentInv
<1> QED
  BY <1>2, <1>3, <1>4 DEF OnceInv, OneSessionPerCode, SpentStaysSpent

\* A statement that writes a new set of codes, or none, keeps it: no request under
\* way can swap over it.
LEMMA WriteOnce ==
    ASSUME OnceInv, Typed', sessions' = sessions, spent' = spent \cup (row.codes \ row'.codes),
           row'.codes \cap (spent \cup row.codes) = {},
           \A q \in Requests : At(q, "cas") => request[q].blob # row'.blob,
           \A q \in Requests : request'[q] = request[q] \/ request'[q].pc = "idle"
    PROVE  OnceInv'
<1>1. ASSUME NEW q \in Requests, Redeemed(q)' PROVE request'[q] = request[q] /\ Redeemed(q)
  BY <1>1 DEF Redeemed, At
<1>2. SwapInv'
  BY DEF OnceInv, SwapInv, At
<1>3. KindInv'
  BY DEF OnceInv, KindInv, At
<1>4. SpentInv'
  <2>1. \A s \in sessions' : s.via = {} \/ \E k \in spent' : s.via = {k}
    BY DEF OnceInv, SpentInv
  <2>2. ASSUME NEW p \in Requests, Redeemed(p)'
        PROVE  /\ request'[p].code \in spent'
               /\ \A s \in sessions' : s.via # {request'[p].code}
               /\ \A q \in Requests : Redeemed(q)' /\ request'[q].code = request'[p].code => q = p
    BY <1>1, <2>2 DEF OnceInv, SpentInv
  <2> QED
    BY <2>1, <2>2 DEF SpentInv
<1>5. SpentStaysSpent'
  BY DEF SpentStaysSpent
<1> QED
  BY <1>2, <1>3, <1>4, <1>5 DEF OnceInv, OneSessionPerCode

\* SaveRecoveryCodesCAS spends the code of the request, which nobody else has.
LEMMA SwapOnce ==
    ASSUME OnceInv, Typed', NEW p \in Requests, SaveRecoveryCodesCAS(p), row.blob = request[p].blob
    PROVE  OnceInv'
<1> DEFINE code == request[p].code
<1>1. /\ row'.codes = request[p].codes /\ row'.blob = writes + 1 /\ writes \in Nat
      /\ spent' = spent \cup (row.codes \ request[p].codes) /\ sessions' = sessions
  BY DEF SaveRecoveryCodesCAS, Write, OnceInv, Typed, TypeOK
<1>2. At(p, "cas") /\ code \in row.codes /\ request[p].codes = row.codes \ {code}
  BY DEF SaveRecoveryCodesCAS, OnceInv, SwapInv, Remaining
<1>3. row'.codes = row.codes \ {code} /\ spent' = spent \cup {code} /\ code \notin spent
  BY <1>1, <1>2 DEF OnceInv, SpentStaysSpent
<1>4. /\ \A q \in Requests : q # p => request'[q] = request[q]
      /\ request'[p].pc = "right" /\ request'[p].kind = request[p].kind /\ request'[p].code = code
  BY DEF SaveRecoveryCodesCAS, OnceInv, Typed, Request
<1>5. SwapInv'
  <2>1. ASSUME NEW q \in Requests, At(q, "cas")'
        PROVE  request'[q].blob # 0 /\ request'[q].blob # row'.blob
    <3>1. q # p /\ request'[q] = request[q] /\ At(q, "cas")
      BY <1>4, <2>1 DEF At
    <3>2. request[q].blob \in Nat /\ request[q].blob <= writes
      BY DEF OnceInv, Typed, Request
    <3> QED
      BY <1>1, <3>1, <3>2 DEF OnceInv, SwapInv
  <2> QED
    BY <2>1 DEF SwapInv
<1>6. KindInv'
  BY <1>4 DEF OnceInv, KindInv, At
<1>7. SpentInv'
  <2>1. \A s \in sessions' : s.via = {} \/ \E k \in spent' : s.via = {k}
    BY <1>1 DEF OnceInv, SpentInv
  <2>2. \A s \in sessions : s.via # {code}
    BY <1>3 DEF OnceInv, SpentInv
  <2>3. ASSUME NEW q \in Requests, Redeemed(q)', q # p
        PROVE  request'[q] = request[q] /\ Redeemed(q) /\ request[q].code \in spent
    BY <1>4, <2>3 DEF Redeemed, At, OnceInv, SpentInv
  <2>4. ASSUME NEW q \in Requests, Redeemed(q)'
        PROVE  /\ request'[q].code \in spent'
               /\ \A s \in sessions' : s.via # {request'[q].code}
               /\ \A t \in Requests : Redeemed(t)' /\ request'[t].code = request'[q].code => t = q
    <3>1. CASE q = p
      BY <1>1, <1>3, <1>4, <2>2, <2>3, <3>1
    <3>2. CASE q # p
      BY <1>1, <1>3, <1>4, <2>3, <2>4, <3>2 DEF OnceInv, SpentInv
    <3> QED
      BY <3>1, <3>2
  <2> QED
    BY <2>1, <2>4 DEF SpentInv
<1>8. SpentStaysSpent'
  BY <1>3 DEF OnceInv, SpentStaysSpent
<1> QED
  BY <1>1, <1>5, <1>6, <1>7, <1>8 DEF OnceInv, OneSessionPerCode

\* IssueSession opens the only session of the request's code.
LEMMA IssueOnce ==
    ASSUME OnceInv, Typed', NEW p \in Requests, IssueSession(p)
    PROVE  OnceInv'
<1> DEFINE via == IF request[p].kind = "verify" THEN {} ELSE {request[p].code}
           new == [id |-> Cardinality(sessions) + 1, ch |-> request[p].ch, via |-> via]
<1>1. UNCHANGED <<row, writes, spent>> /\ sessions' = sessions \cup {new} /\ At(p, "right")
  BY DEF IssueSession, OpenSession, rowVars
<1>2. /\ \A q \in Requests : q # p => request'[q] = request[q]
      /\ request'[p].pc = "consume"
  BY DEF IssueSession, Goto, OnceInv, Typed, Request
<1>3. new.via = via
  OBVIOUS
<1>4. via # {} => Redeemed(p) /\ via = {request[p].code}
  BY <1>1 DEF Redeemed
<1> HIDE DEF via, new
<1>5. SwapInv' /\ KindInv' /\ SpentStaysSpent'
  BY <1>1, <1>2 DEF OnceInv, SwapInv, KindInv, SpentStaysSpent, At, Remaining
<1>6. ASSUME NEW q \in Requests, Redeemed(q)'
      PROVE  q # p /\ request'[q] = request[q] /\ Redeemed(q)
  BY <1>2, <1>6 DEF Redeemed, At
<1>7. SpentInv'
  <2>1. \A s \in sessions' : s.via = {} \/ \E k \in spent' : s.via = {k}
    BY <1>1, <1>3, <1>4 DEF OnceInv, SpentInv
  <2>2. ASSUME NEW q \in Requests, Redeemed(q)'
        PROVE  /\ request'[q].code \in spent'
               /\ \A s \in sessions' : s.via # {request'[q].code}
               /\ \A t \in Requests : Redeemed(t)' /\ request'[t].code = request'[q].code => t = q
    BY <1>1, <1>3, <1>4, <1>6, <2>2 DEF OnceInv, SpentInv
  <2> QED
    BY <2>1, <2>2 DEF SpentInv
<1>8. OneSessionPerCode'
  <2>1. ASSUME NEW s \in sessions, new.via # {} PROVE s.via # new.via
    BY <1>3, <1>4, <2>1 DEF OnceInv, SpentInv
  <2> QED
    BY <1>1, <2>1 DEF OnceInv, OneSessionPerCode
<1> QED
  BY <1>5, <1>7, <1>8 DEF OnceInv

\* Every step keeps it.
LEMMA OnceNext == OnceInv /\ [Next]_vars => OnceInv'
<1> SUFFICES ASSUME OnceInv, [Next]_vars PROVE OnceInv'
  OBVIOUS
<1>1. Typed /\ Typed'
  BY TypedNext DEF OnceInv
<1> DEFINE Kept == /\ row'.blob = row.blob /\ row'.codes = row.codes /\ spent' = spent
                   /\ sessions' = sessions
<1>2. ASSUME Kept, NEW p \in Requests, End(p) PROVE OnceInv'
  <2>1. Harmless(Idle)
    BY DEF Harmless, Idle
  <2> QED
    BY <1>1, <1>2, <2>1, EndTyped, HarmlessOnce
<1>3. ASSUME Kept, NEW p \in Requests, NEW pc \in Pcs, Goto(p, pc), pc # "cas",
             pc \in {"right", "check"} => request[p].kind = "verify",
             pc = "redeem" => request[p].kind # "verify"
      PROVE  OnceInv'
  <2>1. request[p] \in Request /\ request'[p] = [request[p] EXCEPT !.pc = pc]
    BY <1>1, <1>3, GotoTyped DEF Typed
  <2>2. request'[p].pc = pc /\ request'[p].kind = request[p].kind
    BY <2>1 DEF Request
  <2>3. \A q \in Requests : q # p => request'[q] = request[q]
    BY <1>1, <1>3, GotoTyped
  <2>4. Harmless(request'[p])
    BY <1>3, <2>2 DEF Harmless
  <2> QED
    BY <1>1, <1>3, <2>3, <2>4, HarmlessOnce
<1>4. ASSUME NEW p \in Requests, NEW kind \in Kinds, NEW ch, NEW code, Begin(p, kind, ch, code)
      PROVE  OnceInv'
  <2> DEFINE r == [Idle EXCEPT !.pc = kind, !.kind = kind, !.ch = ch, !.code = code]
  <2>1. Harmless(r)
    BY DEF Harmless, Idle, Kinds, Enrolment
  <2>2. request' = [request EXCEPT ![p] = r] /\ Kept
    BY <1>4 DEF Begin, rowVars
  <2> HIDE DEF r
  <2>3. \A q \in Requests : request'[q] = request[q] \/ request'[q] = r
    BY <1>1, <2>2 DEF Typed
  <2> QED
    BY <1>1, <2>1, <2>2, <2>3, HarmlessOnce
<1>5. ASSUME NEW p \in Requests, BeginSome(p) PROVE OnceInv'
  BY <1>4, <1>5 DEF BeginSome, Kinds
<1>6. /\ writes \in Nat /\ row.codes \subseteq AllKeys /\ spent \subseteq AllKeys
      /\ row \in [on: BOOLEAN, secret: 0 .. writes, codes: SUBSET AllKeys, blob: 0 .. writes]
  BY <1>1 DEF Typed, TypeOK
<1>7. ({writes + 1} \X Keys) \cap AllKeys = {}
  BY <1>6 DEF AllKeys
<1>8. ASSUME NEW q \in Requests, At(q, "cas")
      PROVE  request[q].blob # 0 /\ request[q].blob # writes + 1
  <2>1. request[q].blob \in Nat /\ request[q].blob <= writes
    BY <1>1 DEF Typed, Request
  <2> QED
    BY <1>6, <1>8, <2>1 DEF OnceInv, SwapInv
<1>9. ASSUME NEW p \in Requests, Step(p) PROVE OnceInv'
  <2>1. CASE SetupRead(p) \/ ActivateRead(p) \/ DisableRead(p) \/ RegenerateRead(p) \/ LoginRead(p)
    <3>1. Kept
      BY <2>1 DEF SetupRead, ActivateRead, DisableRead, RegenerateRead, LoginRead, rowVars
    <3>2. End(p) \/ \E pc \in {"setup_write", "activate_write", "disable_write", "regenerate_write",
                               "challenge", "open"} : Goto(p, pc)
      BY <2>1 DEF SetupRead, ActivateRead, DisableRead, RegenerateRead, LoginRead
    <3> QED
      BY <1>2, <1>3, <3>1, <3>2 DEF Pcs
  <2>2. CASE SetUserTOTP(p)
    <3>1. /\ row'.codes = {writes + 1} \X Keys /\ row'.blob = writes + 1 /\ sessions' = sessions
          /\ spent' = spent \cup (row.codes \ row'.codes) /\ End(p)
      BY <2>2 DEF SetUserTOTP, Enrol, Write
    <3>2. \A q \in Requests : request'[q] = request[q] \/ request'[q].pc = "idle"
      BY <1>1, <3>1, EndTyped DEF Idle
    <3> QED
      BY <1>1, <1>6, <1>7, <1>8, <3>1, <3>2, WriteOnce
  <2>3. CASE SaveRecoveryCodes(p)
    <3>1. /\ row'.codes = {writes + 1} \X Keys /\ row'.blob = writes + 1 /\ sessions' = sessions
          /\ spent' = spent \cup (row.codes \ row'.codes) /\ End(p)
      BY <1>6, <2>3 DEF SaveRecoveryCodes, Write
    <3>2. \A q \in Requests : request'[q] = request[q] \/ request'[q].pc = "idle"
      BY <1>1, <3>1, EndTyped DEF Idle
    <3> QED
      BY <1>1, <1>6, <1>7, <1>8, <3>1, <3>2, WriteOnce
  <2>4. CASE ActivateTOTP(p)
    BY <1>2, <1>6, <2>4 DEF ActivateTOTP, Enrol, Write
  <2>5. CASE DisableTOTP(p)
    <3>1. /\ row'.codes = {} /\ row'.blob = 0 /\ sessions' = sessions
          /\ spent' = spent \cup (row.codes \ row'.codes) /\ End(p)
      BY <2>5 DEF DisableTOTP, Enrol, Write, NoRow
    <3>2. \A q \in Requests : request'[q] = request[q] \/ request'[q].pc = "idle"
      BY <1>1, <3>1, EndTyped DEF Idle
    <3> QED
      BY <1>1, <1>8, <3>1, <3>2, WriteOnce
  <2>6. CASE CreateChallenge(p) \/ RecordFailure(p) \/ Consume(p)
    BY <1>2, <2>6 DEF CreateChallenge, RecordFailure, Consume, rowVars
  <2>7. CASE OpenByPassword(p)
    <3> DEFINE new == [id |-> Cardinality(sessions) + 1, ch |-> request[p].ch, via |-> {}]
    <3>1. /\ UNCHANGED <<row, writes, spent>> /\ End(p)
          /\ sessions' = sessions \cup {new} /\ new.via = {}
      BY <2>7 DEF OpenByPassword, OpenSession, rowVars
    <3> HIDE DEF new
    <3>2. \A q \in Requests : request'[q] = request[q] \/ request'[q].pc = "idle"
      BY <1>1, <3>1, EndTyped DEF Idle
    <3>3. SwapInv' /\ KindInv' /\ SpentStaysSpent'
      BY <3>1, <3>2 DEF OnceInv, SwapInv, KindInv, SpentStaysSpent, At, Remaining
    <3>4. ASSUME NEW q \in Requests, Redeemed(q)' PROVE request'[q] = request[q] /\ Redeemed(q)
      BY <3>2, <3>4 DEF Redeemed, At
    <3>5. SpentInv'
      <4>1. \A s \in sessions' : s.via = {} \/ \E k \in spent' : s.via = {k}
        BY <3>1 DEF OnceInv, SpentInv
      <4>2. ASSUME NEW q \in Requests, Redeemed(q)'
            PROVE  /\ request'[q].code \in spent'
                   /\ \A s \in sessions' : s.via # {request'[q].code}
                   /\ \A t \in Requests : Redeemed(t)' /\ request'[t].code = request'[q].code => t = q
        BY <3>1, <3>4, <4>2 DEF OnceInv, SpentInv
      <4> QED
        BY <4>1, <4>2 DEF SpentInv
    <3>6. OneSessionPerCode'
      BY <3>1 DEF OnceInv, OneSessionPerCode
    <3> QED
      BY <1>1, <3>3, <3>5, <3>6 DEF OnceInv
  <2>8. CASE GetChallenge(p)
    <3>1. Kept /\ (End(p) \/ Goto(p, "limit"))
      BY <2>8 DEF GetChallenge, rowVars
    <3> QED
      BY <1>2, <1>3, <3>1 DEF Pcs
  <2>9. CASE CheckTOTPRateLimit(p) \/ CountFails(p)
    <3>1. Kept /\ (\/ End(p) \/ (Goto(p, "check") /\ request[p].kind = "verify")
                   \/ (Goto(p, "redeem") /\ request[p].kind # "verify"))
      BY <2>9 DEF CheckTOTPRateLimit, CountFails, rowVars
    <3> QED
      BY <1>2, <1>3, <3>1 DEF Pcs
  <2>10. CASE Verify(p)
    <3>1. request[p].kind = "verify"
      BY <2>10 DEF Verify, OnceInv, KindInv
    <3>2. Kept /\ (End(p) \/ Goto(p, "right") \/ Goto(p, "wrong"))
      BY <2>10 DEF Verify, rowVars
    <3> QED
      BY <1>2, <1>3, <3>1, <3>2 DEF Pcs
  <2>11. CASE ConsumeRecoveryCode(p)
    <3>1. Kept
      BY <2>11 DEF ConsumeRecoveryCode, rowVars
    <3>2. CASE End(p)
      BY <1>2, <3>1, <3>2
    <3>3. CASE Goto(p, "wrong")
      BY <1>3, <3>1, <3>3 DEF Pcs
    <3>4. CASE ~End(p) /\ ~Goto(p, "wrong")
      <4> DEFINE r == [request[p] EXCEPT !.pc = "cas", !.blob = row.blob, !.codes = Remaining(p)]
      <4>1. /\ row.blob # 0 /\ request[p].code \in row.codes /\ At(p, "redeem") /\ row' = row
            /\ request' = [request EXCEPT ![p] = r]
        BY <2>11, <3>4 DEF ConsumeRecoveryCode, rowVars
      <4>2. /\ r.pc = "cas" /\ r.blob = row.blob /\ r.codes = Remaining(p)
            /\ r.code = request[p].code /\ r.kind = request[p].kind
        BY <1>1 DEF Typed, Request
      <4> HIDE DEF r
      <4>3. request'[p] = r /\ \A q \in Requests : q # p => request'[q] = request[q]
        BY <1>1, <4>1 DEF Typed
      <4>4. SwapInv'
        <5>1. ASSUME NEW q \in Requests, At(q, "cas")'
              PROVE  /\ request'[q].blob # 0
                     /\ request'[q].blob = row.blob =>
                           request'[q].code \in row.codes /\ request'[q].codes = row.codes \ {request'[q].code}
          <6>1. CASE q = p
            BY <4>1, <4>2, <4>3, <6>1 DEF Remaining
          <6>2. CASE q # p
            BY <4>3, <5>1, <6>2 DEF OnceInv, SwapInv, Remaining, At
          <6> QED
            BY <6>1, <6>2
        <5> QED
          BY <4>1, <5>1 DEF SwapInv, Remaining
      <4>5. KindInv'
        BY <4>1, <4>2, <4>3 DEF OnceInv, KindInv, At
      <4>6. ASSUME NEW q \in Requests, Redeemed(q)' PROVE request'[q] = request[q] /\ Redeemed(q)
        BY <4>2, <4>3, <4>6 DEF Redeemed, At
      <4>7. SpentInv'
        <5>1. \A s \in sessions' : s.via = {} \/ \E k \in spent' : s.via = {k}
          BY <3>1 DEF OnceInv, SpentInv
        <5>2. ASSUME NEW q \in Requests, Redeemed(q)'
              PROVE  /\ request'[q].code \in spent'
                     /\ \A s \in sessions' : s.via # {request'[q].code}
                     /\ \A t \in Requests : Redeemed(t)' /\ request'[t].code = request'[q].code => t = q
          BY <3>1, <4>6, <5>2 DEF OnceInv, SpentInv
        <5> QED
          BY <5>1, <5>2 DEF SpentInv
      <4> QED
        BY <1>1, <3>1, <4>1, <4>4, <4>5, <4>7 DEF OnceInv, OneSessionPerCode, SpentStaysSpent
    <3> QED
      BY <3>2, <3>3, <3>4
  <2>12. CASE SaveRecoveryCodesCAS(p) /\ row.blob = request[p].blob
    BY <1>1, <2>12, SwapOnce
  <2>13. CASE SaveRecoveryCodesCAS(p) /\ row.blob # request[p].blob
    <3>1. Kept /\ At(p, "cas")
      BY <2>13 DEF SaveRecoveryCodesCAS, rowVars
    <3>2. CASE End(p)
      BY <1>2, <3>1, <3>2
    <3>3. CASE ~End(p)
      <4> DEFINE r == [request[p] EXCEPT !.pc = "redeem", !.codes = {}, !.blob = 0, !.attempt = @ + 1]
      <4>1. request' = [request EXCEPT ![p] = r]
        BY <2>13, <3>3 DEF SaveRecoveryCodesCAS
      <4>2. r.pc = "redeem" /\ r.kind = request[p].kind
        BY <1>1 DEF Typed, Request
      <4> HIDE DEF r
      <4>3. request'[p] = r /\ \A q \in Requests : q # p => request'[q] = request[q]
        BY <1>1, <4>1 DEF Typed
      <4>4. Harmless(r)
        BY <3>1, <4>2 DEF Harmless, OnceInv, KindInv, At
      <4> QED
        BY <1>1, <3>1, <4>3, <4>4, HarmlessOnce
    <3> QED
      BY <3>2, <3>3
  <2>14. CASE IssueSession(p)
    BY <1>1, <2>14, IssueOnce
  <2> QED
    BY <1>9, <2>1, <2>2, <2>3, <2>4, <2>5, <2>6, <2>7, <2>8, <2>9, <2>10, <2>11, <2>12, <2>13,
       <2>14 DEF Step
<1>10. CASE CliDisable
  <2>1. /\ row'.codes = {} /\ row'.blob = 0 /\ sessions' = sessions /\ request' = request
        /\ spent' = spent \cup (row.codes \ row'.codes)
    BY <1>10 DEF CliDisable, Enrol, Write, NoRow
  <2> QED
    BY <1>1, <1>8, <2>1, WriteOnce
<1>11. CASE Tick \/ Sweep \/ UNCHANGED vars
  BY <1>1, <1>11, HarmlessOnce DEF Tick, Sweep, vars, rowVars
<1>12. CASE Restart
  <2>1. Harmless(Idle)
    BY DEF Harmless, Idle
  <2> QED
    BY <1>1, <1>12, <2>1, HarmlessOnce DEF Restart, rowVars
<1> QED
  BY <1>5, <1>9, <1>10, <1>11, <1>12 DEF Next

\* The initial state has the types and the invariant.
LEMMA OnceInit == Init => OnceInv
<1> SUFFICES ASSUME Init PROVE OnceInv
  OBVIOUS
<1> USE SecondFactorAssumption
<1>1. /\ Idle \in Request /\ Idle.pc = "idle" /\ Idle.blob = 0 /\ Idle.attempt = 0
      /\ Idle.codes = {}
  BY DEF Idle, Request, Pcs
<1>2. \A p \in Requests : request[p] = Idle
  BY DEF Init
<1>3. TypeOK
  <2>1. row \in [on: BOOLEAN, secret: 0 .. writes, codes: SUBSET AllKeys, blob: 0 .. writes]
    BY DEF Init, NoRow
  <2>2. challenges \in [Ids -> 0 .. TTL + 1 \cup {None}] /\ logins \in 0 .. MaxLogins
        /\ (\A f \in failures : f[1] \in 0 .. Window) /\ confirmed = {} /\ spent = {}
    BY DEF Init
  <2>3. \A p \in Requests : request[p].attempt < Retries /\ request[p].codes = {}
    BY <1>1, <1>2
  <2> QED
    BY <2>1, <2>2, <2>3 DEF TypeOK
<1>4. Typed
  BY <1>1, <1>2, <1>3 DEF Typed, Init
<1>5. SwapInv /\ KindInv
  BY <1>1, <1>2 DEF SwapInv, KindInv, At
<1>6. SpentInv /\ OneSessionPerCode /\ SpentStaysSpent
  BY <1>1, <1>2 DEF Init, NoRow, SpentInv, Redeemed, At, OneSessionPerCode, SpentStaysSpent
<1> QED
  BY <1>4, <1>5, <1>6 DEF OnceInv

\* TOTPRecovery's compare-and-swap loop: a recovery code opens one session, and
\* one that was spent or replaced never comes back.
THEOREM CodesAreSpentOnceHolds == Spec => []CodesAreSpentOnce
<1>1. OnceInv => CodesAreSpentOnce
  BY DEF OnceInv, Typed, CodesAreSpentOnce
<1> QED
  BY <1>1, OnceInit, OnceNext, PTL DEF Spec
----------------------------------------------------------------------------
\* A step that leaves the flag, the secret and the histories alone keeps EnrolInv,
\* when the request it moves to a write has read what that write relies on.
LEMMA ReadEnrol ==
    ASSUME EnrolInv, row'.on = row.on, row'.secret = row.secret, confirmed \subseteq confirmed',
           overtaken' = overtaken, blind' = blind,
           \A q \in Requests :
               /\ request'[q].pc = "setup_write" => request[q].pc = "setup_write" \/ ~row.on
               /\ request'[q].pc = "activate_write" =>
                      request[q].pc = "activate_write" \/ row.secret \in confirmed'
    PROVE  EnrolInv'
  BY DEF EnrolInv, EnabledIsConfirmed, At

\* So does an UPDATE of an enrolment, which overtakes the others, if what is on then
\* was confirmed or switched on blindly.
LEMMA WriteEnrol ==
    ASSUME Typed, NEW p \in Requests, NEW new, Enrol({p}, new), End(p),
           new.on => new.secret \in confirmed' \cup blind'
    PROVE  EnrolInv'
<1>1. \A q \in Requests : request'[q] = IF q = p THEN Idle ELSE request[q]
  BY EndTyped
<1>2. row' = new /\ \A q \in Deciding : q # p => q \in overtaken'
  BY DEF Enrol, Write
<1>3. ASSUME NEW q \in Requests, q \notin overtaken'
      PROVE  request'[q].pc \notin {"setup_write", "activate_write"}
  BY <1>1, <1>2, <1>3 DEF Deciding, Idle
<1> QED
  BY <1>2, <1>3 DEF EnrolInv, EnabledIsConfirmed, At

\* Every step keeps EnrolInv.
LEMMA EnrolNext ==
    ASSUME Typed, EnrolInv, [Next]_vars
    PROVE  EnrolInv'
<1> DEFINE Left == /\ row'.on = row.on /\ row'.secret = row.secret /\ confirmed \subseteq confirmed'
                   /\ overtaken' = overtaken /\ blind' = blind
<1>1. ASSUME Left, NEW p \in Requests, End(p) PROVE EnrolInv'
  <2>1. \A q \in Requests : request'[q] = request[q] \/ request'[q].pc = "idle"
    BY <1>1, EndTyped DEF Idle
  <2> QED
    BY <1>1, <2>1, ReadEnrol
<1>2. ASSUME Left, NEW p \in Requests, NEW pc \in Pcs, Goto(p, pc),
             pc = "setup_write" => ~row.on, pc = "activate_write" => row.secret \in confirmed'
      PROVE  EnrolInv'
  <2>1. request[p] \in Request /\ request'[p] = [request[p] EXCEPT !.pc = pc]
    BY <1>2, GotoTyped DEF Typed
  <2>2. request'[p].pc = pc
    BY <2>1 DEF Request
  <2>3. \A q \in Requests : q # p => request'[q] = request[q]
    BY <1>2, GotoTyped
  <2> QED
    BY <1>2, <2>2, <2>3, ReadEnrol
<1>3. ASSUME Left, NEW p \in Requests, NEW r, request' = [request EXCEPT ![p] = r],
             r.pc \notin {"setup_write", "activate_write"}
      PROVE  EnrolInv'
  <2>1. \A q \in Requests : request'[q] = IF q = p THEN r ELSE request[q]
    BY <1>3 DEF Typed
  <2> QED
    BY <1>3, <2>1, ReadEnrol
<1>4. ASSUME NEW p \in Requests, NEW kind \in Kinds, NEW ch, NEW code, Begin(p, kind, ch, code)
      PROVE  EnrolInv'
  <2> DEFINE r == [Idle EXCEPT !.pc = kind, !.kind = kind, !.ch = ch, !.code = code]
  <2>1. r.pc \notin {"setup_write", "activate_write"}
    BY DEF Idle, Kinds, Enrolment
  <2>2. request' = [request EXCEPT ![p] = r] /\ Left
    BY <1>4 DEF Begin, rowVars
  <2> HIDE DEF r
  <2> QED
    BY <1>3, <2>1, <2>2
<1>5. ASSUME NEW p \in Requests, BeginSome(p) PROVE EnrolInv'
  BY <1>4, <1>5 DEF BeginSome, Kinds
<1>6. row \in [on: BOOLEAN, secret: 0 .. writes, codes: SUBSET AllKeys, blob: 0 .. writes]
  BY DEF Typed, TypeOK
<1>7. ASSUME NEW p \in Requests, Step(p) PROVE EnrolInv'
  <2>1. CASE SetupRead(p)
    BY <1>1, <1>2, <2>1 DEF SetupRead, Pcs, rowVars
  <2>2. CASE SetUserTOTP(p)
    <3> DEFINE new == [on |-> FALSE, secret |-> writes + 1, codes |-> {writes + 1} \X Keys,
                       blob |-> writes + 1]
    <3>1. Enrol({p}, new) /\ End(p) /\ ~new.on
      BY <2>2 DEF SetUserTOTP
    <3> HIDE DEF new
    <3> QED
      BY <3>1, WriteEnrol
  <2>3. CASE ActivateRead(p)
    <3>1. CASE End(p)
      BY <1>1, <2>3, <3>1 DEF ActivateRead, rowVars
    <3>2. CASE ~End(p)
      BY <1>2, <2>3, <3>2 DEF ActivateRead, Pcs, rowVars
    <3> QED
      BY <3>1, <3>2
  <2>4. CASE ActivateTOTP(p)
    <3> DEFINE new == [row EXCEPT !.on = TRUE]
    <3>1. Enrol({p}, new) /\ End(p) /\ At(p, "activate_write") /\ confirmed' = confirmed
          /\ blind' = IF p \in overtaken THEN blind \cup {row.secret} ELSE blind
      BY <2>4 DEF ActivateTOTP
    <3>2. new.secret = row.secret
      BY <1>6
    <3>3. row.secret \in confirmed' \cup blind'
      BY <3>1 DEF EnrolInv
    <3> HIDE DEF new
    <3> QED
      BY <3>1, <3>2, <3>3, WriteEnrol
  <2>5. CASE DisableTOTP(p)
    BY <2>5, WriteEnrol DEF DisableTOTP, NoRow
  <2>6. CASE DisableRead(p) \/ RegenerateRead(p) \/ LoginRead(p) \/ GetChallenge(p)
             \/ CheckTOTPRateLimit(p) \/ CountFails(p) \/ Verify(p)
    <3>1. Left
      BY <2>6 DEF DisableRead, RegenerateRead, LoginRead, GetChallenge, CheckTOTPRateLimit, CountFails,
         Verify, rowVars
    <3>2. End(p) \/ \E pc \in {"disable_write", "regenerate_write", "challenge", "open", "limit",
                               "check", "redeem", "right", "wrong"} : Goto(p, pc)
      BY <2>6 DEF DisableRead, RegenerateRead, LoginRead, GetChallenge, CheckTOTPRateLimit, CountFails,
         Verify
    <3> QED
      BY <1>1, <1>2, <3>1, <3>2 DEF Pcs
  <2>7. CASE SaveRecoveryCodes(p)
    BY <1>1, <1>6, <2>7 DEF SaveRecoveryCodes, Write
  <2>8. CASE CreateChallenge(p) \/ OpenByPassword(p) \/ RecordFailure(p) \/ Consume(p)
    BY <1>1, <2>8 DEF CreateChallenge, OpenByPassword, RecordFailure, Consume, rowVars
  <2>9. CASE IssueSession(p)
    BY <1>2, <2>9 DEF IssueSession, Pcs, rowVars
  <2>10. CASE ConsumeRecoveryCode(p)
    <3>1. CASE End(p) \/ Goto(p, "wrong")
      BY <1>1, <1>2, <2>10, <3>1 DEF ConsumeRecoveryCode, Pcs, rowVars
    <3>2. CASE ~End(p) /\ ~Goto(p, "wrong")
      <4> DEFINE r == [request[p] EXCEPT !.pc = "cas", !.blob = row.blob, !.codes = Remaining(p)]
      <4>1. request' = [request EXCEPT ![p] = r] /\ Left
        BY <2>10, <3>2 DEF ConsumeRecoveryCode, rowVars
      <4>2. r.pc = "cas"
        BY DEF Typed, Request
      <4> HIDE DEF r
      <4> QED
        BY <1>3, <4>1, <4>2
    <3> QED
      BY <3>1, <3>2
  <2>11. CASE SaveRecoveryCodesCAS(p)
    <3>1. Left
      BY <1>6, <2>11 DEF SaveRecoveryCodesCAS, Write, rowVars
    <3>2. CASE End(p)
      BY <1>1, <3>1, <3>2
    <3>3. CASE ~End(p)
      <4> DEFINE won  == [request[p] EXCEPT !.pc = "right", !.codes = {}, !.blob = 0]
                 lost == [request[p] EXCEPT !.pc = "redeem", !.codes = {}, !.blob = 0, !.attempt = @ + 1]
      <4>1. request' = [request EXCEPT ![p] = won] \/ request' = [request EXCEPT ![p] = lost]
        BY <2>11, <3>3 DEF SaveRecoveryCodesCAS
      <4>2. won.pc = "right" /\ lost.pc = "redeem"
        BY DEF Typed, Request
      <4> HIDE DEF won, lost
      <4> QED
        BY <1>3, <3>1, <4>1, <4>2
    <3> QED
      BY <3>2, <3>3
  <2> QED
    BY <1>7, <2>1, <2>2, <2>3, <2>4, <2>5, <2>6, <2>7, <2>8, <2>9, <2>10, <2>11 DEF Step
<1>8. CASE CliDisable
  <2>1. row' = NoRow /\ request' = request /\ \A q \in Deciding : q \in overtaken'
    BY <1>8 DEF CliDisable, Enrol, Write
  <2> QED
    BY <2>1 DEF EnrolInv, EnabledIsConfirmed, NoRow, Deciding, At
<1>9. CASE Tick \/ Sweep \/ UNCHANGED vars
  BY <1>9, ReadEnrol DEF Tick, Sweep, vars, rowVars
<1>10. CASE Restart
  <2>1. \A q \in Requests : request'[q].pc = "idle"
    BY <1>10 DEF Restart, Idle
  <2> QED
    BY <1>10, <2>1 DEF Restart, EnrolInv, EnabledIsConfirmed, At
<1> QED
  BY <1>5, <1>7, <1>8, <1>9, <1>10 DEF Next

\* The initial state has EnrolInv.
LEMMA EnrolInit == Init => EnrolInv
  BY DEF Init, EnrolInv, EnabledIsConfirmed, NoRow, Idle, At

\* TOTPActivate and SetUserTOTP, however the enrolment requests overlap: a second
\* factor that is on has a secret whose code was checked, unless an activation was
\* overtaken between that check and its UPDATE.
THEOREM EnabledIsConfirmedHolds == Spec => []EnabledIsConfirmed
<1>1. OnceInv /\ EnrolInv /\ [Next]_vars => (OnceInv /\ EnrolInv)'
  BY OnceNext, EnrolNext DEF OnceInv
<1>2. Init => OnceInv /\ EnrolInv
  BY OnceInit, EnrolInit
<1>3. EnrolInv => EnabledIsConfirmed
  BY DEF EnrolInv
<1> QED
  BY <1>1, <1>2, <1>3, PTL DEF Spec

\* TOTPSetup and DisableTOTP: a factor that is on is turned off by a disable, or by a
\* setup that was overtaken by its activation, and by nothing else.
THEOREM OnlyDisableTurnsOffHolds == Spec => OnlyDisableTurnsOff
<1> DEFINE Off == row' = NoRow \/ \E p \in overtaken : At(p, "setup_write") /\ p \notin overtaken'
<1>1. OnceInv /\ EnrolInv /\ [Next]_vars => (OnceInv /\ EnrolInv)'
  BY OnceNext, EnrolNext DEF OnceInv
<1>2. Init => OnceInv /\ EnrolInv
  BY OnceInit, EnrolInit
<1>3. OnceInv /\ EnrolInv /\ [Next]_vars => [row.on /\ ~row'.on => Off]_vars
  <2> SUFFICES ASSUME OnceInv, EnrolInv, Next, row.on, ~row'.on PROVE Off
    OBVIOUS
  <2>1. row \in [on: BOOLEAN, secret: 0 .. writes, codes: SUBSET AllKeys, blob: 0 .. writes]
    BY DEF OnceInv, Typed, TypeOK
  <2>2. ASSUME NEW p \in Requests, BeginSome(p) PROVE row' = row
    BY <2>2 DEF BeginSome, Begin, rowVars
  <2>3. ASSUME NEW p \in Requests, Step(p) PROVE Off
    <3>1. CASE SetUserTOTP(p)
      <4>1. At(p, "setup_write") /\ p \notin overtaken'
        BY <3>1 DEF SetUserTOTP, Enrol
      <4>2. p \in overtaken
        BY <4>1 DEF EnrolInv
      <4> QED
        BY <4>1, <4>2
    <3>2. ~ActivateTOTP(p) /\ ~SaveRecoveryCodes(p) /\ ~SaveRecoveryCodesCAS(p)
      BY <2>1 DEF ActivateTOTP, SaveRecoveryCodes, SaveRecoveryCodesCAS, Enrol, Write, rowVars
    <3>3. CASE DisableTOTP(p)
      BY <3>3 DEF DisableTOTP, Enrol, Write
    <3>4. row' # row
      OBVIOUS
    <3> QED
      BY <2>3, <3>1, <3>2, <3>3, <3>4 DEF Step, SetupRead, ActivateRead, DisableRead,
         RegenerateRead, LoginRead, CreateChallenge, OpenByPassword, GetChallenge,
         CheckTOTPRateLimit, CountFails, Verify, RecordFailure, ConsumeRecoveryCode, IssueSession,
         Consume, rowVars
  <2>4. Tick \/ Sweep \/ Restart => row' = row
    BY DEF Tick, Sweep, Restart, rowVars
  <2>5. CliDisable => row' = NoRow
    BY DEF CliDisable, Enrol, Write
  <2> QED
    BY <2>2, <2>3, <2>4, <2>5 DEF Next
<1> QED
  BY <1>1, <1>2, <1>3, PTL DEF Spec, OnlyDisableTurnsOff
----------------------------------------------------------------------------
(* What the overlap of requests is worth to a guesser.                     *)

\* The requests past the limiter whose failure, if it is one, is not recorded.
Guessing == {p \in Requests : request[p].pc \in {"check", "redeem", "cas", "wrong"}}

\* Every request in flight may still add a failure to those of the window, and
\* every look-up of the limit that failed may have let one more in.
LimitInv ==
    /\ IsFiniteSet(failures) /\ uncounted \in Nat
    /\ recent + Cardinality(Guessing) <= WindowFails - 1 + Cardinality(Requests) + uncounted

PastPcs == {"limit", "check", "redeem", "cas", "wrong", "right"}

Alive(c)  == challenges[c] \in 0 .. TTL
Issued(c) == {s \in sessions : s.ch = c}
Past(c)   == {p \in Requests : request[p].ch = c /\ request[p].pc \in PastPcs}
Done(c)   == {p \in Requests : request[p].ch = c /\ At(p, "consume")}

\* While a challenge can be found, each session it opened has a request that has
\* yet to consume it; and at all times the sessions and the requests that may
\* still open one are no more than the requests.
BoundInv ==
    \A c \in Ids :
        /\ Alive(c) => Cardinality(Issued(c)) <= Cardinality(Done(c))
        /\ Cardinality(Issued(c)) + Cardinality(Past(c)) <= Cardinality(Requests)

\* The challenges of sessions and requests have been opened, and a login that
\* needs none names none.
ChallengeInv ==
    /\ IsFiniteSet(sessions)
    /\ \A s \in sessions : s.ch \in 0 .. logins
    /\ \A p \in Requests :
          /\ request[p].ch \in 0 .. logins
          /\ request[p].pc \in {"login", "challenge", "open"} => request[p].ch = 0

ReplayInv == ChallengeInv /\ BoundInv

\* Sets of requests are finite, and a smaller set has fewer.
LEMMA RequestSets ==
    /\ IsFiniteSet(Requests) /\ Cardinality(Requests) \in Nat
    /\ \A S \in SUBSET Requests :
          IsFiniteSet(S) /\ Cardinality(S) \in Nat /\ Cardinality(S) <= Cardinality(Requests)
    /\ \A S, T \in SUBSET Requests : S \subseteq T => Cardinality(S) <= Cardinality(T)
<1>1. IsFiniteSet(Requests)
  BY SecondFactorAssumption
<1>2. \A S \in SUBSET Requests : IsFiniteSet(S)
  BY <1>1, FS_Subset
<1> QED
  BY <1>1, <1>2, FS_Subset, FS_CardinalityType

\* Disjoint sets of requests are together no more than the requests.
LEMMA DisjointRequests ==
    ASSUME NEW S \in SUBSET Requests, NEW T \in SUBSET Requests, S \cap T = {}
    PROVE  Cardinality(S) + Cardinality(T) <= Cardinality(Requests)
<1>1. Cardinality(S \cup T) = Cardinality(S) + Cardinality(T) - Cardinality({})
  BY RequestSets, FS_Union
<1> QED
  BY <1>1, RequestSets, FS_EmptySet

\* A step that records no failure and lets nobody past the limiter keeps LimitInv.
LEMMA QuietLimit ==
    ASSUME LimitInv, IsFiniteSet(failures'), recent' <= recent, Guessing' \subseteq Guessing,
           uncounted' = uncounted
    PROVE  LimitInv'
<1>1. Guessing \in SUBSET Requests /\ Guessing' \in SUBSET Requests
  BY DEF Guessing
<1>2. recent \in Nat /\ recent' \in Nat
  BY FS_CardinalityType DEF LimitInv, recent
<1> QED
  BY <1>1, <1>2, RequestSets, SecondFactorAssumption DEF LimitInv

\* Time takes failures out of the window and adds none.
LEMMA AgedFailures ==
    ASSUME IsFiniteSet(failures), Tick
    PROVE  IsFiniteSet(failures') /\ recent' <= recent
<1> DEFINE S == {g \in failures : g[1] < Window}
           T == {<<f[1] + 1, f[2]>> : f \in S}
           older == [f \in S |-> <<f[1] + 1, f[2]>>]
<1>1. IsFiniteSet(S) /\ Cardinality(S) <= Cardinality(failures)
  BY FS_Subset
<1>2. older \in Surjection(S, T)
  BY DEF Surjection
<1>3. IsFiniteSet(T) /\ Cardinality(T) <= Cardinality(S)
  BY <1>1, <1>2, FS_Surjection
<1>4. failures' = T
  BY DEF Tick
<1>5. Cardinality(T) \in Nat /\ Cardinality(S) \in Nat /\ Cardinality(failures) \in Nat
  BY <1>1, <1>3, FS_CardinalityType
<1> QED
  BY <1>1, <1>3, <1>4, <1>5 DEF recent

\* Every step keeps LimitInv.
LEMMA LimitNext ==
    ASSUME Typed, LimitInv, [Next]_vars
    PROVE  LimitInv'
<1>1. ASSUME failures' = failures, uncounted' = uncounted, Guessing' \subseteq Guessing PROVE LimitInv'
  <2>1. recent' = recent /\ recent \in Nat
    BY <1>1, FS_CardinalityType DEF recent, LimitInv
  <2> QED
    BY <1>1, <2>1, QuietLimit DEF LimitInv
<1>2. ASSUME NEW p \in Requests, End(p) PROVE Guessing' \subseteq Guessing \ {p}
  BY <1>2, EndTyped DEF Guessing, Idle
<1>3. ASSUME NEW p \in Requests, NEW pc \in Pcs, Goto(p, pc),
             pc \in {"check", "redeem", "cas", "wrong"} => p \in Guessing
      PROVE  Guessing' \subseteq Guessing
  <2>1. request[p] \in Request /\ request'[p] = [request[p] EXCEPT !.pc = pc]
    BY <1>3, GotoTyped DEF Typed
  <2>2. request'[p].pc = pc
    BY <2>1 DEF Request
  <2>3. \A q \in Requests : q # p => request'[q] = request[q]
    BY <1>3, GotoTyped
  <2> QED
    BY <1>3, <2>2, <2>3 DEF Guessing
<1>4. ASSUME NEW p \in Requests, NEW r, request' = [request EXCEPT ![p] = r],
             r.pc \in {"check", "redeem", "cas", "wrong"} => p \in Guessing
      PROVE  Guessing' \subseteq Guessing
  BY <1>4 DEF Guessing, Typed
<1>5. ASSUME NEW p \in Requests, BeginSome(p) PROVE LimitInv'
  <2>1. ASSUME NEW kind \in Kinds, NEW ch, NEW code, Begin(p, kind, ch, code) PROVE LimitInv'
    <3> DEFINE r == [Idle EXCEPT !.pc = kind, !.kind = kind, !.ch = ch, !.code = code]
    <3>1. r.pc = kind /\ kind \notin {"check", "redeem", "cas", "wrong"}
      BY DEF Idle, Kinds, Enrolment
    <3>2. request' = [request EXCEPT ![p] = r] /\ failures' = failures /\ uncounted' = uncounted
      BY <2>1 DEF Begin
    <3> HIDE DEF r
    <3> QED
      BY <1>1, <1>4, <3>1, <3>2
  <2> QED
    BY <1>5, <2>1 DEF BeginSome, Kinds
<1>6. ASSUME NEW p \in Requests, Step(p) PROVE LimitInv'
  <2>1. CASE SetUserTOTP(p) \/ ActivateTOTP(p) \/ DisableTOTP(p) \/ SaveRecoveryCodes(p)
             \/ CreateChallenge(p) \/ OpenByPassword(p) \/ Consume(p)
    BY <1>1, <1>2, <2>1 DEF SetUserTOTP, ActivateTOTP, DisableTOTP, SaveRecoveryCodes,
       CreateChallenge, OpenByPassword, Consume
  <2>2. CASE SetupRead(p) \/ ActivateRead(p) \/ DisableRead(p) \/ RegenerateRead(p) \/ LoginRead(p)
             \/ GetChallenge(p) \/ IssueSession(p)
    <3>1. failures' = failures /\ uncounted' = uncounted
      BY <2>2 DEF SetupRead, ActivateRead, DisableRead, RegenerateRead, LoginRead, GetChallenge,
         IssueSession
    <3>2. End(p) \/ \E pc \in {"setup_write", "activate_write", "disable_write", "regenerate_write",
                               "challenge", "open", "limit", "consume"} : Goto(p, pc)
      BY <2>2 DEF SetupRead, ActivateRead, DisableRead, RegenerateRead, LoginRead, GetChallenge,
         IssueSession
    <3> QED
      BY <1>1, <1>2, <1>3, <3>1, <3>2 DEF Pcs
\* Whoever is let through has seen fewer failures than the limit, and there are
\* no more requests past the limiter than requests.
  <2>3. CASE CheckTOTPRateLimit(p)
    <3>1. CASE recent >= WindowFails
      BY <1>1, <1>2, <2>3, <3>1 DEF CheckTOTPRateLimit
    <3>2. CASE ~(recent >= WindowFails)
      <4>1. recent' = recent /\ recent \in Nat /\ recent <= WindowFails - 1 /\ failures' = failures /\ uncounted' = uncounted
        BY <2>3, <3>2, FS_CardinalityType, SecondFactorAssumption
           DEF CheckTOTPRateLimit, recent, LimitInv
      <4>2. Guessing' \in SUBSET Requests
        BY DEF Guessing
      <4> QED
        BY <4>1, <4>2, RequestSets, SecondFactorAssumption DEF LimitInv
    <3> QED
      BY <3>1, <3>2
\* One request more that may fail, and one look-up more that was not made.
  <2>8. CASE CountFails(p)
    <3>1. /\ failures' = failures /\ recent' = recent /\ recent \in Nat
          /\ uncounted' = uncounted + 1 /\ uncounted \in Nat
      BY <2>8, FS_CardinalityType DEF CountFails, recent, LimitInv
    <3>2. Guessing' \subseteq Guessing \cup {p} /\ Guessing \in SUBSET Requests
          /\ Guessing' \in SUBSET Requests /\ Guessing \cup {p} \in SUBSET Requests
      BY <2>8 DEF CountFails, Goto, Guessing, Typed
    <3>3. Cardinality(Guessing \cup {p}) <= Cardinality(Guessing) + 1
      BY <3>2, RequestSets, FS_AddElement
    <3>4. Cardinality(Guessing') <= Cardinality(Guessing) + 1
      BY <3>2, <3>3, RequestSets
    <3> QED
      BY <3>1, <3>2, <3>4, RequestSets, SecondFactorAssumption DEF LimitInv
  <2>4. CASE Verify(p)
    <3>1. p \in Guessing /\ failures' = failures /\ uncounted' = uncounted
      BY <2>4 DEF Verify, Guessing, At
    <3> QED
      BY <1>1, <1>2, <1>3, <2>4, <3>1 DEF Verify, Pcs
\* One failure more, and one request less that may fail.
  <2>5. CASE RecordFailure(p)
    <3>1. Guessing \in SUBSET Requests /\ Guessing' \in SUBSET Requests /\ p \in Guessing
      BY <2>5 DEF Guessing, RecordFailure, At
    <3>2. Guessing' \subseteq Guessing \ {p}
      BY <1>2, <2>5 DEF RecordFailure
    <3>3. Cardinality(Guessing \ {p}) = Cardinality(Guessing) - 1
      BY <3>1, RequestSets, FS_RemoveElement
    <3>4. Cardinality(Guessing') <= Cardinality(Guessing) - 1
      BY <3>1, <3>2, <3>3, RequestSets
    <3>5. failures' = failures \/ \E f : failures' = failures \cup {f}
      BY <2>5 DEF RecordFailure
    <3>6. IsFiniteSet(failures') /\ (recent' = recent \/ recent' = recent + 1) /\ recent \in Nat
      BY <3>5, FS_AddElement, FS_CardinalityType DEF recent, LimitInv
    <3>7. uncounted' = uncounted
      BY <2>5 DEF RecordFailure
    <3> QED
      BY <3>1, <3>4, <3>6, <3>7, RequestSets, SecondFactorAssumption DEF LimitInv
  <2>6. CASE ConsumeRecoveryCode(p)
    <3>1. p \in Guessing /\ failures' = failures /\ uncounted' = uncounted
      BY <2>6 DEF ConsumeRecoveryCode, Guessing, At
    <3> QED
      BY <1>1, <1>2, <1>3, <1>4, <2>6, <3>1 DEF ConsumeRecoveryCode, Pcs
  <2>7. CASE SaveRecoveryCodesCAS(p)
    <3>1. p \in Guessing /\ failures' = failures /\ uncounted' = uncounted
      BY <2>7 DEF SaveRecoveryCodesCAS, Guessing, At
    <3>2. End(p) \/ \E r : request' = [request EXCEPT ![p] = r]
      BY <2>7 DEF SaveRecoveryCodesCAS
    <3> QED
      BY <1>1, <1>2, <1>4, <3>1, <3>2
  <2> QED
    BY <1>6, <2>1, <2>2, <2>3, <2>4, <2>5, <2>6, <2>7, <2>8 DEF Step
<1>7. CASE CliDisable \/ Sweep \/ UNCHANGED vars
  BY <1>1, <1>7 DEF CliDisable, Sweep, vars, Guessing
<1>8. CASE Tick
  <2>1. Guessing' = Guessing
    BY <1>8 DEF Tick, Guessing
  <2> QED
    BY <1>8, <2>1, AgedFailures, QuietLimit DEF LimitInv, Tick
<1>9. CASE Restart
  BY <1>1, <1>9 DEF Restart, Guessing, Idle
<1> QED
  BY <1>5, <1>6, <1>7, <1>8, <1>9 DEF Next

\* A step that opens no session and lets nobody past the store keeps ReplayInv,
\* if a challenge that can be found after it is new, or could be found before and
\* has lost none of those about to consume it.
LEMMA QuietReplay ==
    ASSUME ReplayInv, logins \in Nat, logins' \in Nat, logins <= logins', sessions' = sessions,
           \A q \in Requests :
               /\ request'[q].ch \in 0 .. logins'
               /\ request'[q].pc \in {"login", "challenge", "open"} => request'[q].ch = 0,
           \A c \in Ids :
               /\ Past(c)' \subseteq Past(c)
               /\ Alive(c)' => c > logins \/ (Alive(c) /\ Done(c) \subseteq Done(c)')
    PROVE  ReplayInv'
<1>1. ChallengeInv'
  BY DEF ReplayInv, ChallengeInv
<1>2. ASSUME NEW c \in Ids
      PROVE  /\ Alive(c)' => Cardinality(Issued(c)') <= Cardinality(Done(c)')
             /\ Cardinality(Issued(c)') + Cardinality(Past(c)') <= Cardinality(Requests)
  <2>1. /\ Past(c) \in SUBSET Requests /\ Past(c)' \in SUBSET Requests
        /\ Done(c) \in SUBSET Requests /\ Done(c)' \in SUBSET Requests
        /\ Issued(c)' = Issued(c) /\ Issued(c) \in SUBSET sessions
    BY DEF Past, Done, Issued
  <2>2. IsFiniteSet(Issued(c)) /\ Cardinality(Issued(c)) \in Nat
    BY <2>1, FS_Subset, FS_CardinalityType DEF ReplayInv, ChallengeInv
  <2>3. Cardinality(Past(c)') <= Cardinality(Past(c))
    BY <2>1, RequestSets
  <2>4. ASSUME Alive(c)' PROVE Cardinality(Issued(c)') <= Cardinality(Done(c)')
    <3>1. CASE c > logins
      <4>1. Issued(c) = {}
        BY <3>1 DEF Issued, ReplayInv, ChallengeInv
      <4> QED
        BY <2>1, <4>1, RequestSets, FS_EmptySet
    <3>2. CASE Alive(c) /\ Done(c) \subseteq Done(c)'
      BY <2>1, <2>2, <3>2, RequestSets DEF ReplayInv, BoundInv
    <3> QED
      BY <2>4, <3>1, <3>2
  <2> QED
    BY <2>1, <2>2, <2>3, <2>4, RequestSets DEF ReplayInv, BoundInv
<1>3. BoundInv'
  BY <1>2 DEF BoundInv, Ids
<1> QED
  BY <1>1, <1>3 DEF ReplayInv

\* In particular one that moves a single request, unless it lets it past the
\* store or ends it without having the challenge consumed.
LEMMA MoveReplay ==
    ASSUME Typed, ReplayInv, NEW p \in Requests, NEW r, request' = [request EXCEPT ![p] = r],
           logins' \in Nat, logins <= logins', sessions' = sessions, r.ch \in 0 .. logins',
           r.pc \in {"login", "challenge", "open"} => r.ch = 0,
           r.pc \in PastPcs => request[p].pc \in PastPcs /\ request[p].ch = r.ch,
           \A c \in Ids : Alive(c)' =>
               c > logins \/ (Alive(c) /\ ~(At(p, "consume") /\ request[p].ch = c))
    PROVE  ReplayInv'
<1>1. \A q \in Requests : request'[q] = IF q = p THEN r ELSE request[q]
  BY DEF Typed
<1>2. logins \in Nat
  BY DEF Typed, TypeOK
<1>3. \A q \in Requests :
          /\ request'[q].ch \in 0 .. logins'
          /\ request'[q].pc \in {"login", "challenge", "open"} => request'[q].ch = 0
  BY <1>1, <1>2 DEF ReplayInv, ChallengeInv
<1>4. ASSUME NEW c \in Ids PROVE Past(c)' \subseteq Past(c)
  BY <1>1 DEF Past
<1>5. ASSUME NEW c \in Ids, ~(At(p, "consume") /\ request[p].ch = c) PROVE Done(c) \subseteq Done(c)'
  BY <1>1, <1>5 DEF Done, At
<1> QED
  BY <1>2, <1>3, <1>4, <1>5, QuietReplay

\* A request that finds the challenge is past the store.
LEMMA GetReplay ==
    ASSUME Typed, ReplayInv, NEW p \in Requests, request[p].pc \in {"verify", "recovery"},
           Alive(request[p].ch), Goto(p, "limit"), UNCHANGED <<challenges, logins, sessions>>
    PROVE  ReplayInv'
<1>1. request[p] \in Request /\ request'[p] = [request[p] EXCEPT !.pc = "limit"]
  BY GotoTyped DEF Typed, Pcs
<1>2. request'[p].pc = "limit" /\ request'[p].ch = request[p].ch
  BY <1>1 DEF Request
<1>3. \A q \in Requests : q # p => request'[q] = request[q]
  BY GotoTyped DEF Pcs
<1>4. ChallengeInv'
  BY <1>2, <1>3 DEF ReplayInv, ChallengeInv
<1>5. ASSUME NEW c \in Ids
      PROVE  /\ Alive(c)' => Cardinality(Issued(c)') <= Cardinality(Done(c)')
             /\ Cardinality(Issued(c)') + Cardinality(Past(c)') <= Cardinality(Requests)
  <2>1. Issued(c)' = Issued(c) /\ Done(c)' = Done(c) /\ (Alive(c)' <=> Alive(c))
    BY <1>2, <1>3 DEF Issued, Done, Alive, At
  <2>2. CASE request[p].ch = c
    <3>1. /\ Past(c)' \in SUBSET Requests /\ Done(c)' \in SUBSET Requests
          /\ Past(c)' \cap Done(c)' = {}
      BY DEF Past, Done, At, PastPcs
    <3>2. Cardinality(Past(c)') + Cardinality(Done(c)') <= Cardinality(Requests)
      BY <3>1, DisjointRequests
    <3>3. Cardinality(Issued(c)) <= Cardinality(Done(c))
      BY <2>2 DEF ReplayInv, BoundInv
    <3>4. Issued(c) \in SUBSET sessions /\ IsFiniteSet(sessions)
      BY DEF Issued, ReplayInv, ChallengeInv
    <3>5. Cardinality(Issued(c)) \in Nat
      BY <3>4, FS_Subset, FS_CardinalityType
    <3> QED
      BY <2>1, <3>1, <3>2, <3>3, <3>5, RequestSets
  <2>3. CASE request[p].ch # c
    <3>1. Past(c)' = Past(c)
      BY <1>2, <1>3, <2>3 DEF Past
    <3> QED
      BY <2>1, <3>1 DEF ReplayInv, BoundInv
  <2> QED
    BY <2>2, <2>3
<1> QED
  BY <1>4, <1>5 DEF ReplayInv, BoundInv, Ids

\* A request that opens its session has yet to consume the challenge.
LEMMA IssueReplay ==
    ASSUME Typed, ReplayInv, NEW p \in Requests, IssueSession(p)
    PROVE  ReplayInv'
<1> DEFINE s == [id |-> Cardinality(sessions) + 1, ch |-> request[p].ch,
                 via |-> IF request[p].kind = "verify" THEN {} ELSE {request[p].code}]
<1>1. /\ sessions' = sessions \cup {s} /\ Goto(p, "consume") /\ At(p, "right")
      /\ UNCHANGED <<challenges, logins>> /\ s.ch = request[p].ch
  BY DEF IssueSession, OpenSession
<1> HIDE DEF s
<1>2. request[p] \in Request /\ request'[p] = [request[p] EXCEPT !.pc = "consume"]
  BY <1>1, GotoTyped DEF Typed, Pcs
<1>3. request'[p].pc = "consume" /\ request'[p].ch = request[p].ch /\ request[p].pc = "right"
  BY <1>1, <1>2 DEF Request, At
<1>4. \A q \in Requests : q # p => request'[q] = request[q]
  BY <1>1, GotoTyped DEF Pcs
<1>5. IsFiniteSet(sessions')
  BY <1>1, FS_AddElement DEF ReplayInv, ChallengeInv
<1>6. ChallengeInv'
  BY <1>1, <1>3, <1>4, <1>5 DEF ReplayInv, ChallengeInv
<1>7. ASSUME NEW c \in Ids
      PROVE  /\ Alive(c)' => Cardinality(Issued(c)') <= Cardinality(Done(c)')
             /\ Cardinality(Issued(c)') + Cardinality(Past(c)') <= Cardinality(Requests)
  <2>1. Alive(c)' <=> Alive(c)
    BY <1>1 DEF Alive
  <2>2. CASE request[p].ch = c
    <3>1. Issued(c)' = Issued(c) \cup {s} /\ Issued(c) \in SUBSET sessions
      BY <1>1, <2>2 DEF Issued
    <3>2. IsFiniteSet(Issued(c)) /\ Cardinality(Issued(c)) \in Nat
      BY <3>1, FS_Subset, FS_CardinalityType DEF ReplayInv, ChallengeInv
    <3>3. Cardinality(Issued(c)') <= Cardinality(Issued(c)) + 1 /\ Cardinality(Issued(c)') \in Nat
      <4>1. Cardinality(Issued(c) \cup {s}) = IF s \in Issued(c) THEN Cardinality(Issued(c))
                                              ELSE Cardinality(Issued(c)) + 1
        BY <3>2, FS_AddElement
      <4> QED
        BY <3>1, <3>2, <4>1
    <3>4. /\ p \in Past(c) /\ Past(c)' = Past(c) \ {p}
          /\ p \notin Done(c) /\ Done(c)' = Done(c) \cup {p}
      BY <1>3, <1>4, <2>2 DEF Past, Done, At, PastPcs
    <3>5. Past(c) \in SUBSET Requests /\ Done(c) \in SUBSET Requests
      BY DEF Past, Done
    <3>6. /\ Cardinality(Past(c)') = Cardinality(Past(c)) - 1
          /\ Cardinality(Done(c)') = Cardinality(Done(c)) + 1
      <4>1. IsFiniteSet(Past(c)) /\ IsFiniteSet(Done(c))
        BY <3>5, RequestSets
      <4>2. Cardinality(Past(c) \ {p}) = Cardinality(Past(c)) - 1
        BY <3>4, <4>1, FS_RemoveElement
      <4>3. Cardinality(Done(c) \cup {p}) = Cardinality(Done(c)) + 1
        BY <3>4, <4>1, FS_AddElement
      <4> QED
        BY <3>4, <4>2, <4>3
    <3> QED
      BY <2>1, <3>2, <3>3, <3>5, <3>6, RequestSets DEF ReplayInv, BoundInv
  <2>3. CASE request[p].ch # c
    <3>1. Issued(c)' = Issued(c) /\ Past(c)' = Past(c) /\ Done(c)' = Done(c)
      BY <1>1, <1>3, <1>4, <2>3 DEF Issued, Past, Done, At
    <3> QED
      BY <2>1, <3>1 DEF ReplayInv, BoundInv
  <2> QED
    BY <2>2, <2>3
<1> QED
  BY <1>6, <1>7 DEF ReplayInv, BoundInv, Ids

\* A session opened by the password alone is of no challenge.
LEMMA PasswordReplay ==
    ASSUME Typed, ReplayInv, NEW p \in Requests, OpenByPassword(p)
    PROVE  ReplayInv'
<1> DEFINE s == [id |-> Cardinality(sessions) + 1, ch |-> request[p].ch, via |-> {}]
<1>1. s.ch = 0 /\ At(p, "open")
  BY DEF OpenByPassword, At, ReplayInv, ChallengeInv
<1>2. sessions' = sessions \cup {s} /\ End(p) /\ UNCHANGED <<challenges, logins>>
  BY DEF OpenByPassword, OpenSession
<1> HIDE DEF s
<1>3. Idle.ch = 0 /\ Idle.pc = "idle"
  BY DEF Idle
<1>4. \A q \in Requests : request'[q] = IF q = p THEN Idle ELSE request[q]
  BY <1>2, EndTyped
<1>5. logins \in Nat
  BY DEF Typed, TypeOK
<1>6. IsFiniteSet(sessions')
  BY <1>2, FS_AddElement DEF ReplayInv, ChallengeInv
<1>7. ChallengeInv'
  BY <1>1, <1>2, <1>3, <1>4, <1>5, <1>6 DEF ReplayInv, ChallengeInv
<1>8. ASSUME NEW c \in Ids
      PROVE  Issued(c)' = Issued(c) /\ Past(c)' = Past(c) /\ Done(c)' = Done(c) /\ Alive(c)' = Alive(c)
  <2>1. c # 0
    BY DEF Ids
  <2>2. Issued(c)' = Issued(c) /\ Alive(c)' = Alive(c)
    BY <1>1, <1>2, <2>1 DEF Issued, Alive
  <2>3. Past(c)' = Past(c) /\ Done(c)' = Done(c)
    BY <1>1, <1>3, <1>4 DEF Past, Done, At, PastPcs
  <2> QED
    BY <2>2, <2>3
<1> QED
  BY <1>7, <1>8 DEF ReplayInv, BoundInv, Ids

\* Every step keeps ReplayInv.
LEMMA ReplayNext ==
    ASSUME Typed, ReplayInv, [Next]_vars
    PROVE  ReplayInv'
<1>1. logins \in Nat /\ MaxLogins \in Nat /\ TTL \in Nat /\ None \notin 0 .. TTL
      /\ challenges \in [Ids -> 0 .. TTL + 1 \cup {None}]
  BY SecondFactorAssumption DEF Typed, TypeOK
<1> DEFINE Kept == UNCHANGED <<challenges, logins, sessions>>
<1>2. ASSUME NEW p \in Requests, End(p), sessions' = sessions, logins' \in Nat, logins <= logins',
             \A c \in Ids : Alive(c)' =>
                 c > logins \/ (Alive(c) /\ ~(At(p, "consume") /\ request[p].ch = c))
      PROVE  ReplayInv'
  <2>1. Idle.ch = 0 /\ Idle.pc \notin PastPcs /\ request' = [request EXCEPT ![p] = Idle]
    BY <1>2 DEF Idle, PastPcs, End
  <2>2. Idle.ch \in 0 .. logins'
    BY <1>2, <2>1
  <2> QED
    BY <1>2, <2>1, <2>2, MoveReplay
<1>3. ASSUME NEW p \in Requests, End(p), Kept, ~At(p, "consume") PROVE ReplayInv'
  <2>1. \A c \in Ids : Alive(c)' => Alive(c)
    BY <1>3 DEF Alive
  <2> QED
    BY <1>1, <1>2, <1>3, <2>1
<1>4. ASSUME NEW p \in Requests, NEW pc \in Pcs, Goto(p, pc), Kept, ~At(p, "consume"),
             pc \in {"challenge", "open"} => At(p, "login"),
             pc # "login", pc \in PastPcs => request[p].pc \in PastPcs
      PROVE  ReplayInv'
  <2> DEFINE r == [request[p] EXCEPT !.pc = pc]
  <2>1. r.pc = pc /\ r.ch = request[p].ch
    BY DEF Typed, Request
  <2>2. request' = [request EXCEPT ![p] = r]
    BY <1>4 DEF Goto
  <2> HIDE DEF r
  <2>3. r.ch \in 0 .. logins' /\ (r.pc \in {"login", "challenge", "open"} => r.ch = 0)
    BY <1>4, <2>1 DEF ReplayInv, ChallengeInv, At
  <2>4. \A c \in Ids : Alive(c)' =>
          c > logins \/ (Alive(c) /\ ~(At(p, "consume") /\ request[p].ch = c))
    BY <1>4 DEF Alive
  <2>5. /\ r.pc \in PastPcs => request[p].pc \in PastPcs /\ request[p].ch = r.ch
        /\ logins' \in Nat /\ logins <= logins' /\ sessions' = sessions
    BY <1>1, <1>4, <2>1
  <2> QED
    BY <2>2, <2>3, <2>4, <2>5, MoveReplay
<1>5. ASSUME NEW p \in Requests, NEW r, request' = [request EXCEPT ![p] = r], Kept,
             ~At(p, "consume"), r.ch = request[p].ch, request[p].pc \in PastPcs,
             r.pc \in PastPcs
      PROVE  ReplayInv'
  <2>1. r.ch \in 0 .. logins' /\ r.pc \notin {"login", "challenge", "open"}
    BY <1>5 DEF ReplayInv, ChallengeInv, PastPcs
  <2>2. \A c \in Ids : Alive(c)' =>
          c > logins \/ (Alive(c) /\ ~(At(p, "consume") /\ request[p].ch = c))
    BY <1>5 DEF Alive
  <2>3. /\ r.pc \in PastPcs => request[p].pc \in PastPcs /\ request[p].ch = r.ch
        /\ logins' \in Nat /\ logins <= logins' /\ sessions' = sessions
    BY <1>1, <1>5
  <2> QED
    BY <1>5, <2>1, <2>2, <2>3, MoveReplay
<1>6. ASSUME NEW p \in Requests, BeginSome(p) PROVE ReplayInv'
  <2>1. ASSUME NEW kind \in Kinds, NEW ch \in 0 .. logins, NEW code, Begin(p, kind, ch, code),
               kind = "login" => ch = 0
        PROVE  ReplayInv'
    <3> DEFINE r == [Idle EXCEPT !.pc = kind, !.kind = kind, !.ch = ch, !.code = code]
    <3>1. r.pc = kind /\ r.ch = ch /\ kind \notin PastPcs /\ kind \notin {"challenge", "open"}
      BY DEF Idle, Kinds, Enrolment, PastPcs
    <3>2. request' = [request EXCEPT ![p] = r] /\ Kept /\ At(p, "idle")
      BY <2>1 DEF Begin
    <3> HIDE DEF r
    <3>3. \A c \in Ids : Alive(c)' =>
            c > logins \/ (Alive(c) /\ ~(At(p, "consume") /\ request[p].ch = c))
      BY <3>2 DEF Alive, At
    <3>4. r.ch \in 0 .. logins' /\ (r.pc \in {"login", "challenge", "open"} => r.ch = 0)
      BY <2>1, <3>1, <3>2
    <3>5. /\ r.pc \in PastPcs => request[p].pc \in PastPcs /\ request[p].ch = r.ch
          /\ logins' \in Nat /\ logins <= logins' /\ sessions' = sessions
      BY <1>1, <3>1, <3>2
    <3> QED
      BY <3>2, <3>3, <3>4, <3>5, MoveReplay
  <2>2. 0 \in 0 .. logins /\ \A c \in 1 .. logins : c \in 0 .. logins
    BY <1>1
  <2>3. \A kind \in Enrolment \cup {"login", "regenerate"} : kind \in Kinds
    BY DEF Kinds
  <2>4. "verify" \in Kinds /\ "recovery" \in Kinds
    BY DEF Kinds
  <2>5. CASE \E kind \in Enrolment \cup {"login", "regenerate"} : Begin(p, kind, 0, None)
    BY <2>1, <2>2, <2>3, <2>5
  <2>6. CASE \E c \in 1 .. logins : Begin(p, "verify", c, None)
    BY <2>1, <2>2, <2>4, <2>6
  <2>7. CASE \E c \in 1 .. logins, k \in row.codes \cup spent : Begin(p, "recovery", c, k)
    BY <2>1, <2>2, <2>4, <2>7
  <2> QED
    BY <1>6, <2>5, <2>6, <2>7 DEF BeginSome
<1>7. ASSUME NEW p \in Requests, Step(p) PROVE ReplayInv'
  <2>1. CASE SetUserTOTP(p) \/ ActivateTOTP(p) \/ DisableTOTP(p) \/ SaveRecoveryCodes(p)
             \/ RecordFailure(p)
    BY <1>3, <2>1 DEF SetUserTOTP, ActivateTOTP, DisableTOTP, SaveRecoveryCodes, RecordFailure, At
  <2>2. CASE SetupRead(p) \/ ActivateRead(p) \/ DisableRead(p) \/ RegenerateRead(p) \/ LoginRead(p)
    <3>1. Kept /\ ~At(p, "consume")
      BY <2>2 DEF SetupRead, ActivateRead, DisableRead, RegenerateRead, LoginRead, At
    <3>2. End(p) \/ \E pc \in {"setup_write", "activate_write", "disable_write", "regenerate_write",
                               "challenge", "open"} :
                        Goto(p, pc) /\ (pc \in {"challenge", "open"} => At(p, "login"))
      BY <2>2 DEF SetupRead, ActivateRead, DisableRead, RegenerateRead, LoginRead
    <3> QED
      BY <1>3, <1>4, <3>1, <3>2 DEF Pcs, PastPcs
  <2>3. CASE CreateChallenge(p)
    <3>1. /\ End(p) /\ sessions' = sessions /\ logins' = logins + 1 /\ ~At(p, "consume")
          /\ challenges' = [challenges EXCEPT ![logins + 1] = 0]
      BY <2>3 DEF CreateChallenge, At
    <3>2. ASSUME NEW c \in Ids, Alive(c)', ~(c > logins) PROVE Alive(c)
      <4>1. c # logins + 1
        BY <1>1, <3>2 DEF Ids
      <4> QED
        BY <1>1, <3>1, <3>2, <4>1 DEF Alive
    <3>3. logins' \in Nat /\ logins <= logins'
      BY <1>1, <3>1
    <3> QED
      BY <1>2, <3>1, <3>2, <3>3
  <2>4. CASE OpenByPassword(p)
    BY <2>4, PasswordReplay
  <2>5. CASE GetChallenge(p)
    <3>1. CASE Alive(request[p].ch)
      BY <2>5, <3>1, GetReplay DEF GetChallenge, Alive
    <3>2. CASE ~Alive(request[p].ch)
      <4>1. /\ End(p) /\ UNCHANGED <<logins, sessions>> /\ ~At(p, "consume")
            /\ challenges' = [challenges EXCEPT ![request[p].ch] = None]
        BY <2>5, <3>2 DEF GetChallenge, Alive, At
      <4>2. \A c \in Ids : Alive(c)' => Alive(c)
        BY <1>1, <4>1 DEF Alive
      <4> QED
        BY <1>1, <1>2, <4>1, <4>2
    <3> QED
      BY <3>1, <3>2
  <2>6. CASE CheckTOTPRateLimit(p) \/ CountFails(p) \/ Verify(p)
    <3>1. Kept /\ ~At(p, "consume") /\ request[p].pc \in PastPcs
      BY <2>6 DEF CheckTOTPRateLimit, CountFails, Verify, At, PastPcs
    <3>2. End(p) \/ \E pc \in {"check", "redeem", "right", "wrong"} : Goto(p, pc)
      BY <2>6 DEF CheckTOTPRateLimit, CountFails, Verify
    <3> QED
      BY <1>3, <1>4, <3>1, <3>2 DEF Pcs
  <2>7. CASE ConsumeRecoveryCode(p)
    <3>1. Kept /\ ~At(p, "consume") /\ request[p].pc \in PastPcs
      BY <2>7 DEF ConsumeRecoveryCode, At, PastPcs
    <3>2. CASE End(p) \/ Goto(p, "wrong")
      BY <1>3, <1>4, <3>1, <3>2 DEF Pcs
    <3>3. CASE ~(End(p) \/ Goto(p, "wrong"))
      <4> DEFINE r == [request[p] EXCEPT !.pc = "cas", !.blob = row.blob, !.codes = Remaining(p)]
      <4>1. request' = [request EXCEPT ![p] = r]
        BY <2>7, <3>3 DEF ConsumeRecoveryCode
      <4>2. r.ch = request[p].ch /\ r.pc \in PastPcs
        BY DEF Typed, Request, PastPcs
      <4> HIDE DEF r
      <4> QED
        BY <1>5, <3>1, <4>1, <4>2
    <3> QED
      BY <3>2, <3>3
  <2>8. CASE SaveRecoveryCodesCAS(p)
    <3>1. Kept /\ ~At(p, "consume") /\ request[p].pc \in PastPcs
      BY <2>8 DEF SaveRecoveryCodesCAS, At, PastPcs
    <3>2. CASE row.blob = request[p].blob
      <4> DEFINE r == [request[p] EXCEPT !.pc = "right", !.codes = {}, !.blob = 0]
      <4>1. request' = [request EXCEPT ![p] = r]
        BY <2>8, <3>2 DEF SaveRecoveryCodesCAS
      <4>2. r.ch = request[p].ch /\ r.pc \in PastPcs
        BY DEF Typed, Request, PastPcs
      <4> HIDE DEF r
      <4> QED
        BY <1>5, <3>1, <4>1, <4>2
    <3>3. CASE row.blob # request[p].blob /\ request[p].attempt = Retries - 1
      BY <1>3, <2>8, <3>1, <3>3 DEF SaveRecoveryCodesCAS
    <3>4. CASE row.blob # request[p].blob /\ request[p].attempt # Retries - 1
      <4>0. PICK n : n = request[p].attempt + 1
        OBVIOUS
      <4> DEFINE r == [request[p] EXCEPT !.pc = "redeem", !.codes = {}, !.blob = 0, !.attempt = n]
      <4>1. request' = [request EXCEPT ![p] = r]
        BY <2>8, <3>4, <4>0 DEF SaveRecoveryCodesCAS
      <4>2. r.ch = request[p].ch /\ r.pc \in PastPcs
        BY DEF Typed, Request, PastPcs
      <4> HIDE DEF r
      <4> QED
        BY <1>5, <3>1, <4>1, <4>2
    <3> QED
      BY <3>2, <3>3, <3>4
  <2>9. CASE IssueSession(p)
    BY <2>9, IssueReplay
  <2>10. CASE Consume(p)
    <3>1. /\ End(p) /\ UNCHANGED <<logins, sessions>>
          /\ challenges' = [challenges EXCEPT ![request[p].ch] = None]
      BY <2>10 DEF Consume
    <3>2. \A c \in Ids : Alive(c)' => Alive(c) /\ request[p].ch # c
      BY <1>1, <3>1 DEF Alive
    <3> QED
      BY <1>1, <1>2, <3>1, <3>2
  <2> QED
    BY <1>7, <2>1, <2>2, <2>3, <2>4, <2>5, <2>6, <2>7, <2>8, <2>9, <2>10 DEF Step
<1>8. ASSUME UNCHANGED <<request, logins, sessions>>, \A c \in Ids : Alive(c)' => Alive(c)
      PROVE  ReplayInv'
  <2>1. \A c \in Ids : Past(c)' = Past(c) /\ Done(c)' = Done(c)
    BY <1>8 DEF Past, Done, At
  <2>2. \A q \in Requests :
            /\ request'[q].ch \in 0 .. logins'
            /\ request'[q].pc \in {"login", "challenge", "open"} => request'[q].ch = 0
    BY <1>8 DEF ReplayInv, ChallengeInv
  <2> QED
    BY <1>1, <1>8, <2>1, <2>2, QuietReplay
<1>9. CASE CliDisable \/ UNCHANGED vars
  BY <1>8, <1>9 DEF CliDisable, vars, Alive
<1>10. CASE Tick
  BY <1>1, <1>8, <1>10 DEF Tick, Alive
<1>11. CASE Sweep
  BY <1>1, <1>8, <1>11 DEF Sweep, Alive
<1>12. CASE Restart
  <2>1. /\ UNCHANGED <<logins, sessions>> /\ challenges' = [c \in Ids |-> None]
        /\ \A q \in Requests : request'[q] = Idle
    BY <1>12 DEF Restart
  <2>2. Idle.ch = 0 /\ Idle.pc = "idle"
    BY DEF Idle
  <2>3. \A c \in Ids : Past(c)' \subseteq Past(c) /\ ~Alive(c)'
    BY <1>1, <2>1, <2>2 DEF Past, PastPcs, Alive
  <2>4. \A q \in Requests : request'[q].ch \in 0 .. logins' /\ request'[q].pc = "idle"
    BY <1>1, <2>1, <2>2
  <2> QED
    BY <1>1, <2>1, <2>2, <2>3, <2>4, QuietReplay
<1> QED
  BY <1>6, <1>7, <1>9, <1>10, <1>11, <1>12 DEF Next

\* The initial state keeps both.
LEMMA GuessesInit == Init => LimitInv /\ ReplayInv
<1> SUFFICES ASSUME Init PROVE LimitInv /\ ReplayInv
  OBVIOUS
<1>1. Idle.ch = 0 /\ Idle.pc = "idle"
  BY DEF Idle
<1>2. \A p \in Requests : request[p] = Idle
  BY DEF Init
<1>3. /\ failures = {} /\ uncounted = 0 /\ sessions = {} /\ logins = 0 /\ Guessing = {}
      /\ \A c \in Ids : Issued(c) = {} /\ Past(c) = {} /\ ~Alive(c)
  BY <1>1, <1>2, SecondFactorAssumption DEF Init, Guessing, Issued, Past, PastPcs, Alive
<1>4. LimitInv
  BY <1>3, RequestSets, FS_EmptySet, SecondFactorAssumption DEF LimitInv, recent
<1>5. ChallengeInv
  BY <1>1, <1>2, <1>3, FS_EmptySet DEF ChallengeInv
<1>6. BoundInv
  BY <1>3, RequestSets, FS_EmptySet DEF BoundInv
<1> QED
  BY <1>4, <1>5, <1>6 DEF ReplayInv

\* The limit is read before the attempt and recorded after it: whoever guesses
\* with overlapping requests gets no more wrong codes than the limit and one for
\* each request, and a challenge no more sessions than there are requests.
THEOREM GuessesBoundedHolds == Spec => []GuessesBounded
<1> DEFINE Inv == OnceInv /\ LimitInv /\ ReplayInv
<1>1. Init => Inv
  BY OnceInit, GuessesInit
<1>2. Inv /\ [Next]_vars => Inv'
  BY OnceNext, LimitNext, ReplayNext DEF OnceInv
<1>3. Inv => GuessesBounded
  <2> SUFFICES ASSUME LimitInv, ReplayInv PROVE FailuresBounded /\ ReplayBound
    BY DEF GuessesBounded
  <2>1. Guessing \in SUBSET Requests /\ recent \in Nat
    BY FS_CardinalityType DEF Guessing, LimitInv, recent
  <2>2. FailuresBounded
    BY <2>1, RequestSets, SecondFactorAssumption DEF LimitInv, FailuresBounded
  <2>3. ASSUME NEW c \in Ids PROVE Cardinality(Issued(c)) <= Cardinality(Requests)
    <3>1. Past(c) \in SUBSET Requests /\ Issued(c) \in SUBSET sessions /\ IsFiniteSet(sessions)
      BY DEF Past, Issued, ReplayInv, ChallengeInv
    <3>2. Cardinality(Issued(c)) \in Nat
      BY <3>1, FS_Subset, FS_CardinalityType
    <3> QED
      BY <3>1, <3>2, RequestSets DEF ReplayInv, BoundInv
  <2> QED
    BY <2>2, <2>3 DEF ReplayBound, Issued
<1> QED
  BY <1>1, <1>2, <1>3, PTL DEF Spec
----------------------------------------------------------------------------
(* The clocks of a session.  Whatever lets a request through was found by  *)
(* a look-up that is no older than the request, or than the verdict it put *)
(* in the cache; the expiry of the row is the one it was created with; and *)
(* a row is gone before its logout is done.                                *)

\* The stages of a request whose look-up found the session.
FoundPcs == {"serve", "again", "touch", "record", "put"}
Flight == [pc: FoundPcs \cup {"idle", "panel", "miss", "delete", "evict"}, token: Tokens \cup {None},
           idle: Int, seen: 0 .. Horizon, left: Int, age: 0 .. MaxFlight]

ClockTypes ==
    /\ setting \in Timeouts
    /\ timeouts # None => timeouts \in [abs: 0 .. Horizon - 1, left: Int, idle: Int]
    /\ session \in [Tokens -> [left: -Horizon .. Horizon, seen: 0 .. Horizon] \cup {None}]
    /\ cache \in [Tokens -> -Horizon .. CacheTTL \cup {None}]
    /\ flight \in [Flights -> Flight]
    /\ due \in [Tokens -> Int \cup {None}] /\ overlapped \in [Tokens -> BOOLEAN]
    /\ accepted \in [Tokens -> 0 .. Horizon \cup {None}]
    /\ revoked \in [Tokens -> 0 .. Horizon \cup {None}]

\* By how much a row's last-seen time may lag behind the last request let through.
Lag == Throttle - 1 + CacheTTL + MaxFlight

\* The row has the expiry it was created with, and is gone when its logout is done.
RowFits(t) ==
    /\ session[t] # None => /\ due[t] = session[t].left /\ revoked[t] = None /\ accepted[t] # None
                            /\ t \notin refused => session[t].seen <= accepted[t] + Lag
    /\ revoked[t] # None => due[t] # None

\* left is what is left of a cached verdict, or of one about to be cached: a look-up
\* found the session no longer ago than a request and the verdict's life so far.
VerdictFits(t, left) ==
    /\ due[t] # None /\ due[t] >= left - CacheTTL - MaxFlight
    /\ revoked[t] # None => overlapped[t] /\ revoked[t] <= CacheTTL + MaxFlight - left
    /\ session[t] # None /\ t \notin refused => session[t].seen <= Lag - left

CacheFits(t) == cache[t] # None /\ cache[t] >= 0 => VerdictFits(t, cache[t])

\* A request past its look-up: the row was there when it began or since.
FoundFits(t, age) ==
    /\ due[t] # None /\ due[t] >= -age
    /\ revoked[t] # None => overlapped[t] /\ revoked[t] <= age

FlightFits(v) ==
    /\ v.pc = "idle" <=> v.token = None
    /\ v.pc = "delete" => session[v.token] = None /\ due[v.token] # None
    /\ v.pc \in FoundPcs => FoundFits(v.token, v.age)
    /\ v.pc \in {"serve", "touch"} /\ session[v.token] # None /\ v.token \notin refused =>
          session[v.token].seen <= v.seen
    /\ v.pc \in {"record", "put"} /\ session[v.token] # None /\ v.token \notin refused =>
          session[v.token].seen <= Throttle - 1 + v.age
    /\ v.pc = "put" => v.left \in -v.age .. CacheTTL /\ VerdictFits(v.token, v.left)

\* What the last request let through shows of its session.
LastFits ==
    /\ verdict.due >= -(CacheTTL + MaxFlight)
    /\ verdict.revoked # None => verdict.overlapped /\ verdict.revoked <= CacheTTL + MaxFlight

ClockInv ==
    /\ ClockTypes /\ LastFits
    /\ \A t \in Tokens : RowFits(t) /\ CacheFits(t)
    /\ \A f \in Flights : FlightFits(flight[f])

\* A request that is nowhere.
LEMMA IdleFlight == Clock!Idle \in Flight /\ Clock!Idle.pc = "idle" /\ Clock!Idle.token = None
  BY ClockAssumption DEF Clock!Idle, Flight

\* What is kept of two timeouts is typed.
LEMMA KeptTyped ==
    ASSUME NEW abs \in 0 .. Horizon - 1, NEW idle \in 0 .. Horizon - 1
    PROVE  Clock!Kept(abs, idle) \in [abs: 0 .. Horizon - 1, left: Int, idle: Int]
<1>1. abs \in Int /\ idle \in Int /\ SettingsTTL \in Int
  BY ClockAssumption
<1> QED
  BY <1>1 DEF Clock!Kept

\* No timeout reaches the horizon, and what is kept of the settings is typed.
LEMMA CurrentTyped ==
    ASSUME ClockTypes
    PROVE  /\ Clock!Current \in [abs: 0 .. Horizon - 1, left: Int, idle: Int]
           /\ Clock!Current # None
<1>1. setting.abs \in 0 .. Horizon - 1 /\ setting.idle \in 0 .. Horizon - 1 /\ SettingsTTL \in Int
  BY ClockAssumption DEF ClockTypes
<1>2. 0 .. Horizon - 1 \subseteq Int
  BY ClockAssumption
<1>3. Clock!Kept(setting.abs, setting.idle) \in [abs: 0 .. Horizon - 1, left: Int, idle: Int]
  BY <1>1, KeptTyped
<1>4. Clock!Current \in [abs: 0 .. Horizon - 1, left: Int, idle: Int]
  BY <1>3 DEF Clock!Current, Clock!Fresh, ClockTypes
<1> QED
  BY <1>2, <1>4, ClockAssumption

\* Nothing has happened.
LEMMA ClockInit == Clock!Init => ClockInv
<1> SUFFICES ASSUME Clock!Init PROVE ClockInv
  OBVIOUS
<1>1. ClockTypes
  BY IdleFlight DEF Clock!Init, ClockTypes
<1>2. LastFits
  BY ClockAssumption DEF Clock!Init, Clock!NoVerdict, LastFits
<1>3. \A t \in Tokens : RowFits(t) /\ CacheFits(t)
  BY DEF Clock!Init, RowFits, CacheFits
<1>4. FlightFits(Clock!Idle)
  BY IdleFlight DEF FlightFits, FoundPcs
<1>5. \A f \in Flights : flight[f] = Clock!Idle
  BY DEF Clock!Init
<1> QED
  BY <1>1, <1>2, <1>3, <1>4, <1>5 DEF ClockInv

\* A request that ends, or begins, holds nothing of its session.
LEMMA FlightIdle ==
    /\ FlightFits(Clock!Idle)
    /\ \A t \in Tokens, pc \in {"panel", "miss"} :
          LET v == [Clock!Idle EXCEPT !.pc = pc, !.token = t] IN v \in Flight /\ FlightFits(v)
<1>1. FlightFits(Clock!Idle)
  BY IdleFlight DEF FlightFits, FoundPcs
<1>2. ASSUME NEW t \in Tokens, NEW pc \in {"panel", "miss"}
      PROVE  LET v == [Clock!Idle EXCEPT !.pc = pc, !.token = t] IN v \in Flight /\ FlightFits(v)
  <2> DEFINE v == [Clock!Idle EXCEPT !.pc = pc, !.token = t]
  <2>1. v \in Flight
    BY IdleFlight DEF Flight
  <2>2. v.pc = pc /\ v.token = t /\ t # None
    BY IdleFlight, ClockAssumption DEF Flight
  <2>3. FlightFits(v)
    BY <2>2 DEF FlightFits, FoundPcs
  <2> QED
    BY <2>1, <2>3
<1> QED
  BY <1>1, <1>2

\* Rows whose last-seen time moves forward, if anything.
Younger ==
    \A t \in Tokens :
        /\ session[t] = None <=> session'[t] = None
        /\ session[t] # None => session'[t].left = session[t].left /\ session'[t].seen <= session[t].seen

\* A look-up's finding outlives a touch of the row and a refusal.
LEMMA FindingsStay ==
    ASSUME ClockInv, Younger, ClockTypes', UNCHANGED <<due, revoked, overlapped>>, refused \subseteq refused'
    PROVE  /\ \A t \in Tokens, left \in Int : VerdictFits(t, left) => VerdictFits(t, left)'
           /\ \A v \in Flight : FlightFits(v) => FlightFits(v)'
<1> DEFINE Row == [left: -Horizon .. Horizon, seen: 0 .. Horizon]
<1>1. /\ CacheTTL \in Nat /\ MaxFlight \in Nat /\ Throttle \in Nat \ {0} /\ Lag \in Int /\ Horizon \in Nat
      /\ None \notin Tokens
  BY ClockAssumption DEF Lag
<1>2. \A t \in Tokens : session[t] # None => session[t].seen \in Int /\ session'[t].seen \in Int
  <2>1. \A r \in Row : r.seen \in Int
    BY <1>1
  <2>2. session \in [Tokens -> Row \cup {None}] /\ session' \in [Tokens -> Row \cup {None}]
    BY DEF ClockInv, ClockTypes
  <2> QED
    BY <2>1, <2>2 DEF Younger
<1> HIDE DEF Row
<1>3. ASSUME NEW t \in Tokens, NEW left \in Int, VerdictFits(t, left) PROVE VerdictFits(t, left)'
  BY <1>1, <1>2, <1>3 DEF VerdictFits, Younger
<1>4. ASSUME NEW v \in Flight, FlightFits(v) PROVE FlightFits(v)'
  <2>1. /\ v.token \in Tokens \cup {None} /\ v.seen \in Int /\ v.age \in Int /\ v.left \in Int
        /\ v.pc # "idle" => v.token \in Tokens
    BY <1>1, <1>4 DEF Flight, FlightFits
  <2>2. v.pc = "idle" <=> v.token = None
    BY <1>4 DEF FlightFits
  <2>3. v.pc = "delete" => session'[v.token] = None /\ due'[v.token] # None
    BY <1>4, <2>1 DEF FlightFits, Younger
  <2>4. v.pc \in FoundPcs => FoundFits(v.token, v.age)'
    BY <1>4 DEF FlightFits, FoundFits
  <2>5. v.pc \in {"serve", "touch"} /\ session'[v.token] # None /\ v.token \notin refused' =>
            session'[v.token].seen <= v.seen
    BY <1>2, <1>4, <2>1 DEF FlightFits, Younger
  <2>6. v.pc \in {"record", "put"} /\ session'[v.token] # None /\ v.token \notin refused' =>
            session'[v.token].seen <= Throttle - 1 + v.age
    BY <1>1, <1>2, <1>4, <2>1 DEF FlightFits, Younger
  <2>7. v.pc = "put" => v.left \in -v.age .. CacheTTL /\ VerdictFits(v.token, v.left)'
    BY <1>3, <1>4, <2>1 DEF FlightFits
  <2> QED
    BY <2>2, <2>3, <2>4, <2>5, <2>6, <2>7 DEF FlightFits
<1> QED
  BY <1>3, <1>4

\* What a step must see to, besides the types: a request that moves still fits, a
\* verdict that is cached fits, and a row whose request is let through was seen.
LEMMA StepKeeps ==
    ASSUME ClockInv, ClockTypes', LastFits', Younger,
           UNCHANGED <<due, revoked, overlapped>>, refused \subseteq refused',
           \A f \in Flights : flight'[f] = flight[f] \/ FlightFits(flight[f])',
           \A t \in Tokens : cache'[t] \in {cache[t], None} \/ VerdictFits(t, cache[t])',
           \A t \in Tokens : \/ accepted'[t] = accepted[t]
                             \/ /\ accepted'[t] = 0
                                /\ session'[t] # None /\ t \notin refused' => session'[t].seen <= Lag
    PROVE  ClockInv'
<1>1. /\ \A t \in Tokens, left \in Int : VerdictFits(t, left) => VerdictFits(t, left)'
      /\ \A v \in Flight : FlightFits(v) => FlightFits(v)'
  BY FindingsStay
<1>2. /\ Horizon \in Nat /\ CacheTTL \in Nat /\ None \notin Int /\ Lag \in Int
      /\ \A t \in Tokens : cache[t] # None => cache[t] \in Int
  <2>1. -Horizon .. CacheTTL \subseteq Int
    BY ClockAssumption
  <2> QED
    BY <2>1, ClockAssumption DEF ClockInv, ClockTypes, Lag
<1>3. ASSUME NEW t \in Tokens PROVE CacheFits(t)'
  BY <1>1, <1>2 DEF ClockInv, CacheFits
<1>4. ASSUME NEW f \in Flights PROVE FlightFits(flight[f])'
  <2>1. flight[f] \in Flight /\ FlightFits(flight[f])
    BY DEF ClockInv, ClockTypes
  <2>2. CASE flight'[f] = flight[f]
    <3>1. PICK v \in Flight : flight[f] = v /\ FlightFits(v)
      BY <2>1
    <3>2. FlightFits(v)'
      BY <1>1, <3>1
    <3>3. flight'[f] = v
      BY <2>2, <3>1
    <3> QED
      BY <3>2, <3>3 DEF FlightFits
  <2> QED
    BY <2>2
<1>5. ASSUME NEW t \in Tokens PROVE RowFits(t)'
  <2>1. session'[t] # None => /\ session[t] # None /\ session'[t].left = session[t].left
                              /\ session'[t].seen <= session[t].seen
    BY DEF Younger
  <2>2. session'[t] # None => session'[t].seen \in Int /\ session[t].seen \in Int
    BY <1>2, <2>1 DEF ClockInv, ClockTypes
  <2>3. accepted[t] # None => accepted[t] \in Int
    BY <1>2 DEF ClockInv, ClockTypes
  <2> QED
    BY <1>2, <2>1, <2>2, <2>3 DEF ClockInv, RowFits
<1> QED
  BY <1>3, <1>4, <1>5 DEF ClockInv

TimeoutTypes == timeouts # None => timeouts \in [abs: 0 .. Horizon - 1, left: Int, idle: Int]

\* One request moves; a touch, a refusal or a lost entry may go with it.
LEMMA MoveKeeps ==
    ASSUME ClockInv, NEW f \in Flights, NEW v \in Flight, Younger, TimeoutTypes',
           session' \in [Tokens -> [left: -Horizon .. Horizon, seen: 0 .. Horizon] \cup {None}],
           cache' \in [Tokens -> -Horizon .. CacheTTL \cup {None}],
           flight' = [flight EXCEPT ![f] = v], FlightFits(v)',
           \A t \in Tokens : cache'[t] \in {cache[t], None},
           UNCHANGED <<setting, due, accepted, revoked, overlapped, verdict>>, refused \subseteq refused'
    PROVE  ClockInv'
<1>1. ClockTypes'
  BY DEF ClockInv, ClockTypes, TimeoutTypes
<1>2. LastFits'
  BY DEF ClockInv, LastFits
<1>3. ASSUME NEW g \in Flights PROVE flight'[g] = flight[g] \/ FlightFits(flight[g])'
  <2>1. flight'[g] = IF g = f THEN v ELSE flight[g]
    BY DEF ClockInv, ClockTypes
  <2> QED
    BY <2>1 DEF FlightFits
<1> QED
  BY <1>1, <1>2, <1>3, StepKeeps

\* A request is let through, by a row or a verdict that a look-up found.
LEMMA AcceptKeeps ==
    ASSUME ClockInv, NEW t \in Tokens, Younger, Clock!Accept(t),
           session' \in [Tokens -> [left: -Horizon .. Horizon, seen: 0 .. Horizon] \cup {None}],
           cache' \in [Tokens -> -Horizon .. CacheTTL \cup {None}],
           flight' = flight \/ \E f \in Flights : flight' = [flight EXCEPT ![f] = Clock!Idle],
           \A s \in Tokens : cache'[s] \in {cache[s], None} \/ VerdictFits(s, cache[s])',
           UNCHANGED <<setting, timeouts>>,
           due[t] # None /\ due[t] >= -(CacheTTL + MaxFlight),
           revoked[t] # None => overlapped[t] /\ revoked[t] <= CacheTTL + MaxFlight,
           session'[t] # None /\ t \notin refused' => session'[t].seen <= Lag
    PROVE  ClockInv'
<1>1. 0 \in 0 .. Horizon
  BY ClockAssumption
<1>2. flight' \in [Flights -> Flight]
  BY IdleFlight DEF ClockInv, ClockTypes
<1>3. accepted' = [accepted EXCEPT ![t] = 0]
  BY DEF Clock!Accept
<1>4. accepted' \in [Tokens -> 0 .. Horizon \cup {None}]
  BY <1>1, <1>3 DEF ClockInv, ClockTypes
<1>5. ClockTypes'
  BY <1>2, <1>4 DEF Clock!Accept, ClockInv, ClockTypes
<1>6. LastFits'
  BY DEF Clock!Accept, LastFits
<1>7. ASSUME NEW g \in Flights PROVE flight'[g] = flight[g] \/ FlightFits(flight[g])'
  <2>1. FlightFits(Clock!Idle)'
    BY IdleFlight DEF FlightFits, FoundPcs
  <2>2. flight'[g] = flight[g] \/ flight'[g] = Clock!Idle
    BY DEF ClockInv, ClockTypes
  <2> QED
    BY <2>1, <2>2 DEF FlightFits
<1>8. ASSUME NEW s \in Tokens
      PROVE  \/ accepted'[s] = accepted[s]
             \/ /\ accepted'[s] = 0
                /\ session'[s] # None /\ s \notin refused' => session'[s].seen <= Lag
  BY <1>3 DEF ClockInv, ClockTypes
<1>9. UNCHANGED <<due, revoked, overlapped>> /\ refused \subseteq refused'
  BY DEF Clock!Accept
<1> QED
  BY <1>5, <1>6, <1>7, <1>8, <1>9, StepKeeps

\* Nothing happens to a row, or it is touched.
LEMMA TouchYounger ==
    ASSUME ClockInv, NEW t \in Tokens, NEW seen \in Int, Clock!Touch(t, seen),
           session[t] # None /\ t \notin refused => session[t].seen <= seen
    PROVE  /\ Younger
           /\ session' \in [Tokens -> [left: -Horizon .. Horizon, seen: 0 .. Horizon] \cup {None}]
           /\ session'[t] # None /\ t \notin refused => session'[t].seen <= Throttle - 1
<1> DEFINE Row == [left: -Horizon .. Horizon, seen: 0 .. Horizon]
<1>1. Throttle \in Nat \ {0} /\ None \notin Row /\ \A r \in Row : r.seen \in Nat /\ [r EXCEPT !.seen = 0] \in Row
  BY ClockAssumption
<1>2. session \in [Tokens -> Row \cup {None}]
  BY DEF ClockInv, ClockTypes
<1>3. CASE UNCHANGED session /\ (seen < Throttle \/ session[t] = None)
  <2>1. \A s \in Tokens : session[s] # None => session[s].seen \in Nat
    BY <1>1, <1>2
  <2>2. Younger
    BY <1>3, <2>1 DEF Younger
  <2> QED
    BY <1>1, <1>2, <1>3, <2>1, <2>2
<1>4. CASE session[t] # None /\ session' = [session EXCEPT ![t].seen = 0]
  <2> DEFINE r == [session[t] EXCEPT !.seen = 0]
  <2>1. r \in Row /\ r.seen = 0 /\ r.left = session[t].left /\ r # None /\ session[t].seen \in Nat
    BY <1>1, <1>2, <1>4
  <2>2. session' = [session EXCEPT ![t] = r]
    BY <1>4
  <2> HIDE DEF r
  <2>3. session' \in [Tokens -> Row \cup {None}] /\ session'[t] = r
    BY <1>2, <2>1, <2>2
  <2>4. \A s \in Tokens : session[s] # None => session[s].seen \in Nat
    BY <1>1, <1>2
  <2>5. \A s \in Tokens : session'[s] = IF s = t THEN r ELSE session[s]
    BY <1>2, <2>2
  <2> HIDE DEF Row
  <2>6. Younger
    BY <1>4, <2>1, <2>4, <2>5 DEF Younger
  <2> QED
    BY <1>1, <2>1, <2>3, <2>6 DEF Row
<1> QED
  BY <1>3, <1>4 DEF Clock!Touch

\* A row that stays is as young as it was.
LEMMA SameRows ==
    ASSUME ClockInv, UNCHANGED session
    PROVE  /\ Younger
           /\ session' \in [Tokens -> [left: -Horizon .. Horizon, seen: 0 .. Horizon] \cup {None}]
<1>1. \A r \in [left: -Horizon .. Horizon, seen: 0 .. Horizon] : r.seen \in Int
  BY ClockAssumption
<1>2. \A t \in Tokens : session[t] # None => session[t].seen \in Int
  BY <1>1 DEF ClockInv, ClockTypes
<1> QED
  BY <1>2 DEF ClockInv, ClockTypes, Younger

\* What is in the cache may go.
LEMMA EntryGoes ==
    ASSUME ClockInv, NEW t \in Tokens,
           cache' = cache \/ cache' = [cache EXCEPT ![t] = None]
    PROVE  /\ cache' \in [Tokens -> -Horizon .. CacheTTL \cup {None}]
           /\ \A s \in Tokens : cache'[s] \in {cache[s], None}
  BY DEF ClockInv, ClockTypes

\* A request begins: a handler of the panel, or ForwardAuth without an entry.
LEMMA BeginKeeps ==
    ASSUME ClockInv, NEW f \in Flights, NEW t \in Tokens, NEW pc \in {"panel", "miss", "evict"},
           Clock!Begin(f, pc, t), cache' = cache \/ cache' = [cache EXCEPT ![t] = None],
           UNCHANGED <<session, setting, timeouts, due, accepted, revoked, overlapped, refused, verdict>>
    PROVE  ClockInv'
<1> DEFINE w == [Clock!Idle EXCEPT !.pc = pc, !.token = t]
<1>1. PICK v \in Flight : v = w /\ v.pc = pc /\ v.token = t
  <2>1. w \in Flight /\ w.pc = pc /\ w.token = t
    BY IdleFlight DEF Flight
  <2> QED
    BY <2>1
<1>2. flight' = [flight EXCEPT ![f] = v]
  BY <1>1 DEF Clock!Begin
<1>3. FlightFits(v)'
  BY <1>1, ClockAssumption DEF FlightFits, FoundPcs
<1>4. TimeoutTypes'
  BY DEF ClockInv, ClockTypes, TimeoutTypes
<1> QED
  BY <1>2, <1>3, <1>4, SameRows, EntryGoes, MoveKeeps

\* A request ends without an answer of its session's.
LEMMA EndKeeps ==
    ASSUME ClockInv, NEW f \in Flights, Clock!End(f), TimeoutTypes', refused \subseteq refused',
           UNCHANGED <<session, setting, due, accepted, revoked, overlapped, verdict>>,
           cache' = cache \/ \E t \in Tokens : cache' = [cache EXCEPT ![t] = None]
    PROVE  ClockInv'
<1>1. PICK v \in Flight : v = Clock!Idle /\ v.pc = "idle" /\ v.token = None
  BY IdleFlight
<1>2. flight' = [flight EXCEPT ![f] = v]
  BY <1>1 DEF Clock!End
<1>3. FlightFits(v)'
  BY <1>1, ClockAssumption DEF FlightFits, FoundPcs
<1>4. /\ cache' \in [Tokens -> -Horizon .. CacheTTL \cup {None}]
      /\ \A s \in Tokens : cache'[s] \in {cache[s], None}
  BY DEF ClockInv, ClockTypes
<1> QED
  BY <1>2, <1>3, <1>4, SameRows, MoveKeeps

\* A look-up refuses its session, and the request ends.
LEMMA RefuseKeeps ==
    ASSUME ClockInv, NEW f \in Flights, Clock!End(f), Clock!Refuse(flight[f].token), TimeoutTypes',
           UNCHANGED <<session, cache, setting>>
    PROVE  ClockInv'
  BY EndKeeps DEF Clock!Refuse

\* What a look-up that finds the session knows.
LEMMA FoundNow ==
    ASSUME ClockInv, NEW f \in Flights, flight[f].pc # "idle", NEW idle \in Int,
           Clock!Lookup(flight[f].token, idle)
    PROVE  /\ flight[f].token \in Tokens /\ session[flight[f].token] # None
           /\ session[flight[f].token].seen \in 0 .. Horizon
           /\ FoundFits(flight[f].token, flight[f].age)
<1> DEFINE t == flight[f].token
<1>1. flight[f] \in Flight /\ FlightFits(flight[f])
  BY DEF ClockInv, ClockTypes
<1>2. t \in Tokens /\ flight[f].age \in Nat
  BY <1>1, ClockAssumption DEF Flight, FlightFits
<1> HIDE DEF t
<1>3. session[t] # None /\ session[t].left >= 0
  BY DEF Clock!Lookup, t
<1>4. session[t] \in [left: -Horizon .. Horizon, seen: 0 .. Horizon]
  BY <1>2, <1>3 DEF ClockInv, ClockTypes
<1>5. RowFits(t)
  BY <1>2 DEF ClockInv
<1>6. due[t] = session[t].left /\ revoked[t] = None /\ session[t].left \in Int /\ None \notin Int
  BY <1>3, <1>4, <1>5, ClockAssumption DEF RowFits
<1>7. FoundFits(t, flight[f].age)
  BY <1>2, <1>3, <1>6 DEF FoundFits
<1> QED
  BY <1>2, <1>3, <1>4, <1>7 DEF t

\* What a read of the timeouts keeps.
LEMMA TimeoutsTyped == ASSUME ClockInv PROVE Clock!GetTimeouts => TimeoutTypes'
  BY CurrentTyped DEF ClockInv, Clock!GetTimeouts, TimeoutTypes

\* Authenticate's look-up.
LEMMA PanelLookupKeeps == ASSUME ClockInv, NEW f \in Flights, Clock!PanelLookup(f) PROVE ClockInv'
<1> DEFINE t == flight[f].token
<1>1. TimeoutTypes' /\ Clock!Current.idle \in Int
  BY TimeoutsTyped, CurrentTyped DEF Clock!PanelLookup, ClockInv
<1>2. flight[f] \in Flight /\ FlightFits(flight[f]) /\ flight[f].pc = "panel"
  BY DEF ClockInv, ClockTypes, Clock!PanelLookup, Clock!At
<1>3. CASE Clock!Lookup(t, Clock!Current.idle)
  <2>1. /\ t \in Tokens /\ session[t].seen \in 0 .. Horizon
        /\ FoundFits(t, flight[f].age)
    BY <1>1, <1>2, <1>3, FoundNow
  <2>2. PICK v \in Flight : /\ v = [flight[f] EXCEPT !.pc = "serve", !.seen = session[t].seen]
                            /\ v.pc = "serve" /\ v.token = t /\ v.age = flight[f].age
                            /\ v.seen = session[t].seen
    <3> DEFINE w == [flight[f] EXCEPT !.pc = "serve", !.seen = session[t].seen]
    <3>1. /\ w \in Flight
          /\ w.pc = "serve" /\ w.token = t /\ w.age = flight[f].age /\ w.seen = session[t].seen
      BY <1>2, <2>1 DEF Flight, FoundPcs
    <3> QED
      BY <3>1
  <2>3. flight' = [flight EXCEPT ![f] = v]
    BY <1>3, <2>2 DEF Clock!PanelLookup, Clock!Token
  <2>4. UNCHANGED <<session, cache, setting, due, accepted, revoked, overlapped, refused, verdict>>
    BY <1>3 DEF Clock!PanelLookup, Clock!Token, Clock!histories
  <2>5. FlightFits(v)'
    <3>1. v.token \in Tokens /\ FoundFits(v.token, v.age)
      BY <2>1, <2>2
    <3>2. session[v.token].seen <= v.seen /\ v.token # None
      BY <2>1, <2>2, ClockAssumption
    <3> QED
      BY <2>2, <2>4, <3>1, <3>2 DEF FlightFits, FoundPcs, FoundFits
  <2>6. cache' \in [Tokens -> -Horizon .. CacheTTL \cup {None}]
    BY <2>4 DEF ClockInv, ClockTypes
  <2> QED
    BY <1>1, <2>3, <2>4, <2>5, <2>6, SameRows, MoveKeeps
<1>4. CASE ~Clock!Lookup(t, Clock!Current.idle)
  BY <1>1, <1>4, RefuseKeeps DEF Clock!PanelLookup, Clock!Token
<1> QED
  BY <1>3, <1>4

\* The request goes on behind its answer.
LEMMA PanelServeKeeps == ASSUME ClockInv, NEW f \in Flights, Clock!PanelServe(f) PROVE ClockInv'
<1>1. PICK v \in Flight : flight[f] = v /\ v.pc = "serve" /\ FlightFits(v)
  BY DEF ClockInv, ClockTypes, Clock!PanelServe, Clock!At
<1>2. /\ v.token \in Tokens /\ v.seen \in Int /\ FoundFits(v.token, v.age)
      /\ session[v.token] # None /\ v.token \notin refused => session[v.token].seen <= v.seen
  BY <1>1, ClockAssumption DEF FlightFits, FoundPcs, Flight
<1>3. /\ Clock!Touch(v.token, v.seen) /\ Clock!Accept(v.token)
      /\ flight' = [flight EXCEPT ![f] = Clock!Idle] /\ UNCHANGED <<cache, setting, timeouts>>
  BY <1>1 DEF Clock!PanelServe, Clock!Token, Clock!End
<1>4. /\ Younger
      /\ session' \in [Tokens -> [left: -Horizon .. Horizon, seen: 0 .. Horizon] \cup {None}]
      /\ session'[v.token] # None /\ v.token \notin refused => session'[v.token].seen <= Throttle - 1
  BY <1>2, <1>3, TouchYounger
<1>5. /\ CacheTTL \in Nat /\ MaxFlight \in Nat /\ Throttle \in Nat /\ v.age \in 0 .. MaxFlight
      /\ due[v.token] # None => due[v.token] \in Int
      /\ revoked[v.token] # None => revoked[v.token] \in 0 .. Horizon
  BY <1>2, ClockAssumption DEF Flight, ClockInv, ClockTypes
<1>6. /\ due[v.token] # None /\ due[v.token] >= -(CacheTTL + MaxFlight)
      /\ revoked[v.token] # None => overlapped[v.token] /\ revoked[v.token] <= CacheTTL + MaxFlight
  BY <1>2, <1>5 DEF FoundFits
<1>7. Throttle - 1 <= Lag /\ Lag \in Int
  BY <1>5 DEF Lag
<1>8. session'[v.token] # None /\ v.token \notin refused' => session'[v.token].seen <= Lag
  <2>1. session'[v.token] # None => session'[v.token].seen \in 0 .. Horizon
    BY <1>2, <1>4
  <2>2. refused' = refused
    BY <1>3 DEF Clock!Accept
  <2> QED
    BY <1>4, <1>5, <1>7, <2>1, <2>2, ClockAssumption
<1>9. /\ cache' \in [Tokens -> -Horizon .. CacheTTL \cup {None}]
      /\ \A s \in Tokens : cache'[s] \in {cache[s], None}
  BY <1>3 DEF ClockInv, ClockTypes
<1> QED
  BY <1>2, <1>3, <1>4, <1>6, <1>8, <1>9, AcceptKeeps

\* An entry that has not run out is the answer; without it a request begins.
LEMMA CacheGetKeeps ==
    ASSUME ClockInv, NEW f \in Flights, NEW t \in Tokens, Clock!CacheGet(f, t) PROVE ClockInv'
<1>1. UNCHANGED <<session, setting, timeouts>>
  BY DEF Clock!CacheGet
<1>2. CASE cache[t] # None /\ cache[t] >= 0
  <2>1. Clock!Accept(t) /\ UNCHANGED <<cache, flight>>
    BY <1>2 DEF Clock!CacheGet
  <2>2. /\ cache[t] \in 0 .. CacheTTL /\ VerdictFits(t, cache[t])
        /\ MaxFlight \in Nat /\ CacheTTL \in Nat /\ Lag \in Int
    BY <1>2, ClockAssumption DEF ClockInv, ClockTypes, CacheFits, Lag
  <2>3. /\ due[t] # None => due[t] \in Int
        /\ revoked[t] # None => revoked[t] \in 0 .. Horizon
        /\ session[t] # None => session[t].seen \in 0 .. Horizon
    BY DEF ClockInv, ClockTypes
  <2>4. /\ due[t] # None /\ due[t] >= -(CacheTTL + MaxFlight)
        /\ revoked[t] # None => overlapped[t] /\ revoked[t] <= CacheTTL + MaxFlight
    BY <2>2, <2>3, ClockAssumption DEF VerdictFits
  <2>5. session'[t] # None /\ t \notin refused' => session'[t].seen <= Lag
    BY <1>1, <2>1, <2>2, <2>3, ClockAssumption DEF VerdictFits, Clock!Accept
  <2>6. /\ cache' \in [Tokens -> -Horizon .. CacheTTL \cup {None}]
        /\ \A s \in Tokens : cache'[s] \in {cache[s], None}
    BY <2>1 DEF ClockInv, ClockTypes
  <2> QED
    BY <1>1, <2>1, <2>4, <2>5, <2>6, SameRows, AcceptKeeps
<1>3. CASE ~(cache[t] # None /\ cache[t] >= 0)
  BY <1>1, <1>3, BeginKeeps DEF Clock!CacheGet, Clock!histories
<1> QED
  BY <1>2, <1>3

\* One request moves on, and nothing else changes but what a look-up refuses.
LEMMA ForwardMoves ==
    ASSUME ClockInv, NEW f \in Flights, NEW v \in Flight, flight' = [flight EXCEPT ![f] = v],
           FlightFits(v)', TimeoutTypes', refused \subseteq refused',
           UNCHANGED <<session, cache, setting, due, accepted, revoked, overlapped, verdict>>
    PROVE  ClockInv'
<1>1. /\ cache' \in [Tokens -> -Horizon .. CacheTTL \cup {None}]
      /\ \A s \in Tokens : cache'[s] \in {cache[s], None}
  BY DEF ClockInv, ClockTypes
<1> QED
  BY <1>1, SameRows, MoveKeeps

\* ForwardAuth's look-up.
LEMMA ForwardLookupKeeps == ASSUME ClockInv, NEW f \in Flights, Clock!ForwardLookup(f) PROVE ClockInv'
<1>1. TimeoutTypes' /\ Clock!Current.idle \in Int
  BY TimeoutsTyped, CurrentTyped DEF Clock!ForwardLookup, ClockInv
<1>2. flight[f] \in Flight /\ flight[f].pc = "miss"
  BY DEF ClockInv, ClockTypes, Clock!ForwardLookup, Clock!At
<1>3. CASE Clock!Lookup(flight[f].token, Clock!Current.idle)
  <2>1. flight[f].token \in Tokens /\ FoundFits(flight[f].token, flight[f].age)
    BY <1>1, <1>2, <1>3, FoundNow
  <2> DEFINE w == [flight[f] EXCEPT !.pc = "again", !.idle = Clock!Current.idle]
  <2>2. PICK v \in Flight : /\ v = w /\ v.pc = "again" /\ v.token \in Tokens
                            /\ FoundFits(v.token, v.age)
    <3>1. w \in Flight /\ w.pc = "again" /\ w.token = flight[f].token /\ w.age = flight[f].age
      BY <1>1, <1>2 DEF Flight, FoundPcs
    <3> HIDE DEF w
    <3> QED
      BY <2>1, <3>1
  <2>3. flight' = [flight EXCEPT ![f] = v]
    BY <1>3, <2>2 DEF Clock!ForwardLookup, Clock!Token
  <2>4. UNCHANGED <<session, cache, setting, due, accepted, revoked, overlapped, refused, verdict>>
    BY <1>3 DEF Clock!ForwardLookup, Clock!Token, Clock!histories
  <2> HIDE DEF w
  <2>5. FlightFits(v)'
    BY <2>2, <2>4, ClockAssumption DEF FlightFits, FoundPcs, FoundFits
  <2> QED
    BY <1>1, <2>3, <2>4, <2>5, ForwardMoves
<1>4. CASE ~Clock!Lookup(flight[f].token, Clock!Current.idle)
  BY <1>1, <1>4, RefuseKeeps DEF Clock!ForwardLookup, Clock!Token
<1> QED
  BY <1>3, <1>4

\* The second look-up finds nothing, and the request goes on.
LEMMA AgainRefused ==
    ASSUME ClockInv, NEW f \in Flights, Clock!At(f, "again"), Clock!Goto(f, "record"),
           Clock!Refuse(flight[f].token), UNCHANGED <<session, cache, setting, timeouts>>
    PROVE  ClockInv'
<1> DEFINE w == [flight[f] EXCEPT !.pc = "record"]
<1>1. flight[f] \in Flight /\ flight[f].pc = "again" /\ FlightFits(flight[f]) /\ TimeoutTypes'
  BY DEF ClockInv, ClockTypes, TimeoutTypes, Clock!At
<1>2. PICK v \in Flight : /\ v = w /\ v.pc = "record" /\ v.token \in Tokens
                          /\ v.token = flight[f].token /\ FoundFits(v.token, v.age)
  <2>1. flight[f].token \in Tokens /\ FoundFits(flight[f].token, flight[f].age)
    BY <1>1 DEF Flight, FoundPcs, FlightFits
  <2>2. w \in Flight /\ w.pc = "record" /\ w.token = flight[f].token /\ w.age = flight[f].age
    BY <1>1 DEF Flight, FoundPcs
  <2> HIDE DEF w
  <2> QED
    BY <2>1, <2>2
<1>3. flight' = [flight EXCEPT ![f] = v]
  BY <1>2 DEF Clock!Goto
<1>4. /\ UNCHANGED <<due, accepted, revoked, overlapped, verdict>>
      /\ refused' = refused \cup {v.token}
  BY <1>2 DEF Clock!Refuse
<1> HIDE DEF w
<1>5. FlightFits(v)'
  BY <1>2, <1>4, ClockAssumption DEF FlightFits, FoundPcs, FoundFits
<1> QED
  BY <1>1, <1>3, <1>4, <1>5, ForwardMoves

\* Or it fails.
LEMMA AgainFailsKeeps == ASSUME ClockInv, NEW f \in Flights, Clock!AgainFails(f) PROVE ClockInv'
  BY AgainRefused DEF Clock!AgainFails, Clock!Token

\* The UPDATE of a touch fails: the session is no longer among those of which the
\* last-seen time is known to keep up.
LEMMA TouchFailsKeeps == ASSUME ClockInv, NEW f \in Flights, Clock!TouchFails(f) PROVE ClockInv'
<1> DEFINE w == [flight[f] EXCEPT !.seen = 0]
<1>1. /\ flight[f] \in Flight /\ flight[f].pc \in {"serve", "touch"} /\ FlightFits(flight[f])
      /\ TimeoutTypes'
  BY DEF ClockInv, ClockTypes, TimeoutTypes, Clock!TouchFails, Clock!At
<1>2. PICK v \in Flight : /\ v = w /\ v.pc \in {"serve", "touch"} /\ v.token \in Tokens
                          /\ v.token = flight[f].token /\ FoundFits(v.token, v.age)
  <2>1. flight[f].token \in Tokens /\ FoundFits(flight[f].token, flight[f].age)
    BY <1>1 DEF Flight, FoundPcs, FlightFits
  <2>2. /\ w \in Flight /\ w.pc = flight[f].pc /\ w.token = flight[f].token
        /\ w.age = flight[f].age
    <3>1. 0 \in 0 .. Horizon
      BY ClockAssumption
    <3> QED
      BY <1>1, <3>1 DEF Flight
  <2> HIDE DEF w
  <2> QED
    BY <1>1, <2>1, <2>2
<1>3. flight' = [flight EXCEPT ![f] = v]
  BY <1>2 DEF Clock!TouchFails
<1>4. /\ UNCHANGED <<session, cache, setting, timeouts, due, accepted, revoked, overlapped, verdict>>
      /\ refused' = refused \cup {v.token}
  BY <1>2 DEF Clock!TouchFails, Clock!Refuse, Clock!Token
<1> HIDE DEF w
<1>5. FlightFits(v)'
  BY <1>2, <1>4, ClockAssumption DEF FlightFits, FoundPcs, FoundFits
<1> QED
  BY <1>1, <1>3, <1>4, <1>5, ForwardMoves

\* The query of a first look-up fails.
LEMMA LookupFailsKeeps == ASSUME ClockInv, NEW f \in Flights, Clock!LookupFails(f) PROVE ClockInv'
<1>1. TimeoutTypes'
  BY TimeoutsTyped DEF Clock!LookupFails
<1> QED
  BY <1>1, EndKeeps DEF Clock!LookupFails, Clock!histories

\* A logout whose DELETE failed evicts the cache entry all the same.
LEMMA EvictKeeps == ASSUME ClockInv, NEW f \in Flights, Clock!Evict(f) PROVE ClockInv'
<1>1. flight[f] \in Flight /\ FlightFits(flight[f]) /\ flight[f].pc = "evict" /\ TimeoutTypes'
  BY DEF ClockInv, ClockTypes, TimeoutTypes, Clock!Evict, Clock!At
<1>2. flight[f].token \in Tokens
  BY <1>1 DEF Flight, FlightFits
<1> QED
  BY <1>1, <1>2, EndKeeps DEF Clock!Evict, Clock!Token, Clock!histories

\* A setting cannot be read, and the default is kept in its place.
LEMMA ReadFailsKeeps ==
    ASSUME ClockInv, NEW abs, NEW idle, Clock!ReadFails(abs, idle)
    PROVE  ClockInv'
<1>1. abs \in 0 .. Horizon - 1 /\ idle \in 0 .. Horizon - 1
  BY ClockAssumption DEF ClockInv, ClockTypes, Clock!ReadFails
<1>2. /\ timeouts' = Clock!Kept(abs, idle)
      /\ UNCHANGED <<session, cache, setting, flight, due, accepted, revoked, overlapped, refused, verdict>>
  BY DEF Clock!ReadFails, Clock!histories
<1>3. timeouts' \in [abs: 0 .. Horizon - 1, left: Int, idle: Int]
  BY <1>1, <1>2, KeptTyped
<1>4. ClockTypes' /\ LastFits'
  BY <1>2, <1>3 DEF ClockInv, ClockTypes, LastFits
<1> QED
  BY <1>2, <1>4, SameRows, StepKeeps

\* The second look-up, which only Touch needs.
LEMMA ForwardAgainKeeps == ASSUME ClockInv, NEW f \in Flights, Clock!ForwardAgain(f) PROVE ClockInv'
<1>1. /\ flight[f] \in Flight /\ flight[f].pc = "again" /\ FlightFits(flight[f])
      /\ TimeoutTypes' /\ flight[f].idle \in Int
  BY DEF ClockInv, ClockTypes, TimeoutTypes, Clock!ForwardAgain, Clock!At, Flight
<1>2. CASE Clock!Lookup(flight[f].token, flight[f].idle)
  <2> DEFINE seen == session[flight[f].token].seen
             w == [flight[f] EXCEPT !.pc = "touch", !.seen = seen]
  <2>1. /\ flight[f].token \in Tokens /\ seen \in 0 .. Horizon
        /\ FoundFits(flight[f].token, flight[f].age)
    BY <1>1, <1>2, FoundNow
  <2>2. PICK v \in Flight : /\ v = w /\ v.pc = "touch" /\ v.token \in Tokens
                            /\ FoundFits(v.token, v.age) /\ session[v.token].seen <= v.seen
    <3>1. seen <= seen
      BY <2>1, ClockAssumption
    <3>2. /\ w \in Flight /\ w.pc = "touch" /\ w.token = flight[f].token /\ w.age = flight[f].age
          /\ session[w.token].seen <= w.seen
      BY <1>1, <2>1, <3>1 DEF Flight, FoundPcs
    <3> HIDE DEF w, seen
    <3> QED
      BY <2>1, <3>2
  <2>3. flight' = [flight EXCEPT ![f] = v]
    BY <1>2, <2>2 DEF Clock!ForwardAgain, Clock!Token
  <2>4. UNCHANGED <<session, cache, setting, due, accepted, revoked, overlapped, refused, verdict>>
    BY <1>2 DEF Clock!ForwardAgain, Clock!Token, Clock!histories
  <2> HIDE DEF w, seen
  <2>5. FlightFits(v)'
    BY <2>2, <2>4, ClockAssumption DEF FlightFits, FoundPcs, FoundFits
  <2> QED
    BY <1>1, <2>3, <2>4, <2>5, ForwardMoves
<1>3. CASE ~Clock!Lookup(flight[f].token, flight[f].idle)
  BY <1>3, AgainRefused DEF Clock!ForwardAgain, Clock!Token
<1> QED
  BY <1>2, <1>3

\* ForwardAuth's touch, of the row as the second look-up returned it.
LEMMA ForwardTouchKeeps == ASSUME ClockInv, NEW f \in Flights, Clock!ForwardTouch(f) PROVE ClockInv'
<1>1. PICK u \in Flight : flight[f] = u /\ u.pc = "touch" /\ FlightFits(u)
  BY DEF ClockInv, ClockTypes, Clock!ForwardTouch, Clock!At
<1>2. /\ u.token \in Tokens /\ u.seen \in Int /\ FoundFits(u.token, u.age)
      /\ session[u.token] # None /\ u.token \notin refused => session[u.token].seen <= u.seen
  BY <1>1, ClockAssumption DEF FlightFits, FoundPcs, Flight
<1>3. /\ Clock!Touch(u.token, u.seen) /\ TimeoutTypes'
      /\ UNCHANGED <<cache, setting, due, accepted, revoked, overlapped, refused, verdict>>
  BY <1>1 DEF Clock!ForwardTouch, Clock!Token, Clock!histories, ClockInv, ClockTypes, TimeoutTypes
<1>4. /\ Younger
      /\ session' \in [Tokens -> [left: -Horizon .. Horizon, seen: 0 .. Horizon] \cup {None}]
      /\ session'[u.token] # None /\ u.token \notin refused => session'[u.token].seen <= Throttle - 1
  BY <1>2, <1>3, TouchYounger
<1> DEFINE w == [u EXCEPT !.pc = "record"]
<1>5. PICK v \in Flight : v = w /\ v.pc = "record" /\ v.token = u.token /\ v.age = u.age
  <2>1. w \in Flight /\ w.pc = "record" /\ w.token = u.token /\ w.age = u.age
    BY <1>1 DEF Flight, FoundPcs
  <2> HIDE DEF w
  <2> QED
    BY <2>1
<1>6. flight' = [flight EXCEPT ![f] = v]
  BY <1>1, <1>5 DEF Clock!ForwardTouch, Clock!Goto
<1> HIDE DEF w
<1>7. FlightFits(v)'
  <2>1. session'[v.token] # None /\ v.token \notin refused => session'[v.token].seen <= Throttle - 1 + v.age
    <3>1. v.age \in Nat /\ Throttle \in Int
      BY ClockAssumption DEF Flight
    <3>2. session'[v.token] # None => session'[v.token].seen \in 0 .. Horizon
      BY <1>2, <1>4, <1>5
    <3> QED
      BY <1>4, <1>5, <3>1, <3>2, ClockAssumption
  <2>2. FoundFits(v.token, v.age)' /\ v.token # None
    BY <1>2, <1>3, <1>5, ClockAssumption DEF FoundFits
  <2> QED
    BY <1>3, <1>5, <2>1, <2>2 DEF FlightFits, FoundPcs
<1>8. /\ cache' \in [Tokens -> -Horizon .. CacheTTL \cup {None}]
      /\ \A s \in Tokens : cache'[s] \in {cache[s], None}
  BY <1>3 DEF ClockInv, ClockTypes
<1> QED
  BY <1>3, <1>4, <1>6, <1>7, <1>8, MoveKeeps

\* The record of the verdict is made: from here its life counts.
LEMMA ForwardRecordKeeps == ASSUME ClockInv, NEW f \in Flights, Clock!ForwardRecord(f) PROVE ClockInv'
<1>1. PICK u \in Flight : flight[f] = u /\ u.pc = "record" /\ FlightFits(u)
  BY DEF ClockInv, ClockTypes, Clock!ForwardRecord, Clock!At
<1>2. /\ u.token \in Tokens /\ FoundFits(u.token, u.age) /\ u.age \in 0 .. MaxFlight
      /\ session[u.token] # None /\ u.token \notin refused => session[u.token].seen <= Throttle - 1 + u.age
  BY <1>1, ClockAssumption DEF FlightFits, FoundPcs, Flight
<1>3. /\ TimeoutTypes'
      /\ UNCHANGED <<session, cache, setting, due, accepted, revoked, overlapped, refused, verdict>>
  BY DEF Clock!ForwardRecord, Clock!histories, ClockInv, ClockTypes, TimeoutTypes
<1>4. CacheTTL \in Nat /\ MaxFlight \in Nat /\ Throttle \in Nat /\ Horizon \in Nat /\ None \notin Tokens
  BY ClockAssumption
<1> DEFINE w == [u EXCEPT !.pc = "put", !.left = CacheTTL]
<1>5. PICK v \in Flight : /\ v = w /\ v.pc = "put" /\ v.token = u.token /\ v.age = u.age
                          /\ v.left = CacheTTL
  <2> DEFINE x == [u EXCEPT !.pc = "put"]
  <2>1. x \in Flight /\ x.pc = "put" /\ x.token = u.token /\ x.age = u.age
    BY DEF Flight, FoundPcs
  <2>2. w = [x EXCEPT !.left = CacheTTL] /\ CacheTTL \in Int
    BY <1>4
  <2> HIDE DEF w, x
  <2>3. w \in Flight /\ w.pc = "put" /\ w.token = u.token /\ w.age = u.age /\ w.left = CacheTTL
    BY <2>1, <2>2 DEF Flight
  <2> QED
    BY <2>3
<1>6. flight' = [flight EXCEPT ![f] = v]
  BY <1>1, <1>5 DEF Clock!ForwardRecord
<1> HIDE DEF w
<1>7. /\ due[u.token] # None => due[u.token] \in Int
      /\ revoked[u.token] # None => revoked[u.token] \in 0 .. Horizon
      /\ session[u.token] # None => session[u.token].seen \in 0 .. Horizon
  BY <1>2 DEF ClockInv, ClockTypes
<1>8. VerdictFits(u.token, CacheTTL)
  BY <1>2, <1>4, <1>7 DEF VerdictFits, FoundFits, Lag
<1>9. FlightFits(v)'
  <2>1. VerdictFits(v.token, v.left)'
    BY <1>3, <1>5, <1>8 DEF VerdictFits
  <2>2. FoundFits(v.token, v.age)' /\ v.token # None /\ v.left \in -v.age .. CacheTTL
    BY <1>2, <1>3, <1>4, <1>5 DEF FoundFits
  <2>3. session[v.token] # None /\ v.token \notin refused => session[v.token].seen <= Throttle - 1 + v.age
    BY <1>2, <1>5
  <2> QED
    BY <1>3, <1>5, <2>1, <2>2, <2>3 DEF FlightFits, FoundPcs
<1> QED
  BY <1>3, <1>6, <1>9, ForwardMoves

\* The verdict is stored and the request let through.
LEMMA ForwardPutKeeps == ASSUME ClockInv, NEW f \in Flights, Clock!ForwardPut(f) PROVE ClockInv'
<1>1. PICK u \in Flight : flight[f] = u /\ u.pc = "put" /\ FlightFits(u)
  BY DEF ClockInv, ClockTypes, Clock!ForwardPut, Clock!At
<1>2. /\ u.token \in Tokens /\ FoundFits(u.token, u.age) /\ u.age \in 0 .. MaxFlight
      /\ u.left \in -u.age .. CacheTTL /\ VerdictFits(u.token, u.left)
  BY <1>1, ClockAssumption DEF FlightFits, FoundPcs, Flight
<1>3. /\ cache' = [cache EXCEPT ![u.token] = u.left] /\ Clock!Accept(u.token)
      /\ flight' = [flight EXCEPT ![f] = Clock!Idle] /\ UNCHANGED <<session, setting, timeouts>>
  BY <1>1 DEF Clock!ForwardPut, Clock!Token, Clock!End
<1>4. CacheTTL \in Nat /\ MaxFlight \in 0 .. Horizon /\ Throttle \in Nat \ {0} /\ Horizon \in Nat
  BY ClockAssumption
<1>5. u.left \in -Horizon .. CacheTTL
  BY <1>2, <1>4
<1>6. cache' \in [Tokens -> -Horizon .. CacheTTL \cup {None}]
  BY <1>3, <1>5 DEF ClockInv, ClockTypes
<1>7. \A s \in Tokens : cache'[s] \in {cache[s], None} \/ VerdictFits(s, cache[s])'
  <2>1. \A s \in Tokens : cache'[s] = IF s = u.token THEN u.left ELSE cache[s]
    BY <1>3 DEF ClockInv, ClockTypes
  <2>2. VerdictFits(u.token, u.left)'
    BY <1>2, <1>3 DEF VerdictFits, Clock!Accept
  <2> QED
    BY <2>1, <2>2 DEF VerdictFits
<1>8. /\ due[u.token] # None => due[u.token] \in Int
      /\ revoked[u.token] # None => revoked[u.token] \in 0 .. Horizon
      /\ session[u.token] # None => session[u.token].seen \in 0 .. Horizon
  BY <1>2 DEF ClockInv, ClockTypes
<1>9. /\ due[u.token] # None /\ due[u.token] >= -(CacheTTL + MaxFlight)
      /\ revoked[u.token] # None => overlapped[u.token] /\ revoked[u.token] <= CacheTTL + MaxFlight
  BY <1>2, <1>4, <1>8 DEF FoundFits
<1>10. session'[u.token] # None /\ u.token \notin refused' => session'[u.token].seen <= Lag
  <2>1. refused' = refused
    BY <1>3 DEF Clock!Accept
  <2>2. session[u.token] # None /\ u.token \notin refused => session[u.token].seen <= Throttle - 1 + u.age
    BY <1>1 DEF FlightFits
  <2> QED
    BY <1>2, <1>3, <1>4, <1>8, <2>1, <2>2 DEF Lag
<1> QED
  BY <1>2, <1>3, <1>6, <1>7, <1>9, <1>10, SameRows, AcceptKeeps

\* An administrator edits the timeouts.
LEMMA PutTimeoutsKeeps == ASSUME ClockInv, NEW w \in Timeouts, Clock!PutTimeouts(w) PROVE ClockInv'
<1>1. /\ setting' = w
      /\ UNCHANGED <<session, cache, timeouts, flight, due, accepted, revoked, overlapped, refused, verdict>>
  BY DEF Clock!PutTimeouts, Clock!histories
<1>2. ClockTypes' /\ LastFits'
  BY <1>1 DEF ClockInv, ClockTypes, LastFits
<1> QED
  BY <1>1, <1>2, SameRows, StepKeeps

\* Entries that have run out are dropped.
LEMMA SweepCacheKeeps == ASSUME ClockInv, Clock!SweepCache PROVE ClockInv'
<1>1. UNCHANGED <<session, setting, timeouts, flight, due, accepted, revoked, overlapped, refused, verdict>>
  BY DEF Clock!SweepCache, Clock!histories
<1>2. /\ cache' \in [Tokens -> -Horizon .. CacheTTL \cup {None}]
      /\ \A t \in Tokens : cache'[t] \in {cache[t], None}
  BY DEF ClockInv, ClockTypes, Clock!SweepCache
<1>3. ClockTypes' /\ LastFits'
  BY <1>1, <1>2 DEF ClockInv, ClockTypes, LastFits
<1> QED
  BY <1>1, <1>2, <1>3, SameRows, StepKeeps

\* The process starts again, and what it kept in memory is gone.
LEMMA RestartKeeps == ASSUME ClockInv, Clock!Restart PROVE ClockInv'
<1>1. /\ UNCHANGED <<session, setting, due, accepted, revoked, overlapped, refused, verdict>>
      /\ timeouts' = None /\ cache' = [t \in Tokens |-> None]
      /\ flight' = [f \in Flights |-> Clock!Idle]
  BY DEF Clock!Restart, Clock!histories
<1>2. ClockTypes' /\ LastFits'
  BY <1>1, IdleFlight DEF ClockInv, ClockTypes, LastFits
<1>3. FlightFits(Clock!Idle)'
  BY IdleFlight DEF FlightFits, FoundPcs
<1>4. \A f \in Flights : FlightFits(flight[f])'
  <2>1. \A f \in Flights : flight'[f] = Clock!Idle
    BY <1>1
  <2> QED
    BY <1>3, <2>1 DEF FlightFits
<1>5. \A t \in Tokens : cache'[t] = None
  BY <1>1
<1> QED
  BY <1>1, <1>2, <1>4, <1>5, SameRows, StepKeeps

\* A session is created, for good credentials: no request has its token yet.
LEMMA LoginKeeps == ASSUME ClockInv, NEW t \in Tokens, Clock!Login(t) PROVE ClockInv'
<1>1. /\ session[t] = None /\ due[t] = None
      /\ UNCHANGED <<cache, setting, flight, revoked, overlapped, refused, verdict>>
  BY DEF Clock!Login
<1>2. PICK abs \in 0 .. Horizon - 1 : Clock!Current.abs = abs
  BY CurrentTyped DEF ClockInv
<1>3. PICK r \in [left: -Horizon .. Horizon, seen: 0 .. Horizon] :
          r = [left |-> Clock!Current.abs, seen |-> 0] /\ r.left = abs /\ r.seen = 0
  <2> DEFINE w == [left |-> abs, seen |-> 0]
  <2>1. abs \in -Horizon .. Horizon /\ 0 \in 0 .. Horizon
    BY <1>2, ClockAssumption
  <2>2. w \in [left: -Horizon .. Horizon, seen: 0 .. Horizon] /\ w.left = abs /\ w.seen = 0
    BY <2>1
  <2>3. w = [left |-> Clock!Current.abs, seen |-> 0]
    BY <1>2
  <2> HIDE DEF w
  <2> QED
    BY <2>2, <2>3
<1>4. /\ session' = [session EXCEPT ![t] = r] /\ due' = [due EXCEPT ![t] = abs]
      /\ accepted' = [accepted EXCEPT ![t] = 0] /\ TimeoutTypes'
  BY <1>2, <1>3, TimeoutsTyped DEF Clock!Login
<1>5. Horizon \in Nat /\ abs \in Int /\ 0 \in 0 .. Horizon /\ Lag \in Nat /\ None \notin Int /\ r # None
  BY <1>2, <1>3, ClockAssumption DEF Lag
<1>6. ClockTypes'
  <2>1. session' \in [Tokens -> [left: -Horizon .. Horizon, seen: 0 .. Horizon] \cup {None}]
    BY <1>3, <1>4 DEF ClockInv, ClockTypes
  <2>2. due' \in [Tokens -> Int \cup {None}] /\ accepted' \in [Tokens -> 0 .. Horizon \cup {None}]
    BY <1>4, <1>5 DEF ClockInv, ClockTypes
  <2> QED
    BY <1>1, <1>4, <2>1, <2>2 DEF ClockInv, ClockTypes, TimeoutTypes
<1>7. LastFits'
  BY <1>1 DEF ClockInv, LastFits
<1>8. /\ session'[t] = r /\ due'[t] = abs /\ accepted'[t] = 0
      /\ \A s \in Tokens : s # t => /\ session'[s] = session[s] /\ due'[s] = due[s]
                                    /\ accepted'[s] = accepted[s]
  BY <1>4 DEF ClockInv, ClockTypes
<1>9. revoked[t] = None /\ ~(cache[t] # None /\ cache[t] >= 0)
  BY <1>1 DEF ClockInv, RowFits, CacheFits, VerdictFits
<1>10. ASSUME NEW s \in Tokens PROVE RowFits(s)' /\ CacheFits(s)'
  <2>1. CASE s = t
    BY <1>1, <1>3, <1>5, <1>8, <1>9, <2>1 DEF RowFits, CacheFits
  <2>2. CASE s # t
    BY <1>1, <1>8, <2>2 DEF ClockInv, RowFits, CacheFits, VerdictFits
  <2> QED
    BY <2>1, <2>2
<1>11. ASSUME NEW f \in Flights PROVE FlightFits(flight[f])'
  <2>1. PICK v \in Flight : flight[f] = v /\ FlightFits(v)
    BY DEF ClockInv, ClockTypes
  <2>2. v.token = t => v.pc \notin FoundPcs \cup {"delete"}
    BY <1>1, <2>1 DEF FlightFits, FoundFits
  <2>3. v.token \in Tokens \cup {None} /\ (v.pc \in FoundPcs \cup {"delete"} => v.token \in Tokens)
    BY <2>1 DEF Flight, FlightFits, FoundPcs
  <2>4. FlightFits(v)'
    BY <1>1, <1>8, <2>1, <2>2, <2>3 DEF FlightFits, FoundFits, FoundPcs, VerdictFits
  <2> QED
    BY <1>1, <2>1, <2>4 DEF FlightFits
<1> QED
  BY <1>6, <1>7, <1>10, <1>11 DEF ClockInv

\* Logout deletes the row.
LEMMA LogoutKeeps ==
    ASSUME ClockInv, NEW f \in Flights, NEW t \in Tokens, Clock!Logout(f, t) PROVE ClockInv'
<1>1. /\ session[t] # None /\ session' = [session EXCEPT ![t] = None]
      /\ UNCHANGED <<cache, setting, timeouts, due, accepted, revoked, overlapped, refused, verdict>>
  BY DEF Clock!Logout, Clock!histories
<1>2. PICK v \in Flight : /\ v = [Clock!Idle EXCEPT !.pc = "delete", !.token = t]
                          /\ v.pc = "delete" /\ v.token = t
  <2> DEFINE w == [Clock!Idle EXCEPT !.pc = "delete", !.token = t]
  <2>1. w \in Flight /\ w.pc = "delete" /\ w.token = t
    BY IdleFlight DEF Flight
  <2> QED
    BY <2>1
<1>3. flight' = [flight EXCEPT ![f] = v]
  BY <1>2 DEF Clock!Logout, Clock!Begin
<1>4. due[t] # None
  <2>1. RowFits(t) /\ session[t] \in [left: -Horizon .. Horizon, seen: 0 .. Horizon]
    BY <1>1 DEF ClockInv, ClockTypes
  <2> QED
    BY <1>1, <2>1, ClockAssumption DEF RowFits
<1>5. /\ session'[t] = None
      /\ \A s \in Tokens : s # t => session'[s] = session[s]
  BY <1>1 DEF ClockInv, ClockTypes
<1>6. ClockTypes' /\ LastFits'
  BY <1>1, <1>3 DEF ClockInv, ClockTypes, LastFits
<1>7. ASSUME NEW s \in Tokens PROVE RowFits(s)' /\ CacheFits(s)'
  BY <1>1, <1>5 DEF ClockInv, RowFits, CacheFits, VerdictFits
<1>8. FlightFits(v)'
  BY <1>1, <1>2, <1>4, <1>5, ClockAssumption DEF FlightFits, FoundPcs
<1>9. ASSUME NEW g \in Flights, g # f PROVE FlightFits(flight[g])'
  <2>1. PICK u \in Flight : flight[g] = u /\ FlightFits(u)
    BY DEF ClockInv, ClockTypes
  <2>2. u.token \in Tokens \cup {None} /\ (u.pc \in FoundPcs \cup {"delete"} => u.token \in Tokens)
    BY <2>1 DEF Flight, FlightFits, FoundPcs
  <2>3. FlightFits(u)'
    BY <1>1, <1>5, <2>1, <2>2 DEF FlightFits, FoundFits, FoundPcs, VerdictFits
  <2>4. flight'[g] = u
    BY <1>3, <1>9, <2>1 DEF ClockInv, ClockTypes
  <2> QED
    BY <2>3, <2>4 DEF FlightFits
<1>10. flight'[f] = v
  BY <1>3 DEF ClockInv, ClockTypes
<1>11. FlightFits(flight[f])'
  BY <1>8, <1>10 DEF FlightFits
<1> QED
  BY <1>6, <1>7, <1>9, <1>11 DEF ClockInv

\* Logout is done: whoever was asking then is known to have been.
LEMMA InvalidateKeeps == ASSUME ClockInv, NEW f \in Flights, Clock!Invalidate(f) PROVE ClockInv'
<1>1. PICK t \in Tokens : flight[f].token = t /\ session[t] = None /\ due[t] # None
  BY DEF ClockInv, ClockTypes, Clock!Invalidate, Clock!At, FlightFits, Flight
<1>2. /\ revoked' = [revoked EXCEPT ![t] = 0]
      /\ overlapped' = [overlapped EXCEPT ![t] = Clock!Asking(t)]
      /\ cache' = [cache EXCEPT ![t] = None] /\ flight' = [flight EXCEPT ![f] = Clock!Idle]
      /\ UNCHANGED <<session, setting, timeouts, due, accepted, refused, verdict>>
      /\ flight[f].pc = "delete"
  BY <1>1 DEF Clock!Invalidate, Clock!Done, Clock!Token, Clock!End, Clock!At
<1>3. CacheTTL \in Nat /\ MaxFlight \in Nat /\ Horizon \in Nat /\ 0 \in 0 .. Horizon
  BY ClockAssumption
<1>4. /\ revoked'[t] = 0 /\ overlapped'[t] = Clock!Asking(t) /\ cache'[t] = None
      /\ \A s \in Tokens : s # t => /\ revoked'[s] = revoked[s] /\ overlapped'[s] = overlapped[s]
                                    /\ cache'[s] = cache[s]
  BY <1>2 DEF ClockInv, ClockTypes
<1>5. ClockTypes'
  <2>1. Clock!Asking(t) \in BOOLEAN
    BY DEF Clock!Asking
  <2>2. /\ overlapped' \in [Tokens -> BOOLEAN]
        /\ revoked' \in [Tokens -> 0 .. Horizon \cup {None}]
        /\ flight' \in [Flights -> Flight]
        /\ cache' \in [Tokens -> -Horizon .. CacheTTL \cup {None}]
    BY <1>2, <1>3, <2>1, IdleFlight DEF ClockInv, ClockTypes
  <2> QED
    BY <1>2, <2>2 DEF ClockInv, ClockTypes
<1>6. LastFits'
  BY <1>2 DEF ClockInv, LastFits
<1>7. ASSUME NEW s \in Tokens PROVE RowFits(s)' /\ CacheFits(s)'
  <2>1. CASE s = t
    BY <1>1, <1>2, <1>4, <2>1 DEF RowFits, CacheFits
  <2>2. CASE s # t
    BY <1>2, <1>4, <2>2 DEF ClockInv, RowFits, CacheFits, VerdictFits
  <2> QED
    BY <2>1, <2>2
<1>8. FlightFits(Clock!Idle)'
  BY IdleFlight DEF FlightFits, FoundPcs
<1>9. ASSUME NEW g \in Flights, g # f PROVE FlightFits(flight[g])'
  <2>1. PICK u \in Flight : flight[g] = u /\ FlightFits(u)
    BY DEF ClockInv, ClockTypes
  <2>2. u.token \in Tokens \cup {None} /\ (u.pc \in FoundPcs \cup {"delete"} => u.token \in Tokens)
    BY <2>1 DEF Flight, FlightFits, FoundPcs
  <2>3. ASSUME u.token = t, u.pc \in FoundPcs PROVE FlightFits(u)'
    <3>1. overlapped'[t]
      BY <1>4, <2>1, <2>3 DEF Clock!Asking, Clock!Token, Clock!At, FoundPcs
    <3>2. u.age \in Nat /\ FoundFits(u.token, u.age)
      BY <1>3, <2>1, <2>3 DEF Flight, FlightFits
    <3>3. FoundFits(u.token, u.age)'
      BY <1>2, <1>4, <2>3, <3>1, <3>2 DEF FoundFits
    <3>4. u.pc = "put" => u.left \in -u.age .. CacheTTL /\ VerdictFits(u.token, u.left)'
      BY <1>2, <1>3, <1>4, <2>1, <2>3, <3>1, <3>2 DEF FlightFits, VerdictFits
    <3>5. u.pc # "delete"
      BY <2>3 DEF FoundPcs
    <3> QED
      BY <1>2, <2>1, <3>3, <3>4, <3>5 DEF FlightFits
  <2>4. ASSUME u.token # t PROVE FlightFits(u)'
    BY <1>2, <1>4, <2>1, <2>2, <2>4 DEF FlightFits, FoundFits, FoundPcs, VerdictFits
  <2>5. ASSUME u.pc \notin FoundPcs PROVE FlightFits(u)'
    BY <1>2, <2>1, <2>5 DEF FlightFits, FoundPcs
  <2>6. FlightFits(u)'
    BY <2>3, <2>4, <2>5
  <2>7. flight'[g] = u
    BY <1>2, <1>9, <2>1 DEF ClockInv, ClockTypes
  <2> QED
    BY <2>6, <2>7 DEF FlightFits
<1>10. FlightFits(flight[f])'
  <2>1. flight'[f] = Clock!Idle
    BY <1>2 DEF ClockInv, ClockTypes
  <2> QED
    BY <1>8, <2>1 DEF FlightFits
<1> QED
  BY <1>5, <1>6, <1>7, <1>9, <1>10 DEF ClockInv

\* An age under a tick.
LEMMA Ages ==
    /\ \A a \in 0 .. Horizon : Clock!Older(a) \in 0 .. Horizon /\ Clock!Older(a) <= a + 1
    /\ \A a, b \in 0 .. Horizon, d \in Nat : a <= b + d => Clock!Older(a) <= Clock!Older(b) + d
    /\ Clock!Older(None) = None
<1>1. Horizon \in Nat /\ \A a \in 0 .. Horizon : a \in Int /\ a # None
  BY ClockAssumption
<1>2. \A a \in 0 .. Horizon : Clock!Older(a) = IF a = Horizon THEN a ELSE a + 1
  BY <1>1 DEF Clock!Older
<1>3. \A a \in 0 .. Horizon : Clock!Older(a) \in 0 .. Horizon /\ Clock!Older(a) <= a + 1
  BY <1>1, <1>2
<1>4. \A a, b \in 0 .. Horizon, d \in Nat : a <= b + d => Clock!Older(a) <= Clock!Older(b) + d
  BY <1>1, <1>2
<1> QED
  BY <1>3, <1>4 DEF Clock!Older

\* A time left under a tick.
LEMMA Lefts ==
    /\ \A a \in Int : Clock!Shorter(a) \in Int /\ Clock!Shorter(a) >= a - 1
    /\ \A a \in Int : Horizon # 0 /\ Clock!Shorter(a) >= 0 => a >= 0 /\ Clock!Shorter(a) = a - 1
    /\ \A a \in -Horizon .. Horizon : Clock!Shorter(a) \in -Horizon .. Horizon
    /\ \A a \in -Horizon .. CacheTTL : Clock!Shorter(a) \in -Horizon .. CacheTTL
    /\ Clock!Shorter(None) = None
<1>1. Horizon \in Nat /\ CacheTTL \in Nat /\ None \notin Int
  BY ClockAssumption
<1>2. \A a \in Int : Clock!Shorter(a) = IF a = -Horizon THEN a ELSE a - 1
  BY <1>1 DEF Clock!Shorter
<1>3. \A a \in Int : Clock!Shorter(a) \in Int /\ Clock!Shorter(a) >= a - 1
  BY <1>1, <1>2
<1>4. \A a \in Int : Horizon # 0 /\ Clock!Shorter(a) >= 0 => a >= 0 /\ Clock!Shorter(a) = a - 1
  BY <1>1, <1>2
<1>5. \A a \in -Horizon .. Horizon : Clock!Shorter(a) \in -Horizon .. Horizon
  BY <1>1, <1>2
<1>6. \A a \in -Horizon .. CacheTTL : Clock!Shorter(a) \in -Horizon .. CacheTTL
  BY <1>1, <1>2
<1> QED
  BY <1>3, <1>4, <1>5, <1>6 DEF Clock!Shorter

\* The bounds, as numbers.
LEMMA Bounds ==
    /\ Horizon \in Nat /\ CacheTTL \in Nat /\ MaxFlight \in Nat /\ MaxFlight <= Horizon
    /\ Throttle \in Nat \ {0} /\ Lag \in Nat /\ None \notin Int
  BY ClockAssumption DEF Lag

\* A tick keeps the types.
LEMMA TickTypes == ASSUME ClockInv, Clock!Tick PROVE ClockTypes'
<1> DEFINE Row == [left: -Horizon .. Horizon, seen: 0 .. Horizon]
<1>1. ASSUME NEW t \in Tokens PROVE session'[t] \in Row \cup {None}
  <2>1. session'[t] = IF session[t] = None THEN None
                      ELSE [left |-> Clock!Shorter(session[t].left), seen |-> Clock!Older(session[t].seen)]
    BY DEF Clock!Tick
  <2>2. session[t] \in Row \cup {None}
    BY DEF ClockInv, ClockTypes
  <2> QED
    BY <2>1, <2>2, Ages, Lefts
<1>2. session' \in [Tokens -> Row \cup {None}]
  <2>1. session' = [t \in Tokens |-> session'[t]]
    BY DEF Clock!Tick
  <2> QED
    BY <1>1, <2>1
<1>3. cache' \in [Tokens -> -Horizon .. CacheTTL \cup {None}]
  BY Lefts DEF ClockInv, ClockTypes, Clock!Tick
<1>4. due' \in [Tokens -> Int \cup {None}]
  BY Lefts DEF ClockInv, ClockTypes, Clock!Tick
<1>5. accepted' \in [Tokens -> 0 .. Horizon \cup {None}]
  BY Ages DEF ClockInv, ClockTypes, Clock!Tick
<1>6. revoked' \in [Tokens -> 0 .. Horizon \cup {None}]
  BY Ages DEF ClockInv, ClockTypes, Clock!Tick
<1>7. timeouts' # None => timeouts' \in [abs: 0 .. Horizon - 1, left: Int, idle: Int]
  BY Lefts DEF ClockInv, ClockTypes, Clock!Tick
<1>8. ASSUME NEW f \in Flights PROVE flight'[f] \in Flight
  <2>1. flight[f] \in Flight /\ flight[f].age \in 0 .. MaxFlight /\ flight[f].age < MaxFlight
    BY DEF ClockInv, ClockTypes, Clock!Tick, Flight
  <2>2. CASE flight[f].pc = "idle"
    BY <2>2, IdleFlight DEF Clock!Tick, Clock!At
  <2>3. CASE flight[f].pc # "idle"
    <3> DEFINE age  == flight[f].age + 1
               seen == Clock!Older(flight[f].seen)
               left == IF flight[f].pc = "put" THEN flight[f].left - 1 ELSE 0
               r    == [[[flight[f] EXCEPT !.age = age] EXCEPT !.seen = seen] EXCEPT !.left = left]
    <3>1. flight'[f] = r
      BY <2>3 DEF Clock!Tick, Clock!At
    <3>2. age \in 0 .. MaxFlight /\ left \in Int /\ seen \in 0 .. Horizon
      <4>1. flight[f].left \in Int /\ flight[f].seen \in 0 .. Horizon
        BY <2>1 DEF Flight
      <4>2. seen \in 0 .. Horizon
        BY <4>1, Ages
      <4> HIDE DEF seen
      <4> QED
        BY <2>1, <4>1, <4>2, ClockAssumption
    <3> HIDE DEF age, seen, left
    <3>3. r \in Flight
      BY <2>1, <3>2 DEF Flight
    <3> QED
      BY <3>1, <3>3
  <2> QED
    BY <2>2, <2>3
<1>9. flight' \in [Flights -> Flight]
  <2>1. flight' = [f \in Flights |-> flight'[f]]
    BY DEF Clock!Tick
  <2> QED
    BY <1>8, <2>1
<1>10. setting' \in Timeouts /\ overlapped' \in [Tokens -> BOOLEAN]
  BY DEF ClockInv, ClockTypes, Clock!Tick
<1> QED
  BY <1>2, <1>3, <1>4, <1>5, <1>6, <1>7, <1>9, <1>10 DEF ClockTypes

\* A verdict is no worse off with less of its life left.
LEMMA TickVerdict ==
    ASSUME ClockInv, Clock!Tick, NEW t \in Tokens, NEW left \in Int, VerdictFits(t, left)
    PROVE  VerdictFits(t, left - 1)'
<1>1. due'[t] = Clock!Shorter(due[t]) /\ revoked'[t] = Clock!Older(revoked[t]) /\ overlapped'[t] = overlapped[t]
  BY DEF Clock!Tick
<1>2. due[t] \in Int /\ due[t] >= left - CacheTTL - MaxFlight /\ (revoked[t] # None => revoked[t] \in 0 .. Horizon)
  BY DEF ClockInv, ClockTypes, VerdictFits
<1>3. due'[t] # None /\ due'[t] >= left - 1 - CacheTTL - MaxFlight
  <2>1. Clock!Shorter(due[t]) \in Int /\ Clock!Shorter(due[t]) # None /\ Clock!Shorter(due[t]) >= due[t] - 1
    BY <1>2, Lefts, Bounds
  <2>2. CacheTTL \in Int /\ MaxFlight \in Int
    BY ClockAssumption
  <2> QED
    BY <1>1, <1>2, <2>1, <2>2
<1>4. revoked'[t] # None => overlapped'[t] /\ revoked'[t] <= CacheTTL + MaxFlight - (left - 1)
  <2>1. CASE revoked[t] = None
    BY <1>1, <2>1, Ages
  <2>2. CASE revoked[t] # None
    <3>1. revoked[t] \in 0 .. Horizon /\ overlapped[t] /\ revoked[t] <= CacheTTL + MaxFlight - left
      BY <1>2, <2>2 DEF VerdictFits
    <3> QED
      BY <1>1, <3>1, Ages, Bounds
  <2> QED
    BY <2>1, <2>2
<1>5. session'[t] # None /\ t \notin refused' => session'[t].seen <= Lag - (left - 1)
  <2>1. session'[t] = IF session[t] = None THEN None
                      ELSE [left |-> Clock!Shorter(session[t].left), seen |-> Clock!Older(session[t].seen)]
    BY DEF Clock!Tick
  <2>2. session[t] # None => session[t].seen \in 0 .. Horizon
    BY DEF ClockInv, ClockTypes
  <2>3. refused' = refused
    BY DEF Clock!Tick
  <2>4. ASSUME session[t] # None, t \notin refused PROVE session'[t].seen <= Lag - (left - 1)
    <3>1. session[t].seen <= Lag - left /\ session'[t].seen = Clock!Older(session[t].seen)
      BY <2>1, <2>4 DEF VerdictFits
    <3> QED
      BY <2>2, <2>4, <3>1, Ages, Bounds
  <2> QED
    BY <2>1, <2>3, <2>4
<1> QED
  BY <1>3, <1>4, <1>5 DEF VerdictFits

\* The row and its history age together.
LEMMA TickRows == ASSUME ClockInv, Clock!Tick, NEW t \in Tokens PROVE RowFits(t)' /\ CacheFits(t)'
<1>1. /\ due'[t] = Clock!Shorter(due[t]) /\ revoked'[t] = Clock!Older(revoked[t])
      /\ accepted'[t] = Clock!Older(accepted[t]) /\ cache'[t] = Clock!Shorter(cache[t])
      /\ session'[t] = IF session[t] = None THEN None
                       ELSE [left |-> Clock!Shorter(session[t].left), seen |-> Clock!Older(session[t].seen)]
      /\ refused' = refused
  BY DEF Clock!Tick
<1>2. /\ session[t] # None => session[t].seen \in 0 .. Horizon
      /\ accepted[t] # None => accepted[t] \in 0 .. Horizon
      /\ due[t] # None => due[t] \in Int
      /\ cache[t] # None => cache[t] \in Int
      /\ revoked[t] # None => revoked[t] \in 0 .. Horizon
  <2>1. -Horizon .. CacheTTL \subseteq Int
    BY ClockAssumption
  <2> QED
    BY <2>1 DEF ClockInv, ClockTypes
<1>3. RowFits(t)
  BY DEF ClockInv
<1>4. session'[t] # None => session[t] # None
  BY <1>1
<1>5. ASSUME session[t] # None PROVE due'[t] = session'[t].left /\ revoked'[t] = None /\ accepted'[t] # None
  <2>1. due[t] = session[t].left /\ revoked[t] = None /\ accepted[t] \in 0 .. Horizon
    BY <1>2, <1>3, <1>5 DEF RowFits
  <2> QED
    BY <1>1, <1>5, <2>1, Ages, Bounds
<1>6. ASSUME session[t] # None, t \notin refused PROVE session'[t].seen <= accepted'[t] + Lag
  <2>1. /\ session[t].seen <= accepted[t] + Lag /\ session[t].seen \in 0 .. Horizon
        /\ accepted[t] \in 0 .. Horizon
    BY <1>2, <1>3, <1>6 DEF RowFits
  <2>2. session'[t].seen = Clock!Older(session[t].seen) /\ accepted'[t] = Clock!Older(accepted[t])
    BY <1>1, <1>6
  <2>3. Clock!Older(session[t].seen) <= Clock!Older(accepted[t]) + Lag
    BY <2>1, Ages, Bounds
  <2> QED
    BY <2>2, <2>3
<1>7. revoked'[t] # None => due'[t] # None
  <2>1. revoked[t] # None => due'[t] # None
    BY <1>1, <1>2, <1>3, Lefts, Bounds DEF RowFits
  <2> QED
    BY <1>1, <2>1, Ages
<1>8. RowFits(t)'
  BY <1>1, <1>4, <1>5, <1>6, <1>7 DEF RowFits
<1>9. CacheFits(t)'
  <2>1. SUFFICES ASSUME cache'[t] # None, cache'[t] >= 0 PROVE VerdictFits(t, cache[t])'
    BY DEF CacheFits
  <2>2. Horizon # 0
    BY ClockAssumption DEF ClockInv, ClockTypes
  <2>3. cache[t] \in Int /\ cache[t] >= 0 /\ cache'[t] = cache[t] - 1
    <3>1. cache[t] # None
      BY <1>1, <2>1, Lefts
    <3> QED
      BY <1>1, <1>2, <2>1, <2>2, <3>1, Lefts
  <2>4. PICK left \in Int : left = cache[t] /\ cache'[t] = left - 1
    BY <2>3
  <2>5. VerdictFits(t, left)
    BY <2>3, <2>4, ClockAssumption DEF ClockInv, CacheFits
  <2>6. VerdictFits(t, left - 1)'
    BY <2>5, TickVerdict
  <2> QED
    BY <2>4, <2>6 DEF VerdictFits
<1> QED
  BY <1>8, <1>9

\* A request in progress ages with what it found.
LEMMA TickFlights == ASSUME ClockInv, Clock!Tick, NEW f \in Flights PROVE FlightFits(flight[f])'
<1>1. PICK u \in Flight : flight[f] = u /\ FlightFits(u) /\ u.age < MaxFlight
  BY DEF ClockInv, ClockTypes, Clock!Tick
<1>2. CASE u.pc = "idle"
  <2>1. flight'[f] = Clock!Idle
    BY <1>1, <1>2 DEF Clock!Tick, Clock!At
  <2>2. FlightFits(Clock!Idle)'
    BY IdleFlight DEF FlightFits, FoundPcs
  <2> QED
    BY <2>1, <2>2 DEF FlightFits
<1>3. CASE u.pc # "idle"
  <2>0. PICK t \in Tokens : t = u.token
    BY <1>1, <1>3 DEF Flight, FlightFits
  <2> DEFINE left == IF u.pc = "put" THEN u.left - 1 ELSE 0
  <2>1. /\ t \in Tokens /\ t # None /\ u.age \in 0 .. MaxFlight /\ u.age \in Nat
        /\ u.seen \in 0 .. Horizon /\ u.left \in Int
    BY <1>1, <1>3, <2>0, ClockAssumption DEF Flight
  <2>2. PICK v \in Flight : /\ flight'[f] = v /\ v.pc = u.pc /\ v.token = t /\ v.age = u.age + 1
                            /\ v.seen = Clock!Older(u.seen) /\ v.left = left
    <3>1. flight'[f] = [[[u EXCEPT !.age = u.age + 1] EXCEPT !.seen = Clock!Older(u.seen)] EXCEPT !.left = left]
      BY <1>1, <1>3 DEF Clock!Tick, Clock!At
    <3> DEFINE w == flight'[f]
    <3>2. w \in Flight
      BY TickTypes DEF ClockTypes
    <3>3. w.pc = u.pc /\ w.token = t /\ w.age = u.age + 1 /\ w.seen = Clock!Older(u.seen) /\ w.left = left
      <4> HIDE DEF left
      <4> QED
        BY <2>0, <3>1 DEF Flight
    <3> QED
      BY <3>2, <3>3
  <2>3. /\ due'[t] = Clock!Shorter(due[t]) /\ revoked'[t] = Clock!Older(revoked[t])
        /\ overlapped'[t] = overlapped[t] /\ refused' = refused
        /\ session'[t] = IF session[t] = None THEN None
                       ELSE [left |-> Clock!Shorter(session[t].left), seen |-> Clock!Older(session[t].seen)]
    BY <2>1 DEF Clock!Tick
  <2>4. /\ session[t] # None => session[t].seen \in 0 .. Horizon
        /\ due[t] # None => due[t] \in Int
        /\ revoked[t] # None => revoked[t] \in 0 .. Horizon
    BY <2>1 DEF ClockInv, ClockTypes
  <2>5. v.pc = "delete" => session'[t] = None /\ due'[t] # None
    <3>1. v.pc = "delete" => session[t] = None /\ due[t] # None
      BY <1>1, <2>0, <2>2 DEF FlightFits
    <3> QED
      BY <2>3, <2>4, <3>1, Lefts, Bounds
  <2>6. ASSUME v.pc \in FoundPcs PROVE FoundFits(t, v.age)'
    <3>1. /\ due[t] # None /\ due[t] >= -u.age
          /\ revoked[t] # None => overlapped[t] /\ revoked[t] <= u.age
      BY <1>1, <2>0, <2>2, <2>6 DEF FlightFits, FoundFits
    <3>2. Clock!Shorter(due[t]) \in Int /\ Clock!Shorter(due[t]) # None /\ Clock!Shorter(due[t]) >= due[t] - 1
      BY <2>4, <3>1, Lefts, Bounds
    <3>3. due'[t] # None /\ due'[t] >= -v.age
      BY <2>1, <2>2, <2>3, <2>4, <3>1, <3>2
    <3>4. revoked'[t] # None => overlapped'[t] /\ revoked'[t] <= v.age
      <4>1. CASE revoked[t] = None
        BY <2>3, <4>1, Ages
      <4>2. CASE revoked[t] # None
        <5>1. Clock!Older(revoked[t]) \in 0 .. Horizon /\ Clock!Older(revoked[t]) <= revoked[t] + 1
          BY <2>4, <4>2, Ages
        <5> QED
          BY <2>1, <2>2, <2>3, <2>4, <3>1, <4>2, <5>1, ClockAssumption
      <4> QED
        BY <4>1, <4>2
    <3> QED
      BY <3>3, <3>4 DEF FoundFits
  <2>7. v.pc \in {"serve", "touch"} /\ session'[t] # None /\ t \notin refused' =>
            session'[t].seen <= v.seen
    <3>1. SUFFICES ASSUME v.pc \in {"serve", "touch"}, session[t] # None, t \notin refused
          PROVE  Clock!Older(session[t].seen) <= Clock!Older(u.seen)
      BY <2>2, <2>3
    <3>2. session[t].seen <= u.seen + 0 /\ session[t].seen \in 0 .. Horizon
      BY <1>1, <2>0, <2>1, <2>2, <2>4, <3>1, Bounds DEF FlightFits
    <3>3. Clock!Older(session[t].seen) <= Clock!Older(u.seen) + 0 /\ Clock!Older(u.seen) \in 0 .. Horizon
      BY <2>1, <3>2, Ages
    <3> QED
      BY <3>3, Bounds
  <2>8. v.pc \in {"record", "put"} /\ session'[t] # None /\ t \notin refused' =>
            session'[t].seen <= Throttle - 1 + v.age
    <3>1. SUFFICES ASSUME v.pc \in {"record", "put"}, session[t] # None, t \notin refused
          PROVE  Clock!Older(session[t].seen) <= Throttle - 1 + v.age
      BY <2>3
    <3>2. session[t].seen <= Throttle - 1 + u.age /\ session[t].seen \in 0 .. Horizon
      BY <1>1, <2>0, <2>2, <2>4, <3>1 DEF FlightFits
    <3>3. Clock!Older(session[t].seen) \in 0 .. Horizon /\ Clock!Older(session[t].seen) <= session[t].seen + 1
      BY <3>2, Ages
    <3> QED
      BY <2>1, <2>2, <3>2, <3>3, Bounds
  <2>9. v.pc = "put" => v.left \in -v.age .. CacheTTL /\ VerdictFits(t, v.left)'
    <3>1. SUFFICES ASSUME v.pc = "put" PROVE v.left \in -v.age .. CacheTTL /\ VerdictFits(t, v.left)'
      OBVIOUS
    <3>2. u.left \in -u.age .. CacheTTL /\ VerdictFits(t, u.left) /\ v.left = u.left - 1
      BY <1>1, <2>0, <2>2, <3>1 DEF FlightFits
    <3>3. v.left \in -v.age .. CacheTTL
      BY <2>1, <2>2, <3>2, Bounds
    <3>4. VerdictFits(t, u.left - 1)'
      BY <2>1, <3>2, TickVerdict
    <3> QED
      BY <3>2, <3>3, <3>4
  <2>10. v.pc = "idle" <=> v.token = None
    BY <1>3, <2>1, <2>2
  <2>11. FlightFits(v)'
    BY <2>2, <2>5, <2>6, <2>7, <2>8, <2>9, <2>10 DEF FlightFits
  <2> QED
    BY <2>2, <2>11 DEF FlightFits
<1> QED
  BY <1>2, <1>3

\* A tick keeps the clocks together.
LEMMA TickKeeps == ASSUME ClockInv, Clock!Tick PROVE ClockInv'
<1>1. verdict'.due = 0 /\ verdict'.revoked = None
  BY DEF Clock!Tick, Clock!NoVerdict
<1>2. LastFits'
  BY <1>1, Bounds DEF LastFits
<1> QED
  BY <1>2, TickTypes, TickRows, TickFlights DEF ClockInv

\* Every step of a session's clocks.
LEMMA ClockNext == ASSUME ClockInv, [Clock!Next]_Clock!vars PROVE ClockInv'
<1>1. ASSUME UNCHANGED Clock!vars PROVE ClockInv'
  BY <1>1 DEF Clock!vars, Clock!histories, ClockInv, ClockTypes, LastFits, RowFits, CacheFits,
              VerdictFits, FlightFits, FoundFits
<1>2. ASSUME NEW f \in Flights, NEW t \in Tokens, Clock!Authenticate(f, t) PROVE ClockInv'
  BY <1>2, BeginKeeps DEF Clock!Authenticate, Clock!histories
<1>3. ASSUME NEW t \in Tokens, Clock!Login(t) PROVE ClockInv'
  BY <1>3, LoginKeeps
<1>4. ASSUME NEW w \in Timeouts, Clock!PutTimeouts(w) PROVE ClockInv'
  BY <1>4, PutTimeoutsKeeps
<1>5. ASSUME NEW f \in Flights, NEW t \in Tokens,
             Clock!CacheGet(f, t) \/ Clock!Logout(f, t) \/ Clock!LogoutFails(f, t)
      PROVE  ClockInv'
  <2>1. CASE Clock!LogoutFails(f, t)
    BY <2>1, BeginKeeps DEF Clock!LogoutFails, Clock!histories
  <2> QED
    BY <1>5, <2>1, CacheGetKeeps, LogoutKeeps
<1>6. ASSUME NEW f \in Flights,
             \/ Clock!PanelLookup(f) \/ Clock!PanelServe(f) \/ Clock!ForwardLookup(f)
             \/ Clock!ForwardAgain(f) \/ Clock!ForwardTouch(f) \/ Clock!ForwardRecord(f)
             \/ Clock!ForwardPut(f) \/ Clock!Invalidate(f) \/ Clock!Evict(f)
             \/ Clock!LookupFails(f) \/ Clock!AgainFails(f) \/ Clock!TouchFails(f)
      PROVE  ClockInv'
  BY <1>6, PanelLookupKeeps, PanelServeKeeps, ForwardLookupKeeps, ForwardAgainKeeps,
     ForwardTouchKeeps, ForwardRecordKeeps, ForwardPutKeeps, InvalidateKeeps, EvictKeeps,
     LookupFailsKeeps, AgainFailsKeeps, TouchFailsKeeps
<1>7. ASSUME Clock!SweepCache \/ Clock!Tick \/ Clock!Restart PROVE ClockInv'
  BY <1>7, SweepCacheKeeps, TickKeeps, RestartKeeps
<1>8. ASSUME NEW abs, NEW idle, Clock!ReadFails(abs, idle) PROVE ClockInv'
  BY <1>8, ReadFailsKeeps
<1> QED
  BY <1>1, <1>2, <1>3, <1>4, <1>5, <1>6, <1>7, <1>8 DEF Clock!Next

\* What the clocks promise follows.
LEMMA ClockPromises ==
    ClockInv => /\ Clock!TypeOK /\ Clock!AbsoluteCap /\ Clock!KeptAlive
                /\ Clock!LogoutIsPrompt /\ Clock!LogoutIsBounded
<1> SUFFICES ASSUME ClockInv
             PROVE  /\ Clock!TypeOK /\ Clock!AbsoluteCap /\ Clock!KeptAlive
                    /\ Clock!LogoutIsPrompt /\ Clock!LogoutIsBounded
  OBVIOUS
<1>1. Clock!TypeOK
  BY DEF ClockInv, ClockTypes, Flight, Clock!TypeOK
<1>2. Clock!AbsoluteCap /\ Clock!LogoutIsPrompt /\ Clock!LogoutIsBounded
  BY DEF ClockInv, LastFits, Clock!AbsoluteCap, Clock!LogoutIsPrompt, Clock!LogoutIsBounded
<1>3. ASSUME NEW t \in Tokens, session[t] # None, t \notin refused
      PROVE  session[t].seen - accepted[t] < Throttle + CacheTTL + MaxFlight
  <2>1. session[t].seen <= accepted[t] + Lag /\ accepted[t] # None
    BY <1>3 DEF ClockInv, RowFits
  <2>2. session[t].seen \in 0 .. Horizon /\ accepted[t] \in 0 .. Horizon
    BY <1>3, <2>1 DEF ClockInv, ClockTypes
  <2> QED
    BY <2>1, <2>2, Bounds DEF Lag
<1> QED
  BY <1>1, <1>2, <1>3 DEF Clock!KeptAlive
----------------------------------------------------------------------------
(* The limiter of password sign-ins: a login that has passed the check may *)
(* still fail, and while one process runs the ban in memory lasts as long  *)
(* as the lockout it stands for.                                           *)

Passed == {l \in Logins : login[l] = "password"}

TriesInv ==
    /\ IsFiniteSet(tries) /\ \A f \in tries : f[1] \in 0 .. LoginWindow
    /\ login \in [Logins -> {"idle", "password"}]
    /\ unread \in Nat
    /\ Cardinality(tries) + Cardinality(Passed) <= LoginFails - 1 + Cardinality(Logins) + unread

BanInv ==
    /\ ban \in 0 .. BanDuration
    /\ lockout \in [left: 0 .. BanDuration, weak: BOOLEAN]
    /\ ~lockout.weak => ban >= lockout.left
    /\ slipped # "held"

\* Sets of logins are finite, and a smaller set has fewer.
LEMMA LoginSets ==
    /\ IsFiniteSet(Logins) /\ Cardinality(Logins) \in Nat
    /\ \A S \in SUBSET Logins :
          IsFiniteSet(S) /\ Cardinality(S) \in Nat /\ Cardinality(S) <= Cardinality(Logins)
    /\ \A S, T \in SUBSET Logins : S \subseteq T => Cardinality(S) <= Cardinality(T)
<1>1. IsFiniteSet(Logins)
  BY LimiterAssumption
<1>2. \A S \in SUBSET Logins : IsFiniteSet(S)
  BY <1>1, FS_Subset
<1> QED
  BY <1>1, <1>2, FS_Subset, FS_CardinalityType

\* The limiter counts as everyone does.
LEMMA SameCount == \A S : Limiter!Cardinality(S) = Cardinality(S)
  BY DEF Limiter!Cardinality, Cardinality

\* Time takes failures out of the window and adds none.
LEMMA AgedTries ==
    ASSUME TriesInv, Limiter!Tick
    PROVE  /\ IsFiniteSet(tries') /\ Cardinality(tries') <= Cardinality(tries)
           /\ \A f \in tries' : f[1] \in 0 .. LoginWindow
<1> DEFINE S == {g \in tries : g[1] < LoginWindow}
           T == {<<f[1] + 1, f[2]>> : f \in S}
           older == [f \in S |-> <<f[1] + 1, f[2]>>]
<1>1. IsFiniteSet(S) /\ Cardinality(S) <= Cardinality(tries)
  BY FS_Subset DEF TriesInv
<1>2. older \in Surjection(S, T)
  BY DEF Surjection
<1>3. IsFiniteSet(T) /\ Cardinality(T) <= Cardinality(S)
  BY <1>1, <1>2, FS_Surjection
<1>4. tries' = T
  BY DEF Limiter!Tick
<1>5. Cardinality(T) \in Nat /\ Cardinality(S) \in Nat /\ Cardinality(tries) \in Nat
  BY <1>1, <1>3, FS_CardinalityType DEF TriesInv
<1>6. \A f \in T : f[1] \in 0 .. LoginWindow
  <2>1. \A g \in S : g[1] \in 0 .. LoginWindow /\ g[1] + 1 \in 0 .. LoginWindow
    BY LimiterAssumption DEF TriesInv
  <2> QED
    BY <2>1
<1> QED
  BY <1>1, <1>3, <1>4, <1>5, <1>6

\* One more failure in the window.
LEMMA FailedTries ==
    ASSUME TriesInv
    PROVE  /\ IsFiniteSet(Limiter!Failed) /\ Cardinality(Limiter!Failed) <= Cardinality(tries) + 1
           /\ Cardinality(Limiter!Failed) \in Nat /\ Cardinality(tries) \in Nat
           /\ \A f \in Limiter!Failed : f[1] \in 0 .. LoginWindow
<1> DEFINE new == <<0, Cardinality({f \in tries : f[1] = 0}) + 1>>
<1>1. Limiter!Failed = tries \cup {new}
  BY SameCount DEF Limiter!Failed
<1>2. new[1] = 0 /\ 0 \in 0 .. LoginWindow
  BY LimiterAssumption
<1> HIDE DEF new
<1>3. /\ IsFiniteSet(tries \cup {new}) /\ Cardinality(tries) \in Nat
      /\ \/ Cardinality(tries \cup {new}) = Cardinality(tries)
         \/ Cardinality(tries \cup {new}) = Cardinality(tries) + 1
  BY FS_AddElement, FS_CardinalityType DEF TriesInv
<1> QED
  BY <1>1, <1>2, <1>3 DEF TriesInv

\* Whoever is let through has seen fewer failures than the limit, and a failure
\* more is a login less that may fail.
LEMMA TriesNext == ASSUME TriesInv, [Limiter!Next]_Limiter!vars PROVE TriesInv'
<1>1. Passed \in SUBSET Logins /\ Passed' \in SUBSET Logins /\ Cardinality(tries) \in Nat
  BY FS_CardinalityType DEF Passed, TriesInv
<1>2. ASSUME tries' = tries, unread' = unread, Passed' \subseteq Passed, login' \in [Logins -> {"idle", "password"}]
      PROVE  TriesInv'
  BY <1>1, <1>2, LoginSets, LimiterAssumption DEF TriesInv
<1>3. ASSUME NEW l \in Logins, login' = [login EXCEPT ![l] = "idle"]
      PROVE  Passed' \subseteq Passed \ {l} /\ login' \in [Logins -> {"idle", "password"}]
  BY <1>3 DEF Passed, TriesInv
<1>4. ASSUME NEW l \in Logins, Limiter!Check(l) PROVE TriesInv'
  <2>1. CASE Limiter!Banned(tries)
    BY <1>2, <1>4, <2>1 DEF Limiter!Check, Passed, TriesInv
  <2>2. CASE ~Limiter!Banned(tries)
    <3>1. tries' = tries /\ unread' = unread /\ login' = [login EXCEPT ![l] = "password"]
      BY <1>4, <2>2 DEF Limiter!Check, Limiter!LetThrough
    <3>2. Cardinality(tries) <= LoginFails - 1
      BY <1>1, <2>2, LimiterAssumption, SameCount DEF Limiter!Banned
    <3> QED
      BY <1>1, <3>1, <3>2, LoginSets, LimiterAssumption DEF TriesInv
  <2> QED
    BY <2>1, <2>2
<1>5. ASSUME NEW l \in Logins, Limiter!Authenticated(l) PROVE TriesInv'
  BY <1>2, <1>3, <1>5 DEF Limiter!Authenticated
\* A check that could not be read lets one more through.
<1>10. ASSUME NEW l \in Logins, Limiter!CheckUnread(l) PROVE TriesInv'
  <2>1. tries' = tries /\ unread' = unread + 1 /\ login' = [login EXCEPT ![l] = "password"]
    BY <1>10 DEF Limiter!CheckUnread, Limiter!Unread, Limiter!LetThrough
  <2>2. Passed' \subseteq Passed \cup {l} /\ Passed \cup {l} \in SUBSET Logins
        /\ login' \in [Logins -> {"idle", "password"}]
    BY <1>1, <2>1 DEF Passed, TriesInv
  <2>3. Cardinality(Passed \cup {l}) <= Cardinality(Passed) + 1
    BY <1>1, LoginSets, FS_AddElement
  <2>4. Cardinality(Passed') <= Cardinality(Passed) + 1
    BY <1>1, <2>2, <2>3, LoginSets
  <2> QED
    BY <1>1, <2>1, <2>2, <2>4, LoginSets, LimiterAssumption DEF TriesInv
<1>6. ASSUME NEW l \in Logins, Limiter!Record(l) \/ Limiter!RecordUnread(l) PROVE TriesInv'
  <2>1. /\ login' = [login EXCEPT ![l] = "idle"] /\ l \in Passed /\ tries' = Limiter!Failed
        /\ unread' = unread \/ unread' = unread + 1
    BY <1>6 DEF Limiter!Record, Limiter!RecordUnread, Limiter!Unread, Passed
  <2>2. Cardinality(Passed \ {l}) = Cardinality(Passed) - 1
    BY <1>1, <2>1, LoginSets, FS_RemoveElement
  <2>3. Cardinality(Passed') <= Cardinality(Passed) - 1
    <3>1. Passed' \subseteq Passed \ {l} /\ Passed \ {l} \in SUBSET Logins
      BY <1>1, <1>3, <2>1
    <3> QED
      BY <1>1, <2>2, <3>1, LoginSets
  <2> QED
    BY <1>1, <1>3, <2>1, <2>3, FailedTries, LoginSets, LimiterAssumption DEF TriesInv
<1>7. ASSUME Limiter!Tick PROVE TriesInv'
  <2>1. login' = login /\ Passed' = Passed /\ unread' = unread
    BY <1>7 DEF Limiter!Tick, Passed
  <2>2. Cardinality(tries') \in Nat
    BY <1>7, AgedTries, FS_CardinalityType
  <2> QED
    BY <1>1, <1>7, <2>1, <2>2, AgedTries, LoginSets, LimiterAssumption DEF TriesInv
<1>8. ASSUME Limiter!Restart PROVE TriesInv'
  BY <1>2, <1>8 DEF Limiter!Restart, Passed
<1>9. ASSUME UNCHANGED Limiter!vars PROVE TriesInv'
  BY <1>9 DEF Limiter!vars, TriesInv, Passed
<1> QED
  BY <1>4, <1>5, <1>6, <1>7, <1>8, <1>9, <1>10 DEF Limiter!Next

\* The failure that reaches the limit seeds the ban at once.
LEMMA BanNext == ASSUME TriesInv, BanInv, [Limiter!Next]_Limiter!vars PROVE BanInv'
<1>1. BanDuration \in Nat \ {0} /\ LoginFails \in Nat /\ ban \in 0 .. BanDuration
  BY LimiterAssumption DEF BanInv
<1>2. /\ lockout.left \in 0 .. BanDuration /\ lockout.weak \in BOOLEAN
      /\ ~lockout.weak => ban >= lockout.left
  BY DEF BanInv
<1>10. ASSUME NEW weak \in BOOLEAN, lockout' = [left |-> BanDuration, weak |-> weak],
              ban' \in 0 .. BanDuration, weak \/ ban' = BanDuration, slipped' # "held"
       PROVE  BanInv'
  <2>1. BanDuration \in 0 .. BanDuration
    BY <1>1
  <2>2. lockout' \in [left: 0 .. BanDuration, weak: BOOLEAN]
    BY <1>10, <2>1
  <2>3. lockout'.left = BanDuration /\ lockout'.weak = weak
    BY <1>10
  <2> QED
    BY <1>1, <1>10, <2>2, <2>3 DEF BanInv
<1>3. ASSUME NEW l \in Logins, Limiter!Check(l) PROVE BanInv'
  <2>1. ban' = Limiter!Seeded(tries) /\ lockout' = lockout
    BY <1>3 DEF Limiter!Check
  <2>2. ban' \in 0 .. BanDuration /\ ban' >= ban
    BY <1>1, <2>1 DEF Limiter!Seeded
  <2>3. slipped' # "held"
    <3>1. CASE Limiter!Banned(tries)
      BY <1>3, <3>1 DEF Limiter!Check, BanInv
    <3>2. CASE ~Limiter!Banned(tries)
      <4>1. ban = 0
        BY <1>1, <3>2 DEF Limiter!Banned
      <4>2. lockout.left = 0 \/ lockout.weak
        BY <1>1, <1>2, <4>1
      <4> QED
        BY <1>3, <3>2, <4>2 DEF Limiter!Check, Limiter!LetThrough, BanInv
    <3> QED
      BY <3>1, <3>2
  <2> QED
    BY <1>1, <1>2, <2>1, <2>2, <2>3 DEF BanInv
<1>4. ASSUME NEW l \in Logins, Limiter!Record(l) PROVE BanInv'
  <2>1. ban' = Limiter!Seeded(Limiter!Failed) /\ lockout' = Limiter!Reached(FALSE) /\ slipped' = slipped
    BY <1>4 DEF Limiter!Record
  <2>2. Cardinality(Limiter!Failed) \in Nat
    BY FailedTries
  <2>3. CASE ban > 0 \/ Cardinality(Limiter!Failed) < LoginFails
    <3>1. ban' = ban /\ lockout' = lockout
      BY <1>1, <2>1, <2>2, <2>3, SameCount DEF Limiter!Seeded, Limiter!Reached
    <3> QED
      BY <2>1, <3>1 DEF BanInv
  <2>4. CASE ~(ban > 0 \/ Cardinality(Limiter!Failed) < LoginFails)
    <3>1. ban' = BanDuration /\ lockout' = [left |-> BanDuration, weak |-> FALSE]
      BY <1>1, <2>1, <2>2, <2>4, SameCount DEF Limiter!Seeded, Limiter!Reached
    <3>2. slipped' # "held" /\ BanDuration \in 0 .. BanDuration
      BY <1>1, <2>1 DEF BanInv
    <3> QED
      BY <1>10, <3>1, <3>2
  <2> QED
    BY <2>3, <2>4
<1>5. ASSUME Limiter!Tick PROVE BanInv'
  <2>1. ban' = (IF ban = 0 THEN 0 ELSE ban - 1) /\ slipped' = slipped
    BY <1>5 DEF Limiter!Tick, Limiter!Sooner
  <2>2. CASE lockout.left <= 1
    <3>1. lockout' = [left |-> 0, weak |-> FALSE]
      BY <1>5, <2>2 DEF Limiter!Tick, Limiter!NoLockout
    <3> QED
      BY <1>1, <2>1, <3>1 DEF BanInv
  <2>3. CASE ~(lockout.left <= 1)
    <3>1. lockout' = [lockout EXCEPT !.left = lockout.left - 1]
      BY <1>5, <2>3 DEF Limiter!Tick
    <3>2. lockout.left - 1 \in 0 .. BanDuration
      BY <1>1, <1>2, <2>3
    <3>3. /\ lockout' \in [left: 0 .. BanDuration, weak: BOOLEAN]
          /\ lockout'.left = lockout.left - 1 /\ lockout'.weak = lockout.weak
      BY <3>1, <3>2 DEF BanInv
    <3>4. ban' \in 0 .. BanDuration /\ (~lockout'.weak => ban' >= lockout'.left)
      BY <1>1, <1>2, <2>1, <2>3, <3>3
    <3> QED
      BY <2>1, <3>3, <3>4 DEF BanInv
  <2> QED
    BY <2>2, <2>3
<1>6. ASSUME Limiter!Restart PROVE BanInv'
  <2>1. /\ ban' = 0 /\ lockout' = [lockout EXCEPT !.weak = lockout.left > 0]
        /\ slipped' = slipped
    BY <1>6 DEF Limiter!Restart
  <2>2. PICK b \in BOOLEAN : b <=> lockout.left > 0
    OBVIOUS
  <2>3. lockout' = [lockout EXCEPT !.weak = b]
    BY <2>1, <2>2
  <2>4. /\ lockout' \in [left: 0 .. BanDuration, weak: BOOLEAN]
        /\ lockout'.left = lockout.left /\ lockout'.weak = b
    BY <2>3 DEF BanInv
  <2> QED
    BY <1>1, <1>2, <2>1, <2>2, <2>4 DEF BanInv
<1>8. ASSUME NEW l \in Logins, Limiter!CheckUnread(l) PROVE BanInv'
  <2>1. UNCHANGED <<ban, lockout>> /\ ban = 0
    BY <1>8 DEF Limiter!CheckUnread, Limiter!Unread
  <2>2. lockout.left = 0 \/ lockout.weak
    BY <1>1, <1>2, <2>1
  <2>3. slipped' # "held"
    BY <1>8, <2>2 DEF Limiter!CheckUnread, Limiter!LetThrough, BanInv
  <2> QED
    BY <2>1, <2>3 DEF BanInv
<1>9. ASSUME NEW l \in Logins, Limiter!RecordUnread(l) PROVE BanInv'
  <2>1. lockout' = Limiter!Reached(TRUE) /\ UNCHANGED <<ban, slipped>>
    BY <1>9 DEF Limiter!RecordUnread
  <2>2. CASE lockout' = lockout
    BY <2>1, <2>2 DEF BanInv
  <2>3. CASE lockout' = [left |-> BanDuration, weak |-> TRUE]
    BY <1>1, <1>10, <2>1, <2>3 DEF BanInv
  <2> QED
    BY <2>1, <2>2, <2>3 DEF Limiter!Reached
<1>7. ASSUME \/ \E l \in Logins : Limiter!Authenticated(l)
             \/ UNCHANGED Limiter!vars
      PROVE  BanInv'
  BY <1>7 DEF Limiter!Authenticated, Limiter!vars, BanInv
<1> QED
  BY <1>3, <1>4, <1>5, <1>6, <1>7, <1>8, <1>9 DEF Limiter!Next

\* No failure yet, and no ban.
LEMMA LimiterInit == Limiter!Init => TriesInv /\ BanInv
<1> SUFFICES ASSUME Limiter!Init PROVE TriesInv /\ BanInv
  OBVIOUS
<1>1. Passed = {} /\ tries = {} /\ ban = 0 /\ lockout = [left |-> 0, weak |-> FALSE] /\ slipped = "no"
  BY DEF Limiter!Init, Passed, Limiter!NoLockout
<1>2. IsFiniteSet({}) /\ Cardinality({}) = 0
  BY FS_EmptySet
<1>3. TriesInv
  BY <1>1, <1>2, LoginSets, LimiterAssumption DEF TriesInv, Limiter!Init
<1>4. BanInv
  BY <1>1, LimiterAssumption DEF BanInv
<1> QED
  BY <1>3, <1>4

\* What the limiter promises follows.
LEMMA LimiterPromises ==
    TriesInv /\ BanInv => Limiter!TypeOK /\ Limiter!FailuresBounded /\ Limiter!LockoutHolds
<1> SUFFICES ASSUME TriesInv, BanInv
             PROVE  Limiter!TypeOK /\ Limiter!FailuresBounded /\ Limiter!LockoutHolds
  OBVIOUS
<1>1. Passed \in SUBSET Logins /\ Cardinality(tries) \in Nat
  BY FS_CardinalityType DEF Passed, TriesInv
<1>2. Limiter!FailuresBounded
  BY <1>1, LoginSets, LimiterAssumption, SameCount DEF TriesInv, Limiter!FailuresBounded
<1> QED
  BY <1>2 DEF TriesInv, BanInv, Limiter!TypeOK, Limiter!LockoutHolds
----------------------------------------------------------------------------
\* Sessions and bans keep their promises, for any timeouts, throttle, cache life
\* and length of requests, any limits, and any number of either: no session
\* outlives the expiry it was created with, one in use does not become idle, a
\* logout is final but for the look-ups in progress, and a ban lasts.
THEOREM SessionsAndBansHoldHolds == Clock!Spec /\ Limiter!Spec => []SessionsAndBansHold
<1>1. Clock!Spec => []ClockInv
  BY ClockInit, ClockNext, PTL DEF Clock!Spec
<1>2. Limiter!Spec => [](TriesInv /\ BanInv)
  BY LimiterInit, TriesNext, BanNext, PTL DEF Limiter!Spec
<1>3. ClockInv /\ TriesInv /\ BanInv => SessionsAndBansHold
  BY ClockPromises, LimiterPromises DEF SessionsAndBansHold
<1> QED
  BY <1>1, <1>2, <1>3, PTL
----------------------------------------------------------------------------
\* Single sign-on: every sign-in is its owner's, rows, sessions, flows and
\* providers together, for the parameters that are assumed here.
THEOREM SignOnIsOwnHolds == SignOn!Spec => []SignOnIsOwn
<1>1. SignOn!Spec => []SignOn!SignOnIsOwn
  BY SignOn!SignOnIsOwnHolds, SignOnAssumption
<1>2. SignOn!SignOnIsOwn => SignOnIsOwn
  BY DEF SignOnIsOwn
<1> QED
  BY <1>1, <1>2, PTL
=============================================================================
