-------------------------- MODULE AuthTokensProofs --------------------------
(***************************************************************************)
(* TicketInvariant is an invariant of AuthTokens, for any number of        *)
(* accounts, credentials and requests, and with it sessions and tokens are *)
(* single-use and implement TicketLife.                                    *)
(***************************************************************************)
EXTENDS AuthTokens, TLAPS

USE AuthBoundsAssumption

\* What an action does not touch.
LEMMA Typed ==
    ASSUME AuthTypeOK
    PROVE  /\ serial \in Nat /\ accountSeq \in Nat
           /\ \A r \in Request : req[r] \in Requests
           /\ \A t \in tokens : t \in Token /\ t.id <= serial
           /\ \A s \in sessions : s \in Session /\ s.id <= serial
BY DEF AuthTypeOK

LEMMA InitTickets == AuthInit => TicketInvariant
<1> SUFFICES ASSUME AuthInit PROVE TicketInvariant
  OBVIOUS
<1>1. AuthTypeOK
  BY DEF AuthInit, AuthTypeOK, Requests, Idle
<1> QED
  BY <1>1 DEF AuthInit, TicketInvariant, SerialsNameOneThing, GivenForBlocked, HoldersAlone,
              OneHeirPerTicket, SecondFactorBehindEveryPair, Holds, At, Idle

-----------------------------------------------------------------------------
(* Steps that issue and revoke nothing. *)

\* Sessions may go, and requests may start, move to a phase in which they hold
\* no token, or end.
LEMMA CalmStep ==
    ASSUME TicketInvariant, AuthTypeOK', sessions' \subseteq sessions,
           UNCHANGED <<tokens, serial, blocklist, loggedOut>>,
           \A r \in Request : \/ req'[r] = req[r]
                              \/ req'[r].phase \in {"idle", "current_user"}
                              \/ /\ req'[r].phase = "accepted"
                                 /\ req'[r].token \in tokens
                                 /\ req'[r].token.scope = req'[r].expects
                                 /\ req'[r].expects # "full"
    PROVE  TicketInvariant'
<1> USE DEF TicketInvariant
<1>1. SerialsNameOneThing'
  BY DEF SerialsNameOneThing
<1>2. GivenForBlocked' /\ OneHeirPerTicket' /\ SecondFactorBehindEveryPair'
  BY DEF GivenForBlocked, OneHeirPerTicket, SecondFactorBehindEveryPair
<1>3. HoldersAlone'
  BY DEF HoldersAlone, Holds, At
<1> QED
  BY <1>1, <1>2, <1>3

LEMMA FinishTyped ==
    ASSUME AuthTypeOK, NEW r \in Request, Finish(r)
    PROVE  req' \in [Request -> Requests] /\ req'[r] = Idle
           /\ \A q \in Request \ {r} : req'[q] = req[q]
BY DEF AuthTypeOK, Finish, Requests

LEMMA RegisterTickets ==
    ASSUME TicketInvariant, NEW n \in Name, register(n)
    PROVE  TicketInvariant'
<1>1. accountSeq' \in 0..MaxAccount /\ accounts' \subseteq [id : 1..accountSeq', name : Name]
  <2>1. accountSeq \in 0..MaxAccount /\ accountSeq' = accountSeq + 1 /\ accountSeq < MaxAccount
        /\ accounts' = accounts \cup {[id |-> accountSeq', name |-> n]}
        /\ accounts \subseteq [id : 1..accountSeq, name : Name]
    BY DEF TicketInvariant, AuthTypeOK, register
  <2>2. accountSeq' \in 0..MaxAccount /\ 1..accountSeq \subseteq 1..accountSeq'
        /\ accountSeq' \in 1..accountSeq'
    BY <2>1
  <2>3. \A a \in accounts : a \in [id : 1..accountSeq', name : Name]
    BY <2>1, <2>2
  <2> QED
    BY <2>1, <2>2, <2>3
<1>2. AuthTypeOK'
  BY <1>1 DEF TicketInvariant, AuthTypeOK, register, tokenVars
<1> QED
  BY <1>2, CalmStep DEF register, tokenVars

LEMMA FailedProofTickets ==
    ASSUME TicketInvariant, srp_verify_fails
    PROVE  TicketInvariant'
<1>1. sessions' \subseteq sessions
  BY DEF srp_verify_fails, SessionsAfter, Unexpired
<1>2. AuthTypeOK'
  BY <1>1 DEF TicketInvariant, AuthTypeOK, srp_verify_fails, tokenVars, accountVars
<1> QED
  BY <1>1, <1>2, CalmStep DEF srp_verify_fails, tokenVars, accountVars

LEMMA VerifyTokenTickets ==
    ASSUME TicketInvariant, NEW r \in Request, NEW scope \in {"totp_only", "refresh"},
           verify_token(r, scope)
    PROVE  TicketInvariant'
<1>1. PICK t \in tokens : /\ t.scope = scope
                          /\ req' = [req EXCEPT ![r] = [phase |-> "accepted",
                                                        expects |-> scope, token |-> t]]
  BY DEF verify_token, Accepts
<1>2. req' \in [Request -> Requests] /\ \A q \in Request \ {r} : req'[q] = req[q]
      /\ req'[r] = [phase |-> "accepted", expects |-> scope, token |-> t]
  BY <1>1 DEF TicketInvariant, AuthTypeOK, Requests, Scope
<1>3. AuthTypeOK'
  BY <1>2 DEF TicketInvariant, AuthTypeOK, verify_token, tokenVars, accountVars
<1> QED
  BY <1>1, <1>2, <1>3, CalmStep DEF verify_token, tokenVars, accountVars

LEMMA CurrentUserTickets ==
    ASSUME TicketInvariant, NEW r \in Request, get_current_user(r)
    PROVE  TicketInvariant'
<1>1. PICK t \in tokens : req' = [req EXCEPT ![r] = [phase |-> "current_user",
                                                     expects |-> "full", token |-> t]]
  BY DEF get_current_user
<1>2. req' \in [Request -> Requests] /\ \A q \in Request \ {r} : req'[q] = req[q]
      /\ req'[r].phase = "current_user"
  BY <1>1 DEF TicketInvariant, AuthTypeOK, Requests, Scope
<1>3. AuthTypeOK'
  BY <1>2 DEF TicketInvariant, AuthTypeOK, get_current_user, tokenVars, accountVars
<1> QED
  BY <1>2, <1>3, CalmStep DEF get_current_user, tokenVars, accountVars

LEMMA RejectTickets ==
    ASSUME TicketInvariant, NEW r \in Request, reject(r)
    PROVE  TicketInvariant'
<1>1. req' \in [Request -> Requests] /\ req'[r] = Idle
      /\ \A q \in Request \ {r} : req'[q] = req[q]
  BY FinishTyped DEF TicketInvariant, reject
<1>2. AuthTypeOK'
  BY <1>1 DEF TicketInvariant, AuthTypeOK, reject, tokenVars, accountVars
<1> QED
  BY <1>1, <1>2, CalmStep DEF reject, tokenVars, accountVars, Idle

LEMMA DeleteMeTickets ==
    ASSUME TicketInvariant, NEW r \in Request, delete_me(r)
    PROVE  TicketInvariant'
<1>1. req' \in [Request -> Requests] /\ req'[r] = Idle
      /\ \A q \in Request \ {r} : req'[q] = req[q]
  BY FinishTyped DEF TicketInvariant, delete_me
<1>2. AuthTypeOK'
  BY <1>1 DEF TicketInvariant, AuthTypeOK, delete_me, tokenVars
<1> QED
  BY <1>1, <1>2, CalmStep DEF delete_me, tokenVars, Idle

LEMMA ExpireTickets ==
    ASSUME TicketInvariant, expire
    PROVE  TicketInvariant'
<1>1. Credentials \subseteq ({"srp"} \cup Scope) \X Serial
  BY DEF Credentials, TicketInvariant, AuthTypeOK, Session, Token
<1>2. AuthTypeOK'
  BY <1>1 DEF TicketInvariant, AuthTypeOK, expire, tokenVars, accountVars
<1> QED
  BY <1>2, CalmStep DEF expire, tokenVars, accountVars

LEMMA RestartTickets ==
    ASSUME TicketInvariant, restart
    PROVE  TicketInvariant'
<1>1. AuthTypeOK'
  BY DEF TicketInvariant, AuthTypeOK, restart, tokenVars, accountVars, Requests
<1> QED
  BY <1>1, CalmStep DEF restart, tokenVars, accountVars, Idle

-----------------------------------------------------------------------------
(* Steps of a request that holds a token, or comes to. *)

LEMMA RevokeTickets ==
    ASSUME TicketInvariant, NEW r \in Request, revoke_token(r)
    PROVE  TicketInvariant'
<1> DEFINE i == req[r].token.id
<1> USE DEF TicketInvariant
<1>1. /\ req[r].phase = "accepted" /\ req[r].token \in tokens
      /\ req[r].expects # "full" /\ req[r].token.scope = req[r].expects
      /\ i \notin blocklist /\ blocklist' = blocklist \cup {i}
      /\ UNCHANGED <<accounts, accountSeq, sessions, tokens, serial, expired, loggedOut>>
      /\ req[r] \in Requests
  BY DEF revoke_token, NotBlocked, HoldersAlone, At, AuthTypeOK, accountVars, tokenVars
<1>2. /\ req' \in [Request -> Requests]
      /\ req'[r].phase = "revoked" /\ req'[r].token = req[r].token
      /\ req'[r].expects = req[r].expects
      /\ \A q \in Request \ {r} : req'[q] = req[q]
  BY <1>1 DEF revoke_token, Advance, AuthTypeOK, Requests, Idle
<1>3. i \in 1..serial
  BY <1>1, Typed DEF Token, Serial
<1>4. AuthTypeOK'
  BY <1>1, <1>2, <1>3 DEF AuthTypeOK
<1>5. (\A t \in tokens : t.from # i) /\ (\A s \in sessions : s.id # i)
  BY <1>1 DEF SerialsNameOneThing, GivenForBlocked
<1>6. i \notin loggedOut
  BY <1>1 DEF AuthTypeOK
<1> HIDE DEF i
<1>7. HoldersAlone'
  <2>1. \A q \in Request \ {r} : Holds(q) => req[q].token.id # i
    BY <1>1 DEF HoldersAlone
  <2>2. \A q \in Request : req'[q].token = req[q].token /\ req'[q].expects = req[q].expects
    BY <1>2
  <2>3. \A q \in Request \ {r} : Holds(q)' = Holds(q) /\ At(q, "accepted")' = At(q, "accepted")
                                /\ At(q, "preauth_user")' = At(q, "preauth_user")
    BY <1>2 DEF Holds, At
  <2>4. Holds(r)' /\ ~At(r, "accepted")' /\ ~At(r, "preauth_user")' /\ req[r].token.id = i
    BY <1>2 DEF Holds, At, i
  <2> QED
    BY <1>1, <1>5, <1>6, <2>1, <2>2, <2>3, <2>4 DEF HoldersAlone
<1>8. SerialsNameOneThing'
  BY <1>1, <1>5 DEF SerialsNameOneThing
<1>9. GivenForBlocked' /\ OneHeirPerTicket' /\ SecondFactorBehindEveryPair'
  BY <1>1 DEF GivenForBlocked, OneHeirPerTicket, SecondFactorBehindEveryPair
<1> QED
  BY <1>4, <1>7, <1>8, <1>9

LEMMA PreauthUserTickets ==
    ASSUME TicketInvariant, NEW r \in Request, load_preauth_user(r)
    PROVE  TicketInvariant'
<1> USE DEF TicketInvariant
<1>1. /\ req[r].phase = "revoked" /\ req[r].expects = "totp_only"
      /\ UNCHANGED <<accounts, accountSeq, sessions, tokens, serial, expired, blocklist, loggedOut>>
      /\ req[r] \in Requests
  BY DEF load_preauth_user, At, AuthTypeOK, accountVars, tokenVars
<1>2. /\ req' \in [Request -> Requests]
      /\ req'[r].phase = "preauth_user"
      /\ \A q \in Request : req'[q].token = req[q].token /\ req'[q].expects = req[q].expects
      /\ \A q \in Request \ {r} : req'[q] = req[q]
  BY <1>1 DEF load_preauth_user, Advance, AuthTypeOK, Requests, Idle
<1>3. AuthTypeOK'
  BY <1>1, <1>2 DEF AuthTypeOK
<1>4. HoldersAlone'
  <2>1. \A q \in Request : Holds(q)' = Holds(q) /\ At(q, "accepted")' = At(q, "accepted")
    BY <1>1, <1>2 DEF Holds, At
  <2>2. \A q \in Request : At(q, "preauth_user")' => At(q, "preauth_user") \/ q = r
    BY <1>2 DEF At
  <2> QED
    BY <1>1, <1>2, <2>1, <2>2 DEF HoldersAlone
<1>5. SerialsNameOneThing' /\ GivenForBlocked' /\ OneHeirPerTicket' /\ SecondFactorBehindEveryPair'
  BY <1>1 DEF SerialsNameOneThing, GivenForBlocked, OneHeirPerTicket, SecondFactorBehindEveryPair
<1> QED
  BY <1>3, <1>4, <1>5

LEMMA LogoutTickets ==
    ASSUME TicketInvariant, NEW r \in Request, logout(r)
    PROVE  TicketInvariant'
<1> USE DEF TicketInvariant
<1>1. /\ Holds(r) /\ loggedOut' = loggedOut \cup {req[r].token.id}
      /\ UNCHANGED <<accounts, accountSeq, sessions, tokens, serial, expired, blocklist>>
  BY DEF logout, At, Holds, accountVars, tokenVars
<1>2. req' \in [Request -> Requests] /\ req'[r] = Idle
      /\ \A q \in Request \ {r} : req'[q] = req[q]
  BY FinishTyped DEF logout
<1>3. /\ req[r].token.id \in blocklist
      /\ \A t \in tokens : t.from # req[r].token.id
      /\ \A q \in Request \ {r} : Holds(q) => req[q].token.id # req[r].token.id
  BY <1>1 DEF HoldersAlone
<1>4. AuthTypeOK'
  BY <1>1, <1>2, <1>3 DEF AuthTypeOK
<1>5. HoldersAlone'
  BY <1>1, <1>2, <1>3 DEF HoldersAlone, Holds, At, Idle
<1>6. OneHeirPerTicket'
  BY <1>1, <1>3 DEF OneHeirPerTicket
<1>7. SerialsNameOneThing' /\ GivenForBlocked' /\ SecondFactorBehindEveryPair'
  BY <1>1 DEF SerialsNameOneThing, GivenForBlocked, SecondFactorBehindEveryPair
<1> QED
  BY <1>4, <1>5, <1>6, <1>7

-----------------------------------------------------------------------------
(* Steps that issue something. *)

\* New tokens are given for the ticket f, for which nothing was given before.
LEMMA IssueStep ==
    ASSUME TicketInvariant, AuthTypeOK', NEW f \in 1..serial, NEW New,
           serial' = serial + 1, tokens' = tokens \cup New, sessions' \subseteq sessions,
           UNCHANGED <<blocklist, loggedOut>>,
           f \notin loggedOut,
           \A t \in tokens : t.from # f,
           \A s \in sessions' : s.id # f,
           \A t \in New : /\ t.id = serial' /\ t.from = f
                          /\ t.scope # "totp_only" => f \in blocklist /\ t.totp
                          /\ t.scope = "totp_only" => \A u \in tokens : u.id # f,
           \A t \in New : \A u \in New : t.scope = u.scope => t = u,
           \A r \in Request : \/ req'[r] = req[r] /\ (Holds(r) => req[r].token.id # f)
                              \/ req'[r] = Idle
    PROVE  TicketInvariant'
<1> USE DEF TicketInvariant
<1>1. /\ serial \in Nat
      /\ \A t \in tokens : t.id <= serial /\ t.id \in Nat /\ t.from \in Nat
      /\ \A s \in sessions : s.id <= serial /\ s.id \in Nat
  BY Typed DEF Token, Session, Serial
<1>2. SerialsNameOneThing'
  <2>1. \A s \in sessions' : \A z \in sessions' : s.id = z.id => s = z
    BY DEF SerialsNameOneThing
  <2>2. ASSUME NEW s \in sessions', NEW t \in tokens'
        PROVE  s.id # t.id /\ s.id # t.from
    BY <1>1 DEF SerialsNameOneThing
  <2>3. ASSUME NEW t \in tokens'
        PROVE  t.from <= serial'
    BY <1>1 DEF SerialsNameOneThing
  <2>4. ASSUME NEW t \in tokens', NEW u \in tokens', t.scope = "totp_only"
        PROVE  t.from # u.id
    <3>1. CASE t \in tokens /\ u \in tokens
      BY <2>4, <3>1 DEF SerialsNameOneThing
    <3>2. CASE t \in tokens /\ u \in New
      BY <1>1, <3>2 DEF SerialsNameOneThing
    <3>3. CASE t \in New
      BY <1>1, <2>4, <3>3
    <3> QED
      BY <3>1, <3>2, <3>3
  <2> QED
    BY <2>1, <2>2, <2>3, <2>4 DEF SerialsNameOneThing
<1>3. GivenForBlocked' /\ SecondFactorBehindEveryPair'
  BY DEF GivenForBlocked, SecondFactorBehindEveryPair
<1>4. OneHeirPerTicket'
  BY DEF OneHeirPerTicket
<1>5. HoldersAlone'
  <2>1. \A r \in Request : ~(req'[r] = req[r]) => ~Holds(r)' /\ ~At(r, "accepted")'
                                                  /\ ~At(r, "preauth_user")'
    BY DEF Holds, At, Idle
  <2>2. \A r \in Request : req'[r] = req[r] => /\ Holds(r)' = Holds(r)
                                              /\ At(r, "accepted")' = At(r, "accepted")
                                              /\ At(r, "preauth_user")' = At(r, "preauth_user")
    BY DEF Holds, At
  <2>3. ASSUME NEW r \in Request, Holds(r)'
        PROVE  /\ req'[r] = req[r] /\ Holds(r) /\ req[r].token.id # f
    BY <2>1, <2>2, <2>3 DEF Holds, Idle
  <2> QED
    BY <2>1, <2>2, <2>3 DEF HoldersAlone
<1> QED
  BY <1>2, <1>3, <1>4, <1>5

LEMMA SrpInitTickets ==
    ASSUME TicketInvariant, NEW a \in accounts, srp_init(a)
    PROVE  TicketInvariant'
<1> DEFINE new == [id |-> serial', name |-> a.name, verifier |-> a.id]
<1> USE DEF TicketInvariant
<1>1. /\ serial \in Nat /\ serial' = serial + 1 /\ serial' \in 0..MaxSerial /\ serial' \in Serial
      /\ sessions' = Unexpired \cup {new} /\ Unexpired \subseteq sessions
      /\ UNCHANGED <<accounts, accountSeq, tokens, expired, blocklist, req, loggedOut>>
  BY DEF srp_init, AuthTypeOK, accountVars, Serial, Unexpired
<1>2. /\ \A t \in tokens : t.id <= serial /\ t.id \in Nat /\ t.from \in Nat
      /\ \A s \in sessions : s.id <= serial /\ s.id \in Nat
  BY Typed DEF Token, Session, Serial
<1>3. new \in Session
  BY <1>1 DEF AuthTypeOK, Session, AccountId
<1>4. AuthTypeOK'
  <2>1. sessions' \subseteq {s \in Session : s.id <= serial'}
    BY <1>1, <1>2, <1>3 DEF AuthTypeOK
  <2>2. tokens' \subseteq {t \in Token : t.id <= serial'} /\ blocklist' \subseteq 1..serial'
    BY <1>1, <1>2 DEF AuthTypeOK
  <2> QED
    BY <1>1, <2>1, <2>2 DEF AuthTypeOK
<1>5. new.id = serial + 1
  BY <1>1
<1> HIDE DEF new
<1>6. SerialsNameOneThing'
  <2>1. \A s \in sessions' : \A z \in sessions' : s.id = z.id => s = z
    BY <1>1, <1>2, <1>5 DEF SerialsNameOneThing
  <2>2. \A s \in sessions', t \in tokens' : s.id # t.id /\ s.id # t.from
    BY <1>1, <1>2, <1>5 DEF SerialsNameOneThing
  <2>3. \A t \in tokens' : t.from <= serial'
    BY <1>1, <1>2 DEF SerialsNameOneThing
  <2>4. \A s \in sessions' : s.id \notin blocklist'
    BY <1>1, <1>2, <1>5 DEF SerialsNameOneThing, AuthTypeOK
  <2> QED
    BY <1>1, <2>1, <2>2, <2>3, <2>4 DEF SerialsNameOneThing
<1>7. GivenForBlocked' /\ OneHeirPerTicket' /\ SecondFactorBehindEveryPair'
  BY <1>1 DEF GivenForBlocked, OneHeirPerTicket, SecondFactorBehindEveryPair
<1>8. HoldersAlone'
  BY <1>1 DEF HoldersAlone, Holds, At
<1> QED
  BY <1>4, <1>6, <1>7, <1>8

LEMMA SrpVerifyTickets ==
    ASSUME TicketInvariant, NEW s \in sessions, srp_verify(s)
    PROVE  TicketInvariant'
<1> USE DEF TicketInvariant
<1>1. PICK a \in accounts :
          tokens' = tokens \cup
              {[scope |-> "totp_only", id |-> serial', user |-> a.id, from |-> s.id,
                proven |-> s.verifier, totp |-> FALSE]}
  BY DEF srp_verify, get_user_by_username
<1> DEFINE new == [scope |-> "totp_only", id |-> serial', user |-> a.id, from |-> s.id,
                   proven |-> s.verifier, totp |-> FALSE]
<1>2. /\ serial \in Nat /\ serial' = serial + 1 /\ serial' \in 0..MaxSerial /\ serial' \in Serial
      /\ sessions' \subseteq sessions /\ s \notin sessions'
      /\ UNCHANGED <<accounts, accountSeq, expired, blocklist, req, loggedOut>>
  BY DEF srp_verify, AuthTypeOK, accountVars, Serial, Unexpired, SessionsAfter
<1>3. /\ new \in Token /\ s.id \in 1..serial
      /\ new.id = serial + 1 /\ new.from = s.id /\ new.scope = "totp_only"
      /\ tokens' = tokens \cup {new}
  BY <1>1, <1>2, Typed DEF AuthTypeOK, Session, Token, AccountId, Scope, Serial
<1> HIDE DEF new
<1>4. AuthTypeOK'
  <2>1. /\ \A t \in tokens : t \in Token /\ t.id <= serial /\ t.id \in Nat
        /\ \A z \in sessions : z \in Session /\ z.id <= serial /\ z.id \in Nat
    BY Typed DEF Token, Session, Serial
  <2>2. sessions' \subseteq {z \in Session : z.id <= serial'}
    <3>1. \A z \in sessions' : z \in Session /\ z.id <= serial + 1
      BY <1>2, <2>1
    <3> QED
      BY <1>2, <3>1
  <2>3. tokens' \subseteq {t \in Token : t.id <= serial'} /\ blocklist' \subseteq 1..serial'
    <3>1. \A t \in tokens' : t \in Token /\ t.id <= serial + 1
      BY <1>2, <1>3, <2>1
    <3>2. blocklist' \subseteq 1..serial'
      BY <1>2 DEF AuthTypeOK
    <3> QED
      BY <1>2, <3>1, <3>2
  <2> QED
    BY <1>2, <2>2, <2>3 DEF AuthTypeOK
<1>5. /\ \A t \in tokens : t.from # s.id /\ t.id # s.id
      /\ \A z \in sessions' : z.id # s.id
  BY <1>2 DEF SerialsNameOneThing
<1>6. \A r \in Request : Holds(r) => req[r].token.id # s.id
  BY <1>5 DEF HoldersAlone
<1>7. s.id \notin loggedOut
  BY DEF SerialsNameOneThing, AuthTypeOK
<1> DEFINE New == {new}
<1>8. /\ tokens' = tokens \cup New
      /\ \A t \in New : /\ t.id = serial' /\ t.from = s.id
                        /\ t.scope # "totp_only" => s.id \in blocklist /\ t.totp
                        /\ t.scope = "totp_only" => \A u \in tokens : u.id # s.id
      /\ \A t \in New : \A u \in New : t.scope = u.scope => t = u
  BY <1>2, <1>3, <1>5
<1>9. \A r \in Request : req'[r] = req[r] /\ (Holds(r) => req[r].token.id # s.id)
  BY <1>2, <1>6
<1> HIDE DEF New
<1> QED
  BY <1>2, <1>3, <1>4, <1>5, <1>7, <1>8, <1>9, IssueStep

\* verify_2fa and refresh_tokens: the two tokens for the token that r holds.
LEMMA PairTickets ==
    ASSUME TicketInvariant, NEW r \in Request, Holds(r), NEW totp \in BOOLEAN, totp,
           issue_pair(req[r].token, totp), Finish(r)
    PROVE  TicketInvariant'
<1> USE DEF TicketInvariant
<1> DEFINE given == req[r].token
           New == Pair(given, totp)
<1>1. /\ serial \in Nat /\ serial' = serial + 1 /\ serial' \in 0..MaxSerial /\ serial' \in Serial
      /\ tokens' = tokens \cup New
      /\ UNCHANGED <<accounts, accountSeq, sessions, expired, blocklist, loggedOut>>
  BY DEF issue_pair, AuthTypeOK, accountVars, Serial
<1>2. /\ given \in tokens /\ given \in Token
      /\ given.id \in blocklist /\ given.id \notin loggedOut
      /\ \A t \in tokens : t.from # given.id
      /\ \A q \in Request \ {r} : Holds(q) => req[q].token.id # given.id
  BY Typed DEF HoldersAlone
<1>3. req' \in [Request -> Requests] /\ req'[r] = Idle
      /\ \A q \in Request \ {r} : req'[q] = req[q]
  BY FinishTyped
<1>4. /\ \A t \in New : /\ t \in Token /\ t.id = serial + 1 /\ t.from = given.id
                        /\ t.scope # "totp_only" /\ t.totp
      /\ \A t \in New : \A u \in New : t.scope = u.scope => t = u
  <2>1. /\ given.user \in AccountId /\ given.id \in Serial /\ given.proven \in AccountId
    BY <1>2 DEF Token
  <2>2. serial + 1 \in Serial
    BY <1>1
  <2> HIDE DEF given
  <2> DEFINE new(scope) == [scope |-> scope, id |-> serial + 1, user |-> given.user,
                            from |-> given.id, proven |-> given.proven, totp |-> totp]
  <2>3. ASSUME NEW t \in New
        PROVE  /\ t \in Token /\ t.id = serial + 1 /\ t.from = given.id
               /\ t.scope # "totp_only" /\ t.totp
    <3>1. PICK scope \in {"full", "refresh"} : t = new(scope)
      BY DEF Pair
    <3> QED
      BY <2>1, <2>2, <3>1 DEF Token, Scope
  <2>4. ASSUME NEW t \in New, NEW u \in New, t.scope = u.scope
        PROVE  t = u
    <3>1. PICK a \in {"full", "refresh"} : t = new(a)
      BY DEF Pair
    <3>2. PICK b \in {"full", "refresh"} : u = new(b)
      BY DEF Pair
    <3>3. t.scope = a /\ u.scope = b
      BY <3>1, <3>2
    <3> QED
      BY <2>4, <3>1, <3>2, <3>3
  <2> QED
    BY <2>3, <2>4
<1> HIDE DEF New, given
<1>5. AuthTypeOK'
  <2>1. /\ \A t \in tokens : t \in Token /\ t.id <= serial /\ t.id \in Nat
        /\ \A z \in sessions : z \in Session /\ z.id <= serial /\ z.id \in Nat
    BY Typed DEF Token, Session, Serial
  <2>2. sessions' \subseteq {z \in Session : z.id <= serial'}
    BY <1>1, <2>1
  <2>3. \A t \in tokens' : t \in Token /\ t.id <= serial'
    BY <1>1, <1>4, <2>1
  <2>4. blocklist' \subseteq 1..serial' /\ loggedOut' \subseteq blocklist'
    BY <1>1 DEF AuthTypeOK
  <2> QED
    BY <1>1, <1>3, <2>2, <2>3, <2>4 DEF AuthTypeOK
<1>6. \A s \in sessions' : s.id # given.id
  BY <1>1, <1>2 DEF SerialsNameOneThing
<1>7. given.id \in 1..serial
  BY <1>2 DEF AuthTypeOK
<1>8. \A q \in Request : \/ req'[q] = req[q] /\ (Holds(q) => req[q].token.id # given.id)
                        \/ req'[q] = Idle
  BY <1>2, <1>3
<1>9. \A t \in New : /\ t.id = serial' /\ t.from = given.id
                     /\ t.scope # "totp_only" => given.id \in blocklist /\ t.totp
                     /\ t.scope = "totp_only" => \A u \in tokens : u.id # given.id
  BY <1>1, <1>2, <1>4
<1> QED
  BY <1>1, <1>2, <1>4, <1>5, <1>6, <1>7, <1>8, <1>9, IssueStep

LEMMA Verify2faTickets ==
    ASSUME TicketInvariant, NEW r \in Request, verify_2fa(r)
    PROVE  TicketInvariant'
<1>1. Holds(r) /\ issue_pair(req[r].token, TRUE) /\ Finish(r)
  BY DEF verify_2fa, Holds, At
<1> QED
  BY <1>1, PairTickets

LEMMA RefreshTickets ==
    ASSUME TicketInvariant, NEW r \in Request, refresh_tokens(r)
    PROVE  TicketInvariant'
<1>1. Holds(r) /\ issue_pair(req[r].token, req[r].token.totp) /\ Finish(r)
      /\ req[r].expects = "refresh"
  BY DEF refresh_tokens, Holds, At
<1>2. req[r].token \in tokens /\ req[r].token.scope = "refresh"
  BY <1>1 DEF TicketInvariant, HoldersAlone
<1>3. req[r].token.totp /\ req[r].token.totp \in BOOLEAN
  BY <1>2, Typed DEF TicketInvariant, SecondFactorBehindEveryPair, Token
<1> QED
  BY <1>1, <1>3, PairTickets

-----------------------------------------------------------------------------
(* The invariant *)

LEMMA StepTickets == TicketInvariant /\ [AuthNext]_authVars => TicketInvariant'
<1> SUFFICES ASSUME TicketInvariant, [AuthNext]_authVars PROVE TicketInvariant'
  OBVIOUS
<1>1. CASE UNCHANGED authVars
  BY <1>1 DEF authVars, TicketInvariant, AuthTypeOK, SerialsNameOneThing, GivenForBlocked,
              HoldersAlone, OneHeirPerTicket, SecondFactorBehindEveryPair, Holds, At
<1>2. CASE Handshake
  BY <1>2, RegisterTickets, SrpInitTickets, SrpVerifyTickets, FailedProofTickets DEF Handshake
<1>3. ASSUME NEW r \in Request, Dependency(r) PROVE TicketInvariant'
  BY <1>3, VerifyTokenTickets, RevokeTickets, PreauthUserTickets, CurrentUserTickets,
     RejectTickets DEF Dependency
<1>4. ASSUME NEW r \in Request, Endpoint(r) PROVE TicketInvariant'
  BY <1>4, Verify2faTickets, RefreshTickets, LogoutTickets, DeleteMeTickets DEF Endpoint
<1>5. CASE expire
  BY <1>5, ExpireTickets
<1>6. CASE restart
  BY <1>6, RestartTickets
<1> QED
  BY <1>1, <1>2, <1>3, <1>4, <1>5, <1>6 DEF AuthNext

\* TicketInvariant holds in every state of AuthSpec.
THEOREM TicketsHold == AuthSpec => []TicketInvariant
BY InitTickets, StepTickets, PTL DEF AuthSpec

\* No session or token has an id that is still to be drawn.  From the check on, a
\* request for another token presents an issued one of the scope its dependency
\* expects; once it has revoked it, no other request holds it too, nothing was
\* given for it before and no logout has taken it (api/deps.py 38-68).
THEOREM TokenInOneHand == AuthSpec => []AuthTypeOK /\ []HoldersAlone
<1>1. TicketInvariant => AuthTypeOK /\ HoldersAlone
  BY DEF TicketInvariant
<1> QED
  BY <1>1, TicketsHold, PTL

\* Of any number of requests that present the same session, pre-auth or refresh
\* token (api/deps.py 38-68, auth/tokens.py 83-118), one at most is given
\* something for it, and none once a logout with it has succeeded.
THEOREM SingleUse == AuthSpec => []OneHeirPerTicket
<1>1. TicketInvariant => OneHeirPerTicket
  BY DEF TicketInvariant
<1> QED
  BY <1>1, TicketsHold, PTL

\* No chain of refreshes leads from a pre-auth token to access without a TOTP
\* code (api/auth.py 145-179).
THEOREM SecondFactor == AuthSpec => []SecondFactorBehindEveryPair
<1>1. TicketInvariant => SecondFactorBehindEveryPair
  BY DEF TicketInvariant
<1> QED
  BY <1>1, TicketsHold, PTL
=============================================================================
