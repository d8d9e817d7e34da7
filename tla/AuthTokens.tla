----------------------------- MODULE AuthTokens -----------------------------
(***************************************************************************)
(* Logging in and staying logged in: app/api/auth.py, the dependencies of  *)
(* app/api/deps.py it uses, app/auth/srp_session.py, app/auth/tokens.py    *)
(* and the blocklist of app/repositories/user.py.                          *)
(*                                                                         *)
(* register, srp-init and srp-verify are `async def` endpoints that never  *)
(* await and read nothing beforehand: each is one step.  What verify-2fa,  *)
(* refresh and logout do with the token they are given is in a dependency, *)
(* which runs in the thread pool: the SELECT on the blocklist, the INSERT  *)
(* into it (each in a session of its own) and the lookup of the account    *)
(* are steps of their own, and the endpoint comes after them.              *)
(*                                                                         *)
(* The SRP sessions are a dictionary of the process and go with it; the    *)
(* accounts and the blocklist are tables.  A credential may pass its       *)
(* expiry at any time after it is issued: no time to live is assumed to be *)
(* longer than another.  SRP and TOTP are taken to do their job: whether a *)
(* proof or a code is right is a choice of the step that checks it.        *)
(***************************************************************************)
EXTENDS Integers

CONSTANTS
    Name,        \* usernames
    Request,     \* the requests that can be in flight at once
    MaxAccount,  \* bound: how many accounts are ever registered
    MaxSerial    \* bound: how many sessions and tokens are ever issued

ASSUME AuthBoundsAssumption == MaxAccount \in Nat /\ MaxSerial \in Nat

VARIABLES
    accounts,    \* table users
    accountSeq,  \* the last id users.id was given
    sessions,    \* _sessions of srp_session.py
    tokens,      \* every token that was issued: clients keep them
    serial,      \* the last session id or jti (random, so never the same twice)
    expired,     \* the credentials past their expiry, as <<kind, serial>>
    blocklist,   \* table refresh_token_blocklist
    req,         \* how far each request has come
    loggedOut    \* history: the jti of each token whose logout answered 204

authVars == <<accounts, accountSeq, sessions, tokens, serial, expired,
              blocklist, req, loggedOut>>

AccountId == 1..MaxAccount
Serial    == 1..MaxSerial
Scope     == {"totp_only", "refresh", "full"}

Account == [id : AccountId, name : Name]

\* verifier: the account whose verifier the session was opened with.
Session == [id : Serial, name : Name, verifier : AccountId]

\* from: the session or token it was given for.  The rest is history: whose
\* password was proven, and whether a TOTP code was accepted on the way.
\* The two tokens of a TokenResponse have one serial.
Token ==
    [scope : Scope, id : Serial, user : AccountId, from : Serial,
     proven : AccountId, totp : BOOLEAN]

None == [scope |-> "none"]

Idle == [phase |-> "idle", expects |-> "none", token |-> None]

\* expects: the scope of token the request's dependency asks for.
Requests ==
    {Idle} \cup
    [phase : {"accepted", "revoked", "preauth_user", "current_user"},
     expects : Scope, token : Token]

AuthTypeOK ==
    /\ accountSeq \in 0..MaxAccount
    /\ accounts \subseteq [id : 1..accountSeq, name : Name]
    /\ serial \in 0..MaxSerial
    /\ sessions \subseteq {s \in Session : s.id <= serial}
    /\ tokens \subseteq {t \in Token : t.id <= serial}
    /\ expired \subseteq ({"srp"} \cup Scope) \X Serial
    /\ blocklist \subseteq 1..serial
    /\ req \in [Request -> Requests]
    /\ loggedOut \subseteq blocklist

AuthInit ==
    /\ accounts = {}   /\ accountSeq = 0
    /\ sessions = {}   /\ tokens = {}   /\ serial = 0
    /\ expired = {}    /\ blocklist = {}
    /\ req = [r \in Request |-> Idle]
    /\ loggedOut = {}

At(r, phase) == req[r].phase = phase
Advance(r, phase) == req' = [req EXCEPT ![r].phase = phase]
Finish(r) == req' = [req EXCEPT ![r] = Idle]

accountVars == <<accounts, accountSeq>>
tokenVars   == <<tokens, serial>>

-----------------------------------------------------------------------------
(* Accounts and the password *)

get_user_by_username(n) == {a \in accounts : a.name = n}

register(n) ==
    /\ accountSeq < MaxAccount
    /\ get_user_by_username(n) = {}
    /\ accountSeq' = accountSeq + 1
    /\ accounts' = accounts \cup {[id |-> accountSeq', name |-> n]}
    /\ UNCHANGED <<sessions, tokenVars, expired, blocklist, req, loggedOut>>

\* What _purge_expired leaves of the sessions.
Unexpired == {s \in sessions : <<"srp", s.id>> \notin expired}

srp_init(a) ==
    /\ a \in accounts
    /\ serial < MaxSerial
    /\ serial' = serial + 1
    /\ sessions' = Unexpired \cup {[id |-> serial', name |-> a.name, verifier |-> a.id]}
    /\ UNCHANGED <<accountVars, tokens, expired, blocklist, req, loggedOut>>

\* MUTANT: the session is only looked up.
SessionsAfterLookup(s) == Unexpired

\* The sessions once srp_verify has popped s.
SessionsAfter(s) == Unexpired \ {s}

\* The account is the one that has the name of the session now.
srp_verify(s) ==
    /\ s \in Unexpired
    /\ serial < MaxSerial
    /\ serial' = serial + 1
    /\ sessions' = SessionsAfter(s)
    /\ \E a \in get_user_by_username(s.name) :
          tokens' = tokens \cup
              {[scope |-> "totp_only", id |-> serial', user |-> a.id, from |-> s.id,
                proven |-> s.verifier, totp |-> FALSE]}
    /\ UNCHANGED <<accountVars, expired, blocklist, req, loggedOut>>

\* The proof is wrong or the account is gone; or there is no such session.
srp_verify_fails ==
    /\ \/ \E s \in Unexpired : sessions' = SessionsAfter(s)
       \/ sessions' = Unexpired
    /\ UNCHANGED <<accountVars, tokenVars, expired, blocklist, req, loggedOut>>

-----------------------------------------------------------------------------
(* Dependencies *)

\* MUTANT: the scope of the token is not looked at.
AcceptsAnyScope(t, scope) == <<t.scope, t.id>> \notin expired /\ t.id \notin blocklist

\* verify_token(t, expected_scope=scope) returns the claims.  Access tokens
\* have no jti, and are not looked up in the blocklist.
Accepts(t, scope) ==
    /\ t.scope = scope
    /\ <<t.scope, t.id>> \notin expired
    /\ scope # "full" => t.id \notin blocklist

verify_token(r, scope) ==
    /\ At(r, "idle")
    /\ \E t \in tokens :
          /\ Accepts(t, scope)
          /\ req' = [req EXCEPT ![r] = [phase |-> "accepted", expects |-> scope,
                                        token |-> t]]
    /\ UNCHANGED <<accountVars, sessions, tokenVars, expired, blocklist, loggedOut>>

\* MUTANT: a jti that is in the blocklist already is accepted again.
Revocable(jti) == TRUE

\* The primary key of the blocklist admits a jti once.
NotBlocked(jti) == jti \notin blocklist

\* MUTANT: the INSERT is not committed.
revoke_token_uncommitted(r) ==
    /\ At(r, "accepted")
    /\ NotBlocked(req[r].token.id)
    /\ Advance(r, "revoked")
    /\ UNCHANGED <<accountVars, sessions, tokenVars, expired, blocklist, loggedOut>>

\* block_refresh_token.  If another request has been faster, the INSERT fails
\* and so does this request.
revoke_token(r) ==
    /\ At(r, "accepted")
    /\ NotBlocked(req[r].token.id)
    /\ blocklist' = blocklist \cup {req[r].token.id}
    /\ Advance(r, "revoked")
    /\ UNCHANGED <<accountVars, sessions, tokenVars, expired, loggedOut>>

get_user_by_id(id) == {a \in accounts : a.id = id}

\* The last lookup of require_preauth_user.
load_preauth_user(r) ==
    /\ At(r, "revoked")
    /\ req[r].expects = "totp_only"
    /\ get_user_by_id(req[r].token.user) # {}
    /\ Advance(r, "preauth_user")
    /\ UNCHANGED <<accountVars, sessions, tokenVars, expired, blocklist, loggedOut>>

get_current_user(r) ==
    /\ At(r, "idle")
    /\ \E t \in tokens :
          /\ Accepts(t, "full")
          /\ get_user_by_id(t.user) # {}
          /\ req' = [req EXCEPT ![r] = [phase |-> "current_user", expects |-> "full",
                                        token |-> t]]
    /\ UNCHANGED <<accountVars, sessions, tokenVars, expired, blocklist, loggedOut>>

\* The request ends without effect beyond what it has done so far: 401 from a
\* check, 429 from the limiter, a wrong TOTP code, or the IntegrityError of
\* an INSERT that came too late.
reject(r) ==
    /\ ~At(r, "idle")
    /\ Finish(r)
    /\ UNCHANGED <<accountVars, sessions, tokenVars, expired, blocklist, loggedOut>>

-----------------------------------------------------------------------------
(* Endpoints *)

\* The access and the refresh token of a TokenResponse given for token t.
Pair(t, totp) ==
    {[scope |-> scope, id |-> serial + 1, user |-> t.user, from |-> t.id,
      proven |-> t.proven, totp |-> totp] : scope \in {"full", "refresh"}}

issue_pair(t, totp) ==
    /\ serial < MaxSerial
    /\ serial' = serial + 1
    /\ tokens' = tokens \cup Pair(t, totp)
    /\ UNCHANGED <<accountVars, sessions, expired, blocklist, loggedOut>>

verify_2fa(r) ==
    /\ At(r, "preauth_user")
    /\ issue_pair(req[r].token, TRUE)
    /\ Finish(r)

\* Neither refresh nor logout asks whether the account still exists.
refresh_tokens(r) ==
    /\ At(r, "revoked")
    /\ req[r].expects = "refresh"
    /\ issue_pair(req[r].token, req[r].token.totp)
    /\ Finish(r)

logout(r) ==
    /\ At(r, "revoked")
    /\ req[r].expects = "refresh"
    /\ loggedOut' = loggedOut \cup {req[r].token.id}
    /\ Finish(r)
    /\ UNCHANGED <<accountVars, sessions, tokenVars, expired, blocklist>>

\* delete_user, as far as table users goes.  No token is touched.
delete_me(r) ==
    /\ At(r, "current_user")
    /\ get_user_by_id(req[r].token.user) # {}
    /\ accounts' = accounts \ get_user_by_id(req[r].token.user)
    /\ Finish(r)
    /\ UNCHANGED <<accountSeq, sessions, tokenVars, expired, blocklist, loggedOut>>

-----------------------------------------------------------------------------
(* Time and failure *)

Credentials == {<<"srp", s.id>> : s \in sessions} \cup {<<t.scope, t.id>> : t \in tokens}

expire ==
    /\ \E c \in Credentials \ expired : expired' = expired \cup {c}
    /\ UNCHANGED <<accountVars, sessions, tokenVars, blocklist, req, loggedOut>>

\* The process is started anew, between any two steps.
restart ==
    /\ sessions' = {}
    /\ req' = [r \in Request |-> Idle]
    /\ UNCHANGED <<accountVars, tokenVars, expired, blocklist, loggedOut>>

Handshake ==
    \/ \E n \in Name : register(n)
    \/ \E a \in accounts : srp_init(a)
    \/ \E s \in sessions : srp_verify(s)
    \/ srp_verify_fails

Dependency(r) ==
    \/ \E scope \in {"totp_only", "refresh"} : verify_token(r, scope)
    \/ revoke_token(r)
    \/ load_preauth_user(r)
    \/ get_current_user(r)
    \/ reject(r)

Endpoint(r) == verify_2fa(r) \/ refresh_tokens(r) \/ logout(r) \/ delete_me(r)

AuthNext ==
    \/ Handshake
    \/ \E r \in Request : Dependency(r) \/ Endpoint(r)
    \/ expire
    \/ restart

AuthSpec == AuthInit /\ [][AuthNext]_authVars

-----------------------------------------------------------------------------
(* Safety *)

\* "Refresh tokens are single-use" (README), and so are pre-auth tokens and SRP
\* sessions: however many requests present the same one at once, at most one
\* token of each scope is ever issued for it, and none for a token whose
\* logout succeeded.  verify_token's SELECT does not ensure this, since all
\* of them may pass it; the primary key of the blocklist does.
OneHeirPerTicket ==
    \A t \in tokens :
        /\ \A u \in tokens : t.from = u.from /\ t.scope = u.scope => t = u
        /\ t.from \notin loggedOut

\* Whoever holds tokens for the API, first-hand or by any number of refreshes,
\* has had a TOTP code accepted: a pre-auth token alone leads to neither.
SecondFactorBehindEveryPair == \A t \in tokens : t.scope # "totp_only" => t.totp

\* "Client proves knowledge of the password; server returns its own proof and a
\* pre-auth token" (README, POST /auth/srp-verify): the token is for the
\* account whose password it was.
PasswordProvenForAccount == \A t \in tokens : t.proven = t.user

-----------------------------------------------------------------------------
(* What OneHeirPerTicket rests on. *)

\* A serial names one session, or one pre-auth token, or the two tokens of one
\* answer, only tokens are blocked, and nothing is given for what is still to be
\* issued.
SerialsNameOneThing ==
    /\ \A s \in sessions : \A z \in sessions : s.id = z.id => s = z
    /\ \A s \in sessions : s.id \notin blocklist
    /\ \A s \in sessions, t \in tokens : s.id # t.id /\ s.id # t.from
    /\ \A t \in tokens : t.from <= serial
    /\ \A t \in tokens, u \in tokens : t.scope = "totp_only" => t.from # u.id

\* Access and refresh tokens are only given for tokens in the blocklist.
GivenForBlocked == \A t \in tokens : t.scope # "totp_only" => t.from \in blocklist

\* The request has revoked its token, and has not answered yet.
Holds(r) == req[r].phase \in {"revoked", "preauth_user"}

\* It is the only one to hold that token, and nothing was given for it so far.
HoldersAlone ==
    \A r \in Request :
        /\ At(r, "accepted") \/ Holds(r) =>
              /\ req[r].token \in tokens
              /\ req[r].token.scope = req[r].expects
              /\ req[r].expects # "full"
        /\ At(r, "preauth_user") => req[r].expects = "totp_only"
        /\ Holds(r) =>
              /\ req[r].token.id \in blocklist \ loggedOut
              /\ \A t \in tokens : t.from # req[r].token.id
              /\ \A q \in Request :
                    Holds(q) /\ req[q].token.id = req[r].token.id => q = r

\* The inductive invariant.
TicketInvariant ==
    /\ AuthTypeOK
    /\ SerialsNameOneThing
    /\ GivenForBlocked
    /\ HoldersAlone
    /\ OneHeirPerTicket
    /\ SecondFactorBehindEveryPair

-----------------------------------------------------------------------------
(* Sessions and tokens are the tickets of TicketLife. *)

tickets == {s.id : s \in sessions} \cup ({t.id : t \in tokens} \ blocklist)

spentTickets == 1..serial \ tickets

heirs == [i \in Serial |-> {t.id : t \in {u \in tokens : u.from = i}}]

Tickets == INSTANCE TicketLife WITH
               Ticket <- Serial, valid <- tickets, spent <- spentTickets,
               handedBack <- loggedOut, heirs <- heirs

\* Whatever the requests do to each other, and whenever the process is started
\* anew, tickets are traded one for one and a spent one stays spent.
ImplementsTicketLife == Tickets!TicketSpec
=============================================================================
