------------------------ MODULE TicketLifeRefinement ------------------------
(***************************************************************************)
(* AuthTokens implements TicketLife, for any number of accounts,           *)
(* credentials and requests.                                               *)
(***************************************************************************)
EXTENDS AuthTokensProofs

USE AuthBoundsAssumption

LEMMA SerialsTyped ==
    ASSUME TicketInvariant
    PROVE  /\ serial \in 0..MaxSerial /\ serial \in Nat
           /\ \A t \in tokens : t.id \in 1..serial /\ t.from \in 1..serial
           /\ \A s \in sessions : s.id \in 1..serial
           /\ tickets \subseteq 1..serial
<1>1. serial \in 0..MaxSerial /\ serial \in Nat
  BY DEF TicketInvariant, AuthTypeOK
<1>2. \A t \in tokens : t.id \in 1..serial /\ t.from \in 1..serial
  BY <1>1, Typed DEF TicketInvariant, SerialsNameOneThing, Token, Serial
<1>3. \A s \in sessions : s.id \in 1..serial
  BY <1>1, Typed DEF TicketInvariant, Session, Serial
<1> QED
  BY <1>1, <1>2, <1>3 DEF tickets

LEMMA NextSerial ==
    ASSUME TicketInvariant, TicketInvariant', serial' = serial + 1
    PROVE  serial' \in Serial
<1>1. serial \in Nat /\ serial' \in 0..MaxSerial
  BY DEF TicketInvariant, AuthTypeOK
<1> QED
  BY <1>1 DEF Serial

LEMMA InitImplements == AuthInit => Tickets!TicketInit
<1> SUFFICES ASSUME AuthInit PROVE Tickets!TicketInit
  OBVIOUS
<1>1. sessions = {} /\ tokens = {} /\ serial = 0 /\ loggedOut = {}
  BY DEF AuthInit
<1>2. tickets = {} /\ spentTickets = {}
  BY <1>1 DEF tickets, spentTickets
<1>3. heirs = [i \in Serial |-> {}]
  BY <1>1 DEF heirs
<1> QED
  BY <1>1, <1>2, <1>3 DEF Tickets!TicketInit

\* Nothing is given out, and nothing handed back.
LEMMA SpendStep ==
    ASSUME TicketInvariant, UNCHANGED <<tokens, serial, loggedOut>>, tickets' \subseteq tickets
    PROVE  Tickets!TicketNext
<1> DEFINE lost == tickets \ tickets'
<1>1. lost \in SUBSET tickets /\ tickets' = tickets \ lost
  OBVIOUS
<1>2. spentTickets' = spentTickets \cup lost
  BY SerialsTyped DEF spentTickets
<1>3. heirs' = heirs
  BY DEF heirs
<1> HIDE DEF lost
<1>4. Tickets!Spend
  BY <1>1, <1>2, <1>3 DEF Tickets!Spend
<1> QED
  BY <1>4 DEF Tickets!TicketNext

\* The sessions and tokens after a step that issues no token.
LEMMA FewerTickets ==
    ASSUME sessions' \subseteq sessions, tokens' = tokens, blocklist \subseteq blocklist'
    PROVE  tickets' \subseteq tickets
BY DEF tickets

\* What is left of the tickets when a new one is issued.
LEMMA NewTicket ==
    ASSUME TicketInvariant, serial' = serial + 1, serial' \in tickets',
           tickets' \subseteq tickets \cup {serial'}
    PROVE  \E lost \in SUBSET tickets :
               /\ lost = tickets \ tickets'
               /\ tickets' = (tickets \ lost) \cup {serial'}
               /\ spentTickets' = spentTickets \cup lost
               /\ serial' \notin tickets \cup spentTickets
<1> DEFINE lost == tickets \ tickets'
<1>1. serial \in Nat /\ tickets \subseteq 1..serial
  BY SerialsTyped
<1>2. serial' \notin tickets \cup spentTickets
  BY <1>1 DEF spentTickets
<1>3. 1..serial' = 1..serial \cup {serial'}
  BY <1>1
<1>4. spentTickets' = spentTickets \cup lost
  BY <1>1, <1>2, <1>3 DEF spentTickets
<1>5. tickets' = (tickets \ lost) \cup {serial'}
  OBVIOUS
<1>6. lost \in SUBSET tickets
  OBVIOUS
<1> QED
  BY <1>2, <1>4, <1>5, <1>6

LEMMA SrpInitImplements ==
    ASSUME TicketInvariant, TicketInvariant', NEW a \in accounts, srp_init(a)
    PROVE  Tickets!TicketNext
<1>1. /\ serial' = serial + 1 /\ tokens' = tokens /\ blocklist' = blocklist
      /\ loggedOut' = loggedOut
      /\ \E s \in sessions' : s.id = serial'
      /\ \A s \in sessions' : s \in sessions \/ s.id = serial'
  <2> DEFINE opened == [id |-> serial', name |-> a.name, verifier |-> a.id]
  <2>1. opened.id = serial'
    OBVIOUS
  <2>2. /\ serial' = serial + 1 /\ tokens' = tokens /\ blocklist' = blocklist
        /\ loggedOut' = loggedOut /\ sessions' = Unexpired \cup {opened}
    BY DEF srp_init
  <2> HIDE DEF opened
  <2> QED
    BY <2>1, <2>2 DEF Unexpired
<1>2. serial' \in tickets' /\ tickets' \subseteq tickets \cup {serial'}
  BY <1>1 DEF tickets
<1>3. heirs' = heirs
  BY <1>1 DEF heirs
<1>4. serial' \in Serial
  BY <1>1, NextSerial
<1>5. Tickets!Issue
  BY <1>1, <1>2, <1>3, <1>4, NewTicket DEF Tickets!Issue, Tickets!Unissued
<1> QED
  BY <1>5 DEF Tickets!TicketNext

\* New tokens are given for the ticket f, which is taken in.
LEMMA ExchangeStep ==
    ASSUME TicketInvariant, TicketInvariant', NEW f \in 1..serial, NEW New,
           serial' = serial + 1, tokens' = tokens \cup New, New # {},
           sessions' \subseteq sessions, UNCHANGED <<blocklist, loggedOut>>,
           f \notin loggedOut, f \notin tickets',
           \A t \in tokens : t.from # f,
           \A t \in New : t.id = serial' /\ t.from = f
    PROVE  Tickets!TicketNext
<1>1. serial \in Nat /\ serial' \in Serial /\ f \in Serial
  BY SerialsTyped, NextSerial DEF Serial
<1>2. serial' \notin blocklist
  BY <1>1 DEF TicketInvariant, AuthTypeOK
<1>3. serial' \in tickets' /\ tickets' \subseteq tickets \cup {serial'}
  BY <1>2 DEF tickets
<1>4. heirs[f] = {}
  BY <1>1 DEF heirs
<1>5. heirs' = [heirs EXCEPT ![f] = {serial'}]
  <2>1. {t.id : t \in {u \in tokens' : u.from = f}} = {serial'}
    <3>1. {u \in tokens' : u.from = f} = New
      OBVIOUS
    <3>2. PICK t \in New : t.id = serial'
      OBVIOUS
    <3> QED
      BY <3>1, <3>2
  <2>2. ASSUME NEW i \in Serial, i # f
        PROVE  {u \in tokens' : u.from = i} = {u \in tokens : u.from = i}
    BY <2>2
  <2>3. \A i \in Serial : heirs'[i] = IF i = f THEN {serial'} ELSE heirs[i]
    BY <2>1, <2>2 DEF heirs
  <2>4. heirs \in [Serial -> SUBSET {t.id : t \in tokens}] /\ DOMAIN heirs' = Serial
        /\ heirs' = [i \in Serial |-> heirs'[i]]
    BY DEF heirs
  <2> HIDE DEF heirs
  <2> QED
    BY <1>1, <2>3, <2>4
<1>6. PICK lost \in SUBSET tickets :
          /\ lost = tickets \ tickets'
          /\ tickets' = (tickets \ lost) \cup {serial'}
          /\ spentTickets' = spentTickets \cup lost
          /\ serial' \notin tickets \cup spentTickets
  BY <1>3, NewTicket
<1>7. f \in spentTickets \cup lost
  BY <1>6 DEF spentTickets
<1>8. Tickets!Exchange
  BY <1>1, <1>4, <1>5, <1>6, <1>7 DEF Tickets!Exchange, Tickets!Unissued
<1> QED
  BY <1>8 DEF Tickets!TicketNext

LEMMA SrpVerifyImplements ==
    ASSUME TicketInvariant, TicketInvariant', NEW s \in sessions, srp_verify(s)
    PROVE  Tickets!TicketNext
<1>1. PICK a \in accounts :
          tokens' = tokens \cup
              {[scope |-> "totp_only", id |-> serial', user |-> a.id, from |-> s.id,
                proven |-> s.verifier, totp |-> FALSE]}
  BY DEF srp_verify, get_user_by_username
<1> DEFINE new == [scope |-> "totp_only", id |-> serial', user |-> a.id, from |-> s.id,
                   proven |-> s.verifier, totp |-> FALSE]
<1>2. /\ new.id = serial' /\ new.from = s.id /\ tokens' = tokens \cup {new}
      /\ serial' = serial + 1 /\ sessions' \subseteq sessions /\ s \notin sessions'
      /\ UNCHANGED <<blocklist, loggedOut>>
  BY <1>1 DEF srp_verify, SessionsAfter, Unexpired
<1> HIDE DEF new
<1>3. s.id \in 1..serial /\ serial \in Nat
  BY SerialsTyped
<1>4. /\ \A t \in tokens : t.from # s.id /\ t.id # s.id
      /\ \A z \in sessions' : z.id # s.id
      /\ s.id \notin loggedOut
  BY <1>2 DEF TicketInvariant, SerialsNameOneThing, AuthTypeOK
<1>5. s.id \notin tickets'
  BY <1>2, <1>3, <1>4 DEF tickets
<1> DEFINE New == {new}
<1>6. New # {} /\ tokens' = tokens \cup New /\ \A t \in New : t.id = serial' /\ t.from = s.id
  BY <1>2
<1> HIDE DEF New
<1> QED
  BY <1>2, <1>3, <1>4, <1>5, <1>6, ExchangeStep

LEMMA PairImplements ==
    ASSUME TicketInvariant, TicketInvariant', NEW r \in Request, Holds(r), NEW totp,
           issue_pair(req[r].token, totp)
    PROVE  Tickets!TicketNext
<1> DEFINE given == req[r].token
           New == Pair(given, totp)
<1>1. /\ serial' = serial + 1 /\ tokens' = tokens \cup New
      /\ UNCHANGED <<sessions, blocklist, loggedOut>>
  BY DEF issue_pair
<1>2. New # {} /\ \A t \in New : t.id = serial' /\ t.from = given.id
  <2>1. \A scope : LET t == [scope |-> scope, id |-> serial + 1, user |-> given.user,
                             from |-> given.id, proven |-> given.proven, totp |-> totp]
                   IN  t.id = serial + 1 /\ t.from = given.id
    OBVIOUS
  <2> HIDE DEF given
  <2>2. New # {}
    BY DEF Pair
  <2>3. \A t \in New : t.id = serial + 1 /\ t.from = given.id
    BY <2>1 DEF Pair
  <2> QED
    BY <1>1, <2>2, <2>3
<1>3. /\ given.id \in blocklist /\ given.id \notin loggedOut
      /\ \A t \in tokens : t.from # given.id
  BY DEF TicketInvariant, HoldersAlone
<1> HIDE DEF given, New
<1>4. given.id \in 1..serial
  BY <1>3 DEF TicketInvariant, AuthTypeOK
<1>5. given.id \notin tickets'
  BY <1>1, <1>3 DEF tickets, TicketInvariant, SerialsNameOneThing
<1> QED
  BY ExchangeStep, <1>1, <1>2, <1>3, <1>4, <1>5

LEMMA LogoutImplements ==
    ASSUME TicketInvariant, NEW r \in Request, logout(r)
    PROVE  Tickets!TicketNext
<1> DEFINE i == req[r].token.id
<1>1. /\ Holds(r) /\ loggedOut' = loggedOut \cup {i}
      /\ UNCHANGED <<sessions, tokens, serial, blocklist>>
  BY DEF logout, At, Holds, tokenVars
<1>2. i \in blocklist /\ \A t \in tokens : t.from # i
  BY <1>1 DEF TicketInvariant, HoldersAlone
<1> HIDE DEF i
<1>3. i \in 1..serial /\ i \notin tickets
  BY <1>2 DEF tickets, TicketInvariant, SerialsNameOneThing, AuthTypeOK
<1>4. i \in spentTickets /\ i \in Serial
  BY <1>3, SerialsTyped DEF spentTickets, Serial
<1>5. heirs[i] = {} /\ heirs' = heirs /\ tickets' = tickets /\ spentTickets' = spentTickets
  BY <1>1, <1>2, <1>4 DEF heirs, tickets, spentTickets
<1>6. Tickets!HandBack
  BY <1>1, <1>4, <1>5 DEF Tickets!HandBack
<1> QED
  BY <1>6 DEF Tickets!TicketNext

LEMMA StepImplements ==
    TicketInvariant /\ TicketInvariant' /\ [AuthNext]_authVars
        => [Tickets!TicketNext]_(Tickets!ticketVars)
<1> SUFFICES ASSUME TicketInvariant, TicketInvariant', [AuthNext]_authVars
             PROVE  Tickets!TicketNext \/ UNCHANGED Tickets!ticketVars
  OBVIOUS
<1>1. CASE UNCHANGED authVars
  BY <1>1 DEF authVars, Tickets!ticketVars, tickets, spentTickets, heirs
<1>2. CASE Handshake
  <2>1. ASSUME NEW n \in Name, register(n) PROVE Tickets!TicketNext
    BY <2>1, FewerTickets, SpendStep DEF register, tokenVars
  <2>2. ASSUME srp_verify_fails PROVE Tickets!TicketNext
    BY <2>2, FewerTickets, SpendStep DEF srp_verify_fails, SessionsAfter, Unexpired, tokenVars
  <2> QED
    BY <1>2, <2>1, <2>2, SrpInitImplements, SrpVerifyImplements DEF Handshake
<1>3. ASSUME NEW r \in Request, Dependency(r) PROVE Tickets!TicketNext
  <2>1. /\ sessions' \subseteq sessions /\ blocklist \subseteq blocklist'
        /\ UNCHANGED <<tokens, serial, loggedOut>>
    BY <1>3 DEF Dependency, verify_token, revoke_token, load_preauth_user, get_current_user,
                reject, tokenVars
  <2> QED
    BY <2>1, FewerTickets, SpendStep
<1>4. ASSUME NEW r \in Request, Endpoint(r) PROVE Tickets!TicketNext
  <2>1. CASE verify_2fa(r)
    BY <2>1, PairImplements DEF verify_2fa, Holds, At
  <2>2. CASE refresh_tokens(r)
    BY <2>2, PairImplements DEF refresh_tokens, Holds, At
  <2>3. CASE logout(r)
    BY <2>3, LogoutImplements
  <2>4. CASE delete_me(r)
    BY <2>4, FewerTickets, SpendStep DEF delete_me, tokenVars
  <2> QED
    BY <1>4, <2>1, <2>2, <2>3, <2>4 DEF Endpoint
<1>5. CASE expire
  BY <1>5, FewerTickets, SpendStep DEF expire, tokenVars
<1>6. CASE restart
  BY <1>6, FewerTickets, SpendStep DEF restart, tokenVars
<1> QED
  BY <1>1, <1>2, <1>3, <1>4, <1>5, <1>6 DEF AuthNext

\* SRP sessions, pre-auth tokens and refresh tokens are tickets in the sense of
\* TicketLife, whatever requests, deletions and restarts do to each other
\* (api/auth.py, api/deps.py 38-68, auth/tokens.py, auth/srp_session.py).
THEOREM TokensImplementTicketLife == AuthSpec => ImplementsTicketLife
BY TicketsHold, InitImplements, StepImplements, PTL
   DEF AuthSpec, ImplementsTicketLife, Tickets!TicketSpec
=============================================================================
