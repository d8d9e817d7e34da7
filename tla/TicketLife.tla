----------------------------- MODULE TicketLife -----------------------------
(***************************************************************************)
(* What SecureMsg promises of everything a client trades for something     *)
(* newer while it logs in and stays logged in: a ticket can be traded at   *)
(* most once, a ticket that was spent is never accepted again, and nothing *)
(* comes of a ticket its owner has handed back.                            *)
(*                                                                         *)
(* AuthTokens implements this with SRP sessions, pre-auth tokens and       *)
(* refresh tokens.                                                         *)
(***************************************************************************)
CONSTANT Ticket

VARIABLES
    valid,     \* the tickets that would be accepted
    spent,     \* the tickets that were taken in, or lost
    handedBack,\* the spent tickets whose owner wanted nothing for them
    heirs      \* the tickets given out for each ticket

ticketVars == <<valid, spent, handedBack, heirs>>

TicketInit ==
    /\ valid = {} /\ spent = {} /\ handedBack = {}
    /\ heirs = [t \in Ticket |-> {}]

Unissued == Ticket \ (valid \cup spent)

\* A client starts from nothing.  Tickets nobody came back with may go.
Issue ==
    \E n \in Unissued, lost \in SUBSET valid :
        /\ valid' = (valid \ lost) \cup {n}
        /\ spent' = spent \cup lost
        /\ UNCHANGED <<handedBack, heirs>>

\* Tickets are taken in; something may come of one of them later.
Spend ==
    \E lost \in SUBSET valid :
        /\ valid' = valid \ lost
        /\ spent' = spent \cup lost
        /\ UNCHANGED <<handedBack, heirs>>

HandBack ==
    \E t \in spent :
        /\ heirs[t] = {}
        /\ handedBack' = handedBack \cup {t}
        /\ UNCHANGED <<valid, spent, heirs>>

\* A new ticket is given out for t, which is among those taken in.
Exchange ==
    \E n \in Unissued, lost \in SUBSET valid : \E t \in spent \cup lost :
        /\ t \notin handedBack
        /\ heirs[t] = {}
        /\ valid' = (valid \ lost) \cup {n}
        /\ spent' = spent \cup lost
        /\ heirs' = [heirs EXCEPT ![t] = {n}]
        /\ UNCHANGED handedBack

TicketNext == Issue \/ Spend \/ HandBack \/ Exchange

TicketSpec == TicketInit /\ [][TicketNext]_ticketVars
=============================================================================
