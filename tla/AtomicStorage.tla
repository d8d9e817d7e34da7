---------------------------- MODULE AtomicStorage ----------------------------
(***************************************************************************)
(* What the endpoints for messages and keys promise their callers: what a  *)
(* request does it does at once, to tables that hold nothing of accounts   *)
(* that are gone, and what is answered twice was there twice.  It says     *)
(* nothing of statements, locks and commits, and does not promise that an  *)
(* inbox is limited, or that a group message goes with its last receipt.   *)
(*                                                                         *)
(* DirectStorage implements this with transactions of several statements   *)
(* on several connections.                                                 *)
(***************************************************************************)
EXTENDS Naturals

CONSTANTS
    Account,    \* the accounts registered at the start
    MessageId, PrekeyId

VARIABLES
    accounts, messages, bundles, prekeys, posts, receipts,  \* the tables
    ended,      \* how many were told that they ended a message
    handedOut   \* how many were given a prekey

mailVars   == <<messages, ended>>
keyVars    == <<bundles, prekeys, handedOut>>
postVars   == <<posts, receipts>>
atomicVars == <<accounts, mailVars, keyVars, postVars>>

AtomicInit ==
    /\ accounts = Account
    /\ messages = {} /\ bundles = {} /\ prekeys = {} /\ posts = {} /\ receipts = {}
    /\ ended = [i \in MessageId |-> 0]
    /\ handedOut = [i \in PrekeyId |-> 0]

Send(m) ==
    /\ {m.sender, m.recipient} \subseteq accounts /\ m.sender # m.recipient
    /\ ended[m.id] = 0 /\ \A n \in messages : n.id # m.id
    /\ messages' = messages \cup {m}
    /\ UNCHANGED <<accounts, ended, keyVars, postVars>>

\* Receipt or revocation.
End(m) ==
    /\ messages' = messages \ {m}
    /\ ended' = [ended EXCEPT ![m.id] = @ + 1]
    /\ UNCHANGED <<accounts, keyVars, postVars>>

Publish(u) ==
    /\ bundles' = bundles \cup {u}
    /\ UNCHANGED <<accounts, mailVars, prekeys, handedOut, postVars>>

Upload(u, ids) ==
    /\ \A i \in ids : handedOut[i] = 0 /\ \A p \in prekeys : p.id # i
    /\ prekeys' = prekeys \cup [id : ids, user : {u}]
    /\ UNCHANGED <<accounts, mailVars, bundles, handedOut, postVars>>

\* A prekey comes with the bundle of its account.
Fetch(p) ==
    /\ p.user \in bundles
    /\ prekeys' = prekeys \ {p}
    /\ handedOut' = [handedOut EXCEPT ![p.id] = @ + 1]
    /\ UNCHANGED <<accounts, mailVars, bundles, postVars>>

\* All other members have to acknowledge what is posted.
PostToAll(m) ==
    /\ m.sender \in accounts
    /\ \A n \in posts : n.id # m.id
    /\ posts' = posts \cup {m}
    /\ receipts' = receipts \cup [post : {m.id}, user : accounts \ {m.sender}]
    /\ UNCHANGED <<accounts, mailVars, keyVars>>

\* The last to acknowledge may take the message away, nobody else.
Acknowledge(r) ==
    /\ receipts' = receipts \ {r}
    /\ \/ posts' = posts
       \/ /\ \A q \in receipts' : q.post # r.post
          /\ posts' = {m \in posts : m.id # r.post}
    /\ UNCHANGED <<accounts, mailVars, keyVars>>

Withdraw(m) ==
    /\ posts' = posts \ {m}
    /\ receipts' = {r \in receipts : r.post # m.id}
    /\ UNCHANGED <<accounts, mailVars, keyVars>>

DeleteAccount(u) ==
    /\ accounts' = accounts \ {u}
    /\ messages' = {m \in messages : u \notin {m.sender, m.recipient}}
    /\ bundles' = bundles \ {u}
    /\ prekeys' = {p \in prekeys : p.user # u}
    /\ posts' = {m \in posts : m.sender # u}
    /\ receipts' = {r \in receipts : r.user # u /\ \A m \in posts \ posts' : r.post # m.id}
    /\ UNCHANGED <<ended, handedOut>>

AtomicNext ==
    \/ \E m \in messages' : Send(m)
    \/ \E m \in messages : End(m)
    \/ \E u \in accounts : \/ Publish(u) \/ DeleteAccount(u)
                           \/ \E ids \in SUBSET PrekeyId : Upload(u, ids)
    \/ \E p \in prekeys : Fetch(p)
    \/ \E m \in posts' : PostToAll(m)
    \/ \E r \in receipts : Acknowledge(r)
    \/ \E m \in posts : Withdraw(m)

AtomicSpec == AtomicInit /\ [][AtomicNext]_atomicVars
=============================================================================
