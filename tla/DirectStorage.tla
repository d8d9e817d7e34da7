---------------------------- MODULE DirectStorage ----------------------------
(***************************************************************************)
(* Messages between two accounts, messages to a group, key bundles and     *)
(* one-time prekeys: app/repositories/message.py, key_bundle.py and the    *)
(* messages of group.py behind the endpoints of app/api/messages.py,       *)
(* keys.py and groups.py, and what delete_user takes of them.              *)
(*                                                                         *)
(* The repositories are used from several connections at once, as          *)
(* app/security_tests/test_concurrency.py uses them.  Each statement is a  *)
(* step and each commit is another.  PostgreSQL is at READ COMMITTED, its  *)
(* default: a statement sees what was committed when it began, and waits   *)
(* for a row that another transaction has changed.  The rows of accounts   *)
(* that an insert refers to are locked in share mode until its commit; to  *)
(* wait is not to be enabled.  A statement that finds nothing to do is     *)
(* answered with 404, 403, 429 or null and changes nothing.                *)
(*                                                                         *)
(* An upsert of a bundle locks its account like an insert, even when it    *)
(* finds a row to update, and a cascade removes all of its rows in one     *)
(* step: that two cascades could wait for each other is left out.  There   *)
(* is one group, and every account is a member of it.                      *)
(***************************************************************************)
EXTENDS Integers, FiniteSets

CONSTANTS
    Account,     \* the accounts registered at the start
    Connection,  \* sessions open at once
    InboxMax,    \* messaging.inbox_max_messages
    MaxMessage,  \* bound: how many messages are ever inserted
    MaxPrekey,   \* bound: how many prekeys are ever inserted
    MaxUpload,   \* bound: the length of an upload of prekeys
    MaxPost      \* bound: how many messages are ever sent to the group

ASSUME StorageBoundsAssumption ==
    /\ InboxMax \in Nat
    /\ MaxMessage \in Nat
    /\ MaxPrekey \in Nat
    /\ MaxUpload \in Nat
    /\ MaxPost \in Nat

VARIABLES
    accounts,    \* table users
    messages,    \* table messages
    messageSeq,  \* the last id messages.id was given
    bundles,     \* table user_key_bundles: the accounts that have one
    prekeys,     \* table one_time_prekeys
    prekeySeq,   \* the last id one_time_prekeys.id was given
    posts,       \* table group_messages
    postSeq,     \* the last id group_messages.id was given
    receipts,    \* table group_message_receipts: who has yet to acknowledge
    conn,        \* the transaction on each connection
    ended,       \* history: how many receipts and revocations of a message succeeded
    handedOut,   \* history: how many fetches returned a prekey
    overlapped   \* history: the group messages that two acknowledged at once

storageVars == <<accounts, messages, messageSeq, bundles, prekeys, prekeySeq,
                 posts, postSeq, receipts, conn, ended, handedOut, overlapped>>
messageVars == <<messages, messageSeq, ended>>
keyVars     == <<bundles, prekeys, prekeySeq, handedOut>>
postVars    == <<posts, postSeq, receipts, overlapped>>

MessageId == 1..MaxMessage
PrekeyId  == 1..MaxPrekey
PostId    == 1..MaxPost

Message == [id : MessageId, sender : Account, recipient : Account]
Prekey  == [id : PrekeyId, user : Account]
Post    == [id : PostId, sender : Account]
Receipt == [post : PostId, user : Account]

Idle == [stage |-> "idle"]

\* What has been done in a transaction that is not committed.  "chosen": the
\* DELETE of pop_one_time_prekey has evaluated its subselect.  "published":
\* publish_bundle has committed the bundle and has the prekeys still to store.
\* "posted": store_group_message has inserted the message and not its receipts.
\* "acknowledged": record_group_receipt has deleted the receipt, and not looked
\* yet ("kept", "last") whether others are left.
Transaction ==
    {Idle}
    \cup [stage : {"inserted", "ended"}, row : Message]
    \cup [stage : {"chosen", "popped"}, row : Prekey]
    \cup [stage : {"upserted", "published", "deleting"}, user : Account]
    \cup [stage : {"uploaded"}, user : Account, ids : SUBSET PrekeyId]
    \cup [stage : {"posted", "withdrawn"}, row : Post]
    \cup [stage : {"addressed"}, row : Post, to : SUBSET Account]
    \cup [stage : {"acknowledged", "kept", "last"}, row : Receipt]

StorageTypeOK ==
    /\ accounts \subseteq Account
    /\ messageSeq \in 0..MaxMessage /\ prekeySeq \in 0..MaxPrekey
    /\ messages \subseteq {m \in Message : m.id <= messageSeq /\ ended[m.id] = 0}
    /\ prekeys \subseteq {p \in Prekey : p.id <= prekeySeq}
    /\ bundles \subseteq Account
    /\ posts \subseteq {m \in Post : m.id <= postSeq} /\ postSeq \in 0..MaxPost
    /\ receipts \subseteq Receipt
    /\ conn \in [Connection -> Transaction]
    /\ ended \in [MessageId -> Nat] /\ handedOut \in [PrekeyId -> Nat]
    /\ overlapped \subseteq PostId

StorageInit ==
    /\ accounts = Account
    /\ messages = {}  /\ messageSeq = 0
    /\ bundles = {}
    /\ prekeys = {}   /\ prekeySeq = 0
    /\ posts = {}     /\ postSeq = 0
    /\ receipts = {}
    /\ conn = [c \in Connection |-> Idle]
    /\ ended = [i \in MessageId |-> 0]
    /\ handedOut = [i \in PrekeyId |-> 0]
    /\ overlapped = {}

At(c, stage) == conn[c].stage = stage
Open(c, transaction) == conn' = [conn EXCEPT ![c] = transaction]
Close(c) == conn' = [conn EXCEPT ![c] = Idle]

\* A transaction elsewhere has deleted the row.
Deletes == {"ended", "popped", "withdrawn", "acknowledged", "kept", "last"}
Locked(row) == \E c \in Connection : conn[c].stage \in Deletes /\ conn[c].row = row

\* Inserts that refer to an account.
Refers(c, u) ==
    \/ At(c, "inserted") /\ u \in {conn[c].row.sender, conn[c].row.recipient}
    \/ conn[c].stage \in {"upserted", "uploaded"} /\ conn[c].user = u
    \/ conn[c].stage \in {"posted", "addressed"} /\ conn[c].row.sender = u
    \/ At(c, "addressed") /\ u \in conn[c].to

Deleting(u) == \E c \in Connection : At(c, "deleting") /\ conn[c].user = u

\* MUTANT: columns without a foreign key.
ReferableAlways(u) == TRUE

\* The foreign key to users.id holds, and nobody is about to delete the row.
Referable(u) == u \in accounts /\ ~Deleting(u)

-----------------------------------------------------------------------------
(* Messages *)

Inbox(u) == {m \in messages : m.recipient = u}

\* INSERT ... SELECT: the count is of committed messages.
store_message(c, s, r) ==
    /\ At(c, "idle")
    /\ s # r
    /\ Cardinality(Inbox(r)) < InboxMax
    /\ Referable(s) /\ Referable(r)
    /\ messageSeq < MaxMessage
    /\ messageSeq' = messageSeq + 1
    /\ Open(c, [stage |-> "inserted",
                row |-> [id |-> messageSeq', sender |-> s, recipient |-> r]])
    /\ UNCHANGED <<accounts, messages, ended, keyVars, postVars>>

commit_message(c) ==
    /\ At(c, "inserted")
    /\ messages' = messages \cup {conn[c].row}
    /\ Close(c)
    /\ UNCHANGED <<accounts, messageSeq, ended, keyVars, postVars>>

\* MUTANT: the row is looked up first, and success means that it was seen.
EndsWhatItSaw(m) == TRUE

\* The DELETE ... RETURNING of delete_message waits for another one.
Ends(m) == ~Locked(m)

\* The receipt of the recipient, or the revocation by the sender.
delete_message(c, m) ==
    /\ At(c, "idle")
    /\ m \in messages
    /\ Ends(m)
    /\ Open(c, [stage |-> "ended", row |-> m])
    /\ UNCHANGED <<accounts, messageVars, keyVars, postVars>>

\* MUTANT: the DELETE is not committed.
commit_end_without_row(c) ==
    /\ At(c, "ended")
    /\ ended' = [ended EXCEPT ![conn[c].row.id] = @ + 1]
    /\ Close(c)
    /\ UNCHANGED <<accounts, messages, messageSeq, keyVars, postVars>>

commit_end(c) ==
    /\ At(c, "ended")
    /\ messages' = messages \ {conn[c].row}
    /\ ended' = [ended EXCEPT ![conn[c].row.id] = @ + 1]
    /\ Close(c)
    /\ UNCHANGED <<accounts, messageSeq, keyVars, postVars>>

-----------------------------------------------------------------------------
(* Keys *)

\* The upsert of store_key_bundle waits for another one of the account.
store_key_bundle(c, u) ==
    /\ At(c, "idle")
    /\ Referable(u)
    /\ \A d \in Connection : ~(At(d, "upserted") /\ conn[d].user = u)
    /\ Open(c, [stage |-> "upserted", user |-> u])
    /\ UNCHANGED <<accounts, messageVars, keyVars, postVars>>

commit_bundle(c) ==
    /\ At(c, "upserted")
    /\ bundles' = bundles \cup {conn[c].user}
    /\ Open(c, [stage |-> "published", user |-> conn[c].user])
    /\ UNCHANGED <<accounts, messageVars, prekeys, prekeySeq, handedOut, postVars>>

\* The second half of publish_bundle, or upload_prekeys, which needs no bundle.
add_one_time_prekeys(c, u, n) ==
    /\ At(c, "idle") \/ (At(c, "published") /\ conn[c].user = u)
    /\ Referable(u)
    /\ prekeySeq + n <= MaxPrekey
    /\ prekeySeq' = prekeySeq + n
    /\ Open(c, [stage |-> "uploaded", user |-> u, ids |-> prekeySeq + 1 .. prekeySeq'])
    /\ UNCHANGED <<accounts, messageVars, bundles, prekeys, handedOut, postVars>>

commit_prekeys(c) ==
    /\ At(c, "uploaded")
    /\ prekeys' = prekeys \cup [id : conn[c].ids, user : {conn[c].user}]
    /\ Close(c)
    /\ UNCHANGED <<accounts, messageVars, bundles, prekeySeq, handedOut, postVars>>

\* The subselect of pop_one_time_prekey.
FirstPrekeys(u) ==
    {p \in prekeys : p.user = u /\ \A q \in prekeys : q.user = u => p.id <= q.id}

\* fetch_bundle, as far as the subselect.
choose_prekey(c, u) ==
    /\ At(c, "idle")
    /\ u \in accounts \cap bundles
    /\ \E p \in FirstPrekeys(u) : Open(c, [stage |-> "chosen", row |-> p])
    /\ UNCHANGED <<accounts, messageVars, keyVars, postVars>>

\* MUTANT: the key that was chosen is returned, whatever the DELETE found.
pop_chosen(c) ==
    /\ At(c, "chosen")
    /\ Open(c, [conn[c] EXCEPT !.stage = "popped"])
    /\ UNCHANGED <<accounts, messageVars, keyVars, postVars>>

\* If the row is gone the fetch answers null, other prekeys or not.
pop_one_time_prekey(c) ==
    /\ At(c, "chosen")
    /\ ~Locked(conn[c].row)
    /\ IF conn[c].row \in prekeys THEN Open(c, [conn[c] EXCEPT !.stage = "popped"])
                                  ELSE Close(c)
    /\ UNCHANGED <<accounts, messageVars, keyVars, postVars>>

commit_pop(c) ==
    /\ At(c, "popped")
    /\ prekeys' = prekeys \ {conn[c].row}
    /\ handedOut' = [handedOut EXCEPT ![conn[c].row.id] = @ + 1]
    /\ Close(c)
    /\ UNCHANGED <<accounts, messageVars, bundles, prekeySeq, postVars>>

-----------------------------------------------------------------------------
(* Messages to the group *)

\* The INSERT of the message, which locks its group as well.
store_group_message(c, s) ==
    /\ At(c, "idle")
    /\ Referable(s)
    /\ postSeq < MaxPost
    /\ postSeq' = postSeq + 1
    /\ Open(c, [stage |-> "posted", row |-> [id |-> postSeq', sender |-> s]])
    /\ UNCHANGED <<accounts, messageVars, keyVars, posts, receipts, overlapped>>

\* INSERT ... SELECT of a receipt for each other member.
store_receipts(c) ==
    /\ At(c, "posted")
    /\ LET audience == accounts \ {conn[c].row.sender} IN
       /\ \A u \in audience : ~Deleting(u)
       /\ Open(c, [stage |-> "addressed", row |-> conn[c].row, to |-> audience])
    /\ UNCHANGED <<accounts, messageVars, keyVars, postVars>>

\* MUTANT: the message is committed before its receipts.
commit_group_message_first(c) ==
    /\ At(c, "addressed")
    /\ IF conn[c].row \in posts
       THEN /\ receipts' = receipts \cup [post : {conn[c].row.id}, user : conn[c].to]
            /\ posts' = posts /\ Close(c)
       ELSE posts' = posts \cup {conn[c].row} /\ UNCHANGED <<receipts, conn>>
    /\ UNCHANGED <<accounts, messageVars, keyVars, postSeq, overlapped>>

commit_group_message(c) ==
    /\ At(c, "addressed")
    /\ posts' = posts \cup {conn[c].row}
    /\ receipts' = receipts \cup [post : {conn[c].row.id}, user : conn[c].to]
    /\ Close(c)
    /\ UNCHANGED <<accounts, messageVars, keyVars, postSeq, overlapped>>

ReceiptsOf(m) == {r \in receipts : r.post = m.id}

\* The DELETE of the sender, and its cascade.
revoke_group_message(c, m) ==
    /\ At(c, "idle")
    /\ m \in posts
    /\ \A row \in {m} \cup ReceiptsOf(m) : ~Locked(row)
    /\ Open(c, [stage |-> "withdrawn", row |-> m])
    /\ UNCHANGED <<accounts, messageVars, keyVars, postVars>>

commit_revocation(c) ==
    /\ At(c, "withdrawn")
    /\ posts' = posts \ {conn[c].row}
    /\ receipts' = receipts \ ReceiptsOf(conn[c].row)
    /\ Close(c)
    /\ UNCHANGED <<accounts, messageVars, keyVars, postSeq, overlapped>>

\* A receipt is being recorded.
Acknowledges(c, i) ==
    conn[c].stage \in {"acknowledged", "kept", "last"} /\ conn[c].row.post = i

\* The DELETE of the receipt.
record_group_receipt(c, r) ==
    /\ At(c, "idle")
    /\ r \in receipts
    /\ ~Locked(r) /\ \A m \in posts : m.id = r.post => ~Locked(m)
    /\ Open(c, [stage |-> "acknowledged", row |-> r])
    /\ overlapped' = IF \E d \in Connection : Acknowledges(d, r.post)
                     THEN overlapped \cup {r.post} ELSE overlapped
    /\ UNCHANGED <<accounts, messageVars, keyVars, posts, postSeq, receipts>>

\* MUTANT: a receipt that another transaction is deleting is taken as deleted.
OthersOutstandingUncommitted(r) == {q \in receipts : q.post = r.post /\ ~Locked(q)}

\* MUTANT: NOT EXISTS still sees the receipt of the transaction itself.
OthersOutstandingAndOwn(r) == {q \in receipts : q.post = r.post}

\* What NOT EXISTS sees: what others have deleted and not committed is there.
OthersOutstanding(r) == {q \in receipts \ {r} : q.post = r.post}

\* The DELETE of the message.
delete_acknowledged(c) ==
    /\ At(c, "acknowledged")
    /\ Open(c, [stage |-> IF OthersOutstanding(conn[c].row) = {} THEN "last" ELSE "kept",
                row |-> conn[c].row])
    /\ UNCHANGED <<accounts, messageVars, keyVars, postVars>>

commit_receipt(c) ==
    /\ At(c, "kept") \/ At(c, "last")
    /\ LET gone == {m \in posts : At(c, "last") /\ m.id = conn[c].row.post} IN
       /\ posts' = posts \ gone
       /\ receipts' = {r \in receipts \ {conn[c].row} : \A m \in gone : m.id # r.post}
    /\ Close(c)
    /\ UNCHANGED <<accounts, messageVars, keyVars, postSeq, overlapped>>

-----------------------------------------------------------------------------
(* Accounts and failure *)

\* SELECT ... FOR UPDATE.
delete_user(c, u) ==
    /\ At(c, "idle")
    /\ Referable(u)
    /\ \A d \in Connection : ~Refers(d, u)
    /\ Open(c, [stage |-> "deleting", user |-> u])
    /\ UNCHANGED <<accounts, messageVars, keyVars, postVars>>

\* The groups are locked, which waits for inserts of messages to them (what
\* becomes of the groups is in GroupRepository); then the DELETE with its
\* cascades, which wait for rows others have locked.
commit_deletion(c) ==
    /\ At(c, "deleting")
    /\ LET u    == conn[c].user
           mail == {m \in messages : u \in {m.sender, m.recipient}}
           keys == {p \in prekeys : p.user = u}
           sent == {m \in posts : m.sender = u}
           due  == {r \in receipts : r.user = u \/ \E m \in sent : r.post = m.id}
       IN  /\ \A d \in Connection : conn[d].stage \notin {"posted", "addressed"}
           /\ \A row \in mail \cup keys \cup sent \cup due : ~Locked(row)
           /\ accounts' = accounts \ {u}
           /\ messages' = messages \ mail
           /\ bundles' = bundles \ {u}
           /\ prekeys' = prekeys \ keys
           /\ posts' = posts \ sent
           /\ receipts' = receipts \ due
    /\ Close(c)
    /\ UNCHANGED <<messageSeq, ended, prekeySeq, handedOut, postSeq, overlapped>>

\* A statement fails, or the process stops: what was not committed is undone.
rollback(c) ==
    /\ ~At(c, "idle")
    /\ Close(c)
    /\ UNCHANGED <<accounts, messageVars, keyVars, postVars>>

MessageStep(c) ==
    \/ \E s \in Account, r \in Account : store_message(c, s, r)
    \/ commit_message(c)
    \/ \E m \in messages : delete_message(c, m)
    \/ commit_end(c)

KeyStep(c) ==
    \/ \E u \in Account : store_key_bundle(c, u) \/ choose_prekey(c, u)
    \/ commit_bundle(c)
    \/ \E u \in Account, n \in 0..MaxUpload : add_one_time_prekeys(c, u, n)
    \/ commit_prekeys(c)
    \/ pop_one_time_prekey(c)
    \/ commit_pop(c)

GroupMessageStep(c) ==
    \/ \E s \in Account : store_group_message(c, s)
    \/ store_receipts(c)
    \/ commit_group_message(c)
    \/ \E m \in posts : revoke_group_message(c, m)
    \/ commit_revocation(c)
    \/ \E r \in receipts : record_group_receipt(c, r)
    \/ delete_acknowledged(c)
    \/ commit_receipt(c)

AccountStep(c) ==
    \/ \E u \in Account : delete_user(c, u)
    \/ commit_deletion(c)
    \/ rollback(c)

StorageNext == \E c \in Connection :
    MessageStep(c) \/ KeyStep(c) \/ GroupMessageStep(c) \/ AccountStep(c)

StorageSpec == StorageInit /\ [][StorageNext]_storageVars

-----------------------------------------------------------------------------
(* Safety *)

\* "Pops one OPK (consumed, non-repeating)" (README, GET /keys/{user_id}): no
\* two fetches are given the same one-time prekey, though any number of them may
\* have chosen it before the first DELETE.
PrekeyHandedOutOnce == \A i \in PrekeyId : handedOut[i] <= 1

\* The receipt of a message and its revocation exclude each other, and
\* neither succeeds twice: a sender who is told that a message was revoked is not
\* told so of one that was delivered (messages.py 85-128).
EndedOnce == \A i \in MessageId : ended[i] <= 1

\* "all messages sent by or addressed to the user are deleted ... all key bundles
\* and prekeys are deleted" (README, DELETE /auth/me), and none come after:
\* an insert that was on its way, or the second half of a publication, cannot
\* leave a row behind for an account that is gone.
NothingOfDeletedAccounts ==
    /\ \A m \in messages : m.sender \in accounts /\ m.recipient \in accounts
    /\ bundles \subseteq accounts
    /\ \A p \in prekeys : p.user \in accounts
    /\ \A m \in posts : m.sender \in accounts
    /\ \A r \in receipts : r.user \in accounts /\ \E m \in posts : m.id = r.post

\* A group message goes when it is revoked, or with its sender, or when nobody
\* is left who has not acknowledged it: not for a receipt that another is about
\* to delete and may yet keep (record_group_receipt's NOT EXISTS).
GoesWhenAllHaveIt ==
    [][\A m \in posts \ posts' :
         \/ \E c \in Connection : At(c, "withdrawn") /\ conn[c].row = m
         \/ m.sender \notin accounts'
         \/ \E c \in Connection : At(c, "last") /\ ReceiptsOf(m) = {conn[c].row}
      ]_storageVars

\* "The message is deleted from server storage once all recipients have
\* acknowledged it" (README 570), unless two did so at once, each seeing the
\* receipt the other was deleting, or an account was deleted with its receipt.
StaysOnlyIfOverlapped ==
    accounts = Account /\ (\A c \in Connection : At(c, "idle")) =>
        \A m \in posts : ReceiptsOf(m) # {} \/ m.id \in overlapped \/ Account = {m.sender}

\* However the statements of several connections come between each other, what is
\* committed is what requests of one step each, one after the other, would have
\* made of the tables: a message never reaches an account that is gone, a prekey
\* comes with its bundle and once, and a post with a receipt for everybody else
\* who is there when it is committed, none of which the statements check again.
Atomic == INSTANCE AtomicStorage

ImplementsAtomicStorage == Atomic!AtomicSpec

\* An inbox holds at most inbox_max_messages, however many senders insert at
\* once: test_concurrent_store_message_respects_inbox_limit.
InboxWithinLimit == \A u \in Account : Cardinality(Inbox(u)) <= InboxMax
=============================================================================
