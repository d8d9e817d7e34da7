--------------------------- MODULE GroupRepository ---------------------------
(***************************************************************************)
(* The group tables of SecureMsg and the operations that write them:       *)
(* app/repositories/group.py, the part of app/repositories/user.py that    *)
(* touches groups, and the constraints of app/models/group.py.             *)
(*                                                                         *)
(* An operation is one action.  Its statements run in one transaction on a *)
(* session of its own, and here the transactions run one after the other;  *)
(* GroupApi drops that assumption for what a request reads before its      *)
(* handler runs.  A call that fails (PermissionError, LookupError, an      *)
(* IntegrityError of a foreign key) is rolled back and leaves every table  *)
(* as it was: the conditions under which it succeeds are the guards.       *)
(*                                                                         *)
(* A row is a tuple of the ids in it.  Names, ciphertexts and the epoch a  *)
(* client writes on a message are left out: no operation reads them.       *)
(*                                                                         *)
(* A definition under the word MUTANT is a slip the code could have made;  *)
(* it is used only to see that a property would notice.                    *)
(***************************************************************************)
EXTENDS Integers, FiniteSets, FiniteSetsExt

CONSTANTS
    MaxUser,     \* bound: how many accounts are ever registered
    MaxGroup,    \* bound: how many groups are ever created
    MaxMessage,  \* bound: how many group messages are ever stored
    MaxEpoch     \* bound: how often the key of a group changes

ASSUME BoundsAssumption ==
    /\ MaxUser \in Nat
    /\ MaxGroup \in Nat
    /\ MaxMessage \in Nat
    /\ MaxEpoch \in Nat

VARIABLES
    users,       \* ids of the rows of table users
    userSeq,     \* the last id users.id was given (autoincrement, never reused)
    groups,      \* ids of the rows of table groups
    groupSeq,    \* the last id groups.id was given
    creator,     \* groups.creator_id
    epoch,       \* groups.epoch
    members,     \* table group_members: the user ids of each group
    skdms,       \* table sender_key_distributions
    messages,    \* table group_messages
    messageSeq,  \* the last id group_messages.id was given
    receipts,    \* table group_message_receipts: who has still to acknowledge
    keyHeld      \* history: the newest epoch whose key a user has fetched

accountVars == <<users, userSeq>>
groupVars   == <<groups, groupSeq, creator, epoch, members>>
keyVars     == <<skdms, keyHeld>>
messageVars == <<messages, messageSeq, receipts>>
tables      == <<accountVars, groupVars, keyVars, messageVars>>

UserId    == 1..MaxUser
GroupId   == 1..MaxGroup
MessageId == 1..MaxMessage

NoUser == 0   \* creator of an id that is not a row
NoKey  == 0   \* keyHeld of a user who has fetched nothing: keys start at epoch 1

SKDM    == [group : GroupId, recipient : UserId, epoch : 1..MaxEpoch]
Message == [id : MessageId, group : GroupId, sender : UserId]
Receipt == [message : MessageId, user : UserId]

TypeOK ==
    /\ userSeq \in 0..MaxUser       /\ users \subseteq 1..userSeq
    /\ groupSeq \in 0..MaxGroup     /\ groups \subseteq 1..groupSeq
    /\ creator \in [GroupId -> UserId \cup {NoUser}]
    /\ epoch \in [GroupId -> 0..MaxEpoch]
    /\ members \in [GroupId -> SUBSET UserId]
    /\ skdms \subseteq SKDM
    /\ keyHeld \in [GroupId -> [UserId -> 0..MaxEpoch]]
    /\ messageSeq \in 0..MaxMessage
    /\ messages \subseteq Message   /\ receipts \subseteq Receipt

Init ==
    /\ users = {}      /\ userSeq = 0
    /\ groups = {}     /\ groupSeq = 0
    /\ creator = [g \in GroupId |-> NoUser]
    /\ epoch = [g \in GroupId |-> 0]
    /\ members = [g \in GroupId |-> {}]
    /\ skdms = {}
    /\ keyHeld = [g \in GroupId |-> [u \in UserId |-> NoKey]]
    /\ messages = {}   /\ messageSeq = 0   /\ receipts = {}

-----------------------------------------------------------------------------
(* Rows that go with the row they reference (ondelete="CASCADE").          *)

\* The receipts whose message is among msgs.
ReceiptsOf(msgs) == {r \in receipts : \E m \in msgs : m.id = r.message}

\* What a user still has to acknowledge of message id.
Outstanding(id) == {r.user : r \in {s \in receipts : s.message = id}}

\* DELETE FROM groups WHERE id = g
DeleteGroup(g) ==
    /\ groups' = groups \ {g}
    /\ creator' = [creator EXCEPT ![g] = NoUser]
    /\ epoch' = [epoch EXCEPT ![g] = 0]
    /\ members' = [members EXCEPT ![g] = {}]
    /\ skdms' = {s \in skdms : s.group # g}
    /\ keyHeld' = [keyHeld EXCEPT ![g] = [u \in UserId |-> NoKey]]
    /\ messages' = {m \in messages : m.group # g}
    /\ receipts' = ReceiptsOf(messages')
    /\ UNCHANGED <<accountVars, groupSeq, messageSeq>>

-----------------------------------------------------------------------------
(* Accounts *)

create_user ==
    /\ userSeq < MaxUser
    /\ userSeq' = userSeq + 1
    /\ users' = users \cup {userSeq'}
    /\ UNCHANGED <<groupVars, keyVars, messageVars>>

\* The groups a user is in, split by member_count as delete_user splits them.
GroupsOf(u)     == {g \in groups : u \in members[g]}
SoleGroups(u)   == {g \in GroupsOf(u) : Cardinality(members[g]) <= 1}
SharedGroups(u) == GroupsOf(u) \ SoleGroups(u)

\* MUTANT: the new creator is sought among all members, the leaver included.
CreatorAfterFromAll(u, g) ==
    IF g \in SharedGroups(u) /\ creator[g] = u THEN Min(members[g]) ELSE creator[g]

\* creator_id after the UPDATE of the shared groups.
CreatorAfter(u, g) ==
    IF g \in SharedGroups(u) /\ creator[g] = u
    THEN Min(members[g] \ {u})
    ELSE creator[g]

\* MUTANT: the epoch moves only where the creator does.
EpochAfterOwnOnly(u, g) ==
    IF g \in SharedGroups(u) /\ creator[g] = u THEN epoch[g] + 1 ELSE epoch[g]

\* epoch after the same UPDATE.
EpochAfter(u, g) == IF g \in SharedGroups(u) THEN epoch[g] + 1 ELSE epoch[g]

\* The groups that outlive account u: not deleted as sole groups, and not
\* taken away by the cascade of groups.creator_id.
GroupsAfter(u) == {g \in groups \ SoleGroups(u) : CreatorAfter(u, g) # u}

delete_user(u) ==
    /\ u \in users
    /\ \A g \in SharedGroups(u) : epoch[g] < MaxEpoch
    /\ users' = users \ {u}
    /\ groups' = GroupsAfter(u)
    /\ creator' = [g \in GroupId |-> IF g \in groups' THEN CreatorAfter(u, g) ELSE NoUser]
    /\ epoch' = [g \in GroupId |-> IF g \in groups' THEN EpochAfter(u, g) ELSE 0]
    /\ members' = [g \in GroupId |-> IF g \in groups' THEN members[g] \ {u} ELSE {}]
    /\ skdms' = {s \in skdms : s.group \in groups' /\ s.recipient # u}
    /\ keyHeld' = [g \in GroupId |-> IF g \in groups' THEN keyHeld[g]
                                      ELSE [v \in UserId |-> NoKey]]
    /\ messages' = {m \in messages : m.group \in groups' /\ m.sender # u}
    /\ receipts' = {r \in ReceiptsOf(messages') : r.user # u}
    /\ UNCHANGED <<userSeq, groupSeq, messageSeq>>

-----------------------------------------------------------------------------
(* Groups and their keys *)

\* MUTANT: the epoch is read before the UPDATE instead of returned by it.
NewSKDMsOfOldEpoch(g, recipients) ==
    [group : {g}, recipient : recipients, epoch : {epoch[g]}]

\* The rows _store_skdms adds: a key for each recipient, at the epoch the
\* UPDATE it starts with has just returned.
NewSKDMs(g, recipients) ==
    [group : {g}, recipient : recipients, epoch : {epoch[g] + 1}]

\* MUTANT: keys are stamped with the next epoch, and the group stays where it is.
store_keys_without_bump(g, recipients, pending) ==
    /\ recipients \subseteq users
    /\ epoch[g] < MaxEpoch
    /\ skdms' = pending \cup NewSKDMs(g, recipients)
    /\ UNCHANGED <<epoch, keyHeld>>

\* _store_skdms on the rows `pending` of the table.
store_keys(g, recipients, pending) ==
    /\ recipients \subseteq users
    /\ epoch[g] < MaxEpoch
    /\ epoch' = [epoch EXCEPT ![g] = @ + 1]
    /\ skdms' = pending \cup NewSKDMs(g, recipients)
    /\ UNCHANGED keyHeld

\* MUTANT: the creator is not put among the members.
FoundingMembersWithoutCreator(c, initial) == initial

\* The group_members rows of a new group.
FoundingMembers(c, initial) == {c} \cup initial

create_group(c, initial) ==
    LET g == groupSeq + 1 IN
    /\ groupSeq < MaxGroup
    /\ c \in users
    /\ initial \subseteq users \ {c}
    /\ groupSeq' = g
    /\ groups' = groups \cup {g}
    /\ creator' = [creator EXCEPT ![g] = c]
    /\ members' = [members EXCEPT ![g] = FoundingMembers(c, initial)]
    /\ IF initial = {} THEN UNCHANGED <<epoch, keyVars>>
                       ELSE store_keys(g, initial, skdms)
    /\ UNCHANGED <<accountVars, messageVars>>

add_member(g, requester, u) ==
    /\ g \in groups
    /\ creator[g] = requester
    /\ members' = [members EXCEPT ![g] = @ \cup {u}]
    /\ store_keys(g, {u}, skdms)
    /\ UNCHANGED <<accountVars, groups, groupSeq, creator, messageVars>>

\* MUTANT: nobody is promoted.
CreatorWithout(g, u, owner) == creator[g]

\* creator_id once u has been removed from g by a session that takes `owner`
\* for the creator.
Promoted(g, u, owner) == IF owner = u THEN Min(members[g] \ {u}) ELSE creator[g]

\* MUTANT: only the keys for whoever was removed are dropped.
KeysForOthers(g, u) == {s \in skdms : ~(s.group = g /\ s.recipient = u)}

\* The keys left in the table when u has been removed from g.
KeysOfOtherGroups(g, u) == {s \in skdms : s.group # g}

\* `owner` is the creator_id the session holds for the group.  In a session
\* that has not read the group before it is creator[g].
remove_member(g, requester, u, owner, recipients) ==
    LET rest == members[g] \ {u} IN
    /\ g \in groups
    /\ requester = u \/ requester = owner
    /\ u \in members[g]
    /\ \/ /\ Cardinality(rest) <= 1
          /\ DeleteGroup(g)
       \/ /\ Cardinality(rest) > 1
          /\ members' = [members EXCEPT ![g] = rest]
          /\ creator' = [creator EXCEPT ![g] = Promoted(g, u, owner)]
          /\ store_keys(g, recipients, KeysOfOtherGroups(g, u))
          /\ UNCHANGED <<accountVars, groups, groupSeq, messageVars>>

store_skdms(g, recipients) ==
    /\ g \in groups
    /\ store_keys(g, recipients, skdms)
    /\ UNCHANGED <<accountVars, groups, groupSeq, creator, members, messageVars>>

\* The keys waiting for u in group g.
KeysFor(u, g) == {s \in skdms : s.recipient = u /\ s.group = g}

pop_skdms_for_user(u, g) ==
    /\ skdms' = skdms \ KeysFor(u, g)
    /\ keyHeld' = [keyHeld EXCEPT ![g][u] = Max({@} \cup {s.epoch : s \in KeysFor(u, g)})]
    /\ UNCHANGED <<accountVars, groupVars, messageVars>>

-----------------------------------------------------------------------------
(* Group messages *)

\* MUTANT: the sender has to acknowledge as well.
AudienceWithSender(g, sender) == members[g]

\* Who has to acknowledge a message of sender in g.
Audience(g, sender) == members[g] \ {sender}

store_group_message(g, sender) ==
    /\ messageSeq < MaxMessage
    /\ g \in groups
    /\ sender \in users
    /\ messageSeq' = messageSeq + 1
    /\ messages' = messages \cup {[id |-> messageSeq', group |-> g, sender |-> sender]}
    /\ receipts' = receipts \cup [message : {messageSeq'}, user : Audience(g, sender)]
    /\ UNCHANGED <<accountVars, groupVars, keyVars>>

revoke_group_message(id, sender) ==
    /\ \E m \in messages : m.id = id /\ m.sender = sender
    /\ messages' = {m \in messages : m.id # id}
    /\ receipts' = {r \in receipts : r.message # id}
    /\ UNCHANGED <<accountVars, groupVars, keyVars, messageSeq>>

\* MUTANT: the first to acknowledge takes the message away.
record_first_receipt(id, u) ==
    /\ u \in Outstanding(id)
    /\ messages' = {m \in messages : m.id # id}
    /\ receipts' = {r \in receipts : r.message # id}
    /\ UNCHANGED <<accountVars, groupVars, keyVars, messageSeq>>

\* MUTANT: what the receipt removes is still counted.
record_receipt_only(id, u) ==
    /\ u \in Outstanding(id)
    /\ receipts' = receipts \ {[message |-> id, user |-> u]}
    /\ UNCHANGED <<accountVars, groupVars, keyVars, messages, messageSeq>>

record_group_receipt(id, u) ==
    /\ u \in Outstanding(id)
    /\ receipts' = receipts \ {[message |-> id, user |-> u]}
    /\ messages' = IF Outstanding(id) = {u} THEN {m \in messages : m.id # id}
                                            ELSE messages
    /\ UNCHANGED <<accountVars, groupVars, keyVars, messageSeq>>

-----------------------------------------------------------------------------
(* Requests, each from first check to commit without another in between.   *)

\* The group and membership checks of the dependency of that name.
require_group_member(g, u) == g \in groups /\ u \in members[g]

Register == create_user

DeleteAccount == \E u \in users : delete_user(u)

CreateGroup ==
    \E c \in users : \E initial \in SUBSET (users \ {c}) : create_group(c, initial)

AddMember ==
    \E g \in groups, requester \in users, u \in users :
        /\ require_group_member(g, requester)
        /\ add_member(g, requester, u)

RemoveMember ==
    \E g \in groups, requester \in users, u \in users, recipients \in SUBSET users :
        /\ require_group_member(g, requester)
        /\ remove_member(g, requester, u, creator[g], recipients)

SendSKDMs ==
    \E g \in groups, requester \in users, recipients \in (SUBSET users) \ {{}} :
        /\ require_group_member(g, requester)
        /\ store_skdms(g, recipients)

PopSKDMs ==
    \E g \in groups, u \in users :
        /\ require_group_member(g, u)
        /\ pop_skdms_for_user(u, g)

SendMessage ==
    \E g \in groups, u \in users :
        /\ require_group_member(g, u)
        /\ store_group_message(g, u)

\* The group in the URL is the one the membership check is about; it need
\* not be the group of the message.
RevokeMessage ==
    \E g \in groups, u \in users, m \in messages :
        /\ require_group_member(g, u)
        /\ revoke_group_message(m.id, u)

RecordReceipt ==
    \E g \in groups, u \in users, m \in messages :
        /\ require_group_member(g, u)
        /\ record_group_receipt(m.id, u)

Next ==
    \/ Register
    \/ DeleteAccount
    \/ CreateGroup
    \/ AddMember
    \/ RemoveMember
    \/ SendSKDMs
    \/ PopSKDMs
    \/ SendMessage
    \/ RevokeMessage
    \/ RecordReceipt

Spec == Init /\ [][Next]_tables

\* A member fetches the messages of a group it is in and acknowledges them.
Acknowledge(u) ==
    \E m \in messages : /\ require_group_member(m.group, u)
                        /\ record_group_receipt(m.id, u)

\* A client that stays a member acknowledges in the end.
FairSpec == Spec /\ \A u \in UserId : WF_tables(Acknowledge(u))

-----------------------------------------------------------------------------
(* Safety *)

\* The account that may add and remove members of a group is one of its
\* members.  remove_member and delete_user each keep this with a promotion of
\* their own, on different conditions (group.py 132-151, user.py 103-122).
CreatorIsMember == \A g \in groups : creator[g] \in members[g]

\* No key of the current epoch is in the hands of somebody outside the group:
\* whoever was removed, or never was in, has at most keys of older epochs.
\* Every way out of a group has to move the epoch past all keys handed out.
CurrentKeyKeptInside ==
    \A g \in groups, u \in UserId :
        u \notin members[g] /\ keyHeld[g][u] # NoKey => keyHeld[g][u] < epoch[g]

\* A key waiting to be fetched never carries an epoch its group has not
\* reached, so that the next key change cannot meet the unique constraint
\* (recipient, group, epoch) and fail.
PendingKeysNotAhead == \A s \in skdms : s.group \in groups /\ s.epoch <= epoch[s.group]

\* What the invariants above rest on: an id that is no row yet, or no longer,
\* is as create_group finds it, and nobody has a key of an epoch to come.
KeysBelongToGroups ==
    \A g \in GroupId :
        /\ g \in groups    => \A u \in UserId : keyHeld[g][u] <= epoch[g]
        /\ g \notin groups => /\ epoch[g] = 0
                             /\ members[g] = {}
                             /\ \A u \in UserId : keyHeld[g][u] = NoKey

\* The inductive invariant.
GroupInvariant ==
    /\ TypeOK
    /\ CreatorIsMember
    /\ CurrentKeyKeptInside
    /\ PendingKeysNotAhead
    /\ KeysBelongToGroups

\* Nobody is asked to acknowledge a message sent before they joined: after it
\* is stored, the audience of a message only shrinks, and never has its sender.
AudienceOnlyShrinks ==
    [][\A m \in messages' :
          /\ [message |-> m.id, user |-> m.sender] \notin receipts'
          /\ m \in messages =>
                {r \in receipts' : r.message = m.id} \subseteq receipts]_tables

\* A forced or voluntary leave drops every key that was composed for the old
\* membership: what is left to fetch in the group has the new epoch.  Not so a
\* leave by deletion of the account (u is no user then): delete_user moves the
\* epoch and leaves the keys that wait.
RemovalPurgesPendingKeys ==
    [][\A g \in groups \cap groups', u \in users' :
          u \in members[g] \ members'[g] =>
              \A s \in skdms' : s.group = g => s.epoch = epoch'[g]]_tables

\* Why a message may stay in the server: somebody who has left the group has
\* not acknowledged it and cannot any more, or the last who had not has
\* deleted the account, and the receipt went without the message.
StaysForGood(m) ==
    \/ \E u \in Outstanding(m.id) : u \notin members[m.group]
    \/ Outstanding(m.id) = {} /\ users # 1..userSeq

\* If its recipients acknowledge, a message goes, or one of the two has come
\* between (record_group_receipt; remove_member and delete_user, which do not
\* look at messages).  A message its sender stored while alone in the group has
\* no recipients, and stays.
MessagesGoOrAreStranded ==
    \A id \in MessageId :
        (\E m \in messages : m.id = id /\ Outstanding(id) # {})
            ~> (\A m \in messages : m.id = id => StaysForGood(m))
-----------------------------------------------------------------------------
(* What the tables mean in terms of GroupLife. *)

phase == [g \in GroupId |-> IF g \in groups THEN "live"
                            ELSE IF g <= groupSeq THEN "dead" ELSE "unborn"]

Life == INSTANCE GroupLife WITH
            Group <- GroupId, User <- UserId,
            phase <- phase, roster <- members, owner <- creator, epoch <- epoch

\* Every operation on the tables, the cascades of the foreign keys included, is
\* a move that GroupLife allows each group: epochs move with every key and
\* with every leave, owners are followed by the lowest id, and no group of
\* three or more disappears at one stroke.
ImplementsGroupLife == Life!Spec
=============================================================================
