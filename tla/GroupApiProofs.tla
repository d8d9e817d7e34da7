--------------------------- MODULE GroupApiProofs ---------------------------
(***************************************************************************)
(* What the operations on the tables keep and do whoever calls them, and   *)
(* with it theorems about GroupApi, for any number of requests in flight,  *)
(* and about the steps of GroupRepository.                                 *)
(*                                                                         *)
(* GroupInvariant is of no use here: between requests in flight the        *)
(* creator of a group need not be a member.  The last section shows what   *)
(* becomes of that when requests do not overlap.                           *)
(***************************************************************************)
EXTENDS GroupApi, GroupRepositoryProofs

USE BoundsAssumption

\* A message has an id of its own, and nobody acknowledges what is not there or
\* what they have sent.
MessageIds ==
    /\ \A m \in messages : m.id <= messageSeq /\ \A n \in messages : n.id = m.id => n = m
    /\ \A r \in receipts : \E m \in messages : m.id = r.message /\ m.sender # r.user

Tables == TypeOK /\ NoGroupWithoutMembers /\ MessageIds

\* The steps of LeaveChangesKey, RemovalPurgesPendingKeys, AudienceOnlyShrinks.
LeaveRekeys ==
    \A g \in groups \cap groups' :
        /\ epoch'[g] >= epoch[g]
        /\ members[g] \ members'[g] # {} => epoch'[g] > epoch[g]

LeavePurges ==
    \A g \in groups \cap groups', u \in users' :
        u \in members[g] \ members'[g] =>
            \A s \in skdms' : s.group = g => s.epoch = epoch'[g]

AudienceFixed ==
    \A m \in messages' :
        /\ [message |-> m.id, user |-> m.sender] \notin receipts'
        /\ m \in messages => {r \in receipts' : r.message = m.id} \subseteq receipts

\* A key that waits was waiting before, and its group has not gone, or it is of
\* the epoch its group has now.
KeysFollow ==
    \A s \in skdms' :
        \/ s \in skdms /\ (s.group \in groups => s.group \in groups')
        \/ s.group \in groups' /\ s.epoch = epoch'[s.group]

Step == Tables' /\ LeaveRekeys /\ LeavePurges /\ AudienceFixed /\ KeysFollow
-----------------------------------------------------------------------------
(* What a part of the tables that rests keeps. *)

LEMMA Typing ==
    ASSUME TypeOK
    PROVE  /\ groups \subseteq GroupId /\ users \subseteq UserId
           /\ \A g \in GroupId : epoch[g] \in 0..MaxEpoch /\ members[g] \subseteq UserId
           /\ \A m \in messages : m.id \in MessageId
BY DEF TypeOK, GroupId, UserId, Message

LEMMA GroupsRest ==
    ASSUME TypeOK, NoGroupWithoutMembers, UNCHANGED groupVars, skdms' \subseteq skdms
    PROVE  NoGroupWithoutMembers' /\ LeaveRekeys /\ LeavePurges /\ KeysFollow
<1>1. UNCHANGED <<groups, groupSeq, creator, epoch, members>> BY DEF groupVars
<1>2. \A g \in groups : epoch[g] \in Nat BY Typing
<1> QED BY <1>1, <1>2 DEF NoGroupWithoutMembers, LeaveRekeys, LeavePurges, KeysFollow

\* Nobody is asked for a receipt of a message of their own.
LEMMA NotTheSender ==
    ASSUME MessageIds, NEW m \in messages
    PROVE  [message |-> m.id, user |-> m.sender] \notin receipts
<1> SUFFICES ASSUME [message |-> m.id, user |-> m.sender] \in receipts PROVE FALSE
  OBVIOUS
<1>1. PICK n \in messages : n.id = m.id /\ n.sender # m.sender BY DEF MessageIds
<1> QED BY <1>1 DEF MessageIds

LEMMA MessagesRest ==
    ASSUME MessageIds, UNCHANGED messageVars
    PROVE  MessageIds' /\ AudienceFixed
<1>1. UNCHANGED <<messages, messageSeq, receipts>> BY DEF messageVars
<1> QED BY <1>1, NotTheSender DEF MessageIds, AudienceFixed

\* Messages that go take their receipts along.
LEMMA MessagesGo ==
    ASSUME MessageIds, messageSeq' = messageSeq,
           messages' \subseteq messages, receipts' \subseteq receipts,
           \A r \in receipts' : \E m \in messages' : m.id = r.message
    PROVE  MessageIds' /\ AudienceFixed
<1>1. \A m \in messages' :
        m.id <= messageSeq' /\ \A n \in messages' : n.id = m.id => n = m
  BY DEF MessageIds
<1>2. ASSUME NEW r \in receipts'
      PROVE  \E m \in messages' : m.id = r.message /\ m.sender # r.user
  <2>1. PICK m \in messages' : m.id = r.message OBVIOUS
  <2>2. PICK n \in messages : n.id = r.message /\ n.sender # r.user BY DEF MessageIds
  <2>3. n = m BY <2>1, <2>2 DEF MessageIds
  <2> QED BY <2>1, <2>2, <2>3
<1>3. AudienceFixed BY NotTheSender DEF AudienceFixed
<1> QED BY <1>1, <1>2, <1>3 DEF MessageIds
-----------------------------------------------------------------------------
(* Accounts *)

LEMMA CreateUserStep == ASSUME Tables, create_user PROVE Step
<1>1. TypeOK'
  BY DEF Tables, TypeOK, create_user, groupVars, keyVars, messageVars, UserId
<1>2. UNCHANGED groupVars /\ UNCHANGED messageVars /\ skdms' = skdms
  BY DEF create_user, keyVars
<1> QED BY <1>1, <1>2, GroupsRest, MessagesRest DEF Tables, Step

\* Who stays in a group of the account that goes has a new epoch.
LEMMA DeleteUserStep ==
    ASSUME Tables, NEW u, delete_user(u)
    PROVE  /\ Step
           /\ \A m \in messages \ messages' : m.group \notin groups' \/ m.sender \notin users'
<1> USE DEF Tables
<1>1. TypeOK /\ u \in users /\ u \in UserId /\ groups \subseteq GroupId
  <2>1. TypeOK /\ u \in users BY DEF delete_user
  <2> QED BY <2>1, Typing
<1>2. ASSUME NEW g \in groups
      PROVE  /\ u \in members[g] => g \in SharedGroups(u) \/ g \in SoleGroups(u)
             /\ g \in SharedGroups(u) => u \in members[g]
  BY DEF SharedGroups, SoleGroups, GroupsOf
<1>3. /\ users' = users \ {u} /\ groups' = GroupsAfter(u) /\ groups' \subseteq groups
      /\ UNCHANGED <<userSeq, groupSeq, messageSeq>>
  BY DEF delete_user, GroupsAfter
<1>4. \A g \in GroupId : /\ g \in groups'    => members'[g] = members[g] \ {u}
                         /\ g \notin groups' => members'[g] = {}
  BY DEF delete_user
<1>5. \A g \in GroupId :
         /\ g \notin groups' => epoch'[g] = 0
         /\ g \in groups' /\ g \in SharedGroups(u) =>
               epoch'[g] = epoch[g] + 1 /\ epoch[g] < MaxEpoch
         /\ g \in groups' /\ g \notin SharedGroups(u) => epoch'[g] = epoch[g]
  BY DEF delete_user, EpochAfter
<1>6. TypeOK'
  <2>1. \A g \in groups : CreatorAfter(u, g) \in UserId \cup {NoUser}
    <3>1. SUFFICES ASSUME NEW g \in groups PROVE CreatorAfter(u, g) \in UserId \cup {NoUser}
      OBVIOUS
    <3>2. g \in GroupId /\ members[g] \subseteq UserId /\ creator[g] \in UserId \cup {NoUser}
      BY <1>1 DEF TypeOK
    <3> QED BY <1>1, <3>2, SharedHasSuccessor DEF CreatorAfter
  <2>2. creator' \in [GroupId -> UserId \cup {NoUser}]
    <3>1. creator' = [g \in GroupId |-> IF g \in groups' THEN CreatorAfter(u, g) ELSE NoUser]
      BY DEF delete_user
    <3> QED BY <1>3, <2>1, <3>1
  <2>3. epoch' \in [GroupId -> 0..MaxEpoch]
    <3>1. epoch' = [g \in GroupId |-> epoch'[g]] BY DEF delete_user
    <3>2. \A g \in GroupId : epoch'[g] \in 0..MaxEpoch BY <1>5 DEF TypeOK
    <3> QED BY <3>1, <3>2
  <2>4. members' \in [GroupId -> SUBSET UserId] BY DEF delete_user, TypeOK
  <2>5. keyHeld' \in [GroupId -> [UserId -> 0..MaxEpoch]]
    <3>1. keyHeld' = [g \in GroupId |-> IF g \in groups' THEN keyHeld[g]
                                        ELSE [v \in UserId |-> NoKey]]
      BY DEF delete_user
    <3> QED BY <3>1 DEF TypeOK, NoKey
  <2>6. skdms' \subseteq SKDM /\ messages' \subseteq Message /\ receipts' \subseteq Receipt
    BY DEF delete_user, TypeOK, ReceiptsOf
  <2> QED BY <1>3, <2>2, <2>3, <2>4, <2>5, <2>6 DEF TypeOK
<1>7. NoGroupWithoutMembers'
  <2>1. SUFFICES ASSUME NEW g \in groups' PROVE members[g] \ {u} # {}
    BY <1>1, <1>3, <1>4 DEF NoGroupWithoutMembers
  <2>2. g \in groups /\ g \in GroupId /\ g \notin SoleGroups(u)
    BY <1>1, <1>3 DEF GroupsAfter
  <2>3. CASE g \in SharedGroups(u) BY <1>1, <2>2, <2>3, SharedHasSuccessor
  <2>4. CASE g \notin SharedGroups(u)
    BY <1>2, <2>2, <2>4 DEF NoGroupWithoutMembers
  <2> QED BY <2>3, <2>4
<1>8. LeaveRekeys
  <2>1. SUFFICES ASSUME NEW g \in groups \cap groups'
                 PROVE  /\ epoch'[g] >= epoch[g]
                        /\ members[g] \ members'[g] # {} => epoch'[g] > epoch[g]
    BY DEF LeaveRekeys
  <2>2. g \in GroupId /\ epoch[g] \in Nat /\ g \notin SoleGroups(u)
    BY <1>1, <1>3, Typing DEF GroupsAfter
  <2>3. members[g] \ members'[g] # {} => u \in members[g] BY <1>4, <2>2
  <2> QED BY <1>2, <1>5, <2>2, <2>3
<1>9. LeavePurges
  <2>1. \A g \in groups \cap groups' : members[g] \ members'[g] \subseteq {u}
    BY <1>1, <1>4
  <2> QED BY <1>3, <2>1 DEF LeavePurges
<1>10. MessageIds' /\ AudienceFixed
  <2>1. /\ messages' \subseteq messages /\ receipts' \subseteq receipts
        /\ \A r \in receipts' : \E m \in messages' : m.id = r.message
    BY DEF delete_user, ReceiptsOf
  <2> QED BY <1>3, <2>1, MessagesGo
<1>11. \A m \in messages \ messages' : m.group \notin groups' \/ m.sender \notin users'
  BY <1>3 DEF delete_user
<1>12. KeysFollow BY DEF delete_user, KeysFollow
<1> QED BY <1>6, <1>7, <1>8, <1>9, <1>10, <1>11, <1>12 DEF Step
-----------------------------------------------------------------------------
(* Groups and their keys *)

\* A new epoch for group g: whoever leaves has its pending keys dropped.
LEMMA NewEpochStep ==
    ASSUME Tables, NEW g \in groups, NEW recipients, NEW pending \in SUBSET skdms,
           store_keys(g, recipients, pending),
           groups' = groups, groupSeq' = groupSeq,
           creator' \in [GroupId -> UserId \cup {NoUser}],
           members' \in [GroupId -> SUBSET UserId], members'[g] # {},
           \A h \in GroupId \ {g} : members'[h] = members[h],
           members[g] \subseteq members'[g] \/ \A s \in pending : s.group # g,
           UNCHANGED <<accountVars, messageVars>>
    PROVE  Step
<1> USE DEF Tables, store_keys
<1>0. UNCHANGED <<users, userSeq, messages, messageSeq, receipts>>
  BY DEF accountVars, messageVars
<1>1. g \in GroupId /\ groups \subseteq GroupId /\ recipients \subseteq UserId
  BY Typing
<1>2. /\ epoch' \in [GroupId -> 0..MaxEpoch] /\ epoch[g] \in 0..MaxEpoch
      /\ epoch'[g] = epoch[g] + 1
      /\ \A h \in GroupId \ {g} : epoch'[h] = epoch[h]
  BY <1>1 DEF TypeOK
<1>3. \A s \in NewSKDMs(g, recipients) : s \in SKDM /\ s.group = g /\ s.epoch = epoch[g] + 1
  BY <1>1, <1>2, NewRows
<1>4. skdms' = pending \cup NewSKDMs(g, recipients) /\ skdms' \subseteq SKDM
  BY <1>3 DEF TypeOK
<1>5. TypeOK' BY <1>0, <1>2, <1>4 DEF TypeOK
<1>6. NoGroupWithoutMembers' BY <1>1 DEF NoGroupWithoutMembers
<1>7. LeaveRekeys
  <2>1. \A h \in groups : epoch[h] \in Nat BY Typing
  <2> QED BY <1>1, <1>2, <2>1 DEF LeaveRekeys
<1>8. LeavePurges
  <2>1. SUFFICES ASSUME NEW h \in groups, NEW u \in members[h] \ members'[h],
                        NEW s \in skdms', s.group = h
                 PROVE  s.epoch = epoch'[h]
    BY DEF LeavePurges
  <2>2. h = g BY <1>1, <2>1
  <2>3. s \in NewSKDMs(g, recipients) BY <1>4, <2>1, <2>2
  <2> QED BY <1>2, <1>3, <2>2, <2>3
<1>9. KeysFollow BY <1>2, <1>3, <1>4 DEF KeysFollow
<1> QED BY <1>5, <1>6, <1>7, <1>8, <1>9, MessagesRest DEF Step

LEMMA CreateGroupStep ==
    ASSUME Tables, NEW c, NEW initial, create_group(c, initial)
    PROVE  Step
<1> DEFINE g == groupSeq + 1
<1> USE DEF Tables
<1>0. /\ groupSeq < MaxGroup /\ g = groupSeq + 1 /\ groupSeq' = g /\ groups' = groups \cup {g}
      /\ c \in users /\ initial \subseteq users
      /\ creator' = [creator EXCEPT ![g] = c]
      /\ members' = [members EXCEPT ![g] = {c} \cup initial]
      /\ initial = {}  => UNCHANGED <<epoch, skdms, keyHeld>>
      /\ initial # {} => store_keys(g, initial, skdms)
      /\ UNCHANGED <<users, userSeq, messages, messageSeq, receipts>>
  BY DEF create_group, FoundingMembers, accountVars, messageVars, keyVars
<1>1. g \in GroupId /\ g \notin groups /\ c \in UserId /\ initial \subseteq UserId
  BY <1>0 DEF TypeOK, GroupId, UserId
<1> HIDE DEF g
<1>2. /\ keyHeld' = keyHeld
      /\ epoch' \in [GroupId -> 0..MaxEpoch]
      /\ \A h \in GroupId \ {g} : epoch'[h] = epoch[h]
      /\ skdms' \subseteq SKDM
      /\ \A s \in skdms' : s \in skdms \/ (s.group = g /\ s.epoch = epoch'[g])
  <2>1. CASE initial = {}
    <3>1. UNCHANGED <<epoch, skdms, keyHeld>> BY <1>0, <2>1
    <3>2. \A s \in skdms' : s \in skdms BY <3>1
    <3> QED BY <3>1, <3>2 DEF TypeOK
  <2>2. CASE initial # {}
    <3>1. store_keys(g, initial, skdms) BY <1>0, <2>2
    <3>2. /\ epoch' \in [GroupId -> 0..MaxEpoch] /\ epoch[g] \in 0..MaxEpoch
          /\ epoch[g] < MaxEpoch /\ keyHeld' = keyHeld
          /\ \A h \in GroupId \ {g} : epoch'[h] = epoch[h]
          /\ epoch'[g] = epoch[g] + 1 /\ skdms' = skdms \cup NewSKDMs(g, initial)
      BY <1>1, <3>1 DEF store_keys, TypeOK
    <3>3. \A s \in NewSKDMs(g, initial) : s \in SKDM /\ s.group = g /\ s.epoch = epoch[g] + 1
      BY <1>1, <3>2, NewRows
    <3>4. skdms' \subseteq SKDM BY <3>2, <3>3 DEF TypeOK
    <3>5. \A s \in skdms' : s \in skdms \/ (s.group = g /\ s.epoch = epoch'[g])
      BY <3>2, <3>3
    <3> QED BY <3>2, <3>4, <3>5
  <2> QED BY <2>1, <2>2
<1>3. TypeOK'
  <2>1. groupSeq' \in 0..MaxGroup /\ groups' \subseteq 1..groupSeq'
    BY <1>0, <1>1 DEF TypeOK, GroupId
  <2>2. creator' \in [GroupId -> UserId \cup {NoUser}] /\ members' \in [GroupId -> SUBSET UserId]
    BY <1>0, <1>1 DEF TypeOK
  <2> QED BY <1>0, <1>2, <2>1, <2>2 DEF TypeOK
<1>4. \A h \in groups : /\ h \in GroupId \ {g} /\ members'[h] = members[h]
                        /\ epoch'[h] = epoch[h] /\ epoch[h] \in Nat
  <2>1. groups \subseteq GroupId \ {g} BY <1>1, Typing
  <2>2. \A h \in GroupId \ {g} : members'[h] = members[h] BY <1>0 DEF TypeOK
  <2> QED BY <1>2, <2>1, <2>2, Typing
<1>5. members'[g] # {} BY <1>0, <1>1 DEF TypeOK
<1>6. NoGroupWithoutMembers' BY <1>0, <1>4, <1>5 DEF NoGroupWithoutMembers
<1>7. LeaveRekeys /\ LeavePurges BY <1>4 DEF LeaveRekeys, LeavePurges
<1>8. UNCHANGED messageVars BY <1>0 DEF messageVars
<1>9. KeysFollow BY <1>0, <1>2 DEF KeysFollow
<1> QED BY <1>3, <1>6, <1>7, <1>8, <1>9, MessagesRest DEF Step

LEMMA AddMemberStep ==
    ASSUME Tables, NEW g, NEW requester, NEW u \in users, add_member(g, requester, u)
    PROVE  Step
<1> USE DEF Tables
<1>1. g \in groups /\ g \in GroupId /\ u \in UserId BY Typing DEF add_member
<1>2. /\ members' \in [GroupId -> SUBSET UserId]
      /\ members'[g] = members[g] \cup {u}
      /\ \A h \in GroupId \ {g} : members'[h] = members[h]
  BY <1>1 DEF add_member, TypeOK
<1>3. creator' \in [GroupId -> UserId \cup {NoUser}] BY DEF add_member, TypeOK
<1>4. members'[g] # {} /\ members[g] \subseteq members'[g] BY <1>2
<1>5. /\ store_keys(g, {u}, skdms) /\ groups' = groups /\ groupSeq' = groupSeq
      /\ UNCHANGED <<accountVars, messageVars>>
  BY DEF add_member
<1> QED BY <1>1, <1>2, <1>3, <1>4, <1>5, NewEpochStep

LEMMA StoreSKDMsStep ==
    ASSUME Tables, NEW g, NEW recipients, store_skdms(g, recipients)
    PROVE  Step
<1> USE DEF Tables
<1>1. /\ g \in groups /\ store_keys(g, recipients, skdms)
      /\ groups' = groups /\ groupSeq' = groupSeq
      /\ creator' = creator /\ members' = members /\ UNCHANGED <<accountVars, messageVars>>
  BY DEF store_skdms
<1>2. members[g] # {} BY <1>1 DEF NoGroupWithoutMembers
<1>3. creator' \in [GroupId -> UserId \cup {NoUser}] /\ members' \in [GroupId -> SUBSET UserId]
  BY <1>1 DEF TypeOK
<1> QED BY <1>1, <1>2, <1>3, NewEpochStep

LEMMA DeleteGroupStep ==
    ASSUME Tables, NEW g \in groups, DeleteGroup(g)
    PROVE  Step /\ \A m \in messages \ messages' : m.group \notin groups'
<1> USE DEF Tables, DeleteGroup
<1>0. UNCHANGED <<users, userSeq, groupSeq, messageSeq>> BY DEF accountVars
<1>1. g \in GroupId /\ groups \subseteq GroupId BY Typing
<1>2. skdms' \subseteq SKDM /\ messages' \subseteq Message /\ receipts' \subseteq Receipt
  BY DEF TypeOK, ReceiptsOf
<1>3. TypeOK' BY <1>0, <1>1, <1>2 DEF TypeOK, NoUser, NoKey
<1>4. \A h \in groups' : /\ h \in groups /\ h # g /\ members'[h] = members[h]
                         /\ epoch'[h] = epoch[h] /\ epoch[h] \in Nat
  BY <1>1, Typing DEF TypeOK
<1>5. NoGroupWithoutMembers' BY <1>4 DEF NoGroupWithoutMembers
<1>6. LeaveRekeys /\ LeavePurges BY <1>4 DEF LeaveRekeys, LeavePurges
<1>7. MessageIds' /\ AudienceFixed
  <2>1. /\ messages' \subseteq messages /\ receipts' \subseteq receipts
        /\ \A r \in receipts' : \E m \in messages' : m.id = r.message
    BY DEF ReceiptsOf
  <2> QED BY <1>0, <2>1, MessagesGo
<1>8. KeysFollow BY DEF KeysFollow
<1> QED BY <1>3, <1>5, <1>6, <1>7, <1>8 DEF Step

\* Whatever the session takes for the creator, the group goes or somebody is
\* left in it, with a new key.
LEMMA RemoveMemberStep ==
    ASSUME Tables, NEW g, NEW requester, NEW u, NEW owner, NEW recipients,
           remove_member(g, requester, u, owner, recipients)
    PROVE  Step /\ \A m \in messages \ messages' : m.group \notin groups'
<1> DEFINE rest == members[g] \ {u}
<1> USE DEF Tables
<1>1. g \in groups /\ g \in GroupId BY Typing DEF remove_member
<1>2. CASE DeleteGroup(g) BY <1>1, <1>2, DeleteGroupStep
<1>3. CASE /\ Cardinality(rest) > 1
           /\ members' = [members EXCEPT ![g] = rest]
           /\ creator' = [creator EXCEPT ![g] = Promoted(g, u, owner)]
           /\ store_keys(g, recipients, KeysOfOtherGroups(g, u))
           /\ UNCHANGED <<accountVars, groups, groupSeq, messageVars>>
  <2>1. Min(rest) \in rest BY <1>1, <1>3, RestHasSuccessor
  <2>2. rest \subseteq UserId /\ rest # {} /\ creator[g] \in UserId \cup {NoUser}
    BY <1>1, <2>1 DEF TypeOK
  <2>3. Promoted(g, u, owner) \in UserId \cup {NoUser} BY <2>1, <2>2 DEF Promoted
  <2> HIDE DEF rest
  <2>4. creator' \in [GroupId -> UserId \cup {NoUser}] BY <1>1, <1>3, <2>3 DEF TypeOK
  <2>5. /\ members' \in [GroupId -> SUBSET UserId] /\ members'[g] # {}
        /\ \A h \in GroupId \ {g} : members'[h] = members[h]
    BY <1>1, <1>3, <2>2 DEF TypeOK
  <2>6. /\ KeysOfOtherGroups(g, u) \in SUBSET skdms
        /\ \A s \in KeysOfOtherGroups(g, u) : s.group # g
    BY DEF KeysOfOtherGroups
  <2>7. Step BY <1>1, <1>3, <2>4, <2>5, <2>6, NewEpochStep
  <2> QED BY <1>3, <2>7 DEF messageVars
<1> QED BY <1>2, <1>3 DEF remove_member

LEMMA PopSKDMsStep ==
    ASSUME Tables, NEW g \in GroupId, NEW u \in UserId, pop_skdms_for_user(u, g)
    PROVE  Step
<1> DEFINE newest == Max({keyHeld[g][u]} \cup {s.epoch : s \in KeysFor(u, g)})
<1> USE DEF Tables
<1>1. keyHeld[g][u] \in 0..MaxEpoch /\ KeysFor(u, g) \subseteq SKDM
  BY DEF TypeOK, KeysFor
<1>2. newest \in 0..MaxEpoch BY <1>1, NewestKey
<1>3. /\ keyHeld' = [keyHeld EXCEPT ![g][u] = newest] /\ skdms' \subseteq skdms
      /\ UNCHANGED <<accountVars, groupVars, messageVars>>
  BY DEF pop_skdms_for_user
<1> HIDE DEF newest
<1>4. keyHeld' \in [GroupId -> [UserId -> 0..MaxEpoch]] BY <1>2, <1>3 DEF TypeOK
<1>5. TypeOK' BY <1>3, <1>4 DEF TypeOK, accountVars, groupVars, messageVars
<1> QED BY <1>3, <1>5, GroupsRest, MessagesRest DEF Step
-----------------------------------------------------------------------------
(* Group messages *)

\* The audience of a message is fixed when it is stored, without its sender.
LEMMA StoreMessageStep ==
    ASSUME Tables, NEW g, NEW u, store_group_message(g, u)
    PROVE  Step /\ messages \subseteq messages'
<1> DEFINE id == messageSeq + 1
           new == [id |-> id, group |-> g, sender |-> u]
           due == [message : {id}, user : Audience(g, u)]
<1> USE DEF Tables
<1>1. /\ g \in GroupId /\ u \in UserId /\ messageSeq \in Nat /\ id \in MessageId
      /\ messageSeq' = id /\ messages' = messages \cup {new} /\ receipts' = receipts \cup due
      /\ UNCHANGED <<accountVars, groupVars, keyVars>>
  BY Typing DEF store_group_message, TypeOK, MessageId
<1>2. new \in Message /\ due \subseteq Receipt
  <2>1. members[g] \subseteq UserId BY <1>1, Typing
  <2> QED BY <1>1, <2>1 DEF Message, Receipt, Audience
<1>3. \A r \in due : r.message = id /\ r.user # u BY DEF Audience
<1>4. \A m \in messages : m.id \in Nat /\ m.id <= messageSeq /\ m.id # id
  <2>1. \A m \in messages : m.id \in Nat BY Typing DEF MessageId
  <2> QED BY <1>1, <2>1 DEF MessageIds
<1>5. \A r \in receipts : r.message # id BY <1>4 DEF MessageIds
<1>6. new.id = id /\ new.sender = u OBVIOUS
<1>7. TypeOK' /\ skdms' = skdms
  BY <1>1, <1>2 DEF TypeOK, accountVars, groupVars, keyVars, MessageId
<1> HIDE DEF id, new, due
<1>8. MessageIds'
  <2>1. \A m \in messages' :
          m.id <= messageSeq' /\ \A n \in messages' : n.id = m.id => n = m
    <3>1. id = messageSeq + 1 BY DEF id
    <3> QED BY <1>1, <1>4, <1>6, <3>1 DEF MessageIds
  <2>2. \A r \in receipts' : \E m \in messages' : m.id = r.message /\ m.sender # r.user
    BY <1>1, <1>3, <1>6 DEF MessageIds
  <2> QED BY <2>1, <2>2 DEF MessageIds
<1>9. AudienceFixed
  <2>1. ASSUME NEW m \in messages'
        PROVE  [message |-> m.id, user |-> m.sender] \notin receipts'
    <3>1. MessageIds' => [message |-> m.id, user |-> m.sender] \notin receipts'
      <4>1. ASSUME MessageIds', [message |-> m.id, user |-> m.sender] \in receipts'
            PROVE  FALSE
        <5>1. PICK n \in messages' : n.id = m.id /\ n.sender # m.sender
          BY <4>1 DEF MessageIds
        <5> QED BY <2>1, <4>1, <5>1 DEF MessageIds
      <4> QED BY <4>1
    <3> QED BY <1>8, <3>1
  <2>2. \A m \in messages : {r \in receipts' : r.message = m.id} \subseteq receipts
    BY <1>1, <1>3, <1>4
  <2> QED BY <2>1, <2>2 DEF AudienceFixed
<1> QED BY <1>1, <1>7, <1>8, <1>9, GroupsRest DEF Step

LEMMA RevokeMessageStep ==
    ASSUME Tables, NEW id, NEW u, revoke_group_message(id, u)
    PROVE  Step /\ \A m \in messages \ messages' : m.sender = u
<1> USE DEF Tables
<1>1. /\ messages' = {m \in messages : m.id # id}
      /\ receipts' = {r \in receipts : r.message # id}
      /\ messageSeq' = messageSeq /\ UNCHANGED <<accountVars, groupVars, keyVars>>
  BY DEF revoke_group_message
<1>2. TypeOK' /\ skdms' = skdms BY <1>1 DEF TypeOK, accountVars, groupVars, keyVars
<1>3. \A r \in receipts' : \E m \in messages' : m.id = r.message
  BY <1>1 DEF MessageIds
<1>4. \A m \in messages \ messages' : m.sender = u
  BY <1>1 DEF revoke_group_message, MessageIds
<1> QED BY <1>1, <1>2, <1>3, <1>4, GroupsRest, MessagesGo DEF Step

LEMMA RecordReceiptStep ==
    ASSUME Tables, NEW id, NEW u, record_group_receipt(id, u)
    PROVE  Step /\ \A m \in messages \ messages' : Outstanding(m.id) = {u}
<1> USE DEF Tables
<1>1. /\ receipts' = receipts \ {[message |-> id, user |-> u]}
      /\ messages' = IF Outstanding(id) = {u} THEN {m \in messages : m.id # id}
                                              ELSE messages
      /\ messageSeq' = messageSeq /\ UNCHANGED <<accountVars, groupVars, keyVars>>
  BY DEF record_group_receipt
<1>2. TypeOK' /\ skdms' = skdms BY <1>1 DEF TypeOK, accountVars, groupVars, keyVars
<1>3. \A r \in receipts' : \E m \in messages' : m.id = r.message
  <2>1. ASSUME NEW r \in receipts', Outstanding(id) = {u} PROVE r.message # id
    <3>1. r \in Receipt /\ r \in receipts BY <1>1 DEF TypeOK
    <3>2. r.message = id => r.user \in Outstanding(id) BY <3>1 DEF Outstanding
    <3>3. r = [message |-> r.message, user |-> r.user] BY <3>1 DEF Receipt
    <3> QED BY <1>1, <2>1, <3>2, <3>3
  <2> QED BY <1>1, <2>1 DEF MessageIds
<1>4. \A m \in messages \ messages' : Outstanding(m.id) = {u} BY <1>1
<1> QED BY <1>1, <1>2, <1>3, <1>4, GroupsRest, MessagesGo DEF Step
-----------------------------------------------------------------------------
(* Requests in flight *)

LEMMA TablesRest == ASSUME Tables, UNCHANGED tables PROVE Step
<1>1. UNCHANGED accountVars /\ UNCHANGED groupVars /\ UNCHANGED keyVars /\ UNCHANGED messageVars
  BY DEF tables
<1>2. TypeOK' /\ skdms' = skdms
  BY <1>1 DEF Tables, TypeOK, accountVars, groupVars, keyVars, messageVars
<1> QED BY <1>1, <1>2, GroupsRest, MessagesRest DEF Tables, Step

LEMMA NoTables == Init => Tables
<1> SUFFICES ASSUME Init PROVE Tables
  OBVIOUS
<1>1. TypeOK BY InitInvariant DEF GroupInvariant
<1> QED BY <1>1 DEF Init, Tables, NoGroupWithoutMembers, MessageIds

ApiInvariant == Tables /\ req \in [Request -> Requests] /\ IdsRead

LEMMA ApiInitInvariant == ApiInit => ApiInvariant
BY NoTables DEF ApiInit, ApiInvariant, Idle, Requests, IdsRead, At

\* Ids are drawn one after the other, and never drawn again.
SequencesGrow == 1..userSeq \subseteq 1..userSeq' /\ 1..groupSeq \subseteq 1..groupSeq'

LEMMA RegisterSequences == ASSUME TypeOK, register PROVE SequencesGrow
<1>1. userSeq' = userSeq + 1 /\ groupSeq' = groupSeq
  BY DEF register, create_user, groupVars
<1>2. userSeq \in Nat BY DEF TypeOK
<1> QED BY <1>1, <1>2 DEF SequencesGrow

\* Whatever an endpoint takes away, the sequences stay where they are.
LEMMA HandlerSequences ==
    ASSUME TypeOK, NEW r \in Request, Handler(r)
    PROVE  SequencesGrow
<1> SUFFICES userSeq' = userSeq /\ groupSeq' \in {groupSeq, groupSeq + 1}
  BY DEF TypeOK, SequencesGrow
<1>1. CASE delete_me(r)
  BY <1>1 DEF delete_me, delete_user
<1>2. CASE create_group_endpoint(r)
  BY <1>2 DEF create_group_endpoint, create_group, accountVars
<1>3. CASE add_member_endpoint(r)
  BY <1>3 DEF add_member_endpoint, add_member, accountVars
<1>4. CASE \E recipients \in SUBSET users, u \in UserId :
             remove_member_endpoint(r, u, recipients)
  BY <1>4 DEF remove_member_endpoint, remove_member, DeleteGroup, accountVars
<1>5. CASE \E recipients \in SUBSET users : send_skdms(r, recipients)
  BY <1>5 DEF send_skdms, store_skdms, accountVars
<1>6. CASE pop_skdms(r)
  BY <1>6 DEF pop_skdms, pop_skdms_for_user, accountVars, groupVars
<1>7. CASE send_group_message(r)
  BY <1>7 DEF send_group_message, store_group_message, accountVars, groupVars
<1>8. CASE revoke_group_message_endpoint(r)
  BY <1>8 DEF revoke_group_message_endpoint, revoke_group_message, accountVars, groupVars
<1>9. CASE record_group_message_receipt(r)
  BY <1>9 DEF record_group_message_receipt, record_group_receipt, accountVars, groupVars
<1> QED BY <1>1, <1>2, <1>3, <1>4, <1>5, <1>6, <1>7, <1>8, <1>9 DEF Handler

LEMMA FinishKeepsIds ==
    ASSUME req \in [Request -> Requests], IdsRead, SequencesGrow,
           NEW r \in Request, Finish(r)
    PROVE  (req \in [Request -> Requests])' /\ IdsRead'
<1>1. Idle \in Requests BY DEF Idle, Requests
<1> QED BY <1>1 DEF Finish, IdsRead, At, Idle, SequencesGrow

LEMMA DependencyStep ==
    ASSUME ApiInvariant, NEW r \in Request, Dependency(r)
    PROVE  ApiInvariant' /\ Step /\ UNCHANGED tables
<1> USE DEF ApiInvariant
<1>1. /\ TypeOK /\ groups \subseteq GroupId /\ users \subseteq UserId
      /\ groups \subseteq 1..groupSeq /\ users \subseteq 1..userSeq
  BY Typing DEF Tables, TypeOK
<1>2. /\ UNCHANGED tables /\ userSeq' = userSeq /\ groupSeq' = groupSeq
      /\ SequencesGrow
  BY DEF Dependency, get_current_user, load_group, check_member, reject, tables,
     accountVars, groupVars, SequencesGrow
<1>3. Step BY <1>2, TablesRest
<1>4. CASE get_current_user(r)
  <2>1. PICK u \in users :
          req' = [req EXCEPT ![r] = [Idle EXCEPT !.phase = "authenticated", !.user = u]]
    BY <1>4 DEF get_current_user
  <2>2. u \in UserId /\ u \in 1..userSeq BY <1>1
  <2> QED BY <1>3, <1>2, <2>1, <2>2 DEF Step, Idle, Requests, IdsRead, At, NoGroup
<1>5. CASE load_group(r)
  <2>1. PICK g \in groups :
          req' = [req EXCEPT ![r].phase = "loaded", ![r].group = g, ![r].owner = creator[g]]
    BY <1>5 DEF load_group
  <2>2. g \in GroupId /\ g \in 1..groupSeq /\ creator[g] \in UserId \cup {NoUser}
    BY <1>1 DEF TypeOK
  <2>3. At(r, "authenticated") /\ req[r] \in Requests BY <1>5 DEF load_group
  <2> QED BY <1>3, <1>2, <2>1, <2>2, <2>3 DEF Step, Requests, IdsRead, At
<1>6. CASE check_member(r)
  <2>1. At(r, "loaded") /\ req' = [req EXCEPT ![r].phase = "admitted"]
    BY <1>6 DEF check_member
  <2> QED BY <1>3, <1>2, <2>1 DEF Step, Requests, IdsRead, At
<1>7. CASE reject(r)
  BY <1>3, <1>2, <1>7, FinishKeepsIds DEF reject, Step
<1> QED BY <1>4, <1>5, <1>6, <1>7 DEF Dependency

\* An endpoint is one operation on the tables, whatever the request has read.
\* The messages it takes away are those it may.
LEMMA HandlerStep ==
    ASSUME ApiInvariant, NEW r \in Request, Handler(r)
    PROVE  /\ Step /\ Finish(r)
           /\ \A m \in messages \ messages' :
                 \/ m.group \notin groups'
                 \/ m.sender \notin users'
                 \/ req[r].user = m.sender /\ revoke_group_message_endpoint(r)
                 \/ Outstanding(m.id) = {req[r].user} /\ record_group_message_receipt(r)
<1> USE DEF ApiInvariant
<1>1. CASE delete_me(r)
  BY <1>1, DeleteUserStep DEF delete_me
<1>2. CASE create_group_endpoint(r)
  <2>1. PICK initial : create_group(req[r].user, initial)
    BY <1>2 DEF create_group_endpoint
  <2>2. Step BY <2>1, CreateGroupStep
  <2>3. messages' = messages BY <2>1 DEF create_group, messageVars
  <2> QED BY <1>2, <2>2, <2>3 DEF create_group_endpoint
<1>3. CASE add_member_endpoint(r)
  <2>1. PICK u \in users : add_member(req[r].group, req[r].user, u)
    BY <1>3 DEF add_member_endpoint
  <2>2. Step BY <2>1, AddMemberStep
  <2>3. messages' = messages BY <2>1 DEF add_member, messageVars
  <2> QED BY <1>3, <2>2, <2>3 DEF add_member_endpoint
<1>4. CASE \E recipients \in SUBSET users, u \in UserId :
             remove_member_endpoint(r, u, recipients)
  <2>1. PICK recipients \in SUBSET users, u \in UserId :
          remove_member_endpoint(r, u, recipients)
    BY <1>4
  <2>2. remove_member(req[r].group, req[r].user, u, req[r].owner, recipients) /\ Finish(r)
    BY <2>1 DEF remove_member_endpoint
  <2> QED BY <2>2, RemoveMemberStep
<1>5. CASE \E recipients \in SUBSET users : send_skdms(r, recipients)
  <2>1. PICK recipients \in SUBSET users : send_skdms(r, recipients)
    BY <1>5
  <2>2. store_skdms(req[r].group, recipients) /\ Finish(r) BY <2>1 DEF send_skdms
  <2>3. messages' = messages BY <2>2 DEF store_skdms, messageVars
  <2> QED BY <2>2, <2>3, StoreSKDMsStep
<1>6. CASE pop_skdms(r)
  <2>1. pop_skdms_for_user(req[r].user, req[r].group) /\ Finish(r) /\ At(r, "admitted")
    BY <1>6 DEF pop_skdms
  <2>2. req[r].user \in UserId /\ req[r].group \in GroupId
    BY <2>1 DEF IdsRead, At, Tables, TypeOK, UserId, GroupId
  <2>3. messages' = messages BY <2>1 DEF pop_skdms_for_user, messageVars
  <2> QED BY <2>1, <2>2, <2>3, PopSKDMsStep
<1>7. CASE send_group_message(r)
  BY <1>7, StoreMessageStep DEF send_group_message
<1>8. CASE revoke_group_message_endpoint(r)
  <2>1. PICK m \in messages : revoke_group_message(m.id, req[r].user)
    BY <1>8 DEF revoke_group_message_endpoint
  <2>2. Step /\ \A n \in messages \ messages' : n.sender = req[r].user
    BY <2>1, RevokeMessageStep
  <2>3. Finish(r) BY <1>8 DEF revoke_group_message_endpoint
  <2> QED BY <1>8, <2>2, <2>3
<1>9. CASE record_group_message_receipt(r)
  <2>1. PICK m \in messages : record_group_receipt(m.id, req[r].user)
    BY <1>9 DEF record_group_message_receipt
  <2>2. Step /\ \A n \in messages \ messages' : Outstanding(n.id) = {req[r].user}
    BY <2>1, RecordReceiptStep
  <2>3. Finish(r) BY <1>9 DEF record_group_message_receipt
  <2> QED BY <1>9, <2>2, <2>3
<1> QED BY <1>1, <1>2, <1>3, <1>4, <1>5, <1>6, <1>7, <1>8, <1>9 DEF Handler

LEMMA ApiStep ==
    ASSUME ApiInvariant, [ApiNext]_vars
    PROVE  ApiInvariant' /\ Step
<1>1. CASE UNCHANGED vars
  <2>1. UNCHANGED tables /\ req' = req BY <1>1 DEF vars
  <2>2. Step BY <2>1, TablesRest DEF ApiInvariant
  <2>3. userSeq' = userSeq /\ groupSeq' = groupSeq
    BY <2>1 DEF tables, accountVars, groupVars
  <2> QED BY <2>1, <2>2, <2>3 DEF ApiInvariant, Step, IdsRead, At
<1>2. CASE register
  <2>1. Step /\ req' = req BY <1>2, CreateUserStep DEF register, ApiInvariant
  <2>2. SequencesGrow BY <1>2, RegisterSequences DEF ApiInvariant, Tables
  <2> QED BY <2>1, <2>2 DEF ApiInvariant, Step, IdsRead, At, SequencesGrow
<1>3. ASSUME NEW r \in Request, Dependency(r) PROVE ApiInvariant' /\ Step
  BY <1>3, DependencyStep
<1>4. ASSUME NEW r \in Request, Handler(r) PROVE ApiInvariant' /\ Step
  <2>1. Step /\ Finish(r) BY <1>4, HandlerStep
  <2>2. SequencesGrow BY <1>4, HandlerSequences DEF ApiInvariant, Tables
  <2> QED BY <2>1, <2>2, FinishKeepsIds DEF ApiInvariant, Step
<1> QED BY <1>1, <1>2, <1>3, <1>4 DEF ApiNext

\* ApiInvariant holds in every state of ApiSpec.
THEOREM ApiInvariantHolds == ApiSpec => []ApiInvariant
<1>1. ApiInvariant /\ [ApiNext]_vars => ApiInvariant'
  BY ApiStep
<1> QED BY <1>1, ApiInitInvariant, PTL DEF ApiSpec

\* The tables keep their types, and what a request has read was in them once: no
\* id it holds is one that is still to be given to somebody else.
THEOREM ApiTypeCorrect == ApiSpec => []ApiTypeOK
<1>1. ApiInvariant => ApiTypeOK BY DEF ApiInvariant, Tables, ApiTypeOK
<1> QED BY <1>1, ApiInvariantHolds, PTL

\* However many requests act on what they read before others had their effect, a
\* group that loses its last member goes (group.py 116-127, user.py 92-101).
THEOREM GroupsKeepMembers == ApiSpec => []NoGroupWithoutMembers
<1>1. ApiInvariant => NoGroupWithoutMembers BY DEF ApiInvariant, Tables
<1> QED BY <1>1, ApiInvariantHolds, PTL

\* And whoever leaves a group leaves it with another key.
THEOREM LeaversLoseTheKey == ApiSpec => LeaveChangesKey
<1>1. ApiInvariant /\ [ApiNext]_vars => LeaveRekeys BY ApiStep DEF Step
<1> QED BY <1>1, ApiInvariantHolds, PTL DEF ApiSpec, LeaveChangesKey, LeaveRekeys

\* Nor do requests in flight bring back keys of the old membership after a
\* removal or a leave by an account that stays (delete_user drops none), or add
\* to those who have to acknowledge a message.
THEOREM RequestsKeepTheRules == ApiSpec => RemovalPurgesPendingKeys /\ AudienceOnlyShrinks
<1>1. ApiInvariant /\ [ApiNext]_vars => LeavePurges /\ AudienceFixed BY ApiStep DEF Step
<1>2. ApiSpec => [][LeavePurges]_tables /\ [][AudienceFixed]_tables
  BY <1>1, ApiInvariantHolds, PTL DEF ApiSpec
<1> QED
  BY <1>2, PTL DEF RemovalPurgesPendingKeys, AudienceOnlyShrinks, LeavePurges, AudienceFixed

\* Nor does a request that acts on an old epoch, or on a group that others are
\* changing, leave a key for later that the next key of the group would clash
\* with in the unique constraint of sender_key_distributions.
THEOREM KeysNeverClash == ApiSpec => []PendingKeysNotAhead
<1>1. ApiInit => PendingKeysNotAhead BY DEF ApiInit, Init, PendingKeysNotAhead
<1>2. ApiInvariant /\ PendingKeysNotAhead /\ [ApiNext]_vars => PendingKeysNotAhead'
  <2>1. SUFFICES ASSUME ApiInvariant, PendingKeysNotAhead, LeaveRekeys, KeysFollow, TypeOK',
                        NEW s \in skdms'
                 PROVE  s.group \in groups' /\ s.epoch <= epoch'[s.group]
    BY ApiStep DEF Step, Tables, PendingKeysNotAhead
  <2>2. s \in SKDM BY <2>1 DEF TypeOK
  <2>3. s.group \in GroupId /\ s.epoch \in Nat BY <2>2 DEF SKDM
  <2>4. epoch'[s.group] \in Nat /\ epoch[s.group] \in Nat
    BY <2>1, <2>3 DEF TypeOK, ApiInvariant, Tables
  <2>5. CASE s \in skdms /\ (s.group \in groups => s.group \in groups')
    <3>1. s.group \in groups \cap groups' /\ s.epoch <= epoch[s.group]
      BY <2>1, <2>5 DEF PendingKeysNotAhead
    <3> QED BY <2>1, <2>3, <2>4, <3>1 DEF LeaveRekeys
  <2>6. CASE s.group \in groups' /\ s.epoch = epoch'[s.group]
    BY <2>3, <2>4, <2>6
  <2> QED BY <2>1, <2>5, <2>6 DEF KeysFollow
<1> QED BY <1>1, <1>2, ApiInvariantHolds, PTL DEF ApiSpec

\* Nobody takes down a group message that others have still to read (group.py
\* 306-350).
THEOREM MessagesKept == ApiSpec => MessageKeptUntilAcknowledged
<1> DEFINE May(m) ==
             \/ m.group \notin groups'
             \/ m.sender \notin users'
             \/ \E r \in Request :
                   \/ req[r].user = m.sender /\ revoke_group_message_endpoint(r)
                   \/ Outstanding(m.id) = {req[r].user} /\ record_group_message_receipt(r)
<1>1. ASSUME ApiInvariant, ApiNext, NEW m \in messages \ messages'
      PROVE  May(m)
  <2>1. ~register /\ \A r \in Request : ~Dependency(r)
    <3>1. register => messages' = messages
      BY DEF register, create_user, messageVars
    <3>2. \A r \in Request : Dependency(r) => messages' = messages
      BY <1>1, DependencyStep DEF tables, messageVars
    <3> QED BY <1>1, <3>1, <3>2
  <2>2. PICK r \in Request : Handler(r) BY <1>1, <2>1 DEF ApiNext
  <2> QED BY <1>1, <2>2, HandlerStep
<1>2. ApiInvariant /\ [ApiNext]_vars => [\A m \in messages \ messages' : May(m)]_vars
  BY <1>1
<1> HIDE DEF May
<1>3. ApiSpec => [][\A m \in messages \ messages' : May(m)]_vars
  BY <1>2, ApiInvariantHolds, PTL DEF ApiSpec
<1> QED BY <1>3, PTL DEF MessageKeptUntilAcknowledged, May
-----------------------------------------------------------------------------
(* One request at a time *)

LEMMA TablesStep == ASSUME Tables, [Next]_tables PROVE Step
<1>1. CASE UNCHANGED tables BY <1>1, TablesRest
<1>2. CASE Register BY <1>2, CreateUserStep DEF Register
<1>3. CASE DeleteAccount BY <1>3, DeleteUserStep DEF DeleteAccount
<1>4. CASE CreateGroup BY <1>4, CreateGroupStep DEF CreateGroup
<1>5. CASE AddMember BY <1>5, AddMemberStep DEF AddMember
<1>6. CASE RemoveMember BY <1>6, RemoveMemberStep DEF RemoveMember
<1>7. CASE SendSKDMs BY <1>7, StoreSKDMsStep DEF SendSKDMs
<1>8. CASE PopSKDMs
  <2>1. groups \subseteq GroupId /\ users \subseteq UserId BY Typing DEF Tables
  <2> QED BY <1>8, <2>1, PopSKDMsStep DEF PopSKDMs
<1>9. CASE SendMessage BY <1>9, StoreMessageStep DEF SendMessage
<1>10. CASE RevokeMessage BY <1>10, RevokeMessageStep DEF RevokeMessage
<1>11. CASE RecordReceipt BY <1>11, RecordReceiptStep DEF RecordReceipt
<1> QED BY <1>1, <1>2, <1>3, <1>4, <1>5, <1>6, <1>7, <1>8, <1>9, <1>10, <1>11 DEF Next

\* Nobody has to acknowledge what was sent before they joined (group.py 256-276).
THEOREM AudiencesShrink == Spec => AudienceOnlyShrinks
<1>1. Tables /\ [Next]_tables => Tables' /\ AudienceFixed BY TablesStep DEF Step
<1>2. Spec => [][AudienceFixed]_tables BY <1>1, NoTables, PTL DEF Spec
<1> QED BY <1>2, PTL DEF AudienceOnlyShrinks, AudienceFixed

\* Keys composed for the members of before somebody was removed, or left with the
\* account staying (delete_user drops none), are not fetched after it.
THEOREM LeavingPurgesKeys == Spec => RemovalPurgesPendingKeys
<1>1. Tables /\ [Next]_tables => Tables' /\ LeavePurges BY TablesStep DEF Step
<1>2. Spec => [][LeavePurges]_tables BY <1>1, NoTables, PTL DEF Spec
<1> QED BY <1>2, PTL DEF RemovalPurgesPendingKeys, LeavePurges
-----------------------------------------------------------------------------
(* Requests that do not overlap *)

\* The table group_members has no row of an account that is not there.
MembersRegistered == \A g \in GroupId : members[g] \subseteq users

LEMMA RegisteredStep ==
    ASSUME TypeOK, MembersRegistered, [Next]_tables
    PROVE  MembersRegistered'
<1> USE DEF MembersRegistered
<1>1. UNCHANGED <<users, members>> => MembersRegistered'
  OBVIOUS
<1>2. CASE UNCHANGED tables \/ PopSKDMs \/ SendSKDMs \/ SendMessage \/ RevokeMessage \/ RecordReceipt
  <2>1. UNCHANGED <<users, members>>
    BY <1>2 DEF PopSKDMs, pop_skdms_for_user, SendSKDMs, store_skdms, SendMessage,
       store_group_message, RevokeMessage, revoke_group_message, RecordReceipt,
       record_group_receipt, tables, accountVars, groupVars
  <2> QED BY <1>1, <2>1
<1>3. CASE Register
  BY <1>3 DEF Register, create_user, groupVars
<1>4. CASE DeleteAccount
  <2>1. PICK u \in users : delete_user(u) BY <1>4 DEF DeleteAccount
  <2>2. /\ users' = users \ {u}
        /\ members' = [g \in GroupId |-> IF g \in groups' THEN members[g] \ {u} ELSE {}]
    BY <2>1 DEF delete_user
  <2> QED BY <2>2
<1>5. CASE CreateGroup
  <2>1. PICK c \in users : \E initial \in SUBSET (users \ {c}) : create_group(c, initial)
    BY <1>5 DEF CreateGroup
  <2>2. PICK initial \in SUBSET (users \ {c}) : create_group(c, initial) BY <2>1
  <2>3. /\ users' = users
        /\ members' = [members EXCEPT ![groupSeq + 1] = {c} \cup initial]
    BY <2>2 DEF create_group, FoundingMembers, accountVars
  <2> QED BY <2>3 DEF TypeOK
<1>6. CASE AddMember
  <2>1. PICK g \in groups, u \in users :
          users' = users /\ members' = [members EXCEPT ![g] = @ \cup {u}]
    BY <1>6 DEF AddMember, add_member, accountVars
  <2> QED BY <2>1 DEF TypeOK
<1>7. CASE RemoveMember
  <2>1. PICK g \in groups, requester \in users, u \in users, recipients \in SUBSET users :
          remove_member(g, requester, u, creator[g], recipients)
    BY <1>7 DEF RemoveMember
  <2>2. /\ users' = users
        /\ \/ members' = [members EXCEPT ![g] = {}]
           \/ members' = [members EXCEPT ![g] = members[g] \ {u}]
    BY <2>1 DEF remove_member, DeleteGroup, accountVars
  <2> QED BY <2>2 DEF TypeOK
<1> QED BY <1>2, <1>3, <1>4, <1>5, <1>6, <1>7 DEF Next

\* There is no request in flight while another one is.
OneAtATime == \A r, q \in Request : ~At(r, "idle") /\ ~At(q, "idle") => r = q

\* What the requests in flight have read is what the tables hold.
Current ==
    \A r \in Request :
        /\ ~At(r, "idle") => req[r].user \in users
        /\ req[r].phase \in {"loaded", "admitted"} =>
              /\ req[r].group \in groups
              /\ req[r].owner = creator[req[r].group]
        /\ At(r, "admitted") => req[r].user \in members[req[r].group]

\* A handler whose request is up to date does what the repository would do for
\* a request that runs from its first check to its commit.
LEMMA HandlerIsOperation ==
    ASSUME TypeOK, MembersRegistered, Current, NEW r \in Request, Handler(r)
    PROVE  Next
<1> DEFINE u == req[r].user
           g == req[r].group
<1>1. ~At(r, "idle") => u \in users
  BY DEF Current
<1>2. At(r, "admitted") =>
        /\ u \in users /\ g \in groups /\ req[r].owner = creator[g]
        /\ require_group_member(g, u)
  BY <1>1 DEF Current, At, require_group_member
<1> HIDE DEF u, g
<1>3. CASE delete_me(r)
  BY <1>1, <1>3 DEF delete_me, At, DeleteAccount, Next, u
<1>4. CASE create_group_endpoint(r)
  BY <1>1, <1>4 DEF create_group_endpoint, At, CreateGroup, Next, u
<1>5. CASE add_member_endpoint(r)
  BY <1>2, <1>5 DEF add_member_endpoint, AddMember, Next, u, g
<1>6. ASSUME NEW recipients \in SUBSET users, NEW v \in UserId,
             remove_member_endpoint(r, v, recipients)
      PROVE  Next
  <2>1. At(r, "admitted") /\ remove_member(g, u, v, creator[g], recipients)
    BY <1>2, <1>6 DEF remove_member_endpoint, u, g
  <2>2. v \in members[g] /\ g \in GroupId
    BY <1>2, <2>1, Typing DEF remove_member
  <2>3. v \in users BY <2>2 DEF MembersRegistered
  <2> QED BY <1>2, <2>1, <2>3 DEF RemoveMember, Next
<1>7. ASSUME NEW recipients \in SUBSET users, send_skdms(r, recipients)
      PROVE  Next
  <2>1. At(r, "admitted") /\ recipients \in (SUBSET users) \ {{}} /\ store_skdms(g, recipients)
    BY <1>7 DEF send_skdms, g
  <2> QED BY <1>2, <2>1 DEF SendSKDMs, Next
<1>8. CASE pop_skdms(r)
  BY <1>2, <1>8 DEF pop_skdms, PopSKDMs, Next, u, g
<1>9. CASE send_group_message(r)
  BY <1>2, <1>9 DEF send_group_message, SendMessage, Next, u, g
<1>10. CASE revoke_group_message_endpoint(r)
  BY <1>2, <1>10 DEF revoke_group_message_endpoint, RevokeMessage, Next, u
<1>11. CASE record_group_message_receipt(r)
  BY <1>2, <1>11 DEF record_group_message_receipt, RecordReceipt, Next, u
<1> QED BY <1>3, <1>4, <1>5, <1>6, <1>7, <1>8, <1>9, <1>10, <1>11 DEF Handler

\* When it has run there is nobody left who could be out of date.
LEMMA NobodyIsOutOfDate ==
    ASSUME req \in [Request -> Requests], OneAtATime, NEW r \in Request, ~At(r, "idle"), Finish(r)
    PROVE  Current'
<1>1. \A q \in Request : At(q, "idle")'
  BY DEF OneAtATime, Finish, At, Idle
<1> QED BY <1>1 DEF Current, At

LEMMA OperationStep ==
    ASSUME ApiInvariant, MembersRegistered, Current, OneAtATime, [ApiNext]_vars
    PROVE  [Next]_tables /\ MembersRegistered' /\ Current'
<1> USE DEF ApiInvariant
<1>1. TypeOK BY DEF Tables
<1>2. [Next]_tables /\ Current'
  <2>1. CASE UNCHANGED vars
    <3>1. UNCHANGED tables /\ req' = req BY <2>1 DEF vars
    <3>2. UNCHANGED <<users, groups, creator, members>>
      BY <3>1 DEF tables, accountVars, groupVars
    <3> QED BY <3>1, <3>2 DEF Current, At
  <2>2. CASE register
    <3>1. Next /\ req' = req BY <2>2 DEF register, Register, Next
    <3>2. users \subseteq users' /\ UNCHANGED <<groups, creator, members>>
      BY <2>2 DEF register, create_user, groupVars
    <3> QED BY <3>1, <3>2 DEF Current, At
  <2>3. ASSUME NEW r \in Request, Dependency(r) PROVE [Next]_tables /\ Current'
    <3>1. UNCHANGED tables BY <2>3, DependencyStep
    <3>2. UNCHANGED <<users, groups, creator, members>>
      BY <3>1 DEF tables, accountVars, groupVars
    <3>3. CASE get_current_user(r)
      BY <3>1, <3>2, <3>3 DEF get_current_user, Current, At, Idle
    <3>4. CASE load_group(r)
      BY <3>1, <3>2, <3>4 DEF load_group, Current, At, Requests
    <3>5. CASE check_member(r)
      BY <3>1, <3>2, <3>5 DEF check_member, Current, At, Requests
    <3>6. CASE reject(r)
      BY <3>1, <3>6, NobodyIsOutOfDate DEF reject
    <3> QED BY <2>3, <3>3, <3>4, <3>5, <3>6 DEF Dependency
  <2>4. ASSUME NEW r \in Request, Handler(r) PROVE [Next]_tables /\ Current'
    <3>1. Next BY <1>1, <2>4, HandlerIsOperation
    <3>2. ~At(r, "idle")
      BY <2>4 DEF Handler, At, delete_me, create_group_endpoint, add_member_endpoint,
         remove_member_endpoint, send_skdms, pop_skdms, send_group_message,
         revoke_group_message_endpoint, record_group_message_receipt
    <3>3. Finish(r) BY <2>4, HandlerStep
    <3> QED BY <3>1, <3>2, <3>3, NobodyIsOutOfDate
  <2> QED BY <2>1, <2>2, <2>3, <2>4 DEF ApiNext
<1> QED BY <1>1, <1>2, RegisteredStep

\* An account that goes takes the groups along of which it is the only member.
LEMMA OnlyOwnGroupsGo ==
    ASSUME GroupInvariant, NEW u \in users, delete_user(u), NEW g \in groups \ groups'
    PROVE  members[g] \subseteq {u}
<1>1. /\ TypeOK /\ CreatorIsMember /\ g \in groups /\ g \in GroupId
      /\ g \notin GroupsAfter(u)
  BY Typing DEF GroupInvariant, delete_user
<1>2. g \in SoleGroups(u)
  <2>1. SUFFICES ASSUME g \notin SoleGroups(u) PROVE FALSE OBVIOUS
  <2>2. CreatorAfter(u, g) = u BY <1>1, <2>1 DEF GroupsAfter
  <2>3. CASE g \in SharedGroups(u) /\ creator[g] = u
    <3>1. CreatorAfter(u, g) = Min(members[g] \ {u}) BY <2>3 DEF CreatorAfter
    <3>2. Min(members[g] \ {u}) \in members[g] \ {u} BY <1>1, <2>3, SharedHasSuccessor
    <3> QED BY <2>2, <3>1, <3>2
  <2>4. CASE ~(g \in SharedGroups(u) /\ creator[g] = u)
    <3>1. creator[g] = u BY <2>2, <2>4 DEF CreatorAfter
    <3>2. g \in GroupsOf(u) BY <1>1, <3>1 DEF CreatorIsMember, GroupsOf
    <3> QED BY <2>1, <2>4, <3>1, <3>2 DEF SharedGroups
  <2> QED BY <2>3, <2>4
<1>3. u \in members[g] /\ Cardinality(members[g]) <= 1 /\ IsFiniteSet(members[g])
  BY <1>1, <1>2, MembersFinite DEF SoleGroups, GroupsOf
<1>4. /\ IsFiniteSet(members[g] \ {u})
      /\ Cardinality(members[g] \ {u}) = Cardinality(members[g]) - 1
  BY <1>3, FS_RemoveElement
<1>5. Cardinality(members[g] \ {u}) = 0
  BY <1>3, <1>4, FS_CardinalityType
<1>6. members[g] \ {u} = {} BY <1>4, <1>5, FS_EmptySet
<1> QED BY <1>6

\* Only the deletion of an account deletes an account.
LEMMA OnlyDeletionTakesAccounts ==
    ASSUME TypeOK, Next, users \ users' # {}
    PROVE  DeleteAccount
<1>1. ~Register
  BY DEF Register, create_user
<1>2. ~CreateGroup /\ ~AddMember
  BY DEF CreateGroup, create_group, AddMember, add_member, accountVars
<1>3. ~RemoveMember
  BY DEF RemoveMember, remove_member, DeleteGroup, accountVars
<1>4. ~SendSKDMs /\ ~PopSKDMs /\ ~SendMessage
  BY DEF SendSKDMs, store_skdms, PopSKDMs, pop_skdms_for_user, SendMessage,
     store_group_message, accountVars
<1>5. ~RevokeMessage /\ ~RecordReceipt
  BY DEF RevokeMessage, revoke_group_message, RecordReceipt, record_group_receipt, accountVars
<1> QED BY <1>1, <1>2, <1>3, <1>4, <1>5 DEF Next

UpToDate == ApiInvariant /\ MembersRegistered /\ Current

LEMMA UpToDateHolds == ApiSpec /\ []OneAtATime => []UpToDate
<1>1. ApiInit => MembersRegistered /\ Current
  BY DEF ApiInit, Init, MembersRegistered, Current, At, Idle
<1>2. UpToDate /\ OneAtATime /\ [ApiNext]_vars => (MembersRegistered /\ Current)'
  BY OperationStep DEF UpToDate
<1> QED BY <1>1, <1>2, ApiInvariantHolds, PTL DEF ApiSpec, UpToDate

\* One request after the other, the endpoints are the operations of the
\* repository (each dependency of deps.py still true in the handler it admits
\* to), and all that holds of those holds of them.
THEOREM OneRequestAtATime == ApiSpec /\ []OneAtATime => Spec
<1>1. ApiInit => Init BY DEF ApiInit
<1>2. UpToDate /\ OneAtATime /\ [ApiNext]_vars => [Next]_tables
  BY OperationStep DEF UpToDate
<1> QED BY <1>1, <1>2, UpToDateHolds, PTL DEF ApiSpec, Spec

\* So nobody outside a group has its current key (README, GET
\* /groups/{group_id}/skdm), whoever the clients send keys to.
THEOREM KeysInsideOneAtATime == ApiSpec /\ []OneAtATime => []CurrentKeyKeptInside
BY OneRequestAtATime, InvariantHolds, PTL DEF GroupInvariant

\* And what group.py 100 says of the creator, and the README of the last member,
\* fails only while another request is in flight.
THEOREM PromisesOneAtATime ==
    ApiSpec /\ []OneAtATime => OnlyCreatorRemovesOthers /\ OnlyLastMemberTakesGroup
<1> DEFINE Removal == \A r \in Request, u \in UserId, recipients \in SUBSET users :
                         u # req[r].user /\ remove_member_endpoint(r, u, recipients) =>
                             creator[req[r].group] = req[r].user
           Deletion == \A g \in groups \ groups', u \in users \ users' : members[g] \subseteq {u}
<1>1. UpToDate => Removal
  BY DEF UpToDate, Current, remove_member_endpoint, remove_member, At
<1>2. GroupInvariant /\ [Next]_tables => Deletion
  <2>1. SUFFICES ASSUME GroupInvariant, [Next]_tables,
                        NEW g \in groups \ groups', NEW u \in users \ users'
                 PROVE  members[g] \subseteq {u}
    OBVIOUS
  <2>2. Next BY <2>1 DEF tables, accountVars
  <2>3. PICK v \in users : delete_user(v)
    BY <2>1, <2>2, OnlyDeletionTakesAccounts DEF GroupInvariant, DeleteAccount
  <2>4. v = u BY <2>3 DEF delete_user
  <2> QED BY <2>1, <2>3, <2>4, OnlyOwnGroupsGo
<1> HIDE DEF Removal, Deletion
<1>3. ApiSpec /\ []OneAtATime => [][Removal]_vars
  BY <1>1, UpToDateHolds, PTL
<1>4. UpToDate /\ OneAtATime /\ [ApiNext]_vars => [Next]_tables
  BY OperationStep DEF UpToDate
<1>5. ApiSpec /\ []OneAtATime => [][Deletion]_vars
  BY <1>2, <1>4, OneRequestAtATime, InvariantHolds, UpToDateHolds, PTL DEF ApiSpec
<1> QED
  BY <1>3, <1>5, PTL DEF OnlyCreatorRemovesOthers, OnlyLastMemberTakesGroup, Removal, Deletion
=============================================================================
