------------------------- MODULE GroupLifeRefinement -------------------------
(***************************************************************************)
(* The tables implement GroupLife: every operation, cascades included, is  *)
(* for each group a move that the life of a group allows.                  *)
(***************************************************************************)
EXTENDS GroupRepositoryProofs

USE BoundsAssumption

LEMMA GroupsAreIds == TypeOK => groups \subseteq GroupId
BY DEF TypeOK, GroupId

LEMMA LifeTypes == TypeOK => Life!TypeOK
BY DEF TypeOK, Life!TypeOK, phase

LEMMA LifeInit == Init => Life!Init
<1> SUFFICES ASSUME Init PROVE Life!Init
  OBVIOUS
<1>1. Life!TypeOK
  BY InitInvariant, LifeTypes DEF GroupInvariant
<1>2. \A g \in GroupId : phase[g] = "unborn"
  BY DEF Init, phase, GroupId
<1> QED
  BY <1>1, <1>2 DEF Life!Init

\* A group whose row and members stay as they are rests.
LEMMA GroupRests ==
    ASSUME NEW g \in GroupId,
           g \in groups' <=> g \in groups,
           g <= groupSeq' <=> g <= groupSeq,
           members'[g] = members[g], creator'[g] = creator[g], epoch'[g] = epoch[g]
    PROVE  Life!Rest(g)
BY DEF Life!Rest, phase

\* The moves of a group in terms of its row.
LEMMA GroupMoves ==
    ASSUME NEW g \in GroupId, g \in groups
    PROVE  /\ phase[g] = "live"
           /\ g \in groups' => phase'[g] = "live"
           /\ g \notin groups' /\ g <= groupSeq' => phase'[g] = "dead"
BY DEF phase

-----------------------------------------------------------------------------
(* The operations *)

\* A step that leaves the groups alone.
LEMMA AllRest ==
    ASSUME TypeOK', UNCHANGED groupVars
    PROVE  Life!Next
<1>1. \A g \in GroupId : Life!Rest(g)
  BY GroupRests DEF groupVars
<1>2. Life!TypeOK'
  BY LifeTypes, PTL
<1> QED
  BY <1>1, <1>2 DEF Life!Next

\* A step that moves one group and leaves the others alone.
LEMMA OthersRest ==
    ASSUME TypeOK', NEW g \in GroupId,
           groupSeq' = groupSeq \/ (groupSeq \in Nat /\ g = groupSeq + 1 /\ groupSeq' = g),
           \A h \in GroupId \ {g} : /\ h \in groups' <=> h \in groups
                                    /\ members'[h] = members[h]
                                    /\ creator'[h] = creator[h]
                                    /\ epoch'[h] = epoch[h],
           Life!Form(g) \/ Life!Rekey(g) \/ Life!Leave(g) \/ Life!Dissolve(g)
    PROVE  Life!Next
<1>1. \A h \in GroupId \ {g} : h <= groupSeq' <=> h <= groupSeq
  BY DEF GroupId
<1>2. \A h \in GroupId \ {g} : Life!Rest(h)
  BY <1>1, GroupRests
<1>3. Life!TypeOK'
  BY LifeTypes, PTL
<1> QED
  BY <1>2, <1>3 DEF Life!Next

LEMMA CreateGroupForms ==
    ASSUME GroupInvariant, TypeOK', NEW c \in users, NEW initial \in SUBSET (users \ {c}),
           create_group(c, initial)
    PROVE  Life!Next
<1> DEFINE g == groupSeq + 1
<1>0. /\ groupSeq < MaxGroup /\ g = groupSeq + 1 /\ groupSeq' = g
      /\ groups' = groups \cup {g}
      /\ creator' = [creator EXCEPT ![g] = c]
      /\ members' = [members EXCEPT ![g] = {c} \cup initial]
      /\ initial = {}  => epoch' = epoch
      /\ initial # {} => epoch' = [epoch EXCEPT ![g] = @ + 1]
  BY DEF create_group, FoundingMembers, store_keys
<1>1. /\ TypeOK
      /\ groupSeq \in Nat /\ g \in GroupId /\ g \notin groups
      /\ c \in UserId /\ initial \subseteq UserId
  <2>1. TypeOK
    BY DEF GroupInvariant
  <2>2. groupSeq \in Nat /\ g \in GroupId /\ g \notin groups
        /\ c \in UserId /\ initial \subseteq UserId
    BY <1>0, <2>1 DEF TypeOK, GroupId, UserId
  <2> QED
    BY <2>1, <2>2
<1> HIDE DEF g
<1>2. epoch[g] = 0
  BY <1>1 DEF GroupInvariant, KeysBelongToGroups
<1>3. /\ creator'[g] = c /\ members'[g] = {c} \cup initial
      /\ epoch'[g] = IF initial = {} THEN 0 ELSE 1
  BY <1>0, <1>1, <1>2 DEF TypeOK
<1>4. \A h \in GroupId \ {g} : /\ h \in groups' <=> h \in groups
                               /\ members'[h] = members[h]
                               /\ creator'[h] = creator[h]
                               /\ epoch'[h] = epoch[h]
  BY <1>0, <1>1 DEF TypeOK
<1>5. phase[g] = "unborn" /\ phase'[g] = "live"
  BY <1>0, <1>1 DEF phase
<1>6. members'[g] = {creator'[g]} <=> initial = {}
  BY <1>3
<1>7. Life!Form(g)
  BY <1>1, <1>3, <1>5, <1>6 DEF Life!Form
<1> QED
  BY <1>0, <1>1, <1>4, <1>7, OthersRest

\* A key change with the membership as it is, or with one more member.
LEMMA StoreKeysRekeys ==
    ASSUME TypeOK, TypeOK', NEW g \in groups, NEW u \in UserId, NEW recipients, NEW pending,
           store_keys(g, recipients, pending),
           members' = members \/ members' = [members EXCEPT ![g] = @ \cup {u}],
           UNCHANGED <<groups, groupSeq, creator>>
    PROVE  Life!Next
<1>1. g \in GroupId
  BY DEF TypeOK, GroupId
<1>2. /\ epoch'[g] = epoch[g] + 1
      /\ members'[g] = members[g] \/ members'[g] = members[g] \cup {u}
      /\ \A h \in GroupId \ {g} : epoch'[h] = epoch[h] /\ members'[h] = members[h]
  BY <1>1 DEF store_keys, TypeOK
<1>3. Life!Rekey(g)
  BY <1>1, <1>2, GroupMoves DEF Life!Rekey
<1> QED
  BY <1>1, <1>2, <1>3, OthersRest

\* What a count of one or less says of the members that are counted.
LEMMA AtMostOne ==
    ASSUME NEW S \in SUBSET UserId, NEW w \in UserId, IsFiniteSet(S), Cardinality(S) <= 1
    PROVE  \E v \in UserId : S \subseteq {v}
<1>1. CASE Cardinality(S) = 1
  BY <1>1, FS_Singleton
<1>2. CASE Cardinality(S) = 0
  BY <1>2, FS_EmptySet
<1> QED
  BY <1>1, <1>2, FS_CardinalityType

\* A group that is deleted had come down to two members or fewer.
LEMMA DeleteGroupDissolves ==
    ASSUME TypeOK, TypeOK', NEW g \in groups, DeleteGroup(g),
           NEW u \in UserId, NEW v \in UserId, members[g] \subseteq {u, v}
    PROVE  Life!Next
<1>1. g \in GroupId /\ g <= groupSeq' /\ g \notin groups'
  BY DEF TypeOK, GroupId, DeleteGroup
<1>2. \A h \in GroupId \ {g} : /\ h \in groups' <=> h \in groups
                               /\ members'[h] = members[h]
                               /\ creator'[h] = creator[h]
                               /\ epoch'[h] = epoch[h]
  BY DEF DeleteGroup, TypeOK
<1>3. Life!Dissolve(g)
  BY <1>1, GroupMoves DEF Life!Dissolve
<1> QED
  BY <1>1, <1>2, <1>3, OthersRest DEF DeleteGroup

LEMMA RemoveMemberLeaves ==
    ASSUME TypeOK, TypeOK', NEW g \in groups, NEW requester \in users, NEW u \in users,
           NEW recipients, remove_member(g, requester, u, creator[g], recipients)
    PROVE  Life!Next
<1> DEFINE rest == members[g] \ {u}
<1>1. /\ g \in GroupId /\ u \in members[g]
      /\ IsFiniteSet(rest) /\ rest \subseteq UserId
  <2>1. g \in GroupId /\ u \in members[g]
    BY GroupsAreIds DEF remove_member
  <2>2. IsFiniteSet(rest)
    BY <2>1, MembersFinite, FS_RemoveElement
  <2> QED
    BY <2>1, <2>2 DEF TypeOK
<1>2. CASE Cardinality(rest) <= 1 /\ DeleteGroup(g)
  <2>1. u \in UserId
    BY <1>1 DEF TypeOK
  <2> HIDE DEF rest
  <2>2. PICK v \in UserId : rest \subseteq {v}
    BY <1>1, <1>2, <2>1, AtMostOne
  <2>3. members[g] \subseteq {u, v}
    BY <1>1, <2>2 DEF rest
  <2> QED
    BY <1>2, <2>1, <2>2, <2>3, DeleteGroupDissolves
<1>3. CASE /\ Cardinality(rest) > 1
           /\ members' = [members EXCEPT ![g] = rest]
           /\ creator' = [creator EXCEPT ![g] = Promoted(g, u, creator[g])]
           /\ store_keys(g, recipients, KeysOfOtherGroups(g, u))
           /\ UNCHANGED <<accountVars, groups, groupSeq, messageVars>>
  <2>1. rest # {}
    BY <1>3, FS_EmptySet
  <2>1a. Promoted(g, u, creator[g]) = IF creator[g] = u THEN Min(rest) ELSE creator[g]
    BY DEF Promoted
  <2> HIDE DEF rest
  <2>2. /\ members'[g] = rest
        /\ creator'[g] = IF creator[g] = u THEN Min(rest) ELSE creator[g]
        /\ epoch'[g] = epoch[g] + 1
        /\ \A h \in GroupId \ {g} : /\ members'[h] = members[h]
                                    /\ creator'[h] = creator[h]
                                    /\ epoch'[h] = epoch[h]
    BY <1>1, <1>3, <2>1a DEF TypeOK, store_keys
  <2>3. Life!Leave(g)
    <3>1. Life!Min(rest) = Min(rest)
      BY DEF Min, Life!Min
    <3>2. creator'[g] = IF creator[g] = u THEN Life!Min(members'[g]) ELSE creator[g]
      BY <2>2, <3>1
    <3>3. phase[g] = "live" /\ phase'[g] = "live"
      BY <1>1, <1>3, GroupMoves
    <3>4. members'[g] = members[g] \ {u} /\ members'[g] # {}
      BY <2>1, <2>2 DEF rest
    <3> QED
      BY <1>1, <2>2, <3>2, <3>3, <3>4 DEF Life!Leave
  <2> QED
    BY <1>1, <1>3, <2>2, <2>3, OthersRest
<1> QED
  BY <1>2, <1>3 DEF remove_member

\* What the deletion of account u does to one group.
LEMMA DeleteUserMoves ==
    ASSUME GroupInvariant, TypeOK', NEW u \in users, delete_user(u), NEW g \in GroupId
    PROVE  Life!Rest(g) \/ Life!Leave(g) \/ Life!Dissolve(g)
<1>1. TypeOK
  BY DEF GroupInvariant
<1>2. /\ g \in groups'    => /\ members'[g] = members[g] \ {u}
                             /\ creator'[g] = CreatorAfter(u, g)
                             /\ epoch'[g] = IF g \in SharedGroups(u) THEN epoch[g] + 1
                                                                     ELSE epoch[g]
      /\ groups' = GroupsAfter(u) /\ groupSeq' = groupSeq
  BY DEF delete_user, EpochAfter
<1>3. CASE g \notin groups
  BY <1>2, <1>3 DEF GroupsAfter, Life!Rest, phase
<1>4. CASE g \in groups /\ g \in SoleGroups(u)
  <2>1. g \notin groups' /\ g <= groupSeq'
    BY <1>1, <1>2, <1>4 DEF GroupsAfter, TypeOK
  <2>2. PICK v \in UserId : members[g] \subseteq {v}
    <3>1. Cardinality(members[g]) <= 1 /\ IsFiniteSet(members[g]) /\ u \in members[g]
      BY <1>1, <1>4, MembersFinite DEF SoleGroups, GroupsOf
    <3>2. members[g] \subseteq UserId
      BY <1>1 DEF TypeOK
    <3> QED
      BY <3>1, <3>2, AtMostOne
  <2>3. \E a, b \in UserId : members[g] \subseteq {a, b}
    BY <2>2
  <2> QED
    BY <1>4, <2>1, <2>3, GroupMoves DEF Life!Dissolve
<1>5. CASE g \in groups /\ g \in SharedGroups(u)
  <2>1. members[g] \ {u} # {} /\ Min(members[g] \ {u}) \in members[g] \ {u} /\ u \in members[g]
    BY <1>1, <1>5, SharedHasSuccessor DEF SharedGroups, GroupsOf
  <2>2. CreatorAfter(u, g) = IF creator[g] = u THEN Min(members[g] \ {u}) ELSE creator[g]
    BY <1>5 DEF CreatorAfter
  <2>3. g \in groups'
    BY <1>2, <1>5, <2>1, <2>2 DEF GroupsAfter, SharedGroups
  <2>4. /\ members'[g] = members[g] \ {u} /\ epoch'[g] = epoch[g] + 1
        /\ creator'[g] = IF creator[g] = u THEN Min(members'[g]) ELSE creator[g]
    BY <1>2, <1>5, <2>2, <2>3
  <2> QED
    BY <1>5, <2>1, <2>3, <2>4, GroupMoves DEF Life!Leave, Min, Life!Min
<1>6. CASE g \in groups /\ g \notin SoleGroups(u) /\ g \notin SharedGroups(u)
  <2>1. u \notin members[g] /\ creator[g] \in members[g]
    BY <1>6 DEF SharedGroups, GroupsOf, GroupInvariant, CreatorIsMember
  <2>2. CreatorAfter(u, g) = creator[g] /\ creator[g] # u
    BY <1>6, <2>1 DEF CreatorAfter
  <2>3. g \in groups'
    BY <1>2, <1>6, <2>2 DEF GroupsAfter
  <2> QED
    BY <1>2, <1>6, <2>1, <2>2, <2>3, GroupRests
<1> QED
  BY <1>3, <1>4, <1>5, <1>6

LEMMA LifeStep ==
    GroupInvariant /\ TypeOK' /\ [Next]_tables => [Life!Next]_(Life!lifeVars)
<1> SUFFICES ASSUME GroupInvariant, TypeOK', [Next]_tables
             PROVE  [Life!Next]_(Life!lifeVars)
  OBVIOUS
<1>0. TypeOK /\ groups \subseteq GroupId /\ users \subseteq UserId
  <2>1. TypeOK
    BY DEF GroupInvariant
  <2>2. users \subseteq UserId
    BY <2>1 DEF TypeOK, UserId
  <2> QED
    BY <2>1, <2>2, GroupsAreIds
<1>1. CASE Register
  BY <1>1, AllRest DEF Register, create_user
<1>2. CASE DeleteAccount
  <2>1. PICK u \in users : delete_user(u)
    BY <1>2 DEF DeleteAccount
  <2>2. Life!TypeOK'
    BY LifeTypes, PTL
  <2> QED
    BY <2>1, <2>2, DeleteUserMoves DEF Life!Next
<1>3. CASE CreateGroup
  BY <1>3, CreateGroupForms DEF CreateGroup
<1>4. CASE AddMember
  <2>1. PICK g \in groups, requester \in users, u \in users : add_member(g, requester, u)
    BY <1>4 DEF AddMember
  <2> QED
    BY <1>0, <2>1, StoreKeysRekeys DEF add_member
<1>5. CASE RemoveMember
  BY <1>0, <1>5, RemoveMemberLeaves DEF RemoveMember
<1>6. CASE SendSKDMs
  <2>1. PICK g \in groups, requester \in users, recipients \in SUBSET users :
           store_skdms(g, recipients)
    BY <1>6 DEF SendSKDMs
  <2> QED
    BY <1>0, <2>1, StoreKeysRekeys DEF store_skdms
<1>7. CASE PopSKDMs
  BY <1>7, AllRest DEF PopSKDMs, pop_skdms_for_user
<1>8. CASE SendMessage
  BY <1>8, AllRest DEF SendMessage, store_group_message
<1>9. CASE RevokeMessage
  BY <1>9, AllRest DEF RevokeMessage, revoke_group_message
<1>10. CASE RecordReceipt
  BY <1>10, AllRest DEF RecordReceipt, record_group_receipt
<1>11. CASE UNCHANGED tables
  BY <1>11, AllRest DEF tables
<1> QED
  BY <1>1, <1>2, <1>3, <1>4, <1>5, <1>6, <1>7, <1>8, <1>9, <1>10, <1>11 DEF Next

-----------------------------------------------------------------------------
\* The group tables, driven by any sequence of operations, implement GroupLife:
\* no member leaves without a new epoch, the creator who leaves is followed by
\* the lowest id, and no group of three or more disappears.
THEOREM TablesImplementGroupLife == Spec => ImplementsGroupLife
<1>1. GroupInvariant => TypeOK
  BY DEF GroupInvariant
<1> QED
  BY <1>1, LifeInit, LifeStep, InvariantHolds, PTL DEF Spec, ImplementsGroupLife, Life!Spec
=============================================================================
