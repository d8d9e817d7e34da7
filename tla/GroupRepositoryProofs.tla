------------------------ MODULE GroupRepositoryProofs ------------------------
(***************************************************************************)
(* Theorems about GroupRepository, for every number of users, groups,      *)
(* messages and key changes.                                               *)
(***************************************************************************)
EXTENDS GroupRepository, FiniteSetTheorems, WellFoundedInduction, TLAPS

USE BoundsAssumption

-----------------------------------------------------------------------------
(* What Min and Max return for sets of numbers *)

\* A set of naturals that is not empty has a least element: the promotion of
\* "the member with the lowest user id" always finds one.
LEMMA LeastElement ==
    ASSUME NEW S, S \subseteq Nat, S # {}
    PROVE  \E x \in S : \A y \in S : x =< y
<1>1. PICK x \in S : \A y \in S : <<y, x>> \notin OpToRel(<, Nat)
  BY NatLessThanWellFounded, WFMin
<1>2. \A y \in S : y < x => <<y, x>> \in OpToRel(<, Nat)
  BY DEF OpToRel
<1>3. \A y \in S : ~(y < x)
  BY <1>1, <1>2
<1> QED
  BY <1>3

LEMMA MinInSet ==
    ASSUME NEW S, S \subseteq Nat, S # {}
    PROVE  /\ Min(S) \in S
           /\ \A y \in S : Min(S) =< y
BY LeastElement DEF Min

\* The newest of a bounded, non-empty set of epochs is one of them.
LEMMA MaxInSet ==
    ASSUME NEW n \in Nat, NEW S, S \subseteq 0..n, S # {}
    PROVE  /\ Max(S) \in S
           /\ \A y \in S : y =< Max(S)
<1> DEFINE T == {k \in Nat : n - k \in S}
<1>1. T \subseteq Nat /\ T # {}
  <2>1. PICK x \in S : TRUE
    OBVIOUS
  <2>2. x \in 0..n
    OBVIOUS
  <2>3. n - x \in T
    BY <2>2
  <2> QED
    BY <2>3
<1>2. PICK k \in T : \A j \in T : k =< j
  BY <1>1, LeastElement
<1>3. n - k \in S /\ \A y \in S : y =< n - k
  <2>1. \A y \in S : n - y \in T
    BY DEF T
  <2> QED
    BY <1>2, <2>1
<1> QED
  BY <1>3 DEF Max

-----------------------------------------------------------------------------
(* Members that remain *)

\* Membership lists are finite sets of numbers.
LEMMA MembersFinite ==
    ASSUME TypeOK, NEW g \in GroupId
    PROVE  /\ members[g] \subseteq Nat
           /\ IsFiniteSet(members[g])
<1>1. members[g] \subseteq 1..MaxUser
  BY DEF TypeOK, UserId
<1>2. IsFiniteSet(1..MaxUser)
  BY FS_Interval
<1> QED
  BY <1>1, <1>2, FS_Subset

\* A shared group has somebody else in it, and the one the UPDATE of
\* delete_user promotes is among them.
LEMMA SharedHasSuccessor ==
    ASSUME TypeOK, NEW u, NEW g \in groups, g \in GroupId, g \in SharedGroups(u)
    PROVE  /\ members[g] \ {u} # {}
           /\ Min(members[g] \ {u}) \in members[g] \ {u}
<1>1. u \in members[g] /\ ~(Cardinality(members[g]) <= 1)
  BY DEF SharedGroups, GroupsOf, SoleGroups
<1>2. IsFiniteSet(members[g]) /\ members[g] \subseteq Nat
  BY MembersFinite
<1>3. members[g] \ {u} # {}
  <2>1. SUFFICES ASSUME members[g] \ {u} = {} PROVE FALSE
    OBVIOUS
  <2>2. members[g] = {u}
    BY <1>1, <2>1
  <2>3. Cardinality(members[g]) = 1
    BY <2>2, FS_Singleton
  <2> QED
    BY <1>1, <2>3
<1> QED
  BY <1>2, <1>3, MinInSet

\* When two or more are left, the promotion of remove_member finds one.
LEMMA RestHasSuccessor ==
    ASSUME TypeOK, NEW g \in GroupId, NEW u, Cardinality(members[g] \ {u}) > 1
    PROVE  Min(members[g] \ {u}) \in members[g] \ {u}
<1>1. members[g] \ {u} # {}
  BY FS_EmptySet
<1> QED
  BY <1>1, MembersFinite, MinInSet

\* The newest key of a fetch is the one held before or one of those waiting.
LEMMA NewestKey ==
    ASSUME NEW k \in 0..MaxEpoch, NEW S, S \subseteq SKDM
    PROVE  /\ Max({k} \cup {s.epoch : s \in S}) \in {k} \cup {s.epoch : s \in S}
           /\ Max({k} \cup {s.epoch : s \in S}) \in 0..MaxEpoch
<1> DEFINE E == {k} \cup {s.epoch : s \in S}
<1>1. E \subseteq 0..MaxEpoch
  BY DEF SKDM
<1>2. E # {}
  OBVIOUS
<1> HIDE DEF E
<1>3. Max(E) \in E
  BY <1>1, <1>2, MaxInSet
<1> QED
  BY <1>1, <1>3 DEF E
\* The rows _store_skdms adds are keys of the group's next epoch.
LEMMA NewRows ==
    ASSUME NEW g \in GroupId, NEW recipients, recipients \subseteq UserId,
           epoch[g] \in 0..MaxEpoch, epoch[g] < MaxEpoch
    PROVE  \A s \in NewSKDMs(g, recipients) :
               s \in SKDM /\ s.group = g /\ s.epoch = epoch[g] + 1
BY DEF NewSKDMs, SKDM

-----------------------------------------------------------------------------
(* The invariant holds at the start, and each operation keeps it.           *)

LEMMA InitInvariant == Init => GroupInvariant
BY DEF Init, GroupInvariant, TypeOK, CreatorIsMember, CurrentKeyKeptInside,
       PendingKeysNotAhead, KeysBelongToGroups, UserId, GroupId, NoUser, NoKey

\* Operations that leave groups, members and keys alone.
LEMMA MessageStepInvariant ==
    ASSUME GroupInvariant, TypeOK', UNCHANGED <<groupVars, keyVars>>
    PROVE  GroupInvariant'
BY DEF GroupInvariant, CreatorIsMember, CurrentKeyKeptInside, PendingKeysNotAhead,
       KeysBelongToGroups, groupVars, keyVars

LEMMA StoreMessageInvariant ==
    ASSUME GroupInvariant, NEW g \in groups, NEW u \in users, store_group_message(g, u)
    PROVE  GroupInvariant'
<1> USE DEF GroupInvariant, store_group_message, accountVars, groupVars, keyVars
<1>1. g \in GroupId /\ u \in UserId /\ members[g] \subseteq UserId /\ messageSeq' \in MessageId
  BY DEF TypeOK, GroupId, UserId, MessageId
<1>2. messages' \subseteq Message
  BY <1>1 DEF TypeOK, Message
<1>3. receipts' \subseteq Receipt
  BY <1>1 DEF TypeOK, Receipt, Audience
<1>4. TypeOK'
  BY <1>1, <1>2, <1>3 DEF TypeOK, MessageId
<1> QED
  BY <1>4, MessageStepInvariant

LEMMA CreateUserInvariant ==
    ASSUME GroupInvariant, create_user
    PROVE  GroupInvariant'
<1>1. TypeOK'
  BY DEF GroupInvariant, TypeOK, create_user, groupVars, keyVars, messageVars, UserId
<1> QED
  BY <1>1, MessageStepInvariant DEF create_user

\* A group is born with its creator in it; nobody has a key for its id.
LEMMA CreateGroupInvariant ==
    ASSUME GroupInvariant, NEW c \in users, NEW initial \in SUBSET (users \ {c}),
           create_group(c, initial)
    PROVE  GroupInvariant'
<1> DEFINE g == groupSeq + 1
<1>0. /\ groupSeq < MaxGroup /\ g = groupSeq + 1 /\ groupSeq' = g /\ groups' = groups \cup {g}
      /\ creator' = [creator EXCEPT ![g] = c]
      /\ members' = [members EXCEPT ![g] = {c} \cup initial]
      /\ initial = {}  => UNCHANGED <<epoch, skdms, keyHeld>>
      /\ initial # {} => store_keys(g, initial, skdms)
      /\ UNCHANGED <<users, userSeq, messages, messageSeq, receipts>>
  BY DEF create_group, FoundingMembers, accountVars, messageVars, keyVars
<1>1. g \in GroupId /\ g \notin groups /\ c \in UserId /\ initial \subseteq UserId
  BY <1>0 DEF GroupInvariant, TypeOK, GroupId, UserId
<1> HIDE DEF g
<1> USE DEF GroupInvariant
<1>2. epoch[g] = 0 /\ \A u \in UserId : keyHeld[g][u] = NoKey
  BY <1>1 DEF KeysBelongToGroups
<1>3. /\ keyHeld' = keyHeld
      /\ epoch' \in [GroupId -> 0..MaxEpoch]
      /\ epoch'[g] \in {0, 1}
      /\ \A h \in GroupId \ {g} : epoch'[h] = epoch[h]
      /\ skdms \subseteq skdms'
      /\ skdms' # skdms => epoch'[g] = 1
      /\ \A s \in skdms' \ skdms : s \in SKDM /\ s.group = g /\ s.epoch = 1
  <2>1. CASE initial = {}
    BY <1>0, <1>1, <1>2, <2>1 DEF TypeOK
  <2>2. CASE initial # {}
    <3>1. store_keys(g, initial, skdms)
      BY <1>0, <2>2
    <3>2. /\ epoch' \in [GroupId -> 0..MaxEpoch]
          /\ epoch'[g] = 1
          /\ \A h \in GroupId \ {g} : epoch'[h] = epoch[h]
      BY <1>1, <1>2, <3>1 DEF store_keys, TypeOK
    <3>3. epoch[g] \in 0..MaxEpoch /\ epoch[g] < MaxEpoch
      BY <1>1, <3>1 DEF store_keys, TypeOK
    <3>4. \A s \in NewSKDMs(g, initial) : s \in SKDM /\ s.group = g /\ s.epoch = 1
      BY <1>1, <1>2, <3>3, NewRows
    <3> QED
      BY <3>1, <3>2, <3>4 DEF store_keys
  <2> QED
    BY <2>1, <2>2
<1>4. TypeOK'
  <2>1. skdms' \subseteq SKDM
    BY <1>3 DEF TypeOK
  <2>2. groupSeq' \in 0..MaxGroup /\ groups' \subseteq 1..groupSeq'
    BY <1>0, <1>1 DEF TypeOK, GroupId
  <2>3. creator' \in [GroupId -> UserId \cup {NoUser}] /\ members' \in [GroupId -> SUBSET UserId]
    BY <1>0, <1>1 DEF TypeOK
  <2> QED
    BY <1>0, <1>3, <2>1, <2>2, <2>3 DEF TypeOK
<1>5. CreatorIsMember'
  BY <1>0, <1>1 DEF CreatorIsMember, TypeOK, GroupId
<1>6. CurrentKeyKeptInside'
  <2>1. SUFFICES ASSUME NEW h \in groups', NEW u \in UserId,
                        u \notin members'[h], keyHeld'[h][u] # NoKey
                 PROVE  keyHeld'[h][u] < epoch'[h]
    BY DEF CurrentKeyKeptInside
  <2>2. h # g
    BY <1>2, <1>3, <2>1
  <2>3. h \in groups /\ h \in GroupId
    BY <1>0, <2>2 DEF TypeOK, GroupId
  <2>4. members'[h] = members[h] /\ epoch'[h] = epoch[h]
    BY <1>0, <1>3, <2>2, <2>3 DEF TypeOK
  <2> QED
    BY <1>3, <2>1, <2>3, <2>4 DEF CurrentKeyKeptInside
<1>7. PendingKeysNotAhead'
  <2>1. SUFFICES ASSUME NEW s \in skdms'
                 PROVE  s.group \in groups' /\ s.epoch <= epoch'[s.group]
    BY DEF PendingKeysNotAhead
  <2>2. CASE s \in skdms
    <3>1. s.group \in groups /\ s.group \in GroupId \ {g} /\ s.epoch <= epoch[s.group]
      BY <1>1, <2>2 DEF PendingKeysNotAhead, TypeOK, SKDM
    <3> QED
      BY <1>0, <1>3, <3>1
  <2>3. CASE s \notin skdms
    BY <1>0, <1>3, <2>1, <2>3
  <2> QED
    BY <2>2, <2>3
<1>8. KeysBelongToGroups'
  <2>1. \A h \in GroupId \ {g} : /\ h \in groups' <=> h \in groups
                                 /\ members'[h] = members[h]
                                 /\ epoch'[h] = epoch[h]
    BY <1>0, <1>1, <1>3 DEF TypeOK
  <2>2. g \in groups' /\ \A u \in UserId : keyHeld'[g][u] = NoKey /\ NoKey <= epoch'[g]
    BY <1>0, <1>2, <1>3 DEF NoKey
  <2> QED
    BY <1>3, <2>1, <2>2 DEF KeysBelongToGroups
<1> QED
  BY <1>4, <1>5, <1>6, <1>7, <1>8

\* A new epoch for group g, with keys of that epoch: what was a current key
\* is one no more, and nothing else changes for the other groups.
LEMMA StoreKeysInvariant ==
    ASSUME GroupInvariant, NEW g \in groups, NEW recipients, NEW pending \in SUBSET skdms,
           store_keys(g, recipients, pending),
           groups' = groups, groupSeq' = groupSeq,
           creator' \in [GroupId -> UserId \cup {NoUser}],
           members' \in [GroupId -> SUBSET UserId],
           \A h \in groups : creator'[h] \in members'[h],
           \A h \in GroupId \ {g} : members'[h] = members[h],
           UNCHANGED <<accountVars, messageVars>>
    PROVE  GroupInvariant'
<1> USE DEF GroupInvariant, store_keys, accountVars, messageVars
<1>1. g \in GroupId /\ recipients \subseteq UserId
  BY DEF TypeOK, GroupId, UserId
<1>2. /\ epoch' \in [GroupId -> 0..MaxEpoch]
      /\ epoch'[g] = epoch[g] + 1
      /\ \A h \in GroupId \ {g} : epoch'[h] = epoch[h]
  BY <1>1 DEF TypeOK
<1>3. \A s \in skdms' : s \in SKDM /\ (s \in skdms \/ (s.group = g /\ s.epoch = epoch[g] + 1))
  <2>1. \A s \in NewSKDMs(g, recipients) :
           s \in SKDM /\ s.group = g /\ s.epoch = epoch[g] + 1
    BY <1>1, NewRows DEF TypeOK
  <2> QED
    BY <2>1 DEF TypeOK
<1>4. TypeOK'
  BY <1>2, <1>3 DEF TypeOK
<1>5. CreatorIsMember'
  BY DEF CreatorIsMember
<1>6. KeysBelongToGroups'
  BY <1>1, <1>2 DEF KeysBelongToGroups, TypeOK
<1>7. CurrentKeyKeptInside'
  <2>1. SUFFICES ASSUME NEW h \in groups, NEW u \in UserId,
                        u \notin members'[h], keyHeld[h][u] # NoKey
                 PROVE  keyHeld[h][u] < epoch'[h]
    BY DEF CurrentKeyKeptInside
  <2>2. h \in GroupId /\ keyHeld[h][u] \in 0..MaxEpoch /\ epoch[h] \in 0..MaxEpoch
    BY DEF TypeOK, GroupId
  <2>3. CASE h = g
    <3>1. keyHeld[g][u] <= epoch[g]
      BY <1>1 DEF KeysBelongToGroups
    <3> QED
      BY <1>2, <2>2, <2>3, <3>1
  <2>4. CASE h # g
    BY <1>2, <2>1, <2>2, <2>4 DEF CurrentKeyKeptInside
  <2> QED
    BY <2>3, <2>4
<1>8. PendingKeysNotAhead'
  <2>1. SUFFICES ASSUME NEW s \in skdms' PROVE s.group \in groups /\ s.epoch <= epoch'[s.group]
    BY DEF PendingKeysNotAhead
  <2>2. s \in SKDM /\ epoch[s.group] \in 0..MaxEpoch
    BY <1>3 DEF TypeOK, SKDM
  <2>3. CASE s \in skdms
    BY <1>2, <2>2, <2>3 DEF PendingKeysNotAhead, SKDM, TypeOK
  <2>4. CASE s.group = g /\ s.epoch = epoch[g] + 1
    BY <1>2, <2>2, <2>4 DEF SKDM
  <2> QED
    BY <1>3, <2>3, <2>4
<1> QED
  BY <1>4, <1>5, <1>6, <1>7, <1>8

LEMMA AddMemberInvariant ==
    ASSUME GroupInvariant, NEW g \in groups, NEW requester \in users, NEW u \in users,
           add_member(g, requester, u)
    PROVE  GroupInvariant'
<1>1. g \in GroupId /\ u \in UserId
  BY DEF GroupInvariant, TypeOK, GroupId, UserId
<1>2. members' \in [GroupId -> SUBSET UserId]
  BY <1>1 DEF add_member, GroupInvariant, TypeOK
<1>3. \A h \in groups : creator'[h] \in members'[h]
  BY <1>1 DEF add_member, GroupInvariant, TypeOK, CreatorIsMember, GroupId
<1>4. \A h \in GroupId \ {g} : members'[h] = members[h]
  BY <1>1 DEF add_member, GroupInvariant, TypeOK
<1> QED
  BY <1>2, <1>3, <1>4, StoreKeysInvariant DEF add_member, GroupInvariant, TypeOK

LEMMA StoreSKDMsInvariant ==
    ASSUME GroupInvariant, NEW g \in groups, NEW recipients, store_skdms(g, recipients)
    PROVE  GroupInvariant'
BY StoreKeysInvariant DEF store_skdms, GroupInvariant, TypeOK, CreatorIsMember

\* A group and everything that references it goes.
LEMMA DeleteGroupInvariant ==
    ASSUME GroupInvariant, NEW g \in groups, DeleteGroup(g)
    PROVE  GroupInvariant'
<1> USE DEF GroupInvariant, DeleteGroup, accountVars
<1>1. g \in GroupId
  BY DEF TypeOK, GroupId
<1>2. skdms' \subseteq SKDM /\ messages' \subseteq Message /\ receipts' \subseteq Receipt
  BY DEF TypeOK, ReceiptsOf
<1>3. TypeOK'
  BY <1>1, <1>2 DEF TypeOK, NoUser, NoKey
<1>4. \A h \in GroupId \ {g} : /\ creator'[h] = creator[h]
                               /\ epoch'[h] = epoch[h]
                               /\ members'[h] = members[h]
                               /\ keyHeld'[h] = keyHeld[h]
                               /\ h \in groups' <=> h \in groups
  BY DEF TypeOK
<1>5. groups' \subseteq GroupId \ {g}
  BY <1>3 DEF TypeOK, GroupId
<1>6. CreatorIsMember' /\ CurrentKeyKeptInside'
  BY <1>4, <1>5 DEF CreatorIsMember, CurrentKeyKeptInside
<1>7. PendingKeysNotAhead'
  BY <1>1, <1>4, <1>5 DEF PendingKeysNotAhead
<1>8. KeysBelongToGroups'
  <2>1. epoch'[g] = 0 /\ members'[g] = {} /\ \A u \in UserId : keyHeld'[g][u] = NoKey
    BY <1>1 DEF TypeOK
  <2> QED
    BY <1>4, <1>5, <2>1 DEF KeysBelongToGroups
<1> QED
  BY <1>3, <1>6, <1>7, <1>8

\* Either the group goes with the member, or two or more remain, one of them
\* the creator, under a new epoch.
LEMMA RemoveMemberInvariant ==
    ASSUME GroupInvariant, NEW g \in groups, NEW requester \in users, NEW u \in users,
           NEW recipients, remove_member(g, requester, u, creator[g], recipients)
    PROVE  GroupInvariant'
<1> DEFINE rest == members[g] \ {u}
<1>1. CASE Cardinality(rest) <= 1 /\ DeleteGroup(g)
  BY <1>1, DeleteGroupInvariant
<1>2. CASE /\ Cardinality(rest) > 1
           /\ members' = [members EXCEPT ![g] = rest]
           /\ creator' = [creator EXCEPT ![g] = Promoted(g, u, creator[g])]
           /\ store_keys(g, recipients, KeysOfOtherGroups(g, u))
           /\ UNCHANGED <<accountVars, groups, groupSeq, messageVars>>
  <2>1. TypeOK /\ g \in GroupId
    BY DEF GroupInvariant, TypeOK, GroupId
  <2>2. /\ Min(rest) \in rest
        /\ Promoted(g, u, creator[g]) = IF creator[g] = u THEN Min(rest) ELSE creator[g]
    BY <1>2, <2>1, RestHasSuccessor DEF Promoted
  <2>3. rest \subseteq UserId /\ creator[g] \in members[g]
    BY <2>1 DEF GroupInvariant, TypeOK, CreatorIsMember
  <2> HIDE DEF rest
  <2>4. creator' \in [GroupId -> UserId \cup {NoUser}]
    BY <1>2, <2>1, <2>2, <2>3 DEF TypeOK
  <2>5. members' \in [GroupId -> SUBSET UserId]
    BY <1>2, <2>1, <2>3 DEF TypeOK
  <2>6. creator'[g] \in members'[g]
    BY <1>2, <2>1, <2>2, <2>3 DEF TypeOK, rest
  <2>7. \A h \in GroupId \ {g} : members'[h] = members[h] /\ creator'[h] = creator[h]
    BY <1>2, <2>1 DEF TypeOK
  <2>8. \A h \in groups : creator'[h] \in members'[h]
    <3>1. groups \subseteq GroupId
      BY <2>1 DEF TypeOK, GroupId
    <3>2. \A h \in groups : creator[h] \in members[h]
      BY DEF GroupInvariant, CreatorIsMember
    <3> QED
      BY <2>6, <2>7, <3>1, <3>2
  <2>9. KeysOfOtherGroups(g, u) \in SUBSET skdms
    BY DEF KeysOfOtherGroups
  <2> QED
    BY <1>2, <2>4, <2>5, <2>7, <2>8, <2>9, StoreKeysInvariant
<1> QED
  BY <1>1, <1>2 DEF remove_member

\* Only a member fetches keys, and no fetched key is ahead of the group.
LEMMA PopSKDMsInvariant ==
    ASSUME GroupInvariant, NEW g \in groups, NEW u \in users,
           u \in members[g], pop_skdms_for_user(u, g)
    PROVE  GroupInvariant'
<1> DEFINE newest == Max({keyHeld[g][u]} \cup {s.epoch : s \in KeysFor(u, g)})
<1> USE DEF GroupInvariant
<1>1. /\ TypeOK
      /\ g \in GroupId
      /\ u \in UserId
      /\ KeysFor(u, g) \subseteq SKDM
  <2>1. TypeOK
    OBVIOUS
  <2>2. g \in GroupId /\ u \in UserId
    BY DEF TypeOK, GroupId, UserId
  <2>3. KeysFor(u, g) \subseteq SKDM
    BY DEF TypeOK, KeysFor
  <2> QED
    BY <2>1, <2>2, <2>3
<1>2. keyHeld[g][u] \in 0..MaxEpoch /\ epoch[g] \in 0..MaxEpoch
  BY <1>1 DEF TypeOK
<1>3. newest \in 0..MaxEpoch /\ newest <= epoch[g]
  <2>1. /\ newest \in {keyHeld[g][u]} \cup {s.epoch : s \in KeysFor(u, g)}
        /\ newest \in 0..MaxEpoch
    BY <1>1, <1>2, NewestKey
  <2>2. keyHeld[g][u] <= epoch[g]
    BY <1>1 DEF KeysBelongToGroups
  <2>3. \A s \in KeysFor(u, g) : s.epoch <= epoch[g]
    BY DEF KeysFor, PendingKeysNotAhead
  <2> QED
    BY <2>1, <2>2, <2>3
<1>4. /\ keyHeld' = [keyHeld EXCEPT ![g][u] = newest]
      /\ skdms' \subseteq skdms
      /\ UNCHANGED <<users, userSeq, groups, groupSeq, creator, epoch, members,
                     messages, messageSeq, receipts>>
  BY DEF pop_skdms_for_user, accountVars, groupVars, messageVars
<1> HIDE DEF newest
<1>5. /\ keyHeld' \in [GroupId -> [UserId -> 0..MaxEpoch]]
      /\ keyHeld'[g][u] = newest
      /\ \A h \in GroupId, v \in UserId :
            ~(h = g /\ v = u) => keyHeld'[h][v] = keyHeld[h][v]
  BY <1>1, <1>3, <1>4 DEF TypeOK
<1>6. TypeOK'
  BY <1>4, <1>5 DEF TypeOK
<1>7. CreatorIsMember' /\ PendingKeysNotAhead'
  BY <1>4 DEF CreatorIsMember, PendingKeysNotAhead
<1>8. CurrentKeyKeptInside'
  <2>1. groups \subseteq GroupId
    BY DEF TypeOK, GroupId
  <2> QED
    BY <1>4, <1>5, <2>1 DEF CurrentKeyKeptInside
<1>9. KeysBelongToGroups'
  <2>1. SUFFICES ASSUME NEW h \in GroupId
                 PROVE  /\ h \in groups    => \A v \in UserId : keyHeld'[h][v] <= epoch[h]
                        /\ h \notin groups => /\ epoch[h] = 0
                                              /\ members[h] = {}
                                              /\ \A v \in UserId : keyHeld'[h][v] = NoKey
    BY <1>4 DEF KeysBelongToGroups
  <2>2. CASE h = g
    BY <1>3, <1>5, <2>2 DEF KeysBelongToGroups
  <2>3. CASE h # g
    BY <1>5, <2>3 DEF KeysBelongToGroups
  <2> QED
    BY <2>2, <2>3
<1> QED
  BY <1>6, <1>7, <1>8, <1>9

LEMMA MessagesInvariant ==
    ASSUME GroupInvariant, NEW u \in users, NEW m \in messages, NEW g \in groups,
           \/ store_group_message(g, u)
           \/ revoke_group_message(m.id, u)
           \/ record_group_receipt(m.id, u)
    PROVE  GroupInvariant'
<1> USE DEF GroupInvariant
<1>1. CASE store_group_message(g, u)
  BY <1>1, StoreMessageInvariant
<1>2. CASE revoke_group_message(m.id, u)
  <2>1. TypeOK'
    BY <1>2 DEF TypeOK, revoke_group_message, accountVars, groupVars, keyVars
  <2> QED
    BY <1>2, <2>1, MessageStepInvariant DEF revoke_group_message
<1>3. CASE record_group_receipt(m.id, u)
  <2>1. TypeOK'
    BY <1>3 DEF TypeOK, record_group_receipt, accountVars, groupVars, keyVars
  <2> QED
    BY <1>3, <2>1, MessageStepInvariant DEF record_group_receipt
<1> QED
  BY <1>1, <1>2, <1>3

\* An account goes: its shared groups get a new epoch and, where it owned
\* them, a new creator from those who stay; its sole groups go with it.
LEMMA DeleteUserInvariant ==
    ASSUME GroupInvariant, NEW u \in users, delete_user(u)
    PROVE  GroupInvariant'
<1> USE DEF GroupInvariant
<1>1. TypeOK /\ u \in UserId /\ groups \subseteq GroupId
  <2>1. TypeOK
    OBVIOUS
  <2>2. u \in UserId /\ groups \subseteq GroupId
    BY DEF TypeOK, UserId, GroupId
  <2> QED
    BY <2>1, <2>2
<1>2. ASSUME NEW g \in groups
      PROVE  /\ g \in SharedGroups(u) => u \in members[g]
             /\ u \in members[g] => g \in SharedGroups(u) \/ g \in SoleGroups(u)
             /\ g \in SharedGroups(u) => g \notin SoleGroups(u)
  BY DEF SharedGroups, SoleGroups, GroupsOf
<1>3. \A g \in groups : CreatorAfter(u, g) \in UserId
  <2>1. SUFFICES ASSUME NEW g \in groups PROVE CreatorAfter(u, g) \in UserId
    OBVIOUS
  <2>2. g \in GroupId /\ creator[g] \in members[g] /\ members[g] \subseteq UserId
    BY <1>1 DEF CreatorIsMember, TypeOK
  <2>3. CASE g \in SharedGroups(u)
    BY <1>1, <2>2, <2>3, SharedHasSuccessor DEF CreatorAfter
  <2>4. CASE g \notin SharedGroups(u)
    BY <2>2, <2>4 DEF CreatorAfter
  <2> QED
    BY <2>3, <2>4
<1>4. /\ users' = users \ {u}
      /\ groups' = GroupsAfter(u)
      /\ groups' \subseteq groups
      /\ UNCHANGED <<userSeq, groupSeq, messageSeq>>
  BY DEF delete_user, GroupsAfter
<1>5. \A g \in GroupId : /\ g \in groups'    => members'[g] = members[g] \ {u}
                         /\ g \notin groups' => members'[g] = {}
  BY DEF delete_user
<1>6. \A g \in GroupId : /\ g \in groups'    => creator'[g] = CreatorAfter(u, g)
                         /\ g \notin groups' => creator'[g] = NoUser
  BY DEF delete_user
<1>7. \A g \in GroupId :
         /\ g \notin groups' => epoch'[g] = 0
         /\ g \in groups' /\ g \in SharedGroups(u) =>
               epoch'[g] = epoch[g] + 1 /\ epoch[g] < MaxEpoch
         /\ g \in groups' /\ g \notin SharedGroups(u) => epoch'[g] = epoch[g]
  BY DEF delete_user, EpochAfter
<1>8. \A g \in GroupId : /\ g \in groups'    => keyHeld'[g] = keyHeld[g]
                         /\ g \notin groups' => keyHeld'[g] = [v \in UserId |-> NoKey]
  BY DEF delete_user
<1>9. TypeOK'
  <2>1. creator' \in [GroupId -> UserId \cup {NoUser}]
    <3>1. creator' = [g \in GroupId |-> IF g \in groups' THEN CreatorAfter(u, g) ELSE NoUser]
      BY DEF delete_user
    <3> QED
      BY <1>3, <1>4, <3>1
  <2>2. epoch' \in [GroupId -> 0..MaxEpoch]
    <3>1. epoch' = [g \in GroupId |-> epoch'[g]]
      BY DEF delete_user
    <3>2. \A g \in GroupId : epoch'[g] \in 0..MaxEpoch
      BY <1>7 DEF TypeOK
    <3> QED
      BY <3>1, <3>2
  <2>3. members' \in [GroupId -> SUBSET UserId]
    BY DEF delete_user, TypeOK
  <2>4. keyHeld' \in [GroupId -> [UserId -> 0..MaxEpoch]]
    <3>1. keyHeld' = [g \in GroupId |-> IF g \in groups' THEN keyHeld[g]
                                        ELSE [v \in UserId |-> NoKey]]
      BY DEF delete_user
    <3> QED
      BY <3>1 DEF TypeOK, NoKey
  <2>5. skdms' \subseteq SKDM /\ messages' \subseteq Message /\ receipts' \subseteq Receipt
    BY DEF delete_user, TypeOK, ReceiptsOf
  <2> QED
    BY <1>4, <2>1, <2>2, <2>3, <2>4, <2>5 DEF TypeOK
<1>10. CreatorIsMember'
  <2>1. SUFFICES ASSUME NEW g \in groups' PROVE CreatorAfter(u, g) \in members[g] \ {u}
    BY <1>1, <1>4, <1>5, <1>6 DEF CreatorIsMember
  <2>2. g \in groups /\ g \in GroupId /\ CreatorAfter(u, g) # u
    BY <1>1, <1>4 DEF GroupsAfter
  <2>3. CASE g \in SharedGroups(u)
    BY <1>1, <2>2, <2>3, SharedHasSuccessor DEF CreatorAfter, CreatorIsMember
  <2>4. CASE g \notin SharedGroups(u)
    BY <2>2, <2>4 DEF CreatorAfter, CreatorIsMember
  <2> QED
    BY <2>3, <2>4
<1>11. CurrentKeyKeptInside'
  <2>1. SUFFICES ASSUME NEW g \in groups', NEW v \in UserId,
                        v \notin members[g] \ {u}, keyHeld[g][v] # NoKey
                 PROVE  keyHeld[g][v] < epoch'[g]
    <3>1. \A g \in groups' : members'[g] = members[g] \ {u} /\ keyHeld'[g] = keyHeld[g]
      BY <1>1, <1>4, <1>5, <1>8
    <3> QED
      BY <3>1 DEF CurrentKeyKeptInside
  <2>2. /\ g \in groups /\ g \in GroupId /\ g \notin SoleGroups(u)
        /\ keyHeld[g][v] \in 0..MaxEpoch /\ epoch[g] \in 0..MaxEpoch
        /\ keyHeld[g][v] <= epoch[g]
    BY <1>1, <1>4 DEF GroupsAfter, TypeOK, KeysBelongToGroups
  <2>3. CASE g \in SharedGroups(u)
    BY <1>7, <2>2, <2>3
  <2>4. CASE g \notin SharedGroups(u)
    <3>1. v \notin members[g]
      BY <1>2, <2>1, <2>2, <2>4
    <3> QED
      BY <1>7, <2>1, <2>2, <2>4, <3>1 DEF CurrentKeyKeptInside
  <2> QED
    BY <2>3, <2>4
<1>12. \A g \in groups' : /\ epoch[g] \in 0..MaxEpoch /\ epoch'[g] \in 0..MaxEpoch
                          /\ epoch[g] <= epoch'[g]
  <2>1. SUFFICES ASSUME NEW g \in groups'
                 PROVE  /\ epoch[g] \in 0..MaxEpoch /\ epoch'[g] \in 0..MaxEpoch
                        /\ epoch[g] <= epoch'[g]
    OBVIOUS
  <2>2. g \in GroupId
    BY <1>1, <1>4
  <2>3. epoch[g] \in 0..MaxEpoch /\ epoch'[g] \in 0..MaxEpoch
    BY <1>9, <2>2 DEF TypeOK
  <2> QED
    BY <1>7, <2>2, <2>3
<1>13. PendingKeysNotAhead'
  <2>1. \A s \in skdms' : s \in skdms /\ s.group \in groups' /\ s \in SKDM
    BY DEF delete_user, TypeOK
  <2> QED
    BY <1>12, <2>1 DEF PendingKeysNotAhead, SKDM
<1>14. KeysBelongToGroups'
  <2>1. SUFFICES ASSUME NEW g \in GroupId
                 PROVE  /\ g \in groups'    => \A v \in UserId : keyHeld'[g][v] <= epoch'[g]
                        /\ g \notin groups' => /\ epoch'[g] = 0
                                               /\ members'[g] = {}
                                               /\ \A v \in UserId : keyHeld'[g][v] = NoKey
    BY DEF KeysBelongToGroups
  <2>2. CASE g \notin groups'
    BY <1>5, <1>7, <1>8, <2>2
  <2>3. CASE g \in groups'
    <3>1. \A v \in UserId : keyHeld[g][v] \in 0..MaxEpoch /\ keyHeld[g][v] <= epoch[g]
      BY <1>4, <2>3 DEF TypeOK, KeysBelongToGroups
    <3> QED
      BY <1>8, <1>12, <2>3, <3>1
  <2> QED
    BY <2>2, <2>3
<1> QED
  BY <1>9, <1>10, <1>11, <1>13, <1>14

LEMMA StepInvariant == GroupInvariant /\ [Next]_tables => GroupInvariant'
<1> SUFFICES ASSUME GroupInvariant, [Next]_tables
             PROVE  GroupInvariant'
  OBVIOUS
<1>1. CASE Register
  BY <1>1, CreateUserInvariant DEF Register
<1>2. CASE DeleteAccount
  BY <1>2, DeleteUserInvariant DEF DeleteAccount
<1>3. CASE CreateGroup
  BY <1>3, CreateGroupInvariant DEF CreateGroup
<1>4. CASE AddMember
  BY <1>4, AddMemberInvariant DEF AddMember
<1>5. CASE RemoveMember
  BY <1>5, RemoveMemberInvariant DEF RemoveMember
<1>6. CASE SendSKDMs
  BY <1>6, StoreSKDMsInvariant DEF SendSKDMs
<1>7. CASE PopSKDMs
  BY <1>7, PopSKDMsInvariant DEF PopSKDMs, require_group_member
<1>8. CASE SendMessage
  BY <1>8, StoreMessageInvariant DEF SendMessage
<1>9. CASE RevokeMessage
  BY <1>9, MessagesInvariant DEF RevokeMessage
<1>10. CASE RecordReceipt
  BY <1>10, MessagesInvariant DEF RecordReceipt
<1>11. CASE UNCHANGED tables
  <2>1. UNCHANGED <<accountVars, groupVars, keyVars, messageVars>>
    BY <1>11 DEF tables
  <2>2. TypeOK'
    BY <2>1 DEF GroupInvariant, TypeOK, accountVars, groupVars, keyVars, messageVars
  <2> QED
    BY <2>1, <2>2, MessageStepInvariant
<1> QED
  BY <1>1, <1>2, <1>3, <1>4, <1>5, <1>6, <1>7, <1>8, <1>9, <1>10, <1>11 DEF Next

-----------------------------------------------------------------------------
(* The theorems *)

\* GroupInvariant holds in every reachable state of the tables.
THEOREM InvariantHolds == Spec => []GroupInvariant
BY InitInvariant, StepInvariant, PTL DEF Spec

\* Every table keeps the shape its model class gives it.
THEOREM TypeCorrect == Spec => []TypeOK
BY InvariantHolds, PTL DEF GroupInvariant

\* The creator of a group is one of its members, whoever leaves, is removed
\* or deletes the account, in whatever order.
THEOREM CreatorStaysMember == Spec => []CreatorIsMember
BY InvariantHolds, PTL DEF GroupInvariant

\* Nobody outside a group has a key of its current epoch.
THEOREM KeysStayInside == Spec => []CurrentKeyKeptInside
BY InvariantHolds, PTL DEF GroupInvariant

\* A key change never meets a pending key of the same epoch.
THEOREM EpochsNeverClash == Spec => []PendingKeysNotAhead
BY InvariantHolds, PTL DEF GroupInvariant
=============================================================================
