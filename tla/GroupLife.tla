------------------------------ MODULE GroupLife ------------------------------
(***************************************************************************)
(* What the server promises about the life of a group: who is in it, who   *)
(* owns it, and how its key epoch relates to both.  It says nothing of     *)
(* tables, transactions, cascades or requests.                             *)
(*                                                                         *)
(* One step may touch several groups (an account that goes is a member of  *)
(* many); each of them then makes a move of its own.                       *)
(***************************************************************************)
EXTENDS Integers, FiniteSetsExt

CONSTANTS
    Group,   \* ids of groups
    User     \* ids of users, numbers in order of registration

VARIABLES
    phase,   \* "unborn", "live" or "dead" for each group
    roster,  \* the members of each group
    owner,   \* the member who may add and remove others
    epoch    \* the number of the group's current key

lifeVars == <<phase, roster, owner, epoch>>

TypeOK ==
    /\ phase \in [Group -> {"unborn", "live", "dead"}]
    /\ DOMAIN roster = Group
    /\ DOMAIN owner = Group
    /\ DOMAIN epoch = Group

Init ==
    /\ TypeOK
    /\ \A g \in Group : phase[g] = "unborn"

\* A group starts with its owner among its members, and with a key unless the
\* owner is alone.
Form(g) ==
    /\ phase[g] = "unborn" /\ phase'[g] = "live"
    /\ roster'[g] \subseteq User
    /\ owner'[g] \in roster'[g]
    /\ epoch'[g] = IF roster'[g] = {owner'[g]} THEN 0 ELSE 1

\* A new key, for the members and perhaps for a new one.
Rekey(g) ==
    /\ phase[g] = "live" /\ phase'[g] = "live"
    /\ \/ roster'[g] = roster[g]
       \/ \E u \in User : roster'[g] = roster[g] \cup {u}
    /\ owner'[g] = owner[g]
    /\ epoch'[g] = epoch[g] + 1

\* Nobody leaves without a new epoch, and an owner who leaves is followed by
\* the member who registered first.
Leave(g) ==
    /\ phase[g] = "live" /\ phase'[g] = "live"
    /\ \E u \in roster[g] :
          /\ roster'[g] = roster[g] \ {u}
          /\ roster'[g] # {}
          /\ owner'[g] = IF owner[g] = u THEN Min(roster'[g]) ELSE owner[g]
    /\ epoch'[g] = epoch[g] + 1

\* Only a group that has come down to two members or fewer may end.
Dissolve(g) ==
    /\ phase[g] = "live" /\ phase'[g] = "dead"
    /\ \E u, v \in User : roster[g] \subseteq {u, v}

Rest(g) ==
    /\ phase'[g] = phase[g]
    /\ phase[g] = "live" => /\ roster'[g] = roster[g]
                            /\ owner'[g] = owner[g]
                            /\ epoch'[g] = epoch[g]

Next ==
    /\ TypeOK'
    /\ \A g \in Group : Form(g) \/ Rekey(g) \/ Leave(g) \/ Dissolve(g) \/ Rest(g)

Spec == Init /\ [][Next]_lifeVars
=============================================================================
