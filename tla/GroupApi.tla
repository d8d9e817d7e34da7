------------------------------ MODULE GroupApi ------------------------------
(***************************************************************************)
(* The group endpoints of app/api/groups.py over the tables of             *)
(* GroupRepository, with several requests in flight.                       *)
(*                                                                         *)
(* An endpoint's dependencies (app/api/deps.py) are plain functions, so    *)
(* FastAPI runs them in its thread pool, one SELECT after the other, while *)
(* other requests run.  The endpoint itself is an `async def` that never   *)
(* awaits: once it starts, no other endpoint runs until it returns.  So a  *)
(* request takes a step per dependency and one step for its handler, and   *)
(* what the dependencies have seen may be out of date in the handler.      *)
(*                                                                         *)
(* The dependencies and the handler of a request share one session.  The   *)
(* Group that require_group_member loads stays in its identity map, and    *)
(* the SELECT ... FOR UPDATE of remove_member returns that object with the *)
(* attributes it was loaded with.  add_member selects a column, and gets   *)
(* what the row holds now.                                                 *)
(***************************************************************************)
EXTENDS GroupRepository

CONSTANT Request   \* the requests that can be in flight at once

VARIABLE req       \* how far each of them has come, and what it has read

vars == <<tables, req>>

NoGroup == 0

Idle == [phase |-> "idle", user |-> NoUser, group |-> NoGroup, owner |-> NoUser]

Requests ==
    [phase : {"idle", "authenticated", "loaded", "admitted"},
     user : UserId \cup {NoUser},        \* current_user.id
     group : GroupId \cup {NoGroup},     \* group_id of the URL
     owner : UserId \cup {NoUser}]       \* group.creator_id as it was loaded

ApiInit == Init /\ req = [r \in Request |-> Idle]

At(r, p)  == req[r].phase = p
Finish(r) == req' = [req EXCEPT ![r] = Idle]

\* What a request has read was in the tables once: the account and the group may
\* be gone since, but their ids were drawn, and are nobody else's.
IdsRead ==
    \A r \in Request :
        /\ ~At(r, "idle") => req[r].user \in 1..userSeq
        /\ req[r].phase \in {"loaded", "admitted"} => req[r].group \in 1..groupSeq

ApiTypeOK == TypeOK /\ req \in [Request -> Requests] /\ IdsRead

-----------------------------------------------------------------------------
(* Dependencies.  They only read the tables. *)

get_current_user(r) ==
    /\ At(r, "idle")
    /\ \E u \in users :
          req' = [req EXCEPT ![r] = [Idle EXCEPT !.phase = "authenticated", !.user = u]]
    /\ UNCHANGED tables

\* The first half of require_group_member: get_group.
load_group(r) ==
    /\ At(r, "authenticated")
    /\ \E g \in groups :
          req' = [req EXCEPT ![r].phase = "loaded", ![r].group = g,
                             ![r].owner = creator[g]]
    /\ UNCHANGED tables

\* The second half: is_member.
check_member(r) ==
    /\ At(r, "loaded")
    /\ req[r].user \in members[req[r].group]
    /\ req' = [req EXCEPT ![r].phase = "admitted"]
    /\ UNCHANGED tables

\* The request ends without effect: 403 or 404 from a check, 429 from the
\* limiter, which counts after the dependencies, or a call of the handler
\* that fails or has nothing to do.
reject(r) ==
    /\ ~At(r, "idle")
    /\ Finish(r)
    /\ UNCHANGED tables

-----------------------------------------------------------------------------
(* Endpoints *)

register == create_user /\ UNCHANGED req

delete_me(r) ==
    /\ At(r, "authenticated")
    /\ delete_user(req[r].user)
    /\ Finish(r)

create_group_endpoint(r) ==
    /\ At(r, "authenticated")
    /\ \E initial \in SUBSET (users \ {req[r].user}) : create_group(req[r].user, initial)
    /\ Finish(r)

add_member_endpoint(r) ==
    /\ At(r, "admitted")
    /\ \E u \in users : add_member(req[r].group, req[r].user, u)
    /\ Finish(r)

\* The request r removes u, and hands out the new key to the recipients.
remove_member_endpoint(r, u, recipients) ==
    /\ At(r, "admitted")
    /\ remove_member(req[r].group, req[r].user, u, req[r].owner, recipients)
    /\ Finish(r)

send_skdms(r, recipients) ==
    /\ At(r, "admitted")
    /\ recipients # {}
    /\ store_skdms(req[r].group, recipients)
    /\ Finish(r)

pop_skdms(r) ==
    /\ At(r, "admitted")
    /\ req[r].group \in groups
    /\ pop_skdms_for_user(req[r].user, req[r].group)
    /\ Finish(r)

send_group_message(r) ==
    /\ At(r, "admitted")
    /\ store_group_message(req[r].group, req[r].user)
    /\ Finish(r)

revoke_group_message_endpoint(r) ==
    /\ At(r, "admitted")
    /\ \E m \in messages : revoke_group_message(m.id, req[r].user)
    /\ Finish(r)

record_group_message_receipt(r) ==
    /\ At(r, "admitted")
    /\ \E m \in messages : record_group_receipt(m.id, req[r].user)
    /\ Finish(r)

Dependency(r) == get_current_user(r) \/ load_group(r) \/ check_member(r) \/ reject(r)

Handler(r) ==
    \/ delete_me(r)
    \/ create_group_endpoint(r)
    \/ add_member_endpoint(r)
    \/ \E recipients \in SUBSET users :
          \/ \E u \in UserId : remove_member_endpoint(r, u, recipients)
          \/ send_skdms(r, recipients)
    \/ pop_skdms(r)
    \/ send_group_message(r)
    \/ revoke_group_message_endpoint(r)
    \/ record_group_message_receipt(r)

ApiNext == register \/ \E r \in Request : Dependency(r) \/ Handler(r)

ApiSpec == ApiInit /\ [][ApiNext]_vars

-----------------------------------------------------------------------------
(* What holds whatever the requests in flight have read. *)

\* No group is left without members: it would be listed for nobody, and
\* nothing but the deletion of its creator's account would ever remove it.
NoGroupWithoutMembers == \A g \in groups : members[g] # {}

\* Whoever leaves a group leaves it with its key changed, even when the
\* request that removes them acts on an owner who is no longer the owner.
LeaveChangesKey ==
    [][\A g \in groups \cap groups' :
          /\ epoch'[g] >= epoch[g]
          /\ members[g] \ members'[g] # {} => epoch'[g] > epoch[g]]_vars

\* A message leaves the server only when the last of those who have still to
\* acknowledge it does so, when its sender revokes it or deletes the account,
\* or with its group.  Whoever leaves meanwhile, and under the URL of whichever
\* group the requests come, nobody takes down what others have not read.
MessageKeptUntilAcknowledged ==
    [][\A m \in messages \ messages' :
          \/ m.group \notin groups'
          \/ m.sender \notin users'
          \/ \E r \in Request :
                \/ req[r].user = m.sender /\ revoke_group_message_endpoint(r)
                \/ Outstanding(m.id) = {req[r].user} /\ record_group_message_receipt(r)]_vars

-----------------------------------------------------------------------------
(* What does not.  Each of these is stated by the code or the README. *)

\* "only the group creator can remove other members" (group.py 100): the
\* account that removes somebody else is the creator when the row goes.
OnlyCreatorRemovesOthers ==
    [][\A r \in Request, u \in UserId, recipients \in SUBSET users :
          u # req[r].user /\ remove_member_endpoint(r, u, recipients) =>
              creator[req[r].group] = req[r].user]_vars

\* "the group itself is deleted if the user was the last member" (README,
\* DELETE /auth/me): an account that goes takes no group with it in which
\* others remain.
OnlyLastMemberTakesGroup ==
    [][\A g \in groups \ groups', u \in users \ users' : members[g] \subseteq {u}]_vars

=============================================================================
