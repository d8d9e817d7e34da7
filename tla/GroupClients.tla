---------------------------- MODULE GroupClients ----------------------------
(***************************************************************************)
(* GroupApi under clients that behave: the keys a request carries are for  *)
(* members the client saw in the group when it composed the request, and   *)
(* never for the client itself or the member the request removes.  The     *)
(* server checks none of this; the question is what clients that do as the *)
(* README says can rely on.                                                *)
(***************************************************************************)
EXTENDS GroupApi

VARIABLE view   \* the other members its sender saw when each request was composed

clientVars == <<vars, view>>

ClientInit == ApiInit /\ view = [r \in Request |-> {}]

\* The client has read the member list (GET /groups/{group_id}) of a group it
\* is in; then the request arrives.
compose(r) ==
    /\ get_current_user(r)
    /\ \E g \in groups :
          /\ req'[r].user \in members[g]
          /\ view' = [view EXCEPT ![r] = members[g] \ {req'[r].user}]

Keep(r) == UNCHANGED view
Drop(r) == view' = [view EXCEPT ![r] = {}]

ClientHandler(r) ==
    \/ create_group_endpoint(r) \/ delete_me(r) \/ add_member_endpoint(r) \/ pop_skdms(r)
    \/ \E u \in UserId : \E recipients \in SUBSET (view[r] \ {u}) :
          remove_member_endpoint(r, u, recipients)
    \/ \E recipients \in SUBSET view[r] : send_skdms(r, recipients)

ClientNext ==
    \/ register /\ UNCHANGED view
    \/ \E r \in Request :
          \/ compose(r)
          \/ get_current_user(r) /\ Keep(r)
          \/ (load_group(r) \/ check_member(r)) /\ Keep(r)
          \/ (ClientHandler(r) \/ reject(r)) /\ Drop(r)

ClientSpec == ClientInit /\ [][ClientNext]_clientVars

-----------------------------------------------------------------------------
\* "Current key is the one whose `epoch` is the highest. It won't be known to
\* the removed member." (README, GET /groups/{group_id}/skdm)
RemovedMemberLacksCurrentKey ==
    \A g \in groups, u \in users :
        u \notin members[g] /\ keyHeld[g][u] # NoKey => keyHeld[g][u] < epoch[g]
=============================================================================
