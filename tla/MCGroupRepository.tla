-------------------------- MODULE MCGroupRepository --------------------------
(* Bounds for checking GroupRepository with TLC. *)
EXTENDS GroupRepository
=============================================================================
