----------------------------- MODULE MCGroupApi -----------------------------
(* Requests for checking GroupApi with TLC. *)
EXTENDS GroupApi, TLC

CONSTANTS r1, r2

\* A request is known by nothing but its name.
RequestSymmetry == Permutations(Request)
=============================================================================
