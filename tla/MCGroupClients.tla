--------------------------- MODULE MCGroupClients ---------------------------
(* Requests for checking GroupClients with TLC. *)
EXTENDS GroupClients, TLC

CONSTANTS r1, r2, r3

\* A request is known by nothing but its name.
RequestSymmetry == Permutations(Request)
=============================================================================
