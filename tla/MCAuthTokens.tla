---------------------------- MODULE MCAuthTokens ----------------------------
(* Requests and names for checking AuthTokens with TLC. *)
EXTENDS AuthTokens, TLC

CONSTANTS r1, r2, alice

\* A request is known by nothing but its name.
RequestSymmetry == Permutations(Request)
=============================================================================
