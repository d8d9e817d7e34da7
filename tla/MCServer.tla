------------------------------ MODULE MCServer ------------------------------
(* Requests for checking Server with TLC. *)
EXTENDS Server

CONSTANTS r1, r2, r3
=============================================================================
