--------------------------- MODULE MCDirectStorage ---------------------------
(* Model values for checking DirectStorage with TLC. *)
EXTENDS DirectStorage, TLC

CONSTANTS alice, bob, carol, c1, c2

\* Accounts and connections are used in no order.
StorageSymmetry == Permutations(Account) \cup Permutations(Connection)
=============================================================================
