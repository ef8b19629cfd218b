--------------------------- MODULE MCUserAccounts ---------------------------
(***************************************************************************)
(* UserAccounts for TLC.                                                   *)
(***************************************************************************)
EXTENDS UserAccounts, TLC

\* The server's slots are interchangeable.
SlotSymmetry == Permutations(ApiRequest)
=============================================================================
