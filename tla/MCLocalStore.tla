---------------------------- MODULE MCLocalStore ----------------------------
(* Small instances of LocalStore for TLC.                                   *)
EXTENDS LocalStore, TLC

Symmetry == Permutations(Users) \cup Permutations(Votes) \cup Permutations(Choices)
=============================================================================
