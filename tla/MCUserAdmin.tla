---------------------------- MODULE MCUserAdmin ----------------------------
(***************************************************************************)
(* UserAdmin on small instances.                                           *)
(***************************************************************************)
EXTENDS UserAdmin, TLC

Symmetry == Permutations(Users) \cup Permutations(Requests) \cup Permutations(Commands)
=============================================================================
