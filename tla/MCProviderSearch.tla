-------------------------- MODULE MCProviderSearch --------------------------
(***************************************************************************)
(* Searches on a small instance.  Searches are alike, and so are           *)
(* credentials.                                                            *)
(***************************************************************************)
EXTENDS ProviderSearch, TLC

CONSTANTS s1, s2, c1, c2

Alike == Permutations(Searches) \cup Permutations(Credentials)
=============================================================================
