---------------------------- MODULE MCIntuitTokens ----------------------------
(* Instance of IntuitTokens for TLC.                                       *)
EXTENDS IntuitTokens, TLC

\* Clients are alike, and so are companies.
Symmetry == Permutations(Clients) \cup Permutations(Realms)
==============================================================================
