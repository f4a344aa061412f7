----------------------------- MODULE MCSessions -----------------------------
(* Instance of Sessions for TLC.                                           *)
EXTENDS Sessions, TLC

\* Sessions, requests and operations are interchangeable.
Symmetry == Permutations(Tokens) \cup Permutations(Requests) \cup Permutations(Admins)
=============================================================================
