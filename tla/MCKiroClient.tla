---------------------------- MODULE MCKiroClient ----------------------------
(* Instance of KiroClient for TLC.                                         *)
EXTENDS KiroClient, TLC

\* Instances, sockets, runs and JWTs are interchangeable.
Symmetry == Permutations(Clients) \cup Permutations(Socks)
              \cup Permutations(Calls) \cup Permutations(Tokens)
=============================================================================
