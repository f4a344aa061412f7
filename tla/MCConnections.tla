---------------------------- MODULE MCConnections ----------------------------
(* Instance of Connections for TLC.                                        *)
EXTENDS Connections, TLC

\* Clients are alike, and so are companies and requests.
Symmetry == Permutations(Clients) \cup Permutations(Realms) \cup Permutations(Requests)
==============================================================================
