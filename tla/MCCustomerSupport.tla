-------------------------- MODULE MCCustomerSupport --------------------------
(* Instance of CustomerSupport for TLC.                                    *)
EXTENDS CustomerSupport, TLC

\* Transactions, requests and syncs are interchangeable.
Symmetry == Permutations(Txns) \cup Permutations(Requests) \cup Permutations(Syncs)
==============================================================================
