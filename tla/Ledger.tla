------------------------------- MODULE Ledger -------------------------------
(***************************************************************************)
(* What the writebacks of mapi and the bookkeepers in QuickBooks owe the   *)
(* books together, without SyncTokens, requests or copies of an object: a  *)
(* change is made to one transaction, as a whole, on top of all that were  *)
(* made before, and at most once.                                          *)
(***************************************************************************)
CONSTANTS Txns, Changes

VARIABLE made   \* made[t]: the changes that t has

Init == made = [t \in Txns |-> {}]

Make(c, t) ==
  /\ \A x \in Txns : c \notin made[x]
  /\ made' = [made EXCEPT ![t] = @ \cup {c}]

Next == \E c \in Changes, t \in Txns : Make(c, t)

Spec == Init /\ [][Next]_made
=============================================================================
