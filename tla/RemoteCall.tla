----------------------------- MODULE RemoteCall -----------------------------
(***************************************************************************)
(* What the bridge promises the rest of mapi, without sockets, timers or   *)
(* ids: a call is refused, or it is issued and then settles exactly once;  *)
(* the browser executes a call at most once, possibly after its caller was *)
(* told of a timeout (the bridge never retries); an answer is given only   *)
(* for an executed call.                                                   *)
(***************************************************************************)
EXTENDS Naturals

CONSTANT Commands

VARIABLES
  outcome,   \* outcome[c]: what became of the call
  executed   \* executed[c]: how often the browser began to execute it

vars == <<outcome, executed>>

Init ==
  /\ outcome = [c \in Commands |-> "idle"]
  /\ executed = [c \in Commands |-> 0]

Refuse(c) ==
  /\ outcome[c] = "idle"
  /\ \E why \in {"notConnected", "sendFailed"} : outcome' = [outcome EXCEPT ![c] = why]
  /\ UNCHANGED executed

Issue(c) ==
  /\ outcome[c] = "idle"
  /\ outcome' = [outcome EXCEPT ![c] = "waiting"]
  /\ UNCHANGED executed

Execute(c) ==
  /\ outcome[c] \in {"waiting", "timedOut"}
  /\ executed[c] = 0
  /\ executed' = [executed EXCEPT ![c] = 1]
  /\ UNCHANGED outcome

Answer(c) ==
  /\ outcome[c] = "waiting"
  /\ executed[c] > 0
  /\ outcome' = [outcome EXCEPT ![c] = "answered"]
  /\ UNCHANGED executed

Expire(c) ==
  /\ outcome[c] = "waiting"
  /\ outcome' = [outcome EXCEPT ![c] = "timedOut"]
  /\ UNCHANGED executed

Next == \E c \in Commands : Refuse(c) \/ Issue(c) \/ Execute(c) \/ Answer(c) \/ Expire(c)

Steps == Init /\ [][Next]_vars

\* Whoever waits is answered or told of the timeout.
Spec == Steps /\ \A c \in Commands : WF_vars(Answer(c) \/ Expire(c))
=============================================================================
