------------------------- MODULE PluginBridge_proof -------------------------
(***************************************************************************)
(* What PluginBridge guarantees for any number of sockets and commands.    *)
(*                                                                         *)
(* The inductive invariant IInv adds to the properties what makes a frame  *)
(* trustworthy: only a plugin is ever accepted, whatever a plugin runs or  *)
(* sends back was executed, and what travels to a plugin was issued on     *)
(* that socket and not executed before.                                    *)
(***************************************************************************)
EXTENDS PluginBridge, TLAPS

\* Only holders of a valid JWT are accepted by authenticate().
AcceptedArePlugins == \A s \in Sockets : hello[s] = "accepted" => s \in Plugins

\* kiro sends back only what it executed.
PluginsAreHonest ==
  /\ \A s \in Sockets : \A c \in running[s] : executed[c] > 0
  /\ \A s \in Plugins : \A c \in up[s] : executed[c] > 0

\* A command on its way was issued by send(), on that socket and on no other,
\* and waits for its first execution; before it is issued nothing executes it.
DownWasIssued ==
  /\ \A s \in Sockets : \A c \in down[s] :
       outcome[c] \in {"waiting", "timedOut"} /\ via[c] = s /\ executed[c] = 0
  /\ \A c \in Commands : outcome[c] = "idle" => executed[c] = 0

IInv ==
  /\ TypeOK
  /\ CallBookkeeping
  /\ OnlyAuthenticatedCarriers
  /\ AcceptedArePlugins
  /\ PluginsAreHonest
  /\ DownWasIssued
  /\ AnsweredWasExecuted

-----------------------------------------------------------------------------
(* Type correctness.                                                       *)

LEMMA TypeInit == Init => TypeOK
BY DEF Init, TypeOK, SocketStates, HelloStates, Outcomes, Settled

LEMMA TypeSocketStep ==
  ASSUME TypeOK, NEW s \in Sockets, SocketStep(s)
  PROVE  TypeOK'
<1> USE DEF TypeOK, SocketStates, HelloStates, wires, calls
<1>1. CASE Connect(s)
  BY <1>1 DEF Connect
<1>2. CASE Hello(s)
  BY <1>2 DEF Hello
<1>3. CASE HelloAccepted(s)
  BY <1>3 DEF HelloAccepted, SetConnection
<1>4. CASE HelloRefused(s)
  BY <1>4 DEF HelloRefused
<1>5. CASE Close(s)
  BY <1>5 DEF Close, ClearConnection
<1> QED
  BY <1>1, <1>2, <1>3, <1>4, <1>5 DEF SocketStep

LEMMA TypeCallStep ==
  ASSUME TypeOK, NEW c \in Commands, CallStep(c)
  PROVE  TypeOK'
<1> USE DEF TypeOK, Outcomes, Settled, wires
<1>1. CASE SendRefused(c)
  BY <1>1 DEF SendRefused
<1>2. CASE Send(c)
  BY <1>2 DEF Send, Register
<1>3. CASE SendThrows(c)
  BY <1>3 DEF SendThrows
<1>4. CASE Expire(c)
  BY <1>4 DEF Expire
<1> QED
  BY <1>1, <1>2, <1>3, <1>4 DEF CallStep

LEMMA TypeWireStep ==
  ASSUME TypeOK, NEW s \in Sockets, NEW c \in Commands, WireStep(s, c)
  PROVE  TypeOK'
<1> USE DEF TypeOK, SocketStates, Outcomes, Settled, calls
<1>1. CASE Execute(s, c)
  BY <1>1 DEF Execute
<1>2. CASE Answer(s, c)
  BY <1>2 DEF Answer
<1>3. CASE StrayResult(s, c)
  BY <1>3 DEF StrayResult
<1>4. CASE ReceiveResult(s, c)
  BY <1>4 DEF ReceiveResult, ResolveResult
<1> QED
  BY <1>1, <1>2, <1>3, <1>4 DEF WireStep

LEMMA TypeStep == TypeOK /\ [Next]_vars => TypeOK'
<1> SUFFICES ASSUME TypeOK, [Next]_vars
             PROVE  TypeOK'
  OBVIOUS
<1>1. CASE UNCHANGED vars
  BY <1>1 DEF vars, TypeOK
<1> QED
  BY <1>1, TypeSocketStep, TypeCallStep, TypeWireStep DEF Next

\* Every reachable state of the bridge is well formed.
THEOREM TypeCorrect == Spec => []TypeOK
BY TypeInit, TypeStep, PTL DEF Spec

-----------------------------------------------------------------------------
(* The inductive invariant.                                                *)

LEMMA InvInit == Init => IInv
<1> SUFFICES ASSUME Init
             PROVE  IInv
  OBVIOUS
<1>1. TypeOK
  BY TypeInit
<1>2. CallBookkeeping /\ DownWasIssued /\ AnsweredWasExecuted
  BY DEF Init, CallBookkeeping, DownWasIssued, AnsweredWasExecuted
<1>3. OnlyAuthenticatedCarriers /\ AcceptedArePlugins
  BY DEF Init, OnlyAuthenticatedCarriers, AcceptedArePlugins
<1>4. PluginsAreHonest
  BY DEF Init, PluginsAreHonest, Sockets
<1> QED
  BY <1>1, <1>2, <1>3, <1>4 DEF IInv

\* Life cycle and authentication: calls are not touched, frames only get lost,
\* and whoever becomes accepted is a plugin.
LEMMA InvSocketStep ==
  ASSUME IInv, NEW s \in Sockets, SocketStep(s)
  PROVE  IInv'
<1>1. TypeOK /\ TypeOK'
  BY TypeSocketStep DEF IInv
<1>2. CallBookkeeping' /\ AnsweredWasExecuted'
  <2>1. UNCHANGED <<calls, executed>>
    BY DEF SocketStep, Connect, Hello, HelloAccepted, HelloRefused, Close, wires, calls
  <2> QED
    BY <2>1 DEF IInv, CallBookkeeping, AnsweredWasExecuted, calls
<1>3. \A r \in Sockets :
        hello'[r] = "accepted" <=> (hello[r] = "accepted" \/ (r = s /\ HelloAccepted(s)))
  BY <1>1 DEF SocketStep, Connect, Hello, HelloAccepted, HelloRefused, Close, TypeOK
<1>4. AcceptedArePlugins'
  BY <1>3 DEF IInv, AcceptedArePlugins, HelloAccepted
<1>5. OnlyAuthenticatedCarriers'
  <2>1. via' = via /\ via \in [Commands -> Sockets \cup {NoSocket}]
    BY <1>1 DEF SocketStep, Connect, Hello, HelloAccepted, HelloRefused, Close, calls, TypeOK
  <2>2. transport' \in {transport, NoSocket} \/ (HelloAccepted(s) /\ transport' = s)
    BY DEF SocketStep, Connect, Hello, HelloAccepted, HelloRefused, Close,
           SetConnection, ClearConnection
  <2> QED
    BY <1>1, <1>3, <2>1, <2>2 DEF IInv, OnlyAuthenticatedCarriers, TypeOK
<1>6. PluginsAreHonest' /\ DownWasIssued'
  <2>1. /\ UNCHANGED <<running, executed, outcome, via>>
        /\ \A r \in Sockets : up'[r] \subseteq up[r] /\ down'[r] \subseteq down[r]
    BY <1>1 DEF SocketStep, Connect, Hello, HelloAccepted, HelloRefused, Close, wires, calls, TypeOK
  <2> QED
    BY <2>1 DEF IInv, PluginsAreHonest, DownWasIssued, Sockets
<1> QED
  BY <1>1, <1>2, <1>4, <1>5, <1>6 DEF IInv

\* send() and the timer: the three records of a call move together.
LEMMA InvCallStep ==
  ASSUME IInv, NEW c \in Commands, CallStep(c)
  PROVE  IInv'
<1>1. TypeOK /\ TypeOK'
  BY TypeCallStep DEF IInv
<1>2. UNCHANGED <<hello, transport, running, up, executed>>
  BY DEF CallStep, SendRefused, Send, SendThrows, Expire, wires
<1>3. CallBookkeeping'
  BY <1>1 DEF CallStep, SendRefused, Send, SendThrows, Expire, Register, IInv,
              CallBookkeeping, TypeOK
<1>4. OnlyAuthenticatedCarriers'
  BY <1>1, <1>2 DEF CallStep, SendRefused, Send, SendThrows, Expire, IInv,
                    OnlyAuthenticatedCarriers, TypeOK
<1>5. AcceptedArePlugins' /\ PluginsAreHonest'
  BY <1>2 DEF IInv, AcceptedArePlugins, PluginsAreHonest
<1>6. DownWasIssued'
  <2>1. /\ outcome' = [outcome EXCEPT ![c] = outcome'[c]]
        /\ outcome[c] \in {"idle", "waiting"}
        /\ outcome[c] = "waiting" => outcome'[c] = "timedOut"
    BY <1>1 DEF CallStep, SendRefused, Send, SendThrows, Expire, IInv, CallBookkeeping, TypeOK
  <2>2. \A s \in Sockets : \A d \in down'[s] : d \in down[s] \/ (d = c /\ Send(c) /\ s = transport)
    BY <1>1 DEF CallStep, SendRefused, Send, SendThrows, Expire, TypeOK, wires
  <2>3. via' = [via EXCEPT ![c] = via'[c]] /\ (outcome[c] = "waiting" => via'[c] = via[c])
    BY <1>1, <2>1 DEF CallStep, SendRefused, Send, SendThrows, Expire, TypeOK
  <2>4. Send(c) => outcome'[c] = "waiting" /\ via'[c] = transport /\ outcome[c] = "idle"
    BY <1>1 DEF Send, TypeOK
  <2> QED
    BY <1>1, <1>2, <2>1, <2>2, <2>3, <2>4 DEF IInv, DownWasIssued, TypeOK
<1>7. AnsweredWasExecuted'
  BY <1>1, <1>2 DEF CallStep, SendRefused, Send, SendThrows, Expire, IInv,
                    AnsweredWasExecuted, TypeOK
<1> QED
  BY <1>1, <1>3, <1>4, <1>5, <1>6, <1>7 DEF IInv

\* Frames: only a result of an accepted socket, hence of a plugin, hence of an
\* executed command, settles a call.
LEMMA InvWireStep ==
  ASSUME IInv, NEW s \in Sockets, NEW c \in Commands, WireStep(s, c)
  PROVE  IInv'
<1>1. TypeOK /\ TypeOK'
  BY TypeWireStep DEF IInv
<1>2. UNCHANGED <<hello, transport, via>>
  BY DEF WireStep, Execute, Answer, StrayResult, ReceiveResult, calls
<1>3. OnlyAuthenticatedCarriers' /\ AcceptedArePlugins'
  BY <1>2 DEF IInv, OnlyAuthenticatedCarriers, AcceptedArePlugins
<1>4. PluginsAreHonest'
  BY <1>1, KindsAssumption DEF WireStep, Execute, Answer, StrayResult, ReceiveResult, IInv,
              PluginsAreHonest, TypeOK, Sockets
<1>5. \/ UNCHANGED <<pending, timers, outcome>>
      \/ /\ c \in pending
         /\ executed[c] > 0 /\ executed' = executed
         /\ pending' = pending \ {c} /\ timers' = timers \ {c}
         /\ outcome' = [outcome EXCEPT ![c] = "answered"]
  BY DEF WireStep, Execute, Answer, StrayResult, ReceiveResult, ResolveResult,
         Authenticated, calls, IInv, AcceptedArePlugins, PluginsAreHonest
<1>6. /\ \A r \in Sockets : down'[r] \subseteq down[r]
      /\ \A d \in Commands : executed'[d] >= executed[d]
      /\ \A d \in Commands : executed'[d] # executed[d] => Execute(s, c) /\ d = c
  BY <1>1 DEF WireStep, Execute, Answer, StrayResult, ReceiveResult, TypeOK
<1>7. CallBookkeeping'
  BY <1>1, <1>5 DEF IInv, CallBookkeeping, TypeOK
<1>8. DownWasIssued'
  <2>1. ASSUME NEW r \in Sockets, NEW d \in down'[r]
        PROVE  outcome'[d] \in {"waiting", "timedOut"} /\ via'[d] = r /\ executed'[d] = 0
    <3>1. /\ d \in Commands /\ d \in down[r]
          /\ outcome[d] \in {"waiting", "timedOut"} /\ via[d] = r /\ executed[d] = 0
      BY <1>1, <1>6, <2>1 DEF IInv, DownWasIssued, TypeOK
    <3>2. executed'[d] = 0
      <4>1. CASE Execute(s, c) /\ d = c
        BY <1>1, <2>1, <3>1, <4>1 DEF Execute, IInv, DownWasIssued, TypeOK
      <4> QED
        BY <1>6, <3>1, <4>1
    <3>3. outcome'[d] = outcome[d]
      BY <1>1, <1>5, <3>1 DEF TypeOK
    <3> QED
      BY <1>2, <3>1, <3>2, <3>3
  <2>2. ASSUME NEW d \in Commands, outcome'[d] = "idle"
        PROVE  executed'[d] = 0
    <3>1. outcome[d] = "idle" /\ executed[d] = 0
      BY <1>1, <1>5, <2>2 DEF IInv, DownWasIssued, TypeOK
    <3>2. ~(Execute(s, c) /\ d = c)
      BY <3>1 DEF Execute, IInv, DownWasIssued
    <3> QED
      BY <1>6, <3>1, <3>2
  <2> QED
    BY <2>1, <2>2 DEF DownWasIssued
<1>9. AnsweredWasExecuted'
  BY <1>1, <1>5, <1>6 DEF IInv, AnsweredWasExecuted, TypeOK
<1> QED
  BY <1>1, <1>3, <1>4, <1>7, <1>8, <1>9 DEF IInv

LEMMA InvStep == IInv /\ [Next]_vars => IInv'
<1> SUFFICES ASSUME IInv, [Next]_vars
             PROVE  IInv'
  OBVIOUS
<1>1. CASE UNCHANGED vars
  BY <1>1 DEF vars, IInv, TypeOK, CallBookkeeping, OnlyAuthenticatedCarriers,
              AcceptedArePlugins, PluginsAreHonest, DownWasIssued, AnsweredWasExecuted
<1> QED
  BY <1>1, InvSocketStep, InvCallStep, InvWireStep DEF Next

LEMMA Invariance == Spec => []IInv
BY InvInit, InvStep, PTL DEF Spec

-----------------------------------------------------------------------------
(* The safety properties.                                                  *)

\* A caller waits exactly when its id is pending and its timer is armed.
THEOREM Bookkeeping == Spec => []CallBookkeeping
<1>1. IInv => CallBookkeeping
  BY DEF IInv
<1> QED
  BY <1>1, Invariance, PTL

\* An answer is that of a command that the browser began to execute.
THEOREM NoForgedAnswer == Spec => []AnsweredWasExecuted
<1>1. IInv => AnsweredWasExecuted
  BY DEF IInv
<1> QED
  BY <1>1, Invariance, PTL

\* Commands were only handed to sockets whose hello was accepted.
THEOREM Carriers == Spec => []OnlyAuthenticatedCarriers
<1>1. IInv => OnlyAuthenticatedCarriers
  BY DEF IInv
<1> QED
  BY <1>1, Invariance, PTL

-----------------------------------------------------------------------------
(* The action property.                                                    *)

\* Only the active socket's own close event clears presence.
THEOREM PresenceKept == Spec => PresenceLostOnlyByOwnClose
<1> DEFINE Kept == transport # NoSocket /\ transport' = NoSocket => sock'[transport] = "closed"
<1>1. ASSUME TypeOK, [Next]_vars
      PROVE  [Kept]_vars
  <2>1. ASSUME NEW s \in Sockets, SocketStep(s)
        PROVE  Kept
    BY <1>1, <2>1, SocketsAssumption
       DEF SocketStep, Connect, Hello, HelloAccepted, HelloRefused, Close, SetConnection,
           ClearConnection, TypeOK
  <2>2. ASSUME NEW c \in Commands, CallStep(c)
        PROVE  Kept
    BY <2>2 DEF CallStep, SendRefused, Send, SendThrows, Expire
  <2>3. ASSUME NEW s \in Sockets, NEW c \in Commands, WireStep(s, c)
        PROVE  Kept
    BY <2>3 DEF WireStep, Execute, Answer, StrayResult, ReceiveResult
  <2> QED
    BY <1>1, <2>1, <2>2, <2>3 DEF Next
<1> QED
  BY <1>1, TypeCorrect, PTL DEF Spec, PresenceLostOnlyByOwnClose

-----------------------------------------------------------------------------
(* The bridge implements the abstract remote call.                         *)

LEMMA CallInit == Init => Call!Init
BY DEF Init, Call!Init

\* A step of send or of the timer refuses, issues or expires the call.
LEMMA CallStepImplements ==
  ASSUME IInv, NEW c \in Commands, CallStep(c)
  PROVE  Call!Next
<1>1. UNCHANGED executed
  BY DEF CallStep, SendRefused, Send, SendThrows, Expire, wires
<1>2. CASE SendRefused(c) \/ SendThrows(c)
  <2>1. Call!Refuse(c)
    BY <1>1, <1>2 DEF SendRefused, SendThrows, Call!Refuse
  <2> QED
    BY <2>1 DEF Call!Next
<1>3. CASE Send(c)
  <2>1. Call!Issue(c)
    BY <1>1, <1>3 DEF Send, Call!Issue
  <2> QED
    BY <2>1 DEF Call!Next
<1>4. CASE Expire(c)
  <2>1. Call!Expire(c)
    BY <1>1, <1>4 DEF Expire, IInv, CallBookkeeping, Call!Expire
  <2> QED
    BY <2>1 DEF Call!Next
<1> QED
  BY <1>2, <1>3, <1>4 DEF CallStep

\* A frame that arrives executes the call, answers it, or means nothing.
LEMMA WireStepImplements ==
  ASSUME IInv, NEW s \in Sockets, NEW c \in Commands, WireStep(s, c)
  PROVE  Call!Next \/ UNCHANGED Call!vars
<1>1. CASE Execute(s, c)
  <2>1. executed[c] = 0 /\ outcome[c] \in {"waiting", "timedOut"}
    BY <1>1 DEF Execute, IInv, DownWasIssued
  <2>2. UNCHANGED outcome /\ executed' = [executed EXCEPT ![c] = 1]
    BY <1>1, <2>1 DEF Execute, calls
  <2>3. Call!Execute(c)
    BY <2>1, <2>2 DEF Call!Execute
  <2> QED
    BY <2>3 DEF Call!Next
<1>2. CASE Answer(s, c) \/ StrayResult(s, c)
  BY <1>2 DEF Answer, StrayResult, calls, Call!vars
<1>3. CASE ReceiveResult(s, c)
  <2>1. UNCHANGED executed
    BY <1>3 DEF ReceiveResult
  <2>2. CASE Authenticated(s) /\ c \in pending
    <3>1. outcome[c] = "waiting" /\ executed[c] > 0
      BY <1>3, <2>2 DEF ReceiveResult, Authenticated, IInv, CallBookkeeping,
                        AcceptedArePlugins, PluginsAreHonest
    <3>2. Call!Answer(c)
      BY <1>3, <2>1, <2>2, <3>1 DEF ReceiveResult, ResolveResult, Call!Answer
    <3> QED
      BY <3>2 DEF Call!Next
  <2>3. CASE ~(Authenticated(s) /\ c \in pending)
    BY <1>3, <2>1, <2>3 DEF ReceiveResult, ResolveResult, Call!vars
  <2> QED
    BY <2>2, <2>3
<1> QED
  BY <1>1, <1>2, <1>3 DEF WireStep

\* Every step of the bridge is a step of RemoteCall or leaves it alone: a call
\* settles once, runs at most once and is answered only if it ran.  (That it
\* settles at all needs fairness and is left to the model checker.)
THEOREM Refinement == Spec => Call!Steps
<1>1. ASSUME IInv, [Next]_vars
      PROVE  [Call!Next]_Call!vars
  <2>1. ASSUME NEW s \in Sockets, SocketStep(s)
        PROVE  UNCHANGED Call!vars
    BY <2>1 DEF SocketStep, Connect, Hello, HelloAccepted, HelloRefused, Close, calls, wires,
                Call!vars
  <2>2. CASE UNCHANGED vars
    BY <2>2 DEF vars, Call!vars
  <2> QED
    BY <1>1, <2>1, <2>2, CallStepImplements, WireStepImplements DEF Next
<1> QED
  BY <1>1, CallInit, Invariance, PTL DEF Spec, Call!Steps

-----------------------------------------------------------------------------
(* What a caller may conclude, drawn from RemoteCall alone.                *)

\* The browser executes a command at most once, and never one whose caller was told
\* that it was not sent: such a call may be made again.
RefusedNeverRan ==
  \A c \in Commands :
    /\ executed[c] \in {0, 1}
    /\ outcome[c] \in {"idle", "notConnected", "sendFailed"} => executed[c] = 0

\* Lost frames, late results, closing sockets and timers notwithstanding, an error of
\* `send` other than the timeout means that nothing was done in the bank portal.
THEOREM SafeToRetry == Spec => []RefusedNeverRan
<1>1. ASSUME TypeOK, RefusedNeverRan, Call!Next
      PROVE  RefusedNeverRan'
  <2>1. PICK c \in Commands :
          Call!Refuse(c) \/ Call!Issue(c) \/ Call!Execute(c) \/ Call!Answer(c) \/ Call!Expire(c)
    BY <1>1 DEF Call!Next
  <2>2. \A d \in Commands \ {c} : outcome'[d] = outcome[d] /\ executed'[d] = executed[d]
    BY <1>1, <2>1 DEF Call!Refuse, Call!Issue, Call!Execute, Call!Answer, Call!Expire, TypeOK
  <2>3. /\ executed'[c] \in {0, 1}
        /\ outcome'[c] \in {"idle", "notConnected", "sendFailed"} => executed'[c] = 0
    <3>1. executed[c] \in {0, 1} /\ (outcome[c] = "idle" => executed[c] = 0)
      BY <1>1 DEF RefusedNeverRan
    <3>2. CASE Call!Refuse(c)
      BY <1>1, <3>1, <3>2 DEF Call!Refuse, TypeOK
    <3>3. CASE Call!Issue(c) \/ Call!Answer(c) \/ Call!Expire(c)
      BY <1>1, <3>1, <3>3 DEF Call!Issue, Call!Answer, Call!Expire, TypeOK
    <3>4. CASE Call!Execute(c)
      BY <1>1, <3>1, <3>4 DEF Call!Execute, TypeOK
    <3> QED
      BY <2>1, <3>2, <3>3, <3>4
  <2> QED
    BY <1>1, <2>2, <2>3 DEF RefusedNeverRan
<1>2. RefusedNeverRan /\ UNCHANGED Call!vars => RefusedNeverRan'
  BY DEF Call!vars, RefusedNeverRan
<1>3. Call!Init => RefusedNeverRan
  BY DEF Call!Init, RefusedNeverRan
<1> QED
  BY <1>1, <1>2, <1>3, Refinement, TypeCorrect, PTL DEF Call!Steps

=============================================================================
