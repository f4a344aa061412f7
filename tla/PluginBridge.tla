---------------------------- MODULE PluginBridge ----------------------------
(***************************************************************************)
(* The WebSocket bridge of mapi (apps/mapi/src/modules/23-plugin-bridge):  *)
(* the gateway that authenticates the browser plugin's sockets, and        *)
(* BridgeCommandService, which sends commands over the socket of the last  *)
(* plugin that said hello and settles each caller's promise with the       *)
(* result, a timeout or an error.  The plugin's side (receive, dispatch,   *)
(* answer on the socket the command came by) is kiro's handleMessage.      *)
(*                                                                         *)
(* Every asynchronous boundary of the code is a boundary between actions:  *)
(* the verification of a hello takes time, so does a dispatch, messages    *)
(* travel, sockets close at any moment, timers race with answers.          *)
(***************************************************************************)
EXTENDS Naturals, FiniteSets

CONSTANTS
  Plugins,    \* sockets opened by a kiro that holds an operator's JWT
  Strangers,  \* sockets opened by a client that holds no valid JWT
  Commands,   \* calls of BridgeCommandService.send, one correlationId each
  NoSocket    \* the null of `transport'

Sockets == Plugins \cup Strangers

ASSUME SocketsAssumption == NoSocket \notin Sockets
ASSUME KindsAssumption == Plugins \cap Strangers = {}

VARIABLES
  sock,       \* sock[s]: the server's end of the socket
  hello,      \* hello[s]: progress of the asynchronous authenticate()
  transport,  \* the active transport, NoSocket when no plugin is present
  pending,    \* keys of the pending map
  timers,     \* armed setTimeout handles, by correlationId
  outcome,    \* outcome[c]: the promise that send(c) returned
  via,        \* via[c]: the socket that carried c, NoSocket if none did
  down,       \* down[s]: commands on their way to the plugin
  running,    \* running[s]: commands that kiro is dispatching
  up,         \* up[s]: results on their way to mapi
  executed    \* history, executed[c]: dispatches of c begun in the browser

vars == <<sock, hello, transport, pending, timers, outcome, via,
          down, running, up, executed>>
wires == <<down, running, up, executed>>
calls == <<pending, timers, outcome, via>>

SocketStates == {"unborn", "open", "closing", "closed"}
HelloStates == {"none", "verifying", "accepted", "refused"}
Settled == {"answered", "timedOut", "notConnected", "sendFailed"}
Outcomes == Settled \cup {"idle", "waiting"}

TypeOK ==
  /\ sock \in [Sockets -> SocketStates]
  /\ hello \in [Sockets -> HelloStates]
  /\ transport \in Sockets \cup {NoSocket}
  /\ pending \subseteq Commands
  /\ timers \subseteq Commands
  /\ outcome \in [Commands -> Outcomes]
  /\ via \in [Commands -> Sockets \cup {NoSocket}]
  /\ down \in [Sockets -> SUBSET Commands]
  /\ running \in [Sockets -> SUBSET Commands]
  /\ up \in [Sockets -> SUBSET Commands]
  /\ executed \in [Commands -> Nat]

Init ==
  /\ sock = [s \in Sockets |-> "unborn"]
  /\ hello = [s \in Sockets |-> "none"]
  /\ transport = NoSocket
  /\ pending = {}
  /\ timers = {}
  /\ outcome = [c \in Commands |-> "idle"]
  /\ via = [c \in Commands |-> NoSocket]
  /\ down = [s \in Sockets |-> {}]
  /\ running = [s \in Sockets |-> {}]
  /\ up = [s \in Sockets |-> {}]
  /\ executed = [c \in Commands |-> 0]

-----------------------------------------------------------------------------
(* Variants of the handlers with a plausible slip, for mutation testing.   *)

ClearConnectionAlways(s) == transport' = NoSocket
ResolveTimerLeft(c) ==
  IF c \in pending
    THEN /\ pending' = pending \ {c}
         /\ outcome' = [outcome EXCEPT ![c] = "answered"]
         /\ UNCHANGED timers
    ELSE UNCHANGED <<pending, timers, outcome>>
ResolveLateMarked(c) ==
  /\ pending' = pending \ {c}
  /\ timers' = timers \ {c}
  /\ outcome' = [outcome EXCEPT ![c] = IF c \in pending THEN "answered" ELSE "late"]
MayAnswerAnyone(s) == TRUE
ExecuteKeepsFrame(s, c) ==
  /\ c \in down[s]
  /\ running' = [running EXCEPT ![s] = @ \cup {c}]
  /\ executed' = [executed EXCEPT ![c] = @ + 1]
  /\ UNCHANGED <<sock, hello, transport, calls, down, up>>
HelloTrustedEarly(s) ==
  /\ hello[s] = "none"
  /\ sock[s] = "open"
  /\ hello' = [hello EXCEPT ![s] = "verifying"]
  /\ transport' = s
  /\ UNCHANGED <<sock, calls, wires>>

-----------------------------------------------------------------------------
(* BridgeCommandService.  These three are parts of the actions below.      *)

\* setConnection: the last plugin to authenticate wins.
SetConnection(s) == transport' = s

\* clearConnection: only the active transport's own close clears presence.
ClearConnection(s) == transport' = IF transport = s THEN NoSocket ELSE transport

\* The promise executor of send(): arm the timer, register the call.
Register(c) ==
  /\ pending' = pending \cup {c}
  /\ timers' = timers \cup {c}

\* resolveResult: an unknown id (orphan, or late after a timeout) is ignored.
ResolveResult(c) ==
  IF c \in pending
    THEN /\ pending' = pending \ {c}
         /\ timers' = timers \ {c}
         /\ outcome' = [outcome EXCEPT ![c] = "answered"]
    ELSE UNCHANGED <<pending, timers, outcome>>

\* The `authenticated' flag of a socket's message handler.
Authenticated(s) == hello[s] = "accepted"

-----------------------------------------------------------------------------
(* Socket life cycle and authentication: PluginBridgeGateway.              *)

\* handleConnection: a fresh socket is not presence yet.
Connect(s) ==
  /\ sock[s] = "unborn"
  /\ sock' = [sock EXCEPT ![s] = "open"]
  /\ UNCHANGED <<hello, transport, calls, wires>>

\* A hello arrives: authenticate() starts; nothing else changes until it ends.
Hello(s) ==
  /\ sock[s] = "open"
  /\ hello[s] = "none"
  /\ hello' = [hello EXCEPT ![s] = "verifying"]
  /\ UNCHANGED <<sock, transport, calls, wires>>

\* authenticate() resolved true.  The code does not look at the socket again:
\* it may have been closed meanwhile.
HelloAccepted(s) ==
  /\ hello[s] = "verifying"
  /\ s \in Plugins
  /\ hello' = [hello EXCEPT ![s] = "accepted"]
  /\ SetConnection(s)
  /\ UNCHANGED <<sock, calls, wires>>

\* authenticate() resolved false (bad JWT, or its session is revoked): close 4001.
HelloRefused(s) ==
  /\ hello[s] = "verifying"
  /\ hello' = [hello EXCEPT ![s] = "refused"]
  /\ sock' = [sock EXCEPT ![s] = IF @ = "open" THEN "closing" ELSE @]
  /\ UNCHANGED <<transport, calls, wires>>

\* The socket's close event, from either end: what was on the wire is lost,
\* what kiro is running goes on; pending promises are left to their timers.
Close(s) ==
  /\ sock[s] \in {"open", "closing"}
  /\ sock' = [sock EXCEPT ![s] = "closed"]
  /\ ClearConnection(s)
  /\ down' = [down EXCEPT ![s] = {}]
  /\ up' = [up EXCEPT ![s] = {}]
  /\ UNCHANGED <<hello, calls, running, executed>>

-----------------------------------------------------------------------------
(* Calls: BridgeCommandService.send and its timer.                         *)

\* No transport: the promise is rejected at once (BridgeNotConnectedError).
SendRefused(c) ==
  /\ outcome[c] = "idle"
  /\ transport = NoSocket
  /\ outcome' = [outcome EXCEPT ![c] = "notConnected"]
  /\ UNCHANGED <<sock, hello, transport, pending, timers, via, wires>>

\* Registered and written.  A socket that is no longer open drops the frame
\* without an error.
Send(c) ==
  /\ outcome[c] = "idle"
  /\ transport # NoSocket
  /\ Register(c)
  /\ outcome' = [outcome EXCEPT ![c] = "waiting"]
  /\ via' = [via EXCEPT ![c] = transport]
  /\ down' = IF sock[transport] = "open"
               THEN [down EXCEPT ![transport] = @ \cup {c}]
               ELSE down
  /\ UNCHANGED <<sock, hello, transport, running, up, executed>>

\* transport.send threw: timer cleared, entry deleted, promise rejected.
SendThrows(c) ==
  /\ outcome[c] = "idle"
  /\ transport # NoSocket
  /\ outcome' = [outcome EXCEPT ![c] = "sendFailed"]
  /\ UNCHANGED <<sock, hello, transport, pending, timers, via, wires>>

\* The timer of c fires: the entry is deleted and the promise rejected
\* (BridgeCommandTimeoutError).
Expire(c) ==
  /\ c \in timers
  /\ timers' = timers \ {c}
  /\ pending' = pending \ {c}
  /\ outcome' = [outcome EXCEPT ![c] = "timedOut"]
  /\ UNCHANGED <<sock, hello, transport, via, wires>>

-----------------------------------------------------------------------------
(* The plugin's end: BridgeClient.handleMessage of kiro.                   *)

\* A command reaches kiro, which starts its dispatch.
Execute(s, c) ==
  /\ c \in down[s]
  /\ down' = [down EXCEPT ![s] = @ \ {c}]
  /\ running' = [running EXCEPT ![s] = @ \cup {c}]
  /\ executed' = [executed EXCEPT ![c] = @ + 1]
  /\ UNCHANGED <<sock, hello, transport, calls, up>>

\* The dispatch ended: the result goes out by the socket of origin, and is
\* lost when that socket is gone (the exception is swallowed).
Answer(s, c) ==
  /\ c \in running[s]
  /\ running' = [running EXCEPT ![s] = @ \ {c}]
  /\ up' = IF sock[s] = "open" THEN [up EXCEPT ![s] = @ \cup {c}] ELSE up
  /\ UNCHANGED <<sock, hello, transport, calls, down, executed>>

\* A client without a valid JWT writes a result frame, for whatever id.
StrayResult(s, c) ==
  /\ s \in Strangers
  /\ sock[s] = "open"
  /\ up' = [up EXCEPT ![s] = @ \cup {c}]
  /\ UNCHANGED <<sock, hello, transport, calls, down, running, executed>>

\* A result frame arrives at the gateway: before authentication it closes the
\* socket (4002), afterwards it goes to resolveResult.
ReceiveResult(s, c) ==
  /\ c \in up[s]
  /\ up' = [up EXCEPT ![s] = @ \ {c}]
  /\ \/ /\ Authenticated(s)
        /\ ResolveResult(c)
        /\ UNCHANGED sock
     \/ /\ ~Authenticated(s)
        /\ sock' = [sock EXCEPT ![s] = "closing"]
        /\ UNCHANGED <<pending, timers, outcome>>
  /\ UNCHANGED <<hello, transport, via, down, running, executed>>

-----------------------------------------------------------------------------
SocketStep(s) ==
  \/ Connect(s) \/ Hello(s) \/ HelloAccepted(s) \/ HelloRefused(s) \/ Close(s)

CallStep(c) == SendRefused(c) \/ Send(c) \/ SendThrows(c) \/ Expire(c)

WireStep(s, c) ==
  Execute(s, c) \/ Answer(s, c) \/ StrayResult(s, c) \/ ReceiveResult(s, c)

Next ==
  \/ \E s \in Sockets : SocketStep(s)
  \/ \E c \in Commands : CallStep(c)
  \/ \E s \in Sockets, c \in Commands : WireStep(s, c)

Spec == Init /\ [][Next]_vars

\* setTimeout callbacks are run by the event loop: no other process is owed
\* anything (plugins, callers and networks may stop for ever).
Fairness == \A c \in Commands : WF_vars(Expire(c))
FairSpec == Spec /\ Fairness

-----------------------------------------------------------------------------
(* Properties.                                                             *)

\* The three records of a call agree: a caller waits exactly when its id is in
\* the pending map, and exactly when a timer is armed for it.  No path of send,
\* resolveResult or the timer leaks an entry, leaves a caller without a timer
\* or a timer behind a settled promise.
CallBookkeeping ==
  /\ pending = timers
  /\ \A c \in Commands : outcome[c] = "waiting" <=> c \in pending

\* A caller receives only the answer of a command that the browser really
\* began to execute: no client without a valid session can settle a call.
AnsweredWasExecuted ==
  \A c \in Commands : outcome[c] = "answered" => executed[c] > 0

\* Presence is only ever a socket whose hello was accepted, and commands, which
\* carry the portal's credentials, were only ever handed to such sockets.
OnlyAuthenticatedCarriers ==
  /\ transport # NoSocket => hello[transport] = "accepted"
  /\ \A c \in Commands : via[c] # NoSocket => hello[via[c]] = "accepted"

\* Presence is lost only by the close of the active socket itself: the late
\* close of an older socket does not disconnect the newer one.
PresenceLostOnlyByOwnClose ==
  [][transport # NoSocket /\ transport' = NoSocket => sock'[transport] = "closed"]_vars

\* What the rest of mapi may rely on, whatever happens to sockets, timers and
\* ids: each call settles once, is executed at most once, and is answered only
\* if it was executed.
Call == INSTANCE RemoteCall
          WITH Commands <- Commands, outcome <- outcome, executed <- executed
ImplementsRemoteCall == Call!Spec
=============================================================================
