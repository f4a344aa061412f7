----------------------------- MODULE KiroClient -----------------------------
(***************************************************************************)
(* The connection keeping of the Chrome extension kiro: background.ts (the *)
(* MV3 service worker, which keeps one BridgeClient in a global and reacts *)
(* to the keepalive alarm and to the popup), bridge-client.ts (the sockets *)
(* of one BridgeClient and its reconnect timers) and the popup's login,    *)
(* logout and reconnect buttons.                                           *)
(*                                                                         *)
(* Abandoned BridgeClient instances are kept in the model for as long as a *)
(* socket or a timer of theirs is alive, because the code keeps them so.   *)
(* Delays are abstracted: a timer, a storage read or a close handshake     *)
(* takes any time.  Backoff therefore only shows as a pending timer.       *)
(***************************************************************************)
EXTENDS Naturals, Sequences

CONSTANTS
  Tokens,     \* JWTs the operator may obtain by logging in
  NoToken,    \* empty storage: nobody is logged in
  Clients,    \* BridgeClient instances that may be alive at once (bound)
  NoClient,   \* the null of the global `client'
  Socks,      \* WebSocket objects that may be alive at once (bound)
  NoSock,     \* the null of this.ws
  Calls,      \* concurrent runs of startOrReconnectBridge (bound)
  MaxTimers,  \* pending reconnect timers counted per client (bound)
  MaxClicks   \* clicks of the operator in the popup (bound)

ASSUME NullsAssumption ==
  NoToken \notin Tokens /\ NoClient \notin Clients /\ NoSock \notin Socks
ASSUME BoundsAssumption == MaxTimers \in Nat \ {0} /\ MaxClicks \in Nat

VARIABLES
  stored,      \* the JWT in chrome.storage.local
  mail,        \* messages of the popup on their way to the service worker
  clicks,      \* clicks spent
  awake,       \* is the service worker running
  client,      \* the global of background.ts
  token,       \* token[i]: config.token given to the instance
  closedByUs,  \* closedByUs[i]
  ws,          \* ws[i]: this.ws
  timers,      \* timers[i]: scheduled reconnects (nothing cancels them)
  sock,        \* sock[s]: readyState of a WebSocket object
  owner,       \* owner[s]: the instance whose handlers are wired to it
  call,        \* call[k]: where a run of startOrReconnectBridge is
  got          \* got[k]: the config it read

popup == <<stored, mail, clicks>>
instances == <<token, closedByUs, ws, timers>>
sockets == <<sock, owner>>
runs == <<call, got>>
vars == <<popup, awake, client, instances, sockets, runs>>

Live == {"connecting", "open"}
SockStates == Live \cup {"free", "closing", "leaving"}

TypeOK ==
  /\ stored \in Tokens \cup {NoToken}
  /\ mail \in Seq({"reconnect", "logout"})
  /\ clicks \in 0 .. MaxClicks
  /\ awake \in BOOLEAN
  /\ client \in Clients \cup {NoClient}
  /\ token \in [Clients -> Tokens \cup {NoToken}]
  /\ closedByUs \in [Clients -> BOOLEAN]
  /\ ws \in [Clients -> Socks \cup {NoSock}]
  /\ timers \in [Clients -> 0 .. MaxTimers]
  /\ sock \in [Socks -> SockStates]
  /\ owner \in [Socks -> Clients \cup {NoClient}]
  /\ call \in [Calls -> {"idle", "reading", "read"}]
  /\ got \in [Calls -> Tokens \cup {NoToken}]

Init ==
  /\ stored = NoToken
  /\ mail = <<>>
  /\ clicks = 0
  /\ awake = FALSE
  /\ client = NoClient
  /\ token = [i \in Clients |-> NoToken]
  /\ closedByUs = [i \in Clients |-> FALSE]
  /\ ws = [i \in Clients |-> NoSock]
  /\ timers = [i \in Clients |-> 0]
  /\ sock = [s \in Socks |-> "free"]
  /\ owner = [s \in Socks |-> NoClient]
  /\ call = [k \in Calls |-> "idle"]
  /\ got = [k \in Calls |-> NoToken]

-----------------------------------------------------------------------------
(* Variants with a plausible slip, for mutation testing.                   *)

NoLiveSocketSeen(i) == FALSE
ReadyStateKept(state) == IF state \in Live THEN "closed" ELSE state

-----------------------------------------------------------------------------
(* BridgeClient: one instance i.                                           *)

HasLiveSocket(i) == ws[i] # NoSock /\ sock[ws[i]] \in Live

\* readyState after close(): a socket already closing stays as it is.
AfterClose(state) == IF state \in Live THEN "closing" ELSE state

\* connect(): a no-op beside a CONNECTING or OPEN this.ws; otherwise this.ws is
\* closed defensively and replaced.  The old socket keeps its handlers.
Connect(i) ==
  /\ closedByUs' = [closedByUs EXCEPT ![i] = FALSE]
  /\ \/ HasLiveSocket(i) /\ UNCHANGED <<ws, sockets>>
     \/ /\ ~HasLiveSocket(i)
        /\ \E new \in Socks :
             /\ sock[new] = "free"
             /\ sock' = [s \in Socks |-> IF s = new THEN "connecting"
                                        ELSE IF s = ws[i] THEN AfterClose(sock[s])
                                        ELSE sock[s]]
             /\ owner' = [owner EXCEPT ![new] = i]
             /\ ws' = [ws EXCEPT ![i] = new]

\* disconnect(): closes this.ws and forgets it; a scheduled reconnect stays.
Disconnect(i) ==
  /\ closedByUs' = [closedByUs EXCEPT ![i] = TRUE]
  /\ sock' = [s \in Socks |-> IF s = ws[i] THEN AfterClose(sock[s]) ELSE sock[s]]
  /\ ws' = [ws EXCEPT ![i] = NoSock]

\* onclose: whichever socket of the instance closed, this.ws is forgotten; a
\* reconnect is scheduled unless the client was closed by us.
OnClose(s) ==
  LET i == owner[s] IN
  /\ sock' = [sock EXCEPT ![s] = "free"]
  /\ owner' = [owner EXCEPT ![s] = NoClient]
  /\ ws' = [ws EXCEPT ![i] = NoSock]
  /\ timers' = IF closedByUs[i] \/ timers[i] = MaxTimers
                 THEN timers
                 ELSE [timers EXCEPT ![i] = @ + 1]

\* new WebSocket -> OPEN: onopen writes the hello.
SocketOpens(s) ==
  /\ sock[s] = "connecting"
  /\ sock' = [sock EXCEPT ![s] = "open"]
  /\ UNCHANGED <<popup, awake, client, instances, owner, runs>>

\* The peer starts a close handshake (4001, 4002, a restart of mapi).
PeerCloses(s) ==
  /\ sock[s] = "open"
  /\ sock' = [sock EXCEPT ![s] = "leaving"]
  /\ UNCHANGED <<popup, awake, client, instances, owner, runs>>

\* The close event: a handshake ended, or an attempt or a connection broke.
SocketCloses(s) ==
  /\ sock[s] # "free"
  /\ OnClose(s)
  /\ UNCHANGED <<popup, awake, client, token, closedByUs, runs>>

\* A scheduled reconnect fires: connect() of the instance that scheduled it,
\* which need not be the current one any more.
ReconnectFires(i) ==
  /\ timers[i] > 0
  /\ timers' = [timers EXCEPT ![i] = @ - 1]
  /\ Connect(i)
  /\ UNCHANGED <<popup, awake, client, token, runs>>

-----------------------------------------------------------------------------
(* background.ts.                                                          *)

\* Nothing of instance i is alive: it can be a `new BridgeClient'.
Unused(i) ==
  /\ i # client
  /\ timers[i] = 0
  /\ \A s \in Socks : owner[s] # i

\* startOrReconnectBridge starts: readBridgeConfig is awaited.
Start(k) ==
  /\ call[k] = "idle"
  /\ call' = [call EXCEPT ![k] = "reading"]
  /\ UNCHANGED got

\* The storage answers with what it holds at that moment.
ConfigRead(k) ==
  /\ call[k] = "reading"
  /\ call' = [call EXCEPT ![k] = "read"]
  /\ got' = [got EXCEPT ![k] = stored]
  /\ UNCHANGED <<popup, awake, client, instances, sockets>>

\* Variants of Resume with a plausible slip, for mutation testing: the JWT that
\* was read is not looked at; a missing JWT only stops the run; a client
\* is never created.
ResumeTokenUnchecked(k) ==
  /\ call[k] = "read"
  /\ call' = [call EXCEPT ![k] = "idle"]
  /\ got' = [got EXCEPT ![k] = NoToken]
  /\ IF client = NoClient
       THEN \E i \in Clients : /\ Unused(i)
                               /\ client' = i
                               /\ token' = [token EXCEPT ![i] = got[k]]
       ELSE UNCHANGED <<client, token>>
  /\ Connect(client')
  /\ UNCHANGED <<popup, awake, timers>>
ResumeIgnoresLogout(k) ==
  /\ call[k] = "read"
  /\ call' = [call EXCEPT ![k] = "idle"]
  /\ got' = [got EXCEPT ![k] = NoToken]
  /\ \/ got[k] = NoToken /\ UNCHANGED <<client, token, closedByUs, ws, sockets>>
     \/ /\ got[k] # NoToken
        /\ IF client = NoClient
             THEN \E i \in Clients : /\ Unused(i)
                                     /\ client' = i
                                     /\ token' = [token EXCEPT ![i] = got[k]]
             ELSE UNCHANGED <<client, token>>
        /\ Connect(client')
  /\ UNCHANGED <<popup, awake, timers>>
ResumeWaitsForClient(k) ==
  /\ call[k] = "read"
  /\ call' = [call EXCEPT ![k] = "idle"]
  /\ got' = [got EXCEPT ![k] = NoToken]
  /\ IF client = NoClient \/ got[k] = NoToken
       THEN UNCHANGED <<closedByUs, ws, sockets>>
       ELSE Connect(client)
  /\ UNCHANGED <<popup, awake, timers, client, token>>

\* The rest of startOrReconnectBridge.  Without a JWT: disconnect and forget
\* the client.  With one: the client that exists is kept with its own config,
\* a missing one is created from the config read; then connect().
Resume(k) ==
  /\ call[k] = "read"
  /\ call' = [call EXCEPT ![k] = "idle"]
  /\ got' = [got EXCEPT ![k] = NoToken]
  /\ \/ /\ got[k] = NoToken
        /\ IF client = NoClient THEN UNCHANGED <<closedByUs, ws, sock>> ELSE Disconnect(client)
        /\ client' = NoClient
        /\ UNCHANGED <<token, owner>>
     \/ /\ got[k] # NoToken
        /\ IF client = NoClient
             THEN \E i \in Clients : /\ Unused(i)
                                     /\ client' = i
                                     /\ token' = [token EXCEPT ![i] = got[k]]
             ELSE UNCHANGED <<client, token>>
        /\ Connect(client')
  /\ UNCHANGED <<popup, awake, timers>>

\* The service worker starts (alarm, message, browser start): the module's top
\* level runs with fresh globals.
Wake(k) ==
  /\ ~awake
  /\ awake' = TRUE
  /\ Start(k)
  /\ UNCHANGED <<popup, client, instances, sockets>>

\* The keepalive alarm, every 30 s.
Alarm(k) ==
  /\ awake
  /\ Start(k)
  /\ UNCHANGED <<popup, awake, client, instances, sockets>>

\* Chrome stops the worker: every global, socket, timer and promise is gone.
Sleep ==
  /\ awake
  /\ awake' = FALSE
  /\ client' = NoClient
  /\ token' = [i \in Clients |-> NoToken]
  /\ closedByUs' = [i \in Clients |-> FALSE]
  /\ ws' = [i \in Clients |-> NoSock]
  /\ timers' = [i \in Clients |-> 0]
  /\ sock' = [s \in Socks |-> "free"]
  /\ owner' = [s \in Socks |-> NoClient]
  /\ call' = [k \in Calls |-> "idle"]
  /\ got' = [k \in Calls |-> NoToken]
  /\ UNCHANGED popup

\* onMessage: both kinds disconnect and drop the current client; reconnect
\* then starts over with the configuration of storage.
OnMessage(k) ==
  /\ awake
  /\ mail # <<>>
  /\ mail' = Tail(mail)
  /\ IF client = NoClient THEN UNCHANGED <<closedByUs, ws, sock>> ELSE Disconnect(client)
  /\ client' = NoClient
  /\ IF Head(mail) = "reconnect" THEN Start(k) ELSE UNCHANGED runs
  /\ UNCHANGED <<stored, clicks, awake, token, timers, owner>>

\* sendMessage rejected because the worker sleeps: the popup ignores it.
MessageLost ==
  /\ ~awake
  /\ mail # <<>>
  /\ mail' = Tail(mail)
  /\ UNCHANGED <<stored, clicks, awake, client, instances, sockets, runs>>

-----------------------------------------------------------------------------
(* popup.ts: each button changes the storage, then posts its message.      *)

Click(message, jwt) ==
  /\ clicks < MaxClicks
  /\ clicks' = clicks + 1
  /\ stored' = jwt
  /\ mail' = Append(mail, message)
  /\ UNCHANGED <<awake, client, instances, sockets, runs>>

Login(jwt) == stored = NoToken /\ Click("reconnect", jwt)
Logout == stored # NoToken /\ Click("logout", NoToken)
Reconnect == stored # NoToken /\ Click("reconnect", stored)

-----------------------------------------------------------------------------
SocketStep(s) == SocketOpens(s) \/ PeerCloses(s) \/ SocketCloses(s)
CallStep(k) == ConfigRead(k) \/ Resume(k) \/ Wake(k) \/ Alarm(k) \/ OnMessage(k)
PopupStep == (\E jwt \in Tokens : Login(jwt)) \/ Logout \/ Reconnect

Next ==
  \/ \E s \in Socks : SocketStep(s)
  \/ \E i \in Clients : ReconnectFires(i)
  \/ \E k \in Calls : CallStep(k)
  \/ Sleep
  \/ MessageLost
  \/ PopupStep

Spec == Init /\ [][Next]_vars

\* The storage answers, promises continue, timers and the periodic alarm fire,
\* messages are delivered (or rejected).  Of infinitely many attempts to open
\* a socket one succeeds.  The operator, the peer and Chrome's decision to
\* stop the worker owe nothing, except that Chrome does not stop it in the middle
\* of every start (it waits for 30 s of idleness), hence SF for a run's steps.
Fairness ==
  /\ \A k \in Calls : SF_vars(ConfigRead(k)) /\ SF_vars(Resume(k))
  /\ \A i \in Clients : SF_vars(ReconnectFires(i))
  /\ \A s \in Socks : WF_vars(SocketCloses(s) /\ sock[s] \in {"closing", "leaving"})
  /\ SF_vars(\E k \in Calls : Wake(k) \/ Alarm(k))
  /\ SF_vars(\E k \in Calls : OnMessage(k))
  /\ SF_vars(\E s \in Socks : SocketOpens(s))

FairSpec == Spec /\ Fairness

-----------------------------------------------------------------------------
(* Properties.                                                             *)

Connected == \E s \in Socks : sock[s] = "open"

\* The keepalive never recycles a healthy connection: kiro closes a CONNECTING
\* or OPEN socket only when it disconnects the client that owns it.
HealthySocketsSpared ==
  [][\A s \in Socks :
       sock[s] \in Live /\ sock'[s] = "closing" => closedByUs'[owner[s]]]_vars

\* Nobody connects on an empty storage: the current client always has a JWT,
\* whatever order logins, logouts, alarms and storage reads come in.
ClientHasToken == client # NoClient => token[client] # NoToken

\* While an operator is logged in the plugin gets connected, and gets
\* connected again after every loss, through timers or the alarm.
ReconnectsWhileLoggedIn == stored # NoToken ~> (Connected \/ stored = NoToken)

\* After a logout that stands, the background ends without a current client and
\* stays so, even when a run that had read the old JWT resumes after the logout
\* message, or that message is lost: the next alarm corrects it.
LogoutDropsClient == <>[](stored = NoToken) => <>[](client = NoClient)

\* Only the current client keeps sockets alive: a client that was disconnected
\* and replaced does not go on reconnecting beside the new one.
NoZombieClient ==
  \A s \in Socks : sock[s] \in Live => owner[s] = client
=============================================================================
