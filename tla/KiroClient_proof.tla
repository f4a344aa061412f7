-------------------------- MODULE KiroClient_proof --------------------------
(***************************************************************************)
(* For any number of instances, sockets, concurrent runs and clicks: the   *)
(* current client of the service worker has a JWT, and the keepalive never *)
(* closes a healthy socket.                                                *)
(***************************************************************************)
EXTENDS KiroClient, TLAPS

\* this.ws is a socket of the instance itself, and only a socket of nobody is
\* there to be created: an instance that closes this.ws closes its own.
OwnSocket ==
  /\ \A i \in Clients : ws[i] # NoSock => owner[ws[i]] = i
  /\ \A s \in Socks : sock[s] = "free" <=> owner[s] = NoClient

IInv == TypeOK /\ OwnSocket /\ ClientHasToken

LEMMA InvInit == Init => IInv
<1> SUFFICES ASSUME Init
             PROVE  IInv
  OBVIOUS
<1>1. mail \in Seq({"reconnect", "logout"})
  BY DEF Init
<1>2. clicks \in 0 .. MaxClicks /\ timers \in [Clients -> 0 .. MaxTimers]
  BY BoundsAssumption DEF Init
<1>3. /\ sock \in [Socks -> SockStates] /\ owner \in [Socks -> Clients \cup {NoClient}]
      /\ call \in [Calls -> {"idle", "reading", "read"}]
  BY DEF Init, SockStates
<1>4. OwnSocket /\ ClientHasToken
  BY DEF Init, OwnSocket, ClientHasToken
<1> QED
  BY <1>1, <1>2, <1>3, <1>4 DEF Init, IInv, TypeOK

-----------------------------------------------------------------------------
(* connect() and disconnect() of an instance, the parts of other steps.    *)

\* connect() leaves every socket of others alone, and its own unless it is dead.
LEMMA ConnectFacts ==
  ASSUME TypeOK, OwnSocket, NEW i \in Clients, Connect(i)
  PROVE  /\ closedByUs' \in [Clients -> BOOLEAN]
         /\ ws' \in [Clients -> Socks \cup {NoSock}]
         /\ sock' \in [Socks -> SockStates]
         /\ owner' \in [Socks -> Clients \cup {NoClient}]
         /\ OwnSocket'
         /\ \A s \in Socks : sock[s] \in Live => sock'[s] = sock[s]
<1> USE NullsAssumption DEF TypeOK
<1>1. CASE HasLiveSocket(i) /\ UNCHANGED <<ws, sockets>>
  BY <1>1 DEF Connect, sockets, OwnSocket
<1>2. CASE ~HasLiveSocket(i)
  <2>1. PICK new \in Socks :
          /\ sock[new] = "free"
          /\ sock' = [s \in Socks |-> IF s = new THEN "connecting"
                                     ELSE IF s = ws[i] THEN AfterClose(sock[s])
                                     ELSE sock[s]]
          /\ owner' = [owner EXCEPT ![new] = i]
          /\ ws' = [ws EXCEPT ![i] = new]
    BY <1>2 DEF Connect
  <2>2. \A s \in Socks : AfterClose(sock[s]) \in SockStates
    BY DEF AfterClose, SockStates, Live
  <2>3. ws[i] # NoSock => sock[ws[i]] \notin Live /\ ws[i] # new
    BY <1>2, <2>1 DEF HasLiveSocket, OwnSocket
  <2>4. \A s \in Socks \ {new} : sock'[s] = sock[s]
    BY <2>1, <2>3 DEF AfterClose
  <2>5. OwnSocket'
    <3>1. \A k \in Clients \ {i} : ws'[k] # NoSock => ws'[k] # new /\ owner'[ws'[k]] = k
      BY <2>1 DEF OwnSocket
    <3>2. ws'[i] = new /\ owner'[new] = i /\ sock'[new] = "connecting"
      BY <2>1
    <3>3. \A s \in Socks \ {new} : owner'[s] = owner[s]
      BY <2>1
    <3> QED
      BY <2>1, <2>4, <3>1, <3>2, <3>3 DEF OwnSocket
  <2>6. sock' \in [Socks -> SockStates]
    BY <2>1, <2>2 DEF SockStates, Live
  <2>7. "free" \notin Live
    BY DEF Live
  <2> QED
    BY <2>1, <2>4, <2>5, <2>6, <2>7 DEF Connect
<1> QED
  BY <1>1, <1>2 DEF Connect

\* disconnect() closes no other instance's socket, and marks its own.
LEMMA DisconnectFacts ==
  ASSUME TypeOK, OwnSocket, NEW i \in Clients, Disconnect(i), owner' = owner
  PROVE  /\ closedByUs' \in [Clients -> BOOLEAN]
         /\ ws' \in [Clients -> Socks \cup {NoSock}]
         /\ sock' \in [Socks -> SockStates]
         /\ OwnSocket'
         /\ closedByUs'[i]
         /\ \A s \in Socks : sock'[s] # sock[s] => owner[s] = i
<1> USE NullsAssumption DEF TypeOK
<1>1. \A s \in Socks : /\ AfterClose(sock[s]) \in SockStates
                       /\ AfterClose(sock[s]) = "free" <=> sock[s] = "free"
  BY DEF AfterClose, SockStates, Live
<1>2. OwnSocket'
  BY <1>1 DEF Disconnect, OwnSocket
<1> QED
  BY <1>1, <1>2 DEF Disconnect, OwnSocket

-----------------------------------------------------------------------------
(* The steps.                                                              *)

LEMMA SocketSteps ==
  ASSUME IInv, NEW s \in Socks, SocketStep(s)
  PROVE  IInv'
<1> USE NullsAssumption DEF IInv, TypeOK, popup, instances, runs
<1>1. CASE SocketOpens(s)
  BY <1>1 DEF SocketOpens, OwnSocket, ClientHasToken, SockStates, Live
<1>2. CASE PeerCloses(s)
  BY <1>2 DEF PeerCloses, OwnSocket, ClientHasToken, SockStates, Live
<1>3. CASE SocketCloses(s)
  <2>1. owner[s] \in Clients
    BY <1>3 DEF SocketCloses, OwnSocket
  <2>2. timers' \in [Clients -> 0 .. MaxTimers]
    BY <1>3, <2>1, BoundsAssumption DEF SocketCloses, OnClose
  <2>3. OwnSocket'
    BY <1>3, <2>1 DEF SocketCloses, OnClose, OwnSocket
  <2> QED
    BY <1>3, <2>1, <2>2, <2>3 DEF SocketCloses, OnClose, ClientHasToken, SockStates
<1> QED
  BY <1>1, <1>2, <1>3 DEF SocketStep

LEMMA TimerSteps ==
  ASSUME IInv, NEW i \in Clients, ReconnectFires(i)
  PROVE  IInv'
<1> USE DEF IInv, popup, runs
<1>1. Connect(i)
  BY DEF ReconnectFires
<1>2. timers' \in [Clients -> 0 .. MaxTimers]
  BY BoundsAssumption DEF ReconnectFires, TypeOK
<1> QED
  BY <1>1, <1>2, ConnectFacts DEF ReconnectFires, TypeOK, ClientHasToken

\* The rest of startOrReconnectBridge: a new client gets the JWT that was read.
LEMMA ResumeSteps ==
  ASSUME IInv, NEW k \in Calls, Resume(k)
  PROVE  IInv'
<1> USE NullsAssumption DEF IInv, popup
<1>1. /\ stored' = stored /\ mail' = mail /\ clicks' = clicks /\ awake' = awake /\ timers' = timers
      /\ call' \in [Calls -> {"idle", "reading", "read"}]
      /\ got' \in [Calls -> Tokens \cup {NoToken}]
  BY DEF Resume, TypeOK
<1>2. CASE got[k] = NoToken
  <2>1. client' = NoClient /\ token' = token /\ owner' = owner
    BY <1>2 DEF Resume
  <2>2. CASE client = NoClient
    BY <1>1, <1>2, <2>1, <2>2 DEF Resume, TypeOK, OwnSocket, ClientHasToken
  <2>3. CASE client # NoClient
    <3>1. client \in Clients /\ Disconnect(client)
      BY <1>2, <2>3 DEF Resume, TypeOK
    <3> QED
      BY <1>1, <2>1, <3>1, DisconnectFacts DEF TypeOK, ClientHasToken
  <2> QED
    BY <2>2, <2>3
<1>3. CASE got[k] # NoToken
  <2>1. /\ client' \in Clients
        /\ Connect(client')
        /\ token' \in [Clients -> Tokens \cup {NoToken}]
        /\ token'[client'] # NoToken
    <3>1. CASE client = NoClient
      BY <1>3, <3>1 DEF Resume, TypeOK
    <3>2. CASE client # NoClient
      BY <1>3, <3>2 DEF Resume, TypeOK, ClientHasToken
    <3> QED
      BY <3>1, <3>2
  <2> QED
    BY <1>1, <2>1, ConnectFacts DEF TypeOK, ClientHasToken
<1> QED
  BY <1>2, <1>3

LEMMA OtherCallSteps ==
  ASSUME IInv, NEW k \in Calls, ConfigRead(k) \/ Wake(k) \/ Alarm(k) \/ OnMessage(k)
  PROVE  IInv'
<1> USE NullsAssumption DEF IInv, popup, instances, sockets, runs
<1>1. CASE ConfigRead(k)
  BY <1>1 DEF ConfigRead, TypeOK, OwnSocket, ClientHasToken
<1>2. CASE Wake(k) \/ Alarm(k)
  BY <1>2 DEF Wake, Alarm, Start, TypeOK, OwnSocket, ClientHasToken
<1>3. CASE OnMessage(k)
  <2>1. mail' \in Seq({"reconnect", "logout"})
    BY <1>3 DEF OnMessage, TypeOK
  <2>2. call' \in [Calls -> {"idle", "reading", "read"}] /\ got' = got
    <3>1. CASE Head(mail) = "reconnect"
      BY <1>3, <3>1 DEF OnMessage, Start, TypeOK
    <3>2. CASE Head(mail) # "reconnect"
      BY <1>3, <3>2 DEF OnMessage, TypeOK
    <3> QED
      BY <3>1, <3>2
  <2>3. /\ stored' = stored /\ clicks' = clicks /\ awake' = awake /\ client' = NoClient
        /\ token' = token /\ timers' = timers /\ owner' = owner
    BY <1>3 DEF OnMessage
  <2>4. CASE client = NoClient
    BY <1>3, <2>1, <2>2, <2>3, <2>4 DEF OnMessage, TypeOK, OwnSocket, ClientHasToken
  <2>5. CASE client # NoClient
    <3>1. client \in Clients /\ Disconnect(client)
      BY <1>3, <2>5 DEF OnMessage, TypeOK
    <3> QED
      BY <2>1, <2>2, <2>3, <3>1, DisconnectFacts DEF TypeOK, ClientHasToken
  <2> QED
    BY <2>4, <2>5
<1> QED
  BY <1>1, <1>2, <1>3

LEMMA InvStep == IInv /\ [Next]_vars => IInv'
<1> SUFFICES ASSUME IInv, [Next]_vars
             PROVE  IInv'
  OBVIOUS
<1> USE NullsAssumption, BoundsAssumption DEF popup, instances, sockets, runs
<1>1. CASE Sleep
  <2>1. timers' \in [Clients -> 0 .. MaxTimers] /\ sock' \in [Socks -> SockStates]
    BY <1>1 DEF Sleep, SockStates
  <2>2. OwnSocket' /\ ClientHasToken'
    BY <1>1 DEF Sleep, OwnSocket, ClientHasToken
  <2>3. stored' = stored /\ mail' = mail /\ clicks' = clicks
    BY <1>1 DEF Sleep
  <2> QED
    BY <1>1, <2>1, <2>2, <2>3 DEF Sleep, IInv, TypeOK
<1>2. CASE MessageLost
  BY <1>2 DEF MessageLost, IInv, TypeOK, OwnSocket, ClientHasToken
<1>3. CASE PopupStep
  <2>1. PICK message \in {"reconnect", "logout"}, jwt \in Tokens \cup {NoToken} : Click(message, jwt)
    BY <1>3 DEF PopupStep, Login, Logout, Reconnect, IInv, TypeOK
  <2> QED
    BY <2>1 DEF Click, IInv, TypeOK, OwnSocket, ClientHasToken
<1>4. CASE UNCHANGED vars
  BY <1>4 DEF vars, IInv, TypeOK, OwnSocket, ClientHasToken
<1> QED
  BY <1>1, <1>2, <1>3, <1>4, SocketSteps, TimerSteps, ResumeSteps, OtherCallSteps DEF Next, CallStep

LEMMA Invariance == Spec => []IInv
BY InvInit, InvStep, PTL DEF Spec

-----------------------------------------------------------------------------
(* Theorems.                                                               *)

\* Every reachable state of the worker, its instances and sockets is well formed.
THEOREM TypeCorrect == Spec => []TypeOK
<1>1. IInv => TypeOK
  BY DEF IInv
<1> QED
  BY <1>1, Invariance, PTL

\* Nobody connects without having logged in.
THEOREM HasToken == Spec => []ClientHasToken
<1>1. IInv => ClientHasToken
  BY DEF IInv
<1> QED
  BY <1>1, Invariance, PTL

\* connect() finds its socket alive and leaves it; only disconnect() closes one.
THEOREM SocketsSpared == Spec => HealthySocketsSpared
<1> DEFINE Spared == \A s \in Socks :
                       sock[s] \in Live /\ sock'[s] = "closing" => closedByUs'[owner[s]]
<1>1. ASSUME IInv, [Next]_vars
      PROVE  Spared
  <2> USE <1>1 DEF IInv
  <2>0. "closing" \notin Live
    BY DEF Live
  <2>1. ASSUME NEW i \in Clients, Connect(i)
        PROVE  Spared
    BY <2>0, <2>1, ConnectFacts
  <2>2. ASSUME client # NoClient, Disconnect(client), owner' = owner
        PROVE  Spared
    <3>1. client \in Clients
      BY <2>2 DEF TypeOK
    <3> QED
      BY <2>0, <2>2, <3>1, DisconnectFacts
  <2>3. ASSUME UNCHANGED sock
        PROVE  Spared
    BY <2>0, <2>3
  <2>4. ASSUME NEW s \in Socks, SocketStep(s)
        PROVE  Spared
    BY <2>0, <2>4 DEF SocketStep, SocketOpens, PeerCloses, SocketCloses, OnClose, TypeOK
  <2>5. ASSUME NEW i \in Clients, ReconnectFires(i)
        PROVE  Spared
    BY <2>1, <2>5 DEF ReconnectFires
  <2>6. ASSUME NEW k \in Calls, Resume(k)
        PROVE  Spared
    <3>1. CASE got[k] = NoToken
      BY <2>2, <2>3, <2>6, <3>1 DEF Resume
    <3>2. CASE got[k] # NoToken
      <4>1. client' \in Clients /\ Connect(client')
        BY <2>6, <3>2 DEF Resume, TypeOK
      <4> QED
        BY <2>1, <4>1
    <3> QED
      BY <3>1, <3>2
  <2>7. ASSUME NEW k \in Calls, OnMessage(k)
        PROVE  Spared
    BY <2>2, <2>3, <2>7 DEF OnMessage
  <2>8. ASSUME NEW k \in Calls, ConfigRead(k) \/ Wake(k) \/ Alarm(k)
        PROVE  Spared
    BY <2>3, <2>8 DEF ConfigRead, Wake, Alarm, sockets
  <2>9. CASE Sleep
    BY <2>9 DEF Sleep
  <2>10. CASE MessageLost \/ PopupStep \/ UNCHANGED vars
    BY <2>3, <2>10 DEF MessageLost, PopupStep, Login, Logout, Reconnect, Click, vars, sockets
  <2> QED
    BY <2>4, <2>5, <2>6, <2>7, <2>8, <2>9, <2>10 DEF Next, CallStep
<1> QED
  BY <1>1, Invariance, PTL DEF Spec, HealthySocketsSpared

-----------------------------------------------------------------------------
(* A logout stands.  This is the part of LogoutDropsClient that holds       *)
(* without fairness.                                                        *)

\* Runs of startOrReconnectBridge that carry a JWT they have read.
LateRuns == {k \in Calls : got[k] # NoToken}

\* While nobody is logged in no run reads a JWT, and a client is only created by a
\* run that had read one before the logout, which is used up.
LateRunsRunOut ==
  stored = NoToken =>
    /\ LateRuns' \subseteq LateRuns
    /\ client' \notin {client, NoClient} => LateRuns' # LateRuns

\* Whatever alarms, messages and stops of the worker do after a logout, each run
\* that had read the old JWT creates at most one client, and then none is created.
THEOREM LogoutStands == Spec => [][LateRunsRunOut]_vars
<1>1. ASSUME TypeOK, [Next]_vars, stored = NoToken
      PROVE  /\ LateRuns' \subseteq LateRuns
             /\ client' \notin {client, NoClient} => LateRuns' # LateRuns
  <2> USE <1>1 DEF TypeOK, LateRuns
  <2>1. ASSUME NEW k \in Calls, ConfigRead(k) \/ Wake(k) \/ Alarm(k) \/ OnMessage(k)
        PROVE  LateRuns' \subseteq LateRuns /\ client' \in {client, NoClient}
    BY <2>1 DEF ConfigRead, Wake, Alarm, OnMessage, Start, runs
  <2>2. ASSUME NEW k \in Calls, Resume(k)
        PROVE  /\ LateRuns' \subseteq LateRuns
               /\ client' \notin {client, NoClient} => LateRuns' # LateRuns
    <3>1. got' = [got EXCEPT ![k] = NoToken]
      BY <2>2 DEF Resume
    <3>2. got[k] = NoToken => client' = NoClient
      BY <2>2 DEF Resume
    <3>3. k \notin LateRuns' /\ LateRuns' \subseteq LateRuns
      BY <3>1
    <3> QED
      BY <3>2, <3>3
  <2>3. CASE Sleep
    BY <2>3 DEF Sleep
  <2>4. CASE MessageLost \/ PopupStep \/ UNCHANGED vars
    BY <2>4 DEF MessageLost, PopupStep, Login, Logout, Reconnect, Click, vars, runs
  <2>5. ASSUME NEW s \in Socks, SocketStep(s)
        PROVE  UNCHANGED <<got, client>>
    BY <2>5 DEF SocketStep, SocketOpens, PeerCloses, SocketCloses, runs
  <2>6. ASSUME NEW i \in Clients, ReconnectFires(i)
        PROVE  UNCHANGED <<got, client>>
    BY <2>6 DEF ReconnectFires, runs
  <2> QED
    BY <2>1, <2>2, <2>3, <2>4, <2>5, <2>6 DEF Next, CallStep
<1>2. TypeOK /\ [Next]_vars => LateRunsRunOut
  BY <1>1 DEF LateRunsRunOut
<1> QED
  BY <1>2, TypeCorrect, PTL DEF Spec

=============================================================================
