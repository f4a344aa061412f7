----------------------------- MODULE IntuitTokens -----------------------------
(***************************************************************************)
(* The tokens of QuickBooks Online in mapi_v2 (plugins/intuit): the row of *)
(* each connected client, the refresh that requests and the weekly cron    *)
(* run against Intuit's token endpoint, the OAuth flow that connects a     *)
(* client, and disconnecting it.                                           *)
(*                                                                         *)
(* A refresh token is good for one use: Intuit may answer a refresh with a *)
(* new one, and then takes the new one only.  Nothing serialises the       *)
(* refreshes, and each of them ends in a write decided by the row it read  *)
(* at its start.                                                           *)
(***************************************************************************)

CONSTANTS
  Clients,  \* clients of the firm
  Realms,   \* companies in QuickBooks
  None,     \* no realm, no token
  Callers,  \* requests that call the API of QuickBooks
  Cron,     \* the weekly refreshAll
  Flows     \* OAuth flows

Refreshers == Callers \cup {Cron}
Ps == Refreshers \cup Flows

ASSUME NamesAssumption ==
  /\ None \notin Realms /\ Cron \notin Callers
  /\ Refreshers \cap Flows = {} /\ Clients \cap Ps = {}

VARIABLES
  row,     \* row[c]: the row of client c in intuit_tokens
  good,    \* the rows and operations whose refresh token Intuit takes
  op,      \* op[p]: what a request, the cron or an OAuth flow is at
  todo,    \* clients that refreshAll has still to refresh
  spoilt,  \* history: clients whose connection something befell
  older    \* history: operations begun before the connection of their client

vars == <<row, good, op, todo, spoilt, older>>

NoRow == [realm |-> None]
RowType == {NoRow} \cup [realm : Realms, flag : BOOLEAN]
Idle == [at |-> "idle"]
OpType ==
  {Idle}
  \cup [at : {"refreshing", "refused"}, client : Clients]
  \cup [at : {"issued"}, client : Clients, expects : Realms \cup {None}]
  \cup [at : {"posting", "answered"}, client : Clients, realm : Realms]

Connected == {c \in Clients : row[c] # NoRow}

\* realm_id is unique.
TypeOK ==
  /\ row \in [Clients -> RowType]
  /\ good \subseteq Clients \cup Ps
  /\ op \in [Ps -> OpType]
  /\ todo \subseteq Clients /\ spoilt \subseteq Clients /\ older \subseteq Ps
  /\ \A c, d \in Connected : row[c].realm = row[d].realm => c = d

Init ==
  /\ row = [c \in Clients |-> NoRow]
  /\ good = {}
  /\ op = [p \in Ps |-> Idle]
  /\ todo = {} /\ spoilt = {} /\ older = {}

-----------------------------------------------------------------------------
(* Operations under way.                                                   *)

Of(c) == {p \in Ps : op[p] # Idle /\ op[p].client = c}
\* Those that deal, or dealt, with the token endpoint for this client or company.
Dealing(c, r) ==
  {p \in Ps :
    \/ op[p].at = "refused" /\ op[p].client = c
    \/ op[p].at \in {"posting", "answered"} /\ (op[p].client = c \/ op[p].realm = r)}
Busy(c) == {p \in Of(c) : op[p].at \in {"posting", "answered", "refused"}} # {}
ClientsOf(ps) == {op[p].client : p \in ps}

Becomes(p, o) == op' = [op EXCEPT ![p] = o]
Ends(p) == Becomes(p, Idle) /\ good' = good \ {p} /\ older' = older \ {p}

\* Operations that overlap spoil each other's connections.
Overlaps(p, c, r) ==
  spoilt' = IF Dealing(c, r) = {} THEN spoilt
            ELSE spoilt \cup {c} \cup ClientsOf(Dealing(c, r))
\* One that has the token endpoint and the company for itself makes them good.
Alone(p, c, r) == Dealing(c, r) = {p} /\ \A d \in Connected \ {c} : row[d].realm # r

\* Who holds a refresh token of this company.
Holders(r) ==
  {c \in Connected : row[c].realm = r}
  \cup {p \in Ps : op[p].at \in {"posting", "answered"} /\ op[p].realm = r}

-----------------------------------------------------------------------------
(* Variants with a plausible slip, for mutation testing.                   *)

BoundElsewhereNever(c, r) == FALSE
StoredAccessTokenOnly(p, c) == good \ {p}
ExpectedAnyway(f, r) == TRUE

-----------------------------------------------------------------------------
(* IntuitTokensService: the row and its refresh.                           *)

\* A request comes to a refresh because its access token has less than a minute
\* left (getValidAccessToken), or because QuickBooks answers 401 (call, which tries
\* once more after it).  A request that needs none changes nothing.
Resolve(p, c) ==
  /\ p \in Callers /\ op[p] = Idle
  /\ c \in Connected
  /\ Becomes(p, [at |-> "refreshing", client |-> c])
  /\ UNCHANGED <<row, good, todo, spoilt, older>>

\* refresh reads the row again.  Its date alone may tell that the token has gone.
ReadRow(p) ==
  LET c == op[p].client IN
  /\ op[p].at = "refreshing"
  /\ IF row[c] = NoRow
     THEN Ends(p) /\ UNCHANGED spoilt
     ELSE /\ \/ Becomes(p, [at |-> "posting", client |-> c, realm |-> row[c].realm])
             \/ c \notin good /\ Becomes(p, [at |-> "refused", client |-> c])
          /\ good' = IF c \in good THEN good \cup {p} ELSE good
          /\ Overlaps(p, c, row[c].realm)
          /\ UNCHANGED older
  /\ UNCHANGED <<row, todo>>

BoundElsewhere(c, r) == \E d \in Connected \ {c} : row[d].realm = r
\* What the upsert of both tokens makes of the row and of the operation that ends.
Stored(p, c) == IF p \in good THEN (good \cup {c}) \ {p} ELSE good \ {c}

\* save: the upsert is refused when the company is another client's.
Save(p) ==
  LET c == op[p].client IN
  LET r == op[p].realm IN
  /\ op[p].at = "answered"
  /\ IF BoundElsewhere(c, r)
     THEN Ends(p) /\ UNCHANGED row
     ELSE /\ row' = [row EXCEPT ![c] = [realm |-> r, flag |-> FALSE]]
          /\ Becomes(p, Idle)
          /\ good' = Stored(p, c)
          /\ older' = (older \cup IF row[c].realm # r THEN Of(c) ELSE {}) \ {p}
  /\ UNCHANGED <<todo, spoilt>>

\* setNeedsReauth: nothing when the row has gone.
Flag(p) ==
  LET c == op[p].client IN
  /\ op[p].at = "refused"
  /\ row' = IF c \in Connected THEN [row EXCEPT ![c].flag = TRUE] ELSE row
  /\ Ends(p)
  /\ UNCHANGED <<todo, spoilt>>

\* deleteByClientId, by disconnect and by the admin endpoint.
Disconnect(c) ==
  /\ c \in Connected
  /\ row' = [row EXCEPT ![c] = NoRow]
  /\ good' = good \ {c}
  /\ spoilt' = IF Busy(c) THEN spoilt \cup {c} ELSE spoilt
  /\ UNCHANGED <<op, todo, older>>

\* refreshAll: the rows of the start, one after the other.
CronStarts ==
  /\ op[Cron] = Idle /\ todo = {}
  /\ todo' = Connected
  /\ UNCHANGED <<row, good, op, spoilt, older>>
CronNext(c) ==
  /\ op[Cron] = Idle /\ c \in todo
  /\ todo' = todo \ {c}
  /\ Becomes(Cron, [at |-> "refreshing", client |-> c])
  /\ UNCHANGED <<row, good, spoilt, older>>

\* The request or mapi stops, or fetch throws: what Intuit granted is lost.
Dies(p) ==
  /\ op[p].at \in {"refreshing", "posting", "answered", "refused"}
  /\ Ends(p)
  /\ spoilt' = IF op[p].at = "answered" THEN spoilt \cup {op[p].client} ELSE spoilt
  /\ UNCHANGED <<row, todo>>

-----------------------------------------------------------------------------
(* IntuitOauthService.                                                     *)

\* connect: the state in Redis remembers the company of a connected client.
Connect(f, c) ==
  /\ f \in Flows /\ op[f] = Idle
  /\ Becomes(f, [at |-> "issued", client |-> c, expects |-> row[c].realm])
  /\ UNCHANGED <<row, good, todo, spoilt, older>>

\* What callback checks of the company that was authorised.
Expected(f, r) == op[f].expects \in {None, r}

\* callback, once per state: the browser comes back from Intuit with a code.
Callback(f, r) ==
  LET c == op[f].client IN
  /\ op[f].at = "issued"
  /\ IF Expected(f, r) /\ ~BoundElsewhere(c, r)
     THEN /\ Becomes(f, [at |-> "posting", client |-> c, realm |-> r])
          /\ Overlaps(f, c, r)
          /\ UNCHANGED <<good, older>>
     ELSE Ends(f) /\ UNCHANGED spoilt
  /\ UNCHANGED <<row, todo>>

\* Ten minutes pass: the state has gone.
StateExpires(f) ==
  /\ op[f].at = "issued"
  /\ Ends(f)
  /\ UNCHANGED <<row, todo, spoilt>>

-----------------------------------------------------------------------------
(* Intuit's token endpoint.                                                *)

Taken(p) == p \in Flows \/ p \in good

\* It takes a code, or the refresh token that is good, and answers with a new one
\* in place of all the company had; a refresh may leave the token as it is.
Grants(p) ==
  LET c == op[p].client IN
  LET r == op[p].realm IN
  /\ op[p].at = "posting" /\ Taken(p)
  /\ Becomes(p, [at |-> "answered", client |-> c, realm |-> r])
  /\ \/ good' = (good \ Holders(r)) \cup {p}
     \/ p \in good /\ UNCHANGED good
  /\ spoilt' = IF Alone(p, c, r) THEN spoilt \ {c} ELSE spoilt
  /\ UNCHANGED <<row, todo, older>>

\* It refuses a refresh token, or answers with an error of its own, which is no
\* reason to authorise anew; an exchange of a code just fails.
Refuses(p) ==
  /\ op[p].at = "posting"
  /\ spoilt' = IF Taken(p) THEN spoilt \cup {op[p].client} ELSE spoilt
  /\ IF p \in Flows THEN Ends(p)
     ELSE /\ Becomes(p, [at |-> "refused", client |-> op[p].client])
          /\ good' = good \ {p}
          /\ UNCHANGED older
  /\ UNCHANGED <<row, todo>>

\* The owner revokes the grant in QuickBooks, or it lapses unused.
Lapse(r) ==
  /\ Holders(r) \cap good # {}
  /\ good' = good \ Holders(r)
  /\ spoilt' = spoilt \cup (Clients \cap Holders(r)) \cup ClientsOf(Ps \cap Holders(r))
  /\ UNCHANGED <<row, op, todo, older>>

-----------------------------------------------------------------------------
Refresh(p) == ReadRow(p) \/ Save(p) \/ Flag(p)
Endpoint(p) == Grants(p) \/ Refuses(p)
Oauth(f) ==
  (\E c \in Clients : Connect(f, c)) \/ (\E r \in Realms : Callback(f, r)) \/ StateExpires(f)
CronStep == CronStarts \/ \E c \in Clients : CronNext(c)

Next ==
  \/ \E p \in Ps : Refresh(p) \/ Endpoint(p) \/ Dies(p) \/ \E c \in Clients : Resolve(p, c)
  \/ \E f \in Flows : Oauth(f)
  \/ \E c \in Clients : Disconnect(c)
  \/ \E r \in Realms : Lapse(r)
  \/ CronStep

Spec == Init /\ [][Next]_vars

-----------------------------------------------------------------------------
(* Properties.                                                             *)

Dead(c) == c \notin good

\* When no refresh and no callback is under way for a client, Intuit takes the
\* stored refresh token and the connection is not marked, unless it was revoked,
\* an answer of Intuit was lost or was an error, or two operations overlapped;
\* and one that then has the endpoint for itself makes good what befell it.
StoredTokenIsGood ==
  \A c \in Connected \ spoilt : Busy(c) \/ (~Dead(c) /\ ~row[c].flag)

\* Anti-mixup: an operation begun after a client was connected never moves the
\* client to another company.
CompanyIsKept ==
  [][\A p \in Ps : \A c \in Clients :
       /\ op[p].at = "answered" /\ op'[p] = Idle /\ op[p].client = c
       /\ row[c] # NoRow /\ row'[c].realm # row[c].realm
       => p \in older]_vars
==============================================================================
