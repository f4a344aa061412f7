----------------------------- MODULE Connections -----------------------------
(***************************************************************************)
(* The connections to QuickBooks in mapi: the OAuth flow that binds a      *)
(* company to a client and stores the operator's tokens                    *)
(* (20-intuit-oauth), and the refresh on demand that a request runs before *)
(* it calls Intuit (21-connections).                                       *)
(*                                                                         *)
(* A connection is a row of user_connections, one for each user and        *)
(* company.  A refresh reads it, asks Intuit, and writes all of it back by *)
(* an upsert, without a lock or a version: labels, deletions, other        *)
(* refreshes and callbacks may come in between.                            *)
(***************************************************************************)
CONSTANTS
  Users,     \* operators of the firm
  Clients,   \* clients of the firm, those still to be created included
  Realms,    \* companies in QuickBooks
  Labels,    \* labels of a connection
  None,      \* no company, no client, no label
  Requests,  \* requests that need an access token
  Flows      \* OAuth flows

Ps == Requests \cup Flows
Keys == Users \X Realms

ASSUME NamesAssumption ==
  /\ None \notin Realms \cup Clients /\ None \in Labels
  /\ Requests \cap Flows = {} /\ Ps \cap Keys = {}

VARIABLES
  clients,  \* the rows of clients
  company,  \* company[c]: qbo_realm_id
  row,      \* row[k]: the connection of a user to a company
  good,     \* rows and operations whose refresh token Intuit takes
  op,       \* what a request or an OAuth flow is at
  spoilt,   \* history: connections whose token something befell
  older,    \* history: refreshes overtaken by a change of their connection
  moved     \* history: clients that went from one company to another

hist == <<spoilt, older, moved>>
vars == <<clients, company, row, good, op, hist>>

NoRow == [client |-> None]
RowType == {NoRow} \cup [client : Clients, label : Labels]
Idle == [at |-> "idle"]
OpType ==
  {Idle}
  \cup [at : {"posting", "answered"}, key : Keys, client : Clients, label : Labels]
  \cup [at : {"issued"}, user : Users, wants : Clients \cup {None}]
  \cup [at : {"granted", "found", "stored"}, key : Keys, wants : Clients \cup {None},
        client : Clients \cup {None}]

Present == {k \in Keys : row[k] # NoRow}

\* qbo_realm_id is unique.
TypeOK ==
  /\ clients \subseteq Clients
  /\ company \in [Clients -> Realms \cup {None}]
  /\ row \in [Keys -> RowType]
  /\ good \subseteq Keys \cup Ps
  /\ op \in [Ps -> OpType]
  /\ spoilt \subseteq Keys /\ older \subseteq Requests /\ moved \subseteq Clients
  /\ \A c, d \in Clients : company[c] = company[d] => c = d \/ company[c] = None

\* Clients may have been created by hand, without a company.
Init ==
  /\ clients \in SUBSET Clients
  /\ company = [c \in Clients |-> None]
  /\ row = [k \in Keys |-> NoRow]
  /\ good = {}
  /\ op = [p \in Ps |-> Idle]
  /\ spoilt = {} /\ older = {} /\ moved = {}

-----------------------------------------------------------------------------
(* Variants with a plausible slip, for mutation testing.                   *)

WithoutCompany(c, r) == company
TakenNever(c, r) == FALSE
CopyAccessTokenOnly(from, to) == good \ {from}
WrittenWithoutLabel(p) == [client |-> op[p].client, label |-> None]

-----------------------------------------------------------------------------
(* Operations under way.                                                   *)

Dealing(k) == {p \in Ps : op[p].at \notin {"idle", "issued"} /\ op[p].key = k}
Holders(k) == {k} \cup Dealing(k)
Becomes(p, o) == op' = [op EXCEPT ![p] = o]
\* Whoever has a token for itself makes the connection good, others spoil it.
Touches(k, others) == spoilt' = IF others = {} THEN spoilt \ {k} ELSE spoilt \cup {k}
\* Refreshes that have read the connection are older than its change.
Overtakes(ks) == older' = older \cup {p \in Requests : op[p] # Idle /\ op[p].key \in ks}
\* What storing both tokens makes of the row and of the operation that ends.
Copy(from, to) == IF from \in good THEN (good \cup {to}) \ {from} ELSE good \ {to}

-----------------------------------------------------------------------------
(* IntuitOauthService.                                                     *)

\* getAuthorizationUrl for a client, or for a new one: the state goes to Redis.
Issue(f, u, c) ==
  /\ f \in Flows /\ op[f] = Idle
  /\ Becomes(f, [at |-> "issued", user |-> u, wants |-> c])
  /\ UNCHANGED <<clients, company, row, good, hist>>

\* Ten minutes.
StateExpires(f) ==
  /\ op[f].at = "issued"
  /\ Becomes(f, Idle)
  /\ UNCHANGED <<clients, company, row, good, hist>>

\* handleCallback begins: the code is exchanged; what CompanyInfo says is a name.
Exchange(f, r) ==
  LET k == <<op[f].user, r>> IN
  /\ op[f].at = "issued"
  /\ Becomes(f, [at |-> "granted", key |-> k, wants |-> op[f].wants, client |-> None])
  /\ good' = (good \ Holders(k)) \cup {f}
  /\ Touches(k, Dealing(k))
  /\ UNCHANGED <<clients, company, row, older, moved>>

\* A step that fails leaves the state in Redis and loses the tokens.
Fails(f) ==
  /\ Becomes(f, [at |-> "issued", user |-> op[f].key[1], wants |-> op[f].wants])
  /\ good' = good \ {f}
  /\ spoilt' = spoilt \cup {op[f].key}
  /\ UNCHANGED <<clients, company, row, older, moved>>

Taken(c, r) == \E d \in clients \ {c} : company[d] = r

\* The client of the company (its name may be updated), a new one, or the one that
\* is to be authorised anew.
FindClient(f) ==
  LET r == op[f].key[2] IN
  /\ op[f].at = "granted"
  /\ \/ /\ op[f].wants = None
        /\ IF Taken(None, r)
           THEN \E c \in clients : company[c] = r /\
                  Becomes(f, [op[f] EXCEPT !.at = "stored", !.client = c])
           ELSE Becomes(f, [op[f] EXCEPT !.at = "found"])
        /\ UNCHANGED <<clients, company, row, good, hist>>
     \/ /\ op[f].wants # None /\ ~Taken(op[f].wants, r)
        /\ Becomes(f, [op[f] EXCEPT !.at = "found", !.client = op[f].wants])
        /\ UNCHANGED <<clients, company, row, good, hist>>
     \/ op[f].wants # None /\ Taken(op[f].wants, r) /\ Fails(f)

WithCompany(c, r) == [company EXCEPT ![c] = r]

\* create, or update of the client's company; the unique constraint may refuse.
StoreClient(f) ==
  LET r == op[f].key[2] IN
  /\ op[f].at = "found"
  /\ IF Taken(op[f].client, r) THEN Fails(f)
     ELSE /\ \E c \in IF op[f].client = None THEN Clients \ clients ELSE {op[f].client} :
               /\ clients' = clients \cup {c}
               /\ company' = WithCompany(c, r)
               /\ moved' = IF company[c] \in {None, r} THEN moved ELSE moved \cup {c}
               /\ Becomes(f, [op[f] EXCEPT !.at = "stored", !.client = c])
          /\ UNCHANGED <<row, good, spoilt, older>>

\* The upsert of the connection, without label; then the state is deleted.
StoreTokens(f) ==
  LET k == op[f].key IN
  /\ op[f].at = "stored"
  /\ row' = [row EXCEPT ![k] = [client |-> op[f].client, label |-> None]]
  /\ good' = Copy(f, k)
  /\ Becomes(f, Idle)
  /\ Overtakes({k})
  /\ UNCHANGED <<clients, company, spoilt, moved>>

FlowDies(f) == op[f].at \in {"granted", "found", "stored"} /\ Fails(f)

-----------------------------------------------------------------------------
(* ConnectionTokenRefreshService.                                          *)

\* findActiveForRead: the user's own connection to the client, or else anybody's.
\* findActiveForWrite takes the user's own only.
Active(u, c) ==
  LET own == {k \in Present : k[1] = u /\ row[k].client = c} IN
  IF own # {} THEN own ELSE {k \in Present : row[k].client = c}

\* The access token has less than five minutes left: the request refreshes it.  (If
\* it has more, nothing changes; nor does the retry after a 401, which resolves
\* again.)
Resolve(p, u, c) ==
  /\ p \in Requests /\ op[p] = Idle
  /\ \E k \in Active(u, c) :
       /\ Becomes(p, [at |-> "posting", key |-> k,
                      client |-> row[k].client, label |-> row[k].label])
       /\ good' = IF k \in good THEN good \cup {p} ELSE good
       /\ spoilt' = IF Dealing(k) = {} THEN spoilt ELSE spoilt \cup {k}
  /\ UNCHANGED <<clients, company, row, older, moved>>

\* persistRefreshed: all that was read, with the new tokens.
Written(p) == [client |-> op[p].client, label |-> op[p].label]
Persist(p) ==
  LET k == op[p].key IN
  /\ op[p].at = "answered"
  /\ row' = [row EXCEPT ![k] = Written(p)]
  /\ good' = Copy(p, k)
  /\ Becomes(p, Idle)
  /\ older' = IF Written(p) = row[k] THEN older \ {p}
              ELSE (older \cup (Requests \cap Dealing(k))) \ {p}
  /\ UNCHANGED <<clients, company, spoilt, moved>>

\* The request ends without a token: it is stopped, or Intuit fails.
RequestDies(p) ==
  /\ op[p].at \in {"posting", "answered"}
  /\ Becomes(p, Idle)
  /\ good' = good \ {p}
  /\ spoilt' = IF op[p].at = "answered" THEN spoilt \cup {op[p].key} ELSE spoilt
  /\ older' = older \ {p}
  /\ UNCHANGED <<clients, company, row, moved>>

-----------------------------------------------------------------------------
(* ConnectionsController and ClientIntuitController.                       *)

Relabel(k, l) ==
  /\ k \in Present /\ l # row[k].label
  /\ row' = [row EXCEPT ![k].label = l]
  /\ Overtakes({k})
  /\ UNCHANGED <<clients, company, good, op, spoilt, moved>>

Gone(ks) ==
  /\ row' = [k \in Keys |-> IF k \in ks THEN NoRow ELSE row[k]]
  /\ good' = good \ ks
  /\ Overtakes(ks)
  /\ spoilt' = spoilt \cup {k \in ks : Dealing(k) # {}}
  /\ UNCHANGED <<clients, company, op, moved>>
\* deleteByIdForUser, by the owner.
Delete(k) == k \in Present /\ Gone({k})
\* disconnect: every user's connection to the client.
Disconnect(c) == LET ks == {k \in Present : row[k].client = c} IN ks # {} /\ Gone(ks)

-----------------------------------------------------------------------------
(* Intuit.                                                                 *)

\* A refresh with the good token; a new one may come in its place.
Grants(p) ==
  LET k == op[p].key IN
  /\ op[p].at = "posting" /\ p \in good
  /\ Becomes(p, [op[p] EXCEPT !.at = "answered"])
  /\ \/ good' = (good \ Holders(k)) \cup {p}
     \/ UNCHANGED good
  /\ Touches(k, Dealing(k) \ {p})
  /\ UNCHANGED <<clients, company, row, older, moved>>

\* The grant is revoked or lapses.
Lapses(k) ==
  /\ Holders(k) \cap good # {}
  /\ good' = good \ Holders(k)
  /\ spoilt' = spoilt \cup {k}
  /\ UNCHANGED <<clients, company, row, op, older, moved>>

-----------------------------------------------------------------------------
FlowStep(f) ==
  \/ \E u \in Users, c \in clients \cup {None} : Issue(f, u, c)
  \/ StateExpires(f)
  \/ \E r \in Realms : Exchange(f, r)
  \/ FindClient(f) \/ StoreClient(f) \/ StoreTokens(f) \/ FlowDies(f)

RequestStep(p) ==
  \/ \E u \in Users, c \in clients : Resolve(p, u, c)
  \/ Grants(p) \/ Persist(p) \/ RequestDies(p)

Next ==
  \/ \E f \in Flows : FlowStep(f)
  \/ \E p \in Requests : RequestStep(p)
  \/ \E k \in Keys : Delete(k) \/ Lapses(k) \/ \E l \in Labels : Relabel(k, l)
  \/ \E c \in clients : Disconnect(c)

Spec == Init /\ [][Next]_vars

-----------------------------------------------------------------------------
(* Properties.                                                             *)

\* A refresh that nothing overtook changes the tokens of its connection and nothing
\* else.  (One that was overtaken takes back a label, or brings back a connection
\* that was deleted.)
RefreshKeepsTheRest ==
  [][\A p \in Requests \ older : op[p].at = "answered" /\ op'[p] = Idle => row' = row]_vars

\* While no refresh and no callback is under way for a connection Intuit takes its
\* refresh token, unless it was revoked, two of them overlapped, or one was stopped
\* after Intuit's answer; and one that runs alone makes good what befell it.
StoredTokenIsGood ==
  \A k \in Present \ spoilt : Dealing(k) # {} \/ k \in good

\* The connection through which a client is read is to the client's company, unless
\* the client was moved to another company.
ConnectionIsToTheCompany ==
  \A k \in Present : company[row[k].client] = k[2] \/ row[k].client \in moved
==============================================================================
