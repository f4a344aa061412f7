-------------------------- MODULE Connections_proof --------------------------
(***************************************************************************)
(* For any operators, clients, companies, requests and OAuth flows: a      *)
(* connection is to the company of its client, a refresh that nothing      *)
(* overtook changes tokens only, and the stored token is good where        *)
(* nothing befell it.                                                      *)
(***************************************************************************)
EXTENDS Connections, TLAPS

\* A client that is not there yet has no company.
NewHasNoCompany == \A c \in Clients \ clients : company[c] = None

\* What a connection of k to client c promises.
Bound(c, k) == c \in Clients /\ (company[c] = k[2] \/ c \in moved)

\* Whoever is about to write a connection has a client that it is bound to.
WritersAreBound ==
  \A p \in Ps : op[p].at \in {"stored", "posting", "answered"} => Bound(op[p].client, op[p].key)

RowsAreBound == \A k \in Present : Bound(row[k].client, k)

CInv == TypeOK /\ NewHasNoCompany /\ WritersAreBound /\ RowsAreBound

-----------------------------------------------------------------------------
(* Types and companies.                                                    *)

LEMMA CompanyInit == Init => CInv
<1> SUFFICES ASSUME Init
             PROVE  CInv
  OBVIOUS
<1>1. \A p \in Ps : op[p] = Idle
  BY DEF Init
<1>2. Idle \in OpType /\ Idle.at = "idle"
  BY DEF OpType, Idle
<1>3. NoRow \in RowType
  BY DEF RowType
<1>4. TypeOK
  BY <1>2, <1>3 DEF Init, TypeOK
<1> QED
  BY <1>1, <1>2, <1>4 DEF Init, CInv, NewHasNoCompany, WritersAreBound, RowsAreBound, Present

\* A step that leaves the clients and their companies alone.
LEMMA BoundStays ==
  ASSUME CInv, UNCHANGED <<clients, company, moved>>,
         row' \in [Keys -> RowType], good' \subseteq Keys \cup Ps, op' \in [Ps -> OpType],
         spoilt' \subseteq Keys, older' \subseteq Requests,
         \A k \in Keys : row'[k] # NoRow => row'[k] = row[k] \/ Bound(row'[k].client, k),
         \A p \in Ps : op'[p].at \in {"stored", "posting", "answered"} =>
           \/ op'[p] = op[p]
           \/ Bound(op'[p].client, op'[p].key)
  PROVE  CInv'
<1>1. TypeOK'
  BY DEF CInv, TypeOK
<1>2. NewHasNoCompany'
  BY DEF CInv, NewHasNoCompany
<1>3. WritersAreBound'
  BY DEF CInv, WritersAreBound, Bound
<1>4. RowsAreBound'
  BY DEF CInv, RowsAreBound, Present, Bound
<1> QED
  BY <1>1, <1>2, <1>3, <1>4 DEF CInv

LEMMA PsAssumption == Requests \subseteq Ps /\ Flows \subseteq Ps
BY DEF Ps

\* Where an operation under way stands.
LEMMA OpTypes ==
  ASSUME TypeOK, NEW p \in Ps
  PROVE  /\ op[p] \in OpType
         /\ op[p].at \in {"posting", "answered"} =>
              op[p].key \in Keys /\ op[p].client \in Clients /\ op[p].label \in Labels
         /\ op[p].at = "issued" => op[p].user \in Users /\ op[p].wants \in Clients \cup {None}
         /\ op[p].at \in {"granted", "found", "stored"} =>
              /\ op[p].key \in Keys /\ op[p].wants \in Clients \cup {None}
              /\ op[p].client \in Clients \cup {None}
         /\ op[p].at \in {"idle", "issued", "granted", "found", "stored", "posting", "answered"}
<1>1. op[p] \in OpType
  BY DEF TypeOK
<1> QED
  BY <1>1 DEF OpType, Idle

LEMMA KeyParts == \A k \in Keys : k[1] \in Users /\ k[2] \in Realms
BY DEF Keys

\* A flow that goes on.
LEMMA FlowRecord ==
  ASSUME TypeOK, NEW f \in Ps, op[f].at \in {"granted", "found", "stored"}
  PROVE  op[f] \in [at : {"granted", "found", "stored"}, key : Keys,
                    wants : Clients \cup {None}, client : Clients \cup {None}]
BY OpTypes DEF TypeOK, OpType, Idle

LEMMA FailsStep ==
  ASSUME CInv, NEW f \in Flows, op[f].at \in {"granted", "found", "stored"}, Fails(f), UNCHANGED row
  PROVE  CInv'
<1>1. op[f].key \in Keys /\ op[f].key[1] \in Users /\ op[f].wants \in Clients \cup {None}
  BY OpTypes, PsAssumption, KeyParts DEF CInv
<1>2. [at |-> "issued", user |-> op[f].key[1], wants |-> op[f].wants] \in OpType
  BY <1>1 DEF OpType
<1>3. op' \in [Ps -> OpType] /\ \A p \in Ps : p # f => op'[p] = op[p]
  BY <1>2, PsAssumption DEF Fails, Becomes, CInv, TypeOK
<1>4. op'[f].at = "issued"
  BY PsAssumption DEF Fails, Becomes, CInv, TypeOK
<1> QED
  BY <1>1, <1>3, <1>4, BoundStays DEF Fails, CInv, TypeOK

LEMMA CompanyFlowStep ==
  ASSUME CInv, NEW f \in Flows, FlowStep(f)
  PROVE  CInv'
<1> USE PsAssumption
<1>1. ASSUME NEW u \in Users, NEW c \in clients \cup {None}, Issue(f, u, c)
      PROVE  CInv'
  <2>1. [at |-> "issued", user |-> u, wants |-> c] \in OpType
    BY DEF OpType, CInv, TypeOK
  <2>2. op' \in [Ps -> OpType] /\ \A p \in Ps : p # f => op'[p] = op[p]
    BY <1>1, <2>1 DEF Issue, Becomes, CInv, TypeOK
  <2>3. op'[f].at = "issued"
    BY <1>1 DEF Issue, Becomes, CInv, TypeOK
  <2> QED
    BY <1>1, <2>2, <2>3, BoundStays DEF Issue, hist, CInv, TypeOK
<1>2. CASE StateExpires(f)
  <2>1. op' \in [Ps -> OpType] /\ \A p \in Ps : p # f => op'[p] = op[p]
    BY <1>2 DEF StateExpires, Becomes, CInv, TypeOK, OpType
  <2>2. op'[f].at = "idle"
    BY <1>2 DEF StateExpires, Becomes, CInv, TypeOK, Idle
  <2> QED
    BY <1>2, <2>1, <2>2, BoundStays DEF StateExpires, hist, CInv, TypeOK
<1>3. ASSUME NEW r \in Realms, Exchange(f, r)
      PROVE  CInv'
  <2> DEFINE k == <<op[f].user, r>>
  <2>1. op[f].user \in Users /\ op[f].wants \in Clients \cup {None} /\ k \in Keys
    BY <1>3, OpTypes DEF Exchange, CInv, Keys
  <2>2. [at |-> "granted", key |-> k, wants |-> op[f].wants, client |-> None] \in OpType
    BY <2>1 DEF OpType
  <2>3. op' \in [Ps -> OpType] /\ \A p \in Ps : p # f => op'[p] = op[p]
    BY <1>3, <2>2 DEF Exchange, Becomes, CInv, TypeOK
  <2>4. op'[f].at = "granted"
    BY <1>3 DEF Exchange, Becomes, CInv, TypeOK
  <2>5. spoilt' \subseteq Keys
    BY <1>3, <2>1 DEF Exchange, Touches, CInv, TypeOK
  <2>6. good' \subseteq Keys \cup Ps
    BY <1>3 DEF Exchange, CInv, TypeOK
  <2> QED
    BY <1>3, <2>3, <2>4, <2>5, <2>6, BoundStays DEF Exchange, CInv, TypeOK
<1>4. CASE FindClient(f)
  <2>1. op[f].at = "granted"
    BY <1>4 DEF FindClient
  <2>2. op[f].key \in Keys /\ op[f].wants \in Clients \cup {None}
    BY <2>1, OpTypes DEF CInv
  <2>3. ASSUME NEW c \in clients, company[c] = op[f].key[2],
               Becomes(f, [op[f] EXCEPT !.at = "stored", !.client = c]),
               UNCHANGED <<clients, company, row, good, hist>>
        PROVE  CInv'
    <3>1. c \in Clients /\ Bound(c, op[f].key)
      BY <2>3 DEF Bound, CInv, TypeOK
    <3>2. /\ [op[f] EXCEPT !.at = "stored", !.client = c] \in OpType
          /\ [op[f] EXCEPT !.at = "stored", !.client = c].client = c
          /\ [op[f] EXCEPT !.at = "stored", !.client = c].key = op[f].key
      BY <2>1, <3>1, FlowRecord DEF CInv, OpType
    <3>3. op' \in [Ps -> OpType] /\ \A p \in Ps : p # f => op'[p] = op[p]
      BY <2>3, <3>2 DEF Becomes, CInv, TypeOK
    <3>4. Bound(op'[f].client, op'[f].key)
      BY <2>3, <3>1, <3>2 DEF Becomes, CInv, TypeOK
    <3> QED
      BY <2>3, <3>3, <3>4, BoundStays DEF hist, CInv, TypeOK
  <2>4. ASSUME NEW c \in Clients \cup {None},
               Becomes(f, [op[f] EXCEPT !.at = "found", !.client = c]),
               UNCHANGED <<clients, company, row, good, hist>>
        PROVE  CInv'
    <3>1. /\ [op[f] EXCEPT !.at = "found", !.client = c] \in OpType
          /\ [op[f] EXCEPT !.at = "found", !.client = c].at = "found"
      BY <2>1, FlowRecord DEF CInv, OpType
    <3>2. op' \in [Ps -> OpType] /\ \A p \in Ps : p # f => op'[p] = op[p]
      BY <2>4, <3>1 DEF Becomes, CInv, TypeOK
    <3>3. op'[f].at = "found"
      BY <2>4, <3>1 DEF Becomes, CInv, TypeOK
    <3> QED
      BY <2>4, <3>2, <3>3, BoundStays DEF hist, CInv, TypeOK
  <2>5. ASSUME Becomes(f, [op[f] EXCEPT !.at = "found"]),
               UNCHANGED <<clients, company, row, good, hist>>
        PROVE  CInv'
    <3>1. /\ [op[f] EXCEPT !.at = "found"] \in OpType
          /\ [op[f] EXCEPT !.at = "found"].at = "found"
      BY <2>1, FlowRecord DEF CInv, OpType
    <3>2. op' \in [Ps -> OpType] /\ \A p \in Ps : p # f => op'[p] = op[p]
      BY <2>5, <3>1 DEF Becomes, CInv, TypeOK
    <3>3. op'[f].at = "found"
      BY <2>5, <3>1 DEF Becomes, CInv, TypeOK
    <3> QED
      BY <2>5, <3>2, <3>3, BoundStays DEF hist, CInv, TypeOK
  <2>6. CASE Fails(f) /\ UNCHANGED row
    BY <2>1, <2>6, FailsStep
  <2> QED
    BY <1>4, <2>2, <2>3, <2>4, <2>5, <2>6 DEF FindClient, Fails
<1>5. CASE FlowDies(f)
  BY <1>5, FailsStep DEF FlowDies, Fails
<1>6. CASE StoreTokens(f)
  <2> DEFINE k == op[f].key
  <2>1. k \in Keys /\ op[f].client \in Clients /\ Bound(op[f].client, k)
    BY <1>6, OpTypes DEF StoreTokens, CInv, WritersAreBound, Bound
  <2>2. [client |-> op[f].client, label |-> None] \in RowType
    BY <2>1, NamesAssumption DEF RowType
  <2>3. /\ row' \in [Keys -> RowType] /\ row'[k].client = op[f].client
        /\ \A l \in Keys : l # k => row'[l] = row[l]
    BY <1>6, <2>1, <2>2 DEF StoreTokens, CInv, TypeOK
  <2>4. op' \in [Ps -> OpType] /\ \A p \in Ps : p # f => op'[p] = op[p]
    BY <1>6 DEF StoreTokens, Becomes, CInv, TypeOK, OpType
  <2>5. op'[f].at = "idle"
    BY <1>6 DEF StoreTokens, Becomes, CInv, TypeOK, Idle
  <2>6. good' \subseteq Keys \cup Ps
    BY <1>6, <2>1 DEF StoreTokens, Copy, CInv, TypeOK
  <2>7. older' \subseteq Requests
    BY <1>6 DEF StoreTokens, Overtakes, CInv, TypeOK
  <2> QED
    BY <1>6, <2>1, <2>3, <2>4, <2>5, <2>6, <2>7, BoundStays DEF StoreTokens, CInv, TypeOK
<1>7. CASE StoreClient(f)
  <2> DEFINE r == op[f].key[2]
  <2>1. op[f].at = "found" /\ op[f].client \in Clients \cup {None} /\ op[f].key \in Keys
        /\ r \in Realms
    BY <1>7, OpTypes, KeyParts DEF StoreClient, CInv
  <2>2. CASE Taken(op[f].client, r)
    BY <1>7, <2>1, <2>2, FailsStep DEF StoreClient, Fails
  <2>3. CASE ~Taken(op[f].client, r)
    <3>1. PICK c \in IF op[f].client = None THEN Clients \ clients ELSE {op[f].client} :
            /\ clients' = clients \cup {c}
            /\ company' = [company EXCEPT ![c] = r]
            /\ moved' = IF company[c] \in {None, r} THEN moved ELSE moved \cup {c}
            /\ Becomes(f, [op[f] EXCEPT !.at = "stored", !.client = c])
      BY <1>7, <2>3 DEF StoreClient, WithCompany
    <3>2. c \in Clients /\ company \in [Clients -> Realms \cup {None}] /\ r # None
      BY <2>1, <3>1, NamesAssumption DEF CInv, TypeOK
    <3>3. UNCHANGED <<row, good, spoilt, older>>
      BY <1>7, <2>3 DEF StoreClient
    <3>4. \A d \in Clients : d # c => company[d] # r
      <4>1. \A d \in clients : d # c => company[d] # r
        BY <2>3, <3>1, NamesAssumption DEF Taken, CInv, TypeOK
      <4> QED
        BY <3>2, <4>1 DEF CInv, NewHasNoCompany
    <3>5. \A d \in Clients : company'[d] = IF d = c THEN r ELSE company[d]
      BY <3>1, <3>2
    <3>6. /\ [op[f] EXCEPT !.at = "stored", !.client = c] \in OpType
          /\ [op[f] EXCEPT !.at = "stored", !.client = c].client = c
          /\ [op[f] EXCEPT !.at = "stored", !.client = c].key = op[f].key
      BY <2>1, <3>2, FlowRecord DEF CInv, OpType
    <3>7. /\ op' \in [Ps -> OpType] /\ \A p \in Ps : p # f => op'[p] = op[p]
          /\ op'[f].client = c /\ op'[f].key = op[f].key
      BY <3>1, <3>6 DEF Becomes, CInv, TypeOK
    <3>8. TypeOK'
      <4>1. \A d, e \in Clients : company'[d] = company'[e] => d = e \/ company'[d] = None
        BY <3>4, <3>5 DEF CInv, TypeOK
      <4>2. company' \in [Clients -> Realms \cup {None}]
        BY <2>1, <3>1, <3>2
      <4>3. clients' \subseteq Clients /\ moved' \subseteq Clients
        BY <3>1, <3>2 DEF CInv, TypeOK
      <4> QED
        BY <3>3, <3>7, <4>1, <4>2, <4>3 DEF CInv, TypeOK
    <3>9. NewHasNoCompany'
      BY <3>1, <3>5 DEF CInv, NewHasNoCompany
    <3>10. WritersAreBound'
      <4> SUFFICES ASSUME NEW p \in Ps, op'[p].at \in {"stored", "posting", "answered"}
                   PROVE  /\ op'[p].client \in Clients
                          /\ \/ company'[op'[p].client] = op'[p].key[2]
                             \/ op'[p].client \in moved'
        BY DEF WritersAreBound, Bound
      <4>1. CASE p = f
        BY <2>1, <3>2, <3>5, <3>7, <4>1
      <4>2. CASE p # f
        <5>1. op'[p] = op[p] /\ op[p].key \in Keys /\ Bound(op[p].client, op[p].key)
          BY <3>7, <4>2, OpTypes DEF CInv, WritersAreBound
        <5> QED
          BY <3>1, <3>2, <3>5, <5>1, KeyParts, NamesAssumption DEF Bound
      <4> QED
        BY <4>1, <4>2
    <3>11. RowsAreBound'
      <4> SUFFICES ASSUME NEW k \in Keys, row[k] # NoRow
                   PROVE  Bound(row[k].client, k)'
        BY <3>3 DEF RowsAreBound, Present, Bound
      <4>1. Bound(row[k].client, k)
        BY DEF CInv, RowsAreBound, Present
      <4> QED
        BY <3>1, <3>2, <3>3, <3>5, <4>1, KeyParts, NamesAssumption DEF Bound
    <3> QED
      BY <3>8, <3>9, <3>10, <3>11 DEF CInv
  <2> QED
    BY <2>2, <2>3
<1> QED
  BY <1>1, <1>2, <1>3, <1>4, <1>5, <1>6, <1>7 DEF FlowStep

\* A refresh under way.
LEMMA RequestRecord ==
  ASSUME TypeOK, NEW p \in Ps, op[p].at \in {"posting", "answered"}
  PROVE  op[p] \in [at : {"posting", "answered"}, key : Keys, client : Clients, label : Labels]
BY OpTypes DEF TypeOK, OpType, Idle

LEMMA RowRecord ==
  ASSUME TypeOK, NEW k \in Present
  PROVE  k \in Keys /\ row[k] \in [client : Clients, label : Labels]
BY DEF TypeOK, Present, RowType

LEMMA CompanyRequestStep ==
  ASSUME CInv, NEW p \in Requests, RequestStep(p)
  PROVE  CInv'
<1> USE PsAssumption
<1>1. ASSUME NEW u \in Users, NEW c \in clients, Resolve(p, u, c)
      PROVE  CInv'
  <2>1. PICK k \in Active(u, c) :
          /\ Becomes(p, [at |-> "posting", key |-> k,
                         client |-> row[k].client, label |-> row[k].label])
          /\ good' = IF k \in good THEN good \cup {p} ELSE good
          /\ spoilt' = IF Dealing(k) = {} THEN spoilt ELSE spoilt \cup {k}
    BY <1>1 DEF Resolve
  <2>2. k \in Present
    BY <2>1 DEF Active
  <2>3. k \in Keys /\ row[k].client \in Clients /\ row[k].label \in Labels
    BY <2>2, RowRecord DEF CInv
  <2>4. Bound(row[k].client, k)
    BY <2>2 DEF CInv, RowsAreBound
  <2>5. [at |-> "posting", key |-> k, client |-> row[k].client, label |-> row[k].label] \in OpType
    BY <2>3 DEF OpType
  <2>6. /\ op' \in [Ps -> OpType] /\ \A q \in Ps : q # p => op'[q] = op[q]
        /\ op'[p].client = row[k].client /\ op'[p].key = k
    BY <2>1, <2>5 DEF Becomes, CInv, TypeOK
  <2>7. good' \subseteq Keys \cup Ps /\ spoilt' \subseteq Keys
    BY <2>1, <2>3 DEF CInv, TypeOK
  <2> QED
    BY <1>1, <2>4, <2>6, <2>7, BoundStays DEF Resolve, CInv, TypeOK
<1>2. CASE Grants(p)
  <2>1. op[p].at = "posting" /\ op[p].key \in Keys /\ Bound(op[p].client, op[p].key)
    BY <1>2, OpTypes DEF Grants, CInv, WritersAreBound
  <2>2. /\ [op[p] EXCEPT !.at = "answered"] \in OpType
        /\ [op[p] EXCEPT !.at = "answered"].client = op[p].client
        /\ [op[p] EXCEPT !.at = "answered"].key = op[p].key
    BY <2>1, RequestRecord DEF CInv, OpType
  <2>3. /\ op' \in [Ps -> OpType] /\ \A q \in Ps : q # p => op'[q] = op[q]
        /\ op'[p].client = op[p].client /\ op'[p].key = op[p].key
    BY <1>2, <2>2 DEF Grants, Becomes, CInv, TypeOK
  <2>4. good' \subseteq Keys \cup Ps /\ spoilt' \subseteq Keys
    BY <1>2, <2>1 DEF Grants, Touches, CInv, TypeOK
  <2> QED
    BY <1>2, <2>1, <2>3, <2>4, BoundStays DEF Grants, CInv, TypeOK
<1>3. CASE Persist(p)
  <2> DEFINE k == op[p].key
  <2>1. op[p].at = "answered" /\ k \in Keys /\ Bound(op[p].client, k)
        /\ op[p].client \in Clients /\ op[p].label \in Labels
    BY <1>3, OpTypes DEF Persist, CInv, WritersAreBound
  <2>2. Written(p) \in RowType /\ Written(p).client = op[p].client
    BY <2>1 DEF Written, RowType
  <2>3. /\ row' \in [Keys -> RowType] /\ row'[k].client = op[p].client
        /\ \A l \in Keys : l # k => row'[l] = row[l]
    BY <1>3, <2>1, <2>2 DEF Persist, CInv, TypeOK
  <2>4. op' \in [Ps -> OpType] /\ \A q \in Ps : q # p => op'[q] = op[q]
    BY <1>3 DEF Persist, Becomes, CInv, TypeOK, OpType
  <2>5. op'[p].at = "idle"
    BY <1>3 DEF Persist, Becomes, CInv, TypeOK, Idle
  <2>6. good' \subseteq Keys \cup Ps
    BY <1>3, <2>1 DEF Persist, Copy, CInv, TypeOK
  <2>7. older' \subseteq Requests
    BY <1>3 DEF Persist, CInv, TypeOK
  <2> QED
    BY <1>3, <2>1, <2>3, <2>4, <2>5, <2>6, <2>7, BoundStays DEF Persist, CInv, TypeOK
<1>4. CASE RequestDies(p)
  <2>1. op[p].key \in Keys
    BY <1>4, OpTypes DEF RequestDies, CInv
  <2>2. op' \in [Ps -> OpType] /\ \A q \in Ps : q # p => op'[q] = op[q]
    BY <1>4 DEF RequestDies, Becomes, CInv, TypeOK, OpType
  <2>3. op'[p].at = "idle"
    BY <1>4 DEF RequestDies, Becomes, CInv, TypeOK, Idle
  <2>4. spoilt' \subseteq Keys
    BY <1>4, <2>1 DEF RequestDies, CInv, TypeOK
  <2> QED
    BY <1>4, <2>2, <2>3, <2>4, BoundStays DEF RequestDies, CInv, TypeOK
<1> QED
  BY <1>1, <1>2, <1>3, <1>4 DEF RequestStep

LEMMA GoneStep ==
  ASSUME CInv, NEW ks \in SUBSET Keys, Gone(ks)
  PROVE  CInv'
<1>1. row' \in [Keys -> RowType] /\ \A k \in Keys : row'[k] \in {NoRow, row[k]}
  BY DEF Gone, CInv, TypeOK, RowType
<1>2. older' \subseteq Requests
  BY DEF Gone, Overtakes, CInv, TypeOK
<1> QED
  BY <1>1, <1>2, BoundStays DEF Gone, CInv, TypeOK

LEMMA CompanyStep == CInv /\ [Next]_vars => CInv'
<1> SUFFICES ASSUME CInv, [Next]_vars
             PROVE  CInv'
  OBVIOUS
<1>1. ASSUME NEW k \in Keys, Delete(k)
      PROVE  CInv'
  BY <1>1, GoneStep DEF Delete
<1>2. ASSUME NEW c \in clients, Disconnect(c)
      PROVE  CInv'
  <2>1. {k \in Present : row[k].client = c} \in SUBSET Keys
    BY DEF Present
  <2> QED
    BY <1>2, <2>1, GoneStep DEF Disconnect
<1>3. ASSUME NEW k \in Keys, NEW l \in Labels, Relabel(k, l)
      PROVE  CInv'
  <2>1. row[k] \in [client : Clients, label : Labels] /\ Bound(row[k].client, k)
    BY <1>3, RowRecord DEF Relabel, CInv, RowsAreBound
  <2>2. [row[k] EXCEPT !.label = l] \in RowType
        /\ [row[k] EXCEPT !.label = l].client = row[k].client
    BY <2>1 DEF RowType
  <2>3. /\ row' \in [Keys -> RowType] /\ row'[k].client = row[k].client
        /\ \A m \in Keys : m # k => row'[m] = row[m]
    BY <1>3, <2>2 DEF Relabel, CInv, TypeOK
  <2>4. older' \subseteq Requests
    BY <1>3 DEF Relabel, Overtakes, CInv, TypeOK
  <2> QED
    BY <1>3, <2>1, <2>3, <2>4, BoundStays DEF Relabel, CInv, TypeOK
<1>4. ASSUME NEW k \in Keys, Lapses(k)
      PROVE  CInv'
  BY <1>4, BoundStays DEF Lapses, CInv, TypeOK
<1>5. CASE UNCHANGED vars
  BY <1>5, BoundStays DEF vars, hist, CInv, TypeOK
<1> QED
  BY CompanyFlowStep, CompanyRequestStep, <1>1, <1>2, <1>3, <1>4, <1>5 DEF Next

LEMMA CompanyInvariant == Spec => []CInv
BY CompanyInit, CompanyStep, PTL DEF Spec

\* Rows, companies and operations are well formed, and companies unique.
THEOREM TypeCorrect == Spec => []TypeOK
<1>1. CInv => TypeOK
  BY DEF CInv
<1> QED
  BY CompanyInvariant, <1>1, PTL

\* A connection is to its client's company, unless the client was moved.
THEOREM Company == Spec => []ConnectionIsToTheCompany
<1>1. CInv => ConnectionIsToTheCompany
  BY DEF CInv, RowsAreBound, Bound, ConnectionIsToTheCompany
<1> QED
  BY CompanyInvariant, <1>1, PTL

-----------------------------------------------------------------------------
(* What a refresh writes back.                                             *)

\* A refresh that nothing has overtaken holds what its connection still says.
ReadIsCurrent ==
  \A p \in Requests \ older : op[p].at \in {"posting", "answered"} => row[op[p].key] = Written(p)

\* Whoever changes a connection overtakes the refreshes of it.
LEMMA Overtaken ==
  ASSUME CInv, [Next]_vars, NEW q \in Requests, op'[q] = op[q],
         op[q].at \in {"posting", "answered"}, q \notin older'
  PROVE  q \notin older /\ row'[op[q].key] = row[op[q].key]
<1> USE PsAssumption
<1>1. op[q].key \in Keys /\ op[q] # Idle /\ op \in [Ps -> OpType]
      /\ row \in [Keys -> RowType] /\ older \subseteq Requests
  BY OpTypes DEF CInv, TypeOK, Idle
<1>2. ASSUME NEW f \in Flows, FlowStep(f)
      PROVE  q \notin older /\ row'[op[q].key] = row[op[q].key]
  <2>1. CASE StoreTokens(f)
    BY <1>1, <2>1 DEF StoreTokens, Overtakes
  <2>2. CASE ~StoreTokens(f)
    BY <1>2, <2>2 DEF FlowStep, Issue, StateExpires, Exchange, FindClient, StoreClient, FlowDies,
                      Fails, hist
  <2> QED
    BY <2>1, <2>2
<1>3. ASSUME NEW p \in Requests, RequestStep(p)
      PROVE  q \notin older /\ row'[op[q].key] = row[op[q].key]
  <2>1. CASE Persist(p)
    <3>1. p # q
      BY <1>1, <2>1 DEF Persist, Becomes
    <3>2. op[p].key \in Keys
      BY <2>1, OpTypes DEF Persist, CInv
    <3>3. op[p].key = op[q].key => q \in Dealing(op[p].key)
      BY DEF Dealing
    <3> QED
      BY <1>1, <2>1, <3>1, <3>2, <3>3 DEF Persist
  <2>2. CASE RequestDies(p)
    <3>1. p # q
      BY <1>1, <2>2 DEF RequestDies, Becomes
    <3> QED
      BY <2>2, <3>1 DEF RequestDies
  <2>3. CASE ~Persist(p) /\ ~RequestDies(p)
    BY <1>3, <2>3 DEF RequestStep, Resolve, Grants
  <2> QED
    BY <2>1, <2>2, <2>3
<1>4. ASSUME NEW ks \in SUBSET Keys, Gone(ks)
      PROVE  q \notin older /\ row'[op[q].key] = row[op[q].key]
  BY <1>1, <1>4 DEF Gone, Overtakes
<1>5. ASSUME NEW k \in Keys, Delete(k)
      PROVE  q \notin older /\ row'[op[q].key] = row[op[q].key]
  BY <1>4, <1>5 DEF Delete
<1>6. ASSUME NEW c \in clients, Disconnect(c)
      PROVE  q \notin older /\ row'[op[q].key] = row[op[q].key]
  <2>1. {k \in Present : row[k].client = c} \in SUBSET Keys
    BY DEF Present
  <2> QED
    BY <1>4, <1>6, <2>1 DEF Disconnect
<1>7. ASSUME NEW k \in Keys, NEW l \in Labels, Relabel(k, l)
      PROVE  q \notin older /\ row'[op[q].key] = row[op[q].key]
  BY <1>1, <1>7 DEF Relabel, Overtakes
<1>8. CASE UNCHANGED vars \/ \E k \in Keys : Lapses(k)
  BY <1>8 DEF Lapses, vars, hist
<1> QED
  BY <1>2, <1>3, <1>5, <1>6, <1>7, <1>8 DEF Next

LEMMA OneRequest ==
  ASSUME CInv, [Next]_vars, NEW q \in Requests
  PROVE  op'[q] = op[q] \/ RequestStep(q)
<1> USE PsAssumption
<1>1. op \in [Ps -> OpType]
  BY DEF CInv, TypeOK
<1>2. ASSUME NEW f \in Flows, FlowStep(f)
      PROVE  op'[q] = op[q]
  <2>1. f # q
    BY NamesAssumption
  <2> QED
    BY <1>1, <1>2, <2>1 DEF FlowStep, Issue, StateExpires, Exchange, FindClient, StoreClient,
                            StoreTokens, FlowDies, Fails, Becomes
<1>3. ASSUME NEW p \in Requests, p # q, RequestStep(p)
      PROVE  op'[q] = op[q]
  BY <1>1, <1>3 DEF RequestStep, Resolve, Grants, Persist, RequestDies, Becomes
<1>4. \/ \E k \in Keys : Delete(k) \/ Lapses(k) \/ \E l \in Labels : Relabel(k, l)
      \/ \E c \in clients : Disconnect(c)
      \/ UNCHANGED vars
      => op' = op
  BY DEF Delete, Disconnect, Gone, Lapses, Relabel, vars
<1> QED
  BY <1>2, <1>3, <1>4 DEF Next

LEMMA CurrentStep ==
  ASSUME CInv, ReadIsCurrent, [Next]_vars
  PROVE  ReadIsCurrent'
<1> SUFFICES ASSUME NEW q \in Requests, q \notin older', op'[q].at \in {"posting", "answered"}
             PROVE  row'[op'[q].key] = [client |-> op'[q].client, label |-> op'[q].label]
  BY DEF ReadIsCurrent, Written
<1> USE PsAssumption
<1>1. CASE op'[q] = op[q]
  BY <1>1, Overtaken DEF ReadIsCurrent, Written
<1>2. CASE RequestStep(q)
  <2>1. op \in [Ps -> OpType]
    BY DEF CInv, TypeOK
  <2>2. ~Persist(q) /\ ~RequestDies(q)
    BY <2>1 DEF Persist, RequestDies, Becomes, Idle
  <2>3. ASSUME NEW u \in Users, NEW c \in clients, Resolve(q, u, c)
        PROVE  row'[op'[q].key] = [client |-> op'[q].client, label |-> op'[q].label]
    <3>1. PICK k \in Active(u, c) :
            Becomes(q, [at |-> "posting", key |-> k,
                        client |-> row[k].client, label |-> row[k].label])
      BY <2>3 DEF Resolve
    <3>2. row[k] \in [client : Clients, label : Labels]
      BY <3>1, RowRecord DEF Active, CInv
    <3>3. row[k] = [client |-> row[k].client, label |-> row[k].label]
      BY <3>2
    <3> QED
      BY <2>1, <2>3, <3>1, <3>3 DEF Resolve, Becomes
  <2>4. CASE Grants(q)
    <3>1. op[q].at = "posting" /\ q \notin older
      BY <2>4 DEF Grants
    <3>2. row[op[q].key] = [client |-> op[q].client, label |-> op[q].label]
      BY <3>1 DEF ReadIsCurrent, Written
    <3>3. op[q] \in [at : {"posting", "answered"}, key : Keys, client : Clients, label : Labels]
      BY <3>1, RequestRecord DEF CInv
    <3>4. op'[q] = [op[q] EXCEPT !.at = "answered"]
      BY <2>1, <2>4 DEF Grants, Becomes
    <3>5. op'[q].key = op[q].key /\ op'[q].client = op[q].client /\ op'[q].label = op[q].label
      BY <3>3, <3>4
    <3> QED
      BY <2>4, <3>2, <3>5 DEF Grants
  <2> QED
    BY <1>2, <2>2, <2>3, <2>4 DEF RequestStep
<1> QED
  BY <1>1, <1>2, OneRequest

RefreshStep ==
  \A p \in Requests \ older : op[p].at = "answered" /\ op'[p] = Idle => row' = row

LEMMA RefreshIsNarrow ==
  ASSUME CInv, ReadIsCurrent, [Next]_vars
  PROVE  RefreshStep
<1> SUFFICES ASSUME NEW p \in Requests, p \notin older, op[p].at = "answered", op'[p] = Idle
             PROVE  row' = row
  BY DEF RefreshStep
<1>1. op[p] # Idle
  BY DEF Idle
<1>2. RequestStep(p)
  BY <1>1, OneRequest
<1>3. CASE Persist(p)
  <2>1. row[op[p].key] = Written(p)
    BY DEF ReadIsCurrent
  <2>2. op[p].key \in Keys /\ row \in [Keys -> RowType]
    BY OpTypes, PsAssumption DEF CInv, TypeOK
  <2> QED
    BY <1>3, <2>1, <2>2 DEF Persist
<1>4. CASE ~Persist(p)
  BY <1>2, <1>4 DEF RequestStep, Resolve, Grants, RequestDies
<1> QED
  BY <1>3, <1>4

LEMMA CurrentInvariant == Spec => [](CInv /\ ReadIsCurrent)
<1>1. Init => ReadIsCurrent
  BY PsAssumption DEF Init, ReadIsCurrent, Idle
<1>2. CInv /\ ReadIsCurrent /\ [Next]_vars => (CInv /\ ReadIsCurrent)'
  BY CompanyStep, CurrentStep
<1> QED
  BY CompanyInit, <1>1, <1>2, PTL DEF Spec

\* A refresh that nothing overtook changes the tokens of its connection only.
THEOREM RefreshKeeps == Spec => RefreshKeepsTheRest
<1>1. CInv /\ ReadIsCurrent /\ [Next]_vars => [RefreshStep]_vars
  BY RefreshIsNarrow
<1> QED
  BY CurrentInvariant, <1>1, PTL DEF Spec, RefreshKeepsTheRest, RefreshStep

-----------------------------------------------------------------------------
(* The stored token.                                                       *)

\* Where nothing befell a connection, at most one operation deals with it, and it
\* has the good token; so has the row, unless Intuit has answered that operation.
TokenIsGood(k) ==
  /\ \A p, q \in Dealing(k) : p = q
  /\ Dealing(k) = {} /\ k \in Present => k \in good
  /\ \A p \in Dealing(k) : p \in good /\ (op[p].at = "posting" => k \in good)

TokenInv == \A k \in Keys \ spoilt : TokenIsGood(k)

\* The keys whose operations, row and token a step leaves alone.
Untouched(k) ==
  /\ Dealing(k)' = Dealing(k)
  /\ \A p \in Dealing(k) : op'[p] = op[p] /\ (p \in good => p \in good')
  /\ k \in Present' => k \in Present
  /\ k \in good => k \in good'

LEMMA UntouchedStaysGood ==
  ASSUME NEW k \in Keys, TokenIsGood(k), Untouched(k)
  PROVE  TokenIsGood(k)'
BY DEF TokenIsGood, Untouched

\* A step that concerns one operation and one connection.
LEMMA OthersUntouched ==
  ASSUME CInv, NEW p \in Ps, NEW k \in Keys, \A q \in Ps : q # p => op'[q] = op[q],
         op[p].at \in {"idle", "issued"} \/ op[p].key = k,
         op'[p].at \in {"idle", "issued"} \/ op'[p].key = k,
         \A l \in Keys : l # k => row'[l] = row[l],
         good \ (Holders(k) \cup {p}) \subseteq good',
         NEW l \in Keys, l # k
  PROVE  Untouched(l)
<1>1. p \notin Dealing(l) /\ p \notin Dealing(l)'
  BY DEF Dealing
<1>2. Dealing(l)' = Dealing(l)
  BY <1>1 DEF Dealing
<1>3. \A q \in Dealing(l) : q # p /\ op'[q] = op[q] /\ q \notin Holders(k)
  BY <1>1, NamesAssumption DEF Dealing, Holders
<1>4. l \notin Holders(k) /\ l # p
  BY NamesAssumption DEF Holders, Dealing
<1> QED
  BY <1>2, <1>3, <1>4 DEF Untouched, Present

LEMMA TokenFlowStep ==
  ASSUME CInv, TokenInv, NEW f \in Flows, FlowStep(f)
  PROVE  TokenInv'
<1> SUFFICES ASSUME NEW l \in Keys, l \notin spoilt'
             PROVE  TokenIsGood(l)'
  BY DEF TokenInv
<1> USE PsAssumption
<1>1. op \in [Ps -> OpType] /\ row \in [Keys -> RowType]
  BY DEF CInv, TypeOK
<1>2. CASE \/ \E u \in Users, c \in clients \cup {None} : Issue(f, u, c)
           \/ StateExpires(f)
  <2>1. /\ \A q \in Ps : q # f => op'[q] = op[q]
        /\ op[f].at \in {"idle", "issued"} /\ op'[f].at \in {"idle", "issued"}
        /\ UNCHANGED <<row, good, spoilt>>
    BY <1>1, <1>2 DEF Issue, StateExpires, Becomes, Idle, hist
  <2>2. Untouched(l)
    BY <2>1 DEF Untouched, Dealing, Present
  <2> QED
    BY <2>1, <2>2, UntouchedStaysGood DEF TokenInv
<1>3. ASSUME NEW r \in Realms, Exchange(f, r)
      PROVE  TokenIsGood(l)'
  <2> DEFINE k == <<op[f].user, r>>
  <2>1. k \in Keys /\ op[f].at = "issued" /\ UNCHANGED row
    BY <1>3, OpTypes DEF Exchange, CInv, Keys
  <2>2. /\ \A q \in Ps : q # f => op'[q] = op[q]
        /\ op'[f].at = "granted" /\ op'[f].key = k
    BY <1>1, <1>3 DEF Exchange, Becomes
  <2>3. good' = (good \ Holders(k)) \cup {f}
    BY <1>3 DEF Exchange
  <2>4. spoilt' = IF Dealing(k) = {} THEN spoilt \ {k} ELSE spoilt \cup {k}
    BY <1>3 DEF Exchange, Touches
  <2>5. CASE l = k
    <3>1. Dealing(l) = {}
      BY <2>4, <2>5
    <3>2. Dealing(l)' = {f}
      BY <2>2, <2>5, <3>1 DEF Dealing
    <3> QED
      BY <2>2, <2>3, <2>5, <3>2 DEF TokenIsGood
  <2>6. CASE l # k
    <3>1. Untouched(l)
      BY <2>1, <2>2, <2>3, <2>6, OthersUntouched
    <3> QED
      BY <2>4, <2>6, <3>1, UntouchedStaysGood DEF TokenInv
  <2> QED
    BY <2>5, <2>6
<1>4. ASSUME op[f].at \in {"granted", "found", "stored"}, Fails(f)
      PROVE  TokenIsGood(l)'
  <2> DEFINE k == op[f].key
  <2>1. k \in Keys /\ UNCHANGED row /\ good' = good \ {f} /\ spoilt' = spoilt \cup {k}
    BY <1>4, OpTypes DEF Fails, CInv
  <2>2. /\ \A q \in Ps : q # f => op'[q] = op[q]
        /\ op'[f].at = "issued"
    BY <1>1, <1>4 DEF Fails, Becomes
  <2>3. Untouched(l)
    BY <2>1, <2>2, OthersUntouched
  <2> QED
    BY <2>1, <2>3, UntouchedStaysGood DEF TokenInv
<1>5. ASSUME op[f].at \in {"granted", "found"}, UNCHANGED <<row, good, spoilt>>,
             \A q \in Ps : q # f => op'[q] = op[q],
             op'[f].at \in {"found", "stored"}, op'[f].key = op[f].key
      PROVE  TokenIsGood(l)'
  <2>1. Dealing(l)' = Dealing(l)
    BY <1>5 DEF Dealing
  <2>2. \A p \in Dealing(l) : op'[p] = op[p] \/ op'[p].at # "posting"
    BY <1>5 DEF Dealing
  <2> QED
    BY <1>5, <2>1, <2>2 DEF TokenInv, TokenIsGood, Present
<1>6. CASE FindClient(f)
  <2>1. op[f] \in [at : {"granted", "found", "stored"}, key : Keys,
                   wants : Clients \cup {None}, client : Clients \cup {None}]
    BY <1>6, FlowRecord DEF FindClient, CInv
  <2>2. CASE Fails(f)
    BY <1>4, <1>6, <2>2 DEF FindClient
  <2>3. CASE ~Fails(f)
    <3>1. op[f].at = "granted" /\ UNCHANGED <<row, good, spoilt>>
      BY <1>6, <2>3 DEF FindClient, hist
    <3>2. /\ \A q \in Ps : q # f => op'[q] = op[q]
          /\ op'[f].at \in {"found", "stored"} /\ op'[f].key = op[f].key
      <4>1. \/ \E c : Becomes(f, [op[f] EXCEPT !.at = "stored", !.client = c])
            \/ \E c : Becomes(f, [op[f] EXCEPT !.at = "found", !.client = c])
            \/ Becomes(f, [op[f] EXCEPT !.at = "found"])
        BY <1>6, <2>3 DEF FindClient
      <4>2. CASE \E c : Becomes(f, [op[f] EXCEPT !.at = "stored", !.client = c])
        BY <1>1, <2>1, <4>2 DEF Becomes
      <4>3. CASE \E c : Becomes(f, [op[f] EXCEPT !.at = "found", !.client = c])
        BY <1>1, <2>1, <4>3 DEF Becomes
      <4>4. CASE Becomes(f, [op[f] EXCEPT !.at = "found"])
        BY <1>1, <2>1, <4>4 DEF Becomes
      <4> QED
        BY <4>1, <4>2, <4>3, <4>4
    <3> QED
      BY <1>5, <3>1, <3>2
  <2> QED
    BY <2>2, <2>3
<1>7. CASE StoreClient(f)
  <2>1. op[f] \in [at : {"granted", "found", "stored"}, key : Keys,
                   wants : Clients \cup {None}, client : Clients \cup {None}]
    BY <1>7, FlowRecord DEF StoreClient, CInv
  <2>2. CASE Taken(op[f].client, op[f].key[2])
    BY <1>4, <1>7, <2>2 DEF StoreClient
  <2>3. CASE ~Taken(op[f].client, op[f].key[2])
    <3>1. op[f].at = "found" /\ UNCHANGED <<row, good, spoilt>>
      BY <1>7, <2>3 DEF StoreClient
    <3>2. PICK c : Becomes(f, [op[f] EXCEPT !.at = "stored", !.client = c])
      BY <1>7, <2>3 DEF StoreClient
    <3>3. /\ \A q \in Ps : q # f => op'[q] = op[q]
          /\ op'[f].at \in {"found", "stored"} /\ op'[f].key = op[f].key
      BY <1>1, <2>1, <3>2 DEF Becomes
    <3> QED
      BY <1>5, <3>1, <3>3
  <2> QED
    BY <2>2, <2>3
<1>8. CASE StoreTokens(f)
  <2> DEFINE k == op[f].key
  <2>1. /\ k \in Keys /\ op[f].at = "stored" /\ UNCHANGED spoilt
        /\ \A m \in Keys : m # k => row'[m] = row[m]
        /\ good' = IF f \in good THEN (good \cup {k}) \ {f} ELSE good \ {k}
    BY <1>1, <1>8, OpTypes DEF StoreTokens, CInv, Copy
  <2>2. /\ \A q \in Ps : q # f => op'[q] = op[q]
        /\ op'[f].at = "idle"
    BY <1>1, <1>8 DEF StoreTokens, Becomes, Idle
  <2>3. CASE l = k
    <3>1. f \in Dealing(k)
      BY <2>1 DEF Dealing
    <3>2. f \in good /\ \A q \in Dealing(k) : q = f
      BY <2>1, <2>3, <3>1 DEF TokenInv, TokenIsGood
    <3>3. Dealing(l)' = {}
      BY <2>2, <2>3, <3>2 DEF Dealing
    <3>4. l \in good'
      BY <2>1, <2>3, <3>2, NamesAssumption
    <3> QED
      BY <2>3, <3>3, <3>4 DEF TokenIsGood
  <2>4. CASE l # k
    <3>1. good \ (Holders(k) \cup {f}) \subseteq good'
      BY <2>1 DEF Holders
    <3>2. Untouched(l)
      BY <2>1, <2>2, <2>4, <3>1, OthersUntouched
    <3> QED
      BY <2>1, <3>2, UntouchedStaysGood DEF TokenInv
  <2> QED
    BY <2>3, <2>4
<1>9. CASE FlowDies(f)
  BY <1>4, <1>9 DEF FlowDies
<1> QED
  BY <1>2, <1>3, <1>6, <1>7, <1>8, <1>9 DEF FlowStep

LEMMA TokenRequestStep ==
  ASSUME CInv, TokenInv, NEW p \in Requests, RequestStep(p)
  PROVE  TokenInv'
<1> SUFFICES ASSUME NEW l \in Keys, l \notin spoilt'
             PROVE  TokenIsGood(l)'
  BY DEF TokenInv
<1> USE PsAssumption
<1>1. op \in [Ps -> OpType] /\ row \in [Keys -> RowType]
  BY DEF CInv, TypeOK
<1>2. ASSUME NEW u \in Users, NEW c \in clients, Resolve(p, u, c)
      PROVE  TokenIsGood(l)'
  <2>1. PICK k \in Active(u, c) :
          /\ Becomes(p, [at |-> "posting", key |-> k,
                         client |-> row[k].client, label |-> row[k].label])
          /\ good' = IF k \in good THEN good \cup {p} ELSE good
          /\ spoilt' = IF Dealing(k) = {} THEN spoilt ELSE spoilt \cup {k}
    BY <1>2 DEF Resolve
  <2>2. k \in Present /\ k \in Keys /\ op[p] = Idle /\ UNCHANGED row
    BY <1>2, <2>1 DEF Active, Present, Resolve
  <2>3. /\ \A q \in Ps : q # p => op'[q] = op[q]
        /\ op'[p].at = "posting" /\ op'[p].key = k
    BY <1>1, <2>1 DEF Becomes
  <2>4. CASE l = k
    <3>1. Dealing(l) = {} /\ l \notin spoilt
      BY <2>1, <2>4
    <3>2. Dealing(l)' = {p}
      BY <2>3, <2>4, <3>1 DEF Dealing
    <3>3. l \in good
      BY <2>2, <2>4, <3>1 DEF TokenInv, TokenIsGood
    <3> QED
      BY <2>1, <2>4, <3>2, <3>3 DEF TokenIsGood
  <2>5. CASE l # k
    <3>1. op[p].at \in {"idle", "issued"}
      BY <2>2 DEF Idle
    <3>2. good \subseteq good'
      BY <2>1
    <3>3. Untouched(l)
      BY <2>2, <2>3, <2>5, <3>1, <3>2, OthersUntouched
    <3> QED
      BY <2>1, <3>3, UntouchedStaysGood DEF TokenInv
  <2> QED
    BY <2>4, <2>5
<1>3. CASE Grants(p)
  <2>0. PICK k \in Keys : k = op[p].key
    BY <1>3, OpTypes DEF Grants, CInv
  <2>1. op[p].key = k /\ op[p].at = "posting" /\ p \in good /\ UNCHANGED row
    BY <1>3, <2>0 DEF Grants
  <2>2. op'[p] = [op[p] EXCEPT !.at = "answered"] /\ \A q \in Ps : q # p => op'[q] = op[q]
    BY <1>1, <1>3 DEF Grants, Becomes
  <2>3. op'[p].at = "answered" /\ op'[p].key = k
    <3>1. op[p] \in [at : {"posting", "answered"}, key : Keys, client : Clients, label : Labels]
      BY <2>1, RequestRecord DEF CInv
    <3> QED
      BY <2>1, <2>2, <3>1
  <2>4. good' = (good \ Holders(k)) \cup {p} \/ good' = good
    BY <1>3, <2>0 DEF Grants
  <2>5. spoilt' = IF Dealing(k) \ {p} = {} THEN spoilt \ {k} ELSE spoilt \cup {k}
    BY <1>3, <2>0 DEF Grants, Touches
  <2>6. CASE l = k
    <3>1. Dealing(l) = {p}
      BY <2>1, <2>5, <2>6 DEF Dealing
    <3>2. Dealing(l)' = {p}
      BY <2>2, <2>3, <2>6, <3>1 DEF Dealing
    <3>3. p \in good'
      BY <2>1, <2>4
    <3> QED
      BY <2>3, <3>2, <3>3 DEF TokenIsGood
  <2>7. CASE l # k
    <3>1. good \ (Holders(k) \cup {p}) \subseteq good'
      BY <2>4
    <3>2. /\ \A m \in Keys : row'[m] = row[m]
          /\ \A q \in Ps : q # p => op'[q] = op[q]
      BY <2>1, <2>2
    <3>3. op[p].key = k /\ op'[p].key = k
      BY <2>1, <2>3
    <3>4. Untouched(l)
      BY <2>7, <3>1, <3>2, <3>3, OthersUntouched
    <3>5. l \notin spoilt
      BY <2>5, <2>7
    <3> QED
      BY <3>4, <3>5, UntouchedStaysGood DEF TokenInv
  <2> QED
    BY <2>6, <2>7
<1>4. ASSUME op[p].at \in {"posting", "answered"}, op'[p].at = "idle",
             \A q \in Ps : q # p => op'[q] = op[q],
             \A m \in Keys : m # op[p].key => row'[m] = row[m],
             good \ {op[p].key, p} \subseteq good',
             l # op[p].key, l \notin spoilt
      PROVE  TokenIsGood(l)'
  <2>1. op[p].key \in Keys
    BY <1>4, OpTypes DEF CInv
  <2>2. good \ (Holders(op[p].key) \cup {p}) \subseteq good'
    BY <1>4 DEF Holders
  <2>3. Untouched(l)
    BY <1>4, <2>1, <2>2, OthersUntouched
  <2> QED
    BY <1>4, <2>3, UntouchedStaysGood DEF TokenInv
<1>5. CASE Persist(p) \/ RequestDies(p)
  <2> DEFINE k == op[p].key
  <2>1. /\ op[p].at \in {"posting", "answered"} /\ k \in Keys
        /\ op'[p].at = "idle" /\ \A q \in Ps : q # p => op'[q] = op[q]
    BY <1>1, <1>5, OpTypes DEF Persist, RequestDies, Becomes, Idle, CInv
  <2>2. /\ \A m \in Keys : m # k => row'[m] = row[m]
        /\ good \ {k, p} \subseteq good' /\ spoilt \subseteq spoilt'
    BY <1>1, <1>5 DEF Persist, RequestDies, Copy
  <2>3. CASE l = k
    <3>1. p \in Dealing(l)
      BY <2>1, <2>3 DEF Dealing
    <3>2. /\ p \in good /\ (op[p].at = "posting" => k \in good)
          /\ \A q \in Dealing(l) : q = p
      BY <2>2, <2>3, <3>1 DEF TokenInv, TokenIsGood
    <3>3. Dealing(l)' = {}
      BY <2>1, <2>3, <3>2 DEF Dealing
    <3>4. k # p
      BY <2>1, NamesAssumption
    <3>5. l \in good'
      <4>1. CASE Persist(p)
        BY <2>3, <3>2, <3>4, <4>1 DEF Persist, Copy
      <4>2. CASE RequestDies(p)
        BY <2>3, <3>2, <3>4, <4>2 DEF RequestDies
      <4> QED
        BY <1>5, <4>1, <4>2
    <3> QED
      BY <3>3, <3>5 DEF TokenIsGood
  <2>4. CASE l # k
    BY <1>4, <2>1, <2>2, <2>4
  <2> QED
    BY <2>3, <2>4
<1> QED
  BY <1>2, <1>3, <1>5 DEF RequestStep

LEMMA TokenGoneStep ==
  ASSUME CInv, TokenInv, NEW ks \in SUBSET Keys, Gone(ks)
  PROVE  TokenInv'
<1> SUFFICES ASSUME NEW l \in Keys, l \notin spoilt'
             PROVE  TokenIsGood(l)'
  BY DEF TokenInv
<1>1. UNCHANGED op /\ good' = good \ ks /\ Dealing(l)' = Dealing(l)
      /\ spoilt' = spoilt \cup {k \in ks : Dealing(k) # {}}
  BY DEF Gone, Dealing
<1>2. row' = [k \in Keys |-> IF k \in ks THEN NoRow ELSE row[k]]
  BY DEF Gone
<1>3. CASE l \in ks
  <2>1. Dealing(l) = {}
    BY <1>1, <1>3
  <2>2. l \notin Present'
    BY <1>2, <1>3 DEF Present
  <2> QED
    BY <1>1, <2>1, <2>2 DEF TokenIsGood
<1>4. CASE l \notin ks
  <2>1. \A p \in Dealing(l) : p \notin ks
    BY NamesAssumption DEF Dealing
  <2>2. Untouched(l)
    BY <1>1, <1>2, <1>4, <2>1 DEF Untouched, Present
  <2> QED
    BY <1>1, <2>2, UntouchedStaysGood DEF TokenInv
<1> QED
  BY <1>3, <1>4

LEMMA TokenStep == CInv /\ TokenInv /\ [Next]_vars => TokenInv'
<1> SUFFICES ASSUME CInv, TokenInv, [Next]_vars
             PROVE  TokenInv'
  OBVIOUS
<1>1. ASSUME NEW k \in Keys, Delete(k)
      PROVE  TokenInv'
  BY <1>1, TokenGoneStep DEF Delete
<1>2. ASSUME NEW c \in clients, Disconnect(c)
      PROVE  TokenInv'
  <2>1. {k \in Present : row[k].client = c} \in SUBSET Keys
    BY DEF Present
  <2> QED
    BY <1>2, <2>1, TokenGoneStep DEF Disconnect
<1>3. ASSUME NEW k \in Keys, NEW l \in Labels, Relabel(k, l)
      PROVE  TokenInv'
  <2>1. UNCHANGED <<op, good, spoilt>> /\ Present' \subseteq Present
    BY <1>3 DEF Relabel, Present, CInv, TypeOK
  <2>2. \A m \in Keys : Untouched(m)
    BY <2>1 DEF Untouched, Dealing
  <2> QED
    BY <2>1, <2>2, UntouchedStaysGood DEF TokenInv
<1>4. ASSUME NEW k \in Keys, Lapses(k)
      PROVE  TokenInv'
  <2>1. UNCHANGED <<op, row>> /\ good' = good \ Holders(k) /\ spoilt' = spoilt \cup {k}
    BY <1>4 DEF Lapses
  <2>2. \A m \in Keys : m # k => Untouched(m)
    BY <2>1, NamesAssumption DEF Untouched, Dealing, Holders, Present
  <2> QED
    BY <2>1, <2>2, UntouchedStaysGood DEF TokenInv
<1>5. CASE UNCHANGED vars
  BY <1>5, UntouchedStaysGood DEF TokenInv, Untouched, Dealing, Present, vars, hist
<1> QED
  BY TokenFlowStep, TokenRequestStep, <1>1, <1>2, <1>3, <1>4, <1>5 DEF Next

\* Where nothing befell a connection, Intuit takes the refresh token of its row
\* whenever no operation deals with it.
THEOREM TokenGood == Spec => []StoredTokenIsGood
<1>1. Init => TokenInv
  BY DEF Init, TokenInv, TokenIsGood, Dealing, Present, Idle
<1>2. CInv /\ TokenInv => StoredTokenIsGood
  BY DEF TokenInv, TokenIsGood, StoredTokenIsGood, Present
<1>3. CInv /\ TokenInv /\ [Next]_vars => (CInv /\ TokenInv)'
  BY CompanyStep, TokenStep
<1> QED
  BY CompanyInit, <1>1, <1>2, <1>3, PTL DEF Spec
==============================================================================
