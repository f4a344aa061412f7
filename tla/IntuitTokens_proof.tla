-------------------------- MODULE IntuitTokens_proof --------------------------
(***************************************************************************)
(* For any clients, companies, requests and OAuth flows of mapi_v2: a      *)
(* client keeps its company against every operation begun after it was     *)
(* connected, and the stored refresh token is good and not marked where    *)
(* nothing befell it.                                                      *)
(***************************************************************************)
EXTENDS IntuitTokens, TLAPS

LEMMA PsAssumption ==
  /\ Refreshers \subseteq Ps /\ Flows \subseteq Ps /\ Callers \subseteq Refreshers
  /\ Cron \in Refreshers
BY DEF Ps, Refreshers

AtEndpoint(p) == op[p].at \in {"posting", "answered"}

\* Where an operation under way stands.
LEMMA OpTypes ==
  ASSUME TypeOK, NEW p \in Ps
  PROVE  /\ op[p] \in OpType
         /\ op[p].at \in {"idle", "refreshing", "refused", "issued", "posting", "answered"}
         /\ op[p].at = "idle" <=> op[p] = Idle
         /\ op[p].at # "idle" => op[p].client \in Clients
         /\ op[p].at = "issued" => op[p].expects \in Realms \cup {None}
         /\ AtEndpoint(p) => op[p].realm \in Realms
<1>1. op[p] \in OpType
  BY DEF TypeOK
<1> QED
  BY <1>1 DEF OpType, Idle, AtEndpoint

\* What a row is of a client that is connected, and of one that is not.
LEMMA RowTypes ==
  ASSUME TypeOK, NEW c \in Clients
  PROVE  /\ row[c] \in RowType
         /\ c \in Connected => row[c].realm \in Realms /\ row[c].flag \in BOOLEAN
         /\ c \notin Connected => row[c] = NoRow /\ row[c].realm = None
<1>1. row[c] \in RowType
  BY DEF TypeOK
<1> QED
  BY <1>1 DEF RowType, NoRow, Connected

\* What an operation may be put to.
LEMMA OpRecords ==
  /\ Idle \in OpType
  /\ \A c \in Clients :
       /\ [at |-> "refreshing", client |-> c] \in OpType
       /\ [at |-> "refused", client |-> c] \in OpType
       /\ \A r \in Realms \cup {None} :
            [at |-> "issued", client |-> c, expects |-> r] \in OpType
       /\ \A r \in Realms :
            /\ [at |-> "posting", client |-> c, realm |-> r] \in OpType
            /\ [at |-> "answered", client |-> c, realm |-> r] \in OpType
BY DEF OpType

-----------------------------------------------------------------------------
(* Types.                                                                  *)

LEMMA TypeInit == Init => TypeOK
<1> SUFFICES ASSUME Init
             PROVE  TypeOK
  OBVIOUS
<1>1. NoRow \in RowType /\ Idle \in OpType
  BY DEF RowType, OpType
<1>2. Connected = {}
  BY DEF Init, Connected
<1> QED
  BY <1>1, <1>2 DEF Init, TypeOK

\* A step of p that leaves the rows alone.
LEMMA TypeStays ==
  ASSUME TypeOK, UNCHANGED row, good' \subseteq Clients \cup Ps, op' \in [Ps -> OpType],
         todo' \subseteq Clients, spoilt' \subseteq Clients, older' \subseteq Ps
  PROVE  TypeOK'
BY DEF TypeOK, Connected

LEMMA EndsStep ==
  ASSUME TypeOK, NEW p \in Ps, Ends(p)
  PROVE  /\ op' \in [Ps -> OpType] /\ good' \subseteq good /\ older' \subseteq older
         /\ op'[p] = Idle /\ op'[p].at = "idle"
         /\ \A q \in Ps : q # p => op'[q] = op[q]
         /\ \A x \in good : x # p => x \in good'
         /\ \A x \in older : x # p => x \in older'
BY OpRecords DEF TypeOK, Ends, Becomes, Idle

LEMMA DealingClients ==
  ASSUME TypeOK, NEW ps, ps \subseteq {p \in Ps : op[p].at # "idle"}
  PROVE  ClientsOf(ps) \subseteq Clients
BY OpTypes DEF ClientsOf

LEMMA OverlapsType ==
  ASSUME TypeOK, NEW p \in Ps, NEW c \in Clients, NEW r, Overlaps(p, c, r)
  PROVE  spoilt' \subseteq Clients
<1>1. ClientsOf(Dealing(c, r)) \subseteq Clients
  BY DealingClients DEF Dealing
<1> QED
  BY <1>1 DEF Overlaps, TypeOK

LEMMA TypeRefresh ==
  ASSUME TypeOK, NEW p \in Ps, Refresh(p)
  PROVE  TypeOK'
<1>1. CASE ReadRow(p)
  <2> DEFINE c == op[p].client
  <2>1. c \in Clients /\ row[c] \in RowType
    BY <1>1, OpTypes, RowTypes DEF ReadRow
  <2>2. CASE row[c] = NoRow
    BY <1>1, <2>1, <2>2, EndsStep, TypeStays DEF ReadRow, TypeOK
  <2>3. CASE row[c] # NoRow
    <3>1. row[c].realm \in Realms
      BY <2>1, <2>3, RowTypes DEF Connected
    <3>2. op' \in [Ps -> OpType]
      <4>1. /\ [at |-> "posting", client |-> c, realm |-> row[c].realm] \in OpType
            /\ [at |-> "refused", client |-> c] \in OpType
        BY <2>1, <3>1, OpRecords
      <4> QED
        BY <1>1, <2>3, <4>1 DEF ReadRow, Becomes, TypeOK
    <3>3. spoilt' \subseteq Clients
      BY <1>1, <2>1, <2>3, OverlapsType DEF ReadRow
    <3> QED
      BY <1>1, <2>3, <3>2, <3>3, TypeStays DEF ReadRow, TypeOK
  <2> QED
    BY <2>2, <2>3
<1>2. CASE Save(p)
  <2> DEFINE c == op[p].client
             r == op[p].realm
  <2>1. c \in Clients /\ r \in Realms
    BY <1>2, OpTypes DEF Save, AtEndpoint
  <2>2. CASE BoundElsewhere(c, r)
    BY <1>2, <2>2, EndsStep, TypeStays DEF Save, TypeOK
  <2>3. CASE ~BoundElsewhere(c, r)
    <3>1. [realm |-> r, flag |-> FALSE] \in RowType
      BY <2>1 DEF RowType
    <3>2. row' \in [Clients -> RowType] /\ row'[c] = [realm |-> r, flag |-> FALSE]
      BY <1>2, <2>1, <2>3, <3>1 DEF Save, TypeOK
    <3>3. \A d \in Clients \ {c} : row'[d] = row[d]
      BY <1>2, <2>1, <2>3 DEF Save, TypeOK
    <3>4. \A d, e \in Connected' : row'[d].realm = row'[e].realm => d = e
      BY <2>1, <2>3, <3>2, <3>3 DEF Connected, BoundElsewhere, TypeOK
    <3>5. op' \in [Ps -> OpType]
      BY <1>2, <2>3, OpRecords DEF Save, Becomes, TypeOK
    <3>6. good' \subseteq Clients \cup Ps /\ older' \subseteq Ps
      BY <1>2, <2>1, <2>3 DEF Save, Stored, Of, TypeOK
    <3> QED
      BY <1>2, <3>2, <3>4, <3>5, <3>6 DEF Save, TypeOK
  <2> QED
    BY <2>2, <2>3
<1>3. CASE Flag(p)
  <2> DEFINE c == op[p].client
  <2>1. c \in Clients
    BY <1>3, OpTypes DEF Flag
  <2>2. CASE c \notin Connected
    BY <1>3, <2>2, EndsStep, TypeStays DEF Flag, TypeOK
  <2>3. CASE c \in Connected
    <3>1. row[c] \in [realm : Realms, flag : BOOLEAN]
      BY <2>1, <2>3, RowTypes DEF RowType, Connected
    <3>2. /\ row' = [row EXCEPT ![c] = [row[c] EXCEPT !.flag = TRUE]]
          /\ [row[c] EXCEPT !.flag = TRUE] \in RowType
          /\ [row[c] EXCEPT !.flag = TRUE].realm = row[c].realm
      BY <1>3, <2>3, <3>1 DEF Flag, RowType
    <3>3. /\ row' \in [Clients -> RowType]
          /\ \A d \in Clients : row'[d].realm = row[d].realm
          /\ \A d \in Clients : d # c => row'[d] = row[d]
      BY <2>1, <3>2 DEF TypeOK
    <3>4. Connected' \subseteq Connected
      BY <2>3, <3>3 DEF Connected
    <3>5. \A d, e \in Connected' : row'[d].realm = row'[e].realm => d = e
      BY <3>3, <3>4 DEF TypeOK, Connected
    <3> QED
      BY <1>3, <3>3, <3>5, EndsStep DEF Flag, TypeOK
  <2> QED
    BY <2>2, <2>3
<1> QED
  BY <1>1, <1>2, <1>3 DEF Refresh

LEMMA TypeEndpoint ==
  ASSUME TypeOK, NEW p \in Ps, Endpoint(p)
  PROVE  TypeOK'
<1> DEFINE c == op[p].client
           r == op[p].realm
<1>1. c \in Clients /\ r \in Realms
  BY OpTypes DEF Endpoint, Grants, Refuses, AtEndpoint
<1>2. CASE Grants(p)
  <2>1. op' \in [Ps -> OpType]
    BY <1>1, <1>2, OpRecords DEF Grants, Becomes, TypeOK
  <2> QED
    BY <1>2, <2>1, TypeStays DEF Grants, TypeOK
<1>3. CASE Refuses(p)
  <2>1. op' \in [Ps -> OpType] /\ good' \subseteq good /\ older' \subseteq older
    BY <1>1, <1>3, OpRecords, EndsStep DEF Refuses, Becomes, TypeOK
  <2>2. spoilt' \subseteq Clients
    BY <1>1, <1>3 DEF Refuses, TypeOK
  <2> QED
    BY <1>3, <2>1, <2>2, TypeStays DEF Refuses, TypeOK
<1> QED
  BY <1>2, <1>3 DEF Endpoint

LEMMA TypeOauth ==
  ASSUME TypeOK, NEW f \in Flows, Oauth(f)
  PROVE  TypeOK'
<1> USE PsAssumption
<1>1. ASSUME NEW c \in Clients, Connect(f, c)
      PROVE  TypeOK'
  <2>1. row[c].realm \in Realms \cup {None}
    BY RowTypes
  <2>2. op' \in [Ps -> OpType]
    BY <1>1, <2>1, OpRecords DEF Connect, Becomes, TypeOK
  <2> QED
    BY <1>1, <2>2, TypeStays DEF Connect, TypeOK
<1>2. ASSUME NEW r \in Realms, Callback(f, r)
      PROVE  TypeOK'
  <2> DEFINE c == op[f].client
  <2>1. c \in Clients
    BY <1>2, OpTypes DEF Callback
  <2>2. CASE Expected(f, r) /\ ~BoundElsewhere(c, r)
    <3>1. op' \in [Ps -> OpType]
      <4>1. [at |-> "posting", client |-> c, realm |-> r] \in OpType
        BY <2>1, OpRecords
      <4> QED
        BY <1>2, <2>2, <4>1 DEF Callback, Becomes, TypeOK
    <3>2. spoilt' \subseteq Clients
      BY <1>2, <2>1, <2>2, OverlapsType DEF Callback
    <3> QED
      BY <1>2, <2>2, <3>1, <3>2, TypeStays DEF Callback, TypeOK
  <2>3. CASE ~(Expected(f, r) /\ ~BoundElsewhere(c, r))
    BY <1>2, <2>3, EndsStep, TypeStays DEF Callback, TypeOK
  <2> QED
    BY <2>2, <2>3
<1>3. CASE StateExpires(f)
  BY <1>3, EndsStep, TypeStays DEF StateExpires, TypeOK
<1> QED
  BY <1>1, <1>2, <1>3 DEF Oauth

LEMMA TypeNext == TypeOK /\ [Next]_vars => TypeOK'
<1> SUFFICES ASSUME TypeOK, [Next]_vars
             PROVE  TypeOK'
  OBVIOUS
<1> USE PsAssumption
<1>1. ASSUME NEW p \in Ps, Dies(p)
      PROVE  TypeOK'
  <2>1. spoilt' \subseteq Clients
    BY <1>1, OpTypes DEF Dies, TypeOK
  <2> QED
    BY <1>1, <2>1, EndsStep, TypeStays DEF Dies, TypeOK
<1>2. ASSUME NEW p \in Ps, NEW c \in Clients, Resolve(p, c)
      PROVE  TypeOK'
  <2>1. op' \in [Ps -> OpType]
    BY <1>2, OpRecords DEF Resolve, Becomes, TypeOK
  <2> QED
    BY <1>2, <2>1, TypeStays DEF Resolve, TypeOK
<1>3. ASSUME NEW c \in Clients, Disconnect(c)
      PROVE  TypeOK'
  <2>1. row' \in [Clients -> RowType] /\ \A d \in Clients : d # c => row'[d] = row[d]
    BY <1>3 DEF Disconnect, TypeOK, RowType
  <2>2. row'[c] = NoRow
    BY <1>3 DEF Disconnect, TypeOK
  <2>3. \A d, e \in Connected' : row'[d].realm = row'[e].realm => d = e
    BY <2>1, <2>2 DEF TypeOK, Connected
  <2> QED
    BY <1>3, <2>1, <2>3 DEF Disconnect, TypeOK
<1>4. ASSUME NEW r \in Realms, Lapse(r)
      PROVE  TypeOK'
  <2>1. ClientsOf(Ps \cap Holders(r)) \subseteq Clients
    BY DealingClients, NamesAssumption DEF Holders, Connected
  <2> QED
    BY <1>4, <2>1, TypeStays DEF Lapse, TypeOK
<1>5. CASE CronStarts
  BY <1>5, TypeStays DEF CronStarts, TypeOK, Connected
<1>6. ASSUME NEW c \in Clients, CronNext(c)
      PROVE  TypeOK'
  <2>1. op' \in [Ps -> OpType]
    BY <1>6, OpRecords DEF CronNext, Becomes, TypeOK
  <2> QED
    BY <1>6, <2>1, TypeStays DEF CronNext, TypeOK
<1>7. CASE UNCHANGED vars
  BY <1>7, TypeStays DEF vars, TypeOK
<1> QED
  BY <1>1, <1>2, <1>3, <1>4, <1>5, <1>6, <1>7, TypeRefresh, TypeEndpoint, TypeOauth
     DEF Next, CronStep

\* The rows and the operations under way are always as the schema and the code have
\* them; no two clients have the same company.
THEOREM TypeCorrect == Spec => []TypeOK
<1> QED
  BY TypeInit, TypeNext, PTL DEF Spec

-----------------------------------------------------------------------------
(* The company of a client.                                                *)

\* The company that an operation was begun for is the client's, unless the client
\* was connected since.
SameCompany(p) ==
  op[p].client \in Connected =>
    /\ AtEndpoint(p) => op[p].realm = row[op[p].client].realm
    /\ op[p].at = "issued" => op[p].expects = row[op[p].client].realm

CompanyInv == \A p \in Ps \ older : op[p].at # "idle" => SameCompany(p)

\* A step of p: the rest is as it was, or older than the new company of its client.
LEMMA CompanyStays ==
  ASSUME TypeOK, CompanyInv, NEW p, \A q \in Ps : q # p => op'[q] = op[q],
         \A q \in Ps : q \in older /\ q # p => q \in older',
         p \in Ps \ older' /\ op'[p].at # "idle" => SameCompany(p)',
         \A q \in Ps \ older' : q # p /\ op[q].at # "idle" /\ op[q].client \in Connected' =>
           /\ op[q].client \in Connected
           /\ row'[op[q].client].realm = row[op[q].client].realm
  PROVE  CompanyInv'
<1> SUFFICES ASSUME NEW q \in Ps, q \notin older', op'[q].at # "idle"
             PROVE  SameCompany(q)'
  BY DEF CompanyInv
<1>1. CASE q = p
  BY <1>1
<1>2. CASE q # p
  BY <1>2 DEF CompanyInv, SameCompany, AtEndpoint
<1> QED
  BY <1>1, <1>2

LEMMA IdleStays ==
  ASSUME TypeOK, CompanyInv, NEW p \in Ps, Ends(p),
         \A c \in Clients : c \in Connected' => c \in Connected /\ row'[c].realm = row[c].realm
  PROVE  CompanyInv'
<1>1. /\ op'[p].at = "idle" /\ \A q \in Ps : q # p => op'[q] = op[q]
      /\ \A q \in Ps : q \in older /\ q # p => q \in older'
  BY EndsStep
<1>2. \A q \in Ps : op[q].at # "idle" => op[q].client \in Clients
  BY OpTypes
<1> QED
  BY <1>1, <1>2, CompanyStays

\* Save moves the client to the company of the operation.
LEMMA SaveStep ==
  ASSUME TypeOK, NEW p \in Ps, Save(p), ~BoundElsewhere(op[p].client, op[p].realm)
  PROVE  /\ op[p].client \in Clients /\ op[p].realm \in Realms
         /\ op'[p] = Idle /\ op'[p].at = "idle"
         /\ \A q \in Ps : q # p => op'[q] = op[q]
         /\ row'[op[p].client] = [realm |-> op[p].realm, flag |-> FALSE]
         /\ row'[op[p].client].realm = op[p].realm
         /\ \A d \in Clients : d # op[p].client => row'[d] = row[d]
<1>1. op[p].client \in Clients /\ op[p].realm \in Realms
  BY OpTypes DEF Save, AtEndpoint
<1> QED
  BY <1>1 DEF Save, Becomes, Idle, TypeOK

LEMMA FlagStep ==
  ASSUME TypeOK, NEW p \in Ps, Flag(p)
  PROVE  /\ Ends(p) /\ op[p].client \in Clients
         /\ \A d \in Clients : d # op[p].client => row'[d] = row[d]
         /\ \A d \in Clients : (d \in Connected' <=> d \in Connected) /\ row'[d].realm = row[d].realm
<1> DEFINE c == op[p].client
<1>1. c \in Clients
  BY OpTypes DEF Flag
<1>2. CASE c \notin Connected
  BY <1>1, <1>2 DEF Flag, Connected
<1>3. CASE c \in Connected
  <2>1. row[c] \in [realm : Realms, flag : BOOLEAN]
    BY <1>1, <1>3, RowTypes DEF RowType, Connected
  <2>2. row' = [row EXCEPT ![c] = [row[c] EXCEPT !.flag = TRUE]]
    BY <1>3 DEF Flag
  <2>3. row'[c].realm = row[c].realm /\ row[c].realm \in Realms
    BY <1>1, <2>1, <2>2 DEF TypeOK
  <2>4. \A d \in Clients : d # c => row'[d] = row[d]
    BY <2>2 DEF TypeOK
  <2>5. row'[c] # NoRow
    BY <2>3, NamesAssumption DEF NoRow
  <2> QED
    BY <1>1, <1>3, <2>3, <2>4, <2>5 DEF Flag, Connected
<1> QED
  BY <1>2, <1>3

LEMMA CompanyRefresh ==
  ASSUME TypeOK, CompanyInv, NEW p \in Ps, Refresh(p)
  PROVE  CompanyInv'
<1>0. \A q \in Ps : op[q].at # "idle" => op[q].client \in Clients
  BY OpTypes
<1>1. CASE ReadRow(p)
  <2> DEFINE c == op[p].client
  <2>1. CASE row[c] = NoRow
    BY <1>1, <2>1, IdleStays DEF ReadRow, Connected
  <2>2. CASE row[c] # NoRow
    <3>1. /\ \A q \in Ps : q # p => op'[q] = op[q]
          /\ \/ op'[p] = [at |-> "posting", client |-> c, realm |-> row[c].realm]
             \/ op'[p] = [at |-> "refused", client |-> c]
          /\ UNCHANGED <<row, older>>
      BY <1>1, <2>2 DEF ReadRow, Becomes, TypeOK
    <3>2. SameCompany(p)'
      BY <3>1 DEF SameCompany, AtEndpoint
    <3> QED
      BY <3>1, <3>2, CompanyStays DEF Connected
  <2> QED
    BY <2>1, <2>2
<1>2. CASE Save(p)
  <2> DEFINE c == op[p].client
             r == op[p].realm
  <2>1. CASE BoundElsewhere(c, r)
    BY <1>2, <2>1, IdleStays DEF Save, Connected
  <2>2. c \in Clients /\ r \in Realms /\ (~BoundElsewhere(c, r) => row'[c].realm = r)
    BY <1>2, SaveStep, OpTypes DEF Save, AtEndpoint
  <2>3. CASE ~BoundElsewhere(c, r)
    <3>1. older' = (older \cup IF row[c].realm # r THEN Of(c) ELSE {}) \ {p}
      BY <1>2, <2>3 DEF Save
    <3>2. ASSUME NEW q \in Ps \ older', q # p, op[q].at # "idle", op[q].client \in Connected'
          PROVE  /\ op[q].client \in Connected
                 /\ row'[op[q].client].realm = row[op[q].client].realm
      <4>1. CASE op[q].client # c
        BY <1>0, <1>2, <2>3, <3>2, <4>1, SaveStep DEF Connected
      <4>2. CASE op[q].client = c
        <5>1. q \in Of(c)
          BY <3>2, <4>2, OpTypes DEF Of
        <5>2. row[c].realm = r
          BY <3>1, <3>2, <5>1
        <5>3. c \in Connected
          BY <2>2, <5>2, RowTypes, NamesAssumption
        <5>4. row'[c].realm = r
          BY <2>3, <2>2
        <5> QED
          BY <4>2, <5>2, <5>3, <5>4
      <4> QED
        BY <4>1, <4>2
    <3>3. \A q \in Ps : q \in older /\ q # p => q \in older'
      BY <3>1
    <3>4. op'[p].at = "idle" /\ \A q \in Ps : q # p => op'[q] = op[q]
      BY <1>2, <2>3, SaveStep
    <3> QED
      BY <3>2, <3>3, <3>4, CompanyStays
  <2> QED
    BY <2>1, <2>3
<1>3. CASE Flag(p)
  BY <1>3, FlagStep, IdleStays
<1> QED
  BY <1>1, <1>2, <1>3 DEF Refresh

LEMMA CompanyOauth ==
  ASSUME TypeOK, CompanyInv, NEW f \in Flows, Oauth(f)
  PROVE  CompanyInv'
<1> USE PsAssumption
<1>1. ASSUME NEW c \in Clients, Connect(f, c)
      PROVE  CompanyInv'
  <2>1. /\ op'[f] = [at |-> "issued", client |-> c, expects |-> row[c].realm]
        /\ \A q \in Ps : q # f => op'[q] = op[q]
        /\ UNCHANGED <<row, older>>
    BY <1>1 DEF Connect, Becomes, TypeOK
  <2>2. SameCompany(f)'
    BY <2>1 DEF SameCompany, AtEndpoint
  <2> QED
    BY <2>1, <2>2, CompanyStays DEF Connected
<1>2. ASSUME NEW r \in Realms, Callback(f, r)
      PROVE  CompanyInv'
  <2> DEFINE c == op[f].client
  <2>1. c \in Clients /\ op[f].at = "issued"
    BY <1>2, OpTypes DEF Callback
  <2>2. CASE Expected(f, r) /\ ~BoundElsewhere(c, r)
    <3>1. /\ op'[f] = [at |-> "posting", client |-> c, realm |-> r]
          /\ \A q \in Ps : q # f => op'[q] = op[q]
          /\ UNCHANGED <<row, older>>
      BY <1>2, <2>2 DEF Callback, Becomes, TypeOK
    <3>2. ASSUME f \notin older, c \in Connected
          PROVE  r = row[c].realm
      <4>1. op[f].expects = row[c].realm
        BY <2>1, <3>2 DEF CompanyInv, SameCompany
      <4>2. row[c].realm # None
        BY <2>1, <3>2, RowTypes, NamesAssumption
      <4> QED
        BY <2>2, <4>1, <4>2 DEF Expected
    <3>3. f \in Ps \ older' => SameCompany(f)'
      BY <3>1, <3>2 DEF SameCompany, Connected
    <3> QED
      BY <3>1, <3>3, CompanyStays DEF Connected
  <2>3. CASE ~(Expected(f, r) /\ ~BoundElsewhere(c, r))
    BY <1>2, <2>3, IdleStays DEF Callback, Connected
  <2> QED
    BY <2>2, <2>3
<1>3. CASE StateExpires(f)
  BY <1>3, IdleStays DEF StateExpires, Connected
<1> QED
  BY <1>1, <1>2, <1>3 DEF Oauth

LEMMA CompanyNext == TypeOK /\ CompanyInv /\ [Next]_vars => CompanyInv'
<1> SUFFICES ASSUME TypeOK, CompanyInv, [Next]_vars
             PROVE  CompanyInv'
  OBVIOUS
<1> USE PsAssumption
<1>1. ASSUME NEW p \in Ps, Endpoint(p)
      PROVE  CompanyInv'
  <2>1. CASE Grants(p)
    <3>1. /\ op'[p] = [at |-> "answered", client |-> op[p].client, realm |-> op[p].realm]
          /\ op[p].at = "posting"
          /\ \A q \in Ps : q # p => op'[q] = op[q]
          /\ UNCHANGED <<row, older>>
      BY <2>1 DEF Grants, Becomes, TypeOK
    <3>2. p \in Ps \ older' => SameCompany(p)'
      BY <3>1 DEF CompanyInv, SameCompany, AtEndpoint, Connected
    <3> QED
      BY <3>1, <3>2, CompanyStays DEF Connected
  <2>2. CASE Refuses(p) /\ p \in Flows
    BY <2>2, IdleStays DEF Refuses, Connected
  <2>3. CASE Refuses(p) /\ p \notin Flows
    <3>1. /\ op'[p] = [at |-> "refused", client |-> op[p].client]
          /\ \A q \in Ps : q # p => op'[q] = op[q]
          /\ UNCHANGED <<row, older>>
      BY <2>3 DEF Refuses, Becomes, TypeOK
    <3>2. SameCompany(p)'
      BY <3>1 DEF SameCompany, AtEndpoint
    <3> QED
      BY <3>1, <3>2, CompanyStays DEF Connected
  <2> QED
    BY <1>1, <2>1, <2>2, <2>3 DEF Endpoint
<1>2. ASSUME NEW p \in Ps, Dies(p)
      PROVE  CompanyInv'
  BY <1>2, IdleStays DEF Dies, Connected
<1>3. ASSUME NEW p \in Ps, NEW c \in Clients,
             Becomes(p, [at |-> "refreshing", client |-> c]), UNCHANGED <<row, older>>
      PROVE  CompanyInv'
  <2>1. /\ op'[p] = [at |-> "refreshing", client |-> c]
        /\ \A q \in Ps : q # p => op'[q] = op[q]
    BY <1>3 DEF Becomes, TypeOK
  <2>2. SameCompany(p)'
    BY <2>1 DEF SameCompany, AtEndpoint
  <2> QED
    BY <1>3, <2>1, <2>2, CompanyStays DEF Connected
<1>4. ASSUME NEW p \in Ps, NEW c \in Clients, Resolve(p, c)
      PROVE  CompanyInv'
  BY <1>3, <1>4 DEF Resolve
<1>5. ASSUME NEW c \in Clients, Disconnect(c)
      PROVE  CompanyInv'
  BY <1>5 DEF Disconnect, CompanyInv, SameCompany, AtEndpoint, Connected, TypeOK
<1>6. ASSUME UNCHANGED <<row, op, older>>
      PROVE  CompanyInv'
  BY <1>6 DEF CompanyInv, SameCompany, AtEndpoint, Connected
<1>7. ASSUME NEW c \in Clients, CronNext(c)
      PROVE  CompanyInv'
  BY <1>3, <1>7 DEF CronNext
<1>8. (\E r \in Realms : Lapse(r)) \/ CronStarts \/ UNCHANGED vars => CompanyInv'
  BY <1>6 DEF Lapse, CronStarts, vars
<1> QED
  BY <1>1, <1>2, <1>4, <1>5, <1>7, <1>8, CompanyRefresh, CompanyOauth DEF Next, CronStep

\* A step never moves a client for an operation begun after it was connected.
LEMMA CompanyStep ==
  ASSUME TypeOK, CompanyInv, Next, NEW p \in Ps, NEW c \in Clients,
         op[p].at = "answered", op'[p] = Idle, op[p].client = c,
         row[c] # NoRow, row'[c].realm # row[c].realm
  PROVE  p \in older
<1> USE PsAssumption
<1>1. op[p] # op'[p] /\ row # row'
  BY DEF Idle
<1>2. ASSUME NEW q \in Ps, Save(q)
      PROVE  p \in older
  <2>1. ~BoundElsewhere(op[q].client, op[q].realm)
    BY <1>1, <1>2 DEF Save
  <2>2. q = p
    BY <1>1, <1>2, <2>1, SaveStep
  <2>3. op[p].realm # row[c].realm
    BY <1>2, <2>1, <2>2, SaveStep
  <2> QED
    BY <2>3 DEF CompanyInv, SameCompany, AtEndpoint, Connected
<1>3. ASSUME NEW q \in Ps, Flag(q)
      PROVE  FALSE
  BY <1>3, FlagStep
<1>4. ASSUME NEW d \in Clients, Disconnect(d)
      PROVE  FALSE
  BY <1>1, <1>4 DEF Disconnect
<1>5. ASSUME NEW q \in Ps, ReadRow(q) \/ Endpoint(q) \/ Dies(q)
      PROVE  FALSE
  BY <1>1, <1>5 DEF ReadRow, Endpoint, Grants, Refuses, Dies
<1>6. ASSUME NEW q \in Ps, NEW d \in Clients, Resolve(q, d)
      PROVE  FALSE
  BY <1>1, <1>6 DEF Resolve
<1>7. ASSUME NEW f \in Flows, Oauth(f)
      PROVE  FALSE
  BY <1>1, <1>7 DEF Oauth, Connect, Callback, StateExpires
<1>8. ASSUME NEW r \in Realms, Lapse(r)
      PROVE  FALSE
  BY <1>1, <1>8 DEF Lapse
<1>9. ~CronStep
  BY <1>1 DEF CronStep, CronStarts, CronNext
<1> QED
  BY <1>2, <1>3, <1>4, <1>5, <1>6, <1>7, <1>8, <1>9 DEF Next, Refresh

\* Anti-mixup: save, by a refresh or a callback begun after a client was connected,
\* never moves the client to another company.
THEOREM CompanyKept == Spec => CompanyIsKept
<1>1. Init => CompanyInv
  BY DEF Init, CompanyInv, Idle
<1> DEFINE Kept == \A p \in Ps : \A c \in Clients :
       /\ op[p].at = "answered" /\ op'[p] = Idle /\ op[p].client = c
       /\ row[c] # NoRow /\ row'[c].realm # row[c].realm
       => p \in older
<1>2. TypeOK /\ CompanyInv /\ [Next]_vars => [Kept]_vars
  BY CompanyStep
<1>3. CompanyIsKept <=> [][Kept]_vars
  BY DEF CompanyIsKept
<1> HIDE DEF Kept
<1> QED
  BY <1>1, <1>2, <1>3, CompanyNext, TypeInit, TypeNext, PTL DEF Spec

-----------------------------------------------------------------------------
(* The stored token.                                                       *)

BusyWith(p, c) == op[p].at \in {"posting", "answered", "refused"} /\ op[p].client = c
Usable(c) == c \in good /\ ~row[c].flag

\* An answer that Save will store over whatever the row has.
WillStore(p) == op[p].at = "answered" /\ ~BoundElsewhere(op[p].client, op[p].realm)
NoneStores(c) == \A p \in Ps : BusyWith(p, c) => ~WillStore(p)

\* Where nothing befell a client, at most one operation deals with the endpoint for
\* it, with the good token, and nobody else does for the company of either; while
\* no answer is about to be stored, the row has the good token too.
TokenIsGood(c) ==
  /\ \A p, q \in Ps : BusyWith(p, c) /\ BusyWith(q, c) => p = q
  /\ \A p \in Ps : BusyWith(p, c) =>
       /\ op[p].at # "refused"
       /\ op[p].at = "answered" \/ p \in Refreshers => p \in good
       /\ \A q \in Ps \ {p} : AtEndpoint(q) => op[q].realm # op[p].realm
  /\ c \in Connected /\ NoneStores(c) =>
       /\ Usable(c)
       /\ \A q \in Ps : AtEndpoint(q) /\ op[q].realm = row[c].realm => op[q].client = c

TokenInv == \A c \in Clients \ spoilt : TokenIsGood(c)

\* A step that leaves a client and its operations alone, and whose operation is
\* for another company if it begins.
Untouched(c) ==
  /\ \A p \in Ps : BusyWith(p, c) \/ BusyWith(p, c)' =>
       /\ op'[p] = op[p] /\ (p \in good => p \in good')
       /\ BoundElsewhere(c, op[p].realm)' => BoundElsewhere(c, op[p].realm)
  /\ row'[c] = row[c]
  /\ c \in Connected /\ NoneStores(c) /\ c \in good => c \in good'
  /\ \A q \in Ps : AtEndpoint(q)' =>
       \/ AtEndpoint(q) /\ op'[q].realm = op[q].realm /\ op'[q].client = op[q].client
       \/ /\ c \in Connected => op'[q].realm # row[c].realm
          /\ \A p \in Ps : BusyWith(p, c) => op'[q].realm # op[p].realm

LEMMA UntouchedStaysGood ==
  ASSUME NEW c \in Clients, TokenIsGood(c), Untouched(c)
  PROVE  TokenIsGood(c)'
<1>1. \A p \in Ps : BusyWith(p, c)' => BusyWith(p, c) /\ op'[p] = op[p]
  BY DEF Untouched, BusyWith
<1>2. \A p, q \in Ps : BusyWith(p, c)' /\ BusyWith(q, c)' => p = q
  BY <1>1 DEF TokenIsGood
<1>3. ASSUME NEW p \in Ps, BusyWith(p, c)'
      PROVE  /\ op'[p].at # "refused"
             /\ op'[p].at = "answered" \/ p \in Refreshers => p \in good'
             /\ \A q \in Ps \ {p} : AtEndpoint(q)' => op'[q].realm # op'[p].realm
  <2>1. BusyWith(p, c) /\ op'[p] = op[p]
    BY <1>1, <1>3
  <2>2. /\ op[p].at # "refused" /\ (op[p].at = "answered" \/ p \in Refreshers => p \in good')
        /\ \A q \in Ps \ {p} : AtEndpoint(q) => op[q].realm # op[p].realm
    BY <2>1 DEF TokenIsGood, Untouched
  <2>3. \A q \in Ps \ {p} : AtEndpoint(q)' => op'[q].realm # op[p].realm
    BY <2>1, <2>2 DEF Untouched
  <2> QED
    BY <2>1, <2>2, <2>3
<1>4. ASSUME c \in Connected', NoneStores(c)'
      PROVE  /\ Usable(c)'
             /\ \A q \in Ps : AtEndpoint(q)' /\ op'[q].realm = row'[c].realm => op'[q].client = c
  <2>1. row'[c] = row[c] /\ c \in Connected
    BY <1>4 DEF Untouched, Connected
  <2>2. NoneStores(c)
    <3> SUFFICES ASSUME NEW p \in Ps, BusyWith(p, c)
                 PROVE  ~WillStore(p)
      BY DEF NoneStores
    <3>1. op'[p] = op[p] /\ BusyWith(p, c)' /\ op[p].client = c
      BY DEF Untouched, BusyWith
    <3>2. ~WillStore(p)'
      BY <1>4, <3>1 DEF NoneStores
    <3>3. op[p].at = "answered" => BoundElsewhere(c, op[p].realm)'
      BY <3>1, <3>2 DEF WillStore, BoundElsewhere, Connected
    <3> QED
      BY <3>1, <3>3 DEF WillStore, Untouched
  <2>3. Usable(c) /\ \A q \in Ps : AtEndpoint(q) /\ op[q].realm = row[c].realm => op[q].client = c
    BY <2>1, <2>2 DEF TokenIsGood
  <2>4. Usable(c)'
    BY <2>1, <2>2, <2>3 DEF Usable, Untouched
  <2> QED
    BY <2>1, <2>2, <2>3, <2>4 DEF Untouched
<1> QED
  BY <1>2, <1>3, <1>4 DEF TokenIsGood

\* A step of p, which is for another client.
LEMMA OthersUntouched ==
  ASSUME NEW p \in Ps, NEW c \in Clients, NEW e \in Clients, e # c,
         \A q \in Ps : q # p => op'[q] = op[q],
         op[p].at \in {"posting", "answered", "refused"} => op[p].client = c,
         op'[p].at \in {"posting", "answered", "refused"} => op'[p].client = c,
         row'[e] = row[e],
         \A d \in Clients \ {e} : d \in Connected' =>
           \/ d \in Connected /\ row'[d].realm = row[d].realm
           \/ \A q \in Ps : BusyWith(q, e) => op[q].realm # row'[d].realm,
         e \in Connected /\ NoneStores(e) /\ e \in good => e \in good',
         \A q \in Ps : BusyWith(q, e) /\ q \in good => q \in good',
         AtEndpoint(p)' =>
           \/ AtEndpoint(p) /\ op'[p].realm = op[p].realm
           \/ /\ e \in Connected => op'[p].realm # row[e].realm
              /\ \A q \in Ps : BusyWith(q, e) => op'[p].realm # op[q].realm
  PROVE  Untouched(e)
<1>1. ~BusyWith(p, e) /\ ~BusyWith(p, e)'
  BY DEF BusyWith
<1>2. \A q \in Ps : BusyWith(q, e) \/ BusyWith(q, e)' =>
        /\ op'[q] = op[q] /\ BusyWith(q, e) /\ (q \in good => q \in good')
        /\ BoundElsewhere(e, op[q].realm)' => BoundElsewhere(e, op[q].realm)
  <2> SUFFICES ASSUME NEW q \in Ps, BusyWith(q, e) \/ BusyWith(q, e)'
               PROVE  /\ op'[q] = op[q] /\ BusyWith(q, e) /\ (q \in good => q \in good')
                      /\ BoundElsewhere(e, op[q].realm)' => BoundElsewhere(e, op[q].realm)
    OBVIOUS
  <2>1. q # p /\ op'[q] = op[q] /\ BusyWith(q, e)
    BY <1>1 DEF BusyWith
  <2>2. BoundElsewhere(e, op[q].realm)' => BoundElsewhere(e, op[q].realm)
    <3> SUFFICES ASSUME NEW d \in Connected' \ {e}, row'[d].realm = op[q].realm
                 PROVE  \E b \in Connected \ {e} : row[b].realm = op[q].realm
      BY <2>1 DEF BoundElsewhere
    <3>1. d \in Clients \ {e}
      BY DEF Connected
    <3>2. d \in Connected /\ row'[d].realm = row[d].realm
      BY <2>1, <3>1
    <3> QED
      BY <3>1, <3>2
  <2> QED
    BY <2>1, <2>2
<1>3. \A q \in Ps : AtEndpoint(q)' =>
       \/ AtEndpoint(q) /\ op'[q].realm = op[q].realm /\ op'[q].client = op[q].client
       \/ /\ e \in Connected => op'[q].realm # row[e].realm
          /\ \A b \in Ps : BusyWith(b, e) => op'[q].realm # op[b].realm
  <2> SUFFICES ASSUME NEW q \in Ps, AtEndpoint(q)'
               PROVE  \/ AtEndpoint(q) /\ op'[q].realm = op[q].realm /\ op'[q].client = op[q].client
                      \/ /\ e \in Connected => op'[q].realm # row[e].realm
                         /\ \A b \in Ps : BusyWith(b, e) => op'[q].realm # op[b].realm
    OBVIOUS
  <2>1. CASE q = p
    BY <2>1 DEF AtEndpoint
  <2>2. CASE q # p
    BY <2>2 DEF AtEndpoint
  <2> QED
    BY <2>1, <2>2
<1> QED
  BY <1>2, <1>3 DEF Untouched

\* A step of p outside the endpoint.
LEMMA QuietStep ==
  ASSUME TypeOK, TokenInv, NEW p \in Ps, spoilt' = spoilt, UNCHANGED row,
         \A q \in Ps : q # p => op'[q] = op[q],
         op[p].at \notin {"posting", "answered", "refused"},
         op'[p].at \notin {"posting", "answered", "refused"},
         \A x \in good : x # p => x \in good'
  PROVE  TokenInv'
<1> SUFFICES ASSUME NEW e \in Clients, e \notin spoilt
             PROVE  TokenIsGood(e)'
  BY DEF TokenInv
<1>1. \A q \in Ps : BusyWith(q, e) \/ BusyWith(q, e)' => q # p /\ op'[q] = op[q]
  BY DEF BusyWith
<1>2. e # p
  BY NamesAssumption
<1>3. \A q \in Ps : AtEndpoint(q)' => q # p /\ AtEndpoint(q) /\ op'[q] = op[q]
  BY DEF AtEndpoint
<1>4. \A q \in Ps : BusyWith(q, e) \/ BusyWith(q, e)' =>
        (BoundElsewhere(e, op[q].realm)' => BoundElsewhere(e, op[q].realm))
  BY <1>1 DEF BoundElsewhere, Connected
<1>5. Untouched(e)
  BY <1>1, <1>2, <1>3, <1>4 DEF Untouched
<1> QED
  BY <1>5, UntouchedStaysGood DEF TokenInv

\* An operation that comes to the endpoint, with the token of the row if it is a
\* refresh.
LEMMA BeginStep ==
  ASSUME TypeOK, TokenInv, NEW p \in Ps, NEW c \in Clients, NEW r \in Realms,
         UNCHANGED row, Overlaps(p, c, r), ~BoundElsewhere(c, r),
         op[p].at \notin {"posting", "answered", "refused"},
         op'[p] = [at |-> "posting", client |-> c, realm |-> r],
         \A q \in Ps : q # p => op'[q] = op[q],
         good \subseteq good',
         p \in Refreshers => c \in Connected /\ (c \in good => p \in good')
  PROVE  TokenInv'
<1> SUFFICES ASSUME NEW e \in Clients, e \notin spoilt'
             PROVE  TokenIsGood(e)'
  BY DEF TokenInv
<1>1. e \notin spoilt /\ TokenIsGood(e)
  BY DEF Overlaps, TokenInv
<1>2. op'[p].at = "posting" /\ op'[p].client = c /\ op'[p].realm = r
  OBVIOUS
<1>3. CASE e # c
  <2>1. \A q \in Ps : BusyWith(q, e) => op[q].realm # r
    <3> SUFFICES ASSUME NEW q \in Ps, BusyWith(q, e), op[q].realm = r
                 PROVE  FALSE
      OBVIOUS
    <3>1. AtEndpoint(q)
      BY <1>1 DEF BusyWith, AtEndpoint, TokenIsGood
    <3>2. q \in Dealing(c, r)
      BY <3>1 DEF Dealing, AtEndpoint
    <3>3. e \in ClientsOf(Dealing(c, r))
      BY <3>2 DEF ClientsOf, BusyWith
    <3> QED
      BY <3>2, <3>3 DEF Overlaps
  <2>2. e \in Connected => row[e].realm # r
    BY <1>3 DEF BoundElsewhere
  <2>3. \A d \in Clients : d \in Connected' => d \in Connected /\ row'[d].realm = row[d].realm
    BY DEF Connected
  <2>4. Untouched(e)
    BY <1>2, <1>3, <2>1, <2>2, <2>3, OthersUntouched
  <2> QED
    BY <1>1, <2>4, UntouchedStaysGood
<1>4. CASE e = c
  <2>1. Dealing(c, r) = {}
    BY <1>4 DEF Overlaps
  <2>2. \A q \in Ps : ~BusyWith(q, c) /\ (AtEndpoint(q) => op[q].realm # r)
    BY <2>1 DEF Dealing, BusyWith, AtEndpoint
  <2>3. c \in Connected =>
          Usable(c) /\ \A q \in Ps : AtEndpoint(q) /\ op[q].realm = row[c].realm => op[q].client = c
    BY <1>1, <1>4, <2>2 DEF TokenIsGood, NoneStores
  <2>4. \A q \in Ps : BusyWith(q, c)' => q = p
    BY <2>2 DEF BusyWith
  <2>5. p \in Refreshers => p \in good'
    BY <2>3 DEF Usable
  <2>6. \A q \in Ps \ {p} : AtEndpoint(q)' => op'[q].realm # r
    BY <2>2 DEF AtEndpoint
  <2>7. c \in Connected' =>
          /\ Usable(c)'
          /\ \A q \in Ps : AtEndpoint(q)' /\ op'[q].realm = row'[c].realm => op'[q].client = c
    BY <1>2, <2>3 DEF Connected, Usable, AtEndpoint
  <2> QED
    BY <1>2, <1>4, <2>4, <2>5, <2>6, <2>7 DEF TokenIsGood
<1> QED
  BY <1>3, <1>4

\* An operation that ends, or is refused, without having changed the company of a row.
LEMMA EndStep ==
  ASSUME TypeOK, TokenInv, NEW p \in Ps, NEW c \in Clients,
         op[p].at \in {"posting", "answered", "refused"}, op[p].client = c,
         op'[p].at \in {"idle", "refused"},
         op'[p].at = "refused" => op'[p].client = c /\ c \in spoilt',
         \A q \in Ps : q # p => op'[q] = op[q],
         spoilt \subseteq spoilt',
         \A x \in good : x # p => x \in good',
         \A d \in Clients : d # c => row'[d] = row[d],
         \A d \in Clients : (d \in Connected' <=> d \in Connected) /\ row'[d].realm = row[d].realm,
         c \notin spoilt' => row'[c] = row[c] /\ (op[p].at = "answered" => ~WillStore(p))
  PROVE  TokenInv'
<1> SUFFICES ASSUME NEW e \in Clients, e \notin spoilt'
             PROVE  TokenIsGood(e)'
  BY DEF TokenInv
<1>1. TokenIsGood(e) /\ e # p
  BY NamesAssumption DEF TokenInv
<1>2. ~AtEndpoint(p)'
  BY DEF AtEndpoint
<1>3. CASE e # c
  <2>1. \A q \in Ps : BusyWith(q, e) => q # p
    BY <1>3 DEF BusyWith
  <2>2. Untouched(e)
    BY <1>1, <1>2, <1>3, <2>1, OthersUntouched
  <2> QED
    BY <1>1, <2>2, UntouchedStaysGood
<1>4. CASE e = c
  <2>1. \A q \in Ps : BusyWith(q, c) => q = p
    BY <1>1, <1>4 DEF TokenIsGood, BusyWith
  <2>2. \A q \in Ps : ~BusyWith(q, c)'
    BY <1>4, <2>1 DEF BusyWith
  <2>3. op[p].at \in {"posting", "answered"} /\ ~WillStore(p)
    BY <1>1, <1>4 DEF TokenIsGood, BusyWith, WillStore
  <2>4. NoneStores(c)
    BY <2>1, <2>3 DEF NoneStores
  <2>5. c \in Connected' => Usable(c)'
    BY <1>1, <1>4, <2>4 DEF TokenIsGood, Usable
  <2>6. c \in Connected' =>
          \A q \in Ps : AtEndpoint(q)' /\ op'[q].realm = row'[c].realm => op'[q].client = c
    BY <1>1, <1>2, <1>4, <2>4 DEF TokenIsGood, AtEndpoint
  <2> QED
    BY <1>4, <2>2, <2>5, <2>6 DEF TokenIsGood
<1> QED
  BY <1>3, <1>4

LEMMA TokenRefresh ==
  ASSUME TypeOK, TokenInv, NEW p \in Ps, Refresh(p)
  PROVE  TokenInv'
<1>0. PICK c \in Clients : c = op[p].client
  BY OpTypes DEF Refresh, ReadRow, Save, Flag
<1>1. CASE ReadRow(p)
  <2>1. CASE row[c] = NoRow
    BY <1>0, <1>1, <2>1, EndsStep, QuietStep DEF ReadRow
  <2>2. CASE row[c] # NoRow
    <3>1. PICK r \in Realms : r = row[c].realm
      BY <2>2, RowTypes DEF Connected
    <3>2. c \in Connected /\ ~BoundElsewhere(c, r)
      BY <2>2, <3>1 DEF Connected, BoundElsewhere, TypeOK
    <3>3. /\ op[p].at = "refreshing" /\ UNCHANGED row
          /\ good \subseteq good' /\ (c \in good => p \in good')
          /\ Overlaps(p, c, r)
      BY <1>0, <1>1, <2>2, <3>1 DEF ReadRow
    <3>4. /\ \A q \in Ps : q # p => op'[q] = op[q]
          /\ \/ op'[p] = [at |-> "posting", client |-> c, realm |-> r]
             \/ c \notin good /\ op'[p] = [at |-> "refused", client |-> c]
      BY <1>0, <1>1, <2>2, <3>1 DEF ReadRow, Becomes, TypeOK
    <3>5. CASE op'[p] = [at |-> "posting", client |-> c, realm |-> r]
      BY <3>2, <3>3, <3>4, <3>5, BeginStep
    <3>6. CASE c \notin good /\ op'[p] = [at |-> "refused", client |-> c]
      <4> SUFFICES ASSUME NEW e \in Clients, e \notin spoilt'
                   PROVE  TokenIsGood(e)'
        BY DEF TokenInv
      <4>1. TokenIsGood(e) /\ e \notin spoilt
        BY <3>3 DEF TokenInv, Overlaps
      <4>2. e # c
        <5> SUFFICES ASSUME e = c
                     PROVE  FALSE
          OBVIOUS
        <5>1. Dealing(c, r) = {}
          BY <3>3 DEF Overlaps
        <5>2. NoneStores(c)
          BY <5>1 DEF NoneStores, BusyWith, Dealing
        <5> QED
          BY <3>2, <3>6, <4>1, <5>2 DEF TokenIsGood, Usable
      <4>3. /\ op'[p].at = "refused" /\ op'[p].client = c /\ ~AtEndpoint(p)'
            /\ \A d \in Clients : d \in Connected' => d \in Connected /\ row'[d].realm = row[d].realm
        BY <3>3, <3>6 DEF AtEndpoint, Connected
      <4>4. Untouched(e)
        BY <3>3, <3>4, <4>2, <4>3, OthersUntouched
      <4> QED
        BY <4>1, <4>4, UntouchedStaysGood
    <3> QED
      BY <3>4, <3>5, <3>6
  <2> QED
    BY <2>1, <2>2
<1>2. CASE Save(p)
  <2>0. PICK r \in Realms : r = op[p].realm
    BY <1>2, OpTypes DEF Save, AtEndpoint
  <2>1. op[p].at = "answered" /\ spoilt' = spoilt /\ AtEndpoint(p)
    BY <1>2 DEF Save, AtEndpoint
  <2>2. CASE BoundElsewhere(c, r)
    <3>1. Ends(p) /\ UNCHANGED row
      BY <1>0, <1>2, <2>0, <2>2 DEF Save
    <3>2. /\ op'[p].at = "idle" /\ \A q \in Ps : q # p => op'[q] = op[q]
          /\ \A x \in good : x # p => x \in good'
      BY <3>1, EndsStep
    <3>3. /\ ~WillStore(p)
          /\ \A d \in Clients : (d \in Connected' <=> d \in Connected) /\ row'[d].realm = row[d].realm
      BY <1>0, <2>0, <2>2, <3>1 DEF WillStore, Connected
    <3> QED
      BY <1>0, <2>1, <3>1, <3>2, <3>3, EndStep
  <2>3. CASE ~BoundElsewhere(c, r)
    <3>1. /\ op'[p].at = "idle" /\ \A q \in Ps : q # p => op'[q] = op[q]
          /\ row'[c].realm = r /\ row'[c] = [realm |-> r, flag |-> FALSE]
          /\ \A d \in Clients : d # c => row'[d] = row[d]
          /\ good' = Stored(p, c)
      BY <1>0, <1>2, <2>0, <2>3, SaveStep DEF Save
    <3> SUFFICES ASSUME NEW e \in Clients, e \notin spoilt
                 PROVE  TokenIsGood(e)'
      BY <2>1 DEF TokenInv
    <3>2. TokenIsGood(e) /\ ~AtEndpoint(p)'
      BY <3>1 DEF TokenInv, AtEndpoint
    <3>3. CASE e # c
      <4>1. \A q \in Ps : BusyWith(q, e) => q # p /\ op[q].realm # r
        BY <1>0, <2>0, <2>1, <3>2, <3>3 DEF TokenIsGood, BusyWith
      <4>2. \A x \in good : x # p /\ x # c => x \in good'
        BY <3>1 DEF Stored
      <4>3. e # p /\ \A q \in Ps : q # c
        BY NamesAssumption
      <4>4. \A d \in Clients \ {e} : d \in Connected' =>
              \/ d \in Connected /\ row'[d].realm = row[d].realm
              \/ \A q \in Ps : BusyWith(q, e) => op[q].realm # row'[d].realm
        BY <3>1, <4>1 DEF Connected
      <4>5. Untouched(e)
        BY <1>0, <3>1, <3>2, <3>3, <4>1, <4>2, <4>3, <4>4, OthersUntouched
      <4> QED
        BY <3>2, <4>5, UntouchedStaysGood
    <3>4. CASE e = c
      <4>1. BusyWith(p, c)
        BY <1>0, <2>1 DEF BusyWith
      <4>2. /\ p \in good
            /\ \A q \in Ps : BusyWith(q, c) => q = p
            /\ \A q \in Ps \ {p} : AtEndpoint(q) => op[q].realm # r
        BY <2>0, <2>1, <3>2, <3>4, <4>1 DEF TokenIsGood
      <4>3. \A q \in Ps : ~BusyWith(q, c)'
        BY <3>1, <4>2 DEF BusyWith
      <4>4. Usable(c)'
        BY <3>1, <4>2, NamesAssumption DEF Usable, Stored
      <4>5. \A q \in Ps : AtEndpoint(q)' => op'[q].realm # row'[c].realm
        BY <3>1, <3>2, <4>2 DEF AtEndpoint
      <4> QED
        BY <3>4, <4>3, <4>4, <4>5 DEF TokenIsGood
    <3> QED
      BY <3>3, <3>4
  <2> QED
    BY <2>2, <2>3
<1>3. CASE Flag(p)
  <2>1. op[p].at = "refused" /\ spoilt' = spoilt
    BY <1>3 DEF Flag
  <2>2. c \in spoilt
    BY <1>0, <2>1 DEF TokenInv, TokenIsGood, BusyWith
  <2>3. /\ op'[p].at = "idle" /\ \A q \in Ps : q # p => op'[q] = op[q]
        /\ \A x \in good : x # p => x \in good'
    BY <1>3, FlagStep, EndsStep
  <2>4. /\ \A d \in Clients : d # c => row'[d] = row[d]
        /\ \A d \in Clients : (d \in Connected' <=> d \in Connected) /\ row'[d].realm = row[d].realm
    BY <1>0, <1>3, FlagStep
  <2> QED
    BY <1>0, <2>1, <2>2, <2>3, <2>4, EndStep
<1> QED
  BY <1>1, <1>2, <1>3 DEF Refresh

LEMMA TokenEndpoint ==
  ASSUME TypeOK, TokenInv, NEW p \in Ps, Endpoint(p)
  PROVE  TokenInv'
<1>0. PICK c \in Clients, r \in Realms : c = op[p].client /\ r = op[p].realm
  BY OpTypes DEF Endpoint, Grants, Refuses, AtEndpoint
<1>1. op[p].at = "posting" /\ UNCHANGED row
  BY DEF Endpoint, Grants, Refuses
<1>2. \A d \in Clients : (d \in Connected' <=> d \in Connected) /\ row'[d].realm = row[d].realm
  BY <1>1 DEF Connected
<1>3. CASE Grants(p)
  <2>1. /\ op'[p].at = "answered" /\ op'[p].client = c /\ op'[p].realm = r
        /\ \A q \in Ps : q # p => op'[q] = op[q]
    BY <1>0, <1>3 DEF Grants, Becomes, TypeOK
  <2>2. /\ p \in good'
        /\ \A x \in good : x \notin Holders(r) => x \in good'
    BY <1>0, <1>3 DEF Grants
  <2>3. spoilt' = IF Alone(p, c, r) THEN spoilt \ {c} ELSE spoilt
    BY <1>0, <1>3 DEF Grants
  <2> SUFFICES ASSUME NEW e \in Clients, e \notin spoilt'
               PROVE  TokenIsGood(e)'
    BY DEF TokenInv
  <2>4. \A q \in Ps : q \notin Clients /\ e # q
    BY NamesAssumption
  <2>5. CASE e # c
    <3>1. TokenIsGood(e)
      BY <2>3, <2>5 DEF TokenInv
    <3>2. \A q \in Ps : BusyWith(q, e) => q # p /\ AtEndpoint(q) /\ op[q].realm # r
      BY <1>0, <1>1, <2>5, <3>1 DEF TokenIsGood, BusyWith, AtEndpoint
    <3>3. \A q \in Ps : BusyWith(q, e) /\ q \in good => q \in good'
      BY <2>2, <2>4, <3>2 DEF Holders, Connected
    <3>4. e \in Connected /\ NoneStores(e) => row[e].realm # r
      BY <1>0, <1>1, <2>5, <3>1 DEF TokenIsGood, AtEndpoint
    <3>5. e \in Connected /\ NoneStores(e) /\ e \in good => e \in good'
      BY <2>2, <2>4, <3>4 DEF Holders
    <3>6. AtEndpoint(p) /\ op'[p].realm = op[p].realm
      BY <1>0, <1>1, <2>1 DEF AtEndpoint
    <3>7. Untouched(e)
      BY <1>0, <1>1, <1>2, <2>1, <2>5, <3>3, <3>5, <3>6, OthersUntouched
    <3> QED
      BY <3>1, <3>7, UntouchedStaysGood
  <2>6. CASE e = c
    <3>1. BusyWith(p, c) /\ BusyWith(p, c)' /\ AtEndpoint(p)
      BY <1>0, <1>1, <2>1 DEF BusyWith, AtEndpoint
    <3>2. /\ \A q \in Ps : BusyWith(q, c) => q = p
          /\ \A q \in Ps \ {p} : AtEndpoint(q) => op[q].realm # r
      <4>1. CASE Alone(p, c, r)
        BY <1>0, <4>1 DEF Alone, Dealing, BusyWith, AtEndpoint
      <4>2. CASE c \notin spoilt
        BY <1>0, <3>1, <4>2 DEF TokenInv, TokenIsGood
      <4> QED
        BY <2>3, <2>6, <4>1, <4>2
    <3>3. \A q \in Ps : BusyWith(q, c)' => q = p
      BY <2>1, <3>2 DEF BusyWith
    <3>4. \A q \in Ps \ {p} : AtEndpoint(q)' => op'[q].realm # op'[p].realm
      BY <2>1, <3>2 DEF AtEndpoint
    <3>5. ASSUME c \in Connected', NoneStores(c)'
          PROVE  /\ Usable(c)'
                 /\ \A q \in Ps : AtEndpoint(q)' /\ op'[q].realm = row'[c].realm => op'[q].client = c
      <4>1. ~WillStore(p)'
        BY <3>1, <3>5 DEF NoneStores
      <4>2. BoundElsewhere(c, r)'
        BY <2>1, <4>1 DEF WillStore, BoundElsewhere, Connected
      <4>3. PICK d \in Connected \ {c} : row[d].realm = r
        BY <1>1, <4>2 DEF BoundElsewhere, Connected
      <4>4. c \notin spoilt
        BY <2>3, <2>6, <4>3 DEF Alone
      <4>5. c \in Connected /\ NoneStores(c)
        BY <1>1, <3>2, <3>5 DEF NoneStores, WillStore, Connected
      <4>6. Usable(c) /\ \A q \in Ps : AtEndpoint(q) /\ op[q].realm = row[c].realm => op[q].client = c
        BY <4>4, <4>5 DEF TokenInv, TokenIsGood
      <4>7. row[c].realm # r
        BY <4>3, <4>5 DEF TypeOK
      <4>8. c \notin Holders(r)
        BY <2>4, <4>7 DEF Holders
      <4>9. Usable(c)'
        BY <1>1, <2>2, <4>6, <4>8 DEF Usable
      <4> QED
        BY <1>0, <1>1, <2>1, <4>6, <4>9 DEF AtEndpoint
    <3> QED
      BY <2>1, <2>2, <2>6, <3>3, <3>4, <3>5 DEF TokenIsGood
  <2> QED
    BY <2>5, <2>6
<1>4. CASE Refuses(p)
  <2>1. /\ spoilt \subseteq spoilt'
        /\ p \notin Flows => c \in spoilt'
    BY <1>0, <1>1, <1>4 DEF Refuses, Taken, TokenInv, TokenIsGood, BusyWith, Ps
  <2>2. /\ op'[p].at \in {"idle", "refused"}
        /\ op'[p].at = "refused" => p \notin Flows /\ op'[p].client = c
        /\ \A q \in Ps : q # p => op'[q] = op[q]
        /\ \A x \in good : x # p => x \in good'
    <3>1. CASE p \in Flows
      BY <1>4, <3>1, EndsStep DEF Refuses
    <3>2. CASE p \notin Flows
      BY <1>0, <1>4, <3>2 DEF Refuses, Becomes, TypeOK
    <3> QED
      BY <3>1, <3>2
  <2> QED
    BY <1>0, <1>1, <1>2, <2>1, <2>2, EndStep
<1> QED
  BY <1>3, <1>4 DEF Endpoint

LEMMA TokenOauth ==
  ASSUME TypeOK, TokenInv, NEW f \in Flows, Oauth(f)
  PROVE  TokenInv'
<1> USE PsAssumption
<1>1. ASSUME NEW c \in Clients, Connect(f, c)
      PROVE  TokenInv'
  <2>1. /\ op[f].at = "idle" /\ op'[f].at = "issued"
        /\ \A q \in Ps : q # f => op'[q] = op[q]
    BY <1>1 DEF Connect, Becomes, TypeOK, Idle
  <2> QED
    BY <1>1, <2>1, QuietStep DEF Connect
<1>2. ASSUME NEW r \in Realms, Callback(f, r)
      PROVE  TokenInv'
  <2>1. PICK c \in Clients : c = op[f].client
    BY <1>2, OpTypes DEF Callback
  <2>2. CASE Expected(f, r) /\ ~BoundElsewhere(c, r)
    <3>1. /\ op[f].at = "issued" /\ op'[f] = [at |-> "posting", client |-> c, realm |-> r]
          /\ \A q \in Ps : q # f => op'[q] = op[q]
          /\ Overlaps(f, c, r) /\ UNCHANGED <<row, good>>
      BY <1>2, <2>1, <2>2 DEF Callback, Becomes, TypeOK
    <3>2. f \notin Refreshers
      BY NamesAssumption
    <3> QED
      BY <2>2, <3>1, <3>2, BeginStep
  <2>3. CASE ~(Expected(f, r) /\ ~BoundElsewhere(c, r))
    BY <1>2, <2>1, <2>3, EndsStep, QuietStep DEF Callback
  <2> QED
    BY <2>2, <2>3
<1>3. CASE StateExpires(f)
  BY <1>3, EndsStep, QuietStep DEF StateExpires
<1> QED
  BY <1>1, <1>2, <1>3 DEF Oauth

LEMMA TokenDies ==
  ASSUME TypeOK, TokenInv, NEW p \in Ps, Dies(p)
  PROVE  TokenInv'
<1>0. PICK c \in Clients : c = op[p].client
  BY OpTypes DEF Dies
<1>1. /\ op'[p].at = "idle" /\ \A q \in Ps : q # p => op'[q] = op[q]
      /\ \A x \in good : x # p => x \in good'
      /\ UNCHANGED row
  BY EndsStep DEF Dies
<1>2. CASE op[p].at = "refreshing"
  BY <1>1, <1>2, QuietStep DEF Dies
<1>3. CASE op[p].at # "refreshing"
  <2>1. op[p].at \in {"posting", "answered", "refused"} /\ spoilt \subseteq spoilt'
    BY <1>3 DEF Dies
  <2>2. op[p].at = "answered" => c \in spoilt'
    BY <1>0 DEF Dies
  <2>3. \A d \in Clients : (d \in Connected' <=> d \in Connected) /\ row'[d].realm = row[d].realm
    BY <1>1 DEF Connected
  <2> QED
    BY <1>0, <1>1, <2>1, <2>2, <2>3, EndStep
<1> QED
  BY <1>2, <1>3

LEMMA TokenDisconnect ==
  ASSUME TypeOK, TokenInv, NEW c \in Clients, Disconnect(c)
  PROVE  TokenInv'
<1> SUFFICES ASSUME NEW e \in Clients, e \notin spoilt'
             PROVE  TokenIsGood(e)'
  BY DEF TokenInv
<1>1. /\ UNCHANGED op /\ good' = good \ {c} /\ row'[c] = NoRow
      /\ \A d \in Clients : d # c => row'[d] = row[d]
  BY DEF Disconnect, TypeOK
<1>2. TokenIsGood(e)
  BY DEF Disconnect, TokenInv
<1>3. CASE e = c
  <2>1. \A q \in Ps : ~BusyWith(q, c)
    <3> SUFFICES ASSUME NEW q \in Ps, BusyWith(q, c)
                 PROVE  FALSE
      OBVIOUS
    <3>1. q \in Of(c)
      BY DEF Of, BusyWith, Idle
    <3>2. Busy(c)
      BY <3>1 DEF Busy, BusyWith
    <3> QED
      BY <1>3, <3>2 DEF Disconnect
  <2>2. c \notin Connected'
    BY <1>1 DEF Connected
  <2> QED
    BY <1>1, <1>3, <2>1, <2>2 DEF TokenIsGood, BusyWith
<1>4. CASE e # c
  <2>1. \A d \in Clients : d \in Connected' => d \in Connected /\ row'[d] = row[d]
    BY <1>1 DEF Connected
  <2>2. \A p \in Ps : BoundElsewhere(e, op[p].realm)' => BoundElsewhere(e, op[p].realm)
    BY <1>1, <2>1 DEF BoundElsewhere, Connected
  <2>3. \A p \in Ps : p # c /\ e # p
    BY NamesAssumption
  <2>4. Untouched(e)
    BY <1>1, <1>4, <2>2, <2>3 DEF Untouched, BusyWith, AtEndpoint
  <2> QED
    BY <1>2, <2>4, UntouchedStaysGood
<1> QED
  BY <1>3, <1>4

LEMMA TokenLapse ==
  ASSUME TypeOK, TokenInv, NEW r \in Realms, Lapse(r)
  PROVE  TokenInv'
<1> SUFFICES ASSUME NEW e \in Clients, e \notin spoilt'
             PROVE  TokenIsGood(e)'
  BY DEF TokenInv
<1>1. TokenIsGood(e) /\ UNCHANGED <<row, op>>
  BY DEF Lapse, TokenInv
<1>2. e \notin Holders(r)
  BY DEF Lapse
<1>3. \A p \in Ps : BusyWith(p, e) => p \notin Holders(r)
  BY DEF Lapse, ClientsOf, BusyWith
<1>4. \A p \in Ps : BoundElsewhere(e, op[p].realm)' => BoundElsewhere(e, op[p].realm)
  BY <1>1 DEF BoundElsewhere, Connected
<1>5. Untouched(e)
  BY <1>1, <1>2, <1>3, <1>4 DEF Untouched, Lapse, BusyWith, AtEndpoint
<1> QED
  BY <1>1, <1>5, UntouchedStaysGood

LEMMA TokenNext == TypeOK /\ TokenInv /\ [Next]_vars => TokenInv'
<1> SUFFICES ASSUME TypeOK, TokenInv, [Next]_vars
             PROVE  TokenInv'
  OBVIOUS
<1> USE PsAssumption
<1>1. ASSUME NEW p \in Ps, NEW c \in Clients, op[p] = Idle,
             Becomes(p, [at |-> "refreshing", client |-> c]), UNCHANGED <<row, good, spoilt>>
      PROVE  TokenInv'
  <2>1. /\ op[p].at = "idle" /\ op'[p].at = "refreshing"
        /\ \A q \in Ps : q # p => op'[q] = op[q]
    BY <1>1 DEF Becomes, TypeOK, Idle
  <2> QED
    BY <1>1, <2>1, QuietStep
<1>2. ASSUME NEW p \in Ps, NEW c \in Clients, Resolve(p, c)
      PROVE  TokenInv'
  BY <1>1, <1>2 DEF Resolve
<1>3. ASSUME NEW c \in Clients, CronNext(c)
      PROVE  TokenInv'
  BY <1>1, <1>3 DEF CronNext
<1>4. ASSUME UNCHANGED <<row, good, op, spoilt>>
      PROVE  TokenInv'
  BY <1>4 DEF TokenInv, TokenIsGood, BusyWith, AtEndpoint, NoneStores, WillStore, BoundElsewhere,
              Usable, Connected
<1>5. CronStarts \/ UNCHANGED vars => TokenInv'
  BY <1>4 DEF CronStarts, vars
<1> QED
  BY <1>2, <1>3, <1>5, TokenRefresh, TokenEndpoint, TokenOauth, TokenDies, TokenDisconnect,
     TokenLapse DEF Next, CronStep

LEMMA TokenInit == Init => TokenInv
<1> SUFFICES ASSUME Init, NEW c \in Clients
             PROVE  TokenIsGood(c)
  BY DEF TokenInv
<1>1. \A p \in Ps : op[p].at = "idle"
  BY DEF Init, Idle
<1>2. c \notin Connected
  BY DEF Init, Connected
<1> QED
  BY <1>1, <1>2 DEF TokenIsGood, BusyWith

\* Where nothing befell a client and no operation is under way for it at the token
\* endpoint, the row that the refreshes and callbacks left has the good token.
THEOREM TokenGood == Spec => []StoredTokenIsGood
<1>1. TypeOK /\ TokenInv => StoredTokenIsGood
  <2> SUFFICES ASSUME TypeOK, TokenInv, NEW c \in Connected \ spoilt, ~Busy(c)
               PROVE  ~Dead(c) /\ ~row[c].flag
    BY DEF StoredTokenIsGood
  <2>1. \A p \in Ps : ~BusyWith(p, c)
    BY DEF Busy, BusyWith, Of, Idle
  <2>2. c \in Clients /\ NoneStores(c)
    BY <2>1 DEF Connected, NoneStores
  <2> QED
    BY <2>2 DEF TokenInv, TokenIsGood, Usable, Dead
<1> QED
  BY <1>1, TokenInit, TokenNext, TypeInit, TypeNext, PTL DEF Spec
==============================================================================
