-------------------------- MODULE Permissions_proof --------------------------
(***************************************************************************)
(* For any users, codes, requests and calls, and any finite set of roles:  *)
(* the only ways to be served permissions that the tables do not say, and  *)
(* the only ways to lose the last role.                                    *)
(***************************************************************************)
EXTENDS Permissions, FiniteSetTheorems, TLAPS

RoleCall == [at : {"writing", "selecting", "erasing"}, what : RoleEdits, role : Roles,
             codes : SUBSET Codes]
UserCall == [at : {"writing"}, what : UserEdits, user : Users, role : Roles,
             codes : SUBSET Codes, count : Nat]
Erasing == [at : {"erasing"}, what : {"delete"}, role : Roles, codes : SUBSET Codes]

\* Where a call stands.
LEMMA CallTypes ==
  ASSUME TypeOK, NEW a \in Calls
  PROVE  /\ call[a] \in CallType
         /\ call[a].at \in {"idle", "done", "writing", "selecting", "erasing", "deleting", "emptying"}
         /\ call[a].at \in {"selecting", "erasing"} => call[a] \in RoleCall
         /\ call[a].at = "writing" /\ call[a].what \in RoleEdits => call[a] \in RoleCall
         /\ call[a].at = "writing" /\ call[a].what \in UserEdits => call[a] \in UserCall
         /\ call[a].at = "deleting" => call[a] \in [at : {"deleting"}, keys : SUBSET Users]
         /\ call[a].at = "emptying" =>
              call[a] \in [at : {"emptying"}, keys : SUBSET Users, then : Erasing]
<1>1. call[a] \in CallType
  BY DEF TypeOK
<1> QED
  BY <1>1 DEF CallType, RoleCall, UserCall, Erasing, RoleEdits, UserEdits

LEMMA CallRecords ==
  /\ [at |-> "done"] \in CallType /\ RoleCall \subseteq CallType /\ UserCall \subseteq CallType
  /\ \A us \in SUBSET Users :
       /\ [at |-> "deleting", keys |-> us] \in CallType
       /\ \A next \in Erasing : [at |-> "emptying", keys |-> us, then |-> next] \in CallType
  /\ Erasing \subseteq CallType
BY DEF CallType, RoleCall, UserCall, Erasing, RoleEdits

\* Where a request stands.
LEMMA ReqTypes ==
  ASSUME TypeOK, NEW r \in Requests
  PROVE  /\ req[r] \in ReqType
         /\ req[r].at \in {"idle", "roles", "codes", "overrides", "filling"}
         /\ req[r].at # "idle" => req[r].user \in Users
         /\ req[r].at = "codes" =>
              req[r] \in [at : {"codes"}, user : Users, roles : SUBSET Roles]
         /\ req[r].at \in {"overrides", "filling"} =>
              req[r] \in [at : {"overrides", "filling"}, user : Users, codes : SUBSET Codes]
<1>1. req[r] \in ReqType
  BY DEF TypeOK
<1> QED
  BY <1>1 DEF ReqType

LEMMA ReqRecords ==
  /\ [at |-> "idle"] \in ReqType
  /\ \A u \in Users :
       /\ [at |-> "roles", user |-> u] \in ReqType
       /\ \A xs \in SUBSET Roles : [at |-> "codes", user |-> u, roles |-> xs] \in ReqType
       /\ \A cs \in SUBSET Codes :
            /\ [at |-> "overrides", user |-> u, codes |-> cs] \in ReqType
            /\ [at |-> "filling", user |-> u, codes |-> cs] \in ReqType
BY DEF ReqType

-----------------------------------------------------------------------------
(* Types.                                                                  *)

\* What the tables are.
TablesOK ==
  /\ made \in [Roles -> {"none", "there", "gone"}]
  /\ rolePerms \in [Roles -> SUBSET Codes]
  /\ userRoles \in [Users -> SUBSET Roles]
  /\ granted \in [Users -> SUBSET Codes]
  /\ denied \in [Users -> SUBSET Codes]
  /\ \A u \in Users : \A x \in userRoles[u] : made[x] = "there"
  /\ \A u \in Users : granted[u] \cap denied[u] = {}

\* What the cache, the requests and the calls are.
RunsOK ==
  /\ cached \subseteq Users
  /\ codesIn \in [Users -> SUBSET Codes]
  /\ req \in [Requests -> ReqType]
  /\ call \in [Calls -> CallType]
  /\ touched \subseteq Requests
  /\ excused \subseteq Users

LEMMA TypeParts == TypeOK <=> TablesOK /\ RunsOK
BY DEF TypeOK, TablesOK, RunsOK

LEMMA TypeInit == Init => TypeOK
<1> SUFFICES ASSUME Init
             PROVE  TypeOK
  OBVIOUS
<1>1. There \subseteq Roles /\ \A x \in There : made[x] = "there"
  BY DEF There
<1>2. userRoles \in [Users -> SUBSET Roles] /\ \A u \in Users : userRoles[u] \subseteq There
  BY <1>1 DEF Init
<1>3. /\ req \in [Requests -> ReqType] /\ call \in [Calls -> CallType]
      /\ codesIn \in [Users -> SUBSET Codes]
      /\ granted \in [Users -> SUBSET Codes] /\ denied \in [Users -> SUBSET Codes]
  BY DEF Init, ReqType, CallType
<1>4. \A u \in Users : granted[u] \cap denied[u] = {}
  BY DEF Init
<1> QED
  BY <1>1, <1>2, <1>3, <1>4 DEF Init, TypeOK

LEMMA TypeRequest ==
  ASSUME TypeOK, NEW r \in Requests, RequestStep(r) \/ RequestDies(r)
  PROVE  TypeOK'
<1>1. CASE ReadRoles(r)
  <2>1. PICK u \in Users : u = req[r].user
    BY <1>1, ReqTypes DEF ReadRoles
  <2>2. userRoles[u] \in SUBSET Roles
    BY DEF TypeOK
  <2>3. /\ [at |-> "overrides", user |-> u, codes |-> {}] \in ReqType
        /\ [at |-> "codes", user |-> u, roles |-> userRoles[u]] \in ReqType
    BY <2>2, ReqRecords
  <2>4. req' \in [Requests -> ReqType]
    BY <1>1, <2>1, <2>3 DEF ReadRoles, TypeOK
  <2> QED
    BY <1>1, <2>4 DEF ReadRoles, TypeOK, tables, cache, hist
<1>2. CASE ReadCodes(r)
  <2>1. PICK u \in Users : u = req[r].user
    BY <1>2, ReqTypes DEF ReadCodes
  <2>2. req[r].roles \subseteq Roles
    BY <1>2, ReqTypes DEF ReadCodes
  <2>3. UNION {rolePerms[x] : x \in req[r].roles} \in SUBSET Codes
    BY <2>2 DEF TypeOK
  <2>4. [at |-> "overrides", user |-> u, codes |-> UNION {rolePerms[x] : x \in req[r].roles}]
          \in ReqType
    BY <2>3, ReqRecords
  <2>5. req' \in [Requests -> ReqType]
    BY <1>2, <2>1, <2>4 DEF ReadCodes, TypeOK
  <2> QED
    BY <1>2, <2>5 DEF ReadCodes, TypeOK, tables, cache, hist
<1>3. CASE ReadOverrides(r)
  <2>1. req[r] \in [at : {"overrides", "filling"}, user : Users, codes : SUBSET Codes]
    BY <1>3, ReqTypes DEF ReadOverrides
  <2>2. Merged(req[r].user, req[r].codes) \in SUBSET Codes
    BY <2>1 DEF Merged, TypeOK
  <2>3. [req[r] EXCEPT !.at = "filling", !.codes = Merged(req[r].user, req[r].codes)] \in ReqType
    BY <2>1, <2>2 DEF ReqType
  <2>4. req' \in [Requests -> ReqType]
    BY <1>3, <2>3 DEF ReadOverrides, TypeOK
  <2> QED
    BY <1>3, <2>4 DEF ReadOverrides, TypeOK, tables, cache, hist
<1>4. ASSUME Forget(r)
      PROVE  req' \in [Requests -> ReqType] /\ touched' \subseteq Requests
  BY <1>4, ReqRecords DEF Forget, TypeOK
<1>5. CASE Fill(r)
  <2>1. req[r].user \in Users /\ req[r].codes \in SUBSET Codes
    BY <1>5, ReqTypes DEF Fill
  <2>2. cached' \subseteq Users /\ excused' \subseteq Users /\ codesIn' \in [Users -> SUBSET Codes]
    BY <1>5, <2>1 DEF Fill, TypeOK
  <2> QED
    BY <1>4, <1>5, <2>2 DEF Fill, TypeOK, tables
<1>6. CASE RequestDies(r)
  BY <1>4, <1>6 DEF RequestDies, TypeOK, tables, cache
<1> QED
  BY <1>1, <1>2, <1>3, <1>5, <1>6 DEF RequestStep

LEMMA DropTypes ==
  ASSUME TypeOK, NEW us, us \subseteq Users, Drop(us)
  PROVE  cached' \subseteq Users /\ codesIn' \in [Users -> SUBSET Codes] /\ excused' \subseteq Users
BY DEF Drop, TypeOK

LEMMA TouchTypes ==
  ASSUME TypeOK, NEW us, Touch(us)
  PROVE  touched' \subseteq Requests
BY DEF Touch, TypeOK

LEMMA ToTypes ==
  ASSUME TypeOK, NEW a \in Calls, NEW next \in CallType, To(a, next)
  PROVE  /\ call' \in [Calls -> CallType] /\ call'[a] = next
         /\ \A b \in Calls : b # a => call'[b] = call[b]
BY DEF To, TypeOK

\* A call that starts.
LEMMA StartRoleStep ==
  ASSUME TypeOK, NEW a \in Calls, NEW what \in RoleEdits, NEW x \in Roles,
         NEW codes \in SUBSET Codes, StartRoleEdit(a, what, x, codes)
  PROVE  /\ call[a].at = "idle" /\ UNCHANGED <<tables, cache, req, hist>>
         /\ call' \in [Calls -> CallType] /\ \A b \in Calls : b # a => call'[b] = call[b]
         /\ call'[a].at \in {"writing", "selecting"} /\ call'[a].what = what
         /\ call'[a].at = "selecting" => what = "delete"
<1> DEFINE next == [at |-> IF what = "delete" THEN "selecting" ELSE "writing",
                    what |-> what, role |-> x, codes |-> codes]
<1>1. next \in RoleCall /\ next.at \in {"writing", "selecting"} /\ next.what = what
  BY DEF RoleCall
<1>2. next \in CallType /\ (next.at = "selecting" => what = "delete")
  BY <1>1, CallRecords
<1>3. To(a, next)
  BY DEF StartRoleEdit
<1> HIDE DEF next
<1> QED
  BY <1>1, <1>2, <1>3, ToTypes DEF StartRoleEdit

LEMMA CountType ==
  ASSUME TypeOK, NEW u \in Users
  PROVE  IsFiniteSet(userRoles[u]) /\ Cardinality(userRoles[u]) \in Nat
<1>1. userRoles[u] \subseteq Roles
  BY DEF TypeOK
<1> QED
  BY <1>1, FiniteAssumption, FS_Subset, FS_CardinalityType

LEMMA StartUserStep ==
  ASSUME TypeOK, NEW a \in Calls, NEW what \in UserEdits, NEW u \in Users, NEW x \in Roles,
         NEW codes \in SUBSET Codes, StartUserEdit(a, what, u, x, codes)
  PROVE  /\ call[a].at = "idle" /\ UNCHANGED <<tables, cache, req, hist>>
         /\ call' \in [Calls -> CallType] /\ \A b \in Calls : b # a => call'[b] = call[b]
         /\ call'[a] \in UserCall /\ call'[a].what = what
         /\ what = "revoke" => call'[a].count > 1
<1> DEFINE next == [at |-> "writing", what |-> what, user |-> u, role |-> x,
                    codes |-> codes, count |-> Cardinality(userRoles[u])]
<1>1. next \in UserCall /\ next.what = what /\ next.count = Cardinality(userRoles[u])
  BY CountType DEF UserCall
<1>2. next \in CallType
  BY <1>1, CallRecords
<1>3. To(a, next)
  BY DEF StartUserEdit
<1>4. what = "revoke" => Cardinality(userRoles[u]) > 1
  BY CountType DEF StartUserEdit, TooFew
<1> HIDE DEF next
<1> QED
  BY <1>1, <1>2, <1>3, <1>4, ToTypes DEF StartUserEdit

\* The calls' first steps are those of the two lemmas, or the DELETE of an override.
LEMMA StartCases ==
  ASSUME TypeOK, NEW a \in Calls, Start(a)
  PROVE  \/ \E what \in RoleEdits, x \in Roles, codes \in SUBSET Codes :
              StartRoleEdit(a, what, x, codes)
         \/ \E what \in UserEdits, u \in Users, x \in Roles, codes \in SUBSET Codes :
              StartUserEdit(a, what, u, x, codes)
         \/ \E u \in Users, c \in Codes : RemoveOverride(a, u, c)
<1>1. (CHOOSE x \in SystemRoles : TRUE) \in Roles
  BY SystemAssumption
<1>2. ASSUME NEW x \in Roles, NEW codes \in (SUBSET Codes) \ {{}}, StartRoleEdit(a, "grant", x, codes)
      PROVE  \E what \in RoleEdits, y \in Roles, cs \in SUBSET Codes : StartRoleEdit(a, what, y, cs)
  BY <1>2 DEF RoleEdits
<1>3. ASSUME NEW x \in Roles, NEW c \in Codes, StartRoleEdit(a, "withdraw", x, {c})
      PROVE  \E what \in RoleEdits, y \in Roles, cs \in SUBSET Codes : StartRoleEdit(a, what, y, cs)
  <2>1. {c} \in SUBSET Codes /\ "withdraw" \in RoleEdits
    BY DEF RoleEdits
  <2> QED
    BY <1>3, <2>1
<1>4. ASSUME NEW what \in {"update", "delete"}, NEW x \in Roles, StartRoleEdit(a, what, x, {})
      PROVE  \E w \in RoleEdits, y \in Roles, cs \in SUBSET Codes : StartRoleEdit(a, w, y, cs)
  <2>1. {} \in SUBSET Codes /\ what \in RoleEdits
    BY DEF RoleEdits
  <2> QED
    BY <1>4, <2>1
<1>5. ASSUME NEW what \in {"assign", "revoke"}, NEW u \in Users, NEW x \in Roles,
             StartUserEdit(a, what, u, x, {})
      PROVE  \E w \in UserEdits, v \in Users, y \in Roles, cs \in SUBSET Codes :
               StartUserEdit(a, w, v, y, cs)
  <2>1. {} \in SUBSET Codes /\ what \in UserEdits
    BY DEF UserEdits
  <2> QED
    BY <1>5, <2>1
<1>6. ASSUME NEW what \in {"allow", "deny"}, NEW u \in Users, NEW c \in Codes,
             StartUserEdit(a, what, u, CHOOSE x \in SystemRoles : TRUE, {c})
      PROVE  \E w \in UserEdits, v \in Users, y \in Roles, cs \in SUBSET Codes :
               StartUserEdit(a, w, v, y, cs)
  <2>1. {c} \in SUBSET Codes /\ what \in UserEdits
    BY DEF UserEdits
  <2> QED
    BY <1>1, <1>6, <2>1
<1> QED
  BY <1>2, <1>3, <1>4, <1>5, <1>6 DEF Start

\* What a call that goes on is put to.
LEMMA CallNext ==
  ASSUME TypeOK, NEW a \in Calls
  PROVE  /\ call[a].at = "writing" /\ call[a].what \in RoleEdits =>
              [call[a] EXCEPT !.at = "selecting"] \in RoleCall
         /\ call[a].at = "selecting" => [call[a] EXCEPT !.at = "erasing"] \in RoleCall
         /\ call[a].at = "selecting" /\ call[a].what = "delete" =>
              [call[a] EXCEPT !.at = "erasing"] \in Erasing
<1>1. ASSUME NEW o \in RoleCall
      PROVE  /\ [o EXCEPT !.at = "selecting"] \in RoleCall
             /\ [o EXCEPT !.at = "erasing"] \in RoleCall
             /\ o.what = "delete" => [o EXCEPT !.at = "erasing"] \in Erasing
  BY DEF RoleCall, Erasing
<1> QED
  BY <1>1, CallTypes

LEMMA WriteRoleStep ==
  ASSUME TypeOK, NEW a \in Calls, WriteRole(a)
  PROVE  /\ call[a] \in RoleCall /\ call[a].at = "writing" /\ TypeOK'
         /\ call'[a].at \in {"selecting", "done"}
         /\ made[call[a].role] = "there" =>
              /\ call'[a].at = "selecting" /\ call'[a].role = call[a].role
              /\ call'[a].what = call[a].what
              /\ Touch(Holders(call[a].role))
         /\ made[call[a].role] # "there" => UNCHANGED <<rolePerms, touched>>
         /\ \A y \in Roles : y # call[a].role => rolePerms'[y] = rolePerms[y]
         /\ call[a].what = "delete" => rolePerms' = rolePerms
         /\ \A b \in Calls : b # a => call'[b] = call[b]
<1>1. call[a] \in RoleCall /\ call[a].at = "writing"
  BY CallTypes DEF WriteRole
<1> DEFINE x == call[a].role
           next == [call[a] EXCEPT !.at = "selecting"]
<1>2. x \in Roles /\ call[a].codes \in SUBSET Codes
  BY <1>1 DEF RoleCall
<1>3. /\ next \in RoleCall /\ next \in CallType
      /\ next.at = "selecting" /\ next.role = x /\ next.what = call[a].what
  BY <1>1, CallRecords DEF RoleCall
<1>4. Done \in CallType /\ Done.at = "done"
  BY CallRecords DEF Done
<1>5. /\ rolePerms' \in [Roles -> SUBSET Codes]
      /\ \A y \in Roles : y # x => rolePerms'[y] = rolePerms[y]
      /\ made[x] # "there" => UNCHANGED <<rolePerms, touched>>
      /\ made[x] = "there" => Touch(Holders(x))
  BY <1>2 DEF WriteRole, TypeOK
<1>6. call[a].what = "delete" => rolePerms' = rolePerms
  BY <1>2 DEF WriteRole, TypeOK
<1>7. To(a, next) \/ (To(a, Done) /\ made[x] # "there")
  BY DEF WriteRole
<1>8. touched' \subseteq Requests
  BY <1>5, TouchTypes DEF TypeOK
<1>9. /\ call' \in [Calls -> CallType] /\ \A b \in Calls : b # a => call'[b] = call[b]
      /\ call'[a] = next \/ (call'[a] = Done /\ made[x] # "there")
  <2> HIDE DEF next
  <2> QED
    BY <1>3, <1>4, <1>7, ToTypes
<1>10. TypeOK'
  BY <1>5, <1>8, <1>9 DEF WriteRole, TypeOK, cache
<1> HIDE DEF next
<1> QED
  BY <1>1, <1>3, <1>4, <1>5, <1>6, <1>9, <1>10

LEMMA SelectStep ==
  ASSUME TypeOK, NEW a \in Calls, SelectHolders(a)
  PROVE  /\ call[a] \in RoleCall /\ call[a].at = "selecting" /\ TypeOK'
         /\ UNCHANGED <<tables, cache, req, hist>>
         /\ \/ call[a].what # "delete" /\ Holders(call[a].role) = {} /\ call'[a] = Done
            \/ call[a].what # "delete" /\ call'[a] = Deleting(Holders(call[a].role))
            \/ call[a].what = "delete" /\ call'[a].at \in {"erasing", "emptying"}
         /\ \A b \in Calls : b # a => call'[b] = call[b]
<1> DEFINE hs == Holders(call[a].role)
           next == [call[a] EXCEPT !.at = "erasing"]
           emptying == [at |-> "emptying", keys |-> hs, then |-> next]
<1>1. call[a] \in RoleCall /\ call[a].at = "selecting" /\ hs \in SUBSET Users
  BY CallTypes DEF SelectHolders, Holders
<1>2. next \in RoleCall /\ next.at = "erasing" /\ (call[a].what = "delete" => next \in Erasing)
  BY <1>1 DEF RoleCall, Erasing
<1>3. Done \in CallType /\ Deleting(hs) \in CallType /\ next \in CallType
  BY <1>1, <1>2, CallRecords DEF Done, Deleting
<1>4. emptying.at = "emptying" /\ (call[a].what = "delete" => emptying \in CallType)
  BY <1>1, <1>2, CallRecords
<1>5. \/ call[a].what # "delete" /\ hs = {} /\ To(a, Done)
      \/ call[a].what # "delete" /\ To(a, Deleting(hs))
      \/ call[a].what = "delete" /\ To(a, next)
      \/ call[a].what = "delete" /\ To(a, emptying)
  BY DEF SelectHolders
<1>6. /\ call' \in [Calls -> CallType] /\ \A b \in Calls : b # a => call'[b] = call[b]
      /\ \/ call[a].what # "delete" /\ hs = {} /\ call'[a] = Done
         \/ call[a].what # "delete" /\ call'[a] = Deleting(hs)
         \/ call[a].what = "delete" /\ call'[a] = next
         \/ call[a].what = "delete" /\ call'[a] = emptying
  <2> HIDE DEF hs, next, emptying
  <2> QED
    BY <1>3, <1>4, <1>5, ToTypes
<1>7. TypeOK'
  BY <1>6 DEF SelectHolders, TypeOK, tables, cache, hist
<1> HIDE DEF next, emptying
<1> QED
  BY <1>1, <1>2, <1>4, <1>6, <1>7 DEF SelectHolders

LEMMA EraseStep ==
  ASSUME TypeOK, NEW a \in Calls, EraseRole(a)
  PROVE  /\ call[a] \in RoleCall /\ call[a].at = "erasing" /\ TypeOK'
         /\ Touch(Holders(call[a].role)) /\ UNCHANGED <<granted, denied, cache, req>>
         /\ excused' = excused \cup (Holders(call[a].role) \cap cached)
         /\ call'[a] = Done /\ \A b \in Calls : b # a => call'[b] = call[b]
         /\ \A y \in Roles : y # call[a].role => rolePerms'[y] = rolePerms[y]
         /\ \A u \in Users : userRoles'[u] = userRoles[u] \ {call[a].role}
<1> DEFINE x == call[a].role
<1>1. call[a] \in RoleCall /\ call[a].at = "erasing" /\ x \in Roles
  BY CallTypes DEF EraseRole, RoleCall
<1>2. Done \in CallType
  BY CallRecords DEF Done
<1>3. /\ call' \in [Calls -> CallType] /\ call'[a] = Done
      /\ \A b \in Calls : b # a => call'[b] = call[b]
  BY <1>2, ToTypes DEF EraseRole
<1>4. /\ made' \in [Roles -> {"none", "there", "gone"}]
      /\ rolePerms' \in [Roles -> SUBSET Codes]
      /\ userRoles' \in [Users -> SUBSET Roles]
      /\ \A y \in Roles : y # x => made'[y] = made[y] /\ rolePerms'[y] = rolePerms[y]
      /\ \A u \in Users : userRoles'[u] = userRoles[u] \ {x}
  BY <1>1 DEF EraseRole, TypeOK
<1>5. \A u \in Users : \A y \in userRoles'[u] : made'[y] = "there"
  BY <1>4 DEF TypeOK
<1>6. touched' \subseteq Requests /\ excused' \subseteq Users
  BY TouchTypes DEF EraseRole, TypeOK
<1>7. TypeOK'
  BY <1>3, <1>4, <1>5, <1>6 DEF EraseRole, TypeOK, cache
<1> QED
  BY <1>1, <1>3, <1>4, <1>7 DEF EraseRole

Refused(a) ==
  \/ call[a].what = "assign" /\ made[call[a].role] # "there"
  \/ /\ call[a].what \in {"allow", "deny"}
     /\ call[a].codes \cap (granted[call[a].user] \cup denied[call[a].user]) # {}

LEMMA WriteUserStep ==
  ASSUME TypeOK, NEW a \in Calls, WriteUser(a)
  PROVE  /\ call[a] \in UserCall /\ call[a].at = "writing" /\ TypeOK'
         /\ UNCHANGED <<made, rolePerms, cache, req, excused>>
         /\ \A b \in Calls : b # a => call'[b] = call[b]
         /\ \A v \in Users : v # call[a].user =>
              userRoles'[v] = userRoles[v] /\ granted'[v] = granted[v] /\ denied'[v] = denied[v]
         /\ \/ call'[a] = Done /\ UNCHANGED <<userRoles, granted, denied, touched>>
            \/ call'[a] = Deleting({call[a].user}) /\ Touch({call[a].user})
         /\ call[a].what # "revoke" => userRoles[call[a].user] \subseteq userRoles'[call[a].user]
         /\ userRoles[call[a].user] \ {call[a].role} \subseteq userRoles'[call[a].user]
<1> DEFINE u == call[a].user
           x == call[a].role
           codes == call[a].codes
           what == call[a].what
<1>1. call[a] \in UserCall /\ call[a].at = "writing"
  BY CallTypes DEF WriteUser
<1>2. u \in Users /\ x \in Roles /\ codes \in SUBSET Codes /\ what \in UserEdits
  BY <1>1 DEF UserCall
<1>3. Done \in CallType /\ Deleting({u}) \in CallType
  BY <1>2, CallRecords DEF Done, Deleting
<1>4. UNCHANGED <<made, rolePerms, cache, req, excused>>
  BY DEF WriteUser
<1>5. CASE Refused(a)
  <2>1. UNCHANGED <<userRoles, granted, denied, touched>> /\ To(a, Done)
    BY <1>5 DEF WriteUser, Refused
  <2>2. /\ call' \in [Calls -> CallType] /\ call'[a] = Done
        /\ \A b \in Calls : b # a => call'[b] = call[b]
    BY <1>3, <2>1, ToTypes
  <2>3. TypeOK'
    BY <1>4, <2>1, <2>2 DEF TypeOK, cache
  <2> QED
    BY <1>1, <1>2, <1>4, <2>1, <2>2, <2>3
<1>6. CASE ~Refused(a)
  <2>1. /\ userRoles' = [userRoles EXCEPT ![u] =
             CASE what = "assign" -> @ \cup {x} [] what = "revoke" -> @ \ {x} [] OTHER -> @]
        /\ granted' = [granted EXCEPT ![u] = IF what = "allow" THEN @ \cup codes ELSE @]
        /\ denied' = [denied EXCEPT ![u] = IF what = "deny" THEN @ \cup codes ELSE @]
        /\ Touch({u}) /\ To(a, Deleting({u}))
    BY <1>6 DEF WriteUser, Refused
  <2>2. /\ call' \in [Calls -> CallType] /\ call'[a] = Deleting({u})
        /\ \A b \in Calls : b # a => call'[b] = call[b]
    BY <1>3, <2>1, ToTypes
  <2>3. \A v \in Users : v # u =>
          userRoles'[v] = userRoles[v] /\ granted'[v] = granted[v] /\ denied'[v] = denied[v]
    BY <2>1 DEF TypeOK
  <2>4. userRoles' \in [Users -> SUBSET Roles] /\ userRoles'[u] \subseteq userRoles[u] \cup {x}
    BY <1>2, <2>1 DEF TypeOK
  <2>5. /\ what # "revoke" => userRoles[u] \subseteq userRoles'[u]
        /\ userRoles[u] \ {x} \subseteq userRoles'[u]
        /\ what # "assign" => userRoles'[u] \subseteq userRoles[u]
    BY <1>2, <2>1 DEF TypeOK
  <2>6. what = "assign" => made[x] = "there"
    BY <1>6 DEF Refused
  <2>7. \A v \in Users : \A y \in userRoles'[v] : made'[y] = "there"
    BY <1>4, <2>3, <2>4, <2>5, <2>6 DEF TypeOK
  <2>8. /\ granted' \in [Users -> SUBSET Codes] /\ denied' \in [Users -> SUBSET Codes]
        /\ granted'[u] = IF what = "allow" THEN granted[u] \cup codes ELSE granted[u]
        /\ denied'[u] = IF what = "deny" THEN denied[u] \cup codes ELSE denied[u]
    BY <1>2, <2>1 DEF TypeOK
  <2>9. what \in {"allow", "deny"} => codes \cap (granted[u] \cup denied[u]) = {}
    BY <1>6 DEF Refused
  <2>10. granted'[u] \cap denied'[u] = {}
    BY <1>2, <2>8, <2>9 DEF TypeOK
  <2>11. \A v \in Users : granted'[v] \cap denied'[v] = {}
    BY <2>3, <2>10 DEF TypeOK
  <2>12. touched' \subseteq Requests
    BY <2>1, TouchTypes
  <2>13. TypeOK'
    BY <1>4, <2>2, <2>4, <2>7, <2>8, <2>11, <2>12 DEF TypeOK, cache
  <2> QED
    BY <1>1, <1>4, <2>1, <2>2, <2>3, <2>5, <2>13
<1> QED
  BY <1>5, <1>6

LEMMA RemoveStep ==
  ASSUME TypeOK, NEW a \in Calls, NEW u \in Users, NEW c \in Codes, RemoveOverride(a, u, c)
  PROVE  /\ call[a].at = "idle" /\ TypeOK'
         /\ UNCHANGED <<made, rolePerms, userRoles, cache, req, excused>>
         /\ \A v \in Users : v # u => granted'[v] = granted[v] /\ denied'[v] = denied[v]
         /\ call'[a] = Deleting({u}) /\ Touch({u})
         /\ \A b \in Calls : b # a => call'[b] = call[b]
<1>1. Deleting({u}) \in CallType
  BY CallRecords DEF Deleting
<1>2. /\ call' \in [Calls -> CallType] /\ call'[a] = Deleting({u})
      /\ \A b \in Calls : b # a => call'[b] = call[b]
  BY <1>1, ToTypes DEF RemoveOverride
<1>3. /\ granted' \in [Users -> SUBSET Codes] /\ denied' \in [Users -> SUBSET Codes]
      /\ \A v \in Users : v # u => granted'[v] = granted[v] /\ denied'[v] = denied[v]
      /\ granted'[u] = granted[u] \ {c} /\ denied'[u] = denied[u] \ {c}
  BY DEF RemoveOverride, TypeOK
<1>4. \A v \in Users : granted'[v] \cap denied'[v] = {}
  BY <1>3 DEF TypeOK
<1>5. touched' \subseteq Requests
  BY TouchTypes DEF RemoveOverride
<1>6. TypeOK'
  BY <1>2, <1>3, <1>4, <1>5 DEF RemoveOverride, TypeOK, cache
<1> QED
  BY <1>2, <1>3, <1>6 DEF RemoveOverride

\* A DEL.
LEMMA DelStep ==
  ASSUME TypeOK, NEW a \in Calls, DeleteEntries(a) \/ EmptyEntries(a)
  PROVE  /\ call[a].keys \subseteq Users /\ TypeOK' /\ UNCHANGED <<tables, req, touched>>
         /\ Drop(call[a].keys)
         /\ call[a].at \in {"deleting", "emptying"}
         /\ call'[a].at \in {"done", "erasing"}
         /\ \A b \in Calls : b # a => call'[b] = call[b]
<1>1. call[a].at \in {"deleting", "emptying"} /\ call[a].keys \subseteq Users
  BY CallTypes DEF DeleteEntries, EmptyEntries
<1>2. PICK next \in CallType : To(a, next) /\ next.at \in {"done", "erasing"}
  <2>1. CASE DeleteEntries(a)
    BY <2>1, CallRecords DEF DeleteEntries, Done
  <2>2. CASE EmptyEntries(a)
    <3>1. call[a].then \in Erasing
      BY <2>2, CallTypes DEF EmptyEntries
    <3>2. call[a].then \in CallType /\ call[a].then.at = "erasing"
      BY <3>1, CallRecords DEF Erasing
    <3> QED
      BY <2>2, <3>2 DEF EmptyEntries
  <2> QED
    BY <2>1, <2>2
<1>3. /\ call' \in [Calls -> CallType] /\ call'[a] = next
      /\ \A b \in Calls : b # a => call'[b] = call[b]
  BY <1>2, ToTypes
<1>4. UNCHANGED <<tables, req, touched>> /\ Drop(call[a].keys)
  BY DEF DeleteEntries, EmptyEntries
<1>5. TypeOK'
  BY <1>1, <1>3, <1>4, DropTypes DEF TypeOK, tables
<1> QED
  BY <1>1, <1>2, <1>3, <1>4, <1>5

LEMMA DiesStep ==
  ASSUME TypeOK, NEW a \in Calls, CallDies(a)
  PROVE  /\ TypeOK' /\ call'[a] = Done /\ \A b \in Calls : b # a => call'[b] = call[b]
<1>1. Done \in CallType
  BY CallRecords DEF Done
<1>2. /\ call' \in [Calls -> CallType] /\ call'[a] = Done
      /\ \A b \in Calls : b # a => call'[b] = call[b]
  BY <1>1, ToTypes DEF CallDies
<1>3. excused' \subseteq Users
  BY DEF CallDies, TypeOK
<1> QED
  BY <1>2, <1>3 DEF CallDies, TypeOK, tables, cache

LEMMA TypeNext == TypeOK /\ [Next]_vars => TypeOK'
<1> SUFFICES ASSUME TypeOK, [Next]_vars
             PROVE  TypeOK'
  OBVIOUS
<1>1. ASSUME NEW r \in Requests, NEW u \in Users, Miss(r, u)
      PROVE  TypeOK'
  <2>1. req' \in [Requests -> ReqType]
    BY <1>1, ReqRecords DEF Miss, TypeOK
  <2> QED
    BY <1>1, <2>1 DEF Miss, TypeOK, tables, cache, hist
<1>2. ASSUME NEW a \in Calls, Start(a)
      PROVE  TypeOK'
  <2>1. UNCHANGED <<tables, cache, req, hist>> /\ call' \in [Calls -> CallType] => TypeOK'
    BY DEF TypeOK, tables, cache, hist
  <2> QED
    BY <1>2, <2>1, StartCases, StartRoleStep, StartUserStep, RemoveStep
<1>3. ASSUME NEW a \in Calls, CallStep(a) \/ CallDies(a)
      PROVE  TypeOK'
  BY <1>3, WriteRoleStep, SelectStep, EraseStep, WriteUserStep, DelStep, DiesStep DEF CallStep
<1>4. ASSUME NEW u \in Users, Expire(u)
      PROVE  TypeOK'
  BY <1>4, DropTypes DEF Expire, TypeOK, tables
<1>5. ASSUME NEW x \in Roles, CreateRole(x)
      PROVE  TypeOK'
  BY <1>5 DEF CreateRole, TypeOK, cache, hist
<1>6. CASE UNCHANGED vars
  BY <1>6 DEF vars, tables, cache, hist, TypeOK
<1> QED
  BY <1>1, <1>2, <1>3, <1>4, <1>5, <1>6, TypeRequest DEF Next

\* The tables, the cache, the requests and the calls are always as the schema and the
\* code have them: nobody holds a role that is not there, no code is both granted
\* and denied to a user.
THEOREM TypeCorrect == Spec => []TypeOK
BY TypeInit, TypeNext, PTL DEF Spec

-----------------------------------------------------------------------------
(* The last role.                                                          *)

\* A revocation that is about to be written has counted another role.
CountedMore ==
  \A a \in Calls : call[a].at = "writing" /\ call[a].what = "revoke" => call[a].count > 1

LEMMA Ends ==
  ASSUME NEW us
  PROVE  Done.at = "done" /\ Deleting(us).at = "deleting" /\ Deleting(us).keys = us
BY DEF Done, Deleting

\* A call other than a starting one is not put to a revocation.
LEMMA CountNext == TypeOK /\ CountedMore /\ [Next]_vars => CountedMore'
<1> SUFFICES ASSUME TypeOK, CountedMore, [Next]_vars
             PROVE  CountedMore'
  OBVIOUS
<1>1. ASSUME NEW a \in Calls, \A b \in Calls : b # a => call'[b] = call[b],
             call'[a].at = "writing" /\ call'[a].what = "revoke" => call'[a].count > 1
      PROVE  CountedMore'
  BY <1>1 DEF CountedMore
<1>2. ASSUME NEW a \in Calls, Start(a)
      PROVE  CountedMore'
  <2>1. ASSUME NEW what \in RoleEdits, NEW x \in Roles, NEW codes \in SUBSET Codes,
               StartRoleEdit(a, what, x, codes)
        PROVE  CountedMore'
    BY <1>1, <2>1, StartRoleStep DEF RoleEdits
  <2>2. ASSUME NEW what \in UserEdits, NEW u \in Users, NEW x \in Roles,
               NEW codes \in SUBSET Codes, StartUserEdit(a, what, u, x, codes)
        PROVE  CountedMore'
    BY <1>1, <2>2, StartUserStep
  <2>3. ASSUME NEW u \in Users, NEW c \in Codes, RemoveOverride(a, u, c)
        PROVE  CountedMore'
    <3>1. call'[a] = Deleting({u}) /\ \A b \in Calls : b # a => call'[b] = call[b]
      BY <2>3, RemoveStep
    <3>2. call'[a].at = "deleting"
      BY <3>1, Ends
    <3> QED
      BY <1>1, <3>1, <3>2
  <2> QED
    BY <1>2, <2>1, <2>2, <2>3, StartCases
<1>3. ASSUME NEW a \in Calls, CallStep(a) \/ CallDies(a)
      PROVE  CountedMore'
  <2>1. call'[a].at # "writing" /\ \A b \in Calls : b # a => call'[b] = call[b]
    <3>1. CASE WriteRole(a)
      BY <3>1, WriteRoleStep
    <3>2. CASE SelectHolders(a)
      BY <3>2, SelectStep, Ends
    <3>3. CASE EraseRole(a)
      BY <3>3, EraseStep, Ends
    <3>4. CASE WriteUser(a)
      BY <3>4, WriteUserStep, Ends
    <3>5. CASE DeleteEntries(a) \/ EmptyEntries(a)
      BY <3>5, DelStep
    <3>6. CASE CallDies(a)
      BY <3>6, DiesStep, Ends
    <3> QED
      BY <1>3, <3>1, <3>2, <3>3, <3>4, <3>5, <3>6 DEF CallStep
  <2> QED
    BY <1>1, <2>1
<1>4. UNCHANGED call => CountedMore'
  BY DEF CountedMore
<1>5. ASSUME NEW r \in Requests, RequestStep(r) \/ RequestDies(r) \/ \E u \in Users : Miss(r, u)
      PROVE  UNCHANGED call
  BY <1>5 DEF RequestStep, ReadRoles, ReadCodes, ReadOverrides, Fill, RequestDies, Miss
<1>6. (\E u \in Users : Expire(u)) \/ (\E x \in Roles : CreateRole(x)) \/ UNCHANGED vars => UNCHANGED call
  BY DEF Expire, CreateRole, vars
<1> QED
  BY <1>2, <1>3, <1>4, <1>5, <1>6 DEF Next

LossIsARace ==
  \A u \in Users : userRoles[u] # {} /\ userRoles'[u] = {} =>
    \E a \in Calls : \/ call[a].at = "erasing"
                     \/ /\ call[a].at = "writing" /\ call[a].what = "revoke"
                        /\ call[a].user = u /\ call[a].count > Cardinality(userRoles[u])

LEMMA LossStep ==
  ASSUME TypeOK, CountedMore, Next
  PROVE  LossIsARace
<1> SUFFICES ASSUME NEW u \in Users, userRoles[u] # {}, userRoles'[u] = {}
             PROVE  \E a \in Calls :
                      \/ call[a].at = "erasing"
                      \/ /\ call[a].at = "writing" /\ call[a].what = "revoke"
                         /\ call[a].user = u /\ call[a].count > Cardinality(userRoles[u])
  BY DEF LossIsARace
<1>1. userRoles' # userRoles
  OBVIOUS
<1>2. ASSUME NEW a \in Calls, WriteUser(a)
      PROVE  /\ call[a].at = "writing" /\ call[a].what = "revoke"
             /\ call[a].user = u /\ call[a].count > Cardinality(userRoles[u])
  <2>1. call[a].at = "writing" /\ call[a].user = u
    BY <1>1, <1>2, WriteUserStep
  <2>2. call[a].what = "revoke"
    BY <1>2, <2>1, WriteUserStep
  <2>3. userRoles[u] \ {call[a].role} = {}
    BY <1>2, <2>1, WriteUserStep
  <2>4. userRoles[u] = {call[a].role}
    BY <2>3
  <2>5. Cardinality(userRoles[u]) = 1
    BY <2>4, FS_Singleton
  <2> QED
    BY <2>1, <2>2, <2>5 DEF CountedMore
<1>3. ASSUME NEW a \in Calls, CallStep(a), ~WriteUser(a)
      PROVE  call[a].at = "erasing"
  BY <1>1, <1>3 DEF CallStep, WriteRole, SelectHolders, EmptyEntries, EraseRole, DeleteEntries,
                    tables
<1>4. ASSUME NEW a \in Calls, Start(a) \/ CallDies(a)
      PROVE  UNCHANGED userRoles
  BY <1>4, StartCases, StartRoleStep, StartUserStep, RemoveStep DEF CallDies, tables
<1>5. ASSUME NEW r \in Requests, RequestStep(r) \/ RequestDies(r) \/ \E v \in Users : Miss(r, v)
      PROVE  UNCHANGED userRoles
  BY <1>5 DEF RequestStep, ReadRoles, ReadCodes, ReadOverrides, Fill, RequestDies, Miss, tables
<1>6. (\E v \in Users : Expire(v)) \/ (\E x \in Roles : CreateRole(x)) => UNCHANGED userRoles
  BY DEF Expire, CreateRole, tables
<1> QED
  BY <1>1, <1>2, <1>3, <1>4, <1>5, <1>6 DEF Next

\* Without a deletion of roles, a user loses the last role to a revocation that
\* counted before another one was written, and to nothing else.
THEOREM LastRole == Spec => LastRoleIsLostOnlyInARace
<1>1. Init => CountedMore
  BY DEF Init, CountedMore
<1>2. TypeOK /\ CountedMore /\ [Next]_vars => [LossIsARace]_vars
  BY LossStep
<1>3. LastRoleIsLostOnlyInARace <=> [][LossIsARace]_vars
  BY DEF LastRoleIsLostOnlyInARace, LossIsARace
<1> QED
  BY <1>1, <1>2, <1>3, CountNext, TypeInit, TypeNext, PTL DEF Spec

-----------------------------------------------------------------------------
(* The cache.                                                              *)

RoleCodes(u) == UNION {rolePerms[x] : x \in userRoles[u]}

\* What a request has read is what the tables say, unless they changed since.
Current(r) ==
  /\ req[r].at = "codes" => req[r].roles = userRoles[req[r].user]
  /\ req[r].at = "overrides" => req[r].codes = RoleCodes(req[r].user)
  /\ req[r].at = "filling" => req[r].codes = Effective(req[r].user)
ReadIsCurrent == \A r \in Requests \ touched : Current(r)

Owed(u) == \E a \in Calls : u \in OwedBy(a)

LEMMA EffectiveIsMerged ==
  ASSUME TypeOK, NEW u \in Users
  PROVE  Effective(u) = Merged(u, RoleCodes(u))
<1>1. /\ userRoles[u] \subseteq Roles /\ granted[u] \subseteq Codes
      /\ \A x \in userRoles[u] : rolePerms[x] \subseteq Codes
  BY DEF TypeOK
<1> QED
  BY <1>1 DEF Effective, Merged, RoleCodes

\* The rows of the users outside us stay.
SameRows(us) ==
  \A u \in Users \ us :
    /\ userRoles'[u] = userRoles[u] /\ granted'[u] = granted[u] /\ denied'[u] = denied[u]
    /\ \A x \in userRoles[u] : rolePerms'[x] = rolePerms[x]

LEMMA RowsGive ==
  ASSUME NEW us, SameRows(us), NEW u \in Users, u \notin us
  PROVE  /\ userRoles'[u] = userRoles[u]
         /\ RoleCodes(u)' = RoleCodes(u) /\ Effective(u)' = Effective(u)
BY DEF SameRows, RoleCodes, Effective

\* A change of the rows of us, which makes older whoever has read them.
LEMMA RequestsStayCurrent ==
  ASSUME TypeOK, ReadIsCurrent, UNCHANGED req, NEW us, SameRows(us), touched \subseteq touched',
         \A r \in Requests : req[r].at \in {"codes", "overrides", "filling"} /\ req[r].user \in us
           => r \in touched'
  PROVE  ReadIsCurrent'
<1> SUFFICES ASSUME NEW r \in Requests, r \notin touched'
             PROVE  Current(r)'
  BY DEF ReadIsCurrent
<1>1. req'[r] = req[r] /\ Current(r)
  BY DEF ReadIsCurrent
<1>2. CASE req[r].at \notin {"codes", "overrides", "filling"}
  BY <1>1, <1>2 DEF Current
<1>3. CASE req[r].at \in {"codes", "overrides", "filling"}
  <2>1. PICK u \in Users : u = req[r].user
    BY <1>3, ReqTypes
  <2>2. u \notin us
    BY <1>3, <2>1
  <2>3. /\ userRoles'[u] = userRoles[u]
        /\ RoleCodes(u)' = RoleCodes(u) /\ Effective(u)' = Effective(u)
    BY <2>2, RowsGive
  <2>4. /\ req[r].at = "codes" => req[r].roles = userRoles[u]
        /\ req[r].at = "overrides" => req[r].codes = RoleCodes(u)
        /\ req[r].at = "filling" => req[r].codes = Effective(u)
    BY <1>1, <2>1 DEF Current
  <2>5. /\ req'[r].at = "codes" => req'[r].roles = userRoles'[u]
        /\ req'[r].at = "overrides" => req'[r].codes = RoleCodes(u)'
        /\ req'[r].at = "filling" => req'[r].codes = Effective(u)'
    BY <1>1, <2>3, <2>4
  <2>6. req'[r].user = u
    BY <1>1, <2>1
  <2> QED
    BY <2>5, <2>6 DEF Current
<1> QED
  BY <1>2, <1>3

\* A change of the rows of us, whose entries are excused, or owed a DEL.
LEMMA EntriesStayFresh ==
  ASSUME TypeOK, CacheIsFresh, UNCHANGED cache, NEW us, SameRows(us), excused \subseteq excused',
         \A u \in cached : u \in us \/ Owed(u) => u \in excused' \/ Owed(u)'
  PROVE  CacheIsFresh'
<1> SUFFICES ASSUME NEW u \in cached, u \notin excused', ~Owed(u)'
             PROVE  codesIn'[u] = Effective(u)'
  BY DEF CacheIsFresh, Owed, cache
<1>1. u \in Users /\ u \notin us /\ ~Owed(u) /\ u \notin excused
  BY DEF TypeOK
<1>2. codesIn[u] = Effective(u)
  BY <1>1 DEF CacheIsFresh, Owed
<1>3. Effective(u)' = Effective(u)
  BY <1>1, RowsGive
<1> QED
  BY <1>2, <1>3 DEF cache

\* What a call owes it goes on owing to whoever keeps the roles.
LEMMA OwedStays ==
  ASSUME NEW b, call'[b] = call[b], NEW u \in Users, u \in OwedBy(b),
         userRoles[u] \subseteq userRoles'[u]
  PROVE  u \in OwedBy(b)'
<1>1. CASE call[b].at = "deleting"
  BY <1>1 DEF OwedBy
<1>2. CASE call[b].at = "selecting" /\ call[b].what # "delete"
  <2>1. call[b].role \in userRoles[u]
    BY <1>2 DEF OwedBy, Holders
  <2>2. u \in Holders(call[b].role)'
    BY <2>1 DEF Holders
  <2> QED
    BY <1>2, <2>2 DEF OwedBy
<1> QED
  BY <1>1, <1>2 DEF OwedBy

\* What one call that changes owes the others do not make up for.
LEMMA OthersOwe ==
  ASSUME NEW a \in Calls, \A b \in Calls : b # a => call'[b] = call[b],
         NEW u \in Users, Owed(u), userRoles[u] \subseteq userRoles'[u],
         u \in OwedBy(a) => u \in excused' \/ Owed(u)'
  PROVE  u \in excused' \/ Owed(u)'
<1>1. PICK b \in Calls : u \in OwedBy(b)
  BY DEF Owed
<1>2. CASE b = a
  BY <1>1, <1>2
<1>3. CASE b # a
  BY <1>1, <1>3, OwedStays DEF Owed
<1> QED
  BY <1>2, <1>3

LEMMA TablesGive ==
  ASSUME UNCHANGED tables
  PROVE  /\ SameRows({})
         /\ \A u \in Users : RoleCodes(u)' = RoleCodes(u) /\ Effective(u)' = Effective(u)
BY DEF tables, SameRows, RoleCodes, Effective

\* A request that goes on.
LEMMA RequestMoves ==
  ASSUME TypeOK, ReadIsCurrent, UNCHANGED tables, NEW r \in Requests,
         \A q \in Requests : q # r => req'[q] = req[q],
         \A q \in Requests : q # r /\ q \in touched => q \in touched',
         r \notin touched' => Current(r)'
  PROVE  ReadIsCurrent'
<1> SUFFICES ASSUME NEW q \in Requests, q \notin touched', q # r
             PROVE  Current(q)'
  BY DEF ReadIsCurrent
<1>1. req'[q] = req[q] /\ Current(q)
  BY DEF ReadIsCurrent
<1>2. CASE req[q].at = "idle"
  BY <1>1, <1>2 DEF Current
<1>3. CASE req[q].at # "idle"
  <2>1. PICK u \in Users : u = req[q].user
    BY <1>3, ReqTypes
  <2>2. /\ userRoles'[u] = userRoles[u]
        /\ RoleCodes(u)' = RoleCodes(u) /\ Effective(u)' = Effective(u)
    BY TablesGive DEF tables
  <2>3. /\ req'[q].at = "codes" => req'[q].roles = userRoles'[u]
        /\ req'[q].at = "overrides" => req'[q].codes = RoleCodes(u)'
        /\ req'[q].at = "filling" => req'[q].codes = Effective(u)'
    BY <1>1, <2>1, <2>2 DEF Current
  <2>4. req'[q].user = u
    BY <1>1, <2>1
  <2> QED
    BY <2>3, <2>4 DEF Current
<1> QED
  BY <1>2, <1>3

LEMMA CurrentRequest ==
  ASSUME TypeOK, ReadIsCurrent, NEW r \in Requests,
         RequestStep(r) \/ RequestDies(r) \/ \E u \in Users : Miss(r, u)
  PROVE  ReadIsCurrent' /\ UNCHANGED <<tables, call>>
<1>1. CASE ReadRoles(r)
  <2>1. PICK u \in Users : u = req[r].user
    BY <1>1, ReqTypes DEF ReadRoles
  <2>2. UNCHANGED <<tables, touched, call>>
    BY <1>1 DEF ReadRoles, hist
  <2>3. /\ \A q \in Requests : q # r => req'[q] = req[q]
        /\ req'[r] = IF userRoles[u] = {} THEN [at |-> "overrides", user |-> u, codes |-> {}]
                     ELSE [at |-> "codes", user |-> u, roles |-> userRoles[u]]
    BY <1>1, <2>1 DEF ReadRoles, TypeOK
  <2>4. Current(r)'
    <3>1. CASE userRoles[u] = {}
      <4>1. RoleCodes(u)' = {}
        BY <2>2, <3>1 DEF RoleCodes, tables
      <4>2. req'[r].at = "overrides" /\ req'[r].user = u /\ req'[r].codes = {}
        BY <2>3, <3>1
      <4> QED
        BY <4>1, <4>2 DEF Current
    <3>2. CASE userRoles[u] # {}
      <4>1. req'[r].at = "codes" /\ req'[r].user = u /\ req'[r].roles = userRoles[u]
        BY <2>3, <3>2
      <4> QED
        BY <2>2, <4>1 DEF Current, tables
    <3> QED
      BY <3>1, <3>2
  <2> QED
    BY <2>2, <2>3, <2>4, RequestMoves
<1>2. CASE ReadCodes(r)
  <2>1. PICK u \in Users : u = req[r].user
    BY <1>2, ReqTypes DEF ReadCodes
  <2>2. UNCHANGED <<tables, touched, call>>
    BY <1>2 DEF ReadCodes, hist
  <2>3. /\ \A q \in Requests : q # r => req'[q] = req[q]
        /\ req'[r] = [at |-> "overrides", user |-> u,
                      codes |-> UNION {rolePerms[x] : x \in req[r].roles}]
    BY <1>2, <2>1 DEF ReadCodes, TypeOK
  <2>4. ASSUME r \notin touched'
        PROVE  Current(r)'
    <3>1. req[r].roles = userRoles[u]
      BY <1>2, <2>1, <2>2, <2>4 DEF ReadIsCurrent, Current, ReadCodes
    <3>2. req'[r].at = "overrides" /\ req'[r].user = u /\ req'[r].codes = RoleCodes(u)
      BY <2>3, <3>1 DEF RoleCodes
    <3>3. RoleCodes(u)' = RoleCodes(u)
      BY <2>2, TablesGive
    <3> QED
      BY <3>2, <3>3 DEF Current
  <2> QED
    BY <2>2, <2>3, <2>4, RequestMoves
<1>3. CASE ReadOverrides(r)
  <2>1. PICK u \in Users : u = req[r].user
    BY <1>3, ReqTypes DEF ReadOverrides
  <2>2. UNCHANGED <<tables, touched, call>>
    BY <1>3 DEF ReadOverrides, hist
  <2>3. req[r] \in [at : {"overrides", "filling"}, user : Users, codes : SUBSET Codes]
    BY <1>3, ReqTypes DEF ReadOverrides
  <2>4. /\ \A q \in Requests : q # r => req'[q] = req[q]
        /\ req'[r] = [req[r] EXCEPT !.at = "filling", !.codes = Merged(u, req[r].codes)]
    BY <1>3, <2>1, <2>3 DEF ReadOverrides, TypeOK
  <2>5. req'[r].at = "filling" /\ req'[r].user = u /\ req'[r].codes = Merged(u, req[r].codes)
    BY <2>1, <2>3, <2>4
  <2>6. ASSUME r \notin touched'
        PROVE  Current(r)'
    <3>1. req[r].codes = RoleCodes(u)
      BY <1>3, <2>1, <2>2, <2>6 DEF ReadIsCurrent, Current, ReadOverrides
    <3>2. req'[r].codes = Effective(u)
      BY <2>5, <3>1, EffectiveIsMerged
    <3>3. Effective(u)' = Effective(u)
      BY <2>2, TablesGive
    <3> QED
      BY <2>5, <3>2, <3>3 DEF Current
  <2> QED
    BY <2>2, <2>4, <2>6, RequestMoves
<1>4. ASSUME Forget(r), UNCHANGED <<tables, call>>
      PROVE  ReadIsCurrent'
  <2>1. /\ \A q \in Requests : q # r => req'[q] = req[q]
        /\ req'[r].at = "idle"
        /\ \A q \in Requests : q # r /\ q \in touched => q \in touched'
    BY <1>4 DEF Forget, TypeOK
  <2>2. Current(r)'
    BY <2>1 DEF Current
  <2> QED
    BY <1>4, <2>1, <2>2, RequestMoves
<1>5. CASE Fill(r) \/ RequestDies(r)
  BY <1>4, <1>5 DEF Fill, RequestDies
<1>6. ASSUME NEW u \in Users, Miss(r, u)
      PROVE  ReadIsCurrent' /\ UNCHANGED <<tables, call>>
  <2>1. /\ \A q \in Requests : q # r => req'[q] = req[q]
        /\ req'[r].at = "roles" /\ UNCHANGED <<tables, touched, call>>
    BY <1>6 DEF Miss, TypeOK, hist
  <2>2. Current(r)'
    BY <2>1 DEF Current
  <2> QED
    BY <2>1, <2>2, RequestMoves
<1> QED
  BY <1>1, <1>2, <1>3, <1>5, <1>6 DEF RequestStep

LEMMA FreshRequest ==
  ASSUME TypeOK, ReadIsCurrent, CacheIsFresh, NEW r \in Requests,
         RequestStep(r) \/ RequestDies(r) \/ \E u \in Users : Miss(r, u)
  PROVE  CacheIsFresh'
<1>1. UNCHANGED <<tables, call>>
  BY CurrentRequest
<1>2. \A u \in Users : Owed(u)' <=> Owed(u)
  BY <1>1 DEF Owed, OwedBy, Holders, tables
<1>3. CASE UNCHANGED <<cache, excused>>
  <2>1. SameRows({})
    BY <1>1, TablesGive
  <2>2. \A u \in cached : u \in {} \/ Owed(u) => u \in excused' \/ Owed(u)'
    BY <1>2 DEF TypeOK
  <2> QED
    BY <1>3, <2>1, <2>2, EntriesStayFresh
<1>4. CASE Fill(r)
  <2>1. PICK u \in Users : u = req[r].user
    BY <1>4, ReqTypes DEF Fill
  <2>2. /\ cached' = cached \cup {u} /\ codesIn'[u] = req[r].codes
        /\ \A v \in Users : v # u => codesIn'[v] = codesIn[v]
        /\ r \in touched => u \in excused'
        /\ \A v \in excused : v # u => v \in excused'
    BY <1>4, <2>1 DEF Fill, TypeOK
  <2>3. r \notin touched => codesIn'[u] = Effective(u)
    BY <1>4, <2>1, <2>2 DEF ReadIsCurrent, Current, Fill
  <2> SUFFICES ASSUME NEW v \in cached', v \notin excused', ~Owed(v)'
               PROVE  codesIn'[v] = Effective(v)'
    BY DEF CacheIsFresh, Owed
  <2>4. v \in Users /\ Effective(v)' = Effective(v)
    BY <1>1, <2>2, TablesGive DEF TypeOK
  <2>5. CASE v = u
    BY <2>2, <2>3, <2>4, <2>5
  <2>6. CASE v # u
    BY <1>2, <2>2, <2>4, <2>6 DEF CacheIsFresh, Owed
  <2> QED
    BY <2>5, <2>6
<1>5. ~Fill(r) => UNCHANGED <<cache, excused>>
  BY DEF RequestStep, ReadRoles, ReadCodes, ReadOverrides, RequestDies, Miss, hist
<1> QED
  BY <1>3, <1>4, <1>5

\* A DEL, or the TTL.
LEMMA DropFresh ==
  ASSUME TypeOK, CacheIsFresh, UNCHANGED tables, NEW us, us \subseteq Users, Drop(us),
         \A u \in Users \ us : Owed(u) => Owed(u)'
  PROVE  CacheIsFresh'
<1> SUFFICES ASSUME NEW u \in cached', u \notin excused', ~Owed(u)'
             PROVE  codesIn'[u] = Effective(u)'
  BY DEF CacheIsFresh, Owed
<1>1. /\ u \in cached /\ u \in Users /\ u \notin us /\ u \notin excused
      /\ codesIn'[u] = codesIn[u]
  BY DEF Drop, TypeOK
<1>2. codesIn[u] = Effective(u)
  BY <1>1 DEF CacheIsFresh, Owed
<1> QED
  BY <1>1, <1>2, TablesGive

\* What a call that ends, or begins, owes.
LEMMA OwedAt ==
  ASSUME NEW a
  PROVE  /\ call[a].at \notin {"deleting", "selecting"} => OwedBy(a) = {}
         /\ call[a].at = "deleting" => OwedBy(a) = call[a].keys
         /\ call[a].at = "selecting" /\ call[a].what = "delete" => OwedBy(a) = {}
         /\ call[a].at = "selecting" /\ call[a].what # "delete" => OwedBy(a) = Holders(call[a].role)
BY DEF OwedBy

\* A call that owes nothing, and changes neither tables nor entries.
LEMMA IdleFresh ==
  ASSUME TypeOK, ReadIsCurrent, CacheIsFresh, NEW a \in Calls, OwedBy(a) = {},
         UNCHANGED <<tables, cache, req, hist>>, \A b \in Calls : b # a => call'[b] = call[b]
  PROVE  ReadIsCurrent' /\ CacheIsFresh'
<1>1. SameRows({}) /\ touched' = touched /\ excused' = excused
  BY TablesGive DEF hist
<1>2. ReadIsCurrent'
  BY <1>1, RequestsStayCurrent
<1>3. \A u \in Users : Owed(u) => u \in excused' \/ Owed(u)'
  BY OthersOwe DEF tables
<1>4. CacheIsFresh'
  BY <1>1, <1>3, EntriesStayFresh DEF TypeOK
<1> QED
  BY <1>2, <1>4

\* A change of the rows of us, which leaves the call owing their DEL.
LEMMA ChangeFresh ==
  ASSUME TypeOK, ReadIsCurrent, CacheIsFresh, NEW a \in Calls, OwedBy(a) = {},
         NEW us, us \subseteq Users, SameRows(us), Touch(us), UNCHANGED <<cache, req>>,
         excused \subseteq excused',
         \A b \in Calls : b # a => call'[b] = call[b],
         \A u \in us \cap cached : u \in excused' \/ u \in OwedBy(a)'
  PROVE  ReadIsCurrent' /\ CacheIsFresh'
<1>1. touched \subseteq touched' /\
      \A r \in Requests : req[r].at \in {"codes", "overrides", "filling"} /\ req[r].user \in us
        => r \in touched'
  BY DEF Touch
<1>2. ReadIsCurrent'
  BY <1>1, RequestsStayCurrent
<1>3. \A u \in cached : u \in us \/ Owed(u) => u \in excused' \/ Owed(u)'
  <2> SUFFICES ASSUME NEW u \in cached, u \in us \/ Owed(u)
               PROVE  u \in excused' \/ Owed(u)'
    OBVIOUS
  <2>1. CASE u \in us
    BY <2>1 DEF Owed
  <2>2. CASE u \notin us
    <3>1. u \in Users /\ userRoles'[u] = userRoles[u]
      BY <2>2, RowsGive DEF TypeOK
    <3> QED
      BY <2>2, <3>1, OthersOwe
  <2> QED
    BY <2>1, <2>2
<1> QED
  BY <1>1, <1>2, <1>3, EntriesStayFresh

LEMMA FreshCall ==
  ASSUME TypeOK, ReadIsCurrent, CacheIsFresh, NEW a \in Calls, CallStep(a)
  PROVE  ReadIsCurrent' /\ CacheIsFresh'
<1>1. CASE WriteRole(a)
  <2>1. PICK x \in Roles : x = call[a].role
    BY <1>1, WriteRoleStep DEF RoleCall
  <2>2. /\ call[a].at = "writing" /\ OwedBy(a) = {}
        /\ UNCHANGED <<made, userRoles, granted, denied, cache, req, excused>>
    BY <1>1, OwedAt DEF WriteRole
  <2>3. /\ \A b \in Calls : b # a => call'[b] = call[b]
        /\ \A y \in Roles : y # x => rolePerms'[y] = rolePerms[y]
    BY <1>1, <2>1, WriteRoleStep
  <2>4. CASE made[x] = "there"
    <3>1. SameRows(Holders(x)) /\ Holders(x) \subseteq Users
      BY <2>2, <2>3 DEF SameRows, Holders, TypeOK
    <3>2. /\ call'[a].at = "selecting" /\ call'[a].role = x /\ call'[a].what = call[a].what
          /\ Touch(Holders(x))
      BY <1>1, <2>1, <2>4, WriteRoleStep
    <3>3. CASE call[a].what # "delete"
      <4>1. OwedBy(a)' = Holders(x)'
        BY <3>2, <3>3 DEF OwedBy, Holders
      <4>2. Holders(x)' = Holders(x)
        BY <2>2 DEF Holders
      <4> QED
        BY <2>2, <2>3, <3>1, <3>2, <4>1, <4>2, ChangeFresh
    <3>4. CASE call[a].what = "delete"
      <4>1. call'[a].at = "selecting" /\ call'[a].what = "delete" /\ UNCHANGED rolePerms
        BY <1>1, <3>2, <3>4, WriteRoleStep
      <4>2. SameRows({})
        BY <2>2, <4>1 DEF SameRows
      <4>3. /\ touched \subseteq touched' /\ \A r \in Requests : req[r].user \in {} => r \in touched'
        BY <3>2 DEF Touch
      <4>4. ReadIsCurrent'
        BY <2>2, <4>2, <4>3, RequestsStayCurrent
      <4>5. \A u \in Users : Owed(u) => u \in excused' \/ Owed(u)'
        BY <2>2, <2>3, OthersOwe
      <4>6. CacheIsFresh'
        BY <2>2, <4>2, <4>5, EntriesStayFresh DEF TypeOK
      <4> QED
        BY <4>4, <4>6
    <3> QED
      BY <3>3, <3>4
  <2>5. CASE made[x] # "there"
    <3>1. UNCHANGED <<tables, cache, req, hist>>
      BY <1>1, <2>1, <2>2, <2>5, WriteRoleStep DEF tables, hist
    <3> QED
      BY <2>2, <2>3, <3>1, IdleFresh
  <2> QED
    BY <2>4, <2>5
<1>2. CASE SelectHolders(a)
  <2>1. /\ UNCHANGED <<tables, cache, req, hist>> /\ call[a].at = "selecting"
        /\ \A b \in Calls : b # a => call'[b] = call[b]
    BY <1>2, SelectStep
  <2>2. CASE OwedBy(a) = {}
    BY <2>1, <2>2, IdleFresh
  <2>3. CASE OwedBy(a) # {}
    <3>1. call'[a] = Deleting(OwedBy(a))
      BY <1>2, <2>1, <2>3, SelectStep, OwedAt
    <3>2. call'[a].at = "deleting" /\ call'[a].keys = OwedBy(a)
      BY <3>1, Ends
    <3>3. OwedBy(a)' = OwedBy(a)
      BY <3>2 DEF OwedBy
    <3>4. SameRows({}) /\ touched' = touched /\ excused' = excused
      BY <2>1, TablesGive DEF hist
    <3>5. ReadIsCurrent'
      BY <2>1, <3>4, RequestsStayCurrent
    <3>6. \A u \in Users : Owed(u) => u \in excused' \/ Owed(u)'
      BY <2>1, <3>3, OthersOwe DEF tables, Owed
    <3>7. CacheIsFresh'
      BY <2>1, <3>4, <3>6, EntriesStayFresh DEF TypeOK
    <3> QED
      BY <3>5, <3>7
  <2> QED
    BY <2>2, <2>3
<1>3. CASE EraseRole(a)
  <2>1. PICK x \in Roles : x = call[a].role
    BY <1>3, EraseStep DEF RoleCall
  <2>2. /\ UNCHANGED <<granted, denied, cache, req>> /\ call[a].at = "erasing"
        /\ excused' = excused \cup (Holders(x) \cap cached)
        /\ Touch(Holders(x)) /\ \A b \in Calls : b # a => call'[b] = call[b]
        /\ \A y \in Roles : y # x => rolePerms'[y] = rolePerms[y]
        /\ \A u \in Users : userRoles'[u] = userRoles[u] \ {x}
    BY <1>3, <2>1, EraseStep
  <2>3. SameRows(Holders(x)) /\ Holders(x) \subseteq Users
    <3> SUFFICES ASSUME NEW u \in Users \ Holders(x)
                 PROVE  /\ userRoles'[u] = userRoles[u]
                        /\ granted'[u] = granted[u] /\ denied'[u] = denied[u]
                        /\ \A y \in userRoles[u] : rolePerms'[y] = rolePerms[y]
      BY DEF SameRows, Holders
    <3>1. x \notin userRoles[u] /\ userRoles[u] \subseteq Roles
      BY DEF Holders, TypeOK
    <3>2. userRoles'[u] = userRoles[u]
      BY <2>2, <3>1
    <3>3. \A y \in userRoles[u] : rolePerms'[y] = rolePerms[y]
      BY <2>2, <3>1
    <3> QED
      BY <2>2, <3>2, <3>3
  <2>4. OwedBy(a) = {}
    BY <2>2, OwedAt
  <2> QED
    BY <2>2, <2>3, <2>4, ChangeFresh
<1>4. CASE WriteUser(a)
  <2>1. PICK u \in Users : u = call[a].user
    BY <1>4, WriteUserStep DEF UserCall
  <2>2. /\ UNCHANGED <<made, rolePerms, cache, req, excused>> /\ call[a].at = "writing"
        /\ \A b \in Calls : b # a => call'[b] = call[b]
        /\ \A v \in Users : v # u =>
             userRoles'[v] = userRoles[v] /\ granted'[v] = granted[v] /\ denied'[v] = denied[v]
    BY <1>4, <2>1, WriteUserStep
  <2>3. OwedBy(a) = {}
    BY <2>2, OwedAt
  <2>4. CASE UNCHANGED <<userRoles, granted, denied, touched>>
    <3>1. UNCHANGED <<tables, cache, req, hist>>
      BY <2>2, <2>4 DEF tables, hist
    <3> QED
      BY <2>2, <2>3, <3>1, IdleFresh
  <2>5. CASE call'[a] = Deleting({u}) /\ Touch({u})
    <3>1. SameRows({u})
      BY <2>2 DEF SameRows
    <3>2. OwedBy(a)' = {u}
      <4>1. call'[a].at = "deleting" /\ call'[a].keys = {u}
        BY <2>5, Ends
      <4> QED
        BY <4>1 DEF OwedBy
    <3> QED
      BY <2>2, <2>3, <2>5, <3>1, <3>2, ChangeFresh
  <2> QED
    BY <1>4, <2>1, <2>4, <2>5, WriteUserStep
<1>5. CASE DeleteEntries(a) \/ EmptyEntries(a)
  <2>1. /\ UNCHANGED <<tables, req, touched>> /\ Drop(call[a].keys) /\ call[a].keys \subseteq Users
        /\ call[a].at \in {"deleting", "emptying"}
        /\ \A b \in Calls : b # a => call'[b] = call[b]
    BY <1>5, DelStep
  <2>2. OwedBy(a) \subseteq call[a].keys
    BY <2>1, OwedAt
  <2>3. \A u \in Users \ call[a].keys : Owed(u) => Owed(u)'
    BY <2>1, <2>2, OwedStays DEF Owed, tables
  <2>4. CacheIsFresh'
    BY <2>1, <2>3, DropFresh
  <2>5. ReadIsCurrent'
    BY <2>1, TablesGive, RequestsStayCurrent
  <2> QED
    BY <2>4, <2>5
<1> QED
  BY <1>1, <1>2, <1>3, <1>4, <1>5 DEF CallStep

LEMMA FreshStart ==
  ASSUME TypeOK, ReadIsCurrent, CacheIsFresh, NEW a \in Calls, Start(a)
  PROVE  ReadIsCurrent' /\ CacheIsFresh'
<1>1. ASSUME call[a].at = "idle", UNCHANGED <<tables, cache, req, hist>>,
             \A b \in Calls : b # a => call'[b] = call[b]
      PROVE  ReadIsCurrent' /\ CacheIsFresh'
  <2>1. OwedBy(a) = {}
    BY <1>1, OwedAt
  <2> QED
    BY <1>1, <2>1, IdleFresh
<1>2. ASSUME NEW u \in Users, NEW c \in Codes, RemoveOverride(a, u, c)
      PROVE  ReadIsCurrent' /\ CacheIsFresh'
  <2>1. /\ call[a].at = "idle" /\ UNCHANGED <<made, rolePerms, userRoles, cache, req, excused>>
        /\ \A v \in Users : v # u => granted'[v] = granted[v] /\ denied'[v] = denied[v]
        /\ call'[a] = Deleting({u}) /\ Touch({u})
        /\ \A b \in Calls : b # a => call'[b] = call[b]
    BY <1>2, RemoveStep
  <2>2. SameRows({u})
    BY <2>1 DEF SameRows
  <2>3. OwedBy(a) = {}
    BY <2>1, OwedAt
  <2>4. OwedBy(a)' = {u}
    <3>1. call'[a].at = "deleting" /\ call'[a].keys = {u}
      BY <2>1, Ends
    <3> QED
      BY <3>1 DEF OwedBy
  <2> QED
    BY <2>1, <2>2, <2>3, <2>4, ChangeFresh
<1> QED
  BY <1>1, <1>2, StartCases, StartRoleStep, StartUserStep

LEMMA FreshNext == TypeOK /\ ReadIsCurrent /\ CacheIsFresh /\ [Next]_vars
                     => ReadIsCurrent' /\ CacheIsFresh'
<1> SUFFICES ASSUME TypeOK, ReadIsCurrent, CacheIsFresh, [Next]_vars
             PROVE  ReadIsCurrent' /\ CacheIsFresh'
  OBVIOUS
<1>1. ASSUME NEW r \in Requests, RequestStep(r) \/ RequestDies(r) \/ \E u \in Users : Miss(r, u)
      PROVE  ReadIsCurrent' /\ CacheIsFresh'
  BY <1>1, CurrentRequest, FreshRequest
<1>2. ASSUME NEW a \in Calls, CallDies(a)
      PROVE  ReadIsCurrent' /\ CacheIsFresh'
  <2>1. /\ UNCHANGED <<tables, cache, req, touched>>
        /\ excused' = excused \cup (OwedBy(a) \cap cached)
    BY <1>2 DEF CallDies
  <2>2. \A b \in Calls : b # a => call'[b] = call[b]
    BY <1>2, DiesStep
  <2>3. SameRows({})
    BY <2>1, TablesGive
  <2>4. ReadIsCurrent'
    BY <2>1, <2>3, RequestsStayCurrent
  <2>5. \A u \in cached : Owed(u) => u \in excused' \/ Owed(u)'
    BY <2>1, <2>2, OthersOwe DEF TypeOK, tables
  <2>6. CacheIsFresh'
    BY <2>1, <2>3, <2>5, EntriesStayFresh
  <2> QED
    BY <2>4, <2>6
<1>3. ASSUME NEW u \in Users, Expire(u)
      PROVE  ReadIsCurrent' /\ CacheIsFresh'
  <2>1. Drop({u}) /\ UNCHANGED <<tables, req, call, touched>>
    BY <1>3 DEF Expire
  <2>2. \A v \in Users : Owed(v) => Owed(v)'
    BY <2>1 DEF Owed, OwedBy, Holders, tables
  <2>3. CacheIsFresh'
    BY <2>1, <2>2, DropFresh
  <2>4. ReadIsCurrent'
    BY <2>1, TablesGive, RequestsStayCurrent
  <2> QED
    BY <2>3, <2>4
<1>4. ASSUME UNCHANGED <<rolePerms, userRoles, granted, denied, cache, req, call, hist>>
      PROVE  ReadIsCurrent' /\ CacheIsFresh'
  <2>1. SameRows({}) /\ touched' = touched /\ excused' = excused
    BY <1>4 DEF SameRows, hist
  <2>2. \A u \in Users : Owed(u) => Owed(u)'
    BY <1>4 DEF Owed, OwedBy, Holders
  <2>3. ReadIsCurrent'
    BY <1>4, <2>1, RequestsStayCurrent
  <2>4. CacheIsFresh'
    BY <1>4, <2>1, <2>2, EntriesStayFresh DEF TypeOK
  <2> QED
    BY <2>3, <2>4
<1>5. (\E x \in Roles : CreateRole(x)) \/ UNCHANGED vars => ReadIsCurrent' /\ CacheIsFresh'
  BY <1>4 DEF CreateRole, vars, tables
<1> QED
  BY <1>1, <1>2, <1>3, <1>5, FreshStart, FreshCall DEF Next

\* The entry of a user says what the tables say, unless a request raced with a
\* change, a call was cut off, a role was deleted, or a DEL is still to come.
THEOREM Fresh == Spec => []CacheIsFresh
<1>1. Init => ReadIsCurrent /\ CacheIsFresh
  BY DEF Init, ReadIsCurrent, Current, CacheIsFresh
<1> QED
  BY <1>1, FreshNext, TypeInit, TypeNext, PTL DEF Spec

-----------------------------------------------------------------------------
(* A withdrawn code stays withdrawn.  This is the part of                   *)
(* WithdrawnIsRefusedInTheEnd that holds without fairness.                  *)

\* Requests whose rows changed under them, and that may yet let u through.
LateFor(u) == {r \in touched : req[r].at # "idle" /\ req[r].user = u}

\* A code that a user has not got in the tables becomes allowed by the cache only
\* through a request that read before a change, which is used up.  New ones of that
\* kind appear only when another call goes on.
LateRequestsRunOut ==
  \A u \in Users :
    /\ \A c \in Codes : c \notin Effective(u) /\ ~Lets(u, c) /\ Lets(u, c)' => LateFor(u)' # LateFor(u)
    /\ UNCHANGED call => LateFor(u)' \subseteq LateFor(u)

Reading == {"codes", "overrides", "filling"}

\* A request that is late has read something, and has not ended.
TouchedHasRead == \A r \in touched : req[r].at \in Reading

\* A request's own step makes nobody late, and keeps its user while it runs.
LEMMA OwnRun ==
  ASSUME TypeOK, TouchedHasRead, NEW r \in Requests,
         RequestStep(r) \/ RequestDies(r) \/ \E u \in Users : Miss(r, u)
  PROVE  /\ touched' \subseteq touched /\ \A q \in Requests : q # r => req'[q] = req[q]
         /\ r \in touched' => req'[r].at \in Reading /\ req'[r].user = req[r].user
<1> USE DEF Reading
<1>1. CASE ReadRoles(r) \/ \E u \in Users : Miss(r, u)
  <2>1. req[r].at \in {"idle", "roles"} /\ touched' = touched
    BY <1>1 DEF ReadRoles, Miss, hist
  <2>2. r \notin touched
    BY <2>1 DEF TouchedHasRead
  <2> QED
    BY <1>1, <2>1, <2>2 DEF ReadRoles, Miss, TypeOK
<1>2. CASE ReadCodes(r) \/ ReadOverrides(r)
  <2>1. touched' = touched /\ req'[r].at \in {"overrides", "filling"} /\ req'[r].user = req[r].user
    <3>1. CASE ReadCodes(r)
      BY <3>1 DEF ReadCodes, hist, TypeOK
    <3>2. CASE ReadOverrides(r)
      <4>1. req'[r].at = "filling" /\ req'[r].user = req[r].user
        BY <3>2, ReqTypes DEF ReadOverrides, TypeOK
      <4> QED
        BY <3>2, <4>1 DEF ReadOverrides, hist
    <3> QED
      BY <1>2, <3>1, <3>2
  <2> QED
    BY <1>2, <2>1 DEF ReadCodes, ReadOverrides, TypeOK
<1>3. CASE Fill(r) \/ RequestDies(r)
  BY <1>3 DEF Fill, RequestDies, Forget, TypeOK
<1> QED
  BY <1>1, <1>2, <1>3 DEF RequestStep

\* Any other step leaves requests alone, makes late only requests that have read,
\* when a call goes on, and lets nobody in.
LEMMA OtherRuns ==
  ASSUME TypeOK, [Next]_vars,
         ~\E r \in Requests : RequestStep(r) \/ RequestDies(r) \/ \E u \in Users : Miss(r, u)
  PROVE  /\ req' = req
         /\ \A q \in touched' : q \in touched \/ (req[q].at \in Reading /\ call' # call)
         /\ \A u \in Users, c \in Codes : Lets(u, c)' => Lets(u, c)
<1> USE DEF Reading
<1>1. ASSUME NEW a \in Calls, WriteRole(a) \/ WriteUser(a) \/ EraseRole(a)
      PROVE  /\ req' = req /\ cache' = cache
             /\ \A q \in touched' : q \in touched \/ (req[q].at \in Reading /\ call' # call)
  <2>1. call' # call
    <3>1. CASE WriteRole(a)
      BY <3>1, WriteRoleStep
    <3>2. CASE WriteUser(a) \/ EraseRole(a)
      <4>1. call[a].at \in {"writing", "erasing"}
        BY <3>2 DEF WriteUser, EraseRole
      <4>2. call'[a].at \in {"done", "deleting"}
        BY <3>2, Ends DEF WriteUser, EraseRole, To, TypeOK
      <4> QED
        BY <4>1, <4>2
    <3> QED
      BY <1>1, <3>1, <3>2
  <2>2. UNCHANGED <<req, cache>> /\ (touched' = touched \/ \E us : Touch(us))
    BY <1>1 DEF WriteRole, WriteUser, EraseRole
  <2> QED
    BY <2>1, <2>2 DEF Touch
<1>2. ASSUME NEW a \in Calls, NEW u \in Users, NEW c \in Codes, RemoveOverride(a, u, c)
      PROVE  /\ req' = req /\ cache' = cache
             /\ \A q \in touched' : q \in touched \/ (req[q].at \in Reading /\ call' # call)
  <2>1. call[a].at = "idle" /\ call'[a].at = "deleting"
    BY <1>2, Ends DEF RemoveOverride, To, TypeOK
  <2>2. UNCHANGED <<req, cache>> /\ Touch({u})
    BY <1>2 DEF RemoveOverride
  <2> QED
    BY <2>1, <2>2 DEF Touch
<1>3. ASSUME NEW us, Drop(us), NEW u \in Users, NEW c \in Codes, Lets(u, c)'
      PROVE  Lets(u, c)
  BY <1>3 DEF Drop, Lets
<1>4. ASSUME NEW a \in Calls, DeleteEntries(a) \/ EmptyEntries(a)
      PROVE  UNCHANGED <<req, touched>> /\ Drop(call[a].keys)
  BY <1>4 DEF DeleteEntries, EmptyEntries
<1>5. ASSUME NEW a \in Calls, SelectHolders(a) \/ CallDies(a)
      PROVE  UNCHANGED <<req, touched, cache>>
  BY <1>5 DEF SelectHolders, CallDies, hist
<1>6. ASSUME NEW a \in Calls, Start(a)
      PROVE  /\ req' = req /\ cache' = cache
             /\ \A q \in touched' : q \in touched \/ (req[q].at \in Reading /\ call' # call)
  BY <1>2, <1>6, StartCases, StartRoleStep, StartUserStep DEF hist
<1>7. ASSUME NEW u \in Users, Expire(u)
      PROVE  UNCHANGED <<req, touched>> /\ Drop({u})
  BY <1>7 DEF Expire
<1>8. CASE (\E x \in Roles : CreateRole(x)) \/ UNCHANGED vars
  BY <1>8 DEF CreateRole, vars, hist, cache, Lets
<1>9. cache' = cache => \A u \in Users, c \in Codes : Lets(u, c)' => Lets(u, c)
  BY DEF cache, Lets
<1> QED
  BY <1>1, <1>3, <1>4, <1>5, <1>6, <1>7, <1>8, <1>9 DEF Next, CallStep

LEMMA TouchedNext == TypeOK /\ TouchedHasRead /\ [Next]_vars => TouchedHasRead'
<1> SUFFICES ASSUME TypeOK, TouchedHasRead, [Next]_vars
             PROVE  TouchedHasRead'
  OBVIOUS
<1>1. touched \subseteq Requests
  BY DEF TypeOK
<1>2. ASSUME NEW r \in Requests, RequestStep(r) \/ RequestDies(r) \/ \E u \in Users : Miss(r, u)
      PROVE  TouchedHasRead'
  BY <1>1, <1>2, OwnRun DEF TouchedHasRead
<1> QED
  BY <1>2, OtherRuns DEF TouchedHasRead

\* Only the SET of a request lets a user in; an up to date one says the tables.
LEMMA FillLets ==
  ASSUME TypeOK, ReadIsCurrent, NEW r \in Requests,
         RequestStep(r) \/ RequestDies(r) \/ \E u \in Users : Miss(r, u),
         NEW u \in Users, NEW c \in Codes, c \notin Effective(u), ~Lets(u, c), Lets(u, c)'
  PROVE  r \in LateFor(u) /\ r \notin touched'
<1>1. Fill(r)
  BY DEF RequestStep, ReadRoles, ReadCodes, ReadOverrides, RequestDies, Miss, cache, Lets
<1>2. /\ req[r].at = "filling" /\ r \notin touched'
      /\ cached' = cached \cup {req[r].user}
      /\ codesIn' = [codesIn EXCEPT ![req[r].user] = req[r].codes]
  BY <1>1 DEF Fill, Forget
<1>3. req[r].user = u /\ c \in req[r].codes
  BY <1>2 DEF Lets, TypeOK
<1>4. r \in touched
  BY <1>2, <1>3 DEF ReadIsCurrent, Current
<1> QED
  BY <1>2, <1>3, <1>4 DEF LateFor

\* However requests race with a withdrawal, and whatever calls are cut off, the cache
\* gives the code back at most once for each request that had read before it.
THEOREM WithdrawnForGood == Spec => [][LateRequestsRunOut]_vars
<1>1. ASSUME TypeOK, TouchedHasRead, ReadIsCurrent, [Next]_vars
      PROVE  LateRequestsRunOut
  <2>1. touched \subseteq Requests
    BY <1>1 DEF TypeOK
  <2>2. ASSUME NEW r \in Requests, RequestStep(r) \/ RequestDies(r) \/ \E u \in Users : Miss(r, u),
               NEW u \in Users
        PROVE  /\ LateFor(u)' \subseteq LateFor(u)
               /\ \A c \in Codes : c \notin Effective(u) /\ ~Lets(u, c) /\ Lets(u, c)'
                    => LateFor(u)' # LateFor(u)
    <3>1. LateFor(u)' \subseteq LateFor(u)
      BY <1>1, <2>1, <2>2, OwnRun DEF LateFor, TouchedHasRead, Reading
    <3>2. ASSUME NEW c \in Codes, c \notin Effective(u), ~Lets(u, c), Lets(u, c)'
          PROVE  LateFor(u)' # LateFor(u)
      <4>1. r \in LateFor(u) /\ r \notin touched'
        BY <1>1, <2>2, <3>2, FillLets
      <4>2. r \notin LateFor(u)'
        BY <4>1 DEF LateFor
      <4> QED
        BY <4>1, <4>2
    <3> QED
      BY <3>1, <3>2
  <2>3. ASSUME ~\E r \in Requests : RequestStep(r) \/ RequestDies(r) \/ \E u \in Users : Miss(r, u)
        PROVE  LateRequestsRunOut
    <3>1. UNCHANGED call => \A u \in Users : LateFor(u)' \subseteq LateFor(u)
      BY <1>1, <2>3, OtherRuns DEF LateFor
    <3> QED
      BY <1>1, <2>3, <3>1, OtherRuns DEF LateRequestsRunOut
  <2> QED
    BY <2>2, <2>3 DEF LateRequestsRunOut
<1>2. Init => TouchedHasRead /\ ReadIsCurrent /\ CacheIsFresh
  BY DEF Init, TouchedHasRead, ReadIsCurrent, Current, CacheIsFresh
<1> QED
  BY <1>1, <1>2, TouchedNext, FreshNext, TypeInit, TypeNext, PTL DEF Spec

=============================================================================
