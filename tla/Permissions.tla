----------------------------- MODULE Permissions -----------------------------
(***************************************************************************)
(* Roles and permissions of mapi (core/permissions): the tables of roles,  *)
(* of their permissions and of the overrides of a user, the administrative *)
(* calls that change them, and the cache of 15 minutes in Redis that the   *)
(* PermissionsGuard reads on every request.                                *)
(*                                                                         *)
(* Each statement and each Redis command is a step.  A call changes a      *)
(* table and then deletes the cache entries of the users it concerns       *)
(* (deleteRole the other way round); a request that misses the cache reads *)
(* three tables one after the other and writes what it computed.           *)
(***************************************************************************)
EXTENDS Naturals, FiniteSets

CONSTANTS
  Users,
  Roles,        \* ids of roles (bound on the roles created)
  SystemRoles,  \* roles of the migration: assigned and revoked, never edited
  Codes,        \* codes of the catalogue
  Requests,     \* requests in the guard at a time (bound)
  Calls         \* administrative calls, made once each (bound)

ASSUME SystemAssumption == SystemRoles \subseteq Roles /\ SystemRoles # {}
ASSUME FiniteAssumption == IsFiniteSet(Roles)

VARIABLES
  made,       \* made[x]: the row of roles: not yet inserted, there, or deleted
  rolePerms,  \* role_permissions, by role
  userRoles,  \* user_roles, by user
  granted,    \* user_permissions with granted = true, by user
  denied,     \* user_permissions with granted = false, by user
  cached,     \* users with a key in Redis
  codesIn,    \* codesIn[u]: the codes under that key, {} without it
  req,        \* req[r]: a run of getEffectivePermissionCodes
  call,       \* call[a]: an administrative call
  touched,    \* history: requests whose user's rows changed since they read
  excused     \* history: users whose entry may stay out of date until its TTL

tables == <<made, rolePerms, userRoles, granted, denied>>
hist == <<touched, excused>>
cache == <<cached, codesIn>>
vars == <<tables, cache, req, call, hist>>

RoleEdits == {"update", "grant", "withdraw", "delete"}
UserEdits == {"assign", "revoke", "allow", "deny"}

\* Where a request stands, and what it has read by then.
ReqType ==
  [at : {"idle"}] \cup [at : {"roles"}, user : Users]
    \cup [at : {"codes"}, user : Users, roles : SUBSET Roles]
    \cup [at : {"overrides", "filling"}, user : Users, codes : SUBSET Codes]

\* Where a call stands, and what it was asked or has read by then.
CallType ==
  [at : {"idle", "done"}]
    \cup [at : {"writing", "selecting", "erasing"}, what : RoleEdits, role : Roles,
          codes : SUBSET Codes]
    \cup [at : {"writing"}, what : UserEdits, user : Users, role : Roles,
          codes : SUBSET Codes, count : Nat]
    \cup [at : {"deleting"}, keys : SUBSET Users]
    \cup [at : {"emptying"}, keys : SUBSET Users,
          then : [at : {"erasing"}, what : {"delete"}, role : Roles, codes : SUBSET Codes]]

TypeOK ==
  /\ made \in [Roles -> {"none", "there", "gone"}]
  /\ rolePerms \in [Roles -> SUBSET Codes]
  /\ userRoles \in [Users -> SUBSET Roles]
  /\ granted \in [Users -> SUBSET Codes]
  /\ denied \in [Users -> SUBSET Codes]
  /\ cached \subseteq Users
  /\ codesIn \in [Users -> SUBSET Codes]
  /\ req \in [Requests -> ReqType]
  /\ call \in [Calls -> CallType]
  /\ touched \subseteq Requests
  /\ excused \subseteq Users
  /\ \A u \in Users : \A x \in userRoles[u] : made[x] = "there"
  /\ \A u \in Users : granted[u] \cap denied[u] = {}

There == {x \in Roles : made[x] = "there"}
Holders(x) == {u \in Users : x \in userRoles[u]}

\* An administered system at rest, with nothing in Redis: the roles of the system
\* hold every code, operators have made some roles, everybody has a role.
Init ==
  /\ made \in {m \in [Roles -> {"none", "there"}] : \A x \in SystemRoles : m[x] = "there"}
  /\ rolePerms \in {p \in [Roles -> SUBSET Codes] :
                     \A x \in Roles : /\ x \in SystemRoles => p[x] = Codes
                                      /\ made[x] = "none" => p[x] = {}}
  /\ userRoles \in [Users -> (SUBSET There) \ {{}}]
  /\ granted = [u \in Users |-> {}]
  /\ denied = [u \in Users |-> {}]
  /\ cached = {}
  /\ codesIn = [u \in Users |-> {}]
  /\ req = [r \in Requests |-> [at |-> "idle"]]
  /\ call = [a \in Calls |-> [at |-> "idle"]]
  /\ touched = {}
  /\ excused = {}

-----------------------------------------------------------------------------
(* Variants with a plausible slip, for mutation testing.                   *)

MergedWithoutDenials(u, codes) == codes \cup granted[u]
TooFewByOne(n) == n = 0
ReadRolesTwice(r) ==
  /\ req[r].at = "roles"
  /\ req' = [req EXCEPT ![r].at = "codes"]
  /\ UNCHANGED <<tables, cache, call, hist>>
SelectHoldersOfNobody(a) ==
  /\ call[a].at = "selecting"
  /\ call' = [call EXCEPT ![a] = [at |-> "done"]]
  /\ UNCHANGED <<tables, cache, req, hist>>

-----------------------------------------------------------------------------
(* A request in the PermissionsGuard: getEffectivePermissionCodes.  A hit  *)
(* changes nothing: what the entry says is let through.                    *)

Lets(u, c) == u \in cached /\ c \in codesIn[u]

\* Of the roles' codes and the overrides; a denial wins.
Merged(u, codes) == (codes \cup granted[u]) \ denied[u]

Miss(r, u) ==
  /\ req[r].at = "idle" /\ u \notin cached
  /\ req' = [req EXCEPT ![r] = [at |-> "roles", user |-> u]]
  /\ UNCHANGED <<tables, cache, call, hist>>

\* The first SELECT; without roles the second is skipped.
ReadRoles(r) ==
  LET u == req[r].user IN
  /\ req[r].at = "roles"
  /\ req' = [req EXCEPT ![r] =
       IF userRoles[u] = {} THEN [at |-> "overrides", user |-> u, codes |-> {}]
                            ELSE [at |-> "codes", user |-> u, roles |-> userRoles[u]]]
  /\ UNCHANGED <<tables, cache, call, hist>>

ReadCodes(r) ==
  /\ req[r].at = "codes"
  /\ req' = [req EXCEPT ![r] =
       [at |-> "overrides", user |-> @.user, codes |-> UNION {rolePerms[x] : x \in @.roles}]]
  /\ UNCHANGED <<tables, cache, call, hist>>

ReadOverrides(r) ==
  /\ req[r].at = "overrides"
  /\ req' = [req EXCEPT ![r].at = "filling", ![r].codes = Merged(req[r].user, @)]
  /\ UNCHANGED <<tables, cache, call, hist>>

Forget(r) == /\ req' = [req EXCEPT ![r] = [at |-> "idle"]]
             /\ touched' = touched \ {r}

\* SET ... EX, whatever changed since the rows were read.
Fill(r) ==
  LET u == req[r].user IN
  /\ req[r].at = "filling"
  /\ cached' = cached \cup {u}
  /\ codesIn' = [codesIn EXCEPT ![u] = req[r].codes]
  /\ excused' = IF r \in touched THEN excused \cup {u} ELSE excused \ {u}
  /\ Forget(r)
  /\ UNCHANGED <<tables, call>>

\* The database or Redis fails, or mapi stops: the request is answered no more.
RequestDies(r) ==
  /\ req[r].at # "idle"
  /\ Forget(r)
  /\ UNCHANGED <<tables, cache, call, excused>>

\* DEL, or the TTL of 15 minutes.
Drop(us) == /\ cached' = cached \ us
            /\ codesIn' = [u \in Users |-> IF u \in us THEN {} ELSE codesIn[u]]
            /\ excused' = excused \ us

Expire(u) ==
  /\ u \in cached
  /\ Drop({u})
  /\ UNCHANGED <<tables, req, call, touched>>

-----------------------------------------------------------------------------
(* The administrative calls.  A call of this model is made once.           *)

To(a, next) == call' = [call EXCEPT ![a] = next]
Done == [at |-> "done"]
Deleting(us) == [at |-> "deleting", keys |-> us]

\* The rows of these users change: a request that has begun to read them has
\* read rows that are not in the tables any more.
Touch(us) ==
  touched' = touched \cup
    {r \in Requests : req[r].at \in {"codes", "overrides", "filling"} /\ req[r].user \in us}

\* createRole: under a name that nobody has taken.
CreateRole(x) ==
  /\ made[x] = "none"
  /\ made' = [made EXCEPT ![x] = "there"]
  /\ UNCHANGED <<rolePerms, userRoles, granted, denied, cache, req, call, hist>>

\* updateRole, grantPermissionsToRole, revokePermissionFromRole, deleteRole: the
\* role is there and no role of the system.
StartRoleEdit(a, what, x, codes) ==
  /\ call[a].at = "idle"
  /\ made[x] = "there" /\ x \notin SystemRoles
  /\ To(a, [at |-> IF what = "delete" THEN "selecting" ELSE "writing",
            what |-> what, role |-> x, codes |-> codes])
  /\ UNCHANGED <<tables, cache, req, hist>>

\* The statement: an UPDATE or an INSERT fails when the role has been deleted, a
\* DELETE finds nothing.
WriteRole(a) ==
  LET x == call[a].role  what == call[a].what IN
  /\ call[a].at = "writing" /\ what \in RoleEdits
  /\ IF made[x] = "there"
     THEN /\ rolePerms' = [rolePerms EXCEPT ![x] =
               CASE what = "grant" -> @ \cup call[a].codes
                 [] what = "withdraw" -> @ \ call[a].codes
                 [] OTHER -> @]
          /\ Touch(Holders(x))
     ELSE UNCHANGED <<rolePerms, touched>>
  /\ To(a, IF made[x] = "there" \/ what = "withdraw" THEN [call[a] EXCEPT !.at = "selecting"]
                                                     ELSE Done)
  /\ UNCHANGED <<made, userRoles, granted, denied, cache, req, excused>>

\* invalidateUsersWithRole: who holds it now; nobody: no DEL.
SelectHolders(a) ==
  LET x == call[a].role  next == [call[a] EXCEPT !.at = "erasing"] IN
  /\ call[a].at = "selecting"
  /\ To(a, IF call[a].what # "delete"
           THEN IF Holders(x) = {} THEN Done ELSE Deleting(Holders(x))
           ELSE IF Holders(x) = {} THEN next
           ELSE [at |-> "emptying", keys |-> Holders(x), then |-> next])
  /\ UNCHANGED <<tables, cache, req, hist>>

\* deleteRole deletes the entries first, then the role; user_roles cascades.
\* Nobody deletes the entries that were written in between.
EmptyEntries(a) ==
  /\ call[a].at = "emptying"
  /\ Drop(call[a].keys)
  /\ To(a, call[a].then)
  /\ UNCHANGED <<tables, req, touched>>

EraseRole(a) ==
  LET x == call[a].role IN
  /\ call[a].at = "erasing"
  /\ made' = [made EXCEPT ![x] = "gone"]
  /\ rolePerms' = [rolePerms EXCEPT ![x] = {}]
  /\ userRoles' = [u \in Users |-> userRoles[u] \ {x}]
  /\ Touch(Holders(x))
  /\ excused' = excused \cup (Holders(x) \cap cached)
  /\ To(a, Done)
  /\ UNCHANGED <<granted, denied, cache, req>>

\* What revokeRoleFromUser refuses: the last role of a user, by their count.
TooFew(n) == n <= 1

\* assignRoleToUser, revokeRoleFromUser, setUserPermissionOverride: the checks.
StartUserEdit(a, what, u, x, codes) ==
  LET n == Cardinality(userRoles[u]) IN
  /\ call[a].at = "idle"
  /\ \/ what = "assign" /\ made[x] = "there" /\ x \notin userRoles[u]
     \/ what = "revoke" /\ ~TooFew(n)
     \/ what \in {"allow", "deny"} /\ codes \cap (granted[u] \cup denied[u]) = {}
  /\ To(a, [at |-> "writing", what |-> what, user |-> u, role |-> x,
            codes |-> codes, count |-> n])
  /\ UNCHANGED <<tables, cache, req, hist>>

\* The statement, then the DEL, unless the role was deleted or the override was
\* set by somebody else in between (a constraint of the tables refuses it).
WriteUser(a) ==
  LET u == call[a].user  x == call[a].role  codes == call[a].codes  what == call[a].what
      refused == \/ what = "assign" /\ made[x] # "there"
                 \/ what \in {"allow", "deny"} /\ codes \cap (granted[u] \cup denied[u]) # {}
  IN /\ call[a].at = "writing" /\ what \in UserEdits
     /\ IF refused
        THEN UNCHANGED <<userRoles, granted, denied, touched>>
        ELSE /\ userRoles' = [userRoles EXCEPT ![u] =
                  CASE what = "assign" -> @ \cup {x} [] what = "revoke" -> @ \ {x} [] OTHER -> @]
             /\ granted' = [granted EXCEPT ![u] = IF what = "allow" THEN @ \cup codes ELSE @]
             /\ denied' = [denied EXCEPT ![u] = IF what = "deny" THEN @ \cup codes ELSE @]
             /\ Touch({u})
     /\ To(a, IF refused THEN Done ELSE Deleting({u}))
     /\ UNCHANGED <<made, rolePerms, cache, req, excused>>

\* removeUserPermissionOverride: one DELETE; no DEL when there was none.
RemoveOverride(a, u, c) ==
  /\ call[a].at = "idle"
  /\ c \in granted[u] \cup denied[u]
  /\ granted' = [granted EXCEPT ![u] = @ \ {c}]
  /\ denied' = [denied EXCEPT ![u] = @ \ {c}]
  /\ Touch({u})
  /\ To(a, Deleting({u}))
  /\ UNCHANGED <<made, rolePerms, userRoles, cache, req, excused>>

DeleteEntries(a) ==
  /\ call[a].at = "deleting"
  /\ Drop(call[a].keys)
  /\ To(a, Done)
  /\ UNCHANGED <<tables, req, touched>>

\* Entries that a call which has changed the tables is still to delete.
OwedBy(a) ==
  CASE call[a].at = "deleting" -> call[a].keys
    [] call[a].at = "selecting" /\ call[a].what # "delete" -> Holders(call[a].role)
    [] OTHER -> {}

\* The database or Redis fails, or mapi stops: what was changed stays changed.
CallDies(a) ==
  /\ call[a].at \notin {"idle", "done"}
  /\ excused' = excused \cup (OwedBy(a) \cap cached)
  /\ To(a, Done)
  /\ UNCHANGED <<tables, cache, req, touched>>

-----------------------------------------------------------------------------
RequestStep(r) == ReadRoles(r) \/ ReadCodes(r) \/ ReadOverrides(r) \/ Fill(r)

Start(a) ==
  \/ \E x \in Roles, codes \in (SUBSET Codes) \ {{}} : StartRoleEdit(a, "grant", x, codes)
  \/ \E x \in Roles, c \in Codes : StartRoleEdit(a, "withdraw", x, {c})
  \/ \E what \in {"update", "delete"}, x \in Roles : StartRoleEdit(a, what, x, {})
  \/ \E what \in {"assign", "revoke"}, u \in Users, x \in Roles :
       StartUserEdit(a, what, u, x, {})
  \/ \E what \in {"allow", "deny"}, u \in Users, c \in Codes :
       StartUserEdit(a, what, u, CHOOSE x \in SystemRoles : TRUE, {c})
  \/ \E u \in Users, c \in Codes : RemoveOverride(a, u, c)

CallStep(a) == \/ WriteRole(a) \/ SelectHolders(a) \/ EmptyEntries(a) \/ EraseRole(a)
               \/ WriteUser(a) \/ DeleteEntries(a)

Next ==
  \/ \E r \in Requests : RequestStep(r) \/ RequestDies(r) \/ \E u \in Users : Miss(r, u)
  \/ \E a \in Calls : Start(a) \/ CallStep(a) \/ CallDies(a)
  \/ \E u \in Users : Expire(u)
  \/ \E x \in Roles : CreateRole(x)

Spec == Init /\ [][Next]_vars

\* TTLs run out and the awaits of a request end; nobody has to send a request or
\* to make a call, and a call may hang for as long as the database does.
Fairness ==
  /\ \A u \in Users : WF_vars(Expire(u))
  /\ \A r \in Requests : WF_vars(RequestStep(r) \/ RequestDies(r))
FairSpec == Spec /\ Fairness

-----------------------------------------------------------------------------
(* Properties.                                                             *)

\* The formula of the documentation, read off the tables in one piece.
Effective(u) ==
  {c \in Codes : /\ c \in granted[u] \/ \E x \in userRoles[u] : c \in rolePerms[x]
                 /\ c \notin denied[u]}

\* The only ways to be served out of date permissions: a request that read before
\* a change and wrote its entry after, a call cut off before its DEL (both until
\* the TTL), a role deleted after the entries of its holders, or a DEL that a
\* call has yet to make.  In any other case the entry is what the tables say.
CacheIsFresh ==
  \A u \in cached : \/ codesIn[u] = Effective(u)
                    \/ u \in excused
                    \/ \E a \in Calls : u \in OwedBy(a)

\* A code that is taken away from a user for good is refused to them in the end,
\* whatever calls were cut off and whatever requests raced with them.
WithdrawnIsRefusedInTheEnd ==
  \A u \in Users, c \in Codes : []<>(c \in Effective(u)) \/ <>[](~Lets(u, c))

\* A user loses the last role only when a role is deleted, or to a revocation
\* that counted the roles before another revocation took one of them.
LastRoleIsLostOnlyInARace ==
  [][\A u \in Users : userRoles[u] # {} /\ userRoles'[u] = {} =>
       \E a \in Calls : \/ call[a].at = "erasing"
                        \/ /\ call[a].at = "writing" /\ call[a].what = "revoke"
                           /\ call[a].user = u /\ call[a].count > Cardinality(userRoles[u])
    ]_vars
=============================================================================
