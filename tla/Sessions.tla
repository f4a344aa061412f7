------------------------------ MODULE Sessions ------------------------------
(***************************************************************************)
(* Revocable sessions of mapi: core/auth/sessions.service.ts (rows of      *)
(* user_sessions, with a cache of 30 s in Redis in front of them) and the  *)
(* operations of modules/10-core-auth that create and revoke them: login,  *)
(* logout, revoke-all, change and reset of a password, disabling a user.   *)
(*                                                                         *)
(* Each database statement and each Redis command is a step: requests,     *)
(* logins and administrators interleave between any two of them.           *)
(***************************************************************************)
EXTENDS Naturals

CONSTANTS
  Users,
  Tokens,        \* jtis (bound on the sessions created)
  NoToken,
  Requests,      \* authenticated requests being verified (bound)
  Logins,        \* logins in progress (bound)
  Admins,        \* revoking operations in progress (bound)
  Expirable,     \* sessions that may outlive their expires_at (bound)
  MaxPasswords,  \* passwords a user goes through (bound)
  RedisFails     \* may a Redis command fail

ASSUME NamesAssumption == Users # {} /\ NoToken \notin Tokens
ASSUME BoundsAssumption ==
  Expirable \subseteq Tokens /\ MaxPasswords \in Nat /\ RedisFails \in BOOLEAN

VARIABLES
  status,    \* users.status
  password,  \* users.password_hash, as the number of its version
  row,       \* row[t]: user_sessions.revoked_at
  owner,     \* owner[t]: user_sessions.user_id
  under,     \* history: the password that t was obtained, or kept, with
  missed,    \* history: sessions of a late login or of an operation that stopped
  expired,   \* sessions whose expires_at has passed
  cache,     \* keys session:<jti> in Redis
  req,       \* req[r]: a run of verify
  login,     \* login[l]: a run of login
  op         \* op[a]: a run of an operation that revokes

users == <<status, password>>
rows == <<row, owner, under, missed, expired>>
vars == <<users, rows, cache, req, login, op>>

AnyUser == CHOOSE u \in Users : TRUE
IdleReq == [at |-> "idle", jti |-> NoToken]
IdleLogin == [at |-> "idle", user |-> AnyUser, password |-> 0]
IdleOp == [at |-> "idle", user |-> AnyUser, current |-> NoToken, jtis |-> {}]

\* What a run of verify, of login and of a revoking operation keeps.
ReqType == [at : {"idle"}, jti : {NoToken}] \cup [at : {"reading", "filling"}, jti : Tokens]
LoginType == [at : {"idle", "checked"}, user : Users, password : 0 .. MaxPasswords]
OpType == [at : {"idle", "hashing", "selecting", "updating", "deleting"},
           user : Users, current : Tokens \cup {NoToken}, jtis : SUBSET Tokens]

TypeOK ==
  /\ status \in [Users -> {"active", "disabled"}]
  /\ password \in [Users -> 0 .. MaxPasswords]
  /\ row \in [Tokens -> {"none", "live", "revoked"}]
  /\ owner \in [Tokens -> Users]
  /\ under \in [Tokens -> 0 .. MaxPasswords]
  /\ missed \subseteq Tokens
  /\ expired \subseteq Tokens
  /\ cache \subseteq Tokens
  /\ req \in [Requests -> ReqType]
  /\ login \in [Logins -> LoginType]
  /\ op \in [Admins -> OpType]

Init ==
  /\ status = [u \in Users |-> "active"]
  /\ password = [u \in Users |-> 0]
  /\ row = [t \in Tokens |-> "none"]
  /\ owner = [t \in Tokens |-> AnyUser]
  /\ under = [t \in Tokens |-> 0]
  /\ missed = {}
  /\ expired = {}
  /\ cache = {}
  /\ req = [r \in Requests |-> IdleReq]
  /\ login = [l \in Logins |-> IdleLogin]
  /\ op = [a \in Admins |-> IdleOp]

LiveOf(u) == {t \in Tokens : row[t] = "live" /\ owner[t] = u}

-----------------------------------------------------------------------------
(* Variants with a plausible slip, for mutation testing.                   *)

AcceptedRevoked(t) == row[t] # "none" /\ t \notin expired /\ status[owner[t]] = "active"
VerifyReadForgetsJti(r) ==
  /\ req[r].at = "reading"
  /\ req' = [req EXCEPT ![r] = [IdleReq EXCEPT !.at = "filling"]]
  /\ UNCHANGED <<users, rows, cache, login, op>>
SelectCurrentOnly(a) ==
  LET jtis == LiveOf(op[a].user) \cap {op[a].current} IN
  /\ op[a].at = "selecting"
  /\ op' = [op EXCEPT ![a] = IF jtis = {} THEN IdleOp ELSE [@ EXCEPT !.at = "updating", !.jtis = jtis]]
  /\ UNCHANGED <<users, rows, cache, req, login>>

-----------------------------------------------------------------------------
\* What verify demands of the row it selected.
Accepted(t) == row[t] = "live" /\ t \notin expired /\ status[owner[t]] = "active"

-----------------------------------------------------------------------------
(* SessionsService.verify.  A hit on an entry that has not expired changes *)
(* nothing: it is accepted as it is.                                       *)

\* A hit whose expiresAt has passed: DEL, and refused.
VerifyHitExpired(t) ==
  /\ t \in cache \cap expired
  /\ cache' = cache \ {t}
  /\ UNCHANGED <<users, rows, req, login, op>>

\* A miss, or a Redis that fails to answer: the database is asked.
VerifyMiss(r, t) ==
  /\ req[r].at = "idle"
  /\ row[t] # "none"
  /\ t \notin cache \/ RedisFails
  /\ req' = [req EXCEPT ![r] = [at |-> "reading", jti |-> t]]
  /\ UNCHANGED <<users, rows, cache, login, op>>

\* The row is selected: refused, or about to be written to the cache.
VerifyRead(r) ==
  /\ req[r].at = "reading"
  /\ req' = [req EXCEPT ![r] = IF Accepted(req[r].jti) THEN [@ EXCEPT !.at = "filling"]
                                                      ELSE IdleReq]
  /\ UNCHANGED <<users, rows, cache, login, op>>

\* SET ... EX 30, whatever happened to the row since; a failure is ignored.
VerifyFill(r) ==
  /\ req[r].at = "filling"
  /\ cache' \in {cache \cup {req[r].jti}} \cup (IF RedisFails THEN {cache} ELSE {})
  /\ req' = [req EXCEPT ![r] = IdleReq]
  /\ UNCHANGED <<users, rows, login, op>>

\* The TTL of an entry runs out.
CacheExpires(t) ==
  /\ t \in cache
  /\ cache' = cache \ {t}
  /\ UNCHANGED <<users, rows, req, login, op>>

SessionExpires(t) ==
  /\ row[t] # "none"
  /\ t \in Expirable \ expired
  /\ expired' = expired \cup {t}
  /\ UNCHANGED <<users, row, owner, under, missed, cache, req, login, op>>

-----------------------------------------------------------------------------
(* AuthService.login.                                                      *)

\* The user's row is read, with the password it has now; bcrypt takes a while.
LoginCheck(l, u) ==
  /\ login[l].at = "idle"
  /\ status[u] = "active"
  /\ login' = [login EXCEPT ![l] = [at |-> "checked", user |-> u, password |-> password[u]]]
  /\ UNCHANGED <<users, rows, cache, req, op>>

\* SessionsService.create; the user is not read again.  (missed: history, the
\* password may have changed since.)
LoginCreate(l) ==
  /\ login[l].at = "checked"
  /\ \E t \in Tokens :
       /\ row[t] = "none"
       /\ row' = [row EXCEPT ![t] = "live"]
       /\ owner' = [owner EXCEPT ![t] = login[l].user]
       /\ under' = [under EXCEPT ![t] = login[l].password]
       /\ missed' = IF login[l].password = password[login[l].user] THEN missed
                    ELSE missed \cup {t}
  /\ login' = [login EXCEPT ![l] = IdleLogin]
  /\ UNCHANGED <<users, expired, cache, req, op>>

-----------------------------------------------------------------------------
(* Revocation.                                                             *)

\* revoke, of a logout or by an administrator: the row is updated, the DEL of
\* the cache entry is still to come.
Revoke(a, t) ==
  /\ op[a].at = "idle"
  /\ row[t] # "none"
  /\ row' = [row EXCEPT ![t] = "revoked"]
  /\ op' = [op EXCEPT ![a] = [IdleOp EXCEPT !.at = "deleting", !.jtis = {t}]]
  /\ UNCHANGED <<users, owner, under, missed, expired, cache, req, login>>

\* logout-all and the administrator's revoke-all.
StartRevokeAll(a, u) ==
  /\ op[a].at = "idle"
  /\ op' = [op EXCEPT ![a] = [IdleOp EXCEPT !.at = "selecting", !.user = u]]
  /\ UNCHANGED <<users, rows, cache, req, login>>

\* resetPassword by an administrator (current = NoToken), or changePassword by
\* the user of a session that verify accepted, whose old password matched.
StartPassword(a, u, current) ==
  /\ op[a].at = "idle"
  /\ current # NoToken => /\ row[current] # "none" /\ owner[current] = u
                          /\ current \in cache \ expired \/ Accepted(current)
  /\ op' = [op EXCEPT ![a] = [IdleOp EXCEPT !.at = "hashing", !.user = u, !.current = current]]
  /\ UNCHANGED <<users, rows, cache, req, login>>

\* The new hash is stored.
SetPassword(a) ==
  LET u == op[a].user  current == op[a].current IN
  /\ op[a].at = "hashing"
  /\ password[u] < MaxPasswords
  /\ password' = [password EXCEPT ![u] = @ + 1]
  /\ under' = [t \in Tokens |-> IF t = current THEN password[u] + 1 ELSE under[t]]
  /\ op' = [op EXCEPT ![a].at = "selecting"]
  /\ UNCHANGED <<status, row, owner, missed, expired, cache, req, login>>

\* revokeAllForUser: the live sessions are selected, except the current one.
SelectSessions(a) ==
  LET jtis == LiveOf(op[a].user) \ {op[a].current} IN
  /\ op[a].at = "selecting"
  /\ op' = [op EXCEPT ![a] = IF jtis = {} THEN IdleOp ELSE [@ EXCEPT !.at = "updating", !.jtis = jtis]]
  /\ UNCHANGED <<users, rows, cache, req, login>>

\* One UPDATE revokes those that were selected.
UpdateSessions(a) ==
  /\ op[a].at = "updating"
  /\ row' = [t \in Tokens |-> IF t \in op[a].jtis THEN "revoked" ELSE row[t]]
  /\ op' = [op EXCEPT ![a].at = "deleting"]
  /\ UNCHANGED <<users, owner, under, missed, expired, cache, req, login>>

\* The DELs; those that fail are ignored.
DeleteEntries(a) ==
  /\ op[a].at = "deleting"
  /\ \E failed \in IF RedisFails THEN SUBSET op[a].jtis ELSE {{}} :
       cache' = cache \ (op[a].jtis \ failed)
  /\ op' = [op EXCEPT ![a] = IdleOp]
  /\ UNCHANGED <<users, rows, req, login>>

\* mapi stops, or a statement fails: nothing takes the operation up again.  (missed:
\* history, the sessions that it leaves.)
OperationDies(a) ==
  /\ op[a].at # "idle"
  /\ op' = [op EXCEPT ![a] = IdleOp]
  /\ missed' = missed \cup IF op[a].at \in {"selecting", "updating"}
                          THEN LiveOf(op[a].user) ELSE {}
  /\ UNCHANGED <<users, row, owner, under, expired, cache, req, login>>

\* AdminUsersService.update: sessions and cache are left alone.
SetStatus(u, s) ==
  /\ status[u] # s
  /\ status' = [status EXCEPT ![u] = s]
  /\ UNCHANGED <<password, rows, cache, req, login, op>>

-----------------------------------------------------------------------------
RequestStep(r) == (\E t \in Tokens : VerifyMiss(r, t)) \/ VerifyRead(r) \/ VerifyFill(r)
LoginStep(l) == (\E u \in Users : LoginCheck(l, u)) \/ LoginCreate(l)
TimeStep(t) == VerifyHitExpired(t) \/ CacheExpires(t) \/ SessionExpires(t)

Operation(a) ==
  \/ \E t \in Tokens : Revoke(a, t)
  \/ \E u \in Users : StartRevokeAll(a, u)
  \/ \E u \in Users, current \in Tokens \cup {NoToken} : StartPassword(a, u, current)

OperationStep(a) ==
  \/ SetPassword(a) \/ SelectSessions(a) \/ UpdateSessions(a) \/ DeleteEntries(a)
  \/ OperationDies(a)

Next ==
  \/ \E r \in Requests : RequestStep(r)
  \/ \E l \in Logins : LoginStep(l)
  \/ \E t \in Tokens : TimeStep(t)
  \/ \E a \in Admins : Operation(a) \/ OperationStep(a)
  \/ \E u \in Users, s \in {"active", "disabled"} : SetStatus(u, s)

Spec == Init /\ [][Next]_vars

\* Time passes (TTLs run out) and awaits end; nobody has to send a request.
Fairness ==
  /\ \A t \in Tokens : WF_vars(CacheExpires(t))
  /\ \A r \in Requests : WF_vars(VerifyRead(r) \/ VerifyFill(r))
FairSpec == Spec /\ Fairness

-----------------------------------------------------------------------------
(* Properties.                                                             *)

\* Revoking a session, and disabling a user, take effect for good: the cache may
\* accept such a session for a while, when a verification raced with the statement
\* or Redis failed, but from some time on no entry of it exists and none comes back.
RevokedIsRefusedInTheEnd ==
  \A t \in Tokens :
    /\ row[t] = "revoked" ~> [](t \notin cache)
    /\ <>[](row[t] # "none" /\ status[owner[t]] = "disabled") => <>[](t \notin cache)

\* After a change or a reset of a password everybody else logs in again: a session
\* that lives on an earlier password is about to be put out, unless its login had
\* compared that password before the change, or the operation was stopped half-way.
\* Logins, revocations and other changes of password run in between.
OlderSessionsArePutOut ==
  \A t \in Tokens \ missed :
    row[t] = "live" /\ under[t] # password[owner[t]] =>
      \E a \in Admins :
        /\ op[a].user = owner[t] /\ op[a].current # t
        /\ op[a].at = "selecting" \/ (op[a].at = "updating" /\ t \in op[a].jtis)
=============================================================================
