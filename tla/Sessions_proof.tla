--------------------------- MODULE Sessions_proof ---------------------------
(***************************************************************************)
(* For any number of users, sessions, requests and concurrent operations:  *)
(* a session of an earlier password is about to be put out, unless a late  *)
(* login or a stopped operation left it.                                   *)
(*                                                                         *)
(* Between the UPDATE of the password, the SELECT and the UPDATE of the    *)
(* sessions other operations run.  The property is itself inductive once   *)
(* it names the operation that will put the session out, but for one fact: *)
(* the session that an operation spares is one of its own user.            *)
(***************************************************************************)
EXTENDS Sessions, TLAPS

\* The session that asked for an operation is one of its user.
CurrentIsOwn ==
  \A a \in Admins : op[a].current # NoToken =>
    row[op[a].current] # "none" /\ owner[op[a].current] = op[a].user

IInv == TypeOK /\ CurrentIsOwn /\ OlderSessionsArePutOut

-----------------------------------------------------------------------------
(* Type correctness.                                                       *)

LEMMA AnyUserType == AnyUser \in Users
BY NamesAssumption DEF AnyUser

LEMMA IdleTypes ==
  /\ IdleReq \in ReqType
  /\ IdleLogin \in LoginType
  /\ IdleOp \in OpType
BY AnyUserType, BoundsAssumption DEF IdleReq, IdleLogin, IdleOp, ReqType, LoginType, OpType

LEMMA TypeInit == Init => TypeOK
BY AnyUserType, IdleTypes, BoundsAssumption DEF Init, TypeOK

\* Verification: what is in the cache was read from a row.
LEMMA TypeRequestStep ==
  ASSUME TypeOK, NEW r \in Requests, RequestStep(r)
  PROVE  TypeOK'
<1> USE DEF users, rows
<1>1. ASSUME NEW t \in Tokens, VerifyMiss(r, t)
      PROVE  TypeOK'
  BY <1>1 DEF VerifyMiss, TypeOK, ReqType
<1>2. CASE VerifyRead(r)
  <2>1. req[r].at = "reading" => [req[r] EXCEPT !.at = "filling"] \in ReqType
    BY DEF TypeOK, ReqType
  <2> QED
    BY <1>2, <2>1, IdleTypes DEF VerifyRead, TypeOK
<1>3. CASE VerifyFill(r)
  <2>1. req[r].jti \in Tokens
    BY <1>3 DEF VerifyFill, TypeOK, ReqType
  <2> QED
    BY <1>3, <2>1, IdleTypes DEF VerifyFill, TypeOK
<1> QED
  BY <1>1, <1>2, <1>3 DEF RequestStep

LEMMA TypeLoginStep ==
  ASSUME TypeOK, NEW l \in Logins, LoginStep(l)
  PROVE  TypeOK'
<1> USE DEF users, rows
<1>1. ASSUME NEW u \in Users, LoginCheck(l, u)
      PROVE  TypeOK'
  BY <1>1 DEF LoginCheck, TypeOK, LoginType
<1>2. CASE LoginCreate(l)
  <2>1. login[l].user \in Users /\ login[l].password \in 0 .. MaxPasswords
    BY DEF TypeOK, LoginType
  <2> QED
    BY <1>2, <2>1, IdleTypes DEF LoginCreate, TypeOK
<1> QED
  BY <1>1, <1>2 DEF LoginStep

LEMMA TypeTimeStep ==
  ASSUME TypeOK, NEW t \in Tokens, TimeStep(t)
  PROVE  TypeOK'
BY DEF TimeStep, VerifyHitExpired, CacheExpires, SessionExpires, TypeOK, users, rows

LEMMA TypeOperation ==
  ASSUME TypeOK, NEW a \in Admins, Operation(a) \/ OperationStep(a)
  PROVE  TypeOK'
<1> USE DEF users, rows
<1>1. ASSUME NEW t \in Tokens, Revoke(a, t)
      PROVE  TypeOK'
  BY <1>1, IdleTypes DEF Revoke, TypeOK, OpType
<1>2. ASSUME NEW u \in Users, StartRevokeAll(a, u)
      PROVE  TypeOK'
  BY <1>2, IdleTypes DEF StartRevokeAll, TypeOK, OpType
<1>3. ASSUME NEW u \in Users, NEW current \in Tokens \cup {NoToken}, StartPassword(a, u, current)
      PROVE  TypeOK'
  BY <1>3, IdleTypes DEF StartPassword, TypeOK, OpType
<1>4. op[a] \in OpType /\ op[a].user \in Users /\ op[a].jtis \subseteq Tokens
  BY DEF TypeOK, OpType
<1>5. CASE SetPassword(a)
  <2>1. password[op[a].user] + 1 \in 0 .. MaxPasswords
    BY <1>4, <1>5, BoundsAssumption DEF SetPassword, TypeOK
  <2>2. op' \in [Admins -> OpType]
    BY <1>4, <1>5 DEF SetPassword, TypeOK, OpType, LiveOf
  <2> QED
    BY <1>5, <2>1, <2>2 DEF SetPassword, TypeOK
<1>6. CASE SelectSessions(a)
  BY <1>4, <1>6, IdleTypes DEF SelectSessions, TypeOK, OpType, LiveOf
<1>7. CASE UpdateSessions(a)
  BY <1>4, <1>7 DEF UpdateSessions, TypeOK, OpType
<1>8. CASE DeleteEntries(a)
  BY <1>4, <1>8, IdleTypes DEF DeleteEntries, TypeOK
<1>9. CASE OperationDies(a)
  BY <1>4, <1>9, IdleTypes DEF OperationDies, TypeOK, LiveOf
<1> QED
  BY <1>1, <1>2, <1>3, <1>5, <1>6, <1>7, <1>8, <1>9 DEF Operation, OperationStep

LEMMA TypeStep == TypeOK /\ [Next]_vars => TypeOK'
<1> SUFFICES ASSUME TypeOK, [Next]_vars
             PROVE  TypeOK'
  OBVIOUS
<1>1. ASSUME NEW u \in Users, NEW s \in {"active", "disabled"}, SetStatus(u, s)
      PROVE  TypeOK'
  BY <1>1 DEF SetStatus, TypeOK, rows
<1>2. CASE UNCHANGED vars
  BY <1>2 DEF vars, users, rows, TypeOK
<1> QED
  BY <1>1, <1>2, TypeRequestStep, TypeLoginStep, TypeTimeStep, TypeOperation DEF Next

\* Every reachable state is well formed; in particular the cache only ever holds
\* entries of sessions that were read from the database.
THEOREM TypeCorrect == Spec => []TypeOK
BY TypeInit, TypeStep, PTL DEF Spec

-----------------------------------------------------------------------------
(* The inductive invariant.                                                *)

LEMMA InvInit == Init => IInv
<1> SUFFICES ASSUME Init
             PROVE  IInv
  OBVIOUS
<1>1. \A a \in Admins : op[a].current = NoToken
  BY DEF Init, IdleOp
<1>2. \A t \in Tokens : row[t] = "none"
  BY DEF Init
<1> QED
  BY <1>1, <1>2, TypeInit DEF IInv, CurrentIsOwn, OlderSessionsArePutOut

-----------------------------------------------------------------------------
(* The session that asked for an operation.                                *)

\* What every step does to the rows: one that exists keeps its owner and goes on
\* existing.
RowsAge ==
  \A t \in Tokens : row[t] # "none" => owner'[t] = owner[t] /\ row'[t] # "none"

LEMMA RowsAgeStep ==
  ASSUME TypeOK, [Next]_vars
  PROVE  RowsAge
<1>1. ASSUME NEW r \in Requests, RequestStep(r)
      PROVE  RowsAge
  BY <1>1 DEF RequestStep, VerifyMiss, VerifyRead, VerifyFill, rows, RowsAge
<1>2. ASSUME NEW l \in Logins, LoginStep(l)
      PROVE  RowsAge
  BY <1>2 DEF LoginStep, LoginCheck, LoginCreate, rows, RowsAge, TypeOK
<1>3. ASSUME NEW t \in Tokens, TimeStep(t)
      PROVE  RowsAge
  BY <1>3 DEF TimeStep, VerifyHitExpired, CacheExpires, SessionExpires, rows, RowsAge
<1>4. ASSUME NEW a \in Admins, Operation(a)
      PROVE  RowsAge
  BY <1>4 DEF Operation, Revoke, StartRevokeAll, StartPassword, rows, RowsAge, TypeOK
<1>5. ASSUME NEW a \in Admins, OperationStep(a)
      PROVE  RowsAge
  BY <1>5 DEF OperationStep, SetPassword, SelectSessions, UpdateSessions, DeleteEntries,
              OperationDies, rows, RowsAge, TypeOK
<1>6. CASE UNCHANGED vars \/ \E u \in Users, s \in {"active", "disabled"} : SetStatus(u, s)
  BY <1>6 DEF SetStatus, vars, rows, RowsAge
<1> QED
  BY <1>1, <1>2, <1>3, <1>4, <1>5, <1>6 DEF Next

\* What a step does to the user of an operation and the session it spares: it keeps
\* both, or spares none, or starts for a session of the user.
SparesOwn(b) ==
  \/ op'[b].current = op[b].current /\ op'[b].user = op[b].user
  \/ op'[b].current = NoToken
  \/ row[op'[b].current] # "none" /\ owner[op'[b].current] = op'[b].user

LEMMA SparesOwnStep ==
  ASSUME TypeOK, [Next]_vars, NEW b \in Admins
  PROVE  SparesOwn(b)
<1>1. ASSUME NEW r \in Requests, RequestStep(r)
      PROVE  SparesOwn(b)
  BY <1>1 DEF RequestStep, VerifyMiss, VerifyRead, VerifyFill, SparesOwn
<1>2. ASSUME NEW l \in Logins, LoginStep(l)
      PROVE  SparesOwn(b)
  BY <1>2 DEF LoginStep, LoginCheck, LoginCreate, SparesOwn
<1>3. ASSUME NEW t \in Tokens, TimeStep(t)
      PROVE  SparesOwn(b)
  BY <1>3 DEF TimeStep, VerifyHitExpired, CacheExpires, SessionExpires, SparesOwn
<1>4. ASSUME NEW a \in Admins, Operation(a)
      PROVE  SparesOwn(b)
  <2>1. ASSUME NEW t \in Tokens, Revoke(a, t)
        PROVE  SparesOwn(b)
    BY <2>1 DEF Revoke, IdleOp, SparesOwn, TypeOK
  <2>2. ASSUME NEW u \in Users, StartRevokeAll(a, u)
        PROVE  SparesOwn(b)
    BY <2>2 DEF StartRevokeAll, IdleOp, SparesOwn, TypeOK
  <2>3. ASSUME NEW u \in Users, NEW current \in Tokens \cup {NoToken},
               StartPassword(a, u, current)
        PROVE  SparesOwn(b)
    BY <2>3 DEF StartPassword, IdleOp, SparesOwn, TypeOK
  <2> QED
    BY <1>4, <2>1, <2>2, <2>3 DEF Operation
<1>5. ASSUME NEW a \in Admins, OperationStep(a)
      PROVE  SparesOwn(b)
  <2>1. op[a] \in OpType
    BY DEF TypeOK
  <2>2. CASE SetPassword(a)
    BY <2>1, <2>2 DEF SetPassword, SparesOwn, TypeOK, OpType
  <2>3. CASE SelectSessions(a)
    BY <2>1, <2>3 DEF SelectSessions, SparesOwn, TypeOK, OpType, IdleOp
  <2>4. CASE UpdateSessions(a)
    BY <2>1, <2>4 DEF UpdateSessions, SparesOwn, TypeOK, OpType
  <2>5. CASE DeleteEntries(a) \/ OperationDies(a)
    BY <2>5 DEF DeleteEntries, OperationDies, SparesOwn, TypeOK, IdleOp
  <2> QED
    BY <1>5, <2>2, <2>3, <2>4, <2>5 DEF OperationStep
<1>6. CASE UNCHANGED vars \/ \E u \in Users, s \in {"active", "disabled"} : SetStatus(u, s)
  BY <1>6 DEF SetStatus, vars, SparesOwn
<1> QED
  BY <1>1, <1>2, <1>3, <1>4, <1>5, <1>6 DEF Next

LEMMA CurrentStep ==
  ASSUME TypeOK, CurrentIsOwn, [Next]_vars
  PROVE  CurrentIsOwn'
<1> SUFFICES ASSUME NEW a \in Admins, op'[a].current # NoToken
             PROVE  row'[op'[a].current] # "none" /\ owner'[op'[a].current] = op'[a].user
  BY DEF CurrentIsOwn
<1>1. op'[a].current \in Tokens
  BY TypeStep DEF TypeOK, OpType
<1>2. row[op'[a].current] # "none" /\ owner[op'[a].current] = op'[a].user
  BY SparesOwnStep DEF SparesOwn, CurrentIsOwn
<1> QED
  BY <1>1, <1>2, RowsAgeStep DEF RowsAge

-----------------------------------------------------------------------------
(* The sessions of an earlier password.                                    *)

\* Operation a is going to put out session t.
PutsOut(a, t) ==
  /\ op[a].user = owner[t] /\ op[a].current # t
  /\ op[a].at = "selecting" \/ (op[a].at = "updating" /\ t \in op[a].jtis)

Earlier(t) == t \notin missed /\ row[t] = "live" /\ under[t] # password[owner[t]]

LEMMA PutOutStep ==
  ASSUME IInv, [Next]_vars, NEW t \in Tokens, Earlier(t)'
  PROVE  \E a \in Admins : PutsOut(a, t)'
<1>1. TypeOK /\ (Earlier(t) => \E a \in Admins : PutsOut(a, t))
  BY DEF IInv, OlderSessionsArePutOut, Earlier, PutsOut
<1> USE DEF Earlier, PutsOut
<1>2. ASSUME NEW r \in Requests, RequestStep(r)
      PROVE  \E a \in Admins : PutsOut(a, t)'
  BY <1>1, <1>2 DEF RequestStep, VerifyMiss, VerifyRead, VerifyFill, users, rows
<1>3. ASSUME NEW l \in Logins, LoginStep(l)
      PROVE  \E a \in Admins : PutsOut(a, t)'
  <2>1. CASE \E u \in Users : LoginCheck(l, u)
    BY <1>1, <2>1 DEF LoginCheck, users, rows
  <2>2. CASE LoginCreate(l)
    BY <1>1, <2>2 DEF LoginCreate, users, TypeOK
  <2> QED
    BY <1>3, <2>1, <2>2 DEF LoginStep
<1>4. ASSUME NEW s \in Tokens, TimeStep(s)
      PROVE  \E a \in Admins : PutsOut(a, t)'
  BY <1>1, <1>4 DEF TimeStep, VerifyHitExpired, CacheExpires, SessionExpires, users, rows
<1>5. ASSUME NEW a \in Admins, Operation(a)
      PROVE  \E b \in Admins : PutsOut(b, t)'
  <2>1. Earlier(t) /\ op[a].at = "idle" /\ \A b \in Admins \ {a} : op'[b] = op[b]
    BY <1>1, <1>5 DEF Operation, Revoke, StartRevokeAll, StartPassword, users, rows, TypeOK
  <2>2. owner' = owner
    BY <1>5 DEF Operation, Revoke, StartRevokeAll, StartPassword, rows
  <2> QED
    BY <1>1, <2>1, <2>2
<1>6. ASSUME NEW a \in Admins, OperationStep(a)
      PROVE  \E b \in Admins : PutsOut(b, t)'
  <2>1. op[a] \in OpType
    BY <1>1 DEF TypeOK
  <2>2. /\ owner' = owner
        /\ \A b \in Admins \ {a} : op'[b] = op[b]
    BY <1>1, <1>6 DEF OperationStep, SetPassword, SelectSessions, UpdateSessions,
                      DeleteEntries, OperationDies, rows, TypeOK
  <2>3. CASE SetPassword(a)
    <3>1. owner[t] = op[a].user => t # op[a].current
      <4>1. ASSUME owner[t] = op[a].user, t = op[a].current
            PROVE  FALSE
        <5>1. under'[t] = password'[owner[t]]
          BY <1>1, <2>1, <2>3, <4>1 DEF SetPassword, TypeOK, OpType
        <5> QED
          BY <2>2, <5>1
      <4> QED
        BY <4>1
    <3>2. CASE owner[t] = op[a].user
      BY <1>1, <2>1, <2>2, <2>3, <3>1, <3>2 DEF SetPassword, TypeOK, OpType
    <3>3. CASE owner[t] # op[a].user
      <4>1. t # op[a].current
        BY <3>3, NamesAssumption DEF IInv, CurrentIsOwn
      <4>2. Earlier(t)
        BY <1>1, <2>2, <2>3, <3>3, <4>1 DEF SetPassword, TypeOK
      <4> QED
        BY <1>1, <2>2, <2>3, <4>2 DEF SetPassword
    <3> QED
      BY <3>2, <3>3
  <2>4. CASE SelectSessions(a)
    <3>1. Earlier(t)
      BY <2>4 DEF SelectSessions, users, rows
    <3>2. CASE PutsOut(a, t)
      <4>1. t \in LiveOf(op[a].user) \ {op[a].current}
        BY <3>1, <3>2 DEF LiveOf
      <4> QED
        BY <1>1, <2>1, <2>2, <2>4, <3>2, <4>1 DEF SelectSessions, TypeOK, OpType
    <3> QED
      BY <1>1, <2>2, <3>1, <3>2
  <2>5. CASE UpdateSessions(a)
    <3>1. Earlier(t) /\ t \notin op[a].jtis
      BY <1>1, <2>5 DEF UpdateSessions, users, TypeOK
    <3> QED
      BY <1>1, <2>2, <2>5, <3>1 DEF UpdateSessions
  <2>6. CASE DeleteEntries(a)
    BY <1>1, <2>2, <2>6 DEF DeleteEntries, users, rows
  <2>7. CASE OperationDies(a)
    <3>1. Earlier(t) /\ ~PutsOut(a, t)
      BY <2>7 DEF OperationDies, users, LiveOf
    <3> QED
      BY <1>1, <2>2, <3>1
  <2> QED
    BY <1>6, <2>3, <2>4, <2>5, <2>6, <2>7 DEF OperationStep
<1>7. CASE UNCHANGED vars \/ \E u \in Users, s \in {"active", "disabled"} : SetStatus(u, s)
  BY <1>1, <1>7 DEF SetStatus, vars, users, rows
<1> QED
  BY <1>2, <1>3, <1>4, <1>5, <1>6, <1>7 DEF Next

LEMMA InvStep == IInv /\ [Next]_vars => IInv'
<1> SUFFICES ASSUME IInv, [Next]_vars
             PROVE  IInv'
  OBVIOUS
<1>1. \A t \in Tokens : Earlier(t)' => \E a \in Admins : PutsOut(a, t)'
  BY PutOutStep
<1>2. OlderSessionsArePutOut'
  BY <1>1 DEF OlderSessionsArePutOut, Earlier, PutsOut
<1> QED
  BY <1>2, TypeStep, CurrentStep DEF IInv

\* Whatever logins, revocations, changes of password and stops run beside it, a
\* session of an earlier password is about to be put out by an operation under way,
\* unless a login that had compared before the change or a stopped operation left it.
THEOREM PutOut == Spec => []OlderSessionsArePutOut
<1>1. IInv => OlderSessionsArePutOut
  BY DEF IInv
<1> QED
  BY <1>1, InvInit, InvStep, PTL DEF Spec

-----------------------------------------------------------------------------
(* Revocations and suspensions take effect for good.  This is the part of  *)
(* RevokedIsRefusedInTheEnd that holds without fairness; what fairness adds *)
(* is that entries expire and that late verifications end.                 *)

\* Verifications that accepted t and are about to write its entry.
Late(t) == {r \in Requests : req[r].at = "filling" /\ req[r].jti = t}

\* A session that verify refuses when it reads the row.
Barred(t) == \/ row[t] = "revoked"
             \/ row[t] # "none" /\ status[owner[t]] = "disabled"

\* A revoked session is never revived.  While a session is barred no further
\* verification accepts it, and its entry is only made by one that had accepted it
\* before, which is used up: so each late verification makes at most one entry.
LateFillsRunOut ==
  \A t \in Tokens :
    /\ row[t] = "revoked" => row'[t] = "revoked"
    /\ Barred(t) => /\ Late(t)' \subseteq Late(t)
                    /\ t \in cache' => t \in cache \/ Late(t)' # Late(t)

LEMMA BarredIsNotAccepted ==
  ASSUME TypeOK, NEW t \in Tokens, Barred(t)
  PROVE  ~Accepted(t)
BY DEF Barred, Accepted

LEMMA LateRequestStep ==
  ASSUME TypeOK, NEW r \in Requests, RequestStep(r)
  PROVE  LateFillsRunOut
<1>1. /\ row' = row
      /\ \A q \in Requests \ {r} : req'[q] = req[q]
  BY DEF RequestStep, VerifyMiss, VerifyRead, VerifyFill, rows, TypeOK
<1> SUFFICES ASSUME NEW t \in Tokens, Barred(t)
             PROVE  /\ Late(t)' \subseteq Late(t)
                    /\ t \in cache' => t \in cache \/ Late(t)' # Late(t)
  BY <1>1 DEF LateFillsRunOut
<1>2. CASE \E x \in Tokens : VerifyMiss(r, x)
  <2>1. req'[r].at = "reading" /\ cache' = cache
    BY <1>2 DEF VerifyMiss, TypeOK
  <2> QED
    BY <1>1, <2>1 DEF Late
<1>3. CASE VerifyRead(r)
  <2>1. cache' = cache /\ req[r].at = "reading"
    BY <1>3 DEF VerifyRead
  <2>2. ~(req'[r].at = "filling" /\ req'[r].jti = t)
    <3>1. CASE Accepted(req[r].jti)
      <4>1. req[r].jti # t
        BY <3>1, BarredIsNotAccepted
      <4>2. req'[r].jti = req[r].jti
        BY <1>3, <3>1, <2>1 DEF VerifyRead, TypeOK, ReqType
      <4> QED
        BY <4>1, <4>2
    <3>2. CASE ~Accepted(req[r].jti)
      BY <1>3, <3>2 DEF VerifyRead, TypeOK, IdleReq
    <3> QED
      BY <3>1, <3>2
  <2> QED
    BY <1>1, <2>1, <2>2 DEF Late
<1>4. CASE VerifyFill(r)
  <2>1. /\ req[r].at = "filling" /\ req'[r] = IdleReq
        /\ cache' = cache \/ cache' = cache \cup {req[r].jti}
    BY <1>4 DEF VerifyFill, TypeOK
  <2>2. r \notin Late(t)'
    BY <2>1 DEF Late, IdleReq
  <2>3. Late(t)' \subseteq Late(t)
    BY <1>1, <2>2 DEF Late
  <2>4. t \in cache' /\ t \notin cache => r \in Late(t)
    BY <2>1 DEF Late
  <2> QED
    BY <2>2, <2>3, <2>4
<1> QED
  BY <1>2, <1>3, <1>4 DEF RequestStep

\* Every other step leaves verifications alone and makes no entry.
LEMMA LateOtherStep ==
  ASSUME TypeOK, [Next]_vars, ~\E r \in Requests : RequestStep(r)
  PROVE  LateFillsRunOut
<1>1. req' = req /\ cache' \subseteq cache /\ \A t \in Tokens : row[t] = "revoked" => row'[t] = "revoked"
  <2>1. ASSUME NEW l \in Logins, LoginStep(l)
        PROVE  req' = req /\ cache' = cache /\ \A t \in Tokens : row[t] = "revoked" => row'[t] = "revoked"
    BY <2>1 DEF LoginStep, LoginCheck, LoginCreate, rows, TypeOK
  <2>2. ASSUME NEW x \in Tokens, TimeStep(x)
        PROVE  req' = req /\ cache' \subseteq cache /\ row' = row
    BY <2>2 DEF TimeStep, VerifyHitExpired, CacheExpires, SessionExpires, rows
  <2>3. ASSUME NEW a \in Admins, Operation(a)
        PROVE  req' = req /\ cache' = cache /\ \A t \in Tokens : row[t] = "revoked" => row'[t] = "revoked"
    BY <2>3 DEF Operation, Revoke, StartRevokeAll, StartPassword, rows, TypeOK
  <2>4. ASSUME NEW a \in Admins, OperationStep(a)
        PROVE  req' = req /\ cache' \subseteq cache /\ \A t \in Tokens : row[t] = "revoked" => row'[t] = "revoked"
    BY <2>4 DEF OperationStep, SetPassword, SelectSessions, UpdateSessions, DeleteEntries,
                OperationDies, rows, TypeOK
  <2>5. CASE UNCHANGED vars \/ \E u \in Users, s \in {"active", "disabled"} : SetStatus(u, s)
    BY <2>5 DEF SetStatus, vars, rows
  <2> QED
    BY <2>1, <2>2, <2>3, <2>4, <2>5 DEF Next
<1>2. \A t \in Tokens : Late(t)' = Late(t)
  BY <1>1 DEF Late
<1> QED
  BY <1>1, <1>2 DEF LateFillsRunOut

\* However verifications race with a revocation or a suspension, and whatever of it
\* Redis loses, the session is accepted at most once more for each verification
\* that was already past its SELECT, and for the life of the entry it makes.
THEOREM RevokedForGood == Spec => [][LateFillsRunOut]_vars
<1>1. TypeOK /\ [Next]_vars => LateFillsRunOut
  BY LateRequestStep, LateOtherStep
<1> QED
  BY <1>1, TypeCorrect, PTL DEF Spec

=============================================================================
