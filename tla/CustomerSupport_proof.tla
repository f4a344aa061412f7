------------------------ MODULE CustomerSupport_proof ------------------------
(***************************************************************************)
(* For any transactions, requests, syncs, updates and edits: snapshots mix *)
(* only by overlap, the note marked as synced was posted, writebacks and   *)
(* edits change QuickBooks like a Ledger, and the mark of the month counts *)
(* an unanswered row as answered only for an answer without a row.         *)
(*                                                                         *)
(* And of the page in front of it (PublicNotes), for any transactions,     *)
(* texts and number of saves and edits: notes stay with their transaction, *)
(* a blur saves, and the page at rest shows what mapi has, except for      *)
(* what changed behind its back.                                           *)
(***************************************************************************)
EXTENDS CustomerSupport, PublicNotes, TLAPS, FiniteSetTheorems

\* A request that has saved its answer has a row of that answer, for good.
SavedHasAnswer ==
  \A r \in Requests : req[r].at \in {"saved", "getting", "posting", "marking"} =>
    answer[req[r].txn].state # "none"

TInv == TypeOK /\ SavedHasAnswer

\* The object that a writeback has read is the one of QuickBooks, or an older one.
ReadIsOlder ==
  \A r \in Requests : req[r].at = "posting" =>
    LET object == req[r].object  now == books[req[r].txn] IN
    object.token < now.token \/ object = now

\* Two syncs that run have both been noted.
RunningOverlap ==
  \A y, z \in Running : y = z \/ (y \in overlap /\ z \in overlap)

\* A sync that finds rows after its DELETE has been noted, and so has their sync.
DeletedSeesOverlap ==
  \A y \in Syncs : \A t \in Txns : \A x \in row[t] : sync[y].at = "deleted" =>
    y \in overlap /\ x.sync \in overlap

\* What marks an answer has been posted.
MarkingIsPosted ==
  \A r \in Requests : req[r].at = "marking" => r \in books[req[r].txn].changes

\* A writeback on its way is of the note saved last, unless another was saved over it.
WritingIsLatest ==
  \A r \in Requests : Writing(r) => answer[req[r].txn].by = {r} \/ req[r].txn \in edited

-----------------------------------------------------------------------------
(* Type correctness.                                                       *)

LEMMA TypeInit == Init => TInv
<1> SUFFICES ASSUME Init
             PROVE  TInv
  OBVIOUS
<1>1. books \in [Txns -> Object]
  BY DEF Init, Object, Accounts, Categories
<1>2. answer \in [Txns -> Answer] /\ \A t \in Txns : ~answer[t].synced
  BY DEF Init, Answer, NoAnswer, Categories
<1>3. req \in [Requests -> ReqType] /\ \A r \in Requests : req[r].at = "idle"
  BY DEF Init, ReqType, Idle
<1>4. sync \in [Syncs -> SyncType]
  BY DEF Init, SyncType, Idle
<1>5. row \in [Txns -> {{}} \cup {{x} : x \in Row}]
  BY DEF Init
<1>6. update \in [Updates -> [at : {"idle", "done"}] \cup [at : {"read"}, full : BOOLEAN]]
  BY DEF Init, Idle
<1>7. full \in BOOLEAN /\ overlap \subseteq Syncs /\ edited \subseteq Txns
  BY DEF Init
<1> QED
  BY <1>1, <1>2, <1>3, <1>4, <1>5, <1>6, <1>7 DEF TInv, TypeOK, SavedHasAnswer

\* What a report comes to for a transaction, and the effect of the INSERT.
LEMMA ReportRows ==
  ASSUME TypeOK, NEW y \in Syncs, sync[y].at = "deleted", NEW t \in Txns
  PROVE  RowsOf(y, t) = {} \/ \E x \in Row : RowsOf(y, t) = {x} /\ x.sync = y
<1>1. sync[y].report \in [Txns -> Accounts]
  BY DEF TypeOK, SyncType
<1>2. ASSUME sync[y].report[t] \in Categories
      PROVE  \E x \in Row : RowsOf(y, t) = {x} /\ x.sync = y
  <2> DEFINE x == [sync |-> y, category |-> sync[y].report[t]]
  <2>1. x \in Row /\ x.sync = y
    BY <1>2 DEF Row
  <2>2. RowsOf(y, t) = {x}
    BY <1>2 DEF RowsOf
  <2> QED
    BY <2>1, <2>2
<1> QED
  BY <1>2 DEF RowsOf

LEMMA InsertEffect ==
  ASSUME TypeOK, NEW y \in Syncs, InsertRows(y)
  PROVE  /\ row' \in [Txns -> {{}} \cup {{x} : x \in Row}]
         /\ \A t \in Txns : row'[t] = row[t] \/ \E x \in Row : row'[t] = {x} /\ x.sync = y
<1>1. row \in [Txns -> {{}} \cup {{x} : x \in Row}] /\ sync[y].at = "deleted"
  BY DEF TypeOK, InsertRows
<1>2. CASE \E t \in Snapshot : RowsOf(y, t) # {}
  BY <1>1, <1>2 DEF InsertRows
<1>3. CASE \A t \in Snapshot : RowsOf(y, t) = {}
  <2>1. row' = [t \in Txns |-> row[t] \cup RowsOf(y, t)]
    BY <1>3 DEF InsertRows
  <2>2. ASSUME NEW t \in Txns
        PROVE  /\ row'[t] \in {{}} \cup {{x} : x \in Row}
               /\ row'[t] = row[t] \/ \E x \in Row : row'[t] = {x} /\ x.sync = y
    <3>1. row'[t] = row[t] \cup RowsOf(y, t)
      BY <2>1
    <3>2. RowsOf(y, t) = {} \/ \E x \in Row : RowsOf(y, t) = {x} /\ x.sync = y
      BY <1>1, ReportRows
    <3>3. row[t] = {} \/ RowsOf(y, t) = {}
      BY <1>3 DEF Snapshot
    <3> QED
      BY <1>1, <3>1, <3>2, <3>3
  <2>3. \A t \in Txns : row'[t] \in {{}} \cup {{x} : x \in Row}
    BY <2>2
  <2> QED
    BY <2>1, <2>2, <2>3
<1> QED
  BY <1>2, <1>3

LEMMA TypeSyncStep ==
  ASSUME TInv, NEW y \in Syncs, SyncStep(y)
  PROVE  TInv'
<1>1. sync[y] \in SyncType
  BY DEF TInv, TypeOK
<1>2. UNCHANGED <<books, answer, full, req, update, edited>>
  BY DEF SyncStep, StartSync, Fetch, DeleteRows, InsertRows, SyncDies, base, hist
<1>3. SavedHasAnswer'
  BY <1>2 DEF TInv, SavedHasAnswer
<1>4. CASE StartSync(y)
  BY <1>2, <1>3, <1>4 DEF StartSync, TInv, TypeOK, SyncType, base, Running
<1>5. CASE Fetch(y)
  <2>1. [t \in Txns |-> books[t].account] \in [Txns -> Accounts]
    BY DEF TInv, TypeOK, Object
  <2> QED
    BY <1>2, <1>3, <1>5, <2>1 DEF Fetch, TInv, TypeOK, SyncType, base, hist
<1>6. CASE DeleteRows(y)
  <2>1. [sync[y] EXCEPT !.at = "deleted"] \in SyncType
    BY <1>1, <1>6 DEF DeleteRows, SyncType
  <2> QED
    BY <1>2, <1>3, <1>6, <2>1 DEF DeleteRows, TInv, TypeOK, hist
<1>7. CASE InsertRows(y)
  <2>1. row' \in [Txns -> {{}} \cup {{x} : x \in Row}]
    BY <1>7, InsertEffect DEF TInv
  <2> QED
    BY <1>2, <1>3, <1>7, <2>1 DEF InsertRows, TInv, TypeOK, SyncType, hist, Done
<1>8. CASE SyncDies(y)
  BY <1>2, <1>3, <1>8 DEF SyncDies, TInv, TypeOK, SyncType, base, hist, Done
<1> QED
  BY <1>4, <1>5, <1>6, <1>7, <1>8 DEF SyncStep

LEMMA TypeRequestStep ==
  ASSUME TInv, NEW r \in Requests, RequestStep(r)
  PROVE  TInv'
<1> DEFINE t == req[r].txn
<1>1. req[r] \in ReqType
  BY DEF TInv, TypeOK
<1>2. UNCHANGED <<row, sync, update, overlap>> /\ edited' \in SUBSET Txns
  BY <1>1 DEF RequestStep, Find, Upsert, Erase, Mark, GetObject, PostObject, MarkSynced, RequestDies,
              base, hist, TInv, TypeOK, ReqType
<1>3. ASSUME NEW x \in Txns, NEW kind \in Kinds, Find(r, x, kind)
      PROVE  TInv'
  <2>1. PICK a \in row[x] : req' = [req EXCEPT ![r] =
                  [at |-> "found", txn |-> x, kind |-> kind, category |-> a.category]]
    BY <1>3 DEF Find
  <2>2. a.category \in Categories
    BY <2>1 DEF TInv, TypeOK, Row
  <2>3. req' \in [Requests -> ReqType]
    BY <2>1, <2>2 DEF TInv, TypeOK, ReqType
  <2>4. SavedHasAnswer'
    BY <1>3, <2>1 DEF Find, TInv, TypeOK, SavedHasAnswer, base
  <2> QED
    BY <1>2, <1>3, <2>3, <2>4 DEF Find, TInv, TypeOK, base, hist
<1>4. ASSUME Upsert(r) \/ Erase(r)
      PROVE  TInv'
  <2>1. t \in Txns /\ req[r].kind \in Kinds /\ req[r].category \in Categories
    BY <1>1, <1>4 DEF Upsert, Erase, ReqType
  <2>2. answer[t] \in Answer
    BY <2>1 DEF TInv, TypeOK
  <2>3. req[r].kind.completed \in BOOLEAN /\ req[r].kind.qbo \in BOOLEAN
    BY <2>1 DEF Kinds
  <2>4. /\ answer' \in [Txns -> Answer]
        /\ \A x \in Txns : /\ answer'[x].synced = answer[x].synced
                           /\ answer[x].state # "none" => answer'[x].state # "none"
        /\ req'[r].at = "saved" => answer'[t].state # "none"
    <3>1. CASE Upsert(r)
      BY <2>1, <2>2, <2>3, <3>1 DEF Upsert, TInv, TypeOK, Answer
    <3>2. CASE Erase(r)
      BY <2>1, <2>2, <3>2 DEF Erase, TInv, TypeOK, Answer, Done
    <3> QED
      BY <1>4, <3>1, <3>2
  <2>5. req' \in [Requests -> ReqType]
    <3>1. [at |-> "saved", txn |-> t, qbo |-> req[r].kind.qbo] \in ReqType
      BY <2>1, <2>3 DEF ReqType
    <3>2. [at |-> "saved", txn |-> t, qbo |-> FALSE] \in ReqType
      BY <2>1 DEF ReqType
    <3>3. Done \in ReqType
      BY DEF ReqType, Done
    <3> QED
      BY <1>4, <3>1, <3>2, <3>3 DEF Upsert, Erase, TInv, TypeOK
  <2>6. req'[r].at = "saved" => req'[r].txn = t
    BY <1>4 DEF Upsert, Erase, TInv, TypeOK, Done
  <2>7. req'[r].at \in {"saved", "done"} /\ \A q \in Requests \ {r} : req'[q] = req[q]
    BY <1>4 DEF Upsert, Erase, TInv, TypeOK, Done
  <2>8. UNCHANGED <<books, full>>
    BY <1>4 DEF Upsert, Erase
  <2>9. TypeOK'
    BY <1>2, <2>4, <2>5, <2>8 DEF TInv, TypeOK
  <2>10. SavedHasAnswer'
    <3> SUFFICES ASSUME NEW q \in Requests,
                        req'[q].at \in {"saved", "getting", "posting", "marking"}
                 PROVE  answer'[req'[q].txn].state # "none"
      BY DEF SavedHasAnswer
    <3>1. CASE q = r
      BY <2>4, <2>6, <2>7, <3>1
    <3>2. CASE q # r
      <4>1. req'[q] = req[q] /\ req[q] \in ReqType
        BY <2>7, <3>2 DEF TInv, TypeOK
      <4>2. req[q].txn \in Txns
        BY <4>1 DEF ReqType
      <4> QED
        BY <2>4, <4>1, <4>2 DEF TInv, SavedHasAnswer
    <3> QED
      BY <3>1, <3>2
  <2> QED
    BY <2>9, <2>10 DEF TInv
<1>5. CASE Mark(r)
  <2>1. [at |-> "getting", txn |-> t] \in ReqType
    BY <1>1, <1>5 DEF Mark, ReqType
  <2>2. AllAnswered \in BOOLEAN
    BY DEF AllAnswered
  <2>3. req' \in [Requests -> ReqType]
    BY <1>5, <2>1 DEF Mark, TInv, TypeOK, ReqType, Done
  <2>4. full' \in BOOLEAN
    BY <1>5, <2>2 DEF Mark, TInv, TypeOK
  <2>5. SavedHasAnswer'
    BY <1>1, <1>5 DEF Mark, TInv, TypeOK, SavedHasAnswer, Done, ReqType
  <2> QED
    BY <1>2, <1>5, <2>3, <2>4, <2>5 DEF Mark, TInv, TypeOK, hist
<1>6. CASE GetObject(r)
  <2>1. t \in Txns
    BY <1>1, <1>6 DEF GetObject, ReqType
  <2>2. req' \in [Requests -> ReqType]
    BY <1>6, <2>1 DEF GetObject, TInv, TypeOK, ReqType
  <2>3. SavedHasAnswer'
    BY <1>6, <2>1 DEF GetObject, TInv, TypeOK, SavedHasAnswer, base
  <2> QED
    BY <1>2, <1>6, <2>2, <2>3 DEF GetObject, TInv, TypeOK, base, hist
<1>7. CASE PostObject(r)
  <2>1. t \in Txns /\ req[r].object \in Object
    BY <1>1, <1>7 DEF PostObject, ReqType
  <2>2. books[t] \in Object
    BY <2>1 DEF TInv, TypeOK
  <2>3. books' \in [Txns -> Object]
    <3>1. [account |-> "books", token |-> books[t].token + 1,
           changes |-> req[r].object.changes \cup {r}] \in Object
      BY <2>1, <2>2 DEF Object, Accounts
    <3> QED
      BY <1>7, <2>1, <3>1 DEF PostObject, TInv, TypeOK
  <2>4. req' \in [Requests -> ReqType]
    BY <1>7, <2>1 DEF PostObject, TInv, TypeOK, ReqType, Done
  <2>5. SavedHasAnswer'
    BY <1>7, <2>1 DEF PostObject, TInv, TypeOK, SavedHasAnswer, base, Done
  <2> QED
    BY <1>2, <1>7, <2>3, <2>4, <2>5 DEF PostObject, TInv, TypeOK, base, hist
<1>8. CASE MarkSynced(r)
  <2>1. t \in Txns
    BY <1>1, <1>8 DEF MarkSynced, ReqType
  <2>2. answer[t] \in Answer /\ answer[t].state # "none"
    BY <1>8, <2>1 DEF MarkSynced, TInv, TypeOK, SavedHasAnswer
  <2>3. answer' \in [Txns -> Answer]
    BY <1>8, <2>1, <2>2 DEF MarkSynced, TInv, TypeOK, Answer
  <2>4. \A x \in Txns : answer'[x].state = answer[x].state /\ (x # t => answer'[x] = answer[x])
    BY <1>8, <2>1, <2>2 DEF MarkSynced, TInv, TypeOK, Answer
  <2>5. req' \in [Requests -> ReqType]
    BY <1>8 DEF MarkSynced, TInv, TypeOK, ReqType, Done
  <2>6. TypeOK'
    BY <1>2, <1>8, <2>2, <2>3, <2>4, <2>5 DEF MarkSynced, TInv, TypeOK, hist
  <2>7. SavedHasAnswer'
    <3> SUFFICES ASSUME NEW q \in Requests,
                        req'[q].at \in {"saved", "getting", "posting", "marking"}
                 PROVE  answer'[req'[q].txn].state # "none"
      BY DEF SavedHasAnswer
    <3>1. req'[q] = req[q] /\ req[q] \in ReqType
      BY <1>8 DEF MarkSynced, TInv, TypeOK, Done
    <3>2. req[q].txn \in Txns
      BY <3>1 DEF ReqType
    <3> QED
      BY <2>4, <3>1, <3>2 DEF TInv, SavedHasAnswer
  <2> QED
    BY <2>6, <2>7 DEF TInv
<1>9. CASE RequestDies(r)
  BY <1>2, <1>9 DEF RequestDies, TInv, TypeOK, SavedHasAnswer, ReqType, base, hist, Done
<1> QED
  BY <1>3, <1>4, <1>5, <1>6, <1>7, <1>8, <1>9 DEF RequestStep

LEMMA TypeStep == TInv /\ [Next]_vars => TInv'
<1> SUFFICES ASSUME TInv, [Next]_vars
             PROVE  TInv'
  OBVIOUS
<1>1. ASSUME NEW e \in Edits, NEW t \in Txns, Edit(e, t)
      PROVE  TInv'
  <2>1. books[t] \in Object
    BY DEF TInv, TypeOK
  <2>2. books' \in [Txns -> Object]
    BY <1>1, <2>1 DEF Edit, TInv, TypeOK, Object
  <2> QED
    BY <1>1, <2>2 DEF Edit, TInv, TypeOK, SavedHasAnswer, base, hist
<1>2. ASSUME NEW t \in Txns, DeleteRow(t)
      PROVE  TInv'
  BY <1>2 DEF DeleteRow, TInv, TypeOK, SavedHasAnswer, hist
<1>3. ASSUME NEW u \in Updates, ReadFollowup(u)
      PROVE  TInv'
  BY <1>3 DEF ReadFollowup, TInv, TypeOK, SavedHasAnswer, base, hist
<1>4. ASSUME NEW u \in Updates, WriteFollowup(u)
      PROVE  TInv'
  BY <1>4 DEF WriteFollowup, TInv, TypeOK, SavedHasAnswer, base, hist, Done
<1>5. CASE UNCHANGED vars
  BY <1>5 DEF vars, base, hist, TInv, TypeOK, SavedHasAnswer
<1> QED
  BY TypeSyncStep, TypeRequestStep, <1>1, <1>2, <1>3, <1>4, <1>5 DEF Next

LEMMA TypeInvariant == Spec => []TInv
BY TypeInit, TypeStep, PTL DEF Spec

\* The tables, the requests and the syncs are well formed, whatever fails.
THEOREM TypeCorrect == Spec => []TypeOK
<1>1. TInv => TypeOK
  BY DEF TInv
<1> QED
  BY TypeInvariant, <1>1, PTL

-----------------------------------------------------------------------------
(* What a step leaves of a request, a sync and the books.                  *)

LEMMA OneRequest ==
  ASSUME TInv, [Next]_vars, NEW q \in Requests
  PROVE  req'[q] = req[q] \/ RequestStep(q)
<1>1. ASSUME NEW r \in Requests, RequestStep(r), r # q
      PROVE  req'[q] = req[q]
  BY <1>1 DEF RequestStep, Find, Upsert, Erase, Mark, GetObject, PostObject, MarkSynced, RequestDies,
              TInv, TypeOK
<1>2. (\E y \in Syncs : SyncStep(y)) => req' = req
  BY DEF SyncStep, StartSync, Fetch, DeleteRows, InsertRows, SyncDies
<1>3. \/ \E e \in Edits, t \in Txns : Edit(e, t)
      \/ \E t \in Txns : DeleteRow(t)
      \/ \E u \in Updates : ReadFollowup(u) \/ WriteFollowup(u)
      \/ UNCHANGED vars
      => req' = req
  BY DEF Edit, DeleteRow, ReadFollowup, WriteFollowup, vars
<1> QED
  BY <1>1, <1>2, <1>3 DEF Next

LEMMA OneSync ==
  ASSUME TInv, [Next]_vars
  PROVE  \/ \E y \in Syncs : SyncStep(y)
         \/ /\ UNCHANGED <<sync, overlap>>
            /\ \A t \in Txns : row'[t] = row[t] \/ row'[t] = {}
<1>1. ASSUME NEW r \in Requests, RequestStep(r)
      PROVE  UNCHANGED <<sync, overlap, row>>
  BY <1>1 DEF RequestStep, Find, Upsert, Erase, Mark, GetObject, PostObject, MarkSynced, RequestDies,
              base, hist
<1>2. ASSUME NEW t \in Txns, DeleteRow(t)
      PROVE  UNCHANGED <<sync, overlap>> /\ \A x \in Txns : row'[x] \in {row[x], {}}
  BY <1>2 DEF DeleteRow, hist, TInv, TypeOK
<1>3. \/ \E e \in Edits, t \in Txns : Edit(e, t)
      \/ \E u \in Updates : ReadFollowup(u) \/ WriteFollowup(u)
      \/ UNCHANGED vars
      => UNCHANGED <<sync, overlap, row>>
  BY DEF Edit, ReadFollowup, WriteFollowup, vars, base, hist
<1> QED
  BY <1>1, <1>2, <1>3 DEF Next

\* An object of QuickBooks stays as it is or gets a higher SyncToken.
LEMMA BooksGrow ==
  ASSUME TInv, [Next]_vars, NEW t \in Txns
  PROVE  books'[t] = books[t] \/ books[t].token < books'[t].token
<1>1. \A x \in Txns : books[x] \in Object /\ books[x].token \in Nat
  BY DEF TInv, TypeOK, Object
<1>2. ASSUME NEW e \in Edits, NEW x \in Txns, Edit(e, x)
      PROVE  books'[t] = books[t] \/ books[t].token < books'[t].token
  BY <1>1, <1>2 DEF Edit, TInv, TypeOK
<1>3. ASSUME NEW r \in Requests, PostObject(r)
      PROVE  books'[t] = books[t] \/ books[t].token < books'[t].token
  BY <1>1, <1>3 DEF PostObject, TInv, TypeOK
<1>4. ASSUME NEW r \in Requests, RequestStep(r), ~PostObject(r)
      PROVE  books' = books
  BY <1>4 DEF RequestStep, Find, Upsert, Erase, Mark, GetObject, MarkSynced, RequestDies
<1>5. (\E y \in Syncs : SyncStep(y)) => books' = books
  BY DEF SyncStep, StartSync, Fetch, DeleteRows, InsertRows, SyncDies
<1>6. \/ \E x \in Txns : DeleteRow(x)
      \/ \E u \in Updates : ReadFollowup(u) \/ WriteFollowup(u)
      \/ UNCHANGED vars
      => books' = books
  BY DEF DeleteRow, ReadFollowup, WriteFollowup, vars
<1> QED
  BY <1>2, <1>3, <1>4, <1>5, <1>6 DEF Next

-----------------------------------------------------------------------------
(* Writebacks.                                                             *)

WInv == TInv /\ ReadIsOlder /\ MarkingIsPosted /\ WritingIsLatest /\ SyncedNoteIsPosted

LEMMA WriteInit == Init => WInv
<1>1. ASSUME Init
      PROVE  ReadIsOlder /\ MarkingIsPosted /\ WritingIsLatest /\ SyncedNoteIsPosted
  BY <1>1 DEF Init, ReadIsOlder, MarkingIsPosted, WritingIsLatest, Writing, SyncedNoteIsPosted, Idle,
              NoAnswer
<1> QED
  BY <1>1, TypeInit DEF WInv

LEMMA ReadStep ==
  ASSUME WInv, [Next]_vars
  PROVE  ReadIsOlder'
<1> SUFFICES ASSUME NEW q \in Requests, req'[q].at = "posting"
             PROVE  \/ req'[q].object.token < books'[req'[q].txn].token
                    \/ req'[q].object = books'[req'[q].txn]
  BY DEF ReadIsOlder
<1>1. TInv
  BY DEF WInv
<1>2. CASE req'[q] = req[q]
  <2>1. /\ req[q].txn \in Txns
        /\ req[q].object.token \in Nat
    BY <1>1, <1>2 DEF TInv, TypeOK, ReqType, Object
  <2>2. books[req[q].txn].token \in Nat /\ books'[req[q].txn].token \in Nat
    BY <1>1, <2>1, TypeStep DEF TInv, TypeOK, Object
  <2>3. \/ req[q].object.token < books[req[q].txn].token
        \/ req[q].object = books[req[q].txn]
    BY <1>2 DEF WInv, ReadIsOlder
  <2> QED
    BY <1>1, <1>2, <2>1, <2>2, <2>3, BooksGrow
<1>3. CASE RequestStep(q)
  <2>1. req[q] \in ReqType
    BY <1>1 DEF TInv, TypeOK
  <2>2. ~Upsert(q) /\ ~Erase(q) /\ ~Mark(q)
    BY <1>1, <2>1 DEF Upsert, Erase, Mark, TInv, TypeOK, ReqType, Done
  <2>3. GetObject(q)
    BY <1>1, <1>3, <2>2 DEF RequestStep, Find, PostObject, MarkSynced, RequestDies, TInv, TypeOK,
                            Done
  <2> QED
    BY <1>1, <2>3 DEF GetObject, TInv, TypeOK
<1> QED
  BY <1>1, <1>2, <1>3, OneRequest

\* What can happen to the books: nothing, the edit of a bookkeeper, or a writeback that
\* adds its change to all that are there.
LEMMA BooksStep ==
  ASSUME TInv, ReadIsOlder, [Next]_vars
  PROVE  \/ \A t \in Txns : books'[t].changes = books[t].changes
         \/ \E e \in Edits, t \in Txns :
              /\ \A x \in Txns : e \notin books[x].changes
              /\ books'[t].changes = books[t].changes \cup {e}
              /\ \A x \in Txns \ {t} : books'[x].changes = books[x].changes
              /\ req' = req
         \/ \E r \in Requests, t \in Txns :
              /\ PostObject(r)
              /\ books'[t].changes = books[t].changes \cup {r}
              /\ \A x \in Txns \ {t} : books'[x].changes = books[x].changes
<1>2. ASSUME NEW e \in Edits, NEW t \in Txns, Edit(e, t)
      PROVE  /\ \A x \in Txns : e \notin books[x].changes
             /\ books'[t].changes = books[t].changes \cup {e}
             /\ \A x \in Txns \ {t} : books'[x].changes = books[x].changes
             /\ req' = req
  BY <1>2 DEF Edit, TInv, TypeOK
<1>3. ASSUME NEW r \in Requests, PostObject(r)
      PROVE  \/ books' = books
             \/ \E t \in Txns :
                  /\ books'[t].changes = books[t].changes \cup {r}
                  /\ \A x \in Txns \ {t} : books'[x].changes = books[x].changes
  <2>1. req[r].txn \in Txns /\ req[r].object.token \in Nat
    BY <1>3 DEF PostObject, TInv, TypeOK, ReqType, Object
  <2>2. books[req[r].txn].token \in Nat
    BY <2>1 DEF TInv, TypeOK, Object
  <2>3. Accepted(req[r].txn, req[r].object) => req[r].object = books[req[r].txn]
    BY <1>3, <2>1, <2>2 DEF PostObject, Accepted, ReadIsOlder
  <2> QED
    BY <1>3, <2>1, <2>3 DEF PostObject, TInv, TypeOK
<1>4. ASSUME NEW r \in Requests, RequestStep(r), ~PostObject(r)
      PROVE  books' = books
  BY <1>4 DEF RequestStep, Find, Upsert, Erase, Mark, GetObject, MarkSynced, RequestDies
<1>5. (\E y \in Syncs : SyncStep(y)) => books' = books
  BY DEF SyncStep, StartSync, Fetch, DeleteRows, InsertRows, SyncDies
<1>6. \/ \E x \in Txns : DeleteRow(x)
      \/ \E u \in Updates : ReadFollowup(u) \/ WriteFollowup(u)
      \/ UNCHANGED vars
      => books' = books
  BY DEF DeleteRow, ReadFollowup, WriteFollowup, vars
<1> QED
  BY <1>2, <1>3, <1>4, <1>5, <1>6 DEF Next

LEMMA PostedStep ==
  ASSUME WInv, [Next]_vars
  PROVE  (MarkingIsPosted /\ WritingIsLatest /\ SyncedNoteIsPosted)'
<1>1. TInv /\ ReadIsOlder /\ req \in [Requests -> ReqType] /\ answer \in [Txns -> Answer]
  BY DEF WInv, TInv, TypeOK
<1>2. \A t \in Txns : books[t].changes \subseteq books'[t].changes
  BY <1>1, BooksStep
<1>3. MarkingIsPosted'
  <2> SUFFICES ASSUME NEW q \in Requests, req'[q].at = "marking"
               PROVE  q \in books'[req'[q].txn].changes
    BY DEF MarkingIsPosted
  <2>1. CASE req'[q] = req[q]
    <3>1. req[q].txn \in Txns
      BY <1>1, <2>1 DEF ReqType
    <3> QED
      BY <1>2, <2>1, <3>1 DEF WInv, MarkingIsPosted
  <2>2. CASE RequestStep(q)
    <3>1. PostObject(q)
      BY <1>1, <2>2 DEF RequestStep, Find, Upsert, Erase, Mark, GetObject, MarkSynced, RequestDies,
                        ReqType, Done
    <3>2. req[q].txn \in Txns
      BY <1>1, <3>1 DEF PostObject, ReqType
    <3> QED
      BY <1>1, <3>1, <3>2 DEF PostObject, TInv, TypeOK, Done
  <2> QED
    BY <1>1, <2>1, <2>2, OneRequest
<1>4. ASSUME NEW r \in Requests, RequestStep(r)
      PROVE  WritingIsLatest' /\ SyncedNoteIsPosted'
  <2>1. \A q \in Requests \ {r} : req'[q] = req[q]
    BY <1>1, <1>4 DEF RequestStep, Find, Upsert, Erase, Mark, GetObject, PostObject, MarkSynced,
                      RequestDies
  <2>2. CASE Upsert(r)
    <3> DEFINE t == req[r].txn
    <3>1. t \in Txns /\ req'[r].txn = t
      BY <1>1, <2>2 DEF Upsert, ReqType
    <3>2. /\ answer'[t].by = {r} /\ answer'[t].synced = answer[t].synced
          /\ \A x \in Txns \ {t} : answer'[x] = answer[x]
      BY <1>1, <2>2, <3>1 DEF Upsert
    <3>3. /\ edited \subseteq edited' /\ (answer[t].synced => t \in edited')
          /\ \A q \in Requests \ {r} : Writing(q) /\ req[q].txn = t => t \in edited'
      BY <2>2 DEF Upsert
    <3>4. WritingIsLatest'
      <4> SUFFICES ASSUME NEW q \in Requests, Writing(q)'
                   PROVE  answer'[req'[q].txn].by = {q} \/ req'[q].txn \in edited'
        BY DEF WritingIsLatest
      <4>1. CASE q = r
        BY <3>1, <3>2, <4>1
      <4>2. CASE q # r
        <5>1. Writing(q) /\ req'[q] = req[q]
          BY <2>1, <4>2 DEF Writing
        <5>2. req[q].txn \in Txns
          BY <1>1, <5>1 DEF Writing, ReqType
        <5> QED
          BY <3>2, <3>3, <4>2, <5>1, <5>2 DEF WInv, WritingIsLatest
      <4> QED
        BY <4>1, <4>2
    <3>5. SyncedNoteIsPosted'
      BY <1>2, <3>1, <3>2, <3>3 DEF WInv, SyncedNoteIsPosted
    <3> QED
      BY <3>4, <3>5
  <2>3. CASE MarkSynced(r)
    <3> DEFINE t == req[r].txn
    <3>1. t \in Txns /\ edited' = edited /\ req'[r].at = "done"
      BY <1>1, <2>3 DEF MarkSynced, ReqType, hist, Done
    <3>2. \A x \in Txns : /\ answer'[x].by = answer[x].by
                          /\ x # t => answer'[x].synced = answer[x].synced
      BY <1>1, <2>3, <3>1 DEF MarkSynced, Answer
    <3>3. t \in edited \/ answer[t].by \subseteq books[t].changes
      BY <2>3 DEF WInv, WritingIsLatest, Writing, MarkingIsPosted, MarkSynced
    <3>4. WritingIsLatest'
      <4> SUFFICES ASSUME NEW q \in Requests, Writing(q)'
                   PROVE  answer'[req'[q].txn].by = {q} \/ req'[q].txn \in edited'
        BY DEF WritingIsLatest
      <4>1. Writing(q) /\ req'[q] = req[q]
        BY <2>1, <3>1 DEF Writing
      <4>2. req[q].txn \in Txns
        BY <1>1, <4>1 DEF Writing, ReqType
      <4> QED
        BY <3>1, <3>2, <4>1, <4>2 DEF WInv, WritingIsLatest
    <3>5. SyncedNoteIsPosted'
      BY <1>2, <3>1, <3>2, <3>3 DEF WInv, SyncedNoteIsPosted
    <3> QED
      BY <3>4, <3>5
  <2>4. CASE ~Upsert(r) /\ ~MarkSynced(r)
    <3>1. edited' = edited
      BY <1>4, <2>4 DEF RequestStep, Find, Erase, Mark, GetObject, PostObject, RequestDies, hist
    <3>2. \A x \in Txns : answer'[x].by = answer[x].by /\ answer'[x].synced = answer[x].synced
      <4>1. CASE Erase(r)
        <5>1. req[r].txn \in Txns
          BY <1>1, <4>1 DEF Erase, ReqType
        <5> QED
          BY <1>1, <4>1, <5>1 DEF Erase, Answer
      <4> QED
        BY <1>4, <2>4, <4>1 DEF RequestStep, Find, Mark, GetObject, PostObject, RequestDies, base
    <3>3. Writing(r)' => Writing(r) /\ req'[r].txn = req[r].txn /\ req[r].txn \in Txns
      BY <1>1, <1>4, <2>4 DEF RequestStep, Find, Erase, Mark, GetObject, PostObject, RequestDies,
                              Writing, ReqType, Done
    <3>4. WritingIsLatest'
      <4> SUFFICES ASSUME NEW q \in Requests, Writing(q)'
                   PROVE  answer'[req'[q].txn].by = {q} \/ req'[q].txn \in edited'
        BY DEF WritingIsLatest
      <4>1. Writing(q) /\ req'[q].txn = req[q].txn /\ req[q].txn \in Txns
        BY <1>1, <2>1, <3>3 DEF Writing, ReqType
      <4> QED
        BY <3>1, <3>2, <4>1 DEF WInv, WritingIsLatest
    <3>5. SyncedNoteIsPosted'
      BY <1>2, <3>1, <3>2 DEF WInv, SyncedNoteIsPosted
    <3> QED
      BY <3>4, <3>5
  <2> QED
    BY <2>2, <2>3, <2>4
<1>5. ASSUME UNCHANGED <<req, answer, edited>>
      PROVE  WritingIsLatest' /\ SyncedNoteIsPosted'
  BY <1>2, <1>5 DEF WInv, WritingIsLatest, Writing, SyncedNoteIsPosted
<1>6. (\E y \in Syncs : SyncStep(y)) => UNCHANGED <<req, answer, edited>>
  BY DEF SyncStep, StartSync, Fetch, DeleteRows, InsertRows, SyncDies, base, hist
<1>7. \/ \E e \in Edits, x \in Txns : Edit(e, x)
      \/ \E x \in Txns : DeleteRow(x)
      \/ \E u \in Updates : ReadFollowup(u) \/ WriteFollowup(u)
      \/ UNCHANGED vars
      => UNCHANGED <<req, answer, edited>>
  BY DEF Edit, DeleteRow, ReadFollowup, WriteFollowup, vars, base, hist
<1>8. WritingIsLatest' /\ SyncedNoteIsPosted'
  BY <1>4, <1>5, <1>6, <1>7 DEF Next
<1> QED
  BY <1>3, <1>8

LEMMA WriteInvariant == Spec => []WInv
<1>1. WInv /\ [Next]_vars => WInv'
  BY TypeStep, ReadStep, PostedStep DEF WInv
<1> QED
  BY WriteInit, <1>1, PTL DEF Spec

\* Whatever fails or is answered late, the note marked as synced stands in QuickBooks,
\* unless it was saved over one that was synced or about to be.
THEOREM SyncedIsPosted == Spec => []SyncedNoteIsPosted
<1>1. WInv => SyncedNoteIsPosted
  BY DEF WInv
<1> QED
  BY WriteInvariant, <1>1, PTL

-----------------------------------------------------------------------------
(* Writebacks and edits implement Ledger.                                  *)

\* A request whose change is in the books has posted it, and will not post again.
PostedOnce ==
  \A r \in Requests, t \in Txns : r \in books[t].changes => req[r].at \in {"marking", "done"}

LInv == WInv /\ PostedOnce

\* A request at its end stays there, and its POST ends it or goes on to the mark.
LEMMA RequestEnds ==
  ASSUME TInv, [Next]_vars, NEW r \in Requests
  PROVE  /\ req[r].at \in {"marking", "done"} => req'[r].at \in {"marking", "done"}
         /\ PostObject(r) => req[r].at = "posting" /\ req'[r].at \in {"marking", "done"}
<1>1. req[r] \in ReqType /\ req \in [Requests -> ReqType]
  BY DEF TInv, TypeOK
<1>2. PostObject(r) => req[r].at = "posting" /\ req'[r].at \in {"marking", "done"}
  BY <1>1 DEF PostObject, Done
<1>3. CASE RequestStep(r) /\ req[r].at \in {"marking", "done"}
  BY <1>1, <1>3
     DEF RequestStep, Find, Upsert, Erase, Mark, GetObject, PostObject, MarkSynced, RequestDies, Done
<1> QED
  BY <1>2, <1>3, OneRequest

LEMMA PostedOnceStep ==
  ASSUME LInv, [Next]_vars
  PROVE  PostedOnce'
<1> SUFFICES ASSUME NEW q \in Requests, NEW x \in Txns, q \in books'[x].changes
             PROVE  req'[q].at \in {"marking", "done"}
  BY DEF PostedOnce
<1>1. WInv /\ TInv /\ PostedOnce
  BY DEF LInv, WInv
<1>2. q \in books[x].changes \/ PostObject(q)
  BY <1>1, BooksStep, DistinctAssumption DEF WInv
<1> QED
  BY <1>1, <1>2, RequestEnds DEF PostedOnce

\* Edits of bookkeepers and writebacks of mapi, each of GET, merge and POST with the
\* SyncToken, make their changes one at a time, once, and on top of each other.
THEOREM WritebackImplementsLedger == Spec => WritesAreAtomic
<1>1. Init => LInv /\ Books!Init
  <2>1. Init => WInv
    BY WriteInit
  <2>2. Init => PostedOnce /\ Books!Init
    BY DEF Init, PostedOnce, Books!Init
  <2> QED
    BY <2>1, <2>2 DEF LInv
<1>2. LInv /\ [Next]_vars => LInv'
  BY TypeStep, ReadStep, PostedStep, PostedOnceStep DEF LInv, WInv
<1>3. ASSUME LInv, [Next]_vars
      PROVE  [Books!Next]_[t \in Txns |-> books[t].changes]
  <2> DEFINE made == [t \in Txns |-> books[t].changes]
  <2>1. WInv /\ TInv /\ PostedOnce
    BY <1>3 DEF LInv, WInv
  <2>2. CASE \A t \in Txns : books'[t].changes = books[t].changes
    BY <2>2
  <2>3. ASSUME NEW c \in Edits \cup Requests, NEW t \in Txns,
               \A x \in Txns : c \notin books[x].changes,
               books'[t].changes = books[t].changes \cup {c},
               \A x \in Txns \ {t} : books'[x].changes = books[x].changes
        PROVE  Books!Next
    <3>1. Books!Make(c, t)
      BY <2>3 DEF Books!Make
    <3> QED
      BY <3>1 DEF Books!Next
  <2>4. ASSUME NEW r \in Requests, PostObject(r)
        PROVE  \A x \in Txns : r \notin books[x].changes
    BY <1>3, <2>1, <2>4, RequestEnds DEF PostedOnce
  <2> QED
    BY <1>3, <2>1, <2>2, <2>3, <2>4, BooksStep DEF WInv
<1> QED
  BY <1>1, <1>2, <1>3, PTL DEF Spec, WritesAreAtomic, Books!Spec

\* What stands in the books stays there, and stands in one place only.
NothingIsUndone ==
  \A t \in Txns : books[t].changes \subseteq books'[t].changes

OnePlaceEach ==
  \A t, x \in Txns : books[t].changes \cap books[x].changes # {} => t = x

\* No edit in QuickBooks is lost, whatever request had read the object before it, and
\* none is copied to another transaction: this is drawn from the Ledger alone.
THEOREM NoEditIsLost == Spec => [][NothingIsUndone]_vars /\ []OnePlaceEach
<1>1. ASSUME OnePlaceEach, [Books!Next]_[t \in Txns |-> books[t].changes]
      PROVE  NothingIsUndone /\ OnePlaceEach'
  <2>1. CASE \A t \in Txns : books'[t].changes = books[t].changes
    BY <1>1, <2>1 DEF NothingIsUndone, OnePlaceEach
  <2>2. ASSUME NEW c \in Edits \cup Requests, NEW t \in Txns, Books!Make(c, t)
        PROVE  NothingIsUndone /\ OnePlaceEach'
    <3>1. \A x \in Txns : c \notin books[x].changes
      BY <2>2 DEF Books!Make
    <3>2. /\ books'[t].changes = books[t].changes \cup {c}
          /\ \A x \in Txns \ {t} : books'[x].changes = books[x].changes
      BY <2>2 DEF Books!Make
    <3> QED
      BY <1>1, <3>1, <3>2 DEF NothingIsUndone, OnePlaceEach
  <2>3. [t \in Txns |-> books[t].changes]' = [t \in Txns |-> books[t].changes]
          => \A t \in Txns : books'[t].changes = books[t].changes
    BY DEF NothingIsUndone
  <2> QED
    BY <1>1, <2>1, <2>2, <2>3 DEF Books!Next
<1>2. Init => OnePlaceEach
  BY DEF Init, OnePlaceEach
<1>3. WritesAreAtomic => [][Books!Next]_[t \in Txns |-> books[t].changes]
  BY DEF WritesAreAtomic, Books!Spec
<1>4. OnePlaceEach /\ [Books!Next]_[t \in Txns |-> books[t].changes] => NothingIsUndone /\ OnePlaceEach'
  BY <1>1
<1> QED
  BY <1>2, <1>3, <1>4, WritebackImplementsLedger, PTL DEF Spec

-----------------------------------------------------------------------------
(* Snapshots.                                                              *)

SInv == TInv /\ RunningOverlap /\ DeletedSeesOverlap /\ MixedOnlyByOverlap

LEMMA SnapshotInit == Init => SInv
<1>1. ASSUME Init
      PROVE  RunningOverlap /\ DeletedSeesOverlap /\ MixedOnlyByOverlap
  BY <1>1 DEF Init, RunningOverlap, DeletedSeesOverlap, MixedOnlyByOverlap, Running, Idle
<1> QED
  BY <1>1, TypeInit DEF SInv

LEMMA SnapshotSync ==
  ASSUME SInv, NEW y \in Syncs, SyncStep(y)
  PROVE  (RunningOverlap /\ DeletedSeesOverlap /\ MixedOnlyByOverlap)'
<1>1. TInv
  BY DEF SInv
<1>2. sync \in [Syncs -> SyncType] /\ row \in [Txns -> {{}} \cup {{x} : x \in Row}]
  BY <1>1 DEF TInv, TypeOK
<1>3. CASE StartSync(y)
  <2>1. /\ overlap \subseteq overlap' /\ row' = row
        /\ \A z \in Syncs : z # y => sync'[z] = sync[z]
        /\ sync'[y].at = "fetching"
    BY <1>2, <1>3 DEF StartSync, base
  <2>2. Running' = Running \cup {y} /\ (Running = {} \/ Running \cup {y} \subseteq overlap')
    BY <1>2, <1>3, <2>1 DEF StartSync, Running
  <2>3. RunningOverlap'
    BY <2>2 DEF RunningOverlap
  <2>4. DeletedSeesOverlap'
    BY <2>1 DEF SInv, DeletedSeesOverlap
  <2>5. MixedOnlyByOverlap'
    BY <2>1 DEF SInv, MixedOnlyByOverlap
  <2> QED
    BY <2>3, <2>4, <2>5
<1>4. CASE Fetch(y) \/ SyncDies(y)
  <2>1. /\ UNCHANGED <<row, overlap>>
        /\ \A z \in Syncs : z # y => sync'[z] = sync[z]
        /\ y \in Running /\ sync'[y].at # "deleted"
    BY <1>2, <1>4 DEF Fetch, SyncDies, Running, base, hist, Done
  <2>2. Running' \subseteq Running
    BY <2>1 DEF Running
  <2> QED
    BY <2>1, <2>2 DEF SInv, RunningOverlap, DeletedSeesOverlap, MixedOnlyByOverlap
<1>5. CASE DeleteRows(y)
  <2>1. /\ \A z \in Syncs : z # y => sync'[z] = sync[z]
        /\ y \in Running /\ overlap' = overlap
        /\ \A t \in Txns : row'[t] = {}
    BY <1>2, <1>5 DEF DeleteRows, Running, hist
  <2>2. Running' \subseteq Running
    BY <2>1 DEF Running
  <2> QED
    BY <2>1, <2>2 DEF SInv, RunningOverlap, DeletedSeesOverlap, MixedOnlyByOverlap
<1>6. CASE InsertRows(y)
  <2>1. /\ \A z \in Syncs : z # y => sync'[z] = sync[z]
        /\ y \in Running /\ overlap' = overlap
        /\ sync[y].at = "deleted" /\ sync'[y].at = "done"
    BY <1>2, <1>6 DEF InsertRows, Running, hist, Done
  <2>2. RunningOverlap'
    BY <2>1 DEF SInv, RunningOverlap, Running
  <2>3. \A t \in Txns : row'[t] = row[t] \/ \E x \in Row : row'[t] = {x} /\ x.sync = y
    BY <1>1, <1>6, InsertEffect DEF TInv
  <2>4. \A t \in Txns : \A x \in row'[t] : x \in row[t] \/ x.sync = y
    BY <2>3
  <2>5. DeletedSeesOverlap'
    <3> SUFFICES ASSUME NEW z \in Syncs, NEW t \in Txns, NEW x \in row'[t], sync'[z].at = "deleted"
                 PROVE  z \in overlap' /\ x.sync \in overlap'
      BY DEF DeletedSeesOverlap
    <3>1. z # y /\ sync[z].at = "deleted" /\ z \in Running
      BY <2>1 DEF Running
    <3>2. z \in overlap /\ y \in overlap
      BY <2>1, <3>1 DEF SInv, RunningOverlap
    <3> QED
      BY <2>1, <2>4, <3>1, <3>2 DEF SInv, DeletedSeesOverlap
  <2>6. MixedOnlyByOverlap'
    <3> SUFFICES ASSUME NEW t \in Txns, NEW u \in Txns, NEW a \in row'[t], NEW b \in row'[u],
                        a.sync # b.sync
                 PROVE  a.sync \in overlap' /\ b.sync \in overlap'
      BY DEF MixedOnlyByOverlap
    <3>1. CASE a \in row[t] /\ b \in row[u]
      BY <2>1, <3>1 DEF SInv, MixedOnlyByOverlap
    <3>2. CASE a \notin row[t] /\ b \in row[u]
      BY <2>1, <2>4, <3>2 DEF SInv, DeletedSeesOverlap
    <3>3. CASE a \in row[t] /\ b \notin row[u]
      BY <2>1, <2>4, <3>3 DEF SInv, DeletedSeesOverlap
    <3>4. CASE a \notin row[t] /\ b \notin row[u]
      BY <2>4, <3>4
    <3> QED
      BY <3>1, <3>2, <3>3, <3>4
  <2> QED
    BY <2>2, <2>5, <2>6
<1> QED
  BY <1>3, <1>4, <1>5, <1>6 DEF SyncStep

LEMMA SnapshotInvariant == Spec => []SInv
<1>1. ASSUME SInv, UNCHANGED <<sync, overlap>>, \A t \in Txns : row'[t] = row[t] \/ row'[t] = {}
      PROVE  (RunningOverlap /\ DeletedSeesOverlap /\ MixedOnlyByOverlap)'
  BY <1>1 DEF SInv, RunningOverlap, DeletedSeesOverlap, MixedOnlyByOverlap, Running
<1>2. SInv /\ [Next]_vars => SInv'
  BY <1>1, TypeStep, SnapshotSync, OneSync DEF SInv
<1> QED
  BY SnapshotInit, <1>2, PTL DEF Spec

\* Rows of two reports stand beside each other only when their syncs overlapped.
THEOREM Mixed == Spec => []MixedOnlyByOverlap
<1>1. SInv => MixedOnlyByOverlap
  BY DEF SInv
<1> QED
  BY SnapshotInvariant, <1>1, PTL

-----------------------------------------------------------------------------
(* The mark of the month.                                                  *)

\* Without an answer whose row is gone, as many answers as rows are one for each.
LEMMA CountsAgree ==
  ASSUME AllAnswered, Complete \subseteq Uncats
  PROVE  Uncats \subseteq Complete
<1>1. IsFiniteSet(Uncats)
  <2>1. Uncats \in SUBSET Txns
    BY DEF Uncats
  <2> QED
    BY <2>1, FiniteAssumption, FS_Subset
<1>2. Complete \in SUBSET Uncats /\ Complete = {t \in Txns : Answered(t)}
  BY DEF Complete, Answered
<1>3. Cardinality(Complete) <= Cardinality(Uncats)
  BY <1>1, <1>2, FS_Subset
<1>4. IsFiniteSet(Complete) /\ Cardinality(Complete) \in Nat /\ Cardinality(Uncats) \in Nat
  BY <1>1, <1>2, FS_Subset, FS_CardinalityType
<1>5. Cardinality(Uncats) = Cardinality(Complete)
  BY <1>2, <1>3, <1>4 DEF AllAnswered
<1>6. Uncats = Complete
  BY <1>1, <1>2, <1>5, FS_Subset
<1> QED
  BY <1>6

MarkStep ==
  ~full /\ full' =>
    \/ Uncats \subseteq Complete
    \/ ~(Complete \subseteq Uncats)
    \/ \E u \in Updates : update[u] # update'[u]

LEMMA MarkIsCounted == TInv /\ [Next]_vars => MarkStep
<1> SUFFICES ASSUME TInv, [Next]_vars, ~full, full'
             PROVE  \/ Uncats \subseteq Complete
                    \/ ~(Complete \subseteq Uncats)
                    \/ \E u \in Updates : update[u] # update'[u]
  BY DEF MarkStep
<1>1. ASSUME NEW u \in Updates, WriteFollowup(u)
      PROVE  update[u] # update'[u]
  BY <1>1 DEF WriteFollowup, TInv, TypeOK, Done
<1>2. ASSUME NEW r \in Requests, Mark(r)
      PROVE  AllAnswered
  BY <1>2 DEF Mark
<1>3. ASSUME NEW r \in Requests, RequestStep(r), ~Mark(r)
      PROVE  full' = full
  BY <1>3 DEF RequestStep, Find, Upsert, Erase, GetObject, PostObject, MarkSynced, RequestDies, base
<1>4. (\E y \in Syncs : SyncStep(y)) => full' = full
  BY DEF SyncStep, StartSync, Fetch, DeleteRows, InsertRows, SyncDies, base
<1>5. \/ \E e \in Edits, t \in Txns : Edit(e, t)
      \/ \E t \in Txns : DeleteRow(t)
      \/ \E u \in Updates : ReadFollowup(u)
      \/ UNCHANGED vars
      => full' = full
  BY DEF Edit, DeleteRow, ReadFollowup, vars, base
<1>6. AllAnswered \/ \E u \in Updates : WriteFollowup(u)
  BY <1>2, <1>3, <1>4, <1>5 DEF Next
<1> QED
  BY <1>1, <1>6, CountsAgree

\* The month is marked with an uncategorized row that has no completed answer only for an
\* answer whose uncategorized row is gone.
THEOREM Counted == Spec => MarkCountsOrphansOnly
<1>1. TInv /\ [Next]_vars => [MarkStep]_vars
  BY MarkIsCounted
<1> QED
  BY TypeInvariant, <1>1, PTL DEF Spec, MarkCountsOrphansOnly, MarkStep

-----------------------------------------------------------------------------
(* The page of the client (PublicNotes).                                   *)

\* Save n may still be carried out.
Alive(n) == Pending(n) \/ save[n].at = "late"

\* Everything that holds a text of a transaction holds one typed for it.
Own(t) == typed[t] \cup {Empty}
TextsAreOwn ==
  /\ note \in Own(selected) /\ timer \in Own(selected) \cup {NoTimer}
  /\ \A t \in PageTxns : cache[t] \in Own(t) /\ server[t] \in Own(t)
  /\ \A n \in Ns : Alive(n) => save[n].text \in Own(save[n].txn)
  /\ \A n \in Ns : Pending(n) => \A t \in PageTxns : save[n].before[t] \in Own(t)
  /\ reload.at = "read" => \A t \in PageTxns : reload.items[t] \in Own(t)

\* The next call of mutate has not been used.
UnusedAreAhead == \A n \in Ns : n > saves => save[n] = NoSave

\* Of a transaction that is not excused: at most one save is on its way, and it has
\* the text of the cache, which without a save is the one of mapi and of a list
\* just read; the field, if there is one, has the text typed last, and lastSavedRef the
\* text of the cache unless the save on its way is the last one; without the focus
\* nothing is left that the cache does not have.
OneSave(t) == \A n, m \in OnTheWay(t) : n = m
SavedIsCached(t) ==
  /\ OnTheWay(t) = {} => server[t] = cache[t]
  /\ \A n \in OnTheWay(t) : save[n].at # "failed" => save[n].text = cache[t]
  /\ \A n \in OnTheWay(t) : save[n].at = "applied" => server[t] = cache[t]
ReadIsStored(t) == reload.at = "read" /\ OnTheWay(t) = {} => reload.items[t] = server[t]
FieldIsWanted(t) ==
  t = selected /\ cacheRows # NoRows => note = want[t] /\ (lastSaved = cache[t] \/ saves \in OnTheWay(t))
CachedIsWanted(t) == cache[t] = want[t] \/ (focus /\ t = selected)
Tidy(t) ==
  OneSave(t) /\ SavedIsCached(t) /\ ReadIsStored(t) /\ FieldIsWanted(t) /\ CachedIsWanted(t)

PageInv ==
  PageTypeOK /\ UnusedAreAhead /\ \A t \in PageTxns \ excused : Tidy(t)

-----------------------------------------------------------------------------
\* What a save on its way holds.
LEMMA PendingFields ==
  ASSUME PageTypeOK, NEW n \in Ns, Pending(n)
  PROVE  /\ save[n].txn \in PageTxns /\ save[n].text \in Texts /\ save[n].before \in Notes
         /\ save[n].rows \in RowIds
         /\ \A t \in PageTxns : save[n].before[t] \in Texts
<1>1. save[n] \in SaveType /\ save \in [Ns -> SaveType]
  BY DEF PageTypeOK
<1>2. save[n] \in [at : {"sent", "applied", "failed", "lost"},
                   txn : PageTxns, text : Texts, rows : RowIds, before : Notes]
  BY <1>1 DEF SaveType, Pending
<1>3. save[n].txn \in PageTxns /\ save[n].text \in Texts /\ save[n].before \in Notes
      /\ save[n].rows \in RowIds
  BY <1>2
<1>4. \A t \in PageTxns : save[n].before[t] \in Texts
  BY <1>3 DEF Notes
<1> QED
  BY <1>3, <1>4

\* A save that may still be carried out, and what is left of it when it was late.
LEMMA AliveFields ==
  ASSUME PageTypeOK, NEW n \in Ns, Alive(n)
  PROVE  save[n].txn \in PageTxns /\ save[n].text \in Texts /\ save[n].rows \in RowIds
<1>1. save[n] \in SaveType
  BY DEF PageTypeOK
<1>2. CASE save[n].at = "late"
  <2>1. save[n] \in [at : {"late"}, txn : PageTxns, text : Texts, rows : RowIds]
    BY <1>1, <1>2 DEF SaveType
  <2> QED
    BY <2>1
<1> QED
  BY <1>2, PendingFields DEF Alive

\* The state of one save changes.
LEMMA StateOfSave ==
  ASSUME PageTypeOK, NEW n \in Ns, Pending(n), NEW at \in {"applied", "failed", "lost"},
         save' = [save EXCEPT ![n].at = at]
  PROVE  /\ save' \in [Ns -> SaveType] /\ Pending(n)' /\ save'[n].at = at
         /\ \A m \in Ns : /\ save'[m].txn = save[m].txn /\ save'[m].text = save[m].text
                          /\ save'[m].before = save[m].before
                          /\ (Alive(m)' => Alive(m)) /\ (Pending(m)' <=> Pending(m))
                          /\ (m # n => save'[m] = save[m])
<1>1. save[n] \in [at : {"sent", "applied", "failed", "lost"},
                   txn : PageTxns, text : Texts, rows : RowIds, before : Notes]
      /\ save \in [Ns -> SaveType]
  BY DEF PageTypeOK, SaveType, Pending
<1>2. /\ save' \in [Ns -> SaveType] /\ save'[n].at = at /\ save'[n].txn = save[n].txn
      /\ save'[n].text = save[n].text /\ save'[n].before = save[n].before
      /\ \A m \in Ns \ {n} : save'[m] = save[m]
  <2>1. [save[n] EXCEPT !.at = at] \in SaveType
    BY <1>1 DEF SaveType
  <2> QED
    BY <1>1, <2>1
<1>3. Pending(n)'
  BY <1>2 DEF Pending
<1>4. ASSUME NEW m \in Ns
      PROVE  /\ save'[m].txn = save[m].txn /\ save'[m].text = save[m].text
             /\ save'[m].before = save[m].before
             /\ (Alive(m)' => Alive(m)) /\ (Pending(m)' <=> Pending(m))
             /\ (m # n => save'[m] = save[m])
  <2>1. CASE m = n
    BY <1>2, <1>3, <2>1 DEF Alive
  <2>2. CASE m # n
    BY <1>2, <2>2 DEF Alive, Pending
  <2> QED
    BY <2>1, <2>2
<1> QED
  BY <1>2, <1>3, <1>4

\* The effects of flush.
LEMMA FlushEffect ==
  ASSUME PageTypeOK, NEW text \in Texts, Flush(text)
  PROVE  \/ /\ text = lastSaved
            /\ UNCHANGED <<cache, lastSaved, save, saves, reload>>
            /\ excused' = IF OnTheWay(selected) = {} THEN excused ELSE excused \cup {selected}
         \/ /\ text # lastSaved
            /\ excused' = IF OnTheWay(selected) = {} THEN excused ELSE excused \cup {selected}
            /\ saves + 1 \in Ns /\ saves' = saves + 1 /\ saves' \in 0 .. MaxSaves
            /\ save' \in [Ns -> SaveType]
            /\ save'[saves + 1].at = "sent" /\ save'[saves + 1].txn = selected
            /\ save'[saves + 1].text = text /\ save'[saves + 1].before = cache
            /\ \A m \in Ns \ {saves + 1} : save'[m] = save[m]
            /\ cache' \in Notes /\ cache'[selected] = text
            /\ \A t \in PageTxns \ {selected} : cache'[t] = cache[t]
            /\ lastSaved' = Synced(text) /\ lastSaved' \in Texts
            /\ reload' = NoReload
<1>1. CASE Same(text)
  BY <1>1 DEF Flush, Same
<1>2. CASE ~Same(text)
  <2> DEFINE new == [at |-> "sent", txn |-> selected, text |-> text, rows |-> cacheRows,
                    before |-> cache]
  <2>1. /\ saves < MaxSaves /\ saves' = saves + 1
        /\ save' = [save EXCEPT ![saves + 1] = new]
        /\ cache' = [cache EXCEPT ![selected] = text]
        /\ lastSaved' = Synced(text) /\ reload' = NoReload
        /\ excused' = IF OnTheWay(selected) = {} THEN excused ELSE excused \cup {selected}
    BY <1>2 DEF Flush
  <2>2. new \in SaveType
    BY DEF SaveType, PageTypeOK
  <2>3. saves + 1 \in Ns /\ saves' \in 0 .. MaxSaves
    BY <2>1, BoundsAssumption DEF PageTypeOK, Ns
  <2>4. save' \in [Ns -> SaveType] /\ save'[saves + 1] = new
        /\ \A m \in Ns \ {saves + 1} : save'[m] = save[m]
    <3> HIDE DEF new
    <3> QED
      BY <2>1, <2>2, <2>3 DEF PageTypeOK
  <2>5. cache' \in Notes /\ cache'[selected] = text
        /\ \A t \in PageTxns \ {selected} : cache'[t] = cache[t]
    BY <2>1 DEF PageTypeOK, Notes
  <2>6. lastSaved' \in Texts
    BY <2>1 DEF Synced, PageTypeOK
  <2>7. save'[saves + 1].at = "sent" /\ save'[saves + 1].txn = selected
        /\ save'[saves + 1].text = text /\ save'[saves + 1].before = cache
    BY <2>4
  <2> QED
    BY <1>2, <2>1, <2>3, <2>4, <2>5, <2>6, <2>7 DEF Same
<1> QED
  BY <1>1, <1>2

\* The effect on the transaction keeps lastSavedRef or takes the text of the cache.
LEMMA SyncEffect ==
  ASSUME PageTypeOK, NEW c \in Notes, SyncAfter(c)
  PROVE  lastSaved' \in {lastSaved, c[selected]} /\ lastSaved' \in Texts
BY DEF SyncAfter, Synced, PageTypeOK, Notes

\* What becomes of the detail with other notes in the cache: it stays, another is opened,
\* or there is none.
LEMMA ShowEffect ==
  ASSUME PageTypeOK, NEW c \in Notes, NEW ids \in RowIds, Show(c, ids)
  PROVE  /\ cache' = c /\ cacheRows' = ids /\ selected' \in PageTxns /\ lastSaved' \in Texts
         /\ \/ /\ ids = cacheRows /\ UNCHANGED field
               /\ lastSaved' \in {lastSaved, c[selected]}
            \/ /\ ids \notin {cacheRows, NoRows} /\ focus' = FALSE /\ timer' = NoTimer
               /\ note' = c[selected'] /\ lastSaved' = c[selected']
            \/ /\ ids = NoRows /\ cacheRows # NoRows /\ focus' = FALSE /\ timer' = NoTimer
               /\ note' = Empty
<1>1. \A t \in PageTxns : c[t] \in Texts
  BY DEF Notes
<1>2. CASE ids = cacheRows /\ UNCHANGED field /\ UNCHANGED lastSaved
  BY <1>2 DEF Show, PageTypeOK, field
<1>3. CASE ids = cacheRows /\ UNCHANGED field /\ SyncAfter(c)
  BY <1>3, SyncEffect DEF Show, PageTypeOK, field
<1>4. CASE ids \notin {cacheRows, NoRows}
  BY <1>1, <1>4 DEF Show, Open
<1>5. CASE ids = NoRows /\ cacheRows # NoRows
  BY <1>5, TextAssumption DEF Show, PageTypeOK
<1> QED
  BY <1>2, <1>3, <1>4, <1>5 DEF Show

LEMMA ShowTypes ==
  ASSUME PageTypeOK, NEW c \in Notes, NEW ids \in RowIds, Show(c, ids)
  PROVE  /\ cache' \in Notes /\ cacheRows' \in RowIds
         /\ selected' \in PageTxns /\ note' \in Texts /\ focus' \in BOOLEAN
         /\ lastSaved' \in Texts /\ timer' \in Texts \cup {NoTimer}
         /\ (timer' # NoTimer => focus') /\ (focus' => cacheRows' # NoRows)
<1>1. \A t \in PageTxns : c[t] \in Texts
  BY DEF Notes
<1> QED
  BY <1>1, ShowEffect, TextAssumption DEF PageTypeOK, field

-----------------------------------------------------------------------------
LEMMA PageTypeInit == PageInit => PageTypeOK
<1> SUFFICES ASSUME PageInit
             PROVE  PageTypeOK
  OBVIOUS
<1>1. server \in Notes /\ cache \in Notes /\ want \in Notes
  BY TextAssumption DEF PageInit, Notes
<1>2. save \in [Ns -> SaveType] /\ saves \in 0 .. MaxSaves
      /\ edits \in 0 .. MaxEdits /\ others \in 0 .. MaxOthers
      /\ rows \in RowIds /\ lists \in RowIds /\ cacheRows \in RowIds /\ unseen \subseteq PageTxns
  BY BoundsAssumption DEF PageInit, SaveType, NoSave, RowIds
<1>3. reload \in [at : {"none", "asked"}] /\ typed \in [PageTxns -> SUBSET Texts]
  BY DEF PageInit, NoReload
<1> QED
  BY <1>1, <1>2, <1>3, TextAssumption DEF PageInit, PageTypeOK

LEMMA PageTypeNext == PageTypeOK /\ [PageNext]_pageVars => PageTypeOK'
<1> SUFFICES ASSUME PageTypeOK, [PageNext]_pageVars
             PROVE  PageTypeOK'
  OBVIOUS
<1> USE DEF pageVars, mapi, shown, field, counts, pageHist
<1>1. CASE Focus
  BY <1>1 DEF Focus, PageTypeOK
<1>2. ASSUME NEW text \in Texts, Type(text)
      PROVE  PageTypeOK'
  <2>1. typed' \in [PageTxns -> SUBSET Texts] /\ want' \in Notes
    BY <1>2 DEF Type, PageTypeOK, Notes
  <2>2. note' \in Texts /\ timer' \in Texts /\ edits' \in 0 .. MaxEdits
    BY <1>2, BoundsAssumption DEF Type, PageTypeOK
  <2> QED
    BY <1>2, <2>1, <2>2 DEF Type, PageTypeOK
<1>3. CASE DebounceFires
  <2>1. timer \in Texts /\ Flush(timer) /\ timer' = NoTimer
        /\ UNCHANGED <<mapi, cacheRows, selected, note, focus, counts, typed, want, unseen>>
    BY <1>3 DEF DebounceFires, PageTypeOK
  <2>2. PICK text \in Texts : Flush(text)
    BY <2>1
  <2>3. /\ save' \in [Ns -> SaveType] /\ saves' \in 0 .. MaxSaves
        /\ cache' \in Notes /\ lastSaved' \in Texts /\ excused' \subseteq PageTxns
        /\ reload' \in [at : {"none", "asked"}] \cup [at : {"read"}, items : Notes, rows : RowIds]
    BY <2>2, FlushEffect DEF PageTypeOK, NoReload
  <2> QED
    BY <2>1, <2>3 DEF PageTypeOK
<1>4. CASE Blur
  <2>1. note \in Texts /\ Flush(note) /\ timer' = NoTimer /\ focus' = FALSE
        /\ UNCHANGED <<mapi, cacheRows, selected, note, counts, typed, want, unseen>>
    BY <1>4 DEF Blur, PageTypeOK
  <2>2. PICK text \in Texts : Flush(text)
    BY <2>1
  <2>3. /\ save' \in [Ns -> SaveType] /\ saves' \in 0 .. MaxSaves
        /\ cache' \in Notes /\ lastSaved' \in Texts /\ excused' \subseteq PageTxns
        /\ reload' \in [at : {"none", "asked"}] \cup [at : {"read"}, items : Notes, rows : RowIds]
    BY <2>2, FlushEffect DEF PageTypeOK, NoReload
  <2> QED
    BY <2>1, <2>3 DEF PageTypeOK
<1>5. ASSUME NEW t \in PageTxns, Select(t)
      PROVE  PageTypeOK'
  <2>1. cache[t] \in Texts
    BY DEF PageTypeOK, Notes
  <2> QED
    BY <1>5, <2>1 DEF Select, Open, PageTypeOK
<1>6. ASSUME NEW n \in Ns, Apply(n)
      PROVE  PageTypeOK'
  <2>1. Pending(n) /\ server' = [server EXCEPT ![save[n].txn] = save[n].text]
        /\ save' = [save EXCEPT ![n].at = "applied"]
        /\ UNCHANGED <<rows, lists, shown, field, lastSaved, saves, reload, counts, pageHist>>
    BY <1>6 DEF Apply, Pending
  <2>2. server' \in Notes /\ save' \in [Ns -> SaveType]
    BY <2>1, PendingFields, StateOfSave DEF PageTypeOK, Notes
  <2> QED
    BY <2>1, <2>2 DEF PageTypeOK
<1>7. ASSUME NEW n \in Ns, Fail(n)
      PROVE  PageTypeOK'
  <2>1. /\ Pending(n)
        /\ \E at \in {"failed", "lost"} : save' = [save EXCEPT ![n].at = at]
        /\ UNCHANGED <<mapi, shown, field, lastSaved, saves, reload, counts, pageHist>>
    BY <1>7 DEF Fail, Pending
  <2>2. save' \in [Ns -> SaveType]
    BY <2>1, StateOfSave
  <2> QED
    BY <2>1, <2>2 DEF PageTypeOK
<1>8. ASSUME NEW n \in Ns, SettleApplied(n)
      PROVE  PageTypeOK'
  <2>1. Pending(n) /\ save[n].text \in Texts
    BY <1>8, PendingFields DEF SettleApplied, Pending
  <2>2. save' \in [Ns -> SaveType] /\ lastSaved' \in Texts
        /\ reload' \in [at : {"none", "asked"}] /\ excused' \subseteq PageTxns
    BY <1>8, <2>1 DEF SettleApplied, Ends, PageTypeOK, SaveType
  <2> QED
    BY <1>8, <2>2 DEF SettleApplied, PageTypeOK
<1>9. ASSUME NEW n \in Ns, SettleFailed(n)
      PROVE  PageTypeOK'
  <2>1. /\ save[n].before \in Notes /\ save[n].rows \in RowIds
        /\ save[n].txn \in PageTxns /\ save[n].text \in Texts
    BY <1>9, PendingFields DEF SettleFailed, Pending
  <2>2. save' \in [Ns -> SaveType]
    <3>1. [at |-> "done"] \in SaveType
          /\ [at |-> "late", txn |-> save[n].txn, text |-> save[n].text, rows |-> save[n].rows]
               \in SaveType
      BY <2>1 DEF SaveType
    <3> QED
      BY <1>9, <3>1 DEF SettleFailed, Ends, PageTypeOK
  <2>3. reload' \in [at : {"none", "asked"}]
    BY <1>9 DEF SettleFailed
  <2>4. TypedIsLost(save[n].rows) \subseteq PageTxns
    BY DEF TypedIsLost, PageTypeOK
  <2>5. excused' \subseteq PageTxns
    BY <1>9, <2>4 DEF SettleFailed, PageTypeOK
  <2>6. Show(save[n].before, save[n].rows)
        /\ UNCHANGED <<mapi, saves, counts, typed, want, unseen>>
    BY <1>9 DEF SettleFailed
  <2> QED
    BY <2>1, <2>2, <2>3, <2>5, <2>6, ShowTypes DEF PageTypeOK
<1>10. CASE ReloadRead
  BY <1>10 DEF ReloadRead, PageTypeOK
<1>11. CASE ReloadShown
  <2>1. reload.items \in Notes /\ reload.rows \in RowIds
    BY <1>11 DEF ReloadShown, PageTypeOK
  <2>2. TypedIsLost(reload.rows) \subseteq PageTxns
    BY DEF TypedIsLost, PageTypeOK
  <2>3. excused' \subseteq PageTxns
    BY <1>11, <2>2 DEF ReloadShown, PageTypeOK
  <2>4. Show(reload.items, reload.rows) /\ reload' \in [at : {"none", "asked"}]
        /\ UNCHANGED <<mapi, save, saves, counts, typed, want, unseen>>
    BY <1>11 DEF ReloadShown, NoReload
  <2> QED
    BY <2>1, <2>3, <2>4, ShowTypes DEF PageTypeOK
<1>12. ASSUME NEW n \in Ns, ApplyLate(n)
       PROVE  PageTypeOK'
  <2>1. Alive(n) /\ save[n].txn \in PageTxns /\ save[n].text \in Texts
    BY <1>12, AliveFields DEF ApplyLate, Alive, Pending
  <2>2. server' \in Notes /\ excused' \subseteq PageTxns /\ unseen' \subseteq PageTxns
    BY <1>12, <2>1 DEF ApplyLate, PageTypeOK, Notes
  <2>3. save' \in [Ns -> SaveType]
    <3>1. CASE Pending(n)
      BY <1>12, <3>1, StateOfSave DEF ApplyLate
    <3>2. CASE ~Pending(n)
      BY <1>12, <3>2 DEF ApplyLate, PageTypeOK, SaveType
    <3> QED
      BY <3>1, <3>2
  <2> QED
    BY <1>12, <2>2, <2>3 DEF ApplyLate, PageTypeOK
<1>13. ASSUME NEW t \in PageTxns, NEW text \in Texts, OtherWrites(t, text)
       PROVE  PageTypeOK'
  <2>1. others' \in 0 .. MaxOthers
    BY <1>13, BoundsAssumption DEF OtherWrites, PageTypeOK
  <2>2. server' \in Notes /\ typed' \in [PageTxns -> SUBSET Texts]
    BY <1>13 DEF OtherWrites, PageTypeOK, Notes
  <2> QED
    BY <1>13, <2>1, <2>2 DEF OtherWrites, PageTypeOK
<1>14. CASE RowsGo
  BY <1>14, BoundsAssumption DEF RowsGo, PageTypeOK, NoRows, RowIds
<1>15. CASE RowsCome
  <2>1. lists + 1 \in RowIds
    BY <1>15, BoundsAssumption DEF RowsCome, PageTypeOK, RowIds
  <2> QED
    BY <1>15, <2>1 DEF RowsCome, PageTypeOK
<1>16. CASE UNCHANGED pageVars
  BY <1>16 DEF PageTypeOK
<1> QED
  BY <1>1, <1>2, <1>3, <1>4, <1>5, <1>6, <1>7, <1>8, <1>9, <1>10, <1>11, <1>12, <1>13, <1>14,
     <1>15, <1>16
     DEF PageNext, ClientStep, SaveStep, ReloadStep, Elsewhere

THEOREM PageTypeCorrect == PageSpec => []PageTypeOK
<1> QED
  BY PageTypeInit, PageTypeNext, PTL DEF PageSpec

-----------------------------------------------------------------------------
(* Notes stay with their transaction.                                      *)

LEMMA OwnInit == PageInit => TextsAreOwn
BY TextAssumption DEF PageInit, TextsAreOwn, Own, Alive, Pending, NoSave, NoReload

\* A flush of a text of the selected transaction.
LEMMA OwnFlush ==
  ASSUME PageTypeOK, TextsAreOwn, NEW text \in Texts, text \in Own(selected), Flush(text),
         UNCHANGED <<server, selected, note, typed>>, timer' = NoTimer
  PROVE  TextsAreOwn'
<1>1. \A t \in PageTxns : Own(t)' = Own(t)
  BY DEF Own
<1>2. selected \in PageTxns
  BY DEF PageTypeOK
<1>3. \A t \in PageTxns : cache'[t] \in Own(t) /\ server'[t] \in Own(t)
  BY <1>2, FlushEffect DEF TextsAreOwn
<1>4. ASSUME NEW n \in Ns, Alive(n)'
      PROVE  /\ save'[n].text \in Own(save'[n].txn)
             /\ save'[n].txn \in PageTxns
             /\ Pending(n)' => \A t \in PageTxns : save'[n].before[t] \in Own(t)
  <2>1. CASE save'[n] = save[n]
    BY <1>4, <2>1, AliveFields DEF TextsAreOwn, Alive, Pending
  <2>2. CASE save'[n] # save[n]
    BY <1>2, <2>2, FlushEffect DEF TextsAreOwn
  <2> QED
    BY <2>1, <2>2
<1>5. reload' = reload \/ reload'.at = "none"
  BY FlushEffect DEF NoReload
<1>6. reload'.at = "read" => \A t \in PageTxns : reload'.items[t] \in Own(t)
  BY <1>5 DEF TextsAreOwn
<1> QED
  BY <1>1, <1>2, <1>3, <1>4, <1>6 DEF TextsAreOwn, Alive

\* A step that types nothing and starts no save.
LEMMA OwnKept ==
  ASSUME TextsAreOwn, typed' = typed,
         note' \in Own(selected)', timer' \in Own(selected)' \cup {NoTimer},
         \A t \in PageTxns : cache'[t] \in Own(t) /\ server'[t] \in Own(t),
         \A m \in Ns : Alive(m)' =>
           Alive(m) /\ save'[m].txn = save[m].txn /\ save'[m].text = save[m].text,
         \A m \in Ns : Pending(m)' => Pending(m) /\ save'[m].before = save[m].before,
         reload' = reload \/ reload'.at # "read"
  PROVE  TextsAreOwn'
<1>1. \A t \in PageTxns : Own(t)' = Own(t)
  BY DEF Own
<1>2. ASSUME NEW m \in Ns, Alive(m)'
      PROVE  save'[m].text \in Own(save[m].txn)' /\ save'[m].txn = save[m].txn
  <2>1. save[m].text \in Own(save[m].txn) /\ save'[m].txn = save[m].txn
        /\ save'[m].text = save[m].text
    BY <1>2 DEF TextsAreOwn
  <2> QED
    BY <2>1 DEF Own
<1>3. ASSUME NEW m \in Ns, Pending(m)', NEW t \in PageTxns
      PROVE  save'[m].before[t] \in Own(t)'
  BY <1>1, <1>3 DEF TextsAreOwn
<1>4. ASSUME reload'.at = "read", NEW t \in PageTxns
      PROVE  reload'.items[t] \in Own(t)'
  BY <1>1, <1>4 DEF TextsAreOwn
<1>5. \A t \in PageTxns : cache'[t] \in Own(t)' /\ server'[t] \in Own(t)'
  BY <1>1
<1> QED
  BY <1>2, <1>3, <1>4, <1>5 DEF TextsAreOwn, Own

LEMMA OwnNext == PageTypeOK /\ TextsAreOwn /\ [PageNext]_pageVars => TextsAreOwn'
<1> SUFFICES ASSUME PageTypeOK, TextsAreOwn, [PageNext]_pageVars
             PROVE  TextsAreOwn'
  OBVIOUS
<1> USE DEF pageVars, mapi, shown, field, counts, pageHist
<1>a. selected \in PageTxns
  BY DEF PageTypeOK
<1>1. CASE Focus
  BY <1>1 DEF Focus, TextsAreOwn, Own, Alive, Pending
<1>2. ASSUME NEW text \in Texts, Type(text)
      PROVE  TextsAreOwn'
  <2>1. \A t \in PageTxns : Own(t) \subseteq Own(t)'
    BY <1>2 DEF Type, PageTypeOK, Own
  <2>2. note' \in Own(selected)' /\ timer' \in Own(selected)' \cup {NoTimer}
    BY <1>a, <1>2, <2>1 DEF Type, PageTypeOK, TextsAreOwn, Own
  <2>3. \A n \in Ns : Alive(n) => save[n].txn \in PageTxns
    BY AliveFields
  <2> QED
    BY <1>2, <2>1, <2>2, <2>3 DEF Type, TextsAreOwn, Alive, Pending
<1>3. CASE DebounceFires
  BY <1>3, OwnFlush DEF DebounceFires, PageTypeOK, TextsAreOwn
<1>4. CASE Blur
  BY <1>4, OwnFlush DEF Blur, PageTypeOK, TextsAreOwn
<1>5. ASSUME NEW t \in PageTxns, Select(t)
      PROVE  TextsAreOwn'
  BY <1>5 DEF Select, Open, TextsAreOwn, Own, Alive, Pending
<1>6. ASSUME NEW n \in Ns, Apply(n) \/ ApplyLate(n)
      PROVE  TextsAreOwn'
  <2>1. Alive(n) /\ server' = [server EXCEPT ![save[n].txn] = save[n].text]
        /\ UNCHANGED <<shown, field, reload, typed>>
    BY <1>6 DEF Apply, ApplyLate, Alive, Pending
  <2>2. \A t \in PageTxns : server'[t] \in Own(t)
    BY <2>1, AliveFields DEF TextsAreOwn, PageTypeOK, Notes
  <2>3. \A m \in Ns :
          /\ Alive(m)' => Alive(m) /\ save'[m].txn = save[m].txn /\ save'[m].text = save[m].text
          /\ Pending(m)' => Pending(m) /\ save'[m].before = save[m].before
    <3>1. CASE Pending(n)
      <4>1. PICK at \in {"applied", "failed"} : save' = [save EXCEPT ![n].at = at]
        BY <1>6, <3>1 DEF Apply, ApplyLate
      <4> QED
        BY <3>1, <4>1, StateOfSave
    <3>2. CASE ~Pending(n)
      <4>1. save' = [save EXCEPT ![n] = [at |-> "done"]]
        BY <1>6, <3>2 DEF Apply, ApplyLate, Pending
      <4> QED
        BY <4>1 DEF Alive, Pending, PageTypeOK
    <3> QED
      BY <3>1, <3>2
  <2> QED
    BY <2>1, <2>2, <2>3, OwnKept DEF TextsAreOwn, Own
<1>7. ASSUME NEW n \in Ns, Fail(n)
      PROVE  TextsAreOwn'
  <2>1. /\ Pending(n)
        /\ \E at \in {"failed", "lost"} : save' = [save EXCEPT ![n].at = at]
        /\ UNCHANGED <<mapi, shown, field, lastSaved, saves, reload, counts, pageHist>>
    BY <1>7 DEF Fail, Pending
  <2>2. \A m \in Ns :
          /\ Alive(m)' => Alive(m) /\ save'[m].txn = save[m].txn /\ save'[m].text = save[m].text
          /\ Pending(m)' => Pending(m) /\ save'[m].before = save[m].before
    BY <2>1, StateOfSave
  <2> QED
    BY <2>1, <2>2, OwnKept DEF TextsAreOwn, Own
<1>8. ASSUME NEW n \in Ns, SettleApplied(n)
      PROVE  TextsAreOwn'
  <2>1. \A m \in Ns :
          /\ Alive(m)' => Alive(m) /\ save'[m].txn = save[m].txn /\ save'[m].text = save[m].text
          /\ Pending(m)' => Pending(m) /\ save'[m].before = save[m].before
    BY <1>8 DEF SettleApplied, Ends, PageTypeOK, Alive, Pending
  <2>2. reload'.at # "read" /\ UNCHANGED <<mapi, shown, field, typed>>
    BY <1>8 DEF SettleApplied
  <2>3. /\ note' \in Own(selected)' /\ timer' \in Own(selected)' \cup {NoTimer}
        /\ \A t \in PageTxns : cache'[t] \in Own(t) /\ server'[t] \in Own(t)
    BY <2>2 DEF TextsAreOwn, Own
  <2> QED
    BY <2>1, <2>2, <2>3, OwnKept
<1>9. ASSUME NEW c \in Notes, NEW ids \in RowIds, Show(c, ids),
             \A t \in PageTxns : c[t] \in Own(t), UNCHANGED typed
      PROVE  /\ note' \in Own(selected)' /\ timer' \in Own(selected)' \cup {NoTimer}
             /\ \A t \in PageTxns : cache'[t] \in Own(t)'
  BY <1>9, ShowEffect DEF TextsAreOwn, Own
<1>10. ASSUME NEW n \in Ns, SettleFailed(n)
      PROVE  TextsAreOwn'
  <2>1. save[n].before \in Notes /\ save[n].rows \in RowIds /\ Pending(n)
    BY <1>10, PendingFields DEF SettleFailed, Pending
  <2>2. Show(save[n].before, save[n].rows) /\ reload'.at = "asked"
        /\ UNCHANGED <<server, typed>>
    BY <1>10 DEF SettleFailed
  <2>3. \A m \in Ns :
          /\ Alive(m)' => Alive(m) /\ save'[m].txn = save[m].txn /\ save'[m].text = save[m].text
          /\ Pending(m)' => Pending(m) /\ save'[m].before = save[m].before
    BY <1>10 DEF SettleFailed, Ends, PageTypeOK, Alive, Pending
  <2>4. /\ note' \in Own(selected)' /\ timer' \in Own(selected)' \cup {NoTimer}
        /\ \A t \in PageTxns : cache'[t] \in Own(t)'
    BY <1>9, <2>1, <2>2 DEF TextsAreOwn
  <2> QED
    BY <2>2, <2>3, <2>4, OwnKept DEF TextsAreOwn, Own
<1>11. CASE ReloadRead
  BY <1>11 DEF ReloadRead, TextsAreOwn, Own, Alive, Pending
<1>12. CASE ReloadShown
  <2>1. reload.items \in Notes /\ reload.rows \in RowIds
    BY <1>12 DEF ReloadShown, PageTypeOK
  <2>2. Show(reload.items, reload.rows) /\ reload'.at = "none" /\ UNCHANGED <<server, typed, save>>
    BY <1>12 DEF ReloadShown, NoReload
  <2>3. /\ note' \in Own(selected)' /\ timer' \in Own(selected)' \cup {NoTimer}
        /\ \A t \in PageTxns : cache'[t] \in Own(t)'
    BY <1>9, <1>12, <2>1, <2>2 DEF ReloadShown, TextsAreOwn
  <2> QED
    BY <2>2, <2>3 DEF TextsAreOwn, Own, Alive, Pending
<1>13. ASSUME NEW x \in PageTxns, NEW text \in Texts, OtherWrites(x, text)
       PROVE  TextsAreOwn'
  <2>1. \A t \in PageTxns : Own(t) \subseteq Own(t)'
    BY <1>13 DEF OtherWrites, PageTypeOK, Own
  <2>2. \A t \in PageTxns : server'[t] \in Own(t)'
    BY <1>13, <2>1 DEF OtherWrites, PageTypeOK, Notes, TextsAreOwn, Own
  <2>3. \A n \in Ns : Alive(n) => save[n].txn \in PageTxns
    BY AliveFields
  <2> QED
    BY <1>13, <1>a, <2>1, <2>2, <2>3 DEF OtherWrites, TextsAreOwn, Alive, Pending
<1>14. CASE RowsGo \/ RowsCome
  BY <1>14 DEF RowsGo, RowsCome, TextsAreOwn, Own, Alive, Pending
<1>15. CASE UNCHANGED pageVars
  BY <1>15 DEF TextsAreOwn, Own, Alive, Pending
<1> QED
  BY <1>1, <1>2, <1>3, <1>4, <1>5, <1>6, <1>7, <1>8, <1>10, <1>11, <1>12, <1>13, <1>14, <1>15
     DEF PageNext, ClientStep, SaveStep, ReloadStep, Elsewhere

\* What mapi stores for a transaction was typed for that transaction, however saves,
\* roll-backs, reloads and changes of the selection overlap.
THEOREM OwnNotes == PageSpec => []NotesStayWithTheirTransaction
<1>1. PageInit => TextsAreOwn /\ PageTypeOK
  BY OwnInit, PageTypeInit
<1>2. TextsAreOwn /\ PageTypeOK /\ [PageNext]_pageVars => (TextsAreOwn /\ PageTypeOK)'
  BY OwnNext, PageTypeNext
<1>3. TextsAreOwn => NotesStayWithTheirTransaction
  BY DEF TextsAreOwn, NotesStayWithTheirTransaction, Own
<1> QED
  BY <1>1, <1>2, <1>3, PTL DEF PageSpec

-----------------------------------------------------------------------------
(* A blur saves.                                                           *)

LEMMA TidyInit == PageInit => PageInv
<1> SUFFICES ASSUME PageInit
             PROVE  PageInv
  OBVIOUS
<1>1. \A t \in PageTxns : OnTheWay(t) = {}
  BY DEF PageInit, OnTheWay, Pending, NoSave
<1>2. \A t \in PageTxns : Tidy(t)
  BY <1>1 DEF PageInit, NoReload, Tidy, OneSave, SavedIsCached, ReadIsStored,
              FieldIsWanted, CachedIsWanted
<1> QED
  BY <1>2, PageTypeInit DEF PageInit, PageInv, UnusedAreAhead

LEMMA UnusedNext == PageTypeOK /\ UnusedAreAhead /\ [PageNext]_pageVars => UnusedAreAhead'
<1> SUFFICES ASSUME PageTypeOK, UnusedAreAhead, [PageNext]_pageVars
             PROVE  UnusedAreAhead'
  OBVIOUS
<1> USE DEF pageVars, mapi, shown, field, counts, pageHist
<1>1. ASSUME NEW text \in Texts, Flush(text)
      PROVE  UnusedAreAhead'
  BY <1>1, FlushEffect, BoundsAssumption DEF UnusedAreAhead, PageTypeOK, Ns
<1>2. CASE DebounceFires \/ Blur
  BY <1>1, <1>2 DEF DebounceFires, Blur, PageTypeOK
<1>3. ASSUME NEW n \in Ns, SaveStep(n)
      PROVE  UnusedAreAhead'
  <2>1. save[n] # NoSave /\ saves' = saves /\ \A m \in Ns \ {n} : save'[m] = save[m]
    BY <1>3 DEF SaveStep, Apply, Fail, SettleApplied, SettleFailed, Ends, NoSave, PageTypeOK
  <2> QED
    BY <2>1 DEF UnusedAreAhead
<1>5. ASSUME NEW n \in Ns, ApplyLate(n)
      PROVE  UnusedAreAhead'
  <2>1. save[n] # NoSave /\ saves' = saves /\ \A m \in Ns \ {n} : save'[m] = save[m]
    BY <1>5 DEF ApplyLate, NoSave, PageTypeOK
  <2> QED
    BY <2>1 DEF UnusedAreAhead
<1>4. CASE UNCHANGED <<save, saves>>
  BY <1>4 DEF UnusedAreAhead
<1> QED
  BY <1>2, <1>3, <1>4, <1>5
     DEF PageNext, ClientStep, ReloadStep, Elsewhere, Focus, Type, Select, ReloadRead, ReloadShown,
         OtherWrites, RowsGo, RowsCome

\* A flush keeps what is said of a transaction that it does not excuse, if nothing is
\* left in the field when the focus goes.
LEMMA TidyFlush ==
  ASSUME PageInv, NEW t \in PageTxns \ excused', NEW text \in Texts, Flush(text),
         UNCHANGED <<server, cacheRows, selected, note, want>>,
         focus' \/ text = note, timer # NoTimer \/ focus
  PROVE  Tidy(t)'
<1>1. t \notin excused /\ (t = selected => OnTheWay(t) = {})
  BY FlushEffect DEF PageInv
<1>2. Tidy(t) /\ PageTypeOK /\ selected \in PageTxns
  BY <1>1 DEF PageInv, PageTypeOK
<1>3. focus /\ cacheRows # NoRows
  BY <1>2 DEF PageTypeOK
<1>4. CASE UNCHANGED <<cache, lastSaved, save, saves, reload>> /\ text = lastSaved
  <2>1. OnTheWay(t)' = OnTheWay(t)
    BY <1>4 DEF OnTheWay, Pending
  <2>2. CachedIsWanted(t)'
    BY <1>1, <1>2, <1>3, <1>4 DEF Tidy, CachedIsWanted, FieldIsWanted
  <2> QED
    BY <1>2, <1>4, <2>1, <2>2
       DEF Tidy, OneSave, SavedIsCached, ReadIsStored, FieldIsWanted
<1>5. CASE saves' = saves + 1
  <2>1. /\ saves + 1 \in Ns /\ saves' \in Ns
        /\ save'[saves + 1].at = "sent" /\ save'[saves + 1].txn = selected
        /\ save'[saves + 1].text = text
        /\ \A m \in Ns \ {saves + 1} : save'[m] = save[m]
        /\ cache'[selected] = text
        /\ \A x \in PageTxns \ {selected} : cache'[x] = cache[x]
        /\ reload'.at = "none"
    BY <1>2, <1>5, FlushEffect DEF NoReload, PageTypeOK
  <2>2. save[saves + 1].at = "unused"
    BY <1>2, <2>1 DEF PageInv, UnusedAreAhead, PageTypeOK, NoSave
  <2>3. CASE t = selected
    <3>1. OnTheWay(t)' = {saves + 1}
      BY <1>1, <2>1, <2>3 DEF OnTheWay, Pending
    <3>2. FieldIsWanted(t)' /\ CachedIsWanted(t)'
      BY <1>2, <1>3, <1>5, <2>1, <2>3, <3>1 DEF Tidy, FieldIsWanted, CachedIsWanted
    <3> QED
      BY <2>1, <2>3, <3>1, <3>2 DEF Tidy, OneSave, SavedIsCached, ReadIsStored
  <2>4. CASE t # selected
    <3>1. OnTheWay(t)' = OnTheWay(t) /\ saves + 1 \notin OnTheWay(t)
      BY <2>1, <2>2, <2>4 DEF OnTheWay, Pending
    <3>2. cache'[t] = cache[t] /\ \A n \in OnTheWay(t) : save'[n] = save[n]
      BY <2>1, <2>4, <3>1 DEF OnTheWay, Pending
    <3> QED
      BY <1>2, <2>1, <2>4, <3>1, <3>2
         DEF Tidy, OneSave, SavedIsCached, ReadIsStored, FieldIsWanted, CachedIsWanted
  <2> QED
    BY <2>3, <2>4
<1> QED
  BY <1>2, <1>4, <1>5, FlushEffect

\* The end of a save, of any transaction, that is not excused.
LEMMA TidySettleApplied ==
  ASSUME PageInv, NEW n \in Ns, SettleApplied(n), NEW t \in PageTxns \ excused'
  PROVE  Tidy(t)'
<1>1. /\ t \notin excused /\ Tidy(t) /\ PageTypeOK
      /\ save[n].at = "applied" /\ save'[n].at = "done"
      /\ \A m \in Ns \ {n} : save'[m] = save[m]
      /\ reload'.at = "asked" /\ saves' = saves
      /\ UNCHANGED <<server, shown, field, want>>
      /\ n = saves /\ t = selected => save[n].txn = t
      /\ lastSaved' = IF n = saves THEN save[n].text ELSE lastSaved
  BY DEF SettleApplied, Ends, PageInv, PageTypeOK, mapi
<1>2. OnTheWay(t)' = OnTheWay(t) \ {n}
  BY <1>1 DEF OnTheWay, Pending
<1>3. \A m \in OnTheWay(t)' : save'[m] = save[m]
  BY <1>1, <1>2 DEF OnTheWay, Pending
<1>4. n \in OnTheWay(t) =>
        OnTheWay(t)' = {} /\ server[t] = cache[t] /\ save[n].text = cache[t]
  BY <1>1, <1>2 DEF Tidy, OneSave, SavedIsCached
<1>5. save[n].txn = t => n \in OnTheWay(t)
  BY <1>1 DEF OnTheWay, Pending
<1>6. FieldIsWanted(t)'
  BY <1>1, <1>2, <1>4, <1>5 DEF Tidy, FieldIsWanted, field, shown
<1> QED
  BY <1>1, <1>2, <1>3, <1>4, <1>6
     DEF Tidy, OneSave, SavedIsCached, ReadIsStored, CachedIsWanted, field, shown

\* Other notes in the cache leave the field of a transaction right: it stays, or what was
\* in it is in the cache.
LEMMA TidyShow ==
  ASSUME PageInv, NEW c \in Notes, NEW ids \in RowIds, Show(c, ids),
         NEW t \in PageTxns \ excused, t \notin TypedIsLost(ids), c[t] = cache[t],
         OnTheWay(t)' = OnTheWay(t), saves' = saves, want' = want
  PROVE  FieldIsWanted(t)' /\ CachedIsWanted(t)'
<1>1. PageTypeOK /\ FieldIsWanted(t) /\ CachedIsWanted(t)
  BY DEF PageInv, Tidy
<1>2. cache'[t] = cache[t] /\ cacheRows' = ids
  BY <1>1, ShowEffect
<1>3. CASE ids = cacheRows
  BY <1>1, <1>2, <1>3, ShowEffect DEF FieldIsWanted, CachedIsWanted, field
<1>4. CASE ids # cacheRows
  <2>1. cache[t] = want[t]
    BY <1>1, <1>4 DEF FieldIsWanted, CachedIsWanted, TypedIsLost, PageTypeOK
  <2>2. CachedIsWanted(t)'
    BY <1>2, <2>1 DEF CachedIsWanted
  <2>3. FieldIsWanted(t)'
    BY <1>1, <1>2, <1>4, <2>1, ShowEffect DEF FieldIsWanted
  <2> QED
    BY <2>2, <2>3
<1> QED
  BY <1>3, <1>4

LEMMA TidySettleFailed ==
  ASSUME PageInv, NEW n \in Ns, SettleFailed(n), NEW t \in PageTxns \ excused'
  PROVE  Tidy(t)'
<1>1. /\ t \notin excused /\ Tidy(t) /\ PageTypeOK
      /\ Pending(n) /\ save'[n].at \in {"done", "late"} /\ save[n].txn # t
      /\ \A m \in Ns \ {n} : save'[m] = save[m]
      /\ save[n].before[t] = cache[t] /\ t \notin TypedIsLost(save[n].rows)
      /\ reload'.at = "asked"
      /\ UNCHANGED <<server, saves, want>>
  BY DEF SettleFailed, Ends, PageInv, PageTypeOK, Pending, mapi
<1>2. OnTheWay(t)' = OnTheWay(t) /\ \A m \in OnTheWay(t) : save'[m] = save[m]
  BY <1>1 DEF OnTheWay, Pending
<1>3. save[n].before \in Notes /\ save[n].rows \in RowIds
  BY <1>1, PendingFields
<1>4. Show(save[n].before, save[n].rows)
  BY DEF SettleFailed
<1>5. FieldIsWanted(t)' /\ CachedIsWanted(t)'
  BY <1>1, <1>2, <1>3, <1>4, TidyShow
<1>6. cache'[t] = cache[t]
  BY <1>1, <1>4 DEF Show
<1> QED
  BY <1>1, <1>2, <1>5, <1>6 DEF Tidy, OneSave, SavedIsCached, ReadIsStored

LEMMA TidyReloadShown ==
  ASSUME PageInv, ReloadShown, NEW t \in PageTxns \ excused'
  PROVE  Tidy(t)'
<1>1. /\ t \notin excused /\ Tidy(t) /\ PageTypeOK
      /\ reload.at = "read" /\ reload.items \in Notes /\ reload.rows \in RowIds
      /\ Show(reload.items, reload.rows)
      /\ reload'.at = "none"
      /\ OnTheWay(t) # {} => cache[t] = reload.items[t]
      /\ t \notin TypedIsLost(reload.rows)
      /\ UNCHANGED <<server, save, saves, want>>
  BY DEF ReloadShown, PageInv, PageTypeOK, NoReload, mapi
<1>2. OnTheWay(t)' = OnTheWay(t)
  BY <1>1 DEF OnTheWay, Pending
<1>3. reload.items[t] = cache[t]
  BY <1>1 DEF Tidy, SavedIsCached, ReadIsStored
<1>4. cache'[t] = cache[t]
  BY <1>1, <1>3 DEF Show
<1>5. FieldIsWanted(t)' /\ CachedIsWanted(t)'
  BY <1>1, <1>2, <1>3, TidyShow
<1> QED
  BY <1>1, <1>2, <1>4, <1>5 DEF Tidy, OneSave, SavedIsCached, ReadIsStored

LEMMA TidyNext ==
  ASSUME PageInv, [PageNext]_pageVars, NEW t \in PageTxns \ excused'
  PROVE  Tidy(t)'
<1> USE DEF pageVars, mapi, shown, field, counts, pageHist
<1>a. PageTypeOK
  BY DEF PageInv
<1>1. CASE Focus
  <2>1. Tidy(t) /\ OnTheWay(t)' = OnTheWay(t)
    BY <1>1 DEF Focus, PageInv, OnTheWay, Pending
  <2> QED
    BY <1>1, <2>1 DEF Focus, Tidy, OneSave, SavedIsCached, ReadIsStored, FieldIsWanted,
                      CachedIsWanted
<1>2. ASSUME NEW text \in Texts, Type(text)
      PROVE  Tidy(t)'
  <2>1. Tidy(t) /\ OnTheWay(t)' = OnTheWay(t)
    BY <1>2 DEF Type, PageInv, OnTheWay, Pending
  <2>2. want'[t] = IF t = selected THEN text ELSE want[t]
    BY <1>2, <1>a DEF Type, PageTypeOK, Notes
  <2> QED
    BY <1>2, <2>1, <2>2 DEF Type, Tidy, OneSave, SavedIsCached, ReadIsStored, FieldIsWanted,
                            CachedIsWanted
<1>3. CASE DebounceFires
  <2>1. focus /\ timer \in Texts
    BY <1>3, <1>a DEF DebounceFires, PageTypeOK
  <2> QED
    BY <1>3, <2>1, TidyFlush DEF DebounceFires
<1>4. CASE Blur
  BY <1>4, <1>a, TidyFlush DEF Blur, PageTypeOK
<1>5. ASSUME NEW x \in PageTxns, Select(x)
      PROVE  Tidy(t)'
  <2>1. Tidy(t) /\ OnTheWay(t)' = OnTheWay(t)
    BY <1>5 DEF Select, Open, PageInv, OnTheWay, Pending
  <2> QED
    BY <1>5, <2>1 DEF Select, Open, Tidy, OneSave, SavedIsCached, ReadIsStored, FieldIsWanted,
                      CachedIsWanted
<1>6. ASSUME NEW n \in Ns, Apply(n)
      PROVE  Tidy(t)'
  <2>1. /\ Tidy(t) /\ Pending(n)
        /\ save[n].at = "sent" /\ save'[n].at = "applied"
        /\ save'[n].txn = save[n].txn /\ save'[n].text = save[n].text
        /\ \A m \in Ns \ {n} : save'[m] = save[m]
        /\ server'[t] = IF save[n].txn = t THEN save[n].text ELSE server[t]
        /\ UNCHANGED <<shown, field, lastSaved, saves, reload, want>>
    BY <1>6, <1>a, PendingFields DEF Apply, PageInv, Pending, PageTypeOK, Notes
  <2>2. OnTheWay(t)' = OnTheWay(t) /\ (n \in OnTheWay(t) <=> save[n].txn = t)
    BY <2>1 DEF OnTheWay, Pending
  <2>3. \A m \in OnTheWay(t) : m # n => save'[m] = save[m]
    BY <2>1 DEF OnTheWay, Pending
  <2> QED
    BY <2>1, <2>2, <2>3 DEF Tidy, OneSave, SavedIsCached, ReadIsStored, FieldIsWanted,
                            CachedIsWanted
<1>7. ASSUME NEW n \in Ns, Fail(n)
      PROVE  Tidy(t)'
  <2>1. PICK at \in {"failed", "lost"} :
          save' = [save EXCEPT ![n].at = at] /\ (save[n].at = "sent" \/ at = "failed")
    BY <1>7 DEF Fail
  <2>a. /\ Tidy(t) /\ Pending(n) /\ save'[n].at = at
        /\ save'[n].txn = save[n].txn /\ save'[n].text = save[n].text
        /\ \A m \in Ns \ {n} : save'[m] = save[m]
        /\ UNCHANGED <<server, shown, field, lastSaved, saves, reload, want>>
    <3>1. Pending(n) /\ UNCHANGED <<server, shown, field, lastSaved, saves, reload, want>> /\ Tidy(t)
      BY <1>7 DEF Fail, PageInv, Pending
    <3> QED
      BY <1>a, <2>1, <3>1, StateOfSave
  <2>2. OnTheWay(t)' = OnTheWay(t)
    BY <2>a DEF OnTheWay, Pending
  <2>3. \A m \in OnTheWay(t) : m # n => save'[m] = save[m]
    BY <2>a DEF OnTheWay, Pending
  <2> QED
    BY <2>1, <2>a, <2>2, <2>3 DEF Tidy, OneSave, SavedIsCached, ReadIsStored, FieldIsWanted,
                            CachedIsWanted
<1>8. CASE ReloadRead
  <2>1. Tidy(t) /\ OnTheWay(t)' = OnTheWay(t) /\ reload'.items = server
    BY <1>8 DEF ReloadRead, PageInv, OnTheWay, Pending
  <2> QED
    BY <1>8, <2>1 DEF ReloadRead, Tidy, OneSave, SavedIsCached, ReadIsStored, FieldIsWanted,
                      CachedIsWanted
<1>9. ASSUME NEW n \in Ns, ApplyLate(n)
      PROVE  Tidy(t)'
  <2>1. /\ Tidy(t) /\ Alive(n) /\ save[n].txn # t
        /\ UNCHANGED <<shown, field, lastSaved, saves, reload, want>>
    BY <1>9 DEF ApplyLate, PageInv, Alive, Pending
  <2>2. server'[t] = server[t]
    BY <1>9, <1>a, <2>1, AliveFields DEF ApplyLate, PageTypeOK, Notes
  <2>3. \A m \in Ns \ {n} : save'[m] = save[m]
    BY <1>9, <1>a DEF ApplyLate, PageTypeOK
  <2>4. save'[n].at = "done" \/ save'[n].txn = save[n].txn
    BY <1>9, <1>a, PendingFields DEF ApplyLate, PageTypeOK
  <2>5. OnTheWay(t)' = OnTheWay(t) /\ \A m \in OnTheWay(t) : save'[m] = save[m]
    BY <2>1, <2>3, <2>4 DEF OnTheWay, Pending
  <2> QED
    BY <2>1, <2>2, <2>5 DEF Tidy, OneSave, SavedIsCached, ReadIsStored, FieldIsWanted,
                            CachedIsWanted
<1>10. ASSUME NEW x \in PageTxns, NEW text \in Texts, OtherWrites(x, text)
       PROVE  Tidy(t)'
  <2>1. /\ Tidy(t) /\ server'[t] = server[t] /\ OnTheWay(t)' = OnTheWay(t)
        /\ UNCHANGED <<shown, field, lastSaved, save, saves, reload, want>>
    BY <1>10, <1>a DEF OtherWrites, PageInv, PageTypeOK, Notes, OnTheWay, Pending
  <2> QED
    BY <2>1 DEF Tidy, OneSave, SavedIsCached, ReadIsStored, FieldIsWanted, CachedIsWanted
<1>11. CASE RowsGo \/ RowsCome
  <2>1. /\ Tidy(t) /\ OnTheWay(t)' = OnTheWay(t)
        /\ UNCHANGED <<server, shown, field, lastSaved, save, saves, reload, want>>
    BY <1>11 DEF RowsGo, RowsCome, PageInv, OnTheWay, Pending
  <2> QED
    BY <2>1 DEF Tidy, OneSave, SavedIsCached, ReadIsStored, FieldIsWanted, CachedIsWanted
<1>12. CASE UNCHANGED pageVars
  BY <1>12 DEF PageInv, Tidy, OneSave, SavedIsCached, ReadIsStored, FieldIsWanted,
              CachedIsWanted, OnTheWay, Pending
<1> QED
  BY <1>1, <1>2, <1>3, <1>4, <1>5, <1>6, <1>7, <1>8, <1>9, <1>10, <1>11, <1>12,
     TidySettleApplied, TidySettleFailed, TidyReloadShown
     DEF PageNext, ClientStep, SaveStep, ReloadStep, Elsewhere

\* Without the focus and with no save on its way, mapi has the text typed last, unless
\* one of the named races or failures befell the transaction.
THEOREM BlurHasSaved == PageSpec => []BlurSaves
<1>1. PageInv /\ [PageNext]_pageVars => PageInv'
  BY PageTypeNext, UnusedNext, TidyNext DEF PageInv
<1>2. PageInv => BlurSaves
  BY DEF PageInv, BlurSaves, AtRest, Tidy, SavedIsCached, CachedIsWanted
<1> QED
  BY TidyInit, <1>1, <1>2, PTL DEF PageSpec

-----------------------------------------------------------------------------
(* The page shows what mapi has.                                           *)

\* With no save on its way and no reload asked for, the page shows what mapi has, except
\* for what changed behind its back; a list that was read then has that, too.  This is the
\* safety part of ShowsServerInTheEnd: no roll-back, late callback or cancelled reload
\* leaves the page with something else and nobody left to correct it.
RestShowsServer ==
  AtRest =>
    /\ reload.at = "none" => ShowsServer
    /\ reload.at = "read" =>
         /\ \A t \in PageTxns \ unseen : reload.items[t] = server[t]
         /\ unseen = PageTxns \/ reload.rows = rows

\* Whatever the overlaps of saves, failures, reloads and syncs: the cache that
\* useSavePublicNote writes to is never left different from mapi by the page's own doing
\* with nobody to correct it.
THEOREM RestIsConsistent == PageSpec => []RestShowsServer
<1> USE DEF pageVars, mapi, shown, field, counts, pageHist
<1>1. PageInit => RestShowsServer
  BY DEF PageInit, RestShowsServer, ShowsServer, NoReload
<1>2. ASSUME PageTypeOK, RestShowsServer, [PageNext]_pageVars
      PROVE  RestShowsServer'
  <2>1. ASSUME NEW text \in Texts, Flush(text), UNCHANGED <<mapi, cacheRows, unseen>>
        PROVE  RestShowsServer'
    <3>1. CASE UNCHANGED <<cache, save, reload>>
      BY <1>2, <2>1, <3>1 DEF RestShowsServer, ShowsServer, AtRest, OnTheWay, Pending
    <3>2. CASE saves + 1 \in Ns /\ save'[saves + 1].at = "sent" /\ save'[saves + 1].txn = selected
      BY <1>2, <2>1, <3>2 DEF RestShowsServer, AtRest, OnTheWay, Pending, PageTypeOK, Flush
    <3>3. UNCHANGED <<cache, save, reload>>
          \/ (saves + 1 \in Ns /\ save'[saves + 1].at = "sent" /\ save'[saves + 1].txn = selected)
      BY <1>2, <2>1, FlushEffect
    <3> QED
      BY <3>1, <3>2, <3>3
  <2>2. CASE DebounceFires \/ Blur
    BY <1>2, <2>1, <2>2 DEF DebounceFires, Blur, PageTypeOK
  <2>3. ASSUME NEW n \in Ns, NEW at \in {"applied", "failed", "lost"}, Pending(n),
               save' = [save EXCEPT ![n].at = at]
        PROVE  RestShowsServer'
    <3>1. save[n].txn \in PageTxns /\ Pending(n)' /\ save'[n].txn = save[n].txn
      BY <1>2, <2>3, PendingFields, StateOfSave
    <3>2. ~AtRest'
      BY <3>1 DEF AtRest, OnTheWay
    <3> QED
      BY <3>2 DEF RestShowsServer
  <2>4. ASSUME NEW n \in Ns, Apply(n) \/ Fail(n)
        PROVE  RestShowsServer'
    BY <2>3, <2>4 DEF Apply, Fail, Pending
  <2>5. ASSUME NEW n \in Ns, SettleApplied(n) \/ SettleFailed(n)
        PROVE  RestShowsServer'
    BY <2>5 DEF SettleApplied, SettleFailed, RestShowsServer
  <2>6. CASE ReloadRead
    BY <2>6 DEF ReloadRead, RestShowsServer
  <2>7. CASE ReloadShown
    <3>1. /\ reload.at = "read" /\ reload'.at = "none"
          /\ cache' = reload.items /\ cacheRows' = reload.rows
          /\ UNCHANGED <<server, rows, save, unseen>>
      BY <2>7 DEF ReloadShown, Show, NoReload
    <3>2. AtRest' => AtRest
      BY <3>1 DEF AtRest, OnTheWay, Pending
    <3>3. ASSUME AtRest
          PROVE  /\ \A t \in PageTxns \ unseen : cache'[t] = server'[t]
                 /\ unseen = PageTxns \/ cacheRows' = rows'
      BY <1>2, <3>1, <3>3 DEF RestShowsServer
    <3>4. AtRest' => ShowsServer'
      BY <3>1, <3>2, <3>3 DEF ShowsServer
    <3> QED
      BY <3>1, <3>4 DEF RestShowsServer
  <2>8. ASSUME NEW n \in Ns, ApplyLate(n)
        PROVE  RestShowsServer'
    <3>1. CASE Pending(n)
      BY <2>3, <2>8, <3>1 DEF ApplyLate
    <3>2. CASE ~Pending(n)
      <4>1. Alive(n) /\ save[n].txn \in PageTxns
        BY <1>2, <2>8, AliveFields DEF ApplyLate, Alive, Pending
      <4>2. /\ \A t \in PageTxns : t # save[n].txn => server'[t] = server[t]
            /\ unseen' = unseen \cup {save[n].txn}
            /\ UNCHANGED <<rows, shown, reload>>
        BY <1>2, <2>8 DEF ApplyLate, PageTypeOK, Notes
      <4>3. AtRest' => AtRest
        BY <1>2, <2>8, <3>2 DEF ApplyLate, AtRest, OnTheWay, Pending, PageTypeOK
      <4> QED
        BY <1>2, <4>1, <4>2, <4>3 DEF RestShowsServer, ShowsServer, PageTypeOK
    <3> QED
      BY <3>1, <3>2
  <2>9. ASSUME NEW t \in PageTxns, NEW text \in Texts, OtherWrites(t, text)
        PROVE  RestShowsServer'
    <3>1. /\ \A x \in PageTxns : x # t => server'[x] = server[x]
          /\ unseen' = unseen \cup {t}
          /\ UNCHANGED <<rows, shown, reload, save>>
      BY <1>2, <2>9 DEF OtherWrites, PageTypeOK, Notes
    <3> QED
      BY <1>2, <3>1 DEF RestShowsServer, ShowsServer, PageTypeOK, AtRest, OnTheWay, Pending
  <2>10. CASE RowsGo \/ RowsCome
    BY <1>2, <2>10 DEF RowsGo, RowsCome, RestShowsServer, ShowsServer, AtRest, OnTheWay, Pending
  <2>11. CASE UNCHANGED <<mapi, shown, save, reload, unseen>>
    BY <1>2, <2>11 DEF RestShowsServer, ShowsServer, AtRest, OnTheWay, Pending
  <2> QED
    BY <1>2, <2>2, <2>4, <2>5, <2>6, <2>7, <2>8, <2>9, <2>10, <2>11
       DEF PageNext, ClientStep, SaveStep, ReloadStep, Elsewhere, Focus, Type, Select
<1> QED
  BY <1>1, <1>2, PageTypeInit, PageTypeNext, PTL DEF PageSpec
==============================================================================
