--------------------------- MODULE CustomerSupport ---------------------------
(***************************************************************************)
(* Customer support of mapi (modules/12-customer-support): the snapshot of *)
(* a client's uncategorized transactions, which a sync takes from a report *)
(* of QuickBooks; the answers of the client and of the operators; the      *)
(* writeback of an answer to QuickBooks; and the mark that every           *)
(* transaction of the period was answered.                                 *)
(*                                                                         *)
(* One client, one period, and syncs of that period.  Each statement and   *)
(* each call of Intuit is a step, and any of them may be the last.         *)
(***************************************************************************)
EXTENDS Naturals, FiniteSets

CONSTANTS
  Txns,       \* transactions of the period in QuickBooks
  Requests,   \* requests that save or delete an answer, made once each (bound)
  Syncs,      \* syncs, run once each (bound)
  Updates,    \* updates of the follow-up, made once each (bound)
  Edits       \* changes that bookkeepers make in QuickBooks (bound)

ASSUME DistinctAssumption == Requests \cap Edits = {}
ASSUME FiniteAssumption == IsFiniteSet(Txns)

VARIABLES
  books,    \* books[t]: the object in QuickBooks
  row,      \* row[t]: the row of t in the snapshot, as a set: none, or the one
  answer,   \* answer[t]: the row of client_transaction_responses
  full,     \* last_fully_responded_at of the period's follow-up is set
  req,      \* req[r]: a run of saveResponse or of softDeleteByTxnId
  sync,     \* sync[y]: a run of syncFromQbo
  update,   \* update[u]: a run of ClientPeriodFollowupsService.update
  overlap,  \* history: syncs that ran while another one was running
  edited    \* history: transactions whose note was saved again after it was marked as
            \* synced, or while the writeback of another save was on its way

base == <<row, answer, full>>
hist == <<overlap, edited>>
vars == <<books, base, req, sync, update, hist>>

\* The account of a transaction: one of the two for uncategorized transactions, the one
\* to ask the accountant, or one of the books, with which no report has it any more.
Categories == {"uncat", "ask"}
Accounts == Categories \cup {"books"}

\* What the SyncToken stands for and what the object holds: the changes made.
Object == [account : Accounts, token : Nat, changes : SUBSET (Edits \cup Requests)]
Row == [sync : Syncs, category : Categories]
\* by: the request whose note it has, as a set; category: the one of the row it was for.
Answer == [state : {"none", "there", "deleted"}, completed : BOOLEAN, category : Categories,
           synced : BOOLEAN, by : SUBSET Requests]

\* A save or a deletion; qbo: the operator asks for a writeback and gives an account.
Kinds == [erase : {TRUE}, completed : {FALSE}, qbo : {FALSE}]
           \cup [erase : {FALSE}, completed : BOOLEAN, qbo : BOOLEAN]
ReqType ==
  [at : {"idle", "done"}]
    \cup [at : {"found"}, txn : Txns, kind : Kinds, category : Categories]
    \cup [at : {"saved"}, txn : Txns, qbo : BOOLEAN]
    \cup [at : {"getting", "marking"}, txn : Txns]
    \cup [at : {"posting"}, txn : Txns, object : Object]
SyncType == [at : {"idle", "done", "fetching"}]
              \cup [at : {"fetched", "deleted"}, report : [Txns -> Accounts]]

TypeOK ==
  /\ books \in [Txns -> Object]
  /\ row \in [Txns -> {{}} \cup {{x} : x \in Row}]
  /\ answer \in [Txns -> Answer]
  /\ full \in BOOLEAN
  /\ req \in [Requests -> ReqType]
  /\ sync \in [Syncs -> SyncType]
  /\ update \in [Updates -> [at : {"idle", "done"}] \cup [at : {"read"}, full : BOOLEAN]]
  /\ overlap \subseteq Syncs
  /\ edited \subseteq Txns
  /\ \A t \in Txns : answer[t].synced => answer[t].state # "none"

Idle == [at |-> "idle"]
Done == [at |-> "done"]
NoAnswer ==
  [state |-> "none", completed |-> FALSE, category |-> "uncat", synced |-> FALSE, by |-> {}]

\* A month before its first sync; the follow-up exists (without it no mark).
Init ==
  /\ books = [t \in Txns |-> [account |-> "uncat", token |-> 0, changes |-> {}]]
  /\ row = [t \in Txns |-> {}]
  /\ answer = [t \in Txns |-> NoAnswer]
  /\ full = FALSE
  /\ req = [r \in Requests |-> Idle]
  /\ sync = [y \in Syncs |-> Idle]
  /\ update = [u \in Updates |-> Idle]
  /\ overlap = {} /\ edited = {}

Snapshot == {t \in Txns : row[t] # {}}
Uncats == {t \in Txns : \E x \in row[t] : x.category = "uncat"}
Running == {y \in Syncs : sync[y].at \notin {"idle", "done"}}

\* The row of t that the report of y comes to.
RowsOf(y, t) ==
  IF sync[y].report[t] \in Categories THEN {[sync |-> y, category |-> sync[y].report[t]]} ELSE {}

-----------------------------------------------------------------------------
(* Variants with a plausible slip, for mutation testing.                   *)

DeleteReportedOnly(y) ==
  /\ sync[y].at = "fetched"
  /\ row' = [t \in Txns |-> IF sync[y].report[t] \in Categories THEN {} ELSE row[t]]
  /\ sync' = [sync EXCEPT ![y].at = "deleted"]
  /\ UNCHANGED <<books, answer, full, req, update, hist>>
InsertRowsTwice(y) ==
  /\ sync[y].at = "deleted"
  /\ row' = [t \in Txns |-> row[t] \cup RowsOf(y, t)]
  /\ sync' = [sync EXCEPT ![y] = [at |-> "done"]]
  /\ UNCHANGED <<books, answer, full, req, update, hist>>
MarkBeforeWriteback(r) ==
  /\ req[r].at = "getting"
  /\ req' = [req EXCEPT ![r].at = "marking"]
  /\ UNCHANGED <<books, base, sync, update, hist>>
AcceptedWithoutToken(t, object) == object \in Object
AnsweredInAnyCategory(t) == answer[t].state = "there" /\ answer[t].completed

-----------------------------------------------------------------------------
(* QuickBooks.                                                             *)

\* A bookkeeper edits a transaction, and may give it another account.
Edit(e, t) ==
  /\ \A x \in Txns : e \notin books[x].changes
  /\ \E account \in Accounts :
       books' = [books EXCEPT ![t] = [account |-> account, token |-> @.token + 1,
                                      changes |-> @.changes \cup {e}]]
  /\ UNCHANGED <<base, req, sync, update, hist>>

\* An update is accepted with the SyncToken of the object as it is now.
Accepted(t, object) == object.token = books[t].token

-----------------------------------------------------------------------------
(* syncFromQbo.                                                            *)

StartSync(y) ==
  /\ sync[y].at = "idle"
  /\ sync' = [sync EXCEPT ![y] = [at |-> "fetching"]]
  /\ overlap' = IF Running = {} THEN overlap ELSE overlap \cup Running \cup {y}
  /\ UNCHANGED <<books, base, req, update, edited>>

\* The report, filtered by account: what is uncategorized or to be asked now.
Fetch(y) ==
  /\ sync[y].at = "fetching"
  /\ sync' = [sync EXCEPT ![y] = [at |-> "fetched",
                                          report |-> [t \in Txns |-> books[t].account]]]
  /\ UNCHANGED <<books, base, req, update, hist>>

DeleteRows(y) ==
  /\ sync[y].at = "fetched"
  /\ row' = [t \in Txns |-> {}]
  /\ sync' = [sync EXCEPT ![y].at = "deleted"]
  /\ UNCHANGED <<books, answer, full, req, update, hist>>

\* One INSERT, which the unique index refuses as a whole when another sync has
\* inserted one of its transactions in between.
InsertRows(y) ==
  /\ sync[y].at = "deleted"
  /\ row' = IF \E t \in Snapshot : RowsOf(y, t) # {}
            THEN row
            ELSE [t \in Txns |-> row[t] \cup RowsOf(y, t)]
  /\ sync' = [sync EXCEPT ![y] = Done]
  /\ UNCHANGED <<books, answer, full, req, update, hist>>

\* deleteOne, by an operator.
DeleteRow(t) ==
  /\ row[t] # {}
  /\ row' = [row EXCEPT ![t] = {}]
  /\ UNCHANGED <<books, answer, full, req, sync, update, hist>>

-----------------------------------------------------------------------------
(* saveResponse and softDeleteByTxnId.                                     *)

\* The row with the id of the request is there; otherwise it is answered 404.  What the
\* public page sends for an uncategorized row (neither completed nor qbo, or a
\* deletion), an operator may send for any.
Find(r, t, kind) ==
  /\ req[r].at = "idle"
  /\ \E x \in row[t] :
       req' = [req EXCEPT ![r] =
                 [at |-> "found", txn |-> t, kind |-> kind, category |-> x.category]]
  /\ UNCHANGED <<books, base, sync, update, hist>>

\* A request that has saved its answer and is to write it to QuickBooks.
Writing(q) ==
  \/ req[q].at = "saved" /\ req[q].qbo
  \/ req[q].at \in {"getting", "posting", "marking"}

\* The upsert: an answer that was deleted comes back; note, completed and category are
\* overwritten, synced_to_qbo_at is kept.
Upsert(r) ==
  LET t == req[r].txn IN
  /\ req[r].at = "found" /\ ~req[r].kind.erase
  /\ answer' = [answer EXCEPT ![t] =
       [state |-> "there", completed |-> req[r].kind.completed, category |-> req[r].category,
        synced |-> @.synced, by |-> {r}]]
  /\ edited' = IF answer[t].synced \/ \E q \in Requests \ {r} : Writing(q) /\ req[q].txn = t
               THEN edited \cup {t} ELSE edited
  /\ req' = [req EXCEPT ![r] = [at |-> "saved", txn |-> t, qbo |-> @.kind.qbo]]
  /\ UNCHANGED <<books, row, full, sync, update, overlap>>

\* The UPDATE of a deletion, and the mark after it: it ends there with no answer.
Erase(r) ==
  LET t == req[r].txn  there == answer[t].state = "there" IN
  /\ req[r].at = "found" /\ req[r].kind.erase
  /\ answer' = IF there THEN [answer EXCEPT ![t].state = "deleted"] ELSE answer
  /\ req' = [req EXCEPT ![r] = IF there THEN [at |-> "saved", txn |-> t, qbo |-> FALSE] ELSE Done]
  /\ UNCHANGED <<books, row, full, sync, update, hist>>

\* maybeMarkFullyResponded counts the uncategorized rows, and the answers given to such.
Answered(t) == answer[t].state = "there" /\ answer[t].completed /\ answer[t].category = "uncat"
AllAnswered ==
  LET rows == Cardinality(Uncats) IN
  rows > 0 /\ rows <= Cardinality({t \in Txns : Answered(t)})

Mark(r) ==
  /\ req[r].at = "saved"
  /\ full' = (full \/ AllAnswered)
  /\ req' = [req EXCEPT ![r] = IF @.qbo THEN [at |-> "getting", txn |-> @.txn] ELSE Done]
  /\ UNCHANGED <<books, row, answer, sync, update, hist>>

-----------------------------------------------------------------------------
(* QboWritebackService.writeback.  A failure at any step leaves the answer *)
(* saved (see Dies).                                                       *)

GetObject(r) ==
  /\ req[r].at = "getting"
  /\ req' = [req EXCEPT ![r] = [at |-> "posting", txn |-> @.txn, object |-> books[@.txn]]]
  /\ UNCHANGED <<books, base, sync, update, hist>>

\* mergeChanges: the whole object as it was read, with the note and an account of the
\* books (an operator may give any; one that reports the transaction again is left out).
PostObject(r) ==
  LET t == req[r].txn  object == req[r].object IN
  /\ req[r].at = "posting"
  /\ IF Accepted(t, object)
     THEN /\ books' = [books EXCEPT ![t] =
                         [account |-> "books", token |-> @.token + 1,
                          changes |-> object.changes \cup {r}]]
          /\ \/ req' = [req EXCEPT ![r] = [at |-> "marking", txn |-> t]]
             \/ req' = [req EXCEPT ![r] = Done]  \* the answer of Intuit is lost
     ELSE req' = [req EXCEPT ![r] = Done] /\ UNCHANGED books
  /\ UNCHANGED <<base, sync, update, hist>>

MarkSynced(r) ==
  /\ req[r].at = "marking"
  /\ answer' = [answer EXCEPT ![req[r].txn].synced = TRUE]
  /\ req' = [req EXCEPT ![r] = Done]
  /\ UNCHANGED <<books, row, full, sync, update, hist>>

-----------------------------------------------------------------------------
(* ClientPeriodFollowupsService.update: it writes back every field that it *)
(* was not given, the mark among them, as it read them.                    *)

ReadFollowup(u) ==
  /\ update[u].at = "idle"
  /\ update' = [update EXCEPT ![u] = [at |-> "read", full |-> full]]
  /\ UNCHANGED <<books, base, req, sync, hist>>

WriteFollowup(u) ==
  /\ update[u].at = "read"
  /\ full' = update[u].full
  /\ update' = [update EXCEPT ![u] = Done]
  /\ UNCHANGED <<books, row, answer, req, sync, hist>>

-----------------------------------------------------------------------------
\* Intuit or the database fails, or mapi stops: nothing is rolled back.
RequestDies(r) ==
  /\ req[r].at \notin {"idle", "done"}
  /\ req' = [req EXCEPT ![r] = Done]
  /\ UNCHANGED <<books, base, sync, update, hist>>

SyncDies(y) ==
  /\ y \in Running
  /\ sync' = [sync EXCEPT ![y] = Done]
  /\ UNCHANGED <<books, base, req, update, hist>>

RequestStep(r) ==
  \/ \E t \in Txns, kind \in Kinds : Find(r, t, kind)
  \/ Upsert(r) \/ Erase(r) \/ Mark(r) \/ GetObject(r) \/ PostObject(r) \/ MarkSynced(r) \/ RequestDies(r)
SyncStep(y) == StartSync(y) \/ Fetch(y) \/ DeleteRows(y) \/ InsertRows(y) \/ SyncDies(y)

Next ==
  \/ \E e \in Edits, t \in Txns : Edit(e, t)
  \/ \E y \in Syncs : SyncStep(y)
  \/ \E t \in Txns : DeleteRow(t)
  \/ \E r \in Requests : RequestStep(r)
  \/ \E u \in Updates : ReadFollowup(u) \/ WriteFollowup(u)

Spec == Init /\ [][Next]_vars

-----------------------------------------------------------------------------
(* Properties.                                                             *)

\* Rows of two syncs stand beside each other only when the two ran at the same
\* time, or one of them beside a third: without a transaction around DELETE and
\* INSERT this is all that holds.  Syncs one after the other leave one report.
MixedOnlyByOverlap ==
  \A a, b \in UNION {row[t] : t \in Txns} : a.sync = b.sync \/ {a.sync, b.sync} \subseteq overlap

\* What a bookkeeper did in QuickBooks between the GET and the POST of a writeback
\* survives it, and so do the writebacks of other requests; and a request is written
\* to one transaction, once: GET, merge and POST with the SyncToken come to one step.
Books == INSTANCE Ledger WITH
  Changes <- Edits \cup Requests,
  made <- [t \in Txns |-> books[t].changes]
WritesAreAtomic == Books!Spec

\* The note of an answer marked as synced stands in QuickBooks, whatever failed, was
\* answered late or saved and deleted meanwhile; all that breaks it is a note saved over
\* one that was synced or about to be, which keeps the mark of the other.
SyncedNoteIsPosted ==
  \A t \in Txns \ edited : answer[t].synced => answer[t].by \subseteq books[t].changes

\* The month is marked as fully answered with an uncategorized row that has no completed
\* answer only if answers given to uncategorized rows that the snapshot does not have any
\* more (the row is gone, or is one to ask the accountant now) make up for it.
Complete == {t \in Txns : /\ answer[t].state = "there" /\ answer[t].completed
                          /\ answer[t].category = "uncat"}
MarkCountsOrphansOnly ==
  [][~full /\ full' =>
       \/ Uncats \subseteq Complete
       \/ ~(Complete \subseteq Uncats)
       \/ \E u \in Updates : update[u] # update'[u]]_vars
==============================================================================
