----------------------------- MODULE PublicNotes -----------------------------
(***************************************************************************)
(* The page on which a client answers (bvcpas, modules/16-public-uncats):  *)
(* the text field of the selected transaction with its autosave, the cache *)
(* of the query with optimistic updates, the saves on their way to mapi,   *)
(* and what mapi has stored.                                               *)
(*                                                                         *)
(* A step of the page is an event handler with the effects React runs      *)
(* after it.  Saves run in parallel: mapi may apply them in any order, and *)
(* any of them may fail, or be applied without the page learning of it or  *)
(* after the page gave up on it.  Meanwhile a sync gives all transactions  *)
(* new rows, and others write notes: another tab, an operator.             *)
(*                                                                         *)
(* No name here is one of CustomerSupport, which models what the page      *)
(* calls: one module may extend both, as CustomerSupport_proof does.       *)
(***************************************************************************)
EXTENDS Naturals

CONSTANTS
  PageTxns,  \* transactions on the page
  Texts,     \* texts of a note, trimmed
  Empty,     \* no note
  NoTimer,   \* no debounce is pending
  MaxSaves,  \* saves that the page starts (bound)
  MaxEdits,  \* edits of the field (bound)
  MaxLists,  \* times the transactions get rows (bound)
  MaxOthers  \* notes that others write (bound)

ASSUME TextAssumption == Empty \in Texts /\ NoTimer \notin Texts
ASSUME BoundsAssumption ==
  PageTxns # {} /\ {MaxSaves, MaxEdits, MaxOthers} \subseteq Nat /\ MaxLists \in Nat \ {0}

VARIABLES
  server,     \* server[t]: the note mapi has for t
  rows,       \* the sync whose rows are in the snapshot, by its number, or NoRows
  lists,      \* times the transactions got rows so far
  cache,      \* cache[t]: the note of t in the query cache
  cacheRows,  \* the rows of the cache, whose ids the page selects and saves by
  selected,   \* the transaction of the detail
  note,       \* the text in the field
  focus,      \* the field has the focus
  lastSaved,  \* lastSavedRef
  timer,      \* the text that the pending debounce has closed over
  save,       \* save[n]: the n-th call of mutate
  saves,      \* calls of mutate so far; the observer knows the last one
  reload,     \* the refetch of the list
  edits,      \* edits so far
  others,     \* notes written by others so far
  typed,      \* history: texts typed for a transaction, here or elsewhere
  want,       \* history: the text typed last for a transaction
  excused,    \* history: transactions whose last text may be missing in mapi
  unseen      \* history: transactions changed behind the page's back since its last reload

mapi == <<server, rows, lists>>
shown == <<cache, cacheRows>>
field == <<selected, note, focus, timer>>
counts == <<edits, others>>
pageHist == <<typed, want, excused, unseen>>
pageVars == <<mapi, shown, field, lastSaved, save, saves, reload, counts, pageHist>>

Ns == 1 .. MaxSaves
Notes == [PageTxns -> Texts]
NoSave == [at |-> "unused"]
NoReload == [at |-> "none"]
NoRows == 0
RowIds == 0 .. MaxLists

\* "failed": mapi has carried it out or never will, the page knows of a failure; "lost":
\* the page knows of a failure, mapi may yet carry it out, and "late" when the page is
\* done with it.
SaveType == [at : {"unused", "done"}]
  \cup [at : {"sent", "applied", "failed", "lost"},
        txn : PageTxns, text : Texts, rows : RowIds, before : Notes]
  \cup [at : {"late"}, txn : PageTxns, text : Texts, rows : RowIds]

PageTypeOK ==
  /\ server \in Notes /\ cache \in Notes
  /\ rows \in RowIds /\ lists \in RowIds /\ cacheRows \in RowIds
  /\ selected \in PageTxns /\ note \in Texts /\ focus \in BOOLEAN
  /\ lastSaved \in Texts
  /\ timer \in Texts \cup {NoTimer}
  /\ save \in [Ns -> SaveType] /\ saves \in 0 .. MaxSaves
  /\ reload \in [at : {"none", "asked"}] \cup [at : {"read"}, items : Notes, rows : RowIds]
  /\ edits \in 0 .. MaxEdits /\ others \in 0 .. MaxOthers
  /\ typed \in [PageTxns -> SUBSET Texts] /\ want \in Notes
  /\ excused \subseteq PageTxns /\ unseen \subseteq PageTxns
  /\ timer # NoTimer => focus
  /\ focus => cacheRows # NoRows

\* The list was loaded and shows its first transaction; nothing is answered.
PageInit ==
  /\ server = [t \in PageTxns |-> Empty]
  /\ rows = 1 /\ lists = 1
  /\ cache = server /\ cacheRows = rows
  /\ selected \in PageTxns
  /\ note = Empty /\ lastSaved = Empty
  /\ focus = FALSE
  /\ timer = NoTimer
  /\ save = [n \in Ns |-> NoSave] /\ saves = 0
  /\ reload = NoReload
  /\ edits = 0 /\ others = 0
  /\ typed = [t \in PageTxns |-> {}] /\ want = server /\ excused = {} /\ unseen = {}

Pending(n) == save[n].at \in {"sent", "applied", "failed", "lost"}
OnTheWay(t) == {n \in Ns : Pending(n) /\ save[n].txn = t}
AtRest == \A t \in PageTxns : OnTheWay(t) = {}

-----------------------------------------------------------------------------
(* Variants with a plausible slip, for mutation testing.                   *)

OpenKeepsTimer(t, c) ==
  /\ selected' = t
  /\ note' = c[t] /\ lastSaved' = c[t]
  /\ UNCHANGED timer
BlurKeepsTimer ==
  /\ focus
  /\ focus' = FALSE
  /\ UNCHANGED <<mapi, shown, selected, note, timer, lastSaved, save, saves, reload, counts,
                 pageHist>>
SettleFailedQuietly(n) ==
  /\ save[n].at \in {"failed", "lost"}
  /\ save' = [save EXCEPT ![n] = [at |-> "done"]]
  /\ excused' = excused \cup {save[n].txn}
  /\ UNCHANGED <<mapi, shown, field, lastSaved, saves, reload, counts, typed, want, unseen>>
SameOrEmpty(text) == text \in {lastSaved, Empty}

-----------------------------------------------------------------------------
(* The detail of the selected transaction.                                 *)

\* The effect on `transaction': the answer of mapi, when it is not what is in the
\* field, counts as what was saved last.
Synced(text) == IF text \notin {lastSaved, note} THEN text ELSE lastSaved

\* After a change of the cache the effect runs if the transaction's object is a
\* new one: its note differs, or the page saved it before (its date differs).
SyncAfter(c) ==
  \E runs \in IF c[selected] # cache[selected] THEN {TRUE}
              ELSE IF \E n \in Ns : save[n] # NoSave THEN BOOLEAN
              ELSE {FALSE} :
    lastSaved' = IF runs THEN Synced(c[selected]) ELSE lastSaved

\* What flush leaves alone.
Same(text) == text = lastSaved

\* flush of a text: onMutate cancels a reload and writes the text to the cache.
Flush(text) ==
  /\ excused' = IF OnTheWay(selected) = {} THEN excused ELSE excused \cup {selected}
  /\ IF Same(text)
     THEN UNCHANGED <<cache, lastSaved, save, saves, reload>>
     ELSE /\ saves < MaxSaves
          /\ saves' = saves + 1
          /\ save' = [save EXCEPT ![saves + 1] = [at |-> "sent", txn |-> selected, text |-> text,
                                                  rows |-> cacheRows, before |-> cache]]
          /\ cache' = [cache EXCEPT ![selected] = text]
          /\ lastSaved' = Synced(text)
          /\ reload' = NoReload

Focus ==
  /\ cacheRows # NoRows /\ ~focus
  /\ focus' = TRUE
  /\ UNCHANGED <<mapi, shown, selected, note, timer, lastSaved, save, saves, reload, counts,
                 pageHist>>

\* handleNoteChange: the timer is given the flush of the render before setNote,
\* which knows the text before the edit.
Type(text) ==
  /\ focus /\ text # note
  /\ edits < MaxEdits
  /\ edits' = edits + 1
  /\ note' = text
  /\ timer' = note
  /\ typed' = [typed EXCEPT ![selected] = @ \cup {text}]
  /\ want' = [want EXCEPT ![selected] = text]
  /\ UNCHANGED <<mapi, shown, selected, focus, lastSaved, save, saves, reload, others, excused,
                 unseen>>

\* 800 ms without an edit.
DebounceFires ==
  /\ timer # NoTimer
  /\ timer' = NoTimer
  /\ Flush(timer)
  /\ UNCHANGED <<mapi, cacheRows, selected, note, focus, counts, typed, want, unseen>>

\* handleBlur: the text of the last render is flushed.
Blur ==
  /\ focus
  /\ focus' = FALSE
  /\ timer' = NoTimer
  /\ Flush(note)
  /\ UNCHANGED <<mapi, cacheRows, selected, note, counts, typed, want, unseen>>

\* The field of t: the effect on the id of the transaction resets it.
Open(t, c) ==
  /\ selected' = t
  /\ note' = c[t] /\ lastSaved' = c[t]
  /\ timer' = NoTimer

\* Another transaction, by the list or by previous and next: the click takes the
\* focus away first.
Select(t) ==
  /\ cacheRows # NoRows /\ ~focus /\ t # selected
  /\ Open(t, cache)
  /\ UNCHANGED <<mapi, shown, focus, save, saves, reload, counts, pageHist>>

\* The cache gets other notes, with ids of their own.  When the selected id is not among
\* them, the field goes, with the focus and without a blur, and the first transaction is
\* selected (any: the model has no order, and a roll-back may bring the old id back);
\* without transactions the detail is empty.
Show(c, ids) ==
  /\ cache' = c /\ cacheRows' = ids
  /\ \/ /\ ids = cacheRows
        /\ IF ids = NoRows THEN UNCHANGED lastSaved ELSE SyncAfter(c)
        /\ UNCHANGED field
     \/ /\ ids \notin {cacheRows, NoRows}
        /\ \E t \in PageTxns : Open(t, c)
        /\ focus' = FALSE
     \/ /\ ids = NoRows /\ cacheRows # NoRows
        /\ note' = Empty /\ lastSaved' = Empty
        /\ timer' = NoTimer /\ focus' = FALSE
        /\ UNCHANGED selected

\* What is typed and not in the cache goes with the field.
TypedIsLost(ids) ==
  IF ids # cacheRows /\ focus /\ note # cache[selected] THEN {selected} ELSE {}

-----------------------------------------------------------------------------
(* mapi and the network.                                                   *)

\* saveNote (PATCH) or, for an empty text, deleteNote (DELETE), by the id of the row:
\* after a sync it is answered 404 (see Fail).
Apply(n) ==
  /\ save[n].at = "sent" /\ save[n].rows = rows
  /\ server' = [server EXCEPT ![save[n].txn] = save[n].text]
  /\ save' = [save EXCEPT ![n].at = "applied"]
  /\ UNCHANGED <<rows, lists, shown, field, lastSaved, saves, reload, counts, pageHist>>

\* mapi refuses it (link revoked, no such row), or the network fails, on the way there,
\* while mapi is at it or on the way back.
Fail(n) ==
  /\ \/ save[n].at \in {"sent", "applied"} /\ save' = [save EXCEPT ![n].at = "failed"]
     \/ save[n].at = "sent" /\ save' = [save EXCEPT ![n].at = "lost"]
  /\ UNCHANGED <<mapi, shown, field, lastSaved, saves, reload, counts, pageHist>>

\* mapi carries out what the page takes for failed.
ApplyLate(n) ==
  /\ save[n].at \in {"lost", "late"} /\ save[n].rows = rows
  /\ server' = [server EXCEPT ![save[n].txn] = save[n].text]
  /\ save' = IF Pending(n) THEN [save EXCEPT ![n].at = "failed"]
             ELSE [save EXCEPT ![n] = [at |-> "done"]]
  /\ excused' = excused \cup {save[n].txn} /\ unseen' = unseen \cup {save[n].txn}
  /\ UNCHANGED <<rows, lists, shown, field, lastSaved, saves, reload, counts, typed, want>>

\* Another tab of the client or an operator.
OtherWrites(t, text) ==
  /\ rows # NoRows /\ others < MaxOthers
  /\ others' = others + 1
  /\ server' = [server EXCEPT ![t] = text]
  /\ typed' = [typed EXCEPT ![t] = @ \cup {text}]
  /\ excused' = excused \cup {t} /\ unseen' = unseen \cup {t}
  /\ UNCHANGED <<rows, lists, shown, field, lastSaved, save, saves, reload, edits, want>>

\* A sync: all rows of the month are deleted, and inserted with new ids.
RowsGo ==
  /\ rows # NoRows /\ lists < MaxLists
  /\ rows' = NoRows
  /\ unseen' = PageTxns
  /\ UNCHANGED <<server, lists, shown, field, lastSaved, save, saves, reload, counts, typed, want,
                 excused>>
RowsCome ==
  /\ rows = NoRows /\ lists < MaxLists
  /\ lists' = lists + 1 /\ rows' = lists + 1
  /\ unseen' = PageTxns
  /\ UNCHANGED <<server, shown, field, lastSaved, save, saves, reload, counts, typed, want,
                 excused>>

-----------------------------------------------------------------------------
(* useSavePublicNote: the callbacks of a save that ended.                  *)

Ends(n) == save' = [save EXCEPT ![n] = [at |-> "done"]]

\* onSuccess, which mutate() calls for its last call only, whatever transaction
\* is selected by now; onSettled: the list is fetched, anew if it was before.
SettleApplied(n) ==
  /\ save[n].at = "applied"
  /\ Ends(n)
  /\ lastSaved' = IF n = saves THEN save[n].text ELSE lastSaved
  /\ reload' = [at |-> "asked"]
  /\ excused' = IF n = saves /\ save[n].txn # selected THEN excused \cup {selected} ELSE excused
  /\ UNCHANGED <<mapi, shown, field, saves, counts, typed, want, unseen>>

\* onError: the cache as it was before this save, with all its transactions.
SettleFailed(n) ==
  /\ save[n].at \in {"failed", "lost"}
  /\ IF save[n].at = "failed" THEN Ends(n)
     ELSE save' = [save EXCEPT ![n] =
                     [at |-> "late", txn |-> @.txn, text |-> @.text, rows |-> @.rows]]
  /\ Show(save[n].before, save[n].rows)
  /\ reload' = [at |-> "asked"]
  /\ excused' = excused \cup TypedIsLost(save[n].rows)
                  \cup {t \in PageTxns : t = save[n].txn \/ cache[t] # save[n].before[t]}
  /\ UNCHANGED <<mapi, saves, counts, typed, want, unseen>>

\* getTransactions.  (A reload that fails replaces the page by an error message,
\* which is where the model ends.)
ReloadRead ==
  /\ reload.at = "asked"
  /\ reload' = [at |-> "read", items |-> server, rows |-> rows]
  /\ unseen' = {}
  /\ UNCHANGED <<mapi, shown, field, lastSaved, save, saves, counts, typed, want, excused>>

ReloadShown ==
  /\ reload.at = "read"
  /\ reload' = NoReload
  /\ Show(reload.items, reload.rows)
  /\ excused' = excused \cup TypedIsLost(reload.rows)
                  \cup {t \in PageTxns : OnTheWay(t) # {} /\ cache[t] # reload.items[t]}
  /\ UNCHANGED <<mapi, save, saves, counts, typed, want, unseen>>

-----------------------------------------------------------------------------
ClientStep ==
  Focus \/ (\E text \in Texts : Type(text)) \/ Blur \/ (\E t \in PageTxns : Select(t))
SaveStep(n) == Apply(n) \/ Fail(n) \/ SettleApplied(n) \/ SettleFailed(n)
ReloadStep == ReloadRead \/ ReloadShown

\* Behind the back of the page.
Elsewhere ==
  \/ \E n \in Ns : ApplyLate(n)
  \/ \E t \in PageTxns, text \in Texts : OtherWrites(t, text)
  \/ RowsGo \/ RowsCome

PageNext ==
  ClientStep \/ DebounceFires \/ (\E n \in Ns : SaveStep(n)) \/ ReloadStep \/ Elsewhere

PageSpec == PageInit /\ [][PageNext]_pageVars

\* Timers fire and requests end, well or badly; the client owes nothing, nor do others.
Fairness ==
  /\ WF_pageVars(DebounceFires) /\ WF_pageVars(ReloadStep)
  /\ \A n \in Ns : WF_pageVars(SaveStep(n))
FairSpec == PageSpec /\ Fairness

-----------------------------------------------------------------------------
(* Properties.                                                             *)

\* When the field has lost the focus and no save is on its way, mapi has the text
\* that was typed last, except after a failure (which also takes back the notes of
\* other transactions in the cache), a flush or a reload while a save of the same
\* transaction was on its way, a change of the rows' ids while text was in the field
\* that the cache did not have, a note that another wrote, or when the success of
\* another transaction's save came late and was taken for this one's.
BlurSaves ==
  AtRest => \A t \in PageTxns \ excused : server[t] = want[t] \/ (focus /\ t = selected)

\* What mapi stores for a transaction was typed for that transaction.
NotesStayWithTheirTransaction ==
  \A t \in PageTxns : server[t] \in typed[t] \cup {Empty}

\* However optimistic updates, roll-backs, reloads and syncs overlap, the page ends up
\* showing the notes and the rows that mapi has, except for what changed behind its back
\* after it last reloaded: no success or failure of its own is left uncorrected.
ShowsServer ==
  /\ \A t \in PageTxns \ unseen : cache[t] = server[t]
  /\ unseen = PageTxns \/ cacheRows = rows
ShowsServerInTheEnd == <>[]ShowsServer

\* `Auto-saves when you stop typing': once the timer has fired and every save has
\* succeeded, mapi has what is in the field.
AutosavesWhenTypingStops ==
  timer = NoTimer /\ AtRest /\ excused = {} /\ cacheRows # NoRows => server[selected] = note
==============================================================================
