\* Two transactions, an empty note and a text, two edits and two saves, a sync and a note
\* written by another (no symmetry: the run checks a liveness property).
CONSTANTS
  PageTxns = {t1, t2}
  Texts = {empty, a}
  Empty = empty
  NoTimer = NoTimer
  MaxSaves = 2
  MaxEdits = 2
  MaxLists = 2
  MaxOthers = 1
SPECIFICATION FairSpec
INVARIANT PageTypeOK
INVARIANT BlurSaves
INVARIANT NotesStayWithTheirTransaction
PROPERTY ShowsServerInTheEnd
CHECK_DEADLOCK FALSE
