\* The instance of MCPublicNotes.cfg, without fairness.
CONSTANTS
  PageTxns = {t1, t2}
  Texts = {empty, a}
  Empty = empty
  NoTimer = NoTimer
  MaxSaves = 2
  MaxEdits = 2
  MaxLists = 2
  MaxOthers = 1
SPECIFICATION PageSpec
INVARIANT AutosavesWhenTypingStops
CHECK_DEADLOCK FALSE
