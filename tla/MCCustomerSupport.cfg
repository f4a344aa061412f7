\* Two transactions, two requests, two syncs, an edit by a bookkeeper and an update
\* of the follow-up.
CONSTANTS
  Txns = {t1, t2}
  Requests = {r1, r2}
  Syncs = {y1, y2}
  Updates = {u}
  Edits = {e}
SPECIFICATION Spec
SYMMETRY Symmetry
INVARIANT TypeOK
INVARIANT MixedOnlyByOverlap
INVARIANT SyncedNoteIsPosted
PROPERTY WritesAreAtomic
PROPERTY MarkCountsOrphansOnly
CHECK_DEADLOCK FALSE
