\* Liveness and the refinement of JobQueue (no symmetry): two jobs of one client, of
\* the kind that isolates failures and of the kind that gives up.
CONSTANTS
  a = a
  b = b
  Credentials = {a}
  Nobody = Nobody
  Jobs = {j1, j2}
  NoJob = NoJob
  Lists = {}
  Orders <- OneClient
  Masks = 2
  Mistaken <- Nowhere
SPECIFICATION FairSpec
PROPERTY WorkerIsSerial
PROPERTY EveryJobIsReported
CHECK_DEADLOCK FALSE
