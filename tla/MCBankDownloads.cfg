\* Two jobs of up to two clients, two accounts each, beside an HTTP list_accounts.
CONSTANTS
  a = a
  b = b
  Credentials = {a, b}
  Nobody = Nobody
  Jobs = {j1, j2}
  NoJob = NoJob
  Lists = {l1}
  Orders <- Mixed
  Masks = 2
  Mistaken <- OneWay
SPECIFICATION Spec
SYMMETRY Symmetry
INVARIANT TypeOK
INVARIANT NoSessionLeakedByFinally
INVARIANT CrossesOnlyByDigits
CHECK_DEADLOCK FALSE
