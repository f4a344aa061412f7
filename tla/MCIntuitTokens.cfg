\* Two clients, two companies, a request besides the cron, one OAuth flow.
CONSTANTS
  Clients = {c1, c2}
  Realms = {r1, r2}
  None = None
  Callers = {p1}
  Cron = cron
  Flows = {f1}
SYMMETRY Symmetry
SPECIFICATION Spec
INVARIANT TypeOK
INVARIANT StoredTokenIsGood
PROPERTY CompanyIsKept
