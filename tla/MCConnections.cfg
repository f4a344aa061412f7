\* An operator, two clients, two companies, two requests and an OAuth flow.
CONSTANTS
  Users = {u1}
  Clients = {c1, c2}
  Realms = {r1, r2}
  Labels = {None, a}
  None = None
  Requests = {p1, p2}
  Flows = {f1}
SPECIFICATION Spec
SYMMETRY Symmetry
INVARIANT TypeOK
INVARIANT StoredTokenIsGood
INVARIANT ConnectionIsToTheCompany
PROPERTY RefreshKeepsTheRest
