\* A user, a role of the system and one made by an operator, two requests and two
\* calls (no symmetry: the run checks a liveness property).
CONSTANTS
  Users = {u1}
  Roles = {admin, custom}
  SystemRoles = {admin}
  Codes = {c}
  Requests = {r1, r2}
  Calls = {a1, a2}
SPECIFICATION FairSpec
INVARIANT TypeOK
INVARIANT CacheIsFresh
PROPERTY WithdrawnIsRefusedInTheEnd
PROPERTY LastRoleIsLostOnlyInARace
CHECK_DEADLOCK FALSE
