\* Two sessions of one user, two changes of password, Redis may fail (no symmetry: the run
\* checks a liveness property).
CONSTANTS
  Users = {u}
  Tokens = {t1, t2}
  NoToken = NoToken
  Requests = {r1}
  Logins = {l}
  Admins = {a1}
  Expirable = {t1}
  MaxPasswords = 2
  RedisFails = TRUE
SPECIFICATION FairSpec
INVARIANT TypeOK
INVARIANT OlderSessionsArePutOut
PROPERTY RevokedIsRefusedInTheEnd
CHECK_DEADLOCK FALSE
