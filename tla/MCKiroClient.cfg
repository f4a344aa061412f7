\* A replaced instance beside the new one, two tokens, one run of resume at a time
\* (no symmetry: the run checks liveness).
CONSTANTS
  Tokens = {t1, t2}
  NoToken = NoToken
  Clients = {i1, i2}
  NoClient = NoClient
  Socks = {s1, s2}
  NoSock = NoSock
  Calls = {k1}
  MaxTimers = 1
  MaxClicks = 2
SPECIFICATION FairSpec
INVARIANT TypeOK
INVARIANT ClientHasToken
PROPERTY HealthySocketsSpared
PROPERTY ReconnectsWhileLoggedIn
PROPERTY LogoutDropsClient
CHECK_DEADLOCK FALSE
