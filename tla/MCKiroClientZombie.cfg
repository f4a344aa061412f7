\* A replaced instance and its timers.
CONSTANTS
  Tokens = {t1, t2}
  NoToken = NoToken
  Clients = {i1, i2}
  NoClient = NoClient
  Socks = {s1, s2, s3}
  NoSock = NoSock
  Calls = {k1, k2}
  MaxTimers = 1
  MaxClicks = 3
SPECIFICATION Spec
SYMMETRY Symmetry
INVARIANT NoZombieClient
CHECK_DEADLOCK FALSE
