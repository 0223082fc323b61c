CONSTANTS
  u1 = u1
  u2 = u2
  t1 = t1
  t2 = t2
  r1 = r1
  r2 = r2
  r3 = r3
  r4 = r4
  None = None
  Users = {u1, u2}
  Transports = {t1}
  NConns = 1
  Requests = {r1, r2, r3}
  Timed = {}
  QueueSize = 1
  Failures = {}
  MayShutdown = TRUE
SPECIFICATION FairSpec
INVARIANT ClientSound
PROPERTY QueueServed
PROPERTY ShutdownCompletes
CHECK_DEADLOCK FALSE
