CONSTANTS
  u1 = u1
  u2 = u2
  t1 = t1
  t2 = t2
  r1 = r1
  r2 = r2
  r3 = r3
  r4 = r4
  None = None
  Users = {u1}
  Transports = {t1}
  NConns = 2
  Requests = {r1, r2, r3}
  Timed = {r1}
  QueueSize = 1
  Failures = {"connect", "refuse", "reset", "close"}
  MayShutdown = FALSE
SPECIFICATION Spec
SYMMETRY Symmetry
INVARIANT ConnectionsExclusive
INVARIANT OwnUntilTimeout
PROPERTY AnsweredOnce
CHECK_DEADLOCK FALSE
