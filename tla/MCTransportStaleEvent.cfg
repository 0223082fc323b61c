CONSTANTS
  NConns = 1
  Fds = {f1}
  NRequests = 1
  Kinds = {"raw"}
  Size = 2
  Room = 1
  Pieces = 0
  MaxTicks = 1
  Failures = {}
  None = None
SPECIFICATION Spec
INVARIANT StaleEventsIgnored
CHECK_DEADLOCK FALSE
