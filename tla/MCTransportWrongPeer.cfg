CONSTANTS
  NConns = 2
  Fds = {f1}
  NRequests = 1
  Kinds = {"raw"}
  Size = 1
  Room = 1
  Pieces = 0
  MaxTicks = 0
  Failures = {"close"}
  None = None
SPECIFICATION Spec
INVARIANT OwnBytes
CHECK_DEADLOCK FALSE
