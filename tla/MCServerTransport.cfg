CONSTANTS
  NConns = 2
  Fds = {f1}
  NRequests = 1
  Kinds = {"raw", "file", "app"}
  Size = 2
  Room = 1
  Pieces = 0
  MaxTicks = 1
  Failures = {"close", "reset", "io"}
  None = None
SPECIFICATION Spec
INVARIANT TransportSound
INVARIANT InOrder
INVARIANT FulfilledIsSent
CHECK_DEADLOCK FALSE
