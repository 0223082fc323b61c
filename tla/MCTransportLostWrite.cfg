CONSTANTS
  NConns = 1
  Fds = {f1}
  NRequests = 1
  Kinds = {"raw"}
  Size = 1
  Room = 1
  Pieces = 1
  MaxTicks = 0
  Failures = {}
  None = None
SPECIFICATION FairSpec
PROPERTY EveryWriteSettled
CHECK_DEADLOCK FALSE
