CONSTANTS
  NConns = 1
  Fds = {f1}
  NRequests = 2
  Kinds = {"raw", "file", "app"}
  Size = 2
  Room = 1
  Pieces = 1
  MaxTicks = 1
  Failures = {"close", "reset", "io"}
  None = None
SPECIFICATION FairSpec
PROPERTY SettledWhenQuiet
CHECK_DEADLOCK FALSE
