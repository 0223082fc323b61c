SPECIFICATION MCSpec
CONSTANTS
  Components = {"server", "life", "websocket", "middleware"}
  Conns = {c1, c2}
  NWorkers = 1
  Kinds <- MCKinds
  MaxReads = 2
  Piped = FALSE
  Elsewhere = FALSE
  Garbage <- MCGarbage
  None = None
  Frames <- MCFrames
  MaxFrames = 3
  MaxStray = 2
  Sends = {"text", "close"}
  MaxSends = 1
  Vanishes = TRUE
  N = 4
  Local = {2, 4}
  Failures = {"throw", "throwLocal", "throwAfter", "throwUncaught", "endThrow", "later"}
INVARIANTS ServerSound SocketSound MiddlewareSound
PROPERTIES ObjectsDeleted EventuallyAnswered
CHECK_DEADLOCK FALSE
