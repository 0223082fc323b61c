SPECIFICATION MCSpec
CONSTANTS
  Components = {"session", "loop", "server", "web"}
  Requests = {r1, r2}
  Ids = {"a", "b"}
  Values = {1, 2}
  Stores = {TRUE, FALSE}
  Lifetime = 1
  MaxTime = 2
  MaxUses = 3
  MaxStops = 1
  Evictions = 1
  Registered = TRUE
  Apart = FALSE
  MaxWrites = 3
  MaxSets = 2
  MaxSock = 2
  CounterLimit = 2
  Workers = {"w"}
  Peers = {"c"}
  Blocking = {TRUE, FALSE}
  Inside = FALSE
  Early = FALSE
  Stoppers = {"s1"}
  Uploaders = {"c1", "c2"}
  Body <- MCBody
  Killers = {}
  Targets = {"memory", "both", "disk"}
  RandomNames = TRUE
  ContentLimit = 2
INVARIANTS SessionsSound LoopSound UploadsSound
PROPERTIES SessionsHonoured EventsSeen StartReturns
CHECK_DEADLOCK FALSE
