CONSTANTS
  s1 = s1
  s2 = s2
  u1 = u1
  u2 = u2
  None = None
  Settlers = {s1}
  Users = {u1, u2}
  NConts = 3
  Serialised = TRUE
SPECIFICATION FairSpec
INVARIANT AsyncSound
PROPERTY SettledOnce
PROPERTY EveryContinuationRuns
CHECK_DEADLOCK FALSE
