CONSTANTS
  N = 3
  Policies = {"all", "range", "any"}
SPECIFICATION FairSpec
INVARIANT OutcomeRight
INVARIANT RangeNeverThrows
PROPERTY WhenSettles
CHECK_DEADLOCK FALSE
