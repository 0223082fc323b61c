SPECIFICATION FairSpec
CONSTANTS
  Producers = {p1, p2, p3}
  Values = {a, b}
  Nothing = Nothing
  MaxPushes = 4
INVARIANTS NoUseAfterFree NoLostWakeup
PROPERTIES ImplementsFifo EveryPushHandled
CHECK_DEADLOCK FALSE
