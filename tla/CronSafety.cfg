CONSTANTS
  Flows = {f1, f2}
  Period = 2
  MaxDelay = 1
  RearmInterval = 1
  MaxTime = 4
  ReaddDuringTick = FALSE
SPECIFICATION FairSpec
INVARIANTS
  OneTimer
  OnTime
  NoOverlap
PROPERTIES
  KeepsTicking
CHECK_DEADLOCK FALSE
