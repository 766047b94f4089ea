CONSTANTS
  Flows = {f1}
  Names = {o1}
  Tools = {}
  Autonomies = {"observe", "advise", "enforce"}
  CostPercent = 30
  HardStopPercent = 50
  Lookback = 0
  Grace = 2
  Stores <- OneStore
  CustomSignals <- NoCustom
  Answers <- Some
  f1 = f1
  MaxCycles = 2
  MaxRecs = 2
  MaxEntries = 1
  MaxTime = 2
SPECIFICATION Spec
CHECK_DEADLOCK FALSE
INVARIANTS
  Cancellable
  AdviceDecided
PROPERTIES
  ExecutedDeliberately
