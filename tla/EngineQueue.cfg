CONSTANTS
  MaxExecs = 3
  Concurrency = 1
  Flows = {f1}
  FlowConfig <- MCQuietFlowConfig
  UsedKeys = {"fresh"}
  Overrides = {"none"}
  Callers = {c1}
  CancelStates = {"waiting"}
  Operations = {"resume"}
SPECIFICATION FairSpec
PROPERTIES
  OnlyTriggersOvertake
  QueueDrains
  SlotsReturn
CHECK_DEADLOCK FALSE
