CONSTANTS
  MaxExecs = 2
  Concurrency = 1
  Flows = {f1}
  FlowConfig <- MCFlowConfig
  UsedKeys = {"k1"}
  Overrides = {"none"}
  Callers = {c1}
  CancelStates = {"queued", "running", "waiting", "retrying"}
  Operations = {"resume", "resumeAgain", "replay", "delete", "register", "shutdown"}
SPECIFICATION Spec
INVARIANTS
  TypeOK
  SlotAccounting
  Driven
  ResultOrigin
  StoreKeepsLive
  TimeoutKept
PROPERTIES
  ImplementsExecutions
CHECK_DEADLOCK FALSE
