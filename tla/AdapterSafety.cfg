CONSTANTS
  Names = {mail, chat}
  Instances = {a1, a2}
  None = None
  Callers = {c1}
  Removers = {d1, d2}
  RetryAttempts = 2
  FailureThreshold = 2
  MaxChecks = 1
SYMMETRY Interchangeable
SPECIFICATION Spec
INVARIANTS
  OneTimer
  Driven
  Retired
  CacheOfLiving
CHECK_DEADLOCK FALSE
