CONSTANTS
  MaxExecs = 2
  Keys = {k1}
  Answers = {"fail", "requeue", "ignore"}
  Concurrency = 2
  Fibers = {f1, f2}
  Callers = {c1, c2}
  MaxRestarts = 1
SYMMETRY Interchangeable
SPECIFICATION Spec
CHECK_DEADLOCK FALSE
INVARIANTS
  OneRowPerKey
  RowsDriven
PROPERTIES
  RowSteps
