CONSTANTS
  Callers = {c1, c2}
  Keys = {user, flow, global}
  c1 = c1
  c2 = c2
  user = user
  flow = flow
  global = global
  ScopesOf <- MCScopesOf
  RequestBudget <- Requests2
  Budget <- HardThenSoft
  Estimates = {1, 2, 3}
  Costs = {0, 1}
  MaxCalls = 4
SPECIFICATION Spec
INVARIANTS
  SpendAccounted
  HardKept
  WarnedOnce
CHECK_DEADLOCK FALSE
