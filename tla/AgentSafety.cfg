CONSTANTS
  Configs <- ThreeConfigs
  CallCosts = {1, 2}
  MaxToolCalls = 2
  MaxRuns = 2
  MaxEntries = 4
  MaxTime = 1
  Executions = {e1, e2}
  e1 = e1
  n1 = n1
  Names = {n1, n2}
  Mediums = {5}
  Applies <- ForSome
  Scorings <- ThreeScorings
  FlagThreshold = 4
  MaxRecords = 1
  MaxAdds = 2
SPECIFICATION ReviewSpec
CHECK_DEADLOCK FALSE
INVARIANTS
  Budgeted
PROPERTIES
  FlagSteps
