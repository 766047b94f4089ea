CONSTANTS
  Providers = {a, b}
  Streaming = {a}
  Requests = {r1, r2}
  NoProvider = none
  Threshold = 2
  MaxFallback = 1
  MaxAttempts = 2
SPECIFICATION RouterFairSpec
INVARIANTS
  CooldownArmed
  Trusted
PROPERTIES
  RequestsEnd
  Recovers
CHECK_DEADLOCK FALSE
