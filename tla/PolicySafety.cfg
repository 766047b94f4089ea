CONSTANTS
  r1 = r1
  r2 = r2
  r3 = r3
  r4 = r4
  Requests = {r1, r2, r3, r4}
  RequestOf <- MCRequestOf
  NoOne = NoOne
  Limits <- MCLimits
  LimitOf <- MCLimitOf
  MaxTime = 2
  Rules <- MCRules
  RuleOf <- MCRuleOf
  Guardrails <- MCGuardrails
  GuardrailOf <- MCGuardrailOf
  AccessPolicyOf <- MCAccessPolicyOf
  Initially <- MCInitially
  Changes = {"broken", "tone", "steady", "u1"}
  MaxChanges = 1
SPECIFICATION FairSpec
INVARIANTS
  
  Accounted
  RulesAsDocumented
  Guarded
PROPERTIES
  Answered
CHECK_DEADLOCK FALSE
