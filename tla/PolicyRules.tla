----------------------------- MODULE PolicyRules ------------------------------
(***************************************************************************)
(* What policies decide: access control by identity, and policy rules in   *)
(* order of priority.  A rule's evaluate is external: it allows, denies,   *)
(* modifies the input, throws, or returns no valid action.                 *)
(***************************************************************************)
EXTENDS Integers, SequencesExt

CONSTANTS
  NoOne,        \* a missing user, tenant or rule
  Rules,        \* names of rules
  RuleOf        \* per rule: [priority, operations, does]

OperationType == {"trigger", "resume", "replay", "listWaiting"}

PolicyRule ==
  [priority : Int, operations : SUBSET OperationType,
   does : {"allow", "deny", "modify", "invalid", "throws"}]

(* null allows everything; the denied ones are empty when null. *)
AccessPolicy ==
  [deniedOperations : SUBSET OperationType, allowedOperations : SUBSET OperationType,
   deniedFlows : SUBSET STRING, allowedFlows : SUBSET STRING]

ASSUME RuleAssumption == RuleOf \in [Rules -> PolicyRule]

(* The elements of a sequence that are in T, in their order *)
Only(s, T) ==
  LET upTo[i \in 0 .. Len(s)] ==
        IF i = 0 THEN <<>>
        ELSE IF s[i] \in T THEN Append(upTo[i - 1], s[i]) ELSE upTo[i - 1]
  IN  upTo[Len(s)]

Without(s, x) == Only(s, ToSet(s) \ {x})

(* resolveTenantId: the tenant given, or the user, or nobody *)
ResolveTenantId(tenant, user) == IF tenant # NoOne THEN tenant ELSE user

(***************************************************************************)
(* Access control                                                          *)
(***************************************************************************)

(* The identity whose policy counts: user before tenant before wildcard *)
Resolved(policies, user, tenant) ==
  IF user # NoOne /\ user \in DOMAIN policies THEN user
  ELSE IF tenant # NoOne /\ tenant \in DOMAIN policies THEN tenant
  ELSE "*"

EvaluateAccess(policies, user, tenant, operation, flow) ==
  LET policy == policies[Resolved(policies, user, tenant)]
  IN  Resolved(policies, user, tenant) \in DOMAIN policies =>
        /\ operation \notin policy.deniedOperations
        /\ operation \in policy.allowedOperations
        /\ flow \notin policy.deniedFlows
        /\ flow \in policy.allowedFlows

(***************************************************************************)
(* Rules                                                                   *)
(***************************************************************************)

(* By priority, those of one priority in the order they are in (the sort is *)
(* stable): each is put behind all that do not come after it.              *)
ByPriority(names, policyOf) ==
  FoldLeft(LAMBDA sorted, n :
             LET before == {i \in DOMAIN sorted :
                              policyOf[sorted[i]].priority <= policyOf[n].priority}
             IN  InsertAt(sorted, Cardinality(before) + 1, n),
           <<>>, names)

Decision(action, rule) == [action |-> action, rule |-> rule]

(* mutant of Evaluate: a rule that throws is passed over *)
EvaluateOpen(decision, n) ==
  IF decision.action = "deny" \/ RuleOf[n].does \in {"allow", "throws"} THEN decision
  ELSE IF RuleOf[n].does = "modify" THEN Decision("modify", n)
  ELSE Decision("deny", n)

(* One turn of evaluateRules' loop: it ends at the first denial, and a rule  *)
(* that throws or returns something else denies.                           *)
Evaluate(decision, n) ==
  IF decision.action = "deny" \/ RuleOf[n].does = "allow" THEN decision
  ELSE IF RuleOf[n].does = "modify" THEN Decision("modify", n)
  ELSE Decision("deny", n)

(* The rules for an operation, in the order they are evaluated *)
RulesFor == [o \in OperationType |-> {n \in Rules : o \in RuleOf[n].operations}]

Sorted(rules, operation) == ByPriority(Only(rules, RulesFor[operation]), RuleOf)

EvaluateRules(rules, operation) ==
  FoldLeft(Evaluate, Decision("allow", NoOne), Sorted(rules, operation))
=============================================================================
