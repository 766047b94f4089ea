------------------------------- MODULE MCPolicy -------------------------------
(***************************************************************************)
(* Instances of the policy engine: requests of two users, limits that      *)
(* share the global log, and rules and guardrails of every kind.           *)
(***************************************************************************)
EXTENDS PolicyProperties, TLC

CONSTANTS r1, r2, r3, r4

By(user, operation) ==
  [user |-> user, tenant |-> NoOne, flow |-> "f", operation |-> operation]

MCRequestOf ==
  (r1 :> By("u1", "trigger")) @@ (r2 :> By("u2", "replay")) @@ (r3 :> By("u2", "replay"))
    @@ (r4 :> By("u2", "replay"))

Global(limit, behavior) ==
  [scope |-> "global", flowName |-> "*", limit |-> limit, window |-> 2,
   behavior |-> behavior, maxQueueDepth |-> 1]

MCLimitOf == [burst |-> Global(4, "reject"), spare |-> Global(4, "reject"),
              steady |-> Global(2, "queue")]
MCLimits  == DOMAIN MCLimitOf

Rule(priority, does) ==
  [priority |-> priority, operations |-> {"trigger", "replay"}, does |-> does]

MCRuleOf == [audit |-> Rule(1, "allow"), rewrite |-> Rule(2, "modify"),
             broken |-> Rule(2, "throws")]
MCRules  == DOMAIN MCRuleOf

MCGuardrailOf ==
  [pii  |-> [phase |-> "input", priority |-> 2, flowName |-> "*", failureMode |-> "pass"],
   tone |-> [phase |-> "input", priority |-> 1, flowName |-> "f", failureMode |-> "block"]]
MCGuardrails  == DOMAIN MCGuardrailOf

Everything == [deniedOperations |-> {}, allowedOperations |-> OperationType,
               deniedFlows |-> {}, allowedFlows |-> {"f"}]
MCAccessPolicyOf == [u1 |-> [Everything EXCEPT !.deniedFlows = {"f"}]]

MCInitially ==
  [limits |-> <<"burst", "spare", "steady">>, rules |-> <<"rewrite">>,
   guardrails |-> <<"pii", "tone">>, access |-> {}]

(* What WithinLimit presupposes *)
ASSUME InstanceAssumption == WindowsAgree /\ OneKeyPerQueue
=============================================================================
