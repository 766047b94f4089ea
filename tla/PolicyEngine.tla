----------------------------- MODULE PolicyEngine -----------------------------
(***************************************************************************)
(* The policy engine (class PolicyEngine): a request passes access control,*)
(* rate limits and rules before its execution, and guardrails around it.   *)
(* Access is decided in the step of the call; a rate limit may keep it     *)
(* waiting, and guardrails are awaited one by one: meanwhile other requests *)
(* come and policies are added and removed.                                *)
(***************************************************************************)
EXTENDS RateLimiter

CONSTANTS
  Guardrails,     \* names of guardrails
  GuardrailOf,    \* per guardrail: [phase, priority, flowName, failureMode]
  AccessPolicyOf, \* the access policy of each identity that can have one
  Initially,      \* the policies configured: [rules, limits, guardrails, access]
  Changes,        \* the policies that are added and removed while requests run
  MaxChanges      \* bound on how often

Guardrail ==
  [phase : {"input", "output"}, priority : Int, flowName : STRING,
   failureMode : {"block", "pass"}]

GuardrailResult == {"pass", "block", "warn", "transform", "invalid", "throws"}

PolicyContext ==
  [user : STRING \cup {NoOne}, tenant : STRING \cup {NoOne}, flow : STRING,
   operation : OperationType]

ASSUME RequestAssumption   == RequestOf \in [Requests -> PolicyContext]
ASSUME GuardrailAssumption == GuardrailOf \in [Guardrails -> Guardrail]
ASSUME AccessAssumption    == \A i \in DOMAIN AccessPolicyOf : AccessPolicyOf[i] \in AccessPolicy
ASSUME ChangesAssumption   == MaxChanges \in Nat

(* The limits are the entries of a Map, and "none" is the name of none of them. *)
ASSUME InitiallyAssumption ==
  /\ Initially.limits \in Seq(Limits) /\ IsInjective(Initially.limits) /\ "none" \notin Limits
  /\ Initially.rules \in Seq(Rules)
  /\ Initially.guardrails \in Seq(Guardrails)
  /\ Initially.access \subseteq DOMAIN AccessPolicyOf

VARIABLES
  rateLimits,     \* the limits registered, in the order of the Map
  rules,          \* the rules registered, in the order of the Map
  guardrails,     \* the guardrails registered, in the order of the array
  accessPolicies, \* the policy of each identity that has one
  changes,        \* the changes made
  request         \* per request: [stage, at, charged, waits, rest, code] and,
                  \* as history, [lasting, seen]: the guardrails that lasted
                  \* since its guardrails began, and those that let it through

limiter  == <<now, entries, queues>>
registry == <<rateLimits, rules, guardrails, accessPolicies, changes>>
vars     == <<limiter, registry, request>>

New == [stage |-> "idle", at |-> 0, charged |-> {}, waits |-> "none", rest |-> <<>>,
        code |-> "none", lasting |-> {}, seen |-> {}]

(* The constructor *)
Init ==
  /\ InitLimiter
  /\ rateLimits = Initially.limits
  /\ rules = Initially.rules
  /\ guardrails = Initially.guardrails
  /\ accessPolicies = [i \in Initially.access |-> AccessPolicyOf[i]]
  /\ request = [r \in Requests |-> New]
  /\ changes = 0

Refused(code)     == [New EXCEPT !.stage = "refused", !.code = code]
Admitted(charged) == [New EXCEPT !.stage = "admitted", !.at = now, !.charged = charged]

(***************************************************************************)
(* evaluatePreExecution                                                    *)
(***************************************************************************)

HasAccess(r) ==
  LET c == RequestOf[r]
  IN  EvaluateAccess(accessPolicies, c.user, ResolveTenantId(c.tenant, c.user),
                     c.operation, c.flow)

(* The limits a request falls under, in order; a limit on one flow counts    *)
(* the requests of every flow.  listWaiting is not limited.                *)
Applicable(r) ==
  IF RequestOf[r].operation = "listWaiting" THEN <<>>
  ELSE Only(rateLimits, {l \in Limits : LimitOf[l].scope = "user" => RequestOf[r].user # NoOne})

(* The rate_limited event counts under the first limit, and evicts there. *)
Reported(log, r) ==
  IF Applicable(r) = <<>> THEN log ELSE Evicted(log, Head(Applicable(r)), r)

Denied(r) ==
  /\ request[r].stage = "idle"
  /\ ~HasAccess(r)
  /\ request' = [request EXCEPT ![r] = Refused("ACCESS_DENIED")]
  /\ UNCHANGED <<limiter, registry>>

(* checkMultiple: every limit allows the request, *)
AllAllow(r, check) ==
  /\ check.denied = <<>>
  /\ entries' = check.log
  /\ request' = [request EXCEPT ![r] = Admitted(ToSet(check.allowed))]
  /\ UNCHANGED <<now, queues, registry>>

(* or the records are undone and the first that denied checks it again:      *)
(* with room now (it shared its log with another), the request is allowed  *)
(* and its queue drained;                                                  *)
AllowedAgain(r, l, retry) ==
  /\ retry.allowed
  /\ LET drain == Drain(retry.log, l, r)
     IN  /\ entries' = drain.log
         /\ Dequeue(l, drain.released)
         /\ request' = [q \in Requests |->
                          IF q = r \/ q \in Oldest(l, drain.released) THEN Admitted({l})
                                                                      ELSE request[q]]
  /\ UNCHANGED <<now, registry>>

(* with a queue and room in it, the request waits;                           *)
Queues(r, l, retry) ==
  /\ ~retry.allowed
  /\ LimitOf[l].behavior = "queue" /\ ~QueueFull(l)
  /\ entries' = retry.log
  /\ Enqueue(l, r)
  /\ request' = [request EXCEPT ![r] = [New EXCEPT !.stage = "queued", !.waits = l]]
  /\ UNCHANGED <<now, registry>>

(* else it is refused.                                                       *)
RateLimited(r, l, retry) ==
  /\ ~retry.allowed
  /\ LimitOf[l].behavior = "reject" \/ QueueFull(l)
  /\ entries' = Reported(retry.log, r)
  /\ request' = [request EXCEPT ![r] = Refused("RATE_LIMITED")]
  /\ UNCHANGED <<now, queues, registry>>

Limit(r) ==
  /\ request[r].stage = "idle"
  /\ HasAccess(r)
  /\ LET check == CheckAll(entries, Applicable(r), r)
     IN  \/ AllAllow(r, check)
         \/ /\ check.denied # <<>>
            /\ LET l     == Head(check.denied)
                   retry == CheckSync(Undo(check.log, check.allowed, r), l, r)
               IN  AllowedAgain(r, l, retry) \/ Queues(r, l, retry) \/ RateLimited(r, l, retry)

(* mutant of QueueTimeout: the request leaves the queue and is told nothing *)
QueueTimeoutSilent(r) ==
  /\ request[r].stage = "queued"
  /\ Expired(request[r].waits, r)
  /\ UNCHANGED <<now, entries, registry, request>>

QueueTimeout(r) ==
  /\ request[r].stage = "queued"
  /\ Expired(request[r].waits, r)
  /\ entries' = Reported(entries, r)
  /\ request' = [request EXCEPT ![r] = Refused("RATE_LIMITED")]
  /\ UNCHANGED <<now, registry>>

(* The rules, as they are when the request is admitted; then the guardrails  *)
(* of a phase, as they are when it begins.                                 *)
GuardrailsFor(r, phase) ==
  ByPriority(Only(guardrails, {g \in Guardrails :
                                 /\ GuardrailOf[g].phase = phase
                                 /\ GuardrailOf[g].flowName \in {"*", RequestOf[r].flow}}),
             GuardrailOf)

Begin(r, stage) ==
  LET run == GuardrailsFor(r, stage)
  IN  request' = [request EXCEPT ![r].stage = stage, ![r].rest = run,
                                 ![r].lasting = @ \cup ToSet(run)]

Finish(r) == request' = [request EXCEPT ![r].stage = "done"]

(* A trigger goes on to its input guardrails, a resume to the handler and    *)
(* its output guardrails.                                                  *)
PassesRules(r) ==
  /\ request[r].stage = "admitted"
  /\ EvaluateRules(rules, RequestOf[r].operation).action # "deny"
  /\ CASE RequestOf[r].operation = "trigger" -> Begin(r, "input")
       [] RequestOf[r].operation = "resume"  -> Begin(r, "output")
       [] OTHER -> Finish(r)
  /\ UNCHANGED <<limiter, registry>>

DeniedByRule(r) ==
  /\ request[r].stage = "admitted"
  /\ EvaluateRules(rules, RequestOf[r].operation).action = "deny"
  /\ request' = [request EXCEPT ![r].stage = "refused", ![r].code = "POLICY_DENIED"]
  /\ UNCHANGED <<limiter, registry>>

(***************************************************************************)
(* runGuardrails                                                           *)
(***************************************************************************)

Guarding(r) == request[r].stage \in {"input", "output"} /\ request[r].rest # <<>>

(* Blocking results, and errors unless the guardrail's failure mode is pass *)
Blocks(g, result) == \/ result \in {"block", "invalid"}
                     \/ result = "throws" /\ GuardrailOf[g].failureMode = "block"

(* mutant of LetsThrough: the list is read again at every turn, and the      *)
(* position kept                                                           *)
LetsThroughLive(r, result) ==
  LET g    == Head(request[r].rest)
      done == {h \in request[r].seen : GuardrailOf[h].phase = request[r].stage}
      live == GuardrailsFor(r, request[r].stage)
  IN  /\ Guarding(r)
      /\ ~Blocks(g, result)
      /\ request' = [request EXCEPT ![r].rest = SubSeq(live, Cardinality(done) + 2, Len(live)),
                                    ![r].seen = @ \cup {g}]
      /\ UNCHANGED <<limiter, registry>>

LetsThrough(r, result) ==
  LET g == Head(request[r].rest)
  IN  /\ Guarding(r)
      /\ ~Blocks(g, result)
      /\ request' = [request EXCEPT ![r].rest = Tail(@), ![r].seen = @ \cup {g}]
      /\ UNCHANGED <<limiter, registry>>

Blocked(r, result) ==
  /\ Guarding(r)
  /\ Blocks(Head(request[r].rest), result)
  /\ request' = [request EXCEPT ![r].stage = "refused", ![r].code = "GUARDRAIL_BLOCKED"]
  /\ UNCHANGED <<limiter, registry>>

(* The guardrails of a phase are done: the handler runs between the two. *)
PhaseDone(r) ==
  /\ request[r].rest = <<>>
  /\ \/ request[r].stage = "input" /\ Begin(r, "output")
     \/ request[r].stage = "output" /\ Finish(r)
  /\ UNCHANGED <<limiter, registry>>

(***************************************************************************)
(* Registration                                                            *)
(***************************************************************************)

AddPolicy(n) ==
  /\ n \in (Rules \cap Changes) \ ToSet(rules)
  /\ rules' = Append(rules, n)
  /\ UNCHANGED <<limiter, request, rateLimits, guardrails, accessPolicies>>

RemovePolicy(n) ==
  /\ n \in ToSet(rules) \cap Changes
  /\ rules' = Without(rules, n)
  /\ UNCHANGED <<limiter, request, rateLimits, guardrails, accessPolicies>>

AddGuardrail(g) ==
  /\ g \in (Guardrails \cap Changes) \ ToSet(guardrails)
  /\ guardrails' = Append(guardrails, g)
  /\ UNCHANGED <<limiter, request, rateLimits, rules, accessPolicies>>

RemoveGuardrail(g) ==
  /\ g \in ToSet(guardrails) \cap Changes
  /\ guardrails' = Without(guardrails, g)
  /\ request' = [r \in Requests |-> [request[r] EXCEPT !.lasting = @ \ {g}]]
  /\ UNCHANGED <<limiter, rateLimits, rules, accessPolicies>>

AddRateLimit(l) ==
  /\ l \in (Limits \cap Changes) \ ToSet(rateLimits)
  /\ rateLimits' = Append(rateLimits, l)
  /\ UNCHANGED <<limiter, request, rules, guardrails, accessPolicies>>

(* removeRateLimit admits everybody who waits for the limit. *)
RemoveRateLimit(l) ==
  /\ l \in ToSet(rateLimits) \cap Changes
  /\ rateLimits' = Without(rateLimits, l)
  /\ entries' = ReleaseQueued(entries, l)
  /\ Dequeue(l, Len(queues[l]))
  /\ request' = [r \in Requests |->
                   IF request[r].stage = "queued" /\ request[r].waits = l
                     THEN [Admitted({l}) EXCEPT !.waits = l] ELSE request[r]]
  /\ UNCHANGED <<now, rules, guardrails, accessPolicies>>

SetAccessPolicy(i) ==
  /\ i \in (DOMAIN AccessPolicyOf \cap Changes) \ DOMAIN accessPolicies
  /\ accessPolicies' = [j \in DOMAIN accessPolicies \cup {i} |-> AccessPolicyOf[j]]
  /\ UNCHANGED <<limiter, request, rateLimits, rules, guardrails>>

RemoveAccessPolicy(i) ==
  /\ i \in DOMAIN accessPolicies \cap Changes
  /\ accessPolicies' = [j \in DOMAIN accessPolicies \ {i} |-> accessPolicies[j]]
  /\ UNCHANGED <<limiter, request, rateLimits, rules, guardrails>>

(***************************************************************************)
(* The specification                                                       *)
(***************************************************************************)

Clock ==
  /\ now < MaxTime
  /\ now' = now + 1
  /\ UNCHANGED <<entries, queues, registry, request>>

Change ==
  /\ changes < MaxChanges
  /\ changes' = changes + 1
  /\ \/ \E n \in Rules : AddPolicy(n) \/ RemovePolicy(n)
     \/ \E g \in Guardrails : AddGuardrail(g) \/ RemoveGuardrail(g)
     \/ \E l \in Limits : AddRateLimit(l) \/ RemoveRateLimit(l)
     \/ \E i \in DOMAIN AccessPolicyOf : SetAccessPolicy(i) \/ RemoveAccessPolicy(i)

Ask(r) == Denied(r) \/ Limit(r)

Proceed(r) ==
  \/ QueueTimeout(r) \/ PassesRules(r) \/ DeniedByRule(r) \/ PhaseDone(r)
  \/ \E result \in GuardrailResult : LetsThrough(r, result) \/ Blocked(r, result)

Next == \/ Clock \/ Change
        \/ \E r \in Requests : Ask(r) \/ Proceed(r)

Spec == Init /\ [][Next]_vars

(* Queue timers fire, rules and guardrails answer. *)
Fairness == \A r \in Requests : WF_vars(Proceed(r))

FairSpec == Spec /\ Fairness
=============================================================================
