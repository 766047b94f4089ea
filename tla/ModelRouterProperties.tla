------------------------ MODULE ModelRouterProperties -------------------------
(***************************************************************************)
(* What the router's breakers and requests keep under concurrent requests. *)
(***************************************************************************)
EXTENDS ModelRouter

Breaker ==
  [state : {"healthy", "unhealthy", "half_open"}, failures : 0 .. Threshold, cooling : BOOLEAN]

RequestRecord ==
  [phase : {"idle", "asking", "backoff", "streaming"}, provider : Providers \cup {NoProvider},
   attempt : 0 .. MaxAttempts, rest : SUBSET Providers, left : 0 .. MaxFallback,
   override : BOOLEAN]

RouterTypeOK ==
  /\ breaker \in [Providers -> Breaker]
  /\ request \in [Requests -> RequestRecord]
  /\ \A r \in Requests :
       /\ request[r].phase # "idle" => request[r].provider \in Providers
       /\ request[r].phase = "backoff" => request[r].attempt < MaxAttempts
  /\ streak \in [Providers -> 0 .. Threshold]
  /\ down \in BOOLEAN

(* A provider taken out of rotation always has the timer that brings it      *)
(* back, and no other provider has one, however late the reports that reach *)
(* its breaker: an unhealthy breaker without a timer would never be probed. *)
CooldownArmed ==
  ~down => \A p \in Providers : breaker[p].state = "unhealthy" <=> breaker[p].cooling

(* A provider that streams natively is never in normal rotation after        *)
(* Threshold failures in a row.  (For the others stream() reports a success *)
(* before the provider has answered.)                                      *)
Trusted ==
  \A p \in Streaming : breaker[p].state = "healthy" => streak[p] < Threshold

(* Health changes one legal step at a time: a breaker opens after Threshold  *)
(* failures in a row or a failed probe, is probed only after its cool-down, *)
(* and a natively streaming provider is healthy again only through a        *)
(* success.                                                                *)
HealthStep(p) ==
  LET from == breaker[p].state
      to   == breaker'[p].state
  IN  \/ from = to
      \/ from = "healthy" /\ to = "unhealthy" /\ streak'[p] = Threshold
      \/ from = "unhealthy" /\ to = "half_open" /\ breaker[p].cooling
      \/ from = "half_open" /\ to = "unhealthy" /\ streak'[p] > 0
      \/ from = "half_open" /\ to = "healthy" /\ (p \in Streaming => streak'[p] = 0)

HealthSteps == [][\A p \in Providers : HealthStep(p)]_routerVars

(* Every request ends: overrides, fallbacks and retries cannot go round for  *)
(* ever while breakers close and open.                                     *)
RequestsEnd == \A r \in Requests : (request[r].phase # "idle") ~> (request[r].phase = "idle")

(* An unhealthy provider is let in again, unless the router is shut down.    *)
Recovers ==
  \A p \in Providers :
    (breaker[p].state = "unhealthy") ~> (breaker[p].state # "unhealthy" \/ down)
=============================================================================
