----------------------------- MODULE ModelRouter ------------------------------
(***************************************************************************)
(* The model router (class ModelRouter) and the circuit breaker it keeps   *)
(* for each provider.  Requests run side by side: each tries the providers *)
(* that were available when it was routed, one after the other, retries a  *)
(* provider on a transient error, and reports every outcome to the breaker *)
(* of the provider, however much that breaker has changed since.           *)
(*                                                                         *)
(* A routing strategy may order the providers in any way, so the next one  *)
(* is any of those not tried yet.  Providers are external: they answer,    *)
(* fail, or fail in a way worth retrying.                                  *)
(***************************************************************************)
EXTENDS Integers, FiniteSets

CONSTANTS
  Providers,
  Streaming,      \* the providers that have stream() of their own
  Requests,       \* callers, each with one request at a time
  NoProvider,
  Threshold,      \* failureThreshold
  MaxFallback,    \* maxFallbackAttempts
  MaxAttempts     \* RETRY_MAX_ATTEMPTS

ASSUME ProvidersAssumption == Streaming \subseteq Providers /\ NoProvider \notin Providers
ASSUME FiniteAssumption    == IsFiniteSet(Providers)
ASSUME ThresholdAssumption == Threshold \in Nat \ {0}
ASSUME FallbackAssumption  == MaxFallback \in Nat
ASSUME AttemptsAssumption  == MaxAttempts \in Nat \ {0}

VARIABLES
  breaker,        \* per provider: [state, failures, cooling], the last telling
                  \* whether cooldownTimer is armed
  request,        \* per caller: [phase, provider, attempt, rest, left, override]
  streak,         \* history: failures of a provider in a row, as callers saw
                  \* them, counted up to Threshold
  down

routerVars == <<breaker, request, streak, down>>

(***************************************************************************)
(* The circuit breaker.  failures is compared with the threshold only, so  *)
(* counting stops there.                                                   *)
(***************************************************************************)

Count(n) == IF n < Threshold THEN n + 1 ELSE Threshold

Healthy     == [state |-> "healthy", failures |-> 0, cooling |-> FALSE]
Trip(b)     == [b EXCEPT !.state = "unhealthy", !.cooling = TRUE]
HalfOpen(b) == [b EXCEPT !.state = "half_open", !.cooling = FALSE]

RecordSuccess(b) ==
  IF b.state = "half_open" THEN Healthy ELSE [b EXCEPT !.failures = 0]

(* mutants of RecordFailure: a probe that fails starts no new cool-down; the *)
(* breaker trips one failure too late                                       *)
RecordFailureNoCooldown(b) ==
  LET counted == [b EXCEPT !.failures = Count(@)]
  IN  IF b.state = "half_open" THEN [b EXCEPT !.state = "unhealthy"]
      ELSE IF b.state = "healthy" /\ counted.failures = Threshold THEN Trip(counted)
      ELSE counted

RecordFailureLate(b) ==
  LET counted == [b EXCEPT !.failures = Count(@)]
  IN  IF b.state = "half_open" THEN Trip(b)
      ELSE IF b.state = "healthy" /\ b.failures = Threshold THEN Trip(counted)
      ELSE counted

RecordFailure(b) ==
  LET counted == [b EXCEPT !.failures = Count(@)]
  IN  IF b.state = "half_open" THEN Trip(b)
      ELSE IF b.state = "healthy" /\ counted.failures = Threshold THEN Trip(counted)
      ELSE counted

IsAvailable(b) == b.state \in {"healthy", "half_open"}

(***************************************************************************)
(* Requests                                                                *)
(***************************************************************************)

IdleRequest == [phase |-> "idle", provider |-> NoProvider, attempt |-> 0, rest |-> {},
                left |-> 0, override |-> FALSE]

RouterInit ==
  /\ breaker = [p \in Providers |-> Healthy]
  /\ request = [r \in Requests |-> IdleRequest]
  /\ streak = [p \in Providers |-> 0]
  /\ down = FALSE

Available(b) == {p \in Providers : IsAvailable(b[p])}
Least(m, n)  == IF m < n THEN m ELSE n

(* The first attempt at provider p, with rest and left to fall back on *)
Asking(p, rest, left) ==
  [phase |-> "asking", provider |-> p, attempt |-> 1, rest |-> rest, left |-> left,
   override |-> FALSE]

(* Route a request by the breakers b: an attempt at any available provider,  *)
(* or, when there is none, NO_HEALTHY_PROVIDERS                            *)
Routes(b) ==
  LET n == Least(Cardinality(Available(b)), MaxFallback + 1)
  IN  IF Available(b) = {} THEN {IdleRequest}
      ELSE {Asking(p, Available(b) \ {p}, n - 1) : p \in Available(b)}

(* mutant of Fallbacks: the override is kept when the request is routed *)
FallbacksKeepOverride(q, b) ==
  IF q.override THEN {[s EXCEPT !.override = s.phase # "idle"] : s \in Routes(b)}
  ELSE IF q.left = 0 THEN {IdleRequest}
  ELSE {Asking(p, q.rest \ {p}, q.left - 1) : p \in q.rest}

(* What may follow the failure of a provider: normal routing after an        *)
(* override, the next provider, or AllProvidersFailedError                 *)
Fallbacks(q, b) ==
  IF q.override THEN Routes(b)
  ELSE IF q.left = 0 THEN {IdleRequest}
  ELSE {Asking(p, q.rest \ {p}, q.left - 1) : p \in q.rest}

Become(r, q) == request' = [request EXCEPT ![r] = q]

Succeeded(p) ==
  /\ breaker' = [breaker EXCEPT ![p] = RecordSuccess(@)]
  /\ streak' = [streak EXCEPT ![p] = 0]

(* complete() *)
Complete(r) ==
  /\ request[r] = IdleRequest
  /\ \E q \in Routes(breaker) : Become(r, q)
  /\ UNCHANGED <<breaker, streak, down>>

(* complete() with a provider override: whatever the breaker says *)
CompleteWith(r, p) ==
  /\ request[r] = IdleRequest
  /\ Become(r, [Asking(p, {}, 0) EXCEPT !.override = TRUE])
  /\ UNCHANGED <<breaker, streak, down>>

Answers(r) ==
  /\ request[r].phase = "asking"
  /\ Succeeded(request[r].provider)
  /\ Become(r, IdleRequest)
  /\ UNCHANGED down

(* completeWithRetry: a transient error is followed by another attempt. *)
FailsTransiently(r) ==
  /\ request[r].phase = "asking"
  /\ request[r].attempt < MaxAttempts
  /\ Become(r, [request[r] EXCEPT !.phase = "backoff"])
  /\ UNCHANGED <<breaker, streak, down>>

BackedOff(r) ==
  /\ request[r].phase = "backoff"
  /\ Become(r, [request[r] EXCEPT !.phase = "asking", !.attempt = @ + 1])
  /\ UNCHANGED <<breaker, streak, down>>

(* An error that is not retried, or not any more *)
Fails(r) ==
  LET p == request[r].provider
  IN  /\ request[r].phase = "asking"
      /\ breaker' = [breaker EXCEPT ![p] = RecordFailure(@)]
      /\ streak' = [streak EXCEPT ![p] = Count(@)]
      /\ \E q \in Fallbacks(request[r], breaker') : Become(r, q)
      /\ UNCHANGED down

(***************************************************************************)
(* Streams                                                                 *)
(***************************************************************************)

(* The choices stream() has: without an override the available providers *)
Candidates == {Available(breaker)} \cup {{p} : p \in Providers}

(* The providers of threw throw at once; the next one, if the fallbacks      *)
(* suffice, hands out a stream.  One without stream() of its own is asked   *)
(* to complete, and succeeds as far as its breaker is told.                 *)
Tries(r, among, threw) ==
  LET b == [p \in Providers |->
              IF p \in threw THEN RecordFailure(breaker[p]) ELSE breaker[p]]
      mayTry == Least(Cardinality(among), MaxFallback + 1)
  IN  /\ streak' = [p \in Providers |->
                      IF p \in threw THEN Count(streak[p]) ELSE streak[p]]
      /\ \/ /\ Cardinality(threw) = mayTry
            /\ breaker' = b
            /\ UNCHANGED request
         \/ /\ Cardinality(threw) < mayTry
            /\ \E p \in among \ threw :
                 /\ breaker' = IF p \in Streaming THEN b
                               ELSE [b EXCEPT ![p] = RecordSuccess(@)]
                 /\ Become(r, [Asking(p, {}, 0) EXCEPT !.phase = "streaming"])

Stream(r) ==
  /\ request[r] = IdleRequest
  /\ \E among \in Candidates : \E threw \in SUBSET among : Tries(r, among, threw)
  /\ UNCHANGED down

StreamDone(r) ==
  /\ request[r].phase = "streaming"
  /\ Succeeded(request[r].provider)
  /\ Become(r, IdleRequest)
  /\ UNCHANGED down

StreamLost(r) ==
  LET p == request[r].provider
  IN  /\ request[r].phase = "streaming"
      /\ breaker' = [breaker EXCEPT ![p] = RecordFailure(@)]
      /\ streak' = [streak EXCEPT ![p] = Count(@)]
      /\ Become(r, IdleRequest)
      /\ UNCHANGED down

(***************************************************************************)
(* Timers and shutdown                                                     *)
(***************************************************************************)

CooldownEnds(p) ==
  /\ breaker[p].cooling
  /\ breaker' = [breaker EXCEPT ![p] = HalfOpen(@)]
  /\ UNCHANGED <<request, streak, down>>

(* shutdown clears the timers; requests under way go on. *)
Shutdown ==
  /\ ~down
  /\ down' = TRUE
  /\ breaker' = [p \in Providers |-> [breaker[p] EXCEPT !.cooling = FALSE]]
  /\ UNCHANGED <<request, streak>>

RequestStep(r) ==
  \/ Answers(r) \/ FailsTransiently(r) \/ Fails(r) \/ BackedOff(r)
  \/ StreamDone(r) \/ StreamLost(r)

RouterNext ==
  \/ \E r \in Requests :
       \/ Complete(r) \/ Stream(r) \/ RequestStep(r)
       \/ \E p \in Providers : CompleteWith(r, p)
  \/ \E p \in Providers : CooldownEnds(p)
  \/ Shutdown

RouterSpec == RouterInit /\ [][RouterNext]_routerVars

(* Providers answer in the end, and timers fire; callers may stop asking. *)
RouterFairness ==
  /\ \A r \in Requests : WF_routerVars(RequestStep(r))
  /\ \A p \in Providers : WF_routerVars(CooldownEnds(p))

RouterFairSpec == RouterSpec /\ RouterFairness
=============================================================================
