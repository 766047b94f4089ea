---------------------------- MODULE ManagedAdapter ----------------------------
(***************************************************************************)
(* One adapter connection (class ManagedAdapter): its state, timers and    *)
(* circuit breaker as a record, and what the code does to it between two   *)
(* awaits.  The MCP client is external: it answers, throws or hangs.       *)
(***************************************************************************)
EXTENDS Integers

CONSTANTS
  RetryAttempts,    \* reconnections in a row
  FailureThreshold  \* of the circuit breaker

ASSUME AttemptsAssumption  == RetryAttempts \in Nat
ASSUME ThresholdAssumption == FailureThreshold \in Nat \ {0}

AdapterState == {"disconnected", "connecting", "connected", "error"}

(* intervals and timeouts count the armed health check and reconnection      *)
(* timers, health and reconnect tell whether the field holds the last one. *)
(* connect is the performConnect under way: of connect(), of a reconnection *)
(* or none, and listing holds once it has its client; checks are the health  *)
(* checks that wait for their answer.                                      *)
(* late (history) holds once a disconnect found one of these under way, and *)
(* stuck (history) once a reconnection was not scheduled for an open breaker. *)
Adapter ==
  [state : AdapterState, client : BOOLEAN,
   intervals : Nat, health : BOOLEAN, timeouts : Nat, reconnect : BOOLEAN,
   attempt : Nat, breaker : {"healthy", "unhealthy", "half_open"}, failures : Nat,
   connect : {"none", "first", "retry"}, listing : BOOLEAN, checks : Nat, late : BOOLEAN, stuck : BOOLEAN]

NewAdapter ==
  [state |-> "disconnected", client |-> FALSE,
   intervals |-> 0, health |-> FALSE, timeouts |-> 0, reconnect |-> FALSE,
   attempt |-> 0, breaker |-> "healthy", failures |-> 0,
   connect |-> "none", listing |-> FALSE, checks |-> 0, late |-> FALSE, stuck |-> FALSE]

(***************************************************************************)
(* Circuit breaker                                                         *)
(***************************************************************************)

IsAvailable(a) == a.breaker # "unhealthy"

RecordSuccess(a) ==
  [a EXCEPT !.failures = 0,
            !.breaker  = IF @ = "half_open" THEN "healthy" ELSE @]

(* The count matters only while the breaker is closed, and closing resets it: *)
(* it is 0 when it is open.                                                *)
RecordFailure(a) ==
  LET trips == \/ a.breaker = "half_open"
               \/ a.breaker = "healthy" /\ a.failures + 1 >= FailureThreshold
  IN  [a EXCEPT !.failures = IF a.breaker = "healthy" /\ ~trips THEN @ + 1 ELSE 0,
                !.breaker  = IF trips THEN "unhealthy" ELSE @]

CooldownEnds(a) == [a EXCEPT !.breaker = "half_open"]

(***************************************************************************)
(* Timers                                                                  *)
(***************************************************************************)

StartHealthCheckTimer(a) == [a EXCEPT !.intervals = @ + 1, !.health = TRUE]

StopHealthCheckTimer(a) ==
  IF a.health THEN [a EXCEPT !.intervals = @ - 1, !.health = FALSE] ELSE a

StopReconnectTimer(a) ==
  IF a.reconnect THEN [a EXCEPT !.timeouts = @ - 1, !.reconnect = FALSE] ELSE a

StartReconnection(a) ==
  IF a.attempt >= RetryAttempts THEN a
  ELSE IF ~IsAvailable(a) THEN [a EXCEPT !.stuck = TRUE]
  ELSE [a EXCEPT !.timeouts = @ + 1, !.reconnect = TRUE, !.stuck = FALSE]

(* mutant of ToError: the health check timer goes on *)
ToErrorTicking(a) ==
  IF a.state = "connected" THEN StartReconnection([a EXCEPT !.state = "error"])
                           ELSE [a EXCEPT !.state = "error"]

(* transition('error'): only a connection that was up is taken up again. *)
ToError(a) ==
  IF a.state = "connected"
    THEN StartReconnection(StopHealthCheckTimer([a EXCEPT !.state = "error"]))
    ELSE [a EXCEPT !.state = "error"]

(***************************************************************************)
(* connect                                                                 *)
(***************************************************************************)

Connect(a) == [a EXCEPT !.state = "connecting", !.attempt = 0, !.connect = "first"]

(* performConnect gets a client, then its tools and resources; nothing looks *)
(* whether the adapter was disconnected meanwhile.                         *)
ClientCreated(a) == [a EXCEPT !.client = TRUE, !.listing = TRUE]

Returned(a) == [a EXCEPT !.connect = "none", !.listing = FALSE]

Connected(a) ==
  LET up == StartHealthCheckTimer([Returned(a) EXCEPT !.state = "connected", !.stuck = FALSE])
  IN  IF a.connect = "retry" THEN RecordSuccess([up EXCEPT !.attempt = 0]) ELSE up

(* mutant of ReconnectFailed: the next attempt is not scheduled *)
ReconnectFailedForGood(a) == RecordFailure([a EXCEPT !.state = "error", !.attempt = @ + 1])

(* The catch of attemptReconnect *)
ReconnectFailed(a) ==
  StartReconnection(RecordFailure([a EXCEPT !.state = "error", !.attempt = @ + 1]))

(* createClient or a listing throws. *)
ConnectFailed(a) ==
  IF a.connect = "retry" THEN ReconnectFailed(Returned(a)) ELSE ToError(Returned(a))

(* The callback for the tools throws, after the transition to connected. *)
DiscoveryFailed(a) == ConnectFailed([a EXCEPT !.state = "connected"])

(* The reconnection timer fires: attemptReconnect *)
AttemptReconnect(a) ==
  LET fired == [a EXCEPT !.timeouts = @ - 1, !.reconnect = FALSE]
  IN  IF a.state # "error" THEN fired
      ELSE [fired EXCEPT !.state = "connecting", !.connect = "retry"]

(***************************************************************************)
(* disconnect                                                              *)
(***************************************************************************)

(* mutant of BeginDisconnect: the health check timer is forgotten *)
BeginDisconnectTicking(a) ==
  [StopReconnectTimer(a) EXCEPT !.late = @ \/ a.connect # "none" \/ a.checks > 0]

(* Up to the first await: the client is closed while the state is unchanged. *)
BeginDisconnect(a) ==
  [StopReconnectTimer(StopHealthCheckTimer(a)) EXCEPT
     !.late = @ \/ a.connect # "none" \/ a.checks > 0]

EndDisconnect(a) == [a EXCEPT !.client = FALSE, !.state = "disconnected"]

(***************************************************************************)
(* Health checks                                                           *)
(***************************************************************************)

HealthCheck(a) == [a EXCEPT !.checks = @ + 1]

HealthCheckAnswered(a) == [a EXCEPT !.checks = @ - 1]

HealthCheckFailed(a) == ToError(RecordFailure([a EXCEPT !.checks = @ - 1]))
=============================================================================
