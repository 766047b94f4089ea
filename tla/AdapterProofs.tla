----------------------------- MODULE AdapterProofs ----------------------------
(***************************************************************************)
(* The adapters' safety, for any number of instances, names, callers and   *)
(* removers and any retry and breaker thresholds.  What a step may do to   *)
(* one connection is stated once, on its record (Evolves); the invariant   *)
(* then relates each record to the Map, the removals, the calls and the    *)
(* cache.                                                                  *)
(***************************************************************************)
EXTENDS AdapterProperties, FiniteSetTheorems, TLAPS

(***************************************************************************)
(* One connection                                                          *)
(***************************************************************************)

(* Its timers are those its fields hold, and a connection under way, a       *)
(* reconnection that is due and a connection that is up exclude each other. *)
Timed(a) ==
  /\ a.intervals = IF a.health THEN 1 ELSE 0
  /\ a.timeouts = IF a.reconnect THEN 1 ELSE 0
  /\ a.connect # "none" => ~a.health /\ ~a.reconnect /\ a.state # "connected"
  /\ a.reconnect => ~a.health /\ a.state # "connected"
  /\ a.reconnect \/ a.connect = "retry" => a.attempt < RetryAttempts
  /\ a.attempt <= RetryAttempts
  /\ a.listing => a.connect # "none"

(* What drives a connection that is stored and stays *)
Ready(a) ==
  /\ a.state # "disconnected"
  /\ a.connect # "first"
  /\ a.state = "connected" => a.health
  /\ a.state = "connecting" => a.connect = "retry"
  /\ a.state = "error" => \/ a.reconnect \/ a.connect = "retry"
                          \/ a.attempt = RetryAttempts \/ a.stuck

(* Nothing is left that could move it *)
Quiet(a) == ~a.health /\ ~a.reconnect /\ a.connect = "none" /\ a.checks = 0

Gone(a) == Quiet(a) /\ a.state = "disconnected" /\ ~a.client

(* What a step of a connection does to it: it keeps its type and its timers  *)
(* in order, no first connection begins, and nothing moves what is quiet.   *)
Evolves(a, b) ==
  /\ b \in Adapter
  /\ Timed(b)
  /\ b.late = a.late
  /\ a.connect # "first" => b.connect # "first"
  /\ Ready(a) => Ready(b)
  /\ Quiet(a) => Quiet(b)
  /\ Gone(a) => Gone(b)

(* The circuit breaker is of no concern to timers and connections. *)
SameButBreaker(a, b) ==
  b \in Adapter /\ \E f \in Nat, k \in {"healthy", "unhealthy", "half_open"} :
    b = [a EXCEPT !.failures = f, !.breaker = k]

LEMMA BreakerEvolves ==
  ASSUME NEW a \in Adapter, NEW b, SameButBreaker(a, b), Timed(a)
  PROVE  Evolves(a, b)
BY DEF SameButBreaker, Evolves, Timed, Ready, Quiet, Gone, Adapter

LEMMA BreakerTwice ==
  ASSUME NEW a \in Adapter, NEW b, NEW c, SameButBreaker(a, b), SameButBreaker(b, c)
  PROVE  SameButBreaker(a, c)
<1>1. PICK f \in Nat, k \in {"healthy", "unhealthy", "half_open"} :
        b = [a EXCEPT !.failures = f, !.breaker = k]
  BY DEF SameButBreaker
<1>2. PICK g \in Nat, l \in {"healthy", "unhealthy", "half_open"} :
        c = [b EXCEPT !.failures = g, !.breaker = l]
  BY DEF SameButBreaker
<1>3. c = [a EXCEPT !.failures = g, !.breaker = l]
  BY <1>1, <1>2 DEF Adapter
<1> QED
  BY <1>2, <1>3 DEF SameButBreaker

LEMMA RecordSuccessBreaker ==
  ASSUME NEW a \in Adapter
  PROVE  SameButBreaker(a, RecordSuccess(a))
BY DEF RecordSuccess, SameButBreaker, Adapter

LEMMA RecordFailureBreaker ==
  ASSUME NEW a \in Adapter
  PROVE  SameButBreaker(a, RecordFailure(a))
<1>1. RecordFailure(a) = [a EXCEPT !.failures = RecordFailure(a).failures,
                                   !.breaker  = RecordFailure(a).breaker]
  BY DEF RecordFailure, Adapter
<1>2. /\ RecordFailure(a).failures \in Nat
      /\ RecordFailure(a).breaker \in {"healthy", "unhealthy", "half_open"}
  BY DEF RecordFailure, Adapter
<1>3. RecordFailure(a) \in Adapter
  BY <1>2 DEF RecordFailure, Adapter
<1> QED
  BY <1>1, <1>2, <1>3 DEF SameButBreaker

LEMMA CooldownEndsBreaker ==
  ASSUME NEW a \in Adapter
  PROVE  SameButBreaker(a, CooldownEnds(a))
BY DEF CooldownEnds, SameButBreaker, Adapter

(* What the helpers set, one by one *)
LEMMA ReturnedFields ==
  ASSUME NEW a \in Adapter
  PROVE  /\ Returned(a) \in Adapter
         /\ Returned(a).connect = "none" /\ Returned(a).listing = FALSE
         /\ Returned(a).health = a.health /\ Returned(a).intervals = a.intervals
         /\ Returned(a).reconnect = a.reconnect /\ Returned(a).timeouts = a.timeouts
         /\ Returned(a).state = a.state /\ Returned(a).attempt = a.attempt
         /\ Returned(a).late = a.late
BY DEF Returned, Adapter

LEMMA StopHealthCheckTimerFields ==
  ASSUME NEW a \in Adapter, Timed(a)
  PROVE  LET b == StopHealthCheckTimer(a)
         IN  /\ b \in Adapter /\ b.health = FALSE /\ b.intervals = 0
             /\ b.reconnect = a.reconnect /\ b.timeouts = a.timeouts
             /\ b.connect = a.connect /\ b.listing = a.listing /\ b.checks = a.checks
             /\ b.state = a.state /\ b.client = a.client /\ b.attempt = a.attempt
             /\ b.late = a.late
<1>1. CASE a.health = TRUE
  <2> DEFINE c == [a EXCEPT !.intervals = 0, !.health = FALSE]
  <2>1. a.intervals = 1
    BY <1>1 DEF Timed
  <2>2. StopHealthCheckTimer(a) = c
    BY <1>1, <2>1 DEF StopHealthCheckTimer
  <2>3. /\ c \in Adapter /\ c.health = FALSE /\ c.intervals = 0
        /\ c.reconnect = a.reconnect /\ c.timeouts = a.timeouts
        /\ c.connect = a.connect /\ c.listing = a.listing /\ c.checks = a.checks
        /\ c.state = a.state /\ c.client = a.client /\ c.attempt = a.attempt
        /\ c.late = a.late
    BY DEF Adapter
  <2> HIDE DEF c
  <2> QED
    BY <2>2, <2>3
<1>2. CASE a.health = FALSE
  BY <1>2 DEF StopHealthCheckTimer, Timed
<1> QED
  BY <1>1, <1>2 DEF Adapter

LEMMA StopReconnectTimerFields ==
  ASSUME NEW a \in Adapter, Timed(a)
  PROVE  LET b == StopReconnectTimer(a)
         IN  /\ b \in Adapter /\ b.reconnect = FALSE /\ b.timeouts = 0
             /\ b.health = a.health /\ b.intervals = a.intervals
             /\ b.connect = a.connect /\ b.listing = a.listing /\ b.checks = a.checks
             /\ b.state = a.state /\ b.client = a.client /\ b.attempt = a.attempt
             /\ b.late = a.late
<1>1. CASE a.reconnect = TRUE
  <2> DEFINE c == [a EXCEPT !.timeouts = 0, !.reconnect = FALSE]
  <2>1. a.timeouts = 1
    BY <1>1 DEF Timed
  <2>2. StopReconnectTimer(a) = c
    BY <1>1, <2>1 DEF StopReconnectTimer
  <2>3. /\ c \in Adapter /\ c.reconnect = FALSE /\ c.timeouts = 0
        /\ c.health = a.health /\ c.intervals = a.intervals
        /\ c.connect = a.connect /\ c.listing = a.listing /\ c.checks = a.checks
        /\ c.state = a.state /\ c.client = a.client /\ c.attempt = a.attempt
        /\ c.late = a.late
    BY DEF Adapter
  <2> HIDE DEF c
  <2> QED
    BY <2>2, <2>3
<1>2. CASE a.reconnect = FALSE
  BY <1>2 DEF StopReconnectTimer, Timed
<1> QED
  BY <1>1, <1>2 DEF Adapter

LEMMA ClientCreatedEvolves ==
  ASSUME NEW a \in Adapter, Timed(a), a.connect # "none"
  PROVE  Evolves(a, ClientCreated(a))
BY DEF ClientCreated, Evolves, Timed, Ready, Quiet, Gone, Adapter

LEMMA ConnectedEvolves ==
  ASSUME NEW a \in Adapter, Timed(a), a.connect # "none"
  PROVE  Evolves(a, Connected(a)) /\ Ready(Connected(a))
<1> DEFINE r  == Returned(a)
           c  == [r EXCEPT !.state = "connected", !.stuck = FALSE]
           up == StartHealthCheckTimer(c)
<1>1. /\ up \in Adapter
      /\ up.intervals = 1 /\ up.health = TRUE /\ up.timeouts = 0 /\ up.reconnect = FALSE
      /\ up.connect = "none" /\ up.listing = FALSE /\ up.state = "connected"
      /\ up.attempt = a.attempt /\ up.late = a.late
  <2>1. a.intervals = 0 /\ a.timeouts = 0 /\ a.reconnect = FALSE
    BY DEF Timed, Adapter
  <2>2. /\ r \in Adapter /\ r.connect = "none" /\ r.listing = FALSE
        /\ r.intervals = 0 /\ r.timeouts = 0 /\ r.reconnect = FALSE
        /\ r.attempt = a.attempt /\ r.late = a.late
    BY <2>1, ReturnedFields
  <2> HIDE DEF r
  <2>3. /\ c \in Adapter /\ c.connect = "none" /\ c.listing = FALSE /\ c.state = "connected"
        /\ c.intervals = 0 /\ c.timeouts = 0 /\ c.reconnect = FALSE
        /\ c.attempt = a.attempt /\ c.late = a.late
    BY <2>2 DEF Adapter, AdapterState
  <2> HIDE DEF c
  <2>4. up = [c EXCEPT !.intervals = 1, !.health = TRUE]
    BY <2>3 DEF StartHealthCheckTimer
  <2> HIDE DEF up
  <2> QED
    BY <2>3, <2>4 DEF Adapter
<1>2. ~Quiet(a) /\ ~Gone(a) /\ a.attempt \in 0 .. RetryAttempts
  BY AttemptsAssumption DEF Quiet, Gone, Timed, Adapter
<1>3. CASE a.connect # "retry"
  <2>1. Connected(a) = up
    BY <1>3 DEF Connected
  <2> HIDE DEF up
  <2> QED
    BY <1>1, <1>2, <2>1 DEF Evolves, Timed, Ready
<1>4. CASE a.connect = "retry"
  <2> DEFINE again == [up EXCEPT !.attempt = 0]
  <2>1. Connected(a) = RecordSuccess(again)
    BY <1>4 DEF Connected
  <2> HIDE DEF up
  <2>2. /\ again \in Adapter
        /\ Timed(again) /\ Ready(again) /\ again.late = a.late /\ again.connect = "none"
    BY <1>1, <1>2, AttemptsAssumption DEF Timed, Ready, Adapter
  <2>3. Evolves(again, RecordSuccess(again))
    BY <2>2, RecordSuccessBreaker, BreakerEvolves
  <2> QED
    BY <1>2, <2>1, <2>2, <2>3 DEF Evolves
<1> QED
  BY <1>3, <1>4

LEMMA AttemptReconnectEvolves ==
  ASSUME NEW a \in Adapter, Timed(a), a.timeouts > 0
  PROVE  Evolves(a, AttemptReconnect(a))
<1> DEFINE fired == [a EXCEPT !.timeouts = 0, !.reconnect = FALSE]
<1>1. /\ a.reconnect = TRUE /\ a.timeouts = 1 /\ ~Quiet(a) /\ ~Gone(a) /\ a.connect = "none"
      /\ a.attempt < RetryAttempts /\ ~a.health /\ a.intervals = 0 /\ a.state # "connected"
  BY DEF Timed, Quiet, Gone, Adapter
<1>2. fired \in Adapter /\ fired.timeouts = 0
  BY <1>1 DEF Adapter
<1>3. CASE a.state # "error"
  <2>1. AttemptReconnect(a) = fired
    BY <1>1, <1>3 DEF AttemptReconnect
  <2> QED
    BY <1>1, <1>2, <1>3, <2>1 DEF Evolves, Timed, Ready, Adapter
<1>4. CASE a.state = "error"
  <2>1. AttemptReconnect(a) = [fired EXCEPT !.state = "connecting", !.connect = "retry"]
    BY <1>1, <1>4 DEF AttemptReconnect
  <2>2. /\ fired.reconnect = FALSE /\ fired.health = a.health /\ fired.intervals = 0
        /\ fired.attempt = a.attempt /\ fired.late = a.late
    BY <1>1 DEF Adapter
  <2> HIDE DEF fired
  <2> QED
    BY <1>1, <1>2, <2>1, <2>2 DEF Evolves, Timed, Ready, Adapter, AdapterState
<1> QED
  BY <1>3, <1>4

LEMMA HealthCheckEvolves ==
  ASSUME NEW a \in Adapter, Timed(a), a.intervals > 0
  PROVE  Evolves(a, HealthCheck(a))
BY DEF HealthCheck, Evolves, Timed, Ready, Quiet, Gone, Adapter

LEMMA HealthCheckAnsweredEvolves ==
  ASSUME NEW a \in Adapter, Timed(a), a.checks > 0
  PROVE  Evolves(a, HealthCheckAnswered(a))
BY DEF HealthCheckAnswered, Evolves, Timed, Ready, Quiet, Gone, Adapter

LEMMA EvolvesTransitive ==
  ASSUME NEW a, NEW b, NEW c, Evolves(a, b), Evolves(b, c)
  PROVE  Evolves(a, c)
BY DEF Evolves

(* A connection that is down, with attempts left or not *)
LEMMA StartReconnectionReady ==
  ASSUME NEW a \in Adapter, a.state = "error", a.connect = "none", a.listing = FALSE,
         a.health = FALSE, a.reconnect = FALSE, a.intervals = 0, a.timeouts = 0,
         a.attempt \in 0 .. RetryAttempts
  PROVE  LET b == StartReconnection(a)
         IN  b \in Adapter /\ Timed(b) /\ Ready(b) /\ b.late = a.late /\ b.connect = "none"
<1> DEFINE b == StartReconnection(a)
<1>1. CASE a.attempt >= RetryAttempts
  <2>1. b = a /\ a.attempt = RetryAttempts
    BY <1>1, AttemptsAssumption DEF StartReconnection
  <2> QED
    BY <2>1, AttemptsAssumption DEF Timed, Ready
<1>2. CASE a.attempt < RetryAttempts /\ ~IsAvailable(a)
  <2>1. b = [a EXCEPT !.stuck = TRUE]
    BY <1>2, AttemptsAssumption DEF StartReconnection
  <2> HIDE DEF b
  <2>2. /\ b \in Adapter /\ b.state = "error" /\ b.connect = "none" /\ b.listing = FALSE
        /\ b.health = FALSE /\ b.reconnect = FALSE /\ b.intervals = 0 /\ b.timeouts = 0
        /\ b.attempt = a.attempt /\ b.stuck = TRUE /\ b.late = a.late
    BY <2>1 DEF Adapter
  <2>3. Timed(b) /\ Ready(b)
    BY <2>2, AttemptsAssumption DEF Timed, Ready
  <2> QED
    BY <2>2, <2>3 DEF b
<1>3. CASE a.attempt < RetryAttempts /\ IsAvailable(a)
  <2>1. b = [a EXCEPT !.timeouts = 1, !.reconnect = TRUE, !.stuck = FALSE]
    BY <1>3, AttemptsAssumption DEF StartReconnection
  <2> HIDE DEF b
  <2>2. /\ b \in Adapter /\ b.state = "error" /\ b.connect = "none" /\ b.listing = FALSE
        /\ b.health = FALSE /\ b.reconnect = TRUE /\ b.intervals = 0 /\ b.timeouts = 1
        /\ b.attempt = a.attempt /\ b.late = a.late
    BY <2>1 DEF Adapter
  <2>3. Timed(b) /\ Ready(b)
    BY <1>3, <2>2, AttemptsAssumption DEF Timed, Ready
  <2> QED
    BY <2>2, <2>3 DEF b
<1> QED
  BY <1>1, <1>2, <1>3, AttemptsAssumption

(* transition('error') and the reconnection that may follow *)
LEMMA ToErrorFalls ==
  ASSUME NEW a \in Adapter, Timed(a)
  PROVE  /\ ToError(a) \in Adapter
         /\ Timed(ToError(a))
         /\ ToError(a).late = a.late
         /\ ToError(a).connect = a.connect
         /\ Ready(a) => Ready(ToError(a))
<1>1. CASE a.state # "connected"
  BY <1>1 DEF ToError, Timed, Ready, Adapter, AdapterState
<1>2. CASE a.state = "connected"
  <2> DEFINE e    == [a EXCEPT !.state = "error"]
             down == StopHealthCheckTimer(e)
  <2>1. /\ down \in Adapter
        /\ down.intervals = 0 /\ down.health = FALSE /\ down.timeouts = 0 /\ down.reconnect = FALSE
        /\ down.connect = "none" /\ down.listing = FALSE /\ down.state = "error"
        /\ down.attempt = a.attempt /\ down.late = a.late /\ a.connect = "none"
    <3>1. /\ e \in Adapter /\ Timed(e) /\ e.state = "error" /\ e.timeouts = 0 /\ e.reconnect = FALSE
          /\ e.connect = "none" /\ e.listing = FALSE /\ e.attempt = a.attempt /\ e.late = a.late
          /\ a.connect = "none"
      BY <1>2 DEF Timed, Adapter, AdapterState
    <3> HIDE DEF e
    <3> QED
      BY <3>1, StopHealthCheckTimerFields
  <2>2. a.attempt \in 0 .. RetryAttempts
    BY AttemptsAssumption DEF Timed, Adapter
  <2>3. ToError(a) = StartReconnection(down)
    BY <1>2 DEF ToError
  <2> HIDE DEF down
  <2> QED
    BY <2>1, <2>2, <2>3, StartReconnectionReady
<1> QED
  BY <1>1, <1>2

LEMMA HealthCheckFailedEvolves ==
  ASSUME NEW a \in Adapter, Timed(a), a.checks > 0
  PROVE  Evolves(a, HealthCheckFailed(a))
<1> DEFINE r == HealthCheckAnswered(a)
           f == RecordFailure(r)
<1>1. r \in Adapter /\ Evolves(a, r)
  BY HealthCheckAnsweredEvolves DEF Evolves
<1>2. f \in Adapter /\ Evolves(r, f)
  BY <1>1, RecordFailureBreaker, BreakerEvolves DEF Evolves
<1>3. f \in Adapter /\ Evolves(a, f)
  BY <1>1, <1>2, EvolvesTransitive
<1>4. ~Quiet(a) /\ ~Gone(a)
  BY DEF Quiet, Gone, Adapter
<1>5. HealthCheckFailed(a) = ToError(f)
  BY DEF HealthCheckFailed, HealthCheckAnswered
<1> HIDE DEF f
<1> QED
  BY <1>3, <1>4, <1>5, ToErrorFalls DEF Evolves

LEMMA ReconnectFailedEvolves ==
  ASSUME NEW a \in Adapter, Timed(a), a.connect = "retry"
  PROVE  Evolves(a, ReconnectFailed(Returned(a)))
<1> DEFINE q == Returned(a)
           r == [q EXCEPT !.state = "error", !.attempt = a.attempt + 1]
           f == RecordFailure(r)
<1>0. /\ q \in Adapter /\ q.connect = "none" /\ q.listing = FALSE /\ q.attempt = a.attempt
      /\ q.health = FALSE /\ q.reconnect = FALSE /\ q.intervals = 0 /\ q.timeouts = 0
      /\ q.late = a.late
  BY ReturnedFields DEF Timed, Adapter
<1> HIDE DEF q
<1>1. r \in Adapter
  BY <1>0, a.attempt + 1 \in Nat DEF Adapter, AdapterState
<1>2. f \in Adapter /\ \E n \in Nat, k \in {"healthy", "unhealthy", "half_open"} :
        f = [r EXCEPT !.failures = n, !.breaker = k]
  BY <1>1, RecordFailureBreaker DEF SameButBreaker
<1>3. /\ f.state = "error" /\ f.attempt = a.attempt + 1 /\ f.connect = "none" /\ f.listing = FALSE
      /\ f.health = FALSE /\ f.reconnect = FALSE /\ f.intervals = 0 /\ f.timeouts = 0
      /\ f.late = a.late
  <2>1. /\ r.state = "error" /\ r.attempt = a.attempt + 1 /\ r.connect = "none" /\ r.listing = FALSE
        /\ r.health = FALSE /\ r.reconnect = FALSE /\ r.intervals = 0 /\ r.timeouts = 0
        /\ r.late = a.late
    BY <1>0 DEF Adapter
  <2> HIDE DEF r, f
  <2> QED
    BY <1>1, <1>2, <2>1 DEF Adapter
<1>4. ReconnectFailed(Returned(a)) = StartReconnection(f)
  BY <1>0 DEF ReconnectFailed, q
<1>5. a.attempt + 1 \in 0 .. RetryAttempts /\ ~Quiet(a) /\ ~Gone(a)
  BY AttemptsAssumption DEF Timed, Quiet, Gone, Adapter
<1>6. f \in Adapter
  BY <1>2
<1> HIDE DEF f
<1> DEFINE b == StartReconnection(f)
<1>7. b \in Adapter /\ Timed(b) /\ Ready(b) /\ b.late = f.late /\ b.connect = "none"
  BY <1>3, <1>5, <1>6, StartReconnectionReady
<1>8. f.late = a.late /\ ~Quiet(a) /\ ~Gone(a)
  BY <1>3, <1>5
<1> HIDE DEF b
<1>9. Evolves(a, b)
  BY <1>7, <1>8 DEF Evolves
<1> QED
  BY <1>4, <1>9 DEF b

LEMMA ConnectFailedEvolves ==
  ASSUME NEW a \in Adapter, Timed(a), a.connect # "none"
  PROVE  Evolves(a, ConnectFailed(a))
<1>1. CASE a.connect = "retry"
  BY <1>1, ReconnectFailedEvolves DEF ConnectFailed
<1>2. CASE a.connect # "retry"
  <2>1. Returned(a) \in Adapter /\ Timed(Returned(a))
    BY DEF Returned, Timed, Adapter
  <2>2. /\ Returned(a).late = a.late
        /\ Returned(a).connect = "none"
        /\ ~Ready(a) /\ ~Quiet(a) /\ ~Gone(a)
    BY <1>2 DEF Returned, Ready, Quiet, Gone, Adapter
  <2> QED
    BY <1>2, <2>1, <2>2, ToErrorFalls DEF ConnectFailed, Evolves
<1> QED
  BY <1>1, <1>2

LEMMA DiscoveryFailedEvolves ==
  ASSUME NEW a \in Adapter, Timed(a), a.connect # "none"
  PROVE  Evolves(a, DiscoveryFailed(a))
<1> DEFINE up == [a EXCEPT !.state = "connected"]
<1>1. CASE a.connect = "retry"
  <2>1. ReconnectFailed(Returned(up)) = ReconnectFailed(Returned(a))
    BY DEF ReconnectFailed, Returned, Adapter
  <2>2. up.connect = "retry"
    BY <1>1 DEF Adapter
  <2> QED
    BY <1>1, <2>1, <2>2, ReconnectFailedEvolves DEF DiscoveryFailed, ConnectFailed
<1>2. CASE a.connect # "retry"
  <2>1. Returned(up) \in Adapter /\ Timed(Returned(up))
    BY DEF Returned, Timed, Adapter, AdapterState
  <2>2. /\ Returned(up).late = a.late
        /\ Returned(up).connect = "none" /\ up.connect # "retry"
        /\ ~Ready(a) /\ ~Quiet(a) /\ ~Gone(a)
    BY <1>2 DEF Returned, Ready, Quiet, Gone, Adapter
  <2> QED
    BY <1>2, <2>1, <2>2, ToErrorFalls DEF DiscoveryFailed, ConnectFailed, Evolves
<1> QED
  BY <1>1, <1>2

(* addAdapter connects a new instance, *)
LEMMA ConnectStarts ==
  /\ NewAdapter \in Adapter /\ Timed(NewAdapter)
  /\ Connect(NewAdapter) \in Adapter /\ Timed(Connect(NewAdapter))
<1>1. NewAdapter \in Adapter /\ Timed(NewAdapter)
  BY AttemptsAssumption DEF NewAdapter, Timed, Adapter, AdapterState
<1>2. Connect(NewAdapter) = [NewAdapter EXCEPT !.state = "connecting", !.attempt = 0, !.connect = "first"]
  BY DEF Connect
<1>3. /\ NewAdapter.health = FALSE /\ NewAdapter.reconnect = FALSE /\ NewAdapter.listing = FALSE
      /\ NewAdapter.intervals = 0 /\ NewAdapter.timeouts = 0
  BY DEF NewAdapter
<1>4. /\ Connect(NewAdapter) \in Adapter
      /\ Connect(NewAdapter).connect = "first" /\ Connect(NewAdapter).state = "connecting"
      /\ Connect(NewAdapter).attempt = 0
      /\ Connect(NewAdapter).health = FALSE /\ Connect(NewAdapter).reconnect = FALSE
      /\ Connect(NewAdapter).intervals = 0 /\ Connect(NewAdapter).timeouts = 0
      /\ Connect(NewAdapter).listing = FALSE
  BY <1>1, <1>2, <1>3 DEF Adapter, AdapterState
<1> QED
  BY <1>1, <1>4, AttemptsAssumption DEF Timed

(* removeAdapter stops the timers of one, *)
LEMMA BeginDisconnectStops ==
  ASSUME NEW a \in Adapter, Timed(a)
  PROVE  LET b == BeginDisconnect(a)
         IN  /\ b \in Adapter
             /\ Timed(b)
             /\ b.connect = a.connect
             /\ b.late \/ Quiet(b)
             /\ a.late => b.late
             /\ Gone(a) => b.late \/ Gone(b)
<1> DEFINE h == StopHealthCheckTimer(a)
           r == StopReconnectTimer(h)
           b == BeginDisconnect(a)
<1>1. /\ h \in Adapter /\ Timed(h) /\ h.health = FALSE
      /\ h.connect = a.connect /\ h.checks = a.checks /\ h.late = a.late
      /\ h.state = a.state /\ h.client = a.client
  BY StopHealthCheckTimerFields DEF Timed
<1> HIDE DEF h
<1>2. /\ r \in Adapter /\ Timed(r) /\ r.health = FALSE /\ r.reconnect = FALSE
      /\ r.connect = a.connect /\ r.checks = a.checks /\ r.late = a.late
      /\ r.state = a.state /\ r.client = a.client
  BY <1>1, StopReconnectTimerFields DEF Timed
<1>3. b = [r EXCEPT !.late = a.late \/ a.connect # "none" \/ a.checks > 0]
  BY <1>2 DEF BeginDisconnect, h
<1> HIDE DEF r, b
<1>4. /\ b \in Adapter /\ Timed(b) /\ b.connect = a.connect
      /\ b.health = FALSE /\ b.reconnect = FALSE /\ b.checks = a.checks
      /\ b.state = a.state /\ b.client = a.client
  BY <1>2, <1>3 DEF Timed, Adapter
<1>5. b.late = (a.late \/ a.connect # "none" \/ a.checks > 0)
  BY <1>2, <1>3 DEF Adapter
<1> QED
  BY <1>4, <1>5 DEF Quiet, Gone, Adapter, b

(* and closes its client. *)
LEMMA EndDisconnectEnds ==
  ASSUME NEW a \in Adapter, Timed(a)
  PROVE  LET b == EndDisconnect(a)
         IN  /\ b \in Adapter
             /\ Timed(b)
             /\ b.late = a.late
             /\ b.connect = a.connect
             /\ Quiet(a) => Gone(b)
BY DEF EndDisconnect, Timed, Quiet, Gone, Adapter, AdapterState

(***************************************************************************)
(* The invariant                                                           *)
(***************************************************************************)

CallRecord    == [on : Instances \cup {None}, kind : {"none", "tool", "resource"}, late : BOOLEAN]
RemovalRecord == [names : Seq(Names), on : Instances \cup {None}, clear : BOOLEAN]

InstanceRecord == [name : Names \cup {None}, removed : BOOLEAN, is : Adapter]

Shape ==
  /\ adapter \in [Instances -> InstanceRecord]
  /\ adapters \in [Names -> Instances \cup {None}]
  /\ toolIndex \subseteq Names
  /\ cache \in [Names -> [from : Instances \cup {None}, late : BOOLEAN]]
  /\ call \in [Callers -> CallRecord]
  /\ removal \in [Removers -> RemovalRecord]
  /\ IsFiniteSet(Stored)

(* A stored instance is stored under its name, once its first connection was *)
(* made and until it is removed.                                           *)
Placed(i, n) == NameOf(i) = n /\ Is(i).connect # "first" /\ ~adapter[i].removed

Sound(i) ==
  /\ Timed(Is(i))
  /\ NameOf(i) = None => Is(i) = NewAdapter /\ ~Leaving(i)
  /\ \A n \in Names : adapters[n] = i => Placed(i, n) /\ (Leaving(i) \/ Ready(Is(i)))
  /\ Leaving(i) => Is(i).connect # "first" /\ (Is(i).late \/ Quiet(Is(i)))
  /\ adapter[i].removed => Is(i).late \/ Gone(Is(i))

CallSound(c) ==
  /\ call[c].on = None => call[c] = NoCall
  /\ call[c].on # None => /\ NameOf(call[c].on) # None
                          /\ call[c].late \/ ~Leaving(call[c].on)

CacheSound(n) ==
  cache[n].from # None => /\ NameOf(cache[n].from) = n
                          /\ cache[n].late \/ ~Leaving(cache[n].from)

RemovalSound(c) ==
  removal[c].on # None => removal[c].names # <<>> /\ NameOf(removal[c].on) = Head(removal[c].names)

IInv ==
  /\ Shape
  /\ \A i \in Instances : Sound(i)
  /\ \A c \in Callers : CallSound(c)
  /\ \A n \in Names : CacheSound(n)
  /\ \A c \in Removers : RemovalSound(c)

(***************************************************************************)
(* Steps of one instance                                                   *)
(***************************************************************************)

LEMMA SetInstance ==
  ASSUME adapter \in [Instances -> InstanceRecord], NEW i \in Instances, NEW b \in Adapter,
         Set(i, b)
  PROVE  /\ adapter' \in [Instances -> InstanceRecord]
         /\ adapter'[i].is = b
         /\ adapter'[i].name = adapter[i].name
         /\ adapter'[i].removed = adapter[i].removed
         /\ \A j \in Instances : j # i => adapter'[j] = adapter[j]
BY DEF Set, Is, InstanceRecord

(* Names and who leaves stay as they are. *)
SameRoles ==
  \A j \in Instances : adapter'[j].name = adapter[j].name /\ (Leaving(j)' <=> Leaving(j))

(* An instance moves on; what is stored stays, is deleted, or is this one,   *)
(* newly connected.                                                        *)
LEMMA InstanceMoves ==
  ASSUME IInv, NEW i \in Instances, NEW b, Set(i, b), Evolves(Is(i), b), NameOf(i) # None,
         \A n \in Names : \/ adapters'[n] = adapters[n]
                          \/ /\ adapters'[n] = i /\ n = NameOf(i) /\ Ready(b)
                             /\ ~adapter[i].removed,
         UNCHANGED removal
  PROVE  /\ adapter' \in [Instances -> InstanceRecord]
         /\ \A j \in Instances : Sound(j)'
         /\ SameRoles
<1> USE DEF Is, NameOf
<1>1. /\ adapter' \in [Instances -> InstanceRecord]
      /\ adapter'[i].is = b
      /\ adapter'[i].name = adapter[i].name
      /\ adapter'[i].removed = adapter[i].removed
      /\ \A j \in Instances : j # i => adapter'[j] = adapter[j]
  BY SetInstance DEF IInv, Shape, Evolves
<1>2. \A j \in Instances : Leaving(j)' <=> Leaving(j)
  BY <1>1 DEF Leaving
<1>3. Sound(i)'
  <2> DEFINE a == adapter[i].is
  <2>0. Sound(i) /\ Evolves(a, b)
    BY DEF IInv
  <2>1. Timed(b)
    BY DEF Evolves
  <2>2. ASSUME NEW n \in Names, adapters'[n] = i
        PROVE  Placed(i, n)' /\ (Leaving(i)' \/ Ready(b))
    <3>1. CASE adapters[n] = i
      BY <1>1, <1>2, <2>0, <3>1 DEF Sound, Placed, Evolves
    <3>2. CASE n = NameOf(i) /\ Ready(b) /\ ~adapter[i].removed
      BY <1>1, <3>2 DEF Placed, Ready
    <3> QED
      BY <2>2, <3>1, <3>2
  <2>3. Leaving(i) => b.connect # "first" /\ (b.late \/ Quiet(b))
    BY <2>0 DEF Sound, Evolves
  <2>4. adapter[i].removed => b.late \/ Gone(b)
    BY <2>0 DEF Sound, Evolves
  <2> QED
    BY <1>1, <1>2, <2>1, <2>2, <2>3, <2>4 DEF Sound
<1>4. ASSUME NEW j \in Instances, j # i
      PROVE  Sound(j)'
  <2>1. \A n \in Names : adapters'[n] = j => adapters[n] = j
    BY <1>4
  <2>2. adapter'[j] = adapter[j] /\ Sound(j)
    BY <1>1, <1>4 DEF IInv
  <2> QED
    BY <1>2, <2>1, <2>2 DEF Sound, Placed
<1> QED
  BY <1>1, <1>2, <1>3, <1>4 DEF SameRoles

(* Calls and cached resources that stay or go, while roles stay *)
LEMMA RolesKept ==
  ASSUME IInv, SameRoles,
         \A c \in Removers : removal'[c] = removal[c] \/ removal'[c].on = None,
         \A c \in Callers : call'[c] = call[c] \/ call'[c] = NoCall,
         \A n \in Names : cache'[n] = cache[n] \/ cache'[n] = Uncached
  PROVE  /\ \A c \in Callers : CallSound(c)'
         /\ \A n \in Names : CacheSound(n)'
         /\ \A c \in Removers : RemovalSound(c)'
<1> USE DEF NameOf
<1>1. ASSUME NEW c \in Callers
      PROVE  CallSound(c)'
  <2>1. call[c].on \in Instances \cup {None}
    BY DEF IInv, Shape, CallRecord
  <2>2. CASE call'[c] = call[c]
    BY <2>1, <2>2 DEF IInv, CallSound, SameRoles
  <2>3. CASE call'[c] = NoCall
    BY <2>3 DEF CallSound, NoCall
  <2> QED
    BY <2>2, <2>3
<1>2. ASSUME NEW n \in Names
      PROVE  CacheSound(n)'
  <2>1. cache[n].from \in Instances \cup {None}
    BY DEF IInv, Shape
  <2>2. CASE cache'[n] = cache[n]
    BY <2>1, <2>2 DEF IInv, CacheSound, SameRoles
  <2>3. CASE cache'[n] = Uncached
    BY <2>3 DEF CacheSound, Uncached
  <2> QED
    BY <2>2, <2>3
<1>3. ASSUME NEW c \in Removers
      PROVE  RemovalSound(c)'
  <2>1. removal[c].on \in Instances \cup {None}
    BY DEF IInv, Shape, RemovalRecord
  <2> QED
    BY <2>1 DEF IInv, RemovalSound, SameRoles
<1> QED
  BY <1>1, <1>2, <1>3

(* A step of an instance that concerns nobody else *)
LEMMA AloneKeeps ==
  ASSUME IInv, NEW i \in Instances, NEW b, Set(i, b), Evolves(Is(i), b), NameOf(i) # None,
         UNCHANGED <<adapters, cache, call, removal>>, toolIndex' \subseteq Names
  PROVE  IInv'
<1>1. /\ adapter' \in [Instances -> InstanceRecord]
      /\ \A j \in Instances : Sound(j)'
      /\ SameRoles
  BY InstanceMoves
<1>2. Shape'
  BY <1>1 DEF IInv, Shape, Stored
<1> QED
  BY <1>1, <1>2, RolesKept DEF IInv

LEMMA NamedAndTimed ==
  ASSUME IInv, NEW i \in Instances
  PROVE  /\ Is(i) \in Adapter /\ Timed(Is(i))
         /\ Is(i) # NewAdapter => NameOf(i) # None /\ NameOf(i) \in Names
BY DEF IInv, Shape, Sound, Is, NameOf, InstanceRecord

LEMMA LivesKeeps ==
  ASSUME IInv, NEW i \in Instances,
         \/ CreatesClient(i) \/ ConnectFails(i) \/ DiscoveryFails(i) \/ ReconnectTimerFires(i)
         \/ HealthCheckTimerFires(i) \/ HealthCheckEnds(i) \/ CooldownTimerFires(i)
  PROVE  IInv'
<1> DEFINE a == Is(i)
<1>0. a \in Adapter /\ Timed(a) /\ (a # NewAdapter => NameOf(i) # None /\ NameOf(i) \in Names)
  BY NamedAndTimed
<1>1. CASE CreatesClient(i)
  <2>1. NameOf(i) # None /\ Evolves(a, ClientCreated(a))
    BY <1>0, <1>1, ClientCreatedEvolves DEF CreatesClient, NewAdapter
  <2> QED
    BY <1>1, <2>1, AloneKeeps DEF CreatesClient, IInv, Shape
<1>2. CASE ConnectFails(i)
  <2>1. NameOf(i) # None /\ Evolves(a, ConnectFailed(a))
    BY <1>0, <1>2, ConnectFailedEvolves DEF ConnectFails, NewAdapter
  <2> QED
    BY <1>2, <2>1, AloneKeeps DEF ConnectFails, IInv, Shape
<1>3. CASE DiscoveryFails(i)
  <2>1. a.connect # "none"
    BY <1>0, <1>3 DEF DiscoveryFails, Timed
  <2>2. NameOf(i) # None /\ NameOf(i) \in Names /\ Evolves(a, DiscoveryFailed(a))
    BY <1>0, <2>1, DiscoveryFailedEvolves DEF NewAdapter
  <2>3. toolIndex' \subseteq Names
    BY <1>3, <2>2 DEF DiscoveryFails, Discovers, IInv, Shape
  <2> QED
    BY <1>3, <2>2, <2>3, AloneKeeps DEF DiscoveryFails
<1>4. CASE ReconnectTimerFires(i)
  <2>1. NameOf(i) # None /\ Evolves(a, AttemptReconnect(a))
    BY <1>0, <1>4, AttemptReconnectEvolves DEF ReconnectTimerFires, NewAdapter
  <2> QED
    BY <1>4, <2>1, AloneKeeps DEF ReconnectTimerFires, IInv, Shape
<1>5. CASE HealthCheckTimerFires(i)
  <2>1. NameOf(i) # None /\ Evolves(a, HealthCheck(a))
    BY <1>0, <1>5, HealthCheckEvolves DEF HealthCheckTimerFires, NewAdapter
  <2> QED
    BY <1>5, <2>1, AloneKeeps DEF HealthCheckTimerFires, IInv, Shape
<1>6. CASE HealthCheckEnds(i)
  <2>1. NameOf(i) # None /\ Evolves(a, HealthCheckAnswered(a)) /\ Evolves(a, HealthCheckFailed(a))
    BY <1>0, <1>6, HealthCheckAnsweredEvolves, HealthCheckFailedEvolves DEF HealthCheckEnds, NewAdapter
  <2> QED
    BY <1>6, <2>1, AloneKeeps DEF HealthCheckEnds, IInv, Shape
<1>7. CASE CooldownTimerFires(i)
  <2>1. NameOf(i) # None /\ Evolves(a, CooldownEnds(a))
    BY <1>0, <1>7, CooldownEndsBreaker, BreakerEvolves DEF CooldownTimerFires, NewAdapter
  <2> QED
    BY <1>7, <2>1, AloneKeeps DEF CooldownTimerFires, IInv, Shape
<1> QED
  BY <1>1, <1>2, <1>3, <1>4, <1>5, <1>6, <1>7

(* A first connection is stored, under a name nothing else is looked up by.  *)
LEMMA ConnectSucceedsKeeps ==
  ASSUME IInv, NEW i \in Instances, ConnectSucceeds(i)
  PROVE  IInv'
<1> DEFINE a == Is(i)
           b == Connected(a)
<1>1. a.connect # "none"
  BY NamedAndTimed DEF ConnectSucceeds, Timed
<1>2. NameOf(i) # None /\ NameOf(i) \in Names /\ a \in Adapter /\ Evolves(a, b) /\ Ready(b)
  BY <1>1, NamedAndTimed, ConnectedEvolves DEF NewAdapter
<1>3. a.connect = "first" => ~adapter[i].removed
  BY DEF IInv, Sound, Leaving
<1>4. \A n \in Names : \/ adapters'[n] = adapters[n]
                       \/ /\ adapters'[n] = i /\ n = NameOf(i) /\ Ready(b)
                          /\ ~adapter[i].removed
  BY <1>2, <1>3 DEF ConnectSucceeds, IInv, Shape
<1>5. /\ adapter' \in [Instances -> InstanceRecord]
      /\ \A j \in Instances : Sound(j)'
      /\ SameRoles
  <2>1. Set(i, b) /\ UNCHANGED removal
    BY DEF ConnectSucceeds
  <2> QED
    BY <1>2, <1>4, <2>1, InstanceMoves
<1>6. Shape'
  <2>1. adapters' \in [Names -> Instances \cup {None}]
    BY <1>2 DEF ConnectSucceeds, IInv, Shape
  <2>2. toolIndex' \subseteq Names
    BY <1>2 DEF ConnectSucceeds, Discovers, IInv, Shape
  <2>3. IsFiniteSet(Stored')
    <3>1. Stored' \subseteq Stored \cup {NameOf(i)}
      BY <1>4 DEF Stored
    <3>2. IsFiniteSet(Stored \cup {NameOf(i)})
      BY FS_AddElement DEF IInv, Shape
    <3> QED
      BY <3>1, <3>2, FS_Subset
  <2> QED
    BY <1>5, <2>1, <2>2, <2>3 DEF ConnectSucceeds, IInv, Shape
<1>7. UNCHANGED <<call, cache, removal>>
  BY DEF ConnectSucceeds
<1> QED
  BY <1>5, <1>6, <1>7, RolesKept DEF IInv

(* addAdapter names a new instance, which nothing refers to. *)
LEMMA AddAdapterKeeps ==
  ASSUME IInv, NEW i \in Instances, NEW n \in Names, AddAdapter(i, n)
  PROVE  IInv'
<1> USE DEF Is, NameOf
<1> DEFINE b == Connect(NewAdapter)
<1>1. /\ adapter[i].name = None /\ adapter[i].is = NewAdapter /\ ~Leaving(i)
      /\ UNCHANGED <<adapters, toolIndex, cache, call, removal>>
      /\ n # None
  BY NoneAssumption DEF AddAdapter, IInv, Sound
<1>2. b \in Adapter /\ Timed(b)
  BY ConnectStarts
<1>3. /\ adapter' \in [Instances -> InstanceRecord]
      /\ adapter'[i].is = b
      /\ adapter'[i].name = n
      /\ adapter'[i].removed = adapter[i].removed
      /\ \A j \in Instances : j # i => adapter'[j] = adapter[j]
  BY <1>1, <1>2 DEF AddAdapter, IInv, Shape, InstanceRecord
<1> HIDE DEF b
<1>4. \A j \in Instances : Leaving(j)' <=> Leaving(j)
  BY <1>1, <1>3 DEF Leaving
<1>5. /\ \A m \in Names : adapters[m] # i /\ cache[m].from # i
      /\ \A c \in Callers : call[c].on # i
      /\ \A c \in Removers : removal[c].on # i
  <2>1. i # None
    BY NoneAssumption
  <2> QED
    BY <1>1, <2>1, NoneAssumption DEF IInv, Sound, Placed, CallSound, CacheSound, Leaving
<1>6. Sound(i)'
  BY <1>1, <1>2, <1>3, <1>4, <1>5 DEF Sound, Leaving
<1>7. ASSUME NEW j \in Instances, j # i
      PROVE  Sound(j)'
  <2>1. adapter'[j] = adapter[j] /\ Sound(j)
    BY <1>3, <1>7 DEF IInv
  <2> QED
    BY <1>1, <1>4, <2>1 DEF Sound, Placed
<1>8. ASSUME NEW c \in Callers
      PROVE  CallSound(c)'
  <2>1. call[c].on \in Instances \cup {None} /\ CallSound(c)
    BY DEF IInv, Shape, CallRecord
  <2> QED
    BY <1>1, <1>3, <1>4, <1>5, <2>1 DEF CallSound
<1>9. ASSUME NEW m \in Names
      PROVE  CacheSound(m)'
  <2>1. cache[m].from \in Instances \cup {None} /\ CacheSound(m)
    BY DEF IInv, Shape
  <2> QED
    BY <1>1, <1>3, <1>4, <1>5, <2>1 DEF CacheSound
<1>10. ASSUME NEW c \in Removers
       PROVE  RemovalSound(c)'
  <2>1. removal[c].on \in Instances \cup {None} /\ RemovalSound(c)
    BY DEF IInv, Shape, RemovalRecord
  <2> QED
    BY <1>1, <1>3, <1>5, <2>1 DEF RemovalSound
<1>11. Shape'
  BY <1>1, <1>3 DEF IInv, Shape, Stored
<1> QED
  BY <1>6, <1>7, <1>8, <1>9, <1>10, <1>11 DEF IInv

(***************************************************************************)
(* Removal                                                                 *)
(***************************************************************************)

LEMMA RemovingKeeps ==
  ASSUME IInv, NEW c \in Removers, NEW names \in Seq(Names), names # <<>>, NEW clear \in BOOLEAN,
         removal[c].on = None, Removing(c, names, clear)
  PROVE  IInv'
<1> USE DEF Is, NameOf
<1> DEFINE n == Head(names)
<1>0. n \in Names
  OBVIOUS
<1>1. PICK i \in Instances : i = adapters[n] /\ i # None
  BY <1>0, NoneAssumption DEF Removing, IInv, Shape
<1> DEFINE a == adapter[i].is
<1>2. a \in Adapter /\ Sound(i) /\ Placed(i, n)
  BY <1>0, <1>1 DEF IInv, Shape, Sound, InstanceRecord
<1> DEFINE b == BeginDisconnect(a)
<1>3. /\ b \in Adapter
      /\ Timed(b)
      /\ b.connect # "first"
      /\ b.late \/ Quiet(b)
  BY <1>2, BeginDisconnectStops DEF Sound, Placed
<1>4. /\ adapter' \in [Instances -> InstanceRecord]
      /\ adapter'[i].name = n
      /\ ~adapter'[i].removed
      /\ Timed(adapter'[i].is)
      /\ adapter'[i].is.connect # "first"
      /\ adapter'[i].is.late \/ Quiet(adapter'[i].is)
      /\ \A j \in Instances : j # i => adapter'[j] = adapter[j]
  <2>1. adapter' = [adapter EXCEPT ![i].is = b]
    BY <1>1 DEF Removing
  <2>2. adapter[i].name = n /\ ~adapter[i].removed
    BY <1>2 DEF Placed
  <2> HIDE DEF b, n
  <2>3. /\ adapter' \in [Instances -> InstanceRecord]
        /\ adapter'[i].is = b
        /\ adapter'[i].name = n
        /\ ~adapter'[i].removed
        /\ \A j \in Instances : j # i => adapter'[j] = adapter[j]
    BY <1>3, <2>1, <2>2 DEF IInv, Shape, InstanceRecord
  <2> QED
    BY <1>3, <2>3
<1>5. /\ adapters' = adapters
      /\ toolIndex' = toolIndex \ {n}
      /\ cache' = [cache EXCEPT ![n] = Uncached]
      /\ call' = [d \in Callers |-> IF call[d].on = i THEN [call[d] EXCEPT !.late = TRUE]
                                                     ELSE call[d]]
      /\ removal' = [removal EXCEPT ![c] = [names |-> names, on |-> i, clear |-> clear]]
  BY <1>1 DEF Removing
<1> HIDE DEF n, a, b
<1>6. /\ removal' \in [Removers -> RemovalRecord]
      /\ removal'[c].on = i /\ removal'[c].names = names
      /\ \A d \in Removers : d # c => removal'[d] = removal[d]
  BY <1>1, <1>5 DEF IInv, Shape, RemovalRecord
<1>7. Leaving(i)' /\ \A j \in Instances : j # i => (Leaving(j)' <=> Leaving(j))
  <2>1. Leaving(i)'
    BY <1>6 DEF Leaving
  <2>2. ASSUME NEW j \in Instances, j # i
        PROVE  Leaving(j)' <=> Leaving(j)
    <3>1. j # None /\ adapter'[j] = adapter[j]
      BY <1>4, <2>2, NoneAssumption
    <3>2. \A d \in Removers : removal'[d].on = j <=> removal[d].on = j
      BY <1>6, <2>2, <3>1
    <3> QED
      BY <3>1, <3>2 DEF Leaving
  <2> QED
    BY <2>1, <2>2
<1>8. Sound(i)'
  <2>1. adapter'[i].name # None
    BY <1>0, <1>4, NoneAssumption
  <2>2. \A m \in Names : adapters[m] = i => m = n
    BY <1>2 DEF Sound, Placed
  <2>3. \A m \in Names : adapters'[m] = i => Placed(i, m)'
    BY <1>4, <1>5, <2>2 DEF Placed
  <2> QED
    BY <1>4, <1>7, <2>1, <2>3 DEF Sound
<1>9. ASSUME NEW j \in Instances, j # i
      PROVE  Sound(j)'
  <2>1. adapter'[j] = adapter[j] /\ Sound(j)
    BY <1>4, <1>9 DEF IInv
  <2> QED
    BY <1>5, <1>7, <1>9, <2>1 DEF Sound, Placed
<1>10. \A j \in Instances : adapter'[j].name = adapter[j].name
  BY <1>2, <1>4 DEF Placed
<1>11. ASSUME NEW d \in Callers
       PROVE  CallSound(d)' /\ call'[d] \in CallRecord
  <2>1. call[d] \in CallRecord /\ CallSound(d)
    BY DEF IInv, Shape
  <2>2. CASE call[d].on = i
    <3>1. call'[d].on = i /\ call'[d].late = TRUE /\ call'[d] \in CallRecord
      BY <1>5, <2>1, <2>2 DEF CallRecord
    <3> QED
      BY <1>1, <1>10, <2>1, <2>2, <3>1 DEF CallSound
  <2>3. CASE call[d].on # i
    <3>1. call'[d] = call[d] /\ call[d].on \in Instances \cup {None}
      BY <1>5, <2>1, <2>3 DEF CallRecord
    <3> QED
      BY <1>7, <1>10, <2>1, <2>3, <3>1 DEF CallSound
  <2> QED
    BY <2>2, <2>3
<1>12. ASSUME NEW m \in Names
       PROVE  CacheSound(m)'
  <2>1. cache[m].from \in Instances \cup {None} /\ CacheSound(m)
    BY DEF IInv, Shape
  <2>2. CASE m = n
    BY <1>5, <2>2 DEF CacheSound, Uncached, IInv, Shape
  <2>3. CASE m # n
    <3>1. cache'[m] = cache[m] /\ cache[m].from # i
      BY <1>1, <1>2, <1>5, <2>1, <2>3 DEF CacheSound, Placed, IInv, Shape
    <3> QED
      BY <1>7, <1>10, <2>1, <3>1 DEF CacheSound
  <2> QED
    BY <2>2, <2>3
<1>13. ASSUME NEW d \in Removers
       PROVE  RemovalSound(d)'
  <2>1. removal[d].on \in Instances \cup {None} /\ RemovalSound(d)
    BY DEF IInv, Shape, RemovalRecord
  <2>2. CASE d = c
    BY <1>4, <1>6, <2>2 DEF RemovalSound, n
  <2>3. CASE d # c
    BY <1>6, <1>10, <2>1, <2>3 DEF RemovalSound
  <2> QED
    BY <2>2, <2>3
<1>14. Shape'
  <2>1. call' \in [Callers -> CallRecord]
    BY <1>5, <1>11
  <2>2. cache' \in [Names -> [from : Instances \cup {None}, late : BOOLEAN]]
    BY <1>5 DEF Uncached, IInv, Shape
  <2> QED
    BY <1>4, <1>5, <1>6, <2>1, <2>2 DEF IInv, Shape, Stored
<1>15. \A j \in Instances : Sound(j)'
  BY <1>8, <1>9
<1> QED
  BY <1>11, <1>12, <1>13, <1>14, <1>15 DEF IInv

LEMMA RemoveAdapterKeeps ==
  ASSUME IInv, NEW c \in Removers, NEW n \in Names, RemoveAdapter(c, n)
  PROVE  IInv'
<1>1. removal[c].on = None
  BY DEF RemoveAdapter, NoRemoval
<1>2. <<n>> \in Seq(Names) /\ <<n>> # <<>>
  OBVIOUS
<1> DEFINE names == <<n>>
<1>3. Removing(c, names, FALSE)
  BY Zenon DEF RemoveAdapter
<1> HIDE DEF names
<1>4. names \in Seq(Names) /\ names # <<>>
  BY <1>2 DEF names
<1> QED
  BY <1>1, <1>3, <1>4, RemovingKeeps

(* The names that are stored can be put in an order, as they are finitely many. *)
LEMMA OrdersAreSequences ==
  ASSUME Shape, Stored # {}, NEW names \in Orders(Stored)
  PROVE  names \in Seq(Names) /\ names # <<>>
<1> DEFINE size == Cardinality(Stored)
<1>1. size \in Nat /\ size # 0
  BY FS_CardinalityType, FS_EmptySet DEF Shape
<1>2. names \in [1 .. size -> Stored] /\ Stored \subseteq Names
  BY DEF Orders, Stored
<1> HIDE DEF size
<1> QED
  BY <1>1, <1>2

LEMMA ShutdownKeeps ==
  ASSUME IInv, NEW c \in Removers, Shutdown(c)
  PROVE  IInv'
<1>1. PICK names \in Orders(Stored) : Removing(c, names, TRUE)
  BY DEF Shutdown
<1>2. names \in Seq(Names) /\ names # <<>>
  BY OrdersAreSequences DEF Shutdown, IInv
<1>3. removal[c].on = None
  BY DEF Shutdown, NoRemoval
<1> QED
  BY <1>1, <1>2, <1>3, RemovingKeeps

LEMMA RemovedKeeps ==
  ASSUME IInv, NEW c \in Removers, Removed(c)
  PROVE  IInv'
<1> USE DEF Is, NameOf
<1>1. PICK i \in Instances : i = removal[c].on /\ i # None
  BY DEF Removed, IInv, Shape, RemovalRecord
<1> DEFINE names == removal[c].names
           n     == Head(names)
           b     == EndDisconnect(adapter[i].is)
<1>2. names \in Seq(Names) /\ names # <<>> /\ n \in Names /\ adapter[i].name = n
  BY <1>1 DEF IInv, Shape, RemovalRecord, RemovalSound
<1>3. Sound(i) /\ Leaving(i) /\ adapter[i].is \in Adapter
  BY <1>1 DEF IInv, Shape, Leaving, InstanceRecord
<1>4. /\ b \in Adapter
      /\ Timed(b)
      /\ b.connect # "first"
      /\ b.late \/ Gone(b)
  BY <1>3, EndDisconnectEnds DEF Sound
<1>5. /\ adapter' \in [Instances -> InstanceRecord]
      /\ adapter'[i].name = n
      /\ adapter'[i].removed
      /\ Timed(adapter'[i].is)
      /\ adapter'[i].is.connect # "first"
      /\ adapter'[i].is.late \/ Gone(adapter'[i].is)
      /\ \A j \in Instances : j # i => adapter'[j] = adapter[j]
  <2>1. adapter' = [adapter EXCEPT ![i].is = b, ![i].removed = TRUE]
    BY <1>1 DEF Removed
  <2> HIDE DEF b, n
  <2>2. /\ adapter' \in [Instances -> InstanceRecord]
        /\ adapter'[i].is = b
        /\ adapter'[i].name = adapter[i].name
        /\ adapter'[i].removed = TRUE
        /\ \A j \in Instances : j # i => adapter'[j] = adapter[j]
    BY <1>4, <2>1 DEF IInv, Shape, InstanceRecord
  <2> QED
    BY <1>2, <1>4, <2>2
<1>6. /\ removal' \in [Removers -> RemovalRecord]
      /\ removal'[c].on = None
      /\ \A d \in Removers : d # c => removal'[d] = removal[d]
  <2>1. NoRemoval \in RemovalRecord /\ NoRemoval.on = None
    BY DEF NoRemoval, RemovalRecord
  <2>2. [removal[c] EXCEPT !.names = Tail(@), !.on = None] \in RemovalRecord
    <3>1. Tail(names) \in Seq(Names) /\ removal[c] \in RemovalRecord
      BY <1>2 DEF IInv, Shape
    <3> DEFINE rest == Tail(names)
    <3> HIDE DEF rest
    <3>2. [removal[c] EXCEPT !.names = rest, !.on = None] \in RemovalRecord
      BY <3>1 DEF RemovalRecord, rest
    <3> QED
      BY <3>2 DEF rest
  <2> QED
    BY <2>1, <2>2 DEF Removed, IInv, Shape, RemovalRecord
<1>7. adapters' = [adapters EXCEPT ![n] = None] /\ UNCHANGED <<toolIndex, call>>
  BY DEF Removed
<1> HIDE DEF n, names, b
<1>8. SameRoles
  <2>1. \A j \in Instances : adapter'[j].name = adapter[j].name
    BY <1>2, <1>5
  <2>2. Leaving(i)'
    BY <1>5 DEF Leaving
  <2>3. ASSUME NEW j \in Instances, j # i
        PROVE  Leaving(j)' <=> Leaving(j)
    <3>1. j # None /\ adapter'[j] = adapter[j]
      BY <1>5, <2>3, NoneAssumption
    <3>2. \A d \in Removers : removal'[d].on = j <=> removal[d].on = j
      BY <1>1, <1>6, <2>3, <3>1
    <3> QED
      BY <3>1, <3>2 DEF Leaving
  <2> QED
    BY <1>3, <2>1, <2>2, <2>3 DEF SameRoles
<1>9. \A m \in Names : adapters'[m] # i
  BY <1>1, <1>2, <1>3, <1>7 DEF Sound, Placed, IInv, Shape
<1>10. Sound(i)'
  BY <1>2, <1>5, <1>9, NoneAssumption, Gone(adapter'[i].is) => Quiet(adapter'[i].is) DEF Sound, Gone
<1>11. ASSUME NEW j \in Instances, j # i
       PROVE  Sound(j)'
  <2>1. adapter'[j] = adapter[j] /\ Sound(j)
    BY <1>5, <1>11 DEF IInv
  <2>2. \A m \in Names : adapters'[m] = j => adapters[m] = j
    BY <1>7, NoneAssumption DEF IInv, Shape
  <2> QED
    BY <1>8, <2>1, <2>2 DEF Sound, Placed, SameRoles
<1>12. \A m \in Names : cache'[m] = cache[m] \/ cache'[m] = Uncached
  BY DEF Removed
<1>13. Shape'
  <2>1. cache' \in [Names -> [from : Instances \cup {None}, late : BOOLEAN]]
    BY DEF Removed, Uncached, IInv, Shape
  <2>2. adapters' \in [Names -> Instances \cup {None}]
    BY <1>7 DEF IInv, Shape
  <2>3. IsFiniteSet(Stored')
    <3>1. Stored' \subseteq Stored
      BY <1>7 DEF Stored, IInv, Shape
    <3> QED
      BY <3>1, FS_Subset DEF IInv, Shape
  <2> QED
    BY <1>5, <1>6, <1>7, <2>1, <2>2, <2>3 DEF IInv, Shape
<1>14. /\ \A d \in Callers : CallSound(d)'
       /\ \A m \in Names : CacheSound(m)'
       /\ \A d \in Removers : RemovalSound(d)'
  BY <1>6, <1>7, <1>8, <1>12, RolesKept
<1>15. \A j \in Instances : Sound(j)'
  BY <1>10, <1>11
<1> QED
  BY <1>13, <1>14, <1>15 DEF IInv

LEMMA ShutdownNextKeeps ==
  ASSUME IInv, NEW c \in Removers, ShutdownNext(c)
  PROVE  IInv'
<1> DEFINE r == removal[c]
<1>1. r.on = None /\ r.names # <<>> /\ r \in RemovalRecord
  BY DEF ShutdownNext, IInv, Shape
<1>2. CASE Removing(c, r.names, r.clear)
  BY <1>1, <1>2, RemovingKeeps DEF RemovalRecord
<1>3. CASE /\ removal' = [removal EXCEPT ![c] = IF Len(r.names) = 1 THEN NoRemoval
                                                 ELSE [r EXCEPT !.names = Tail(@)]]
           /\ cache' = IF Len(r.names) = 1 THEN [n \in Names |-> Uncached] ELSE cache
           /\ UNCHANGED <<adapter, adapters, toolIndex, call>>
  <2>1. /\ removal' \in [Removers -> RemovalRecord]
        /\ removal'[c].on = None
        /\ \A d \in Removers : d # c => removal'[d] = removal[d]
    <3>1. NoRemoval \in RemovalRecord /\ NoRemoval.on = None
      BY DEF NoRemoval, RemovalRecord
    <3>2. [r EXCEPT !.names = Tail(@)] \in RemovalRecord /\ [r EXCEPT !.names = Tail(@)].on = None
      BY <1>1 DEF RemovalRecord
    <3> QED
      BY <1>3, <3>1, <3>2 DEF IInv, Shape
  <2>2. \A j \in Instances : Leaving(j)' <=> Leaving(j)
    <3>1. \A j \in Instances, d \in Removers : removal'[d].on = j <=> removal[d].on = j
      BY <1>1, <2>1, NoneAssumption
    <3> QED
      BY <1>3, <3>1 DEF Leaving
  <2>3. SameRoles
    BY <1>3, <2>2 DEF SameRoles
  <2>4. \A j \in Instances : Sound(j)'
    BY <1>3, <2>2 DEF IInv, Sound, Placed, Is, NameOf
  <2>5. \A m \in Names : cache'[m] = cache[m] \/ cache'[m] = Uncached
    BY <1>3
  <2>6. Shape'
    BY <1>3, <2>1 DEF IInv, Shape, Uncached, Stored
  <2> QED
    BY <1>3, <2>1, <2>3, <2>4, <2>5, <2>6, RolesKept DEF IInv
<1> QED
  BY <1>2, <1>3 DEF ShutdownNext

(***************************************************************************)
(* Calls and the cache                                                     *)
(***************************************************************************)

LEMMA BeginKeeps ==
  ASSUME IInv, NEW c \in Callers, NEW n \in Names, NEW kind \in {"tool", "resource"},
         Begin(c, n, kind)
  PROVE  IInv'
<1> USE DEF NameOf
<1> DEFINE late == \E d \in Removers : removal[d].on = adapters[n]
           new  == [on |-> adapters[n], kind |-> kind, late |-> late]
<1>1. /\ adapters[n] \in Instances /\ adapters[n] # None
      /\ call' = [call EXCEPT ![c] = new]
      /\ UNCHANGED <<adapter, adapters, toolIndex, cache, removal>>
  BY DEF Begin, Reachable, IInv, Shape
<1>2. Placed(adapters[n], n) /\ n # None
  BY <1>1, NoneAssumption DEF IInv, Sound
<1>3. late \/ ~Leaving(adapters[n])
  BY <1>2 DEF Leaving, Placed
<1>4. new \in CallRecord /\ late \in BOOLEAN
  BY <1>1 DEF CallRecord
<1>5. SameRoles /\ \A j \in Instances : Sound(j)'
  <2>1. \A j \in Instances : Leaving(j)' <=> Leaving(j)
    BY <1>1 DEF Leaving
  <2> QED
    BY <1>1, <2>1 DEF SameRoles, IInv, Sound, Placed, Is
<1>6. /\ \A m \in Names : CacheSound(m)'
      /\ \A d \in Removers : RemovalSound(d)'
  BY <1>1 DEF IInv, CacheSound, RemovalSound, Leaving
<1>7. ASSUME NEW d \in Callers
      PROVE  CallSound(d)'
  <2>1. CASE d = c
    <3>1. call'[d].on = adapters[n] /\ call'[d].late = late
      BY <1>1, <2>1 DEF IInv, Shape
    <3> HIDE DEF late
    <3>2. (Leaving(adapters[n])' <=> Leaving(adapters[n])) /\ adapter'[adapters[n]].name = n
      BY <1>1, <1>2, <1>5 DEF SameRoles, Placed
    <3> QED
      BY <1>1, <1>2, <1>3, <3>1, <3>2 DEF CallSound, Leaving
  <2>2. CASE d # c
    BY <1>1, <2>2 DEF IInv, CallSound, Leaving, Shape
  <2> QED
    BY <2>1, <2>2
<1>8. Shape'
  <2> HIDE DEF new
  <2> QED
    BY <1>1, <1>4 DEF IInv, Shape, Stored
<1> QED
  BY <1>5, <1>6, <1>7, <1>8 DEF IInv

(* Whatever an answer counts as, the call ends; what it brings is cached     *)
(* under the name of its adapter or nothing is.                            *)
LEMMA EndsKeeps ==
  ASSUME IInv, NEW c \in Callers, NEW b, Ends(c, b),
         \/ b = Is(call[c].on) \/ SameButBreaker(Is(call[c].on), b),
         \/ UNCHANGED cache
         \/ cache' = [cache EXCEPT ![NameOf(call[c].on)] = [from |-> call[c].on, late |-> call[c].late]]
  PROVE  IInv'
<1> USE DEF Is, NameOf
<1>1. PICK i \in Instances : i = call[c].on /\ i # None
  BY DEF Ends, IInv, Shape, CallRecord, CallSound
<1>2. /\ Set(i, b)
      /\ call' = [call EXCEPT ![c] = NoCall]
      /\ UNCHANGED <<adapters, toolIndex, removal>>
  BY <1>1 DEF Ends
<1>3. /\ adapter[i].is \in Adapter /\ Timed(adapter[i].is)
      /\ adapter[i].name # None /\ adapter[i].name \in Names
      /\ call[c].late \/ ~Leaving(i)
      /\ call[c].late \in BOOLEAN
  BY <1>1 DEF IInv, Shape, Sound, CallSound, CallRecord, InstanceRecord
<1>4. Evolves(adapter[i].is, b)
  <2>1. Evolves(adapter[i].is, adapter[i].is)
    BY <1>3 DEF Evolves
  <2> QED
    BY <1>1, <1>3, <2>1, BreakerEvolves
<1>5. /\ adapter' \in [Instances -> InstanceRecord]
      /\ \A j \in Instances : Sound(j)'
      /\ SameRoles
  BY <1>2, <1>3, <1>4, InstanceMoves
<1>6. ASSUME NEW d \in Callers
      PROVE  CallSound(d)'
  BY <1>2, <1>5 DEF CallSound, SameRoles, NoCall, IInv, Shape, CallRecord
<1>7. ASSUME NEW n \in Names
      PROVE  CacheSound(n)'
  <2>1. CASE cache'[n] = cache[n]
    BY <1>5, <2>1 DEF CacheSound, SameRoles, IInv, Shape
  <2>2. CASE n = adapter[i].name /\ cache'[n] = [from |-> i, late |-> call[c].late]
    BY <1>3, <1>5, <2>2 DEF CacheSound, SameRoles
  <2> QED
    BY <1>1, <2>1, <2>2 DEF IInv, Shape
<1>8. \A d \in Removers : RemovalSound(d)'
  BY <1>2, <1>5 DEF RemovalSound, SameRoles, IInv, Shape, RemovalRecord
<1>9. Shape'
  <2>1. call' \in [Callers -> CallRecord]
    BY <1>2 DEF NoCall, CallRecord, IInv, Shape
  <2>2. cache' \in [Names -> [from : Instances \cup {None}, late : BOOLEAN]]
    BY <1>1, <1>3 DEF IInv, Shape
  <2> QED
    BY <1>2, <1>5, <2>1, <2>2 DEF IInv, Shape, Stored
<1> QED
  BY <1>5, <1>6, <1>7, <1>8, <1>9 DEF IInv

LEMMA CallsKeep ==
  ASSUME IInv, NEW c \in Callers, Calls(c)
  PROVE  IInv'
<1> DEFINE a == Is(call[c].on)
<1>1. CASE \E n \in Names : CallTool(c, n) \/ ReadResource(c, n)
  BY <1>1, BeginKeeps DEF CallTool, ReadResource
<1>2. call[c] # NoCall => a \in Adapter /\ Timed(a)
  BY DEF Is, IInv, Shape, Sound, CallSound, CallRecord, InstanceRecord
<1>3. CASE Answered(c)
  <2>1. call[c] # NoCall
    BY <1>3 DEF Answered, Ends
  <2> QED
    BY <1>2, <1>3, <2>1, RecordSuccessBreaker, EndsKeeps DEF Answered
<1>4. CASE AnsweredEmpty(c)
  <2>1. call[c] # NoCall
    BY <1>4 DEF AnsweredEmpty, Ends
  <2>2. /\ RecordSuccess(a) \in Adapter
        /\ SameButBreaker(a, RecordSuccess(a))
        /\ SameButBreaker(RecordSuccess(a), RecordFailure(RecordSuccess(a)))
    BY <1>2, <2>1, RecordSuccessBreaker, RecordFailureBreaker DEF SameButBreaker
  <2>3. SameButBreaker(a, RecordFailure(RecordSuccess(a)))
    BY <1>2, <2>1, <2>2, BreakerTwice
  <2> QED
    BY <1>4, <2>3, EndsKeeps DEF AnsweredEmpty
<1>5. CASE Throws(c)
  <2>1. call[c] # NoCall
    BY <1>5 DEF Throws, Ends
  <2> QED
    BY <1>2, <1>5, <2>1, RecordFailureBreaker, EndsKeeps DEF Throws
<1>6. CASE TimesOut(c)
  <2>1. call[c] # NoCall
    BY <1>6 DEF TimesOut, Ends
  <2> QED
    BY <1>2, <1>6, <2>1, RecordFailureBreaker, EndsKeeps DEF TimesOut
<1> QED
  BY <1>1, <1>3, <1>4, <1>5, <1>6 DEF Calls

LEMMA CacheExpiresKeeps ==
  ASSUME IInv, NEW n \in Names, CacheExpires(n)
  PROVE  IInv'
<1>1. cache' = [cache EXCEPT ![n] = Uncached] /\ UNCHANGED <<adapter, adapters, toolIndex, call, removal>>
  BY DEF CacheExpires
<1>2. SameRoles /\ \A j \in Instances : Sound(j)'
  <2>1. \A j \in Instances : Leaving(j)' <=> Leaving(j)
    BY <1>1 DEF Leaving
  <2> QED
    BY <1>1, <2>1 DEF SameRoles, IInv, Sound, Placed, Is, NameOf
<1>3. Shape'
  BY <1>1 DEF IInv, Shape, Stored, Uncached
<1>4. \A m \in Names : cache'[m] = cache[m] \/ cache'[m] = Uncached
  BY <1>1 DEF IInv, Shape
<1> QED
  BY <1>1, <1>2, <1>3, <1>4, RolesKept DEF IInv

(***************************************************************************)
(* The theorems                                                            *)
(***************************************************************************)

LEMMA InitInv == Init => IInv
<1> SUFFICES ASSUME Init PROVE IInv
  OBVIOUS
<1>1. Shape
  <2>1. Stored = {}
    BY DEF Init, Stored
  <2> QED
    BY <2>1, FS_EmptySet, ConnectStarts
       DEF Init, Shape, InstanceRecord, CallRecord, RemovalRecord, NoCall, NoRemoval, Uncached
<1>2. ASSUME NEW i \in Instances
      PROVE  Sound(i)
  <2>1. /\ adapter[i].name = None /\ adapter[i].removed = FALSE /\ adapter[i].is = NewAdapter
        /\ \A n \in Names : adapters[n] # i
        /\ ~Leaving(i)
    BY NoneAssumption DEF Init, Leaving, NoRemoval
  <2> QED
    BY <2>1, ConnectStarts DEF Sound, Is, NameOf
<1> QED
  BY <1>1, <1>2 DEF IInv, Init, CallSound, CacheSound, RemovalSound, NoCall, NoRemoval, Uncached

LEMMA NextInv == IInv /\ [Next]_vars => IInv'
<1> SUFFICES ASSUME IInv, [Next]_vars PROVE IInv'
  OBVIOUS
<1>1. CASE \E i \in Instances : Lives(i)
  BY <1>1, LivesKeeps, AddAdapterKeeps, ConnectSucceedsKeeps DEF Lives
<1>2. CASE \E c \in Removers : Removes(c)
  BY <1>2, RemoveAdapterKeeps, ShutdownKeeps, RemovedKeeps, ShutdownNextKeeps DEF Removes
<1>3. CASE \E c \in Callers : Calls(c)
  BY <1>3, CallsKeep
<1>4. CASE \E n \in Names : CacheExpires(n)
  BY <1>4, CacheExpiresKeeps
<1>5. CASE UNCHANGED vars
  BY <1>5 DEF vars, IInv, Shape, Stored, Sound, Placed, Leaving, Is, NameOf, CallSound, CacheSound,
              RemovalSound
<1> QED
  BY <1>1, <1>2, <1>3, <1>4, <1>5 DEF Next

(* The invariant holds in every reachable state (AdapterManager with the     *)
(* ManagedAdapters it holds, whatever overlaps).                           *)
THEOREM Invariance == Spec => []IInv
BY InitInv, NextInv, PTL DEF Spec

(* Types: the instances' records, the Map, the tools, the cache. *)
THEOREM TypeCorrect == Spec => []TypeOK
<1>1. IInv => TypeOK
  BY DEF IInv, Shape, Sound, Timed, TypeOK, Is, InstanceRecord
<1> QED
  BY <1>1, Invariance, PTL

(* An adapter has at most one health check timer and one reconnection under  *)
(* way (managed-adapter.ts startHealthCheckTimer, startReconnection).       *)
THEOREM TimersSingle == Spec => []OneTimer
<1>1. IInv => OneTimer
  BY DEF IInv, Shape, Sound, Timed, OneTimer, Is, InstanceRecord, Adapter
<1> QED
  BY <1>1, Invariance, PTL

(* An adapter that is stored is connected and checked, or on its way back,   *)
(* or has given up.                                                        *)
THEOREM StoredDriven == Spec => []Driven
<1>1. IInv => Driven
  BY DEF IInv, Sound, Ready, Driven
<1> QED
  BY <1>1, Invariance, PTL

(* An adapter that was removed while nothing of it was under way stays down. *)
THEOREM RemovedRetired == Spec => []Retired
<1>1. IInv => Retired
  BY DEF IInv, Sound, Timed, Gone, Quiet, Retired
<1> QED
  BY <1>1, Invariance, PTL

(* The cache holds nothing of a removed adapter but what a read brought in    *)
(* after the removal began.                                                *)
THEOREM CacheLiving == Spec => []CacheOfLiving
<1>1. IInv => CacheOfLiving
  BY DEF IInv, Shape, CacheSound, CacheOfLiving
<1> QED
  BY <1>1, Invariance, PTL
=============================================================================
