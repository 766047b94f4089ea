----------------------------- MODULE RateLimiter ------------------------------
(***************************************************************************)
(* The rate limiter (class RateLimiter): per key a log of the times of the *)
(* requests admitted in a sliding window, per limit a queue of requests    *)
(* that wait for room.  The operations below are synchronous; the policy   *)
(* engine calls them and waits for those that were queued.                 *)
(***************************************************************************)
EXTENDS PolicyRules

CONSTANTS
  Requests,
  RequestOf,     \* per request: [user, tenant, flow, operation]
  Limits,        \* names of rate limits
  LimitOf,       \* the configuration of each
  MaxTime        \* bound on the clock

RateLimitConfig ==
  [scope : {"user", "flow", "global"}, flowName : STRING, limit : Nat \ {0},
   window : Nat \ {0}, behavior : {"reject", "queue"}, maxQueueDepth : Nat]

ASSUME LimitAssumption == LimitOf \in [Limits -> RateLimitConfig]
ASSUME FinitenessAssumption == IsFiniteSet(Requests) /\ IsFiniteSet(Limits)
ASSUME ClockAssumption == MaxTime \in Nat

VARIABLES
  now,
  entries,       \* timestamps by key, oldest first
  queues         \* requests queued under each limit, oldest first

(* buildKey; a limit on every flow has the flow name "*". *)
Key(l, r) ==
  CASE LimitOf[l].scope = "user" -> <<"user", RequestOf[r].user>>
    [] LimitOf[l].scope = "flow" ->
         <<"flow", IF LimitOf[l].flowName = "*" THEN RequestOf[r].flow
                                                  ELSE LimitOf[l].flowName>>
    [] LimitOf[l].scope = "global" -> <<"global", "global">>

Keys == {Key(l, r) : l \in Limits, r \in Requests}

InitLimiter ==
  /\ now = 0
  /\ entries = [k \in Keys |-> <<>>]
  /\ queues = [l \in Limits |-> <<>>]

(***************************************************************************)
(* The log                                                                 *)
(***************************************************************************)

(* evictAndCount: the log under the key of r without what l's window is past *)
Later(time) == {t \in Int : t > time}

Evicted(log, l, r) ==
  [log EXCEPT ![Key(l, r)] = Only(@, Later(now - LimitOf[l].window))]

Full(log, l, r) == Len(Evicted(log, l, r)[Key(l, r)]) >= LimitOf[l].limit

Recorded(log, l, r) == [log EXCEPT ![Key(l, r)] = Append(@, now)]

CheckSync(log, l, r) ==
  LET kept == Evicted(log, l, r)
  IN  IF Full(log, l, r) THEN [log |-> kept, allowed |-> FALSE]
                         ELSE [log |-> Recorded(kept, l, r), allowed |-> TRUE]

(* checkMultiple's first loop, over the limits of the sequence ls *)
CheckAll(log, ls, r) ==
  FoldLeft(LAMBDA sofar, l :
             LET check == CheckSync(sofar.log, l, r)
             IN  [log     |-> check.log,
                  allowed |-> IF check.allowed THEN Append(sofar.allowed, l) ELSE sofar.allowed,
                  denied  |-> IF check.allowed THEN sofar.denied ELSE Append(sofar.denied, l)],
           [log |-> log, allowed |-> <<>>, denied |-> <<>>], ls)

(* mutant of Undo: the oldest timestamp is taken back *)
UndoOldest(log, ls, r) ==
  FoldLeft(LAMBDA rest, l : [rest EXCEPT ![Key(l, r)] = Tail(@)], log, ls)

(* Its second loop pops what the limits that allowed the request recorded. *)
Undo(log, ls, r) ==
  FoldLeft(LAMBDA rest, l : [rest EXCEPT ![Key(l, r)] = Front(@)], log, ls)

(***************************************************************************)
(* The queue                                                               *)
(***************************************************************************)

(* The resolve callback of a queued request records it under its own key. *)
Resolve(log, l, q) == Evicted(Recorded(log, l, q), l, q)

(* mutant of Drain: room is not looked for *)
DrainAll(log, l, r) ==
  [log |-> FoldLeft(LAMBDA sofar, q : Resolve(sofar, l, q), log, queues[l]),
   released |-> Len(queues[l])]

(* drainQueue, after a request r was allowed: the oldest are released as     *)
(* long as there is room under the key of r.                               *)
Drain(log, l, r) ==
  FoldLeft(LAMBDA sofar, q :
             IF sofar.stopped \/ Full(sofar.log, l, r)
               THEN [sofar EXCEPT !.stopped = TRUE, !.log = Evicted(@, l, r)]
               ELSE [sofar EXCEPT !.released = @ + 1, !.log = Resolve(@, l, q)],
           [log |-> log, released |-> 0, stopped |-> FALSE], queues[l])

(* releaseQueued *)
ReleaseQueued(log, l) == FoldLeft(LAMBDA sofar, q : Resolve(sofar, l, q), log, queues[l])

Oldest(l, n) == {queues[l][i] : i \in 1 .. n}
Dequeue(l, n) == queues' = [queues EXCEPT ![l] = SubSeq(@, n + 1, Len(@))]

(* enqueue *)
QueueFull(l) == Len(queues[l]) >= LimitOf[l].maxQueueDepth
Enqueue(l, r) == queues' = [queues EXCEPT ![l] = Append(@, r)]

(* The queue timer of r removes it. *)
Expired(l, r) == queues' = [queues EXCEPT ![l] = Without(@, r)]
=============================================================================
