-------------------------- MODULE AdapterProperties ---------------------------
(***************************************************************************)
(* What the adapters of an engine keep while operations and timers overlap. *)
(***************************************************************************)
EXTENDS AdapterManager, TLC

(* Instances, removers and names may be exchanged. *)
Interchangeable ==
  Permutations(Instances) \cup Permutations(Removers) \cup Permutations(Names)

TypeOK ==
  /\ \A i \in Instances : Is(i) \in Adapter /\ Is(i).attempt <= RetryAttempts
  /\ adapters \in [Names -> Instances \cup {None}]
  /\ toolIndex \subseteq Names
  /\ \A n \in Names : cache[n].from \in Instances \cup {None}

(* However connections, failed health checks, reconnections and removals     *)
(* overlap, an adapter has at most one health check timer and at most one   *)
(* reconnection under way: a timer that was overwritten could never be      *)
(* stopped.                                                                *)
OneTimer ==
  \A i \in Instances :
    LET a == Is(i)
    IN  /\ a.intervals = IF a.health THEN 1 ELSE 0
        /\ a.timeouts = IF a.reconnect THEN 1 ELSE 0
        /\ a.timeouts = 0 \/ a.connect = "none"

Leaving(i) == adapter[i].removed \/ \E c \in Removers : removal[c].on = i

(* An adapter that is stored and not being removed and has lost its          *)
(* connection is waiting for a reconnection or making one, unless it has no *)
(* attempt left or its breaker was open when the next was due; one that is  *)
(* connected has its health check timer.                                   *)
Driven ==
  \A i \in Instances :
    LET a == Is(i)
    IN  i \in {adapters[n] : n \in Names} /\ ~Leaving(i) =>
          /\ a.state = "connected" => a.health
          /\ a.state = "connecting" => a.connect = "retry"
          /\ a.state = "error" => \/ a.reconnect \/ a.connect = "retry"
                                  \/ a.attempt = RetryAttempts \/ a.stuck

(* An adapter that was removed with no connection or health check under way  *)
(* stays down: it holds no client, ticks no more and never connects again.  *)
Retired ==
  \A i \in Instances :
    adapter[i].removed /\ ~Is(i).late =>
      /\ Is(i).state = "disconnected"
      /\ ~Is(i).client
      /\ Is(i).intervals = 0
      /\ Is(i).connect = "none"

(* The cache holds nothing of an adapter that is being or was removed, but   *)
(* what a read under way brought in after the removal began.               *)
CacheOfLiving == \A n \in Names : cache[n].from # None /\ ~cache[n].late => ~Leaving(cache[n].from)
=============================================================================
