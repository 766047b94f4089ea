--------------------------- MODULE PolicyProperties ---------------------------
(***************************************************************************)
(* What the policy engine keeps while requests wait and policies change.   *)
(***************************************************************************)
EXTENDS PolicyEngine

Stages == {"idle", "queued", "admitted", "input", "output", "done", "refused"}

TypeOK ==
  /\ now \in 0 .. MaxTime
  /\ \A k \in Keys : \A i \in DOMAIN entries[k] : entries[k][i] \in 0 .. now
  /\ \A l \in Limits : Len(queues[l]) <= LimitOf[l].maxQueueDepth
  /\ \A r \in Requests : request[r].stage \in Stages

(* In no window are more requests admitted against a limit than it has room  *)
(* for, whichever of them took the fast way, came after an undo, or were    *)
(* let out of the queue; those released by removing the limit do not count. *)
Within(l, r) ==
  {q \in Requests : /\ l \in request[q].charged
                    /\ request[q].waits = "none"
                    /\ Key(l, q) = Key(l, r)
                    /\ request[q].at \in request[r].at - LimitOf[l].window + 1 .. request[r].at}

WithinLimit ==
  \A r \in Requests : \A l \in request[r].charged : Cardinality(Within(l, r)) <= LimitOf[l].limit

(* It does not hold of all limits: those that log under one key must agree   *)
(* on the window, for each evicts what its own has passed (evictAndCount),  *)
(* and one that queues must have one key, for the drain looks for room      *)
(* under the key of the request that was allowed (drainQueue).              *)
WindowsAgree ==
  \A l, m \in Limits, r, q \in Requests :
    Key(l, r) = Key(m, q) => LimitOf[l].window = LimitOf[m].window

OneKeyPerQueue ==
  \A l \in Limits, r, q \in Requests : LimitOf[l].behavior = "queue" => Key(l, r) = Key(l, q)

(* The log of a key holds the times of the requests that were charged under  *)
(* it, in the window, and of no others: what a refused or waiting request   *)
(* recorded is taken back, and nothing else is.  Limits that share a log    *)
(* with windows of different lengths evict by their own, so that it is      *)
(* complete for the shortest of them only.                                 *)
InLog(k, since) == Only(entries[k], Later(since))

Charges(k, since) ==
  {c \in Requests \X Limits : /\ c[2] \in request[c[1]].charged
                              /\ Key(c[2], c[1]) = k
                              /\ request[c[1]].at > since}

(* The windows of the limits that log under k *)
Windows(k) == {LimitOf[l].window : l \in {m \in Limits : \E r \in Requests : Key(m, r) = k}}

Shortest(k) == {w \in Windows(k) : \A v \in Windows(k) : w <= v}

LogExact ==
  \A k \in Keys : \A w \in Shortest(k) :
    Len(InLog(k, now - w)) = Cardinality(Charges(k, now - w))

(* A request that waits is in one queue, once, and will be found there by    *)
(* its timer, the drain or the removal of its limit.                       *)
QueuedOnce ==
  \A r \in Requests, l \in Limits :
    Cardinality({i \in DOMAIN queues[l] : queues[l][i] = r})
      = IF request[r].stage = "queued" /\ request[r].waits = l THEN 1 ELSE 0

(* policy/rate-limiter.ts:198: logs and queues account for every request *)
Accounted == LogExact /\ QueuedOnce

(* "deny if any rule denies, modify if any rule modifies and none deny": for *)
(* every order in which rules came to be registered, the loop with its      *)
(* early exit decides by the rules of the operation alone, and denies when  *)
(* one of them fails.                                                      *)
RulesAsDocumented ==
  \A o \in OperationType :
    LET does == {RuleOf[n].does : n \in {m \in ToSet(rules) : o \in RuleOf[m].operations}}
    IN  EvaluateRules(rules, o).action =
          CASE does \cap {"deny", "invalid", "throws"} # {} -> "deny"
            [] does = {"modify"} \/ does = {"allow", "modify"} -> "modify"
            [] OTHER -> "allow"

(* A request is done only after every guardrail that was registered from the *)
(* start of its guardrails to the end has let it through, whatever others   *)
(* were added and removed meanwhile.                                       *)
Guarded == \A r \in Requests : request[r].stage = "done" => request[r].lasting \subseteq request[r].seen

(* Whoever asked gets an answer, in the end nobody is left waiting in a      *)
(* queue or between guardrails.                                            *)
Answered == <>[](\A r \in Requests : request[r].stage \in {"idle", "done", "refused"})
=============================================================================
