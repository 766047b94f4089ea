---------------------------- MODULE MCCostTracker -----------------------------
(***************************************************************************)
(* Instances of the cost tracker: a call of a user and one without a user, *)
(* of one flow, under budgets of each kind.                                *)
(***************************************************************************)
EXTENDS CostProperties

CONSTANTS c1, c2, user, flow, global

MCScopesOf == (c1 :> <<user, flow, global>>) @@ (c2 :> <<flow, global>>)

Hard(limit)  == [limit |-> limit, hard |-> TRUE, windowed |-> FALSE, warnAt |-> limit - 1]
Soft(limit)  == [Hard(limit) EXCEPT !.hard = FALSE]
Daily(limit) == [Soft(limit) EXCEPT !.windowed = TRUE]

HardThenSoft == (user :> Hard(2)) @@ (flow :> Hard(3)) @@ (global :> Daily(2))
Requests2 == [limit |-> 2, hard |-> TRUE]
=============================================================================
