-------------------------------- MODULE MCAgent -------------------------------
EXTENDS AgentReview

CONSTANTS e1, n1

Limits(tools, schema, iterations, budget, timeout, history) ==
  [tools |-> tools, outputSchema |-> schema, maxIterations |-> iterations,
   iterationBudget |-> budget, timeoutMs |-> timeout, maxHistoryMessages |-> history]

(* The tools hide the schema from the context, the context validates, no schema *)
ThreeConfigs == {Limits(TRUE, TRUE, 3, 3, 0, 2), Limits(FALSE, TRUE, 1, 2, 0, 0),
                 Limits(TRUE, FALSE, 2, 0, 1, 3)}

(* n1 is an evaluator for the other flow only *)
ForSome(n, e) == n = n1 => e = e1

Good  == [accuracy |-> 9]
Mixed == [accuracy |-> 12, safety |-> 1]
ThreeScorings == {Good, Mixed, Unscored}
=============================================================================
