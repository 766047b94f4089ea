------------------------------ MODULE AgentReview -----------------------------
(***************************************************************************)
(* An agent's execution among others: when its loop is over it is          *)
(* evaluated, as the others are, while operators add evaluators, flag and  *)
(* review.  What happens to other executions while the loop runs does not  *)
(* touch it, nor it them, and is left to later.  At the end, what its       *)
(* result says of what it spent, and what becomes of the flags.            *)
(***************************************************************************)
EXTENDS AgentLoop, Evaluation

reviewVars == <<agentVars, evaluationVars>>

ReviewInit == InitAgent /\ InitEvaluation

Evaluates ==
  \/ \E e \in Executions : RunEvaluation(e)
  \/ \E e \in Executions, n \in Names : EvaluatorAnswers(e, n)
  \/ \E e \in Executions : EndsEvaluation(e)

Operates ==
  \/ \E n \in Names : RemoveEvaluator(n) \/ \E m \in Mediums : AddEvaluator(n, m)
  \/ \E e \in Executions : FlagExecution(e) \/ UpdateFlag(e)

ReviewNext ==
  \/ ~Settled /\ AgentStep /\ UNCHANGED evaluationVars
  \/ Settled /\ (Evaluates \/ Operates) /\ UNCHANGED agentVars

ReviewSpec == ReviewInit /\ [][ReviewNext]_reviewVars

(***************************************************************************)
(* Properties                                                              *)
(***************************************************************************)
ReportedCost == SumFunction(agent.iterations)

Answering ==
  \/ agent.at = "loop"
  \/ agent.at = "result" /\ agent.stopReason \in {"completed", "max_iterations", "timeout"}

(* agent/handler.ts:283: the costs of the iterations add up to what the         *)
(* execution was charged, calls that were asked again and attempts that      *)
(* failed before included, as long as the ledger evicts none of it.        *)
Accounted ==
  ~evicted /\ agent.iterations # << >> /\ Answering => ReportedCost = charged

(* agent/handler.ts:220: an attempt goes beyond config.iterationBudget by one  *)
(* iteration at most, of three calls when answers are asked again; it starts *)
(* from what failed attempts have left of it or not.                       *)
Overshoot ==
  ~evicted /\ config.iterationBudget # 0 =>
    charged <= Max({before, config.iterationBudget - 1})
                 + (IF Validated THEN MaxValidationRetries + 1 ELSE 1) * Max(CallCosts)

Budgeted == Accounted /\ Overshoot

(* evaluation/flag-manager.ts:13: flags go from pending to reviewed to         *)
(* resolved, one way; an evaluation that ends late never sets back one that  *)
(* an operator has raised and reviewed meanwhile.                          *)
FlagSteps ==
  [][\A e \in Executions : flags[e] # flags'[e] =>
       <<flags[e], flags'[e]>> \in
         {<<"none", "pending">>, <<"pending", "reviewed">>, <<"reviewed", "resolved">>}]_reviewVars
=============================================================================
