------------------------------ MODULE MCEngine -------------------------------
EXTENDS EngineProperties

MCFlowConfig ==
  [f \in Flows |-> [timeout |-> TRUE, waitTimeout |-> TRUE, maxRetries |-> 1,
                    does |-> Outcomes]]

(* Flows whose handlers do not throw, and have no timeout of their own. *)
MCQuietFlowConfig ==
  [f \in Flows |-> [timeout |-> FALSE, waitTimeout |-> FALSE, maxRetries |-> 1,
                    does |-> {"value", "wait", "retryable"}]]
=============================================================================
