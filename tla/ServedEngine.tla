----------------------------- MODULE ServedEngine ------------------------------
(***************************************************************************)
(* What the servers see of the engine: flows come and go, executions move  *)
(* along their life cycle (Executions, which Engine implements), and       *)
(* shutdown drains, stops the MCP server and closes the store.             *)
(***************************************************************************)
EXTENDS Lifecycle, Naturals

CONSTANTS
  Ids,         \* executions, each of one call or request
  Names        \* of flows

VARIABLES
  status,      \* "ready", then of a shutdown "draining", "closing", "stopped"
  flows,       \* version of the handler of each flow, 0 when not registered
  state,       \* Execution.state, "absent" before the trigger made it
  deleted      \* executions deleted from the store since

engineVars == <<status, flows, state, deleted>>

InitEngine ==
  /\ status = "ready"
  /\ flows = [n \in Names |-> 1]
  /\ state = [e \in Ids |-> "absent"]
  /\ deleted = {}

Registered == {n \in Names : flows[n] > 0}

(* register and unregister, their event included in FlowsChange of the servers *)
Register(n, version) ==
  /\ status = "ready" /\ flows[n] = 0
  /\ flows' = [flows EXCEPT ![n] = version]
  /\ UNCHANGED <<status, state, deleted>>

Unregister(n) ==
  /\ status = "ready" /\ flows[n] > 0
  /\ flows' = [flows EXCEPT ![n] = 0]
  /\ UNCHANGED <<status, state, deleted>>

(* trigger, when its policy lets it pass; a shutdown may have begun meanwhile *)
Create(e) ==
  /\ state[e] = "absent" /\ status # "stopped"
  /\ state' = [state EXCEPT ![e] = InitialState]
  /\ UNCHANGED <<status, flows, deleted>>

Moves(e, to) ==
  /\ CanMove(state[e], to) /\ status # "stopped"
  /\ state' = [state EXCEPT ![e] = to]
  /\ UNCHANGED <<status, flows, deleted>>

(* getExecution *)
Stored(e) == IF e \in deleted THEN "absent" ELSE state[e]

Delete(e) ==
  /\ Stored(e) \in Terminal /\ status # "stopped"
  /\ deleted' = deleted \cup {e}
  /\ UNCHANGED <<status, flows, state>>

Shutdown ==
  /\ status = "ready"
  /\ status' = "draining"
  /\ UNCHANGED <<flows, state, deleted>>

(* The executions that hold slots have ended, or the drain time-out failed them *)
Drained ==
  /\ status = "draining"
  /\ \A e \in Ids : state[e] \in Terminal \cup {"absent", "waiting"}
  /\ status' = "closing"
  /\ UNCHANGED <<flows, state, deleted>>

Stopped ==
  /\ status = "closing"
  /\ status' = "stopped"
  /\ UNCHANGED <<flows, state, deleted>>
=============================================================================
