----------------------------- MODULE Executions ------------------------------
(***************************************************************************)
(* What the engine promises of its executions, whatever its queue, slots,  *)
(* timers and callers do: an execution starts queued, moves only along the *)
(* transition table, and its end is announced (the execution:complete      *)
(* event) exactly once, at the moment it reaches a terminal state.         *)
(* Engine.tla is checked and proved to implement this specification.       *)
(***************************************************************************)
EXTENDS Lifecycle, Naturals

CONSTANT Ids

VARIABLES
  state,      \* Execution.state by id, "absent" before creation
  announced   \* number of execution:complete events emitted for the id

vars == <<state, announced>>

Init ==
  /\ state = [e \in Ids |-> "absent"]
  /\ announced = [e \in Ids |-> 0]

Create(e) ==
  /\ state[e] = "absent"
  /\ state' = [state EXCEPT ![e] = InitialState]
  /\ UNCHANGED announced

Advance(e, to) ==
  /\ CanMove(state[e], to)
  /\ to \notin Terminal
  /\ state' = [state EXCEPT ![e] = to]
  /\ UNCHANGED announced

Finish(e, to) ==
  /\ CanMove(state[e], to)
  /\ to \in Terminal
  /\ state' = [state EXCEPT ![e] = to]
  /\ announced' = [announced EXCEPT ![e] = @ + 1]

(* DrainTimeout ends several executions in one turn of the event loop. *)
FinishAll(E) ==
  /\ \A e \in E : CanMove(state[e], "failed")
  /\ state' = [e \in Ids |-> IF e \in E THEN "failed" ELSE state[e]]
  /\ announced' = [e \in Ids |-> announced[e] + IF e \in E THEN 1 ELSE 0]

Next ==
  \/ \E e \in Ids : Create(e)
  \/ \E e \in Ids, to \in States : Advance(e, to) \/ Finish(e, to)
  \/ \E E \in SUBSET Ids : FinishAll(E)

Spec == Init /\ [][Next]_vars
=============================================================================
