------------------------------ MODULE Lifecycle ------------------------------
(***************************************************************************)
(* The life cycle of one execution: the states and the transition table    *)
(* of execution.ts.  "absent" stands for an id that no trigger has used.   *)
(***************************************************************************)

States   == {"queued", "running", "waiting", "retrying", "complete", "failed"}
Terminal == {"complete", "failed"}

(* VALID_TRANSITIONS *)
Successors ==
  [queued   |-> {"running", "failed"},
   running  |-> {"complete", "waiting", "retrying", "failed"},
   waiting  |-> {"running", "failed"},
   retrying |-> {"running", "failed"},
   complete |-> {},
   failed   |-> {}]

(* validateTransition does not throw *)
CanMove(from, to) == from \in States /\ to \in Successors[from]

(* the state createExecution gives a new execution *)
InitialState == "queued"
=============================================================================
