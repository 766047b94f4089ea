--------------------------- MODULE EngineProperties ---------------------------
(***************************************************************************)
(* What Engine.tla is checked for: its type invariant, what holds of slots,*)
(* queue, results, store and coroutines, and the statements of the         *)
(* repository that the code does not keep.                                 *)
(***************************************************************************)
EXTENDS Engine

(* The values the engine's variables can take. *)
Execution ==
  [state : States \cup {"absent"}, flow : Flows, key : Keys \cup {"fresh"},
   override : AllOverrides, retryCount : Nat,
   result : {"null", "raw", "guarded"}, error : Codes, resumed : BOOLEAN]

Call ==
  {Idle}
  \cup [op : {"trigger"}, flow : Flows, key : Keys \cup {"fresh"},
        override : AllOverrides]
  \cup [op : {"dispatch", "resume", "replay"}, id : Ids]

TypeOK ==
  /\ exec \in [Ids -> Execution]
  /\ \A e \in Ids : exec[e].retryCount <= FlowConfig[exec[e].flow].maxRetries
  /\ store \subseteq Ids
  /\ index \in [Keys -> Ids \cup {0}]
  /\ announced \in [Ids -> Nat]
  /\ active \in Int
  /\ charged \subseteq Ids
  /\ wakes \subseteq Ids
  /\ timers \in [TimerKinds -> SUBSET Ids]
  /\ remaining \in [Ids -> {"none", "left", "spent"}]
  /\ flowHandlerMap \subseteq Ids
  /\ fiber \in [Ids -> Awaits]
  /\ calls \in [Callers -> Call]
  /\ status \in {"ready", "draining", "cleanup", "stopped"}
  /\ flowRegistry \subseteq Flows

-------------------------------------------------------------------------------
(* Slots *)

(* Between its dispatch or resume and its end or its parking an execution *)
(* holds a slot.                                                           *)
Busy(e) == \/ fiber[e] = "parking"
           \/ exec[e].state \in {"running", "retrying"} /\ fiber[e] # "resuming"

(* cancel and the drain timeout fail a busy execution and keep its slot. *)
Leaked(e) == exec[e].error \in {"CANCELLED", "SHUTDOWN"}

(* Every increment of activeExecutions is matched by at most one decrement, *)
(* whichever of handler, guardrails, timers, retries, waits and resumes     *)
(* race: activeExecutions counts exactly the busy executions and those that *)
(* were cancelled or drained while busy.                                   *)
SlotAccounting ==
  /\ active = Cardinality(charged)
  /\ \A e \in Ids : Busy(e) => e \in charged
  /\ \A e \in charged : Busy(e) \/ Leaked(e)

(* dispatch never starts an execution beyond the limit: only resumed        *)
(* executions can take activeExecutions over config.concurrency.           *)
FreshWithinLimit ==
  Cardinality({e \in charged : ~exec[e].resumed}) <= Concurrency

-------------------------------------------------------------------------------
(* Coroutines *)

(* No execution is left with nobody to move it on: one that runs has a      *)
(* coroutine, one that retries a retry timer (or is about to arm it), one   *)
(* that waits keeps the handler a resume will need, and one not yet started *)
(* has no coroutine that could run it twice.                               *)
Driven ==
  \A e \in Ids :
    /\ exec[e].state = "running" => fiber[e] \notin {"none", "parking", "backingOff"}
    /\ exec[e].state = "retrying" => (fiber[e] = "backingOff" <=> e \notin timers["retry"])
    /\ exec[e].state = "waiting" => fiber[e] \in {"none", "parking"}
                                    /\ e \in flowHandlerMap
    /\ exec[e].state \in {"absent", "queued"} => fiber[e] = "none"

(* A resume always finds its handler, even when the flow was unregistered   *)
(* while the execution waited: the FLOW_NOT_FOUND failure is never recorded. *)
ResumeKeepsHandler == \A e \in Ids : exec[e].error # "FLOW_NOT_FOUND"

(* A run of a flow with a timeout always has its timer armed, through        *)
(* retries, waits and resumes, whatever else clears and arms timers.        *)
TimeoutKept ==
  \A e \in Ids :
    /\ exec[e].state \in {"running", "retrying"}
    /\ fiber[e] \notin {"starting", "startingQueued", "resuming"}
    /\ exec[e].override = "none" /\ FlowConfig[exec[e].flow].timeout
    => e \in timers["timeout"]

-------------------------------------------------------------------------------
(* Results *)

(* A result is on a completed execution, or was written by a run that came  *)
(* back after a timeout, a cancel or the drain had failed the execution;    *)
(* only a retried run delivers a result the output guardrails did not see. *)
ResultOrigin ==
  \A e \in Ids : exec[e].result # "null" =>
    /\ \/ exec[e].state = "complete"
       \/ exec[e].error \in {"TIMEOUT", "CANCELLED", "SHUTDOWN"}
    /\ exec[e].result = "raw" => exec[e].retryCount > 0

-------------------------------------------------------------------------------
(* Store *)

(* The store never loses an execution that is not over, and its key leads   *)
(* to it unless a second execution was created with the same key.          *)
StoreKeepsLive ==
  \A e \in Ids : exec[e].state \notin Terminal \cup {"absent"} =>
    /\ e \in store
    /\ exec[e].key \in Keys =>
         \/ index[exec[e].key] = e
         \/ \E d \in Ids \ {e} : exec[d].key = exec[e].key

-------------------------------------------------------------------------------
(* Order *)

Overtakes(e, d) ==
  /\ d < e
  /\ exec[d].state = "queued" /\ exec'[d].state = "queued"
  /\ exec[e].state = "queued" /\ exec'[e].state = "running"

(* The queue is first in, first out but for one case: an execution that is  *)
(* started by its own trigger call may overtake those already queued.      *)
OnlyTriggersOvertake ==
  [][\A e, d \in Ids : Overtakes(e, d) =>
       \E c \in Callers : calls[c] = [op |-> "dispatch", id |-> e]]_vars

-------------------------------------------------------------------------------
(* The inductive invariant *)

(* Awaits of a coroutine that takes e to be running *)
InRun == Awaits \ {"none", "parking", "backingOff"}

Ended(e, codes) == exec[e].state = "failed" /\ exec[e].error \in codes

(* Where the coroutine of e is suspended goes with the state e is in: it     *)
(* finds the state it left, unless a timer, cancel or the drain ended e.    *)
CoroutineMatchesState(e) ==
  /\ exec[e].state \in {"absent", "queued"} => fiber[e] = "none"
  /\ exec[e].state = "running"  => fiber[e] \in InRun
  /\ exec[e].state = "waiting"  => fiber[e] \in {"none", "parking"}
  /\ exec[e].state = "retrying" => fiber[e] \in {"none", "backingOff"}
  /\ exec[e].state = "complete" => fiber[e] = "none"
  /\ fiber[e] \in InRun => \/ exec[e].state = "running"
                           \/ Ended(e, {"TIMEOUT", "CANCELLED", "SHUTDOWN"})
  /\ fiber[e] = "resuming" => /\ exec[e].state = "running" \/ Leaked(e)
                              /\ exec[e].resumed
                              /\ e \notin charged
  /\ fiber[e] = "retry" => exec[e].retryCount > 0
  /\ exec[e].error # "null" => exec[e].state = "failed"

(* Which timers and map entries an execution has in each state *)
TimersMatchState(e) ==
  /\ e \in timers["timeout"] =>
       /\ exec[e].state \in {"running", "retrying"} \cup Terminal
       /\ fiber[e] \notin {"starting", "startingQueued", "resuming"}
  /\ e \in timers["retry"] => exec[e].state \in {"retrying"} \cup Terminal
  /\ exec[e].state = "retrying" =>
       /\ fiber[e] = "backingOff" <=> e \notin timers["retry"]
       /\ exec[e].retryCount > 0
  /\ exec[e].state = "waiting" => e \in flowHandlerMap
  /\ exec[e].state = "running" /\ fiber[e] = "resuming" => e \in flowHandlerMap

(* With a timeout of its own flow, an execution has the timer armed or the  *)
(* remaining time written down.                                            *)
TimeKept(e) ==
  exec[e].override = "none" /\ FlowConfig[exec[e].flow].timeout =>
    /\ exec[e].state \in {"running", "retrying"}
       /\ fiber[e] \notin {"starting", "startingQueued", "resuming"}
       => e \in timers["timeout"]
    /\ \/ exec[e].state = "waiting"
       \/ exec[e].state = "running" /\ fiber[e] = "resuming"
       => remaining[e] # "none"

Consistent ==
  \A e \in Ids : CoroutineMatchesState(e) /\ TimersMatchState(e) /\ TimeKept(e)

-------------------------------------------------------------------------------
(* The abstract specification *)

Abstract == INSTANCE Executions WITH
  state <- [e \in Ids |-> exec[e].state], announced <- announced

(* Executions start queued, follow the transition table, never leave a      *)
(* terminal state, and announce their end once: every step of the engine    *)
(* is a step of Executions.tla.                                            *)
ImplementsExecutions == Abstract!Spec

-------------------------------------------------------------------------------
(* Progress *)

(* A queued execution is eventually dispatched (or failed): a slot that     *)
(* opens always leads to a dispatch.                                       *)
QueueDrains == \A e \in Ids : exec[e].state = "queued" ~> exec[e].state # "queued"

(* Every slot taken is given back, through retries, waits and time-outs. *)
SlotsReturn == \A e \in Ids : e \in charged ~> e \notin charged
=============================================================================
