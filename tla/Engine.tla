-------------------------------- MODULE Engine --------------------------------
(***************************************************************************)
(* The execution engine (class Runcor, engine.ts) over the in-memory state *)
(* store, which hands out references: a handler, a timer and a caller that *)
(* hold an Execution all see the same object.                              *)
(*                                                                         *)
(* JavaScript runs one callback at a time, so a step is the code between   *)
(* two awaits.  fiber[e] says at which await the coroutine that runs e is  *)
(* suspended, calls[c] the same for a caller inside trigger, resume or     *)
(* replay, and wakes holds the dispatchQueued coroutines suspended between *)
(* their list() and their dispatch().  Time is abstracted: an armed timer  *)
(* may fire at any moment.                                                 *)
(*                                                                         *)
(* Ids are given in creation order, which is the order of timestamps.queued*)
(* and of the store's Map.                                                 *)
(***************************************************************************)
EXTENDS Lifecycle, Integers, FiniteSets

CONSTANTS
  MaxExecs,      \* bound on the executions ever created
  Concurrency,   \* config.concurrency
  Flows,         \* flow names
  FlowConfig,    \* per flow: timeout > 0, waitTimeout > 0, maxRetries, and
                 \* what its handler may do
  UsedKeys,      \* idempotency keys callers use; "fresh" is a key that
                 \* nobody uses twice
  Overrides,     \* values of options.timeout callers use
  Callers,       \* concurrent callers of the engine
  CancelStates,  \* states in which callers cancel an execution
  Operations     \* the other operations callers use; "resumeAgain" lets an
                 \* execution be resumed more than once

Outcomes     == {"value", "wait", "throw", "retryable"}
AllOverrides == {"none", "off", "on"}
AllOps       == {"resume", "resumeAgain", "replay", "delete", "register",
                 "shutdown"}

ASSUME MaxExecsAssumption    == MaxExecs \in Nat
ASSUME ConcurrencyAssumption == Concurrency \in Nat
ASSUME FlowsAssumption       == Flows # {}
ASSUME FlowConfigAssumption  ==
  FlowConfig \in [Flows -> [timeout : BOOLEAN, waitTimeout : BOOLEAN,
                            maxRetries : Nat, does : SUBSET Outcomes]]
ASSUME OverridesAssumption   == Overrides \subseteq AllOverrides
ASSUME CancelAssumption      == CancelStates \subseteq States \ Terminal
ASSUME OperationsAssumption  == Operations \subseteq AllOps

Ids        == 1 .. MaxExecs
Keys       == UsedKeys \ {"fresh"}
TimerKinds == {"timeout", "retry", "wait"}
Codes      == {"null", "ERROR", "TIMEOUT", "WAIT_TIMEOUT", "CANCELLED",
               "SHUTDOWN", "FLOW_NOT_FOUND"}
Awaits     == {"none", "starting", "startingQueued", "input", "handler",
               "output", "backingOff", "retry", "parking", "resuming",
               "resumed", "resumedOutput"}

VARIABLES
  exec,            \* the Execution objects, by id
  store,           \* ids the state store holds
  index,           \* its idempotencyIndex, 0 for no entry
  announced,       \* how many execution:complete events were emitted
  active,          \* activeExecutions
  charged,         \* history: who was charged a slot and not credited yet
  wakes,           \* heads of queue chosen by suspended dispatchQueued calls
  timers,          \* armed timers: timeoutTimers, retryTimers, waitTimeoutTimers
  remaining,       \* executionTimeoutRemaining: time "left", "spent" or none
  flowHandlerMap,  \* ids with an entry in flowHandlerMap
  fiber,           \* where the coroutine running the execution is suspended
  calls,           \* where each caller is suspended
  status,          \* engine status; "shutting_down" is split at the end of
                   \* the drain into "draining" and "cleanup"
  flowRegistry     \* registered flows

objects == <<exec, store, index, announced>>
slots   == <<active, charged, wakes>>
maps    == <<timers, remaining, flowHandlerMap>>
control == <<fiber, calls>>
engine  == <<status, flowRegistry>>
vars    == <<objects, slots, maps, control, engine>>

Idle == [op |-> "idle"]

(* createExecution *)
NewExecution(f, k, o) ==
  [state |-> InitialState, flow |-> f, key |-> k, override |-> o,
   retryCount |-> 0, result |-> "null", error |-> "null", resumed |-> FALSE]

Unborn == [NewExecution(CHOOSE f \in Flows : TRUE, "fresh", "none")
             EXCEPT !.state = "absent"]

Init ==
  /\ exec = [e \in Ids |-> Unborn]
  /\ store = {}
  /\ index = [k \in Keys |-> 0]
  /\ announced = [e \in Ids |-> 0]
  /\ active = 0
  /\ charged = {}
  /\ wakes = {}
  /\ timers = [t \in TimerKinds |-> {}]
  /\ remaining = [e \in Ids |-> "none"]
  /\ flowHandlerMap = {}
  /\ fiber = [e \in Ids |-> "none"]
  /\ calls = [c \in Callers |-> Idle]
  /\ status = "ready"
  /\ flowRegistry = Flows

(***************************************************************************)
(* Helpers of the engine and the store                                     *)
(***************************************************************************)

Running(e) == exec[e].state = "running"
Queued     == {e \in store : exec[e].state = "queued"}
Newest(S)  == {e \in S : \A d \in S : d <= e}   \* mutant of Oldest
Oldest(S)  == {e \in S : \A d \in S : e <= d}

(* A flow's timeout, unless the trigger's options override it. *)
Timed(e) == \/ exec[e].override = "on"
            \/ exec[e].override = "none" /\ FlowConfig[exec[e].flow].timeout

(* InMemoryStateStore.set: the index follows the last execution written. *)
Indexed(e) == IF exec[e].key \in Keys THEN [index EXCEPT ![exec[e].key] = e]
                                      ELSE index

(* The writes to an Execution object *)
Moved(x, state)      == [x EXCEPT !.state = state]
Failed(x, code)      == [x EXCEPT !.state = "failed", !.error = code]
Completed(x, result) == [x EXCEPT !.state = "complete", !.result = result]
Retried(x)           == [x EXCEPT !.state = "retrying", !.retryCount = @ + 1]
Reported(x, result)  == [x EXCEPT !.result = result]
Resumed(x)           == [x EXCEPT !.state = "running", !.resumed = TRUE]

(* transitionAndEmit followed by stateStore.set *)
Save(e, object) ==
  /\ CanMove(exec[e].state, object.state)
  /\ exec' = [exec EXCEPT ![e] = object]
  /\ store' = store \cup {e}
  /\ index' = Indexed(e)

Move(e, state) ==
  /\ Save(e, Moved(exec[e], state))
  /\ UNCHANGED announced

(* mutant of Fail: emitComplete is forgotten *)
FailSilently(e, code) ==
  /\ Save(e, Failed(exec[e], code))
  /\ UNCHANGED announced

(* failExecution of an execution that is not terminal *)
Fail(e, code) ==
  /\ Save(e, Failed(exec[e], code))
  /\ announced' = [announced EXCEPT ![e] = @ + 1]

ClearTimers(e) ==
  /\ timers' = [t \in TimerKinds |-> timers[t] \ {e}]
  /\ flowHandlerMap' = flowHandlerMap \ {e}
  /\ remaining' = [remaining EXCEPT ![e] = "none"]

(* dispatchQueued up to its await: with n slots busy, choose the head, if   *)
(* any.  Two calls that chose the same head count once: the second finds it *)
(* started.                                                                *)
Woken(n) == IF n < Concurrency THEN wakes \cup Oldest(Queued) ELSE wakes

FreeSlot(e) ==
  /\ active' = active - 1
  /\ charged' = charged \ {e}
  /\ wakes' = Woken(active - 1)

(* dispatch and the start of runExecution, up to its first await *)
MayStart(e) == exec[e].state = "queued" /\ active < Concurrency
Start(e, await) ==
  /\ active' = active + 1
  /\ charged' = charged \cup {e}
  /\ Move(e, "running")
  /\ fiber' = [fiber EXCEPT ![e] = await]

ContinueAt(e, await) ==
  /\ fiber' = [fiber EXCEPT ![e] = await]
  /\ UNCHANGED <<objects, slots, maps, calls, engine>>

(* "if (execution.state !== 'running') return" *)
Return(e) == ContinueAt(e, "none")

(* A run fails: clearTimers, failExecution, onExecutionTerminal. *)
FailRun(e) ==
  /\ Fail(e, "ERROR")
  /\ ClearTimers(e)
  /\ FreeSlot(e)
  /\ fiber' = [fiber EXCEPT ![e] = "none"]
  /\ UNCHANGED <<calls, engine>>

(* A run completes: clearTimers, set the result, announce, free the slot. *)
Complete(e, result) ==
  /\ Save(e, Completed(exec[e], result))
  /\ announced' = [announced EXCEPT ![e] = @ + 1]
  /\ ClearTimers(e)
  /\ FreeSlot(e)
  /\ fiber' = [fiber EXCEPT ![e] = "none"]
  /\ UNCHANGED <<calls, engine>>

(***************************************************************************)
(* trigger                                                                 *)
(***************************************************************************)

(* Bound: the calls that will create an execution are counted with those made. *)
Room == Cardinality({e \in Ids : exec[e].state # "absent"})
        + Cardinality({c \in Callers : calls[c].op \in {"trigger", "replay"}})
        < MaxExecs

(* The checks of trigger, up to the await of the policy engine.  A call the *)
(* checks refuse, or that finds its key in the store, changes nothing.     *)
Trigger(c, f, k, o) ==
  /\ Room
  /\ calls[c] = Idle
  /\ status = "ready"
  /\ k \in Keys => index[k] \notin store
  /\ f \in flowRegistry
  /\ calls' = [calls EXCEPT ![c] = [op |-> "trigger", flow |-> f, key |-> k,
                                    override |-> o]]
  /\ UNCHANGED <<objects, slots, maps, fiber, engine>>

(* evaluatePreExecution throws, in trigger, resume or replay. *)
PolicyDenies(c) ==
  /\ calls[c].op \in {"trigger", "resume", "replay"}
  /\ calls' = [calls EXCEPT ![c] = Idle]
  /\ UNCHANGED <<objects, slots, maps, fiber, engine>>

(* The policy allows the trigger: createExecution and stateStore.set. *)
Create(c, e) ==
  /\ calls[c].op = "trigger"
  /\ exec[e].state = "absent"
  /\ \A d \in Ids : d < e => exec[d].state # "absent"
  /\ exec' = [exec EXCEPT ![e] =
                NewExecution(calls[c].flow, calls[c].key, calls[c].override)]
  /\ store' = store \cup {e}
  /\ index' = IF calls[c].key \in Keys THEN [index EXCEPT ![calls[c].key] = e]
                                       ELSE index
  /\ calls' = [calls EXCEPT ![c] = [op |-> "dispatch", id |-> e]]
  /\ UNCHANGED <<announced, slots, maps, fiber, engine>>

(* The last step of trigger: dispatch the new execution. *)
DispatchNew(c) ==
  /\ calls[c].op = "dispatch"
  /\ calls' = [calls EXCEPT ![c] = Idle]
  /\ LET e == calls[c].id IN
     \/ MayStart(e) /\ Start(e, "starting") /\ UNCHANGED wakes
     \/ ~MayStart(e) /\ UNCHANGED <<objects, slots, fiber>>
  /\ UNCHANGED <<maps, engine>>

(* dispatchQueued after its await: the head it chose, if its flow is still  *)
(* registered.  The trigger's timeout is not passed on.                    *)
DispatchQueued(e) ==
  /\ e \in wakes
  /\ wakes' = wakes \ {e}
  /\ IF MayStart(e) /\ exec[e].flow \in flowRegistry
       THEN Start(e, "startingQueued")
       ELSE UNCHANGED <<objects, active, charged, fiber>>
  /\ UNCHANGED <<maps, calls, engine>>

(***************************************************************************)
(* runExecution                                                            *)
(***************************************************************************)

(* Running is saved: arm the timeout, start the input guardrails. *)
Started(e) ==
  /\ fiber[e] \in {"starting", "startingQueued"}
  /\ fiber' = [fiber EXCEPT ![e] = "input"]
  /\ LET timed == IF fiber[e] = "starting" THEN Timed(e)
                                           ELSE FlowConfig[exec[e].flow].timeout
     IN timers' = IF timed THEN [timers EXCEPT !["timeout"] = @ \cup {e}]
                           ELSE timers
  /\ UNCHANGED <<objects, slots, remaining, flowHandlerMap, calls, engine>>

(* The handler is invoked without looking at the state again. *)
InputPasses(e) ==
  /\ fiber[e] = "input"
  /\ ContinueAt(e, "handler")

InputBlocked(e) ==
  /\ fiber[e] = "input"
  /\ IF Running(e) THEN FailRun(e) ELSE Return(e)

InHandler(e, outcome) ==
  /\ fiber[e] \in {"handler", "retry", "resumed"}
  /\ outcome \in FlowConfig[exec[e].flow].does

(* mutant of HandlerReturns: resumed runs skip the output guardrails *)
HandlerReturnsUnguarded(e) ==
  /\ InHandler(e, "value")
  /\ IF ~Running(e) THEN Return(e)
     ELSE IF fiber[e] = "handler" THEN ContinueAt(e, "output") ELSE Complete(e, "raw")

(* A first or resumed run goes on to the output guardrails, a retry does not. *)
HandlerReturns(e) ==
  /\ InHandler(e, "value")
  /\ IF ~Running(e) THEN Return(e)
     ELSE CASE fiber[e] = "handler" -> ContinueAt(e, "output")
            [] fiber[e] = "resumed" -> ContinueAt(e, "resumedOutput")
            [] fiber[e] = "retry"   -> Complete(e, "raw")

(* mutant of EnterWaiting: the timeout timer is not cleared *)
EnterWaitingTimed(e) ==
  /\ Move(e, "waiting")
  /\ UNCHANGED <<timers, remaining>>
  /\ flowHandlerMap' = flowHandlerMap \cup {e}
  /\ fiber' = [fiber EXCEPT ![e] = "parking"]
  /\ UNCHANGED <<slots, calls, engine>>

(* enterWaitingState up to its await.  Whether time is left depends on the *)
(* clock since the trigger.                                                *)
EnterWaiting(e) ==
  /\ Move(e, "waiting")
  /\ timers' = [timers EXCEPT !["timeout"] = @ \ {e}]
  /\ IF e \in timers["timeout"] /\ Timed(e)
       THEN \E r \in {"left", "spent"} : remaining' = [remaining EXCEPT ![e] = r]
       ELSE UNCHANGED remaining
  /\ flowHandlerMap' = flowHandlerMap \cup {e}
  /\ fiber' = [fiber EXCEPT ![e] = "parking"]
  /\ UNCHANGED <<slots, calls, engine>>

HandlerWaits(e) ==
  /\ InHandler(e, "wait")
  /\ IF Running(e) THEN EnterWaiting(e) ELSE Return(e)

(* mutant of Parked: the slot is freed, nobody is dispatched *)
ParkedQuietly(e) ==
  /\ fiber[e] = "parking"
  /\ fiber' = [fiber EXCEPT ![e] = "none"]
  /\ timers' = IF FlowConfig[exec[e].flow].waitTimeout
                 THEN [timers EXCEPT !["wait"] = @ \cup {e}] ELSE timers
  /\ active' = active - 1
  /\ charged' = charged \ {e}
  /\ UNCHANGED <<wakes, objects, remaining, flowHandlerMap, calls, engine>>

(* enterWaitingState after its await *)
Parked(e) ==
  /\ fiber[e] = "parking"
  /\ fiber' = [fiber EXCEPT ![e] = "none"]
  /\ timers' = IF FlowConfig[exec[e].flow].waitTimeout
                 THEN [timers EXCEPT !["wait"] = @ \cup {e}] ELSE timers
  /\ FreeSlot(e)
  /\ UNCHANGED <<objects, remaining, flowHandlerMap, calls, engine>>

HandlerThrows(e) ==
  /\ InHandler(e, "throw")
  /\ IF Running(e) THEN FailRun(e) ELSE Return(e)

(* mutant of MayRetry: off by one *)
MayRetryOnceMore(e) ==
  /\ fiber[e] # "resumed"
  /\ exec[e].retryCount <= FlowConfig[exec[e].flow].maxRetries

MayRetry(e) ==
  /\ fiber[e] # "resumed"
  /\ exec[e].retryCount < FlowConfig[exec[e].flow].maxRetries

(* handleExecutionError up to its await *)
Retry(e) ==
  /\ Save(e, Retried(exec[e]))
  /\ fiber' = [fiber EXCEPT ![e] = "backingOff"]
  /\ UNCHANGED <<announced, slots, maps, calls, engine>>

HandlerThrowsRetryable(e) ==
  /\ InHandler(e, "retryable")
  /\ IF ~Running(e) THEN Return(e)
     ELSE IF MayRetry(e) THEN Retry(e) ELSE FailRun(e)

(* handleExecutionError after its await: arm the retry timer. *)
BackedOff(e) ==
  /\ fiber[e] = "backingOff"
  /\ fiber' = [fiber EXCEPT ![e] = "none"]
  /\ timers' = [timers EXCEPT !["retry"] = @ \cup {e}]
  /\ UNCHANGED <<objects, slots, remaining, flowHandlerMap, calls, engine>>

(* The output guardrails pass.  The state is not looked at again before the *)
(* result is written; only then does the transition of a finished execution *)
(* throw.                                                                  *)
OutputPasses(e) ==
  /\ fiber[e] \in {"output", "resumedOutput"}
  /\ IF Running(e) THEN Complete(e, "guarded")
     ELSE /\ exec' = [exec EXCEPT ![e] = Reported(exec[e], "guarded")]
          /\ ClearTimers(e)
          /\ fiber' = [fiber EXCEPT ![e] = "none"]
          /\ UNCHANGED <<store, index, announced, slots, calls, engine>>

OutputBlocked(e) ==
  /\ fiber[e] \in {"output", "resumedOutput"}
  /\ IF Running(e) THEN FailRun(e) ELSE Return(e)

(***************************************************************************)
(* Timers                                                                  *)
(***************************************************************************)

Expire(e, kind) ==
  /\ timers' = [timers EXCEPT ![kind] = @ \ {e}]
  /\ UNCHANGED <<remaining, flowHandlerMap>>

TimeoutFires(e) ==
  /\ e \in timers["timeout"]
  /\ IF exec[e].state \in Terminal
       THEN Expire(e, "timeout") /\ UNCHANGED <<objects, slots>>
       ELSE Fail(e, "TIMEOUT") /\ ClearTimers(e) /\ FreeSlot(e)
  /\ UNCHANGED <<control, engine>>

(* mutant of RetryFires: the handler is not invoked again *)
RetryFiresIdly(e) ==
  /\ e \in timers["retry"]
  /\ Expire(e, "retry")
  /\ IF exec[e].state = "retrying" THEN Move(e, "running") ELSE UNCHANGED objects
  /\ UNCHANGED <<slots, control, engine>>

RetryFires(e) ==
  /\ e \in timers["retry"]
  /\ Expire(e, "retry")
  /\ IF exec[e].state = "retrying"
       THEN Move(e, "running") /\ fiber' = [fiber EXCEPT ![e] = "retry"]
       ELSE UNCHANGED <<objects, fiber>>
  /\ UNCHANGED <<slots, calls, engine>>

(* A waiting execution holds no slot, so none is freed here. *)
WaitTimeoutFires(e) ==
  /\ e \in timers["wait"]
  /\ IF exec[e].state = "waiting"
       THEN Fail(e, "WAIT_TIMEOUT") /\ ClearTimers(e)
       ELSE Expire(e, "wait") /\ UNCHANGED objects
  /\ UNCHANGED <<slots, control, engine>>

(***************************************************************************)
(* resume                                                                  *)
(***************************************************************************)

(* The first check, up to the await of the policy engine. *)
Resume(c, e) ==
  /\ "resume" \in Operations
  /\ calls[c] = Idle
  /\ exec[e].resumed => "resumeAgain" \in Operations
  /\ exec[e].state = "waiting"
  /\ calls' = [calls EXCEPT ![c] = [op |-> "resume", id |-> e]]
  /\ UNCHANGED <<objects, slots, maps, fiber, engine>>

(* The policy allows it and the second check passes, or the call is over.  *)
(* The microtask queue is first in, first out: the parking of e and the    *)
(* dispatchQueued calls already suspended (one turn each) are over before  *)
(* the rest of resume runs (two more turns at least), and the latter       *)
(* commute with this step.                                                 *)
ResumeCommits(c) ==
  /\ calls[c].op = "resume"
  /\ calls' = [calls EXCEPT ![c] = Idle]
  /\ LET e == calls[c].id IN
     IF exec[e].state = "waiting"
       THEN /\ fiber[e] = "none"
            /\ wakes = {}
            /\ Save(e, Resumed(exec[e]))
            /\ timers' = [timers EXCEPT !["wait"] = @ \ {e}]
            /\ fiber' = [fiber EXCEPT ![e] = "resuming"]
            /\ UNCHANGED <<announced, remaining, flowHandlerMap>>
       ELSE UNCHANGED <<objects, maps, fiber>>
  /\ UNCHANGED <<slots, engine>>

FailUnlessTerminal(e, code) ==
  IF exec[e].state \in Terminal THEN UNCHANGED objects ELSE Fail(e, code)

(* Running is saved: take a slot, whatever the limit, and find the handler. *)
ResumeFindsNoHandler(e) ==
  /\ fiber[e] = "resuming"
  /\ e \notin flowHandlerMap
  /\ exec[e].flow \notin flowRegistry
  /\ FailUnlessTerminal(e, "FLOW_NOT_FOUND")
  /\ fiber' = [fiber EXCEPT ![e] = "none"]
  /\ UNCHANGED <<slots, maps, calls, engine>>

HandlerFound(e) ==
  /\ fiber[e] = "resuming"
  /\ e \in flowHandlerMap \/ exec[e].flow \in flowRegistry

(* The slot taken is freed at once by onExecutionTerminal. *)
ResumeOutOfTime(e) ==
  /\ HandlerFound(e)
  /\ remaining[e] = "spent"
  /\ FailUnlessTerminal(e, "TIMEOUT")
  /\ flowHandlerMap' = flowHandlerMap \ {e}
  /\ remaining' = [remaining EXCEPT ![e] = "none"]
  /\ wakes' = Woken(active)
  /\ fiber' = [fiber EXCEPT ![e] = "none"]
  /\ UNCHANGED <<active, charged, timers, calls, engine>>

(* mutant of ResumeRuns: the remaining time is not armed *)
ResumeRunsUntimed(e) ==
  /\ HandlerFound(e)
  /\ remaining[e] # "spent"
  /\ active' = active + 1
  /\ charged' = charged \cup {e}
  /\ flowHandlerMap' = flowHandlerMap \cup {e}
  /\ remaining' = [remaining EXCEPT ![e] = "none"]
  /\ fiber' = [fiber EXCEPT ![e] = "resumed"]
  /\ UNCHANGED <<timers, objects, wakes, calls, engine>>

ResumeRuns(e) ==
  /\ HandlerFound(e)
  /\ remaining[e] # "spent"
  /\ active' = active + 1
  /\ charged' = charged \cup {e}
  /\ flowHandlerMap' = flowHandlerMap \cup {e}
  /\ timers' = IF remaining[e] = "left"
                 THEN [timers EXCEPT !["timeout"] = @ \cup {e}] ELSE timers
  /\ remaining' = [remaining EXCEPT ![e] = "none"]
  /\ fiber' = [fiber EXCEPT ![e] = "resumed"]
  /\ UNCHANGED <<objects, wakes, calls, engine>>

(***************************************************************************)
(* The other operations of callers                                         *)
(***************************************************************************)

(* cancel clears the timers and fails the execution; it frees no slot. *)
Cancel(e) ==
  /\ e \in store
  /\ exec[e].state \in CancelStates
  /\ ClearTimers(e)
  /\ Fail(e, "CANCELLED")
  /\ UNCHANGED <<slots, control, engine>>

Replay(c, e) ==
  /\ "replay" \in Operations
  /\ Room
  /\ calls[c] = Idle
  /\ e \in store
  /\ exec[e].state \in Terminal
  /\ exec[e].flow \in flowRegistry
  /\ calls' = [calls EXCEPT ![c] = [op |-> "replay", id |-> e]]
  /\ UNCHANGED <<objects, slots, maps, fiber, engine>>

(* The policy allows the replay: trigger is called with a fresh key. *)
ReplayTriggers(c) ==
  /\ calls[c].op = "replay"
  /\ LET f == exec[calls[c].id].flow IN
     calls' = [calls EXCEPT ![c] =
                 IF status = "ready" /\ f \in flowRegistry
                   THEN [op |-> "trigger", flow |-> f, key |-> "fresh",
                         override |-> "none"]
                   ELSE Idle]
  /\ UNCHANGED <<objects, slots, maps, fiber, engine>>

(* mutant of Delete: no check of the state *)
DeleteAny(e) ==
  /\ "delete" \in Operations
  /\ e \in store
  /\ store' = store \ {e}
  /\ index' = IF exec[e].key \in Keys THEN [index EXCEPT ![exec[e].key] = 0]
                                      ELSE index
  /\ UNCHANGED <<exec, announced, slots, maps, control, engine>>

(* deleteExecution, and eviction after the retention period *)
Delete(e) ==
  /\ "delete" \in Operations
  /\ e \in store
  /\ exec[e].state \in Terminal
  /\ store' = store \ {e}
  /\ index' = IF exec[e].key \in Keys THEN [index EXCEPT ![exec[e].key] = 0]
                                      ELSE index
  /\ UNCHANGED <<exec, announced, slots, maps, control, engine>>

Unregister(f) ==
  /\ "register" \in Operations
  /\ status = "ready"
  /\ f \in flowRegistry
  /\ flowRegistry' = flowRegistry \ {f}
  /\ UNCHANGED <<objects, slots, maps, control, status>>

Register(f) ==
  /\ "register" \in Operations
  /\ status = "ready"
  /\ f \notin flowRegistry
  /\ flowRegistry' = flowRegistry \cup {f}
  /\ UNCHANGED <<objects, slots, maps, control, status>>

(***************************************************************************)
(* shutdown                                                                *)
(***************************************************************************)

Shutdown ==
  /\ "shutdown" \in Operations
  /\ status = "ready"
  /\ status' = IF active = 0 THEN "cleanup" ELSE "draining"
  /\ UNCHANGED <<objects, slots, maps, control, flowRegistry>>

Drained ==
  /\ status = "draining"
  /\ active = 0
  /\ status' = "cleanup"
  /\ UNCHANGED <<objects, slots, maps, control, flowRegistry>>

Stragglers == {e \in store : exec[e].state \notin Terminal \cup {"waiting"}}

(* The drain timer fires: every execution that is neither over nor waiting *)
(* fails; its slot is not freed.                                           *)
DrainTimeout ==
  /\ status = "draining"
  /\ status' = "cleanup"
  /\ exec' = [e \in Ids |->
                IF e \in Stragglers
                  THEN Failed(exec[e], "SHUTDOWN")
                  ELSE exec[e]]
  /\ announced' = [e \in Ids |-> announced[e] + IF e \in Stragglers THEN 1 ELSE 0]
  /\ index' = [k \in Keys |->
                 LET S == {e \in Stragglers : exec[e].key = k}
                 IN IF S = {} THEN index[k] ELSE CHOOSE e \in S : \A d \in S : d <= e]
  /\ timers' = [t \in TimerKinds |-> timers[t] \ Stragglers]
  /\ flowHandlerMap' = flowHandlerMap \ Stragglers
  /\ remaining' = [e \in Ids |-> IF e \in Stragglers THEN "none" ELSE remaining[e]]
  /\ UNCHANGED <<store, slots, control, flowRegistry>>

Stop ==
  /\ status = "cleanup"
  /\ status' = "stopped"
  /\ UNCHANGED <<objects, slots, maps, control, flowRegistry>>

(***************************************************************************)
(* The specification                                                       *)
(***************************************************************************)

(* The steps of the coroutine that runs e, whatever it is suspended at *)
Step(e) ==
  \/ Started(e)
  \/ InputPasses(e)  \/ InputBlocked(e)
  \/ HandlerReturns(e) \/ HandlerWaits(e) \/ HandlerThrows(e)
  \/ HandlerThrowsRetryable(e)
  \/ Parked(e) \/ BackedOff(e)
  \/ OutputPasses(e) \/ OutputBlocked(e)
  \/ ResumeFindsNoHandler(e) \/ ResumeOutOfTime(e) \/ ResumeRuns(e)

(* The steps that finish what a caller began *)
Continue(c) ==
  \/ PolicyDenies(c)
  \/ \E e \in Ids : Create(c, e)
  \/ DispatchNew(c)
  \/ ResumeCommits(c)
  \/ ReplayTriggers(c)

TimerFires(e) == TimeoutFires(e) \/ RetryFires(e) \/ WaitTimeoutFires(e)

Request(c) ==
  \/ \E f \in Flows, k \in UsedKeys, o \in Overrides : Trigger(c, f, k, o)
  \/ \E e \in Ids : Resume(c, e) \/ Replay(c, e)

Next ==
  \/ \E c \in Callers : Request(c) \/ Continue(c)
  \/ \E e \in Ids : DispatchQueued(e) \/ Step(e) \/ TimerFires(e)
  \/ \E e \in Ids : Cancel(e) \/ Delete(e)
  \/ \E f \in Flows : Unregister(f) \/ Register(f)
  \/ Shutdown \/ Drained \/ DrainTimeout \/ Stop

Spec == Init /\ [][Next]_vars

(* The event loop runs every ready continuation, handlers return and retry *)
(* timers fire; what callers do is not fair.                               *)
Fairness ==
  /\ \A e \in Ids : WF_vars(Step(e)) /\ WF_vars(DispatchQueued(e))
                    /\ WF_vars(RetryFires(e))
  /\ \A c \in Callers : WF_vars(Continue(c))
  /\ WF_vars(Drained \/ DrainTimeout) /\ WF_vars(Stop)

FairSpec == Spec /\ Fairness
=============================================================================
