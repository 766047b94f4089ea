---------------------------- MODULE DurableEngine -----------------------------
(***************************************************************************)
(* The engine over the persistent store, with its crashes and restarts.    *)
(* In Engine.tla everybody holds the same Execution object.  Here each get *)
(* and list hands out a copy, so that a coroutine goes on with its own     *)
(* copy whatever the others write.  A fiber is whatever holds a copy and   *)
(* will write it: a coroutine, or a timer with its closure.  Time-outs of  *)
(* runs, guardrails and the count of retries are left to Engine.tla.       *)
(***************************************************************************)
EXTENDS DurableStore, FiniteSets, Sequences

CONSTANTS
  Concurrency,   \* config.concurrency
  Fibers,        \* bound on the copies held at once
  Callers,       \* concurrent callers of the engine
  MaxRestarts    \* bound on the processes that follow the first

ASSUME ConcurrencyAssumption == Concurrency \in Nat \ {0}
ASSUME BoundsAssumption      == MaxRestarts \in Nat

VARIABLES
  fiber,         \* [on, at]: the execution, and the await it is at
  active,        \* activeExecutions
  retryTimer,    \* retryTimers: the fiber whose timer an execution's entry is
  waitTimer,     \* waitTimeoutTimers, likewise
  calls,         \* where each caller is suspended
  keyOf,         \* the key of every execution created
  status,        \* "up", "draining", "drained" or "down"
  restarts,
  ignored,       \* history: orphans left as they are
  stale          \* history: executions a copy of which fell behind their row

process == <<fiber, active, retryTimer, waitTimer, calls>>
vars    == <<rows, process, keyOf, status, restarts, ignored, stale>>

NoFiber == [on |-> 0, at |-> "none"]
Idle    == [op |-> "idle", on |-> 0]

InitProcess ==
  [fiber |-> [f \in Fibers |-> NoFiber], active |-> 0,
   retryTimer |-> [e \in Ids |-> {}], waitTimer |-> [e \in Ids |-> {}],
   calls |-> [c \in Callers |-> Idle]]

Init ==
  /\ InitStore
  /\ fiber = InitProcess.fiber /\ active = InitProcess.active
  /\ retryTimer = InitProcess.retryTimer /\ waitTimer = InitProcess.waitTimer
  /\ calls = InitProcess.calls
  /\ keyOf = << >>
  /\ status = "up"
  /\ restarts = 0
  /\ ignored = {}
  /\ stale = {}

(***************************************************************************)
(* Copies                                                                  *)
(***************************************************************************)

(* Where a fiber may be, and the state its copy then has *)
CopyState ==
  [none |-> "absent",
   listed |-> "queued",     \* listed by dispatchQueued, to be dispatched
   handler |-> "running",   \* in its handler, the first or a retried one
   resuming |-> "running",  \* resumed, its slot not yet taken
   resumed |-> "running",   \* in its handler after a resume
   backoff |-> "retrying",  \* to be retried, its timer not yet armed
   retry |-> "retrying",    \* a retry timer
   parked |-> "waiting",    \* waiting, its slot not yet freed
   waiting |-> "waiting",   \* a wait time-out
   done |-> "complete"]     \* complete, its slot not yet freed

Free     == {f \in Fibers : fiber[f] = NoFiber}
At(f, w) == fiber[f].at \in w

(* What a suspended caller has read of an execution and will act upon *)
CallState ==
  [dispatch |-> "queued", mark |-> "queued", continue |-> "waiting"]

(* A copy of the execution differs from its row *)
Behind(e) ==
  \/ \E f \in Fibers : fiber[f].on = e /\ CopyState[fiber[f].at] # StateOf(e)
  \/ \E c \in Callers : /\ calls[c].on = e
                        /\ calls[c].op \in DOMAIN CallState
                        /\ CallState[calls[c].op] # StateOf(e)
  \/ \E c \in Callers : calls[c].on = e /\ calls[c].op = "cancel" /\ StateOf(e) \in Terminal \cup {"absent"}

Tracked ==
  stale' = IF status' = "down" THEN {} ELSE stale \cup {e \in Ids : Behind(e)'}

(* transitionAndEmit and the stateStore.set that follows it at once *)
Write(e, state) == rows' = Put(rows, e, [state |-> state, key |-> keyOf[e]])

(* The fibers whose timers clearTimers(e) cancels *)
Cleared(e) == retryTimer[e] \cup waitTimer[e]

(* The fibers after those of gone are dropped *)
Dropped(gone) == [g \in Fibers |-> IF g \in gone THEN NoFiber ELSE fiber[g]]

(* ... and f has moved *)
Moved(f, to, gone) ==
  [g \in Fibers |-> IF g = f THEN to ELSE IF g \in gone THEN NoFiber ELSE fiber[g]]

(* clearTimers(e), called by the fiber f: a cleared retry keeps its slot     *)
ClearTimers(es) ==
  /\ retryTimer' = [e \in Ids |-> IF e \in es THEN {} ELSE retryTimer[e]]
  /\ waitTimer' = [e \in Ids |-> IF e \in es THEN {} ELSE waitTimer[e]]
NoTimersCleared == UNCHANGED <<retryTimer, waitTimer>>

(* dispatchQueued, up to the listing it awaits: with a free slot the oldest  *)
(* queued row is listed, if there is one.                                  *)
AfterTerminal(table, slots) ==
  LET queued == {e \in Ids : table[e].state = "queued"}
  IN IF slots >= Concurrency \/ queued = {} THEN NoFiber
     ELSE [on |-> CHOOSE e \in queued : \A d \in queued : e <= d, at |-> "listed"]

(***************************************************************************)
(* Calls of the engine                                                     *)
(***************************************************************************)

Suspend(c, call) == calls' = [calls EXCEPT ![c] = call]
Finish(c)        == Suspend(c, Idle)
CanCreate        == Len(keyOf) < MaxExecs

(* trigger, up to the policies it awaits: an execution with the key is       *)
(* returned, which changes nothing.                                        *)
Trigger(c, k) ==
  /\ calls[c] = Idle /\ status = "up" /\ CanCreate
  /\ ByKey(k) = {}
  /\ Suspend(c, [op |-> "create", on |-> 0, key |-> k, next |-> "idle"])
  /\ UNCHANGED <<rows, fiber, active, keyOf, status, restarts, ignored>>
  /\ NoTimersCleared
  /\ Tracked

(* replay, up to the trigger it calls, and its policies *)
Replay(c, e) ==
  /\ calls[c] = Idle /\ status = "up" /\ CanCreate
  /\ StateOf(e) \in Terminal
  /\ Suspend(c, [op |-> "create", on |-> 0, key |-> 0, next |-> "mark"])
  /\ UNCHANGED <<rows, fiber, active, keyOf, status, restarts, ignored>>
  /\ NoTimersCleared
  /\ Tracked

(* trigger, from its policies to the awaited set of the new execution *)
Create(c) ==
  /\ calls[c].op = "create" /\ CanCreate
  /\ LET e == Len(keyOf) + 1
         k == IF calls[c].next = "mark" THEN e ELSE calls[c].key
     IN /\ rows' = Put(rows, e, [state |-> InitialState, key |-> k])
        /\ keyOf' = Append(keyOf, k)
        /\ Suspend(c, [op |-> "dispatch", on |-> e, next |-> calls[c].next])
  /\ UNCHANGED <<fiber, active, status, restarts, ignored>>
  /\ NoTimersCleared
  /\ Tracked

(* runExecution up to its handler *)
Start(f, e) ==
  /\ fiber' = [fiber EXCEPT ![f] = [on |-> e, at |-> "handler"]]
  /\ active' = active + 1
  /\ Write(e, "running")

(* dispatch by trigger of the copy it holds.  A replay whose execution runs  *)
(* writes the same object again before that has moved, which changes        *)
(* nothing; one whose execution stays queued goes on to write its copy.     *)
Dispatch(c) ==
  /\ calls[c].op = "dispatch"
  /\ IF active < Concurrency
     THEN /\ \E f \in Free : Start(f, calls[c].on)
          /\ Finish(c)
     ELSE /\ UNCHANGED <<rows, fiber, active>>
          /\ IF calls[c].next = "mark" THEN Suspend(c, [op |-> "mark", on |-> calls[c].on])
             ELSE Finish(c)
  /\ UNCHANGED <<keyOf, status, restarts, ignored>>
  /\ NoTimersCleared
  /\ Tracked

(* replay sets replayOf and stores the copy it holds *)
ReplayMarks(c) ==
  /\ calls[c].op = "mark"
  /\ Write(calls[c].on, "queued")
  /\ Finish(c)
  /\ UNCHANGED <<fiber, active, keyOf, status, restarts, ignored>>
  /\ NoTimersCleared
  /\ Tracked

(* resume, up to its policies; it fails or does nothing unless waiting *)
Resume(c, e) ==
  /\ calls[c] = Idle /\ status # "down"
  /\ StateOf(e) = "waiting"
  /\ Suspend(c, [op |-> "resume", on |-> e])
  /\ UNCHANGED <<rows, fiber, active, keyOf, status, restarts, ignored>>
  /\ NoTimersCleared
  /\ Tracked

(* ... the second get: what it reads is acted upon after the await *)
ResumeReads(c) ==
  /\ calls[c].op = "resume"
  /\ IF StateOf(calls[c].on) = "waiting"
     THEN Suspend(c, [calls[c] EXCEPT !.op = "continue"])
     ELSE Finish(c)
  /\ UNCHANGED <<rows, fiber, active, keyOf, status, restarts, ignored>>
  /\ NoTimersCleared
  /\ Tracked

(* ... the wait time-out is cancelled and the copy written as running *)
ResumeContinues(c) ==
  /\ calls[c].op = "continue"
  /\ LET e == calls[c].on
     IN /\ \E f \in Free \cup waitTimer[e] :
             fiber' = Moved(f, [on |-> e, at |-> "resuming"], waitTimer[e])
        /\ waitTimer' = [waitTimer EXCEPT ![e] = {}]
        /\ Write(e, "running")
  /\ Finish(c)
  /\ UNCHANGED <<active, retryTimer, keyOf, status, restarts, ignored>>
  /\ Tracked

(* ... and its handler started: no slot need be free *)
ResumeRuns(f) ==
  /\ At(f, {"resuming"})
  /\ fiber' = [fiber EXCEPT ![f].at = "resumed"]
  /\ active' = active + 1
  /\ UNCHANGED <<rows, calls, keyOf, status, restarts, ignored>>
  /\ NoTimersCleared
  /\ Tracked

(* cancel, up to the copy it awaits *)
Cancel(c, e) ==
  /\ calls[c] = Idle /\ status # "down"
  /\ Has(e) /\ StateOf(e) \notin Terminal
  /\ Suspend(c, [op |-> "cancel", on |-> e])
  /\ UNCHANGED <<rows, fiber, active, keyOf, status, restarts, ignored>>
  /\ NoTimersCleared
  /\ Tracked

(* ... its timers are cleared and the copy is failed.  A handler at work has *)
(* a copy of its own; nobody frees the slot of a cleared retry.             *)
CancelWrites(c) ==
  /\ calls[c].op = "cancel"
  /\ LET e == calls[c].on
     IN /\ fiber' = Dropped(Cleared(e))
        /\ ClearTimers({e})
        /\ Write(e, "failed")
  /\ Finish(c)
  /\ UNCHANGED <<active, keyOf, status, restarts, ignored>>
  /\ Tracked

(* deleteExecution, and the eviction of expired executions *)
DeleteExecution(e) ==
  /\ status # "down"
  /\ Remove(e)
  /\ UNCHANGED <<fiber, active, calls, keyOf, status, restarts, ignored>>
  /\ NoTimersCleared
  /\ Tracked

(***************************************************************************)
(* Coroutines and timers                                                   *)
(***************************************************************************)

(* The copy of f is written as state and f goes on at the place at *)
Proceeds(f, state, at) ==
  /\ fiber' = [fiber EXCEPT ![f].at = at]
  /\ Write(fiber[f].on, state)
  /\ UNCHANGED <<active, calls, keyOf, status, restarts, ignored>>
  /\ NoTimersCleared
  /\ Tracked

(* The handler returns a result (runExecution, the retry, runResumedHandler) *)
Completes(f) ==
  /\ At(f, {"handler", "resumed"})
  /\ LET e == fiber[f].on
     IN /\ fiber' = Moved(f, [on |-> e, at |-> "done"], Cleared(e) \ {f})
        /\ ClearTimers({e})
        /\ Write(e, "complete")
  /\ UNCHANGED <<active, calls, keyOf, status, restarts, ignored>>
  /\ Tracked

(* ... and then onExecutionTerminal *)
FreesSlot(f) ==
  /\ At(f, {"done"})
  /\ active' = active - 1
  /\ fiber' = [fiber EXCEPT ![f] = AfterTerminal(rows, active - 1)]
  /\ UNCHANGED <<rows, calls, keyOf, status, restarts, ignored>>
  /\ NoTimersCleared
  /\ Tracked

(* The handler throws: failExecution and onExecutionTerminal *)
Throws(f) ==
  /\ At(f, {"handler", "resumed"})
  /\ LET e == fiber[f].on
     IN /\ Write(e, "failed")
        /\ ClearTimers({e})
        /\ fiber' = Moved(f, AfterTerminal(rows', active - 1), Cleared(e))
  /\ active' = active - 1
  /\ UNCHANGED <<calls, keyOf, status, restarts, ignored>>
  /\ Tracked

(* ... a RetryableError and retries are left: never after a resume *)
ThrowsRetryable(f) == At(f, {"handler"}) /\ Proceeds(f, "retrying", "backoff")

ArmRetry(f) ==
  /\ At(f, {"backoff"})
  /\ fiber' = [fiber EXCEPT ![f].at = "retry"]
  /\ retryTimer' = [retryTimer EXCEPT ![fiber[f].on] = {f}]
  /\ UNCHANGED <<rows, active, waitTimer, calls, keyOf, status, restarts, ignored>>
  /\ Tracked

RetryFires(f) ==
  /\ At(f, {"retry"})
  /\ fiber' = [fiber EXCEPT ![f].at = "handler"]
  /\ retryTimer' = [retryTimer EXCEPT ![fiber[f].on] = {}]
  /\ Write(fiber[f].on, "running")
  /\ UNCHANGED <<active, waitTimer, calls, keyOf, status, restarts, ignored>>
  /\ Tracked

(* The handler returns a wait signal: enterWaitingState, up to its set *)
Waits(f) == At(f, {"handler", "resumed"}) /\ Proceeds(f, "waiting", "parked")

(* ... and after it, with or without a wait time-out.  The time-out keeps the *)
(* copy; the coroutine goes on to dispatchQueued.                          *)
WaitsOn(f) ==
  /\ At(f, {"parked"})
  /\ active' = active - 1
  /\ \/ /\ fiber' = [fiber EXCEPT ![f] = AfterTerminal(rows, active - 1)]
        /\ UNCHANGED waitTimer
     \/ \E g \in Free :
          /\ fiber' = [fiber EXCEPT ![f].at = "waiting",
                                    ![g] = AfterTerminal(rows, active - 1)]
          /\ waitTimer' = [waitTimer EXCEPT ![fiber[f].on] = {f}]
  /\ UNCHANGED <<rows, retryTimer, calls, keyOf, status, restarts, ignored>>
  /\ Tracked

WaitTimeout(f) ==
  /\ At(f, {"waiting"})
  /\ LET e == fiber[f].on
     IN /\ Write(e, "failed")
        /\ ClearTimers({e})
        /\ fiber' = Moved(f, NoFiber, Cleared(e))
  /\ UNCHANGED <<active, calls, keyOf, status, restarts, ignored>>
  /\ Tracked

(* dispatch by dispatchQueued of the copy it listed *)
DispatchQueued(f) ==
  /\ At(f, {"listed"})
  /\ IF active < Concurrency THEN Start(f, fiber[f].on)
     ELSE /\ fiber' = [fiber EXCEPT ![f] = NoFiber]
          /\ UNCHANGED <<rows, active>>
  /\ UNCHANGED <<calls, keyOf, status, restarts, ignored>>
  /\ NoTimersCleared
  /\ Tracked

(***************************************************************************)
(* The process                                                             *)
(***************************************************************************)

Shutdown ==
  /\ status = "up"
  /\ status' = "draining"
  /\ UNCHANGED <<rows, fiber, active, calls, keyOf, restarts, ignored>>
  /\ NoTimersCleared
  /\ Tracked

(* The drain time-out fails what is neither terminal nor waiting, whose      *)
(* handlers go on with their copies until the store is closed.             *)
DrainTimeout ==
  /\ status = "draining" /\ active > 0
  /\ LET failing == {e \in Ids : StateOf(e) \in Orphaned}
     IN /\ rows' = [e \in Ids |-> IF e \in failing THEN [rows[e] EXCEPT !.state = "failed"] ELSE rows[e]]
        /\ ClearTimers(failing)
        /\ fiber' = Dropped(UNION {Cleared(e) : e \in failing})
  /\ status' = "drained"
  /\ UNCHANGED <<active, calls, keyOf, restarts, ignored>>
  /\ Tracked

(* What the process held is gone, the rows stay *)
Ends ==
  /\ fiber' = InitProcess.fiber /\ active' = InitProcess.active
  /\ retryTimer' = InitProcess.retryTimer /\ waitTimer' = InitProcess.waitTimer
  /\ calls' = InitProcess.calls
  /\ status' = "down"
  /\ UNCHANGED <<rows, keyOf, restarts, ignored>>
  /\ Tracked

(* shutdown closes the store once nothing is active or the drain timed out *)
Close == /\ \/ status = "draining" /\ active = 0
            \/ status = "drained"
         /\ Ends

Crash == status # "down" /\ Ends

Restart ==
  /\ status = "down" /\ restarts < MaxRestarts
  /\ \E answers \in [Ids -> Answers] :
       /\ rows' = Recovered(answers)
       /\ ignored' = {e \in Ids : answers[e] = "ignore" /\ StateOf(e) \in {"running", "retrying"}}
  /\ status' = "up"
  /\ restarts' = restarts + 1
  /\ UNCHANGED <<process, keyOf>>
  /\ Tracked

FiberNext(f) ==
  \/ ResumeRuns(f) \/ Completes(f) \/ FreesSlot(f) \/ Throws(f)
  \/ ThrowsRetryable(f) \/ ArmRetry(f) \/ RetryFires(f)
  \/ Waits(f) \/ WaitsOn(f) \/ WaitTimeout(f) \/ DispatchQueued(f)

CallerNext(c) ==
  \/ \E k \in Keys : Trigger(c, k)
  \/ \E e \in Ids : Replay(c, e) \/ Resume(c, e) \/ Cancel(c, e)
  \/ Create(c) \/ Dispatch(c) \/ ReplayMarks(c)
  \/ ResumeReads(c) \/ ResumeContinues(c) \/ CancelWrites(c)

Next ==
  \/ \E f \in Fibers : FiberNext(f)
  \/ \E c \in Callers : CallerNext(c)
  \/ \E e \in Ids : DeleteExecution(e)
  \/ Shutdown \/ DrainTimeout \/ Close \/ Crash \/ Restart

Spec == Init /\ [][Next]_vars
=============================================================================
