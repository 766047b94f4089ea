----------------------------- MODULE EngineProofs -----------------------------
(***************************************************************************)
(* Proofs, for every number of executions, slots, flows, keys and callers, *)
(* of what the runs of EngineProperties check on small instances.          *)
(***************************************************************************)
EXTENDS EngineProperties, FiniteSetTheorems, WellFoundedInduction, TLAPS

-------------------------------------------------------------------------------
(* Type correctness *)

LEMMA IdsFinite ==
  ASSUME NEW S \in SUBSET Ids
  PROVE  IsFiniteSet(S) /\ Cardinality(S) \in Nat
<1>1. IsFiniteSet(1 .. MaxExecs)
  <2>1. 1 \in Int /\ MaxExecs \in Int
    BY MaxExecsAssumption
  <2>2. QED
    BY <2>1, FS_Interval
<1>2. IsFiniteSet(S)
  BY <1>1, FS_Subset DEF Ids
<1>3. QED
  BY <1>2, FS_CardinalityType

(* A non-empty set of ids has a last one: the choice DrainTimeout makes.    *)
LEMMA LastExists ==
  ASSUME NEW S \in SUBSET Ids, S # {}
  PROVE  (CHOOSE e \in S : \A d \in S : d <= e) \in S
<1> DEFINE After(e) == {d \in S : d > e}
           Tails    == {T \in SUBSET S : \E e \in S : T = After(e)}
<1>1. IsFiniteSet(S)
  BY IdsFinite
<1>2. IsWellFoundedOn(StrictSubsetOrdering(S), SUBSET S)
  BY <1>1, FS_FiniteSubsetsOfFinite, FS_StrictSubsetOrderingWellFounded
<1>3. Tails # {} /\ Tails \subseteq SUBSET S
  OBVIOUS
<1>4. PICK T \in Tails : \A U \in Tails : <<U, T>> \notin StrictSubsetOrdering(S)
  BY <1>2, <1>3, WFMin
<1>5. PICK e \in S : T = After(e)
  BY <1>4
<1>6. ASSUME NEW d \in S, d > e PROVE FALSE
  <2>1. After(d) \in Tails
    OBVIOUS
  <2>a. \A x \in S : x > d => x > e
    BY <1>6, MaxExecsAssumption DEF Ids
  <2>b. After(d) \subseteq T
    BY <1>5, <2>a
  <2>2. d \in T /\ d \notin After(d)
    BY <1>5, <1>6, MaxExecsAssumption DEF Ids
  <2>3. QED
    BY <2>1, <2>2, <2>b, <1>4, <1>5 DEF StrictSubsetOrdering
<1>7. \A d \in S : d <= e
  BY <1>6 DEF Ids
<1>8. QED
  BY <1>7

LEMMA InitType == Init => TypeOK
<1> SUFFICES ASSUME Init PROVE TypeOK
  OBVIOUS
<1>1. Unborn \in Execution /\ Unborn.retryCount = 0
  BY FlowsAssumption
  DEF Unborn, NewExecution, Execution, InitialState, AllOverrides, Codes, States
<1>2. \A e \in Ids : exec[e].retryCount <= FlowConfig[exec[e].flow].maxRetries
  BY <1>1, FlowConfigAssumption DEF Init, Execution
<1>3. QED
  BY <1>1, <1>2 DEF Init, TypeOK, TimerKinds, Awaits, Call, Idle

StoreType ==
  /\ exec \in [Ids -> Execution]
  /\ \A e \in Ids : exec[e].retryCount <= FlowConfig[exec[e].flow].maxRetries
  /\ store \subseteq Ids
  /\ index \in [Keys -> Ids \cup {0}]

(* Writing an execution keeps the store well typed. *)
LEMMA SaveType ==
  ASSUME TypeOK, NEW e \in Ids, NEW object \in Execution,
         object.retryCount <= FlowConfig[object.flow].maxRetries,
         Save(e, object)
  PROVE  StoreType'
BY DEF TypeOK, Save, Indexed, StoreType

(* What the writes of the engine make of an execution *)
LEMMA MovedFields ==
  ASSUME NEW x \in Execution, NEW s \in States
  PROVE  /\ Moved(x, s) \in Execution
         /\ Moved(x, s).state = s
         /\ Moved(x, s).flow = x.flow
         /\ Moved(x, s).key = x.key
         /\ Moved(x, s).override = x.override
         /\ Moved(x, s).retryCount = x.retryCount
         /\ Moved(x, s).result = x.result
         /\ Moved(x, s).error = x.error
         /\ Moved(x, s).resumed = x.resumed
BY DEF Moved, Execution, States

LEMMA FailedFields ==
  ASSUME NEW x \in Execution, NEW c \in Codes
  PROVE  /\ Failed(x, c) \in Execution
         /\ Failed(x, c).state = "failed"
         /\ Failed(x, c).flow = x.flow
         /\ Failed(x, c).key = x.key
         /\ Failed(x, c).override = x.override
         /\ Failed(x, c).retryCount = x.retryCount
         /\ Failed(x, c).result = x.result
         /\ Failed(x, c).error = c
         /\ Failed(x, c).resumed = x.resumed
BY DEF Failed, Execution, States

LEMMA CompletedFields ==
  ASSUME NEW x \in Execution, NEW r \in {"raw", "guarded"}
  PROVE  /\ Completed(x, r) \in Execution
         /\ Completed(x, r).state = "complete"
         /\ Completed(x, r).flow = x.flow
         /\ Completed(x, r).key = x.key
         /\ Completed(x, r).override = x.override
         /\ Completed(x, r).retryCount = x.retryCount
         /\ Completed(x, r).result = r
         /\ Completed(x, r).error = x.error
         /\ Completed(x, r).resumed = x.resumed
BY DEF Completed, Execution, States

LEMMA ReportedFields ==
  ASSUME NEW x \in Execution, NEW r \in {"raw", "guarded"}
  PROVE  /\ Reported(x, r) \in Execution
         /\ Reported(x, r).state = x.state
         /\ Reported(x, r).flow = x.flow
         /\ Reported(x, r).key = x.key
         /\ Reported(x, r).override = x.override
         /\ Reported(x, r).retryCount = x.retryCount
         /\ Reported(x, r).result = r
         /\ Reported(x, r).error = x.error
         /\ Reported(x, r).resumed = x.resumed
BY DEF Reported, Execution, States

LEMMA RetriedFields ==
  ASSUME NEW x \in Execution
  PROVE  /\ Retried(x) \in Execution
         /\ Retried(x).state = "retrying"
         /\ Retried(x).flow = x.flow
         /\ Retried(x).key = x.key
         /\ Retried(x).override = x.override
         /\ Retried(x).retryCount = x.retryCount + 1
         /\ Retried(x).result = x.result
         /\ Retried(x).error = x.error
         /\ Retried(x).resumed = x.resumed
<1>1. x.retryCount \in Nat /\ x.retryCount + 1 \in Nat
  BY DEF Execution
<1>2. QED
  BY <1>1, Zenon DEF Retried, Execution, States

LEMMA ResumedFields ==
  ASSUME NEW x \in Execution
  PROVE  /\ Resumed(x) \in Execution
         /\ Resumed(x).state = "running"
         /\ Resumed(x).flow = x.flow
         /\ Resumed(x).key = x.key
         /\ Resumed(x).override = x.override
         /\ Resumed(x).retryCount = x.retryCount
         /\ Resumed(x).result = x.result
         /\ Resumed(x).error = x.error
         /\ Resumed(x).resumed = TRUE
BY DEF Resumed, Execution, States

LEMMA MoveType ==
  ASSUME TypeOK, NEW e \in Ids, NEW state \in States, Move(e, state)
  PROVE  StoreType' /\ announced' = announced
<1>1. exec[e] \in Execution
  BY DEF TypeOK
<1>2. QED
  BY <1>1, MovedFields, SaveType DEF Move, TypeOK

LEMMA FailType ==
  ASSUME TypeOK, NEW e \in Ids, NEW code \in Codes, Fail(e, code)
  PROVE  StoreType' /\ announced' \in [Ids -> Nat]
<1>1. exec[e] \in Execution
  BY DEF TypeOK
<1>2. StoreType'
  BY <1>1, FailedFields, SaveType DEF Fail, TypeOK
<1>3. QED
  BY <1>2 DEF Fail, TypeOK

MapsType ==
  /\ timers \in [TimerKinds -> SUBSET Ids]
  /\ remaining \in [Ids -> {"none", "left", "spent"}]
  /\ flowHandlerMap \subseteq Ids

LEMMA ClearTimersType ==
  ASSUME TypeOK, NEW e, ClearTimers(e)
  PROVE  MapsType'
BY DEF TypeOK, ClearTimers, MapsType

SlotsType == active \in Int /\ charged \subseteq Ids /\ wakes \subseteq Ids

LEMMA FreeSlotType ==
  ASSUME TypeOK, NEW e, FreeSlot(e)
  PROVE  SlotsType'
BY DEF TypeOK, FreeSlot, Woken, Queued, Oldest, SlotsType

ControlType ==
  /\ fiber \in [Ids -> Awaits]
  /\ calls \in [Callers -> Call]
  /\ status \in {"ready", "draining", "cleanup", "stopped"}
  /\ flowRegistry \subseteq Flows

(* The conjuncts of TypeOK by the part of the state they are about *)
LEMMA TypeParts ==
  TypeOK <=> /\ StoreType /\ announced \in [Ids -> Nat]
             /\ SlotsType /\ MapsType /\ ControlType
BY DEF TypeOK, StoreType, SlotsType, MapsType, ControlType

LEMMA TypePartsPrimed ==
  TypeOK' <=> /\ StoreType' /\ announced' \in [Ids -> Nat]
              /\ SlotsType' /\ MapsType' /\ ControlType'
BY DEF TypeOK, StoreType, SlotsType, MapsType, ControlType

(* Steps that change nothing but where a coroutine is suspended *)
LEMMA ContinueType ==
  ASSUME TypeOK, NEW e \in Ids, NEW await \in Awaits, ContinueAt(e, await)
  PROVE  TypeOK'
BY DEF TypeOK, ContinueAt, objects, slots, maps, engine

LEMMA ReturnType ==
  ASSUME TypeOK, NEW e \in Ids, Return(e) PROVE TypeOK'
BY ContinueType DEF Return, Awaits

LEMMA FailRunType ==
  ASSUME TypeOK, NEW e \in Ids, FailRun(e) PROVE TypeOK'
<1>1. StoreType' /\ announced' \in [Ids -> Nat]
  BY FailType DEF FailRun, Codes
<1>2. MapsType' /\ SlotsType'
  BY ClearTimersType, FreeSlotType DEF FailRun
<1>3. ControlType'
  BY DEF TypeOK, ControlType, FailRun, engine, Awaits
<1>4. QED
  BY <1>1, <1>2, <1>3, TypePartsPrimed

LEMMA CompleteType ==
  ASSUME TypeOK, NEW e \in Ids, NEW result \in {"raw", "guarded"},
         Complete(e, result)
  PROVE  TypeOK'
<1>1. exec[e] \in Execution
  BY DEF TypeOK
<1>2. StoreType'
  BY <1>1, CompletedFields, SaveType DEF Complete, TypeOK
<1>3. announced' \in [Ids -> Nat]
  BY DEF Complete, TypeOK
<1>4. MapsType' /\ SlotsType'
  BY ClearTimersType, FreeSlotType DEF Complete
<1>5. ControlType'
  BY DEF TypeOK, ControlType, Complete, engine, Awaits
<1>6. QED
  BY <1>2, <1>3, <1>4, <1>5, TypePartsPrimed

LEMMA StartType ==
  ASSUME TypeOK, NEW e \in Ids, NEW await \in Awaits, Start(e, await)
  PROVE  /\ StoreType' /\ announced' = announced
         /\ active' \in Int /\ charged' \subseteq Ids
         /\ fiber' \in [Ids -> Awaits]
<1>1. StoreType' /\ announced' = announced
  BY MoveType DEF Start, States
<1>2. QED
  BY <1>1 DEF Start, TypeOK

(* Every action keeps the variables well typed. *)

LEMMA CallersType ==
  ASSUME TypeOK, NEW c \in Callers, Request(c) \/ Continue(c)
  PROVE  TypeOK'
<1>1. ASSUME NEW f \in Flows, NEW k \in UsedKeys, NEW o \in Overrides,
             Trigger(c, f, k, o)
      PROVE  TypeOK'
  <2>1. [op |-> "trigger", flow |-> f, key |-> k, override |-> o] \in Call
    BY OverridesAssumption DEF Call, Keys
  <2>2. QED
    BY <1>1, <2>1 DEF TypeOK, Trigger, objects, slots, maps, engine
<1>2. ASSUME NEW e \in Ids, Resume(c, e) \/ Replay(c, e) PROVE TypeOK'
  <2>1. [op |-> "resume", id |-> e] \in Call /\ [op |-> "replay", id |-> e] \in Call
    BY DEF Call
  <2>2. QED
    BY <1>2, <2>1 DEF TypeOK, Resume, Replay, objects, slots, maps, engine
<1>3. Idle \in Call
  BY DEF Call
<1>4. CASE PolicyDenies(c)
  BY <1>3, <1>4 DEF TypeOK, PolicyDenies, objects, slots, maps, engine
<1>5. ASSUME NEW e \in Ids, Create(c, e) PROVE TypeOK'
  <2>1. /\ calls[c].flow \in Flows /\ calls[c].key \in Keys \cup {"fresh"}
        /\ calls[c].override \in AllOverrides
    BY <1>5 DEF TypeOK, Create, Call, Idle
  <2> DEFINE x == NewExecution(calls[c].flow, calls[c].key, calls[c].override)
  <2>2. x \in Execution /\ x.retryCount = 0 /\ x.flow = calls[c].flow
    BY <2>1 DEF NewExecution, Execution, InitialState, Codes, States
  <2>3. x.retryCount <= FlowConfig[x.flow].maxRetries
    BY <2>1, <2>2, FlowConfigAssumption
  <2>4. StoreType'
    BY <1>5, <2>2, <2>3 DEF TypeOK, Create, StoreType
  <2>5. [op |-> "dispatch", id |-> e] \in Call
    BY DEF Call
  <2>6. QED
    BY <1>5, <2>4, <2>5, TypePartsPrimed
    DEF TypeOK, Create, SlotsType, MapsType, ControlType, slots, maps, engine
<1>6. CASE DispatchNew(c)
  <2> DEFINE e == calls[c].id
  <2>1. e \in Ids
    BY <1>6 DEF TypeOK, DispatchNew, Call, Idle
  <2>2. CASE Start(e, "starting") /\ UNCHANGED wakes
    <3>1. /\ StoreType' /\ announced' = announced
          /\ active' \in Int /\ charged' \subseteq Ids /\ fiber' \in [Ids -> Awaits]
      BY <2>1, <2>2, StartType DEF Awaits
    <3>2. QED
      BY <1>3, <1>6, <2>2, <3>1, TypePartsPrimed
      DEF TypeOK, DispatchNew, SlotsType, MapsType, ControlType, maps, engine
  <2>3. CASE UNCHANGED <<objects, slots, fiber>>
    BY <1>3, <1>6, <2>3 DEF TypeOK, DispatchNew, objects, slots, maps, engine
  <2>4. QED
    BY <1>6, <2>2, <2>3 DEF DispatchNew
<1>7. CASE ResumeCommits(c)
  <2> DEFINE e == calls[c].id
  <2>1. e \in Ids
    BY <1>7 DEF TypeOK, ResumeCommits, Call, Idle
  <2>2. exec[e] \in Execution
    BY <2>1 DEF TypeOK
  <2>3. CASE exec[e].state = "waiting"
    <3>1. StoreType'
      BY <1>7, <2>1, <2>2, <2>3, ResumedFields, SaveType DEF ResumeCommits, TypeOK
    <3>2. QED
      BY <1>3, <1>7, <2>3, <3>1, TypePartsPrimed
      DEF TypeOK, ResumeCommits, SlotsType, MapsType, ControlType, slots, engine, Awaits
  <2>4. CASE exec[e].state # "waiting"
    BY <1>3, <1>7, <2>4 DEF TypeOK, ResumeCommits, objects, slots, maps, engine
  <2>5. QED
    BY <2>3, <2>4
<1>8. CASE ReplayTriggers(c)
  <2>1. calls[c].id \in Ids
    BY <1>8 DEF TypeOK, ReplayTriggers, Call, Idle
  <2>2. [op |-> "trigger", flow |-> exec[calls[c].id].flow, key |-> "fresh",
         override |-> "none"] \in Call
    BY <2>1 DEF Call, TypeOK, Execution, AllOverrides
  <2>3. QED
    BY <1>3, <1>8, <2>2 DEF TypeOK, ReplayTriggers, objects, slots, maps, engine
<1>9. QED
  BY <1>1, <1>2, <1>4, <1>5, <1>6, <1>7, <1>8 DEF Request, Continue

LEMMA DispatchQueuedType ==
  ASSUME TypeOK, NEW e \in Ids, DispatchQueued(e)
  PROVE  TypeOK'
<1>1. CASE Start(e, "startingQueued")
  <2>1. /\ StoreType' /\ announced' = announced
        /\ active' \in Int /\ charged' \subseteq Ids /\ fiber' \in [Ids -> Awaits]
    BY <1>1, StartType DEF Awaits
  <2>2. QED
    BY <2>1, TypePartsPrimed
    DEF TypeOK, DispatchQueued, SlotsType, MapsType, ControlType, maps, engine
<1>2. CASE UNCHANGED <<objects, active, charged, fiber>>
  BY <1>2 DEF TypeOK, DispatchQueued, objects, maps, engine
<1>3. QED
  BY <1>1, <1>2 DEF DispatchQueued

LEMMA StepType ==
  ASSUME TypeOK, NEW e \in Ids, Step(e)
  PROVE  TypeOK'
<1>1. CASE Started(e) \/ BackedOff(e)
  BY <1>1 DEF TypeOK, Started, BackedOff, objects, slots, engine, Awaits, TimerKinds
<1>2. CASE InputPasses(e)
  BY <1>2, ContinueType DEF InputPasses, Awaits
<1>3. CASE InputBlocked(e)
  BY <1>3, FailRunType, ReturnType DEF InputBlocked
<1>4. CASE HandlerReturns(e)
  BY <1>4, ReturnType, ContinueType, CompleteType DEF HandlerReturns, InHandler, Awaits
<1>5. CASE HandlerWaits(e)
  <2>1. CASE EnterWaiting(e)
    <3>1. StoreType' /\ announced' = announced
      BY <2>1, MoveType DEF EnterWaiting, States
    <3>2. MapsType'
      BY <2>1 DEF TypeOK, EnterWaiting, MapsType, TimerKinds
    <3>3. SlotsType' /\ ControlType'
      BY <2>1 DEF TypeOK, EnterWaiting, SlotsType, ControlType, slots, engine, Awaits
    <3>4. QED
      BY <3>1, <3>2, <3>3, TypePartsPrimed DEF TypeOK
  <2>2. QED
    BY <1>5, <2>1, ReturnType DEF HandlerWaits
<1>6. CASE HandlerThrows(e)
  BY <1>6, FailRunType, ReturnType DEF HandlerThrows
<1>7. CASE HandlerThrowsRetryable(e)
  <2>1. CASE MayRetry(e) /\ Retry(e)
    <3>1. exec[e] \in Execution /\ exec[e].flow \in Flows /\ exec[e].retryCount \in Nat
      BY DEF TypeOK, Execution
    <3>2. exec[e].retryCount + 1 <= FlowConfig[exec[e].flow].maxRetries
      BY <2>1, <3>1, FlowConfigAssumption DEF MayRetry
    <3>3. StoreType'
      BY <2>1, <3>1, <3>2, RetriedFields, SaveType DEF Retry
    <3>4. QED
      BY <2>1, <3>3, TypePartsPrimed
      DEF TypeOK, Retry, SlotsType, MapsType, ControlType, slots, maps, engine, Awaits
  <2>2. QED
    BY <1>7, <2>1, FailRunType, ReturnType DEF HandlerThrowsRetryable
<1>8. CASE Parked(e)
  <2>1. SlotsType'
    BY <1>8, FreeSlotType DEF Parked
  <2>2. QED
    BY <1>8, <2>1, TypePartsPrimed
    DEF TypeOK, Parked, StoreType, MapsType, ControlType, objects, engine, Awaits,
        TimerKinds
<1>9. CASE OutputPasses(e)
  <2>1. CASE ~Running(e)
    <3>1. MapsType'
      BY <1>9, <2>1, ClearTimersType DEF OutputPasses
    <3>2. StoreType'
      <4>1. exec[e] \in Execution
        BY DEF TypeOK
      <4>2. QED
        BY <1>9, <2>1, <4>1, ReportedFields DEF TypeOK, OutputPasses, StoreType
    <3>3. QED
      BY <1>9, <2>1, <3>1, <3>2, TypePartsPrimed
      DEF TypeOK, OutputPasses, SlotsType, ControlType, slots, engine, Awaits
  <2>2. QED
    BY <1>9, <2>1, CompleteType DEF OutputPasses
<1>10. CASE OutputBlocked(e)
  BY <1>10, FailRunType, ReturnType DEF OutputBlocked
<1>11. CASE ResumeFindsNoHandler(e) \/ ResumeOutOfTime(e)
  <2>1. StoreType' /\ announced' \in [Ids -> Nat]
    <3>1. CASE UNCHANGED objects
      BY <3>1 DEF TypeOK, StoreType, objects
    <3>2. CASE Fail(e, "FLOW_NOT_FOUND") \/ Fail(e, "TIMEOUT")
      BY <3>2, FailType DEF Codes
    <3>3. QED
      BY <1>11, <3>1, <3>2 DEF ResumeFindsNoHandler, ResumeOutOfTime, FailUnlessTerminal
  <2>2. MapsType' /\ ControlType'
    BY <1>11 DEF TypeOK, MapsType, ControlType, ResumeFindsNoHandler, ResumeOutOfTime,
                 maps, engine, Awaits
  <2>3. SlotsType'
    BY <1>11 DEF TypeOK, SlotsType, ResumeFindsNoHandler, ResumeOutOfTime, slots,
                 Woken, Queued, Oldest
  <2>4. QED
    BY <2>1, <2>2, <2>3, TypePartsPrimed
<1>12. CASE ResumeRuns(e)
  BY <1>12 DEF TypeOK, ResumeRuns, objects, engine, Awaits, TimerKinds
<1>13. QED
  BY <1>1, <1>2, <1>3, <1>4, <1>5, <1>6, <1>7, <1>8, <1>9, <1>10, <1>11, <1>12 DEF Step

LEMMA TimerFiresType ==
  ASSUME TypeOK, NEW e \in Ids, TimerFires(e)
  PROVE  TypeOK'
<1>1. /\ timers' \in [TimerKinds -> SUBSET Ids] /\ ControlType'
      /\ MapsType' /\ SlotsType'
  <2>1. ASSUME NEW kind, Expire(e, kind) PROVE MapsType'
    BY <2>1 DEF TypeOK, Expire, MapsType
  <2>2. MapsType'
    BY <2>1, ClearTimersType DEF TimerFires, TimeoutFires, RetryFires, WaitTimeoutFires
  <2>3. SlotsType'
    BY FreeSlotType
    DEF TypeOK, SlotsType, TimerFires, TimeoutFires, RetryFires, WaitTimeoutFires, slots
  <2>4. ControlType'
    BY DEF TypeOK, ControlType, TimerFires, TimeoutFires, RetryFires, WaitTimeoutFires,
           control, engine, Awaits
  <2>5. QED
    BY <2>2, <2>3, <2>4 DEF MapsType
<1>2. StoreType' /\ announced' \in [Ids -> Nat]
  <2>1. CASE UNCHANGED objects
    BY <2>1 DEF TypeOK, StoreType, objects
  <2>2. CASE Fail(e, "TIMEOUT") \/ Fail(e, "WAIT_TIMEOUT")
    BY <2>2, FailType DEF Codes
  <2>3. CASE Move(e, "running")
    BY <2>3, MoveType DEF States, TypeOK
  <2>4. QED
    BY <2>1, <2>2, <2>3 DEF TimerFires, TimeoutFires, RetryFires, WaitTimeoutFires
<1>3. QED
  BY <1>1, <1>2, TypePartsPrimed

LEMMA CancelDeleteType ==
  ASSUME TypeOK, NEW e \in Ids, Cancel(e) \/ Delete(e)
  PROVE  TypeOK'
<1>1. CASE Cancel(e)
  <2>1. StoreType' /\ announced' \in [Ids -> Nat]
    BY <1>1, FailType DEF Cancel, Codes
  <2>2. MapsType'
    BY <1>1, ClearTimersType DEF Cancel
  <2>3. QED
    BY <1>1, <2>1, <2>2, TypePartsPrimed
    DEF TypeOK, Cancel, SlotsType, ControlType, slots, control, engine
<1>2. CASE Delete(e)
  BY <1>2 DEF TypeOK, Delete, slots, maps, control, engine
<1>3. QED
  BY <1>1, <1>2

LEMMA DrainTimeoutType ==
  ASSUME TypeOK, DrainTimeout
  PROVE  TypeOK'
<1>1. StoreType'
  <2>1. \A e \in Ids : /\ exec'[e] \in Execution
                       /\ exec'[e].flow = exec[e].flow
                       /\ exec'[e].retryCount = exec[e].retryCount
    BY FailedFields DEF TypeOK, DrainTimeout, Codes
  <2>2. exec' \in [Ids -> Execution]
    BY <2>1 DEF DrainTimeout
  <2>3. ASSUME NEW k \in Keys PROVE index'[k] \in Ids \cup {0}
    <3> DEFINE S == {e \in Stragglers : exec[e].key = k}
    <3>1. S \in SUBSET Ids
      BY DEF TypeOK, Stragglers
    <3>2. CASE S = {}
      BY <3>2 DEF DrainTimeout, TypeOK
    <3>3. CASE S # {}
      <4>1. index'[k] = CHOOSE e \in S : \A d \in S : d <= e
        BY <3>3 DEF DrainTimeout
      <4>2. QED
        BY <3>1, <3>3, <4>1, LastExists
    <3>4. QED
      BY <3>2, <3>3
  <2>4. index' \in [Keys -> Ids \cup {0}]
    BY <2>3 DEF DrainTimeout
  <2>5. QED
    BY <2>1, <2>2, <2>4 DEF TypeOK, StoreType, DrainTimeout
<1>2. announced' \in [Ids -> Nat]
  BY DEF TypeOK, DrainTimeout
<1>3. SlotsType' /\ MapsType' /\ ControlType'
  BY DEF TypeOK, SlotsType, MapsType, ControlType, DrainTimeout, slots, control
<1>4. QED
  BY <1>1, <1>2, <1>3, TypePartsPrimed

LEMMA EngineType ==
  ASSUME TypeOK,
         \/ \E f \in Flows : Unregister(f) \/ Register(f)
         \/ Shutdown \/ Drained \/ Stop
  PROVE  TypeOK'
BY DEF TypeOK, Unregister, Register, Shutdown, Drained, Stop, objects, slots, maps, control

LEMMA NextType == TypeOK /\ [Next]_vars => TypeOK'
<1> SUFFICES ASSUME TypeOK, [Next]_vars PROVE TypeOK'
  OBVIOUS
<1>1. CASE UNCHANGED vars
  BY <1>1 DEF TypeOK, vars, objects, slots, maps, control, engine
<1>2. CASE Next
  BY <1>2, CallersType, DispatchQueuedType, StepType, TimerFiresType, CancelDeleteType,
     DrainTimeoutType, EngineType DEF Next
<1>3. QED
  BY <1>1, <1>2

(* Every variable of the engine keeps its type, whatever callers, handlers  *)
(* and timers do; no execution is retried more often than its flow allows.  *)
THEOREM TypeCorrect == Spec => []TypeOK
<1>1. Init => TypeOK
  BY InitType
<1>2. TypeOK /\ [Next]_vars => TypeOK'
  BY NextType
<1>3. QED
  BY <1>1, <1>2, PTL DEF Spec

-------------------------------------------------------------------------------
(***************************************************************************)
(* The inductive invariant of the engine: slots are counted exactly, and   *)
(* the coroutine, the timers and the slot of every execution go with its   *)
(* state.  From it follow the limit on new executions, the life of every   *)
(* coroutine and the time-outs that stay armed.                            *)
(***************************************************************************)

SlotSound(e) ==
  /\ Busy(e) => e \in charged
  /\ e \in charged => Busy(e) \/ Leaked(e)

Sound(e) ==
  CoroutineMatchesState(e) /\ TimersMatchState(e) /\ TimeKept(e) /\ SlotSound(e)

Counted == active = Cardinality(charged)

IInv == TypeOK /\ Counted /\ \A e \in Ids : Sound(e)

(* A step leaves everything about d alone. *)
Same(d) ==
  /\ exec'[d] = exec[d]
  /\ fiber'[d] = fiber[d]
  /\ d \in charged' <=> d \in charged
  /\ \A t \in TimerKinds : d \in timers'[t] <=> d \in timers[t]
  /\ remaining'[d] = remaining[d]
  /\ d \in flowHandlerMap' <=> d \in flowHandlerMap

LEMMA SameSound ==
  ASSUME NEW d \in Ids, Sound(d), Same(d) PROVE Sound(d)'
BY DEF Sound, Same, CoroutineMatchesState, TimersMatchState, TimeKept, SlotSound, Busy,
       Leaked, Ended, TimerKinds

(* The steps of one execution, all others left alone *)
LEMMA OneStep ==
  ASSUME IInv, TypeOK', Counted', NEW e \in Ids, Sound(e)',
         \A d \in Ids \ {e} : Same(d)
  PROVE  IInv'
BY SameSound DEF IInv

LEMMA Charge ==
  ASSUME TypeOK, Counted, NEW e \in Ids, e \notin charged,
         active' = active + 1, charged' = charged \cup {e}
  PROVE  Counted'
BY IdsFinite, FS_AddElement DEF TypeOK, Counted

LEMMA Credit ==
  ASSUME TypeOK, Counted, NEW e \in Ids, e \in charged, FreeSlot(e)
  PROVE  Counted'
BY IdsFinite, FS_RemoveElement DEF TypeOK, Counted, FreeSlot

(* What the common parts of actions do to the execution they are about and  *)
(* to the others                                                           *)
LEMMA SaveSame ==
  ASSUME TypeOK, NEW e \in Ids, NEW object, Save(e, object)
  PROVE  exec'[e] = object /\ \A d \in Ids \ {e} : exec'[d] = exec[d]
BY DEF TypeOK, Save

ClearedTimers(e) ==
  /\ \A t \in TimerKinds : e \notin timers'[t]
  /\ e \notin flowHandlerMap'
  /\ remaining'[e] = "none"

SameMaps(d) ==
  /\ \A t \in TimerKinds : d \in timers'[t] <=> d \in timers[t]
  /\ remaining'[d] = remaining[d]
  /\ d \in flowHandlerMap' <=> d \in flowHandlerMap

LEMMA ClearTimersSame ==
  ASSUME TypeOK, NEW e \in Ids, ClearTimers(e)
  PROVE  ClearedTimers(e) /\ \A d \in Ids \ {e} : SameMaps(d)
BY DEF TypeOK, ClearTimers, ClearedTimers, SameMaps

(* The execution of e ends and gives its slot back. *)
LEMMA FailRunSound ==
  ASSUME IInv, NEW e \in Ids, Running(e), fiber[e] # "resuming", FailRun(e)
  PROVE  IInv'
<1>1. TypeOK /\ TypeOK' /\ Counted /\ Sound(e)
  BY FailRunType DEF IInv
<1>2. e \in charged
  BY <1>1 DEF Sound, SlotSound, Busy, Running
<1>3. Counted'
  BY <1>1, <1>2, Credit DEF FailRun
<1>4. exec'[e] = Failed(exec[e], "ERROR") /\ \A d \in Ids \ {e} : exec'[d] = exec[d]
  BY <1>1, SaveSame DEF FailRun, Fail
<1>5. exec'[e].state = "failed" /\ exec'[e].error = "ERROR"
  BY <1>1, <1>4, FailedFields DEF TypeOK, Codes
<1>6. ClearedTimers(e) /\ \A d \in Ids \ {e} : SameMaps(d)
  BY <1>1, ClearTimersSame DEF FailRun
<1>7. \A d \in Ids \ {e} : Same(d)
  BY <1>1, <1>4, <1>6 DEF Same, SameMaps, FailRun, FreeSlot, TypeOK
<1>8. fiber'[e] = "none" /\ e \notin charged'
  BY <1>1 DEF FailRun, FreeSlot, TypeOK
<1>9. Sound(e)'
  BY <1>5, <1>6, <1>8
  DEF Sound, CoroutineMatchesState, TimersMatchState, TimeKept, SlotSound, Busy, Leaked,
      Ended, ClearedTimers, TimerKinds, InRun
<1>10. QED
  BY <1>1, <1>3, <1>7, <1>9, OneStep

LEMMA CompleteSound ==
  ASSUME IInv, NEW e \in Ids, NEW result \in {"raw", "guarded"}, Running(e),
         fiber[e] # "resuming", Complete(e, result)
  PROVE  IInv'
<1>1. TypeOK /\ TypeOK' /\ Counted /\ Sound(e)
  BY CompleteType DEF IInv
<1>2. e \in charged
  BY <1>1 DEF Sound, SlotSound, Busy, Running
<1>3. Counted'
  BY <1>1, <1>2, Credit DEF Complete
<1>4. exec'[e] = Completed(exec[e], result) /\ \A d \in Ids \ {e} : exec'[d] = exec[d]
  BY <1>1, SaveSame DEF Complete
<1>5. exec'[e].state = "complete" /\ exec'[e].error = "null"
  BY <1>1, <1>4, CompletedFields DEF TypeOK, Sound, CoroutineMatchesState, Running
<1>6. ClearedTimers(e) /\ \A d \in Ids \ {e} : SameMaps(d)
  BY <1>1, ClearTimersSame DEF Complete
<1>7. \A d \in Ids \ {e} : Same(d)
  BY <1>1, <1>4, <1>6 DEF Same, SameMaps, Complete, FreeSlot, TypeOK
<1>8. fiber'[e] = "none" /\ e \notin charged'
  BY <1>1 DEF Complete, FreeSlot, TypeOK
<1>9. Sound(e)'
  BY <1>5, <1>6, <1>8
  DEF Sound, CoroutineMatchesState, TimersMatchState, TimeKept, SlotSound, Busy, Leaked,
      Ended, ClearedTimers, TimerKinds, InRun
<1>10. QED
  BY <1>1, <1>3, <1>7, <1>9, OneStep

(* A coroutine that finds its execution ended goes away. *)
LEMMA ReturnSound ==
  ASSUME IInv, NEW e \in Ids, ~Running(e), fiber[e] \in InRun, Return(e)
  PROVE  IInv'
<1>1. TypeOK /\ TypeOK' /\ Counted /\ Sound(e)
  BY ReturnType DEF IInv
<1>2. Counted' /\ \A d \in Ids \ {e} : Same(d)
  BY <1>1 DEF Return, ContinueAt, objects, slots, maps, Same, TypeOK, Counted
<1>3. fiber'[e] = "none" /\ exec[e].state = "failed"
  BY <1>1 DEF Return, ContinueAt, TypeOK, Sound, CoroutineMatchesState, Ended, Running
<1>4. UNCHANGED <<exec, charged, timers, remaining, flowHandlerMap>>
  BY DEF Return, ContinueAt, objects, slots, maps
<1>5. Sound(e)'
  BY <1>1, <1>3, <1>4
  DEF Sound, CoroutineMatchesState, TimersMatchState, TimeKept, SlotSound, Busy, Leaked,
      Ended, InRun, Terminal
<1>6. QED
  BY <1>1, <1>2, <1>5, OneStep

(* A run goes on to its handler or its output guardrails. *)
LEMMA ContinueSound ==
  ASSUME IInv, NEW e \in Ids, fiber[e] \in {"input", "handler", "resumed"},
         NEW await \in {"handler", "output", "resumedOutput"}, ContinueAt(e, await)
  PROVE  IInv'
<1>1. TypeOK /\ TypeOK' /\ Counted /\ Sound(e)
  BY ContinueType DEF IInv, Awaits
<1>2. Counted' /\ \A d \in Ids \ {e} : Same(d)
  BY <1>1 DEF ContinueAt, objects, slots, maps, Same, TypeOK, Counted
<1>3. fiber'[e] = await
  BY <1>1 DEF ContinueAt, TypeOK
<1>4. UNCHANGED <<exec, charged, timers, remaining, flowHandlerMap>>
  BY DEF ContinueAt, objects, slots, maps
<1>5. Sound(e)'
  BY <1>1, <1>3, <1>4
  DEF Sound, CoroutineMatchesState, TimersMatchState, TimeKept, SlotSound, Busy, Leaked,
      Ended, InRun, Awaits
<1>6. QED
  BY <1>1, <1>2, <1>5, OneStep

LEMMA StartSound ==
  ASSUME IInv, TypeOK', NEW e \in Ids, NEW await \in {"starting", "startingQueued"},
         exec[e].state = "queued", Start(e, await),
         UNCHANGED <<timers, remaining, flowHandlerMap>>
  PROVE  IInv'
<1>1. TypeOK /\ Counted /\ Sound(e)
  BY DEF IInv
<1>2. e \notin charged /\ exec[e].error = "null" /\ fiber[e] = "none"
  BY <1>1 DEF Sound, SlotSound, CoroutineMatchesState, Busy, Leaked
<1>3. Counted'
  BY <1>1, <1>2, Charge DEF Start
<1>4. exec'[e] = Moved(exec[e], "running") /\ \A d \in Ids \ {e} : exec'[d] = exec[d]
  BY <1>1, SaveSame DEF Start, Move
<1>5. exec'[e].state = "running" /\ exec'[e].error = "null"
  BY <1>1, <1>2, <1>4, MovedFields DEF TypeOK, States
<1>6. \A d \in Ids \ {e} : Same(d)
  BY <1>1, <1>4 DEF Same, Start, TypeOK
<1>7. fiber'[e] = await /\ e \in charged'
  BY <1>1 DEF Start, TypeOK
<1>8. e \notin timers'["timeout"] /\ e \notin timers'["retry"]
  BY <1>1 DEF Sound, TimersMatchState, Terminal
<1>9. Sound(e)'
  BY <1>5, <1>7, <1>8
  DEF Sound, CoroutineMatchesState, TimersMatchState, TimeKept, SlotSound, Busy, Leaked,
      Ended, InRun, Awaits
<1>10. QED
  BY <1>1, <1>3, <1>6, <1>9, OneStep

-------------------------------------------------------------------------------
(* The actions *)

(* What callers do leaves every execution alone but for the one that is      *)
(* created, started or resumed.                                            *)
LEMMA CallersSound ==
  ASSUME IInv, NEW c \in Callers, Request(c) \/ Continue(c)
  PROVE  IInv'
<1>1. TypeOK /\ TypeOK' /\ Counted
  BY CallersType DEF IInv
<1>2. CASE UNCHANGED <<objects, slots, maps, fiber>>
  <2>1. Counted' /\ \A d \in Ids : Same(d)
    BY <1>1, <1>2 DEF Counted, Same, objects, slots, maps
  <2>2. QED
    BY <1>1, <2>1, SameSound DEF IInv
<1>3. CASE Request(c) \/ PolicyDenies(c) \/ ReplayTriggers(c)
  BY <1>2, <1>3 DEF Request, Trigger, Resume, Replay, PolicyDenies, ReplayTriggers
<1>4. ASSUME NEW e \in Ids, Create(c, e) PROVE IInv'
  <2>1. Sound(e) /\ exec[e].state = "absent"
    BY <1>4 DEF IInv, Create
  <2>2. exec'[e] = NewExecution(calls[c].flow, calls[c].key, calls[c].override)
    BY <1>1, <1>4 DEF Create, TypeOK
  <2>3. exec'[e].state = "queued" /\ exec'[e].error = "null"
    BY <2>2 DEF NewExecution, InitialState
  <2>4. UNCHANGED <<active, charged, timers, remaining, flowHandlerMap, fiber>>
    BY <1>4 DEF Create, slots, maps
  <2>5. Counted' /\ \A d \in Ids \ {e} : Same(d)
    BY <1>1, <1>4, <2>4 DEF Counted, Same, Create, TypeOK
  <2>6. fiber[e] = "none" /\ e \notin charged
        /\ e \notin timers["timeout"] /\ e \notin timers["retry"]
    BY <2>1 DEF Sound, CoroutineMatchesState, TimersMatchState, SlotSound, Busy, Leaked,
                Terminal
  <2>7. Sound(e)'
    BY <2>3, <2>4, <2>6
    DEF Sound, CoroutineMatchesState, TimersMatchState, TimeKept, SlotSound, Busy, Leaked,
        Ended, InRun, Awaits
  <2>8. QED
    BY <1>1, <2>5, <2>7, OneStep
<1>5. CASE DispatchNew(c)
  <2>1. PICK e \in Ids : e = calls[c].id
    BY <1>1, <1>5 DEF TypeOK, DispatchNew, Call, Idle
  <2>2. CASE MayStart(e) /\ Start(e, "starting") /\ UNCHANGED wakes
    BY <1>1, <1>5, <2>1, <2>2, StartSound DEF DispatchNew, maps, MayStart
  <2>3. CASE UNCHANGED <<objects, slots, fiber>>
    BY <1>2, <1>5, <2>3 DEF DispatchNew, maps
  <2>4. QED
    BY <1>5, <2>1, <2>2, <2>3 DEF DispatchNew
<1>6. CASE ResumeCommits(c)
  <2>1. PICK e \in Ids : e = calls[c].id
    BY <1>1, <1>6 DEF TypeOK, ResumeCommits, Call, Idle
  <2>2. CASE exec[e].state # "waiting"
    BY <1>2, <1>6, <2>1, <2>2 DEF ResumeCommits, objects, maps
  <2>3. CASE exec[e].state = "waiting"
    <3>1. Sound(e)
      BY <2>1 DEF IInv
    <3>2. Save(e, Resumed(exec[e])) /\ fiber[e] = "none"
      BY <1>6, <2>1, <2>3 DEF ResumeCommits
    <3>3. exec'[e] = Resumed(exec[e]) /\ \A d \in Ids \ {e} : exec'[d] = exec[d]
      BY <1>1, <2>1, <3>2, SaveSame
    <3>4. exec[e].error = "null" /\ e \notin charged
      BY <2>3, <3>1, <3>2
      DEF Sound, SlotSound, CoroutineMatchesState, Busy, Leaked
    <3>5. /\ exec'[e].state = "running" /\ exec'[e].error = "null" /\ exec'[e].resumed = TRUE
          /\ exec'[e].flow = exec[e].flow /\ exec'[e].override = exec[e].override
      <4>1. exec[e] \in Execution
        BY <1>1 DEF TypeOK
      <4>2. QED
        BY <3>3, <3>4, <4>1, ResumedFields
    <3>6. /\ UNCHANGED <<active, charged, remaining, flowHandlerMap>>
          /\ fiber' = [fiber EXCEPT ![e] = "resuming"]
          /\ timers' = [timers EXCEPT !["wait"] = @ \ {e}]
      BY <1>6, <2>1, <2>3 DEF ResumeCommits, slots
    <3>7. Counted' /\ \A d \in Ids \ {e} : Same(d)
      BY <1>1, <3>3, <3>6 DEF Counted, Same, TypeOK, TimerKinds
    <3>8. fiber'[e] = "resuming" /\ e \in flowHandlerMap
      BY <1>1, <2>1, <2>3, <3>1, <3>6 DEF TypeOK, Sound, TimersMatchState
    <3>9. e \notin timers'["timeout"] /\ e \notin timers'["retry"]
      BY <1>1, <2>3, <3>1, <3>6 DEF TypeOK, TimerKinds, Sound, TimersMatchState, Terminal
    <3>10. Sound(e)'
      BY <2>3, <3>1, <3>4, <3>5, <3>6, <3>8, <3>9
      DEF Sound, CoroutineMatchesState, TimersMatchState, TimeKept, SlotSound, Busy,
          Leaked, Ended, InRun, Awaits
    <3>11. QED
      BY <1>1, <2>1, <3>7, <3>10, OneStep
  <2>4. QED
    BY <2>2, <2>3
<1>7. QED
  BY <1>3, <1>4, <1>5, <1>6 DEF Continue

LEMMA DispatchQueuedSound ==
  ASSUME IInv, NEW e \in Ids, DispatchQueued(e)
  PROVE  IInv'
<1>1. TypeOK /\ TypeOK' /\ Counted
  BY DispatchQueuedType DEF IInv
<1>2. CASE MayStart(e) /\ Start(e, "startingQueued")
  BY <1>1, <1>2, StartSound DEF DispatchQueued, maps, MayStart
<1>3. CASE UNCHANGED <<objects, active, charged, fiber>>
  <2>1. Counted' /\ \A d \in Ids : Same(d)
    BY <1>1, <1>3 DEF DispatchQueued, Counted, Same, objects, maps
  <2>2. QED
    BY <1>1, <2>1, SameSound DEF IInv
<1>4. QED
  BY <1>2, <1>3 DEF DispatchQueued

LEMMA EnterWaitingSound ==
  ASSUME IInv, TypeOK', NEW e \in Ids, Running(e),
         fiber[e] \in {"handler", "retry", "resumed"}, EnterWaiting(e)
  PROVE  IInv'
<1>1. TypeOK /\ Counted /\ Sound(e)
  BY DEF IInv
<1>2. exec'[e] = Moved(exec[e], "waiting") /\ \A d \in Ids \ {e} : exec'[d] = exec[d]
  BY <1>1, SaveSame DEF EnterWaiting, Move
<1>3. /\ exec'[e].state = "waiting" /\ exec'[e].error = exec[e].error
      /\ exec'[e].flow = exec[e].flow /\ exec'[e].override = exec[e].override
  <2>1. exec[e] \in Execution
    BY <1>1 DEF TypeOK
  <2>2. QED
    BY <1>2, <2>1, MovedFields DEF States
<1>4. UNCHANGED <<active, charged>>
  BY DEF EnterWaiting, slots
<1>5. Counted' /\ \A d \in Ids \ {e} : Same(d)
  BY <1>1, <1>2, <1>4 DEF Counted, Same, EnterWaiting, TypeOK, TimerKinds
<1>6. /\ fiber'[e] = "parking" /\ e \in flowHandlerMap'
      /\ e \notin timers'["timeout"] /\ (e \in timers'["retry"] <=> e \in timers["retry"])
  BY <1>1 DEF EnterWaiting, TypeOK, TimerKinds
<1>7. exec[e].override = "none" /\ FlowConfig[exec[e].flow].timeout
        => remaining'[e] # "none"
  BY <1>1 DEF EnterWaiting, TypeOK, Sound, TimeKept, Running, Timed
<1>8. exec[e].error = "null" /\ e \in charged /\ e \notin timers["retry"]
  BY <1>1 DEF Sound, CoroutineMatchesState, TimersMatchState, SlotSound, Busy, Running,
              Terminal
<1>9. Sound(e)'
  BY <1>3, <1>4, <1>6, <1>7, <1>8
  DEF Sound, CoroutineMatchesState, TimersMatchState, TimeKept, SlotSound, Busy, Leaked,
      Ended, InRun, Awaits
<1>10. QED
  BY <1>1, <1>5, <1>9, OneStep

LEMMA RetrySound ==
  ASSUME IInv, TypeOK', NEW e \in Ids, Running(e), fiber[e] \in {"handler", "retry"},
         Retry(e)
  PROVE  IInv'
<1>1. TypeOK /\ Counted /\ Sound(e)
  BY DEF IInv
<1>2. exec'[e] = Retried(exec[e]) /\ \A d \in Ids \ {e} : exec'[d] = exec[d]
  BY <1>1, SaveSame DEF Retry
<1>3. /\ exec'[e].state = "retrying" /\ exec'[e].error = exec[e].error
      /\ exec'[e].flow = exec[e].flow /\ exec'[e].override = exec[e].override
      /\ exec'[e].retryCount > 0
  <2>1. exec[e] \in Execution /\ exec[e].retryCount \in Nat
    BY <1>1 DEF TypeOK, Execution
  <2>2. exec'[e].retryCount = exec[e].retryCount + 1
    BY <1>2, <2>1, RetriedFields
  <2>3. QED
    BY <1>2, <2>1, <2>2, RetriedFields
<1>4. UNCHANGED <<active, charged, timers, remaining, flowHandlerMap>>
  BY DEF Retry, slots, maps
<1>5. Counted' /\ \A d \in Ids \ {e} : Same(d)
  BY <1>1, <1>2, <1>4 DEF Counted, Same, Retry, TypeOK
<1>6. fiber'[e] = "backingOff"
  BY <1>1 DEF Retry, TypeOK
<1>7. exec[e].error = "null" /\ e \in charged /\ e \notin timers["retry"]
  BY <1>1 DEF Sound, CoroutineMatchesState, TimersMatchState, SlotSound, Busy, Running,
              Terminal
<1>8. Sound(e)'
  BY <1>1, <1>3, <1>4, <1>6, <1>7
  DEF Sound, CoroutineMatchesState, TimersMatchState, TimeKept, SlotSound, Busy, Leaked,
      Ended, InRun, Awaits, Running
<1>9. QED
  BY <1>1, <1>5, <1>8, OneStep

(* Arming the timeout and arming the retry timer *)
LEMMA ArmingSound ==
  ASSUME IInv, NEW e \in Ids, Started(e) \/ BackedOff(e)
  PROVE  IInv'
<1>1. TypeOK /\ TypeOK' /\ Counted /\ Sound(e)
  BY StepType DEF IInv, Step
<1>2. UNCHANGED <<exec, active, charged, remaining, flowHandlerMap>>
  BY DEF Started, BackedOff, objects, slots
<1>3. Counted' /\ \A d \in Ids \ {e} : Same(d)
  BY <1>1, <1>2 DEF Counted, Same, Started, BackedOff, TypeOK, TimerKinds
<1>4. CASE Started(e)
  <2>1. /\ fiber'[e] = "input" /\ (e \in timers'["retry"] <=> e \in timers["retry"])
        /\ fiber[e] \in {"starting", "startingQueued"}
    BY <1>1, <1>4 DEF Started, TypeOK, TimerKinds
  <2>2. exec[e].override = "none" /\ FlowConfig[exec[e].flow].timeout
          => e \in timers'["timeout"]
    BY <1>1, <1>4 DEF Started, TypeOK, TimerKinds, Timed
  <2>3. Sound(e)'
    BY <1>1, <1>2, <2>1, <2>2
    DEF Sound, CoroutineMatchesState, TimersMatchState, TimeKept, SlotSound, Busy, Leaked,
        Ended, InRun, Awaits, Terminal
  <2>4. QED
    BY <1>1, <1>3, <2>3, OneStep
<1>5. CASE BackedOff(e)
  <2>1. /\ fiber'[e] = "none" /\ e \in timers'["retry"] /\ fiber[e] = "backingOff"
        /\ (e \in timers'["timeout"] <=> e \in timers["timeout"])
    BY <1>1, <1>5 DEF BackedOff, TypeOK, TimerKinds
  <2>2. exec[e].state \in {"retrying", "failed"}
    BY <1>1, <2>1 DEF Sound, CoroutineMatchesState, TypeOK, Execution, States, InRun
  <2>3. Sound(e)'
    BY <1>1, <1>2, <2>1, <2>2
    DEF Sound, CoroutineMatchesState, TimersMatchState, TimeKept, SlotSound, Busy, Leaked,
        Ended, InRun, Awaits, Terminal
  <2>4. QED
    BY <1>1, <1>3, <2>3, OneStep
<1>6. QED
  BY <1>4, <1>5

(* A waiting execution gives its slot back. *)
LEMMA ParkedSound ==
  ASSUME IInv, NEW e \in Ids, Parked(e)
  PROVE  IInv'
<1>1. TypeOK /\ TypeOK' /\ Counted /\ Sound(e)
  BY StepType DEF IInv, Step
<1>2. e \in charged /\ exec[e].state \in {"waiting", "failed"}
  BY <1>1 DEF Parked, Sound, SlotSound, Busy, CoroutineMatchesState, TypeOK, Execution,
              States, InRun
<1>3. Counted'
  BY <1>1, <1>2, Credit DEF Parked
<1>4. UNCHANGED <<exec, remaining, flowHandlerMap>>
  BY DEF Parked, objects
<1>5. /\ fiber'[e] = "none" /\ e \notin charged'
      /\ (e \in timers'["timeout"] <=> e \in timers["timeout"])
      /\ (e \in timers'["retry"] <=> e \in timers["retry"])
  BY <1>1 DEF Parked, FreeSlot, TypeOK, TimerKinds
<1>6. \A d \in Ids \ {e} : Same(d)
  BY <1>1, <1>4 DEF Same, Parked, FreeSlot, TypeOK, TimerKinds
<1>7. Sound(e)'
  BY <1>1, <1>2, <1>4, <1>5
  DEF Sound, CoroutineMatchesState, TimersMatchState, TimeKept, SlotSound, Busy, Leaked,
      Ended, InRun, Awaits
<1>8. QED
  BY <1>1, <1>3, <1>6, <1>7, OneStep

(* The guardrails of a run that has ended come back with a result. *)
LEMMA LateResultSound ==
  ASSUME IInv, NEW e \in Ids, ~Running(e), OutputPasses(e)
  PROVE  IInv'
<1>1. TypeOK /\ TypeOK' /\ Counted /\ Sound(e)
  BY StepType DEF IInv, Step
<1>2. exec' = [exec EXCEPT ![e] = Reported(exec[e], "guarded")] /\ ClearTimers(e)
      /\ fiber' = [fiber EXCEPT ![e] = "none"] /\ UNCHANGED <<active, charged>>
      /\ fiber[e] \in InRun
  BY DEF OutputPasses, slots, InRun, Awaits
<1>3. exec'[e].state = exec[e].state /\ exec'[e].error = exec[e].error
  <2>1. exec[e] \in Execution
    BY <1>1 DEF TypeOK
  <2>2. QED
    BY <1>1, <1>2, <2>1, ReportedFields DEF TypeOK
<1>4. ClearedTimers(e) /\ \A d \in Ids \ {e} : SameMaps(d)
  BY <1>1, <1>2, ClearTimersSame
<1>5. Counted' /\ \A d \in Ids \ {e} : Same(d)
  BY <1>1, <1>2, <1>4 DEF Counted, Same, SameMaps, TypeOK
<1>6. exec[e].state = "failed" /\ fiber'[e] = "none"
  BY <1>1, <1>2 DEF Sound, CoroutineMatchesState, Ended, Running, TypeOK
<1>7. Sound(e)'
  BY <1>1, <1>2, <1>3, <1>4, <1>6
  DEF Sound, CoroutineMatchesState, TimersMatchState, TimeKept, SlotSound, Busy, Leaked,
      Ended, InRun, ClearedTimers, TimerKinds, Terminal
<1>8. QED
  BY <1>1, <1>5, <1>7, OneStep

(* A timer or a caller fails an execution that has not ended.  It gives its  *)
(* slot back, or is one of those whose slot leaks.                         *)
LEMMA FailSound ==
  ASSUME IInv, TypeOK', NEW e \in Ids, NEW code \in {"TIMEOUT", "WAIT_TIMEOUT", "CANCELLED"},
         Fail(e, code), ClearTimers(e), UNCHANGED fiber,
         exec[e].state \notin Terminal,
         code = "TIMEOUT" => exec[e].state \in {"running", "retrying"}
                             /\ fiber[e] # "resuming" /\ FreeSlot(e),
         code # "TIMEOUT" => UNCHANGED slots,
         code = "WAIT_TIMEOUT" => exec[e].state = "waiting"
  PROVE  IInv'
<1>1. TypeOK /\ Counted /\ Sound(e)
  BY DEF IInv
<1>2. exec'[e] = Failed(exec[e], code) /\ \A d \in Ids \ {e} : exec'[d] = exec[d]
  BY <1>1, SaveSame DEF Fail
<1>3. /\ exec'[e].state = "failed" /\ exec'[e].error = code
      /\ exec'[e].resumed = exec[e].resumed /\ exec'[e].retryCount = exec[e].retryCount
  <2>1. exec[e] \in Execution
    BY <1>1 DEF TypeOK
  <2>2. QED
    BY <1>2, <2>1, FailedFields DEF Codes
<1>4. ClearedTimers(e) /\ \A d \in Ids \ {e} : SameMaps(d)
  BY <1>1, ClearTimersSame
<1>5. /\ Counted'
      /\ code = "TIMEOUT" => e \notin charged'
      /\ code # "TIMEOUT" => charged' = charged
      /\ \A d \in Ids \ {e} : d \in charged' <=> d \in charged
  <2>1. CASE code = "TIMEOUT"
    <3>1. e \in charged /\ FreeSlot(e)
      BY <1>1, <2>1 DEF Sound, SlotSound, Busy
    <3>2. QED
      BY <1>1, <2>1, <3>1, Credit DEF FreeSlot
  <2>2. CASE code # "TIMEOUT"
    BY <1>1, <2>2 DEF slots, Counted
  <2>3. QED
    BY <2>1, <2>2
<1>6. \A d \in Ids \ {e} : Same(d)
  BY <1>2, <1>4, <1>5 DEF Same, SameMaps
<1>7. CASE code = "TIMEOUT"
  <2>1. fiber'[e] # "parking" /\ fiber'[e] # "resuming" /\ fiber'[e] = fiber[e]
    BY <1>1, <1>7 DEF Sound, CoroutineMatchesState, InRun
  <2>2. Sound(e)'
    BY <1>1, <1>3, <1>4, <1>5, <1>7, <2>1
    DEF Sound, CoroutineMatchesState, TimersMatchState, TimeKept, SlotSound, Busy, Leaked,
        Ended, InRun, ClearedTimers, TimerKinds, Terminal
  <2>3. QED
    BY <1>1, <1>5, <1>6, <2>2, OneStep
<1>8. CASE code = "CANCELLED"
  <2>1. Sound(e)'
    BY <1>1, <1>3, <1>4, <1>5, <1>8
    DEF Sound, CoroutineMatchesState, TimersMatchState, TimeKept, SlotSound, Busy, Leaked,
        Ended, InRun, ClearedTimers, TimerKinds, Terminal
  <2>2. QED
    BY <1>1, <1>5, <1>6, <2>1, OneStep
<1>9. CASE code = "WAIT_TIMEOUT"
  <2>1. exec[e].error = "null" /\ fiber[e] \in {"none", "parking"}
    BY <1>1, <1>9 DEF Sound, CoroutineMatchesState
  <2>2. Sound(e)'
    BY <1>1, <1>3, <1>4, <1>5, <1>9, <2>1
    DEF Sound, CoroutineMatchesState, TimersMatchState, TimeKept, SlotSound, Busy, Leaked,
        Ended, InRun, ClearedTimers, TimerKinds, Terminal
  <2>3. QED
    BY <1>1, <1>5, <1>6, <2>2, OneStep
<1>10. QED
  BY <1>7, <1>8, <1>9

(* A resumed execution takes its slot and runs. *)
LEMMA ResumeRunsSound ==
  ASSUME IInv, NEW e \in Ids, ResumeRuns(e)
  PROVE  IInv'
<1>1. TypeOK /\ TypeOK' /\ Counted /\ Sound(e)
  BY StepType DEF IInv, Step
<1>2. fiber[e] = "resuming" /\ e \notin charged
  BY <1>1 DEF ResumeRuns, HandlerFound, Sound, CoroutineMatchesState
<1>3. Counted'
  BY <1>1, <1>2, Charge DEF ResumeRuns
<1>4. exec' = exec
  BY DEF ResumeRuns, objects
<1>5. \A d \in Ids \ {e} : Same(d)
  BY <1>1, <1>4 DEF Same, ResumeRuns, TypeOK, TimerKinds
<1>6. /\ fiber'[e] = "resumed" /\ e \in charged'
      /\ e \in timers'["retry"] <=> e \in timers["retry"]
  BY <1>1 DEF ResumeRuns, TypeOK, TimerKinds
<1>7. remaining[e] # "none" => e \in timers'["timeout"]
  BY <1>1 DEF ResumeRuns, TypeOK, TimerKinds
<1>8. Sound(e)'
  BY <1>1, <1>2, <1>4, <1>6, <1>7
  DEF Sound, CoroutineMatchesState, TimersMatchState, TimeKept, SlotSound, Busy, Leaked,
      Ended, InRun, Awaits, Terminal
<1>9. QED
  BY <1>1, <1>3, <1>5, <1>8, OneStep

(* A resume that finds no time, or no handler, goes away without its slot. *)
LEMMA ResumeFailsSound ==
  ASSUME IInv, NEW e \in Ids, ResumeFindsNoHandler(e) \/ ResumeOutOfTime(e)
  PROVE  IInv'
<1>1. TypeOK /\ TypeOK' /\ Counted /\ Sound(e)
  BY StepType DEF IInv, Step
<1>2. fiber[e] = "resuming" /\ e \notin charged
  BY <1>1 DEF ResumeFindsNoHandler, ResumeOutOfTime, HandlerFound, Sound,
              CoroutineMatchesState
<1>3. Counted' /\ charged' = charged
  BY <1>1 DEF Counted, ResumeFindsNoHandler, ResumeOutOfTime, slots
<1>4. PICK code \in {"FLOW_NOT_FOUND", "TIMEOUT"} : FailUnlessTerminal(e, code)
  BY DEF ResumeFindsNoHandler, ResumeOutOfTime
<1>5. /\ exec'[e].state = "failed"
      /\ exec'[e].error # "null" => exec'[e].state = "failed"
      /\ \A d \in Ids \ {e} : exec'[d] = exec[d]
  <2>1. CASE exec[e].state \in Terminal
    BY <1>1, <1>2, <1>4, <2>1
    DEF FailUnlessTerminal, objects, Sound, CoroutineMatchesState, Leaked, Terminal
  <2>2. CASE exec[e].state \notin Terminal
    <3>1. exec[e] \in Execution /\ code \in Codes
      BY <1>1 DEF TypeOK, Codes
    <3>2. Save(e, Failed(exec[e], code))
      BY <1>4, <2>2 DEF FailUnlessTerminal, Fail
    <3>3. exec'[e] = Failed(exec[e], code) /\ \A d \in Ids \ {e} : exec'[d] = exec[d]
      BY <1>1, <3>2, SaveSame
    <3>4. QED
      BY <3>1, <3>3, FailedFields
  <2>3. QED
    BY <2>1, <2>2
<1>6. /\ fiber'[e] = "none" /\ timers' = timers
      /\ \A d \in Ids \ {e} : fiber'[d] = fiber[d] /\ SameMaps(d)
  BY <1>1 DEF ResumeFindsNoHandler, ResumeOutOfTime, maps, TypeOK, SameMaps
<1>7. \A d \in Ids \ {e} : Same(d)
  BY <1>3, <1>5, <1>6 DEF Same, SameMaps
<1>8. Sound(e)'
  BY <1>1, <1>2, <1>3, <1>5, <1>6
  DEF Sound, CoroutineMatchesState, TimersMatchState, TimeKept, SlotSound, Busy, Leaked,
      Ended, InRun, Terminal
<1>9. QED
  BY <1>1, <1>3, <1>7, <1>8, OneStep

LEMMA StepSound ==
  ASSUME IInv, NEW e \in Ids, Step(e)
  PROVE  IInv'
<1>1. TypeOK /\ TypeOK'
  BY StepType DEF IInv
<1>2. CASE Started(e) \/ BackedOff(e)
  BY <1>2, ArmingSound
<1>3. CASE InputPasses(e)
  BY <1>3, ContinueSound DEF InputPasses
<1>4. CASE InputBlocked(e)
  BY <1>4, FailRunSound, ReturnSound DEF InputBlocked, InRun, Awaits
<1>5. CASE HandlerReturns(e)
  <2>1. CASE ~Running(e)
    BY <1>5, <2>1, ReturnSound DEF HandlerReturns, InHandler, InRun, Awaits
  <2>2. CASE Running(e)
    BY <1>5, <2>2, ContinueSound, CompleteSound DEF HandlerReturns, InHandler
  <2>3. QED
    BY <2>1, <2>2
<1>6. CASE HandlerWaits(e)
  BY <1>1, <1>6, EnterWaitingSound, ReturnSound DEF HandlerWaits, InHandler, InRun, Awaits
<1>7. CASE HandlerThrows(e)
  BY <1>7, FailRunSound, ReturnSound DEF HandlerThrows, InHandler, InRun, Awaits
<1>8. CASE HandlerThrowsRetryable(e)
  <2>1. CASE ~Running(e)
    BY <1>8, <2>1, ReturnSound DEF HandlerThrowsRetryable, InHandler, InRun, Awaits
  <2>2. CASE Running(e)
    BY <1>1, <1>8, <2>2, RetrySound, FailRunSound
    DEF HandlerThrowsRetryable, InHandler, MayRetry
  <2>3. QED
    BY <2>1, <2>2
<1>9. CASE Parked(e)
  BY <1>9, ParkedSound
<1>10. CASE OutputPasses(e)
  BY <1>10, CompleteSound, LateResultSound DEF OutputPasses
<1>11. CASE OutputBlocked(e)
  BY <1>11, FailRunSound, ReturnSound DEF OutputBlocked, InRun, Awaits
<1>12. CASE ResumeFindsNoHandler(e) \/ ResumeOutOfTime(e)
  BY <1>12, ResumeFailsSound
<1>13. CASE ResumeRuns(e)
  BY <1>13, ResumeRunsSound
<1>14. QED
  BY <1>2, <1>3, <1>4, <1>5, <1>6, <1>7, <1>8, <1>9, <1>10, <1>11, <1>12, <1>13 DEF Step

LEMMA RetryFiresSound ==
  ASSUME IInv, TypeOK', NEW e \in Ids, RetryFires(e)
  PROVE  IInv'
<1>1. TypeOK /\ Counted /\ Sound(e) /\ UNCHANGED <<active, charged>>
  BY DEF IInv, RetryFires, slots
<1>2. /\ e \notin timers'["retry"] /\ (e \in timers'["timeout"] <=> e \in timers["timeout"])
      /\ \A d \in Ids \ {e} : SameMaps(d)
      /\ UNCHANGED <<remaining, flowHandlerMap>>
  BY <1>1 DEF RetryFires, Expire, TypeOK, TimerKinds, SameMaps
<1>3. CASE exec[e].state = "retrying"
  <2>1. exec'[e] = Moved(exec[e], "running") /\ \A d \in Ids \ {e} : exec'[d] = exec[d]
    BY <1>1, <1>3, SaveSame DEF RetryFires, Move
  <2>2. /\ exec'[e].state = "running" /\ exec'[e].error = exec[e].error
        /\ exec'[e].flow = exec[e].flow /\ exec'[e].override = exec[e].override
        /\ exec'[e].retryCount = exec[e].retryCount
    <3>1. exec[e] \in Execution
      BY <1>1 DEF TypeOK
    <3>2. QED
      BY <2>1, <3>1, MovedFields DEF States
  <2>3. Counted' /\ \A d \in Ids \ {e} : Same(d)
    BY <1>1, <1>2, <1>3, <2>1 DEF Counted, Same, SameMaps, RetryFires, TypeOK
  <2>4. fiber'[e] = "retry" /\ fiber[e] = "none"
    BY <1>1, <1>3 DEF RetryFires, TypeOK, Sound, CoroutineMatchesState, TimersMatchState
  <2>5. Sound(e)'
    BY <1>1, <1>2, <1>3, <2>2, <2>4
    DEF Sound, CoroutineMatchesState, TimersMatchState, TimeKept, SlotSound, Busy, Leaked,
        Ended, InRun, Awaits
  <2>6. QED
    BY <1>1, <2>3, <2>5, OneStep
<1>4. CASE exec[e].state # "retrying"
  <2>1. UNCHANGED <<exec, fiber>>
    BY <1>4 DEF RetryFires, objects
  <2>2. Counted' /\ \A d \in Ids \ {e} : Same(d)
    BY <1>1, <1>2, <2>1 DEF Counted, Same, SameMaps
  <2>3. Sound(e)'
    BY <1>1, <1>2, <1>4, <2>1
    DEF Sound, CoroutineMatchesState, TimersMatchState, TimeKept, SlotSound, Busy, Leaked,
        Ended, InRun
  <2>4. QED
    BY <1>1, <2>2, <2>3, OneStep
<1>5. QED
  BY <1>3, <1>4

(* A timer of an execution it no longer concerns *)
LEMMA ExpireSound ==
  ASSUME IInv, TypeOK', NEW e \in Ids, NEW kind \in {"timeout", "wait"}, Expire(e, kind),
         kind = "timeout" => exec[e].state \in Terminal,
         UNCHANGED <<objects, slots, fiber>>
  PROVE  IInv'
<1>1. TypeOK /\ Counted /\ Sound(e) /\ UNCHANGED <<exec, active, charged, fiber>>
  BY DEF IInv, objects, slots
<1>2. /\ e \in timers'["retry"] <=> e \in timers["retry"]
      /\ e \in timers'["timeout"] => e \in timers["timeout"]
      /\ kind = "wait" => (e \in timers'["timeout"] <=> e \in timers["timeout"])
      /\ \A d \in Ids \ {e} : SameMaps(d)
      /\ UNCHANGED <<remaining, flowHandlerMap>>
  BY <1>1 DEF Expire, TypeOK, TimerKinds, SameMaps
<1>3. Counted' /\ \A d \in Ids \ {e} : Same(d)
  BY <1>1, <1>2 DEF Counted, Same, SameMaps
<1>4. Sound(e)'
  BY <1>1, <1>2
  DEF Sound, CoroutineMatchesState, TimersMatchState, TimeKept, SlotSound, Busy, Leaked,
      Ended, InRun, Terminal
<1>5. QED
  BY <1>1, <1>3, <1>4, OneStep

LEMMA TimerFiresSound ==
  ASSUME IInv, NEW e \in Ids, TimerFires(e)
  PROVE  IInv'
<1>1. TypeOK /\ TypeOK' /\ Sound(e)
  BY TimerFiresType DEF IInv
<1>2. CASE TimeoutFires(e)
  <2>1. CASE exec[e].state \in Terminal
    BY <1>1, <1>2, <2>1, ExpireSound DEF TimeoutFires, control
  <2>2. CASE exec[e].state \notin Terminal
    <3>1. exec[e].state \in {"running", "retrying"} /\ fiber[e] # "resuming"
      BY <1>1, <1>2, <2>2 DEF TimeoutFires, Sound, TimersMatchState
    <3>2. Fail(e, "TIMEOUT") /\ ClearTimers(e) /\ FreeSlot(e) /\ UNCHANGED fiber
      BY <1>2, <2>2 DEF TimeoutFires, control
    <3>3. QED
      BY <1>1, <2>2, <3>1, <3>2, FailSound
  <2>3. QED
    BY <2>1, <2>2
<1>3. CASE RetryFires(e)
  BY <1>1, <1>3, RetryFiresSound
<1>4. CASE WaitTimeoutFires(e)
  <2>1. CASE exec[e].state = "waiting"
    <3>1. Fail(e, "WAIT_TIMEOUT") /\ ClearTimers(e) /\ UNCHANGED slots /\ UNCHANGED fiber
      BY <1>4, <2>1 DEF WaitTimeoutFires, control
    <3>2. QED
      BY <1>1, <2>1, <3>1, FailSound DEF Terminal
  <2>2. CASE exec[e].state # "waiting"
    BY <1>1, <1>4, <2>2, ExpireSound DEF WaitTimeoutFires, control
  <2>3. QED
    BY <2>1, <2>2
<1>5. QED
  BY <1>2, <1>3, <1>4 DEF TimerFires

LEMMA CancelSound ==
  ASSUME IInv, NEW e \in Ids, Cancel(e)
  PROVE  IInv'
<1>1. TypeOK'
  BY CancelDeleteType DEF IInv
<1>2. exec[e].state \notin Terminal
  BY CancelAssumption DEF Cancel
<1>3. Fail(e, "CANCELLED") /\ ClearTimers(e) /\ UNCHANGED slots /\ UNCHANGED fiber
  BY DEF Cancel, control
<1>4. QED
  BY <1>1, <1>2, <1>3, FailSound

(* The drain fails every execution that is neither over nor waiting. *)
LEMMA DrainTimeoutSound ==
  ASSUME IInv, DrainTimeout
  PROVE  IInv'
<1>1. TypeOK /\ TypeOK' /\ Counted
  BY DrainTimeoutType DEF IInv
<1>2. UNCHANGED <<active, charged, fiber>>
  BY DEF DrainTimeout, slots, control
<1>3. Counted'
  BY <1>1, <1>2 DEF Counted
<1>4. ASSUME NEW e \in Ids PROVE Sound(e)'
  <2>1. Sound(e)
    BY DEF IInv
  <2>2. CASE e \in Stragglers
    <3>1. exec'[e] = Failed(exec[e], "SHUTDOWN")
      BY <2>2 DEF DrainTimeout
    <3>2. /\ exec'[e].state = "failed" /\ exec'[e].error = "SHUTDOWN"
          /\ exec'[e].resumed = exec[e].resumed /\ exec'[e].retryCount = exec[e].retryCount
      <4>1. exec[e] \in Execution
        BY <1>1 DEF TypeOK
      <4>2. QED
        BY <3>1, <4>1, FailedFields DEF Codes
    <3>3. /\ \A t \in TimerKinds : e \notin timers'[t]
          /\ e \notin flowHandlerMap'
      BY <2>2 DEF DrainTimeout
    <3>4. exec[e].state \notin Terminal \cup {"waiting"}
      BY <2>2 DEF Stragglers
    <3>5. QED
      BY <1>2, <2>1, <3>2, <3>3, <3>4
      DEF Sound, CoroutineMatchesState, TimersMatchState, TimeKept, SlotSound, Busy,
          Leaked, Ended, InRun, TimerKinds, Terminal
  <2>3. CASE e \notin Stragglers
    <3>1. Same(e)
      BY <1>1, <1>2, <2>3 DEF DrainTimeout, Same, TypeOK
    <3>2. QED
      BY <2>1, <3>1, SameSound
  <2>4. QED
    BY <2>2, <2>3
<1>5. QED
  BY <1>1, <1>3, <1>4 DEF IInv

(* Deletions, registrations and the other steps of shutdown leave executions *)
(* and slots alone.                                                        *)
LEMMA ElsewhereSound ==
  ASSUME IInv, TypeOK', UNCHANGED <<exec, active, charged, maps, fiber>>
  PROVE  IInv'
<1>1. Counted' /\ \A d \in Ids : Same(d)
  BY DEF IInv, Counted, Same, maps
<1>2. QED
  BY <1>1, SameSound DEF IInv

LEMMA InitSound == Init => IInv
<1> SUFFICES ASSUME Init PROVE IInv
  OBVIOUS
<1>1. TypeOK
  BY InitType
<1>2. Counted
  BY FS_EmptySet DEF Init, Counted
<1>3. ASSUME NEW e \in Ids PROVE Sound(e)
  <2>1. exec[e].state = "absent" /\ exec[e].error = "null"
    BY DEF Init, Unborn, NewExecution
  <2>2. fiber[e] = "none" /\ charged = {} /\ \A t \in TimerKinds : timers[t] = {}
    BY DEF Init
  <2>3. QED
    BY <2>1, <2>2
    DEF Sound, CoroutineMatchesState, TimersMatchState, TimeKept, SlotSound, Busy, Leaked,
        Ended, InRun, TimerKinds
<1>4. QED
  BY <1>1, <1>2, <1>3 DEF IInv

LEMMA NextSound == IInv /\ [Next]_vars => IInv'
<1> SUFFICES ASSUME IInv, [Next]_vars PROVE IInv'
  OBVIOUS
<1>1. TypeOK'
  BY NextType DEF IInv
<1>2. CASE UNCHANGED vars
  BY <1>1, <1>2, ElsewhereSound DEF vars, objects, slots, control
<1>3. ASSUME NEW c \in Callers, Request(c) \/ Continue(c) PROVE IInv'
  BY <1>3, CallersSound
<1>4. ASSUME NEW e \in Ids, DispatchQueued(e) \/ Step(e) \/ TimerFires(e) PROVE IInv'
  BY <1>4, DispatchQueuedSound, StepSound, TimerFiresSound
<1>5. ASSUME NEW e \in Ids, Cancel(e) \/ Delete(e) PROVE IInv'
  <2>1. CASE Delete(e)
    BY <1>1, <2>1, ElsewhereSound DEF Delete, slots, control
  <2>2. QED
    BY <1>5, <2>1, CancelSound
<1>6. CASE \/ \E f \in Flows : Unregister(f) \/ Register(f)
           \/ Shutdown \/ Drained \/ Stop
  BY <1>1, <1>6, ElsewhereSound
  DEF Unregister, Register, Shutdown, Drained, Stop, objects, slots, control
<1>7. CASE DrainTimeout
  BY <1>7, DrainTimeoutSound
<1>8. QED
  BY <1>2, <1>3, <1>4, <1>5, <1>6, <1>7 DEF Next

(* The inductive invariant holds, whatever callers, handlers, guardrails and *)
(* timers do and in whatever order.                                        *)
THEOREM Invariance == Spec => []IInv
<1>1. Init => IInv
  BY InitSound
<1>2. IInv /\ [Next]_vars => IInv'
  BY NextSound
<1>3. QED
  BY <1>1, <1>2, PTL DEF Spec

-------------------------------------------------------------------------------
(* What follows *)

(* activeExecutions counts exactly the executions that hold a slot, and only *)
(* those that run, park or were cancelled or drained while they ran hold one. *)
THEOREM SlotsAccounted == Spec => []SlotAccounting
<1>1. IInv => SlotAccounting
  BY DEF IInv, Sound, SlotSound, Counted, SlotAccounting, TypeOK
<1>2. QED
  BY <1>1, Invariance, PTL

(* The coroutine and the timers of every execution go with its state. *)
THEOREM AlwaysConsistent == Spec => []Consistent
<1>1. IInv => Consistent
  BY DEF IInv, Sound, Consistent
<1>2. QED
  BY <1>1, Invariance, PTL

(* No execution is left with nobody to move it on. *)
THEOREM AlwaysDriven == Spec => []Driven
<1>1. IInv => Driven
  BY DEF IInv, Sound, CoroutineMatchesState, TimersMatchState, Driven, InRun
<1>2. QED
  BY <1>1, Invariance, PTL

(* The time-out of a flow stays armed while its executions run. *)
THEOREM TimeoutsKept == Spec => []TimeoutKept
<1>1. IInv => TimeoutKept
  BY DEF IInv, Sound, TimeKept, TimeoutKept
<1>2. QED
  BY <1>1, Invariance, PTL

-------------------------------------------------------------------------------
(***************************************************************************)
(* What follows from the writes to executions: the engine implements       *)
(* Executions.tla, results and errors have the origins they should, the    *)
(* store keeps what lives, and only resumes pass the concurrency limit.    *)
(***************************************************************************)

-------------------------------------------------------------------------------
(* Every step of the engine writes to executions in one of five ways. *)

(* What failExecution records, ever *)
Recorded == Codes \ {"null", "FLOW_NOT_FOUND"}

(* No state changes; a run that timed out, was cancelled or drained may      *)
(* still write a result.                                                   *)
Late == {"TIMEOUT", "CANCELLED", "SHUTDOWN"}

Quiet ==
  /\ UNCHANGED <<store, index, announced>>
  /\ \A d \in Ids : \/ exec'[d] = exec[d]
                    \/ exec'[d] = Reported(exec[d], "guarded") /\ Ended(d, Late)

(* An execution moves on, *)
Moves(e, object) ==
  /\ Save(e, object)
  /\ UNCHANGED announced
  /\ \/ object = Moved(exec[e], "running")
     \/ object = Moved(exec[e], "waiting")
     \/ object = Retried(exec[e])
     \/ object = Resumed(exec[e])

(* or ends. *)
Ends(e, object) ==
  /\ Save(e, object)
  /\ announced' = [announced EXCEPT ![e] = @ + 1]
  /\ \/ \E code \in Recorded : object = Failed(exec[e], code)
     \/ \E result \in {"raw", "guarded"} :
           /\ object = Completed(exec[e], result)
           /\ result = "raw" => exec[e].retryCount > 0

Writes ==
  \/ Quiet
  \/ \E e \in Ids : \E object : Moves(e, object) \/ Ends(e, object)
  \/ \E c \in Callers, e \in Ids : Create(c, e)
  \/ \E e \in Ids : Delete(e)
  \/ DrainTimeout

LEMMA FailWrites ==
  ASSUME NEW e \in Ids, NEW code \in Recorded, Fail(e, code) PROVE Writes
BY Zenon DEF Fail, Ends, Writes

LEMMA MoveWrites ==
  ASSUME NEW e \in Ids, NEW state \in {"running", "waiting"}, Move(e, state) PROVE Writes
BY DEF Move, Moves, Writes

LEMMA QuietWrites ==
  ASSUME UNCHANGED objects PROVE Writes
<1>1. Quiet
  BY DEF objects, Quiet
<1>2. QED
  BY <1>1 DEF Writes

LEMMA StepWrites ==
  ASSUME IInv, NEW e \in Ids, Step(e) PROVE Writes
<1>0. TypeOK /\ Sound(e)
  BY DEF IInv
<1>1. ASSUME NEW result \in {"raw", "guarded"}, Complete(e, result),
             result = "raw" => fiber[e] = "retry"
      PROVE  Writes
  <2>1. result = "raw" => exec[e].retryCount > 0
    BY <1>0, <1>1 DEF Sound, CoroutineMatchesState
  <2>2. QED
    BY <1>1, <2>1, Zenon DEF Complete, Ends, Writes
<1>2. ASSUME FailRun(e) PROVE Writes
  BY <1>2, FailWrites DEF FailRun, Codes, Recorded
<1>3. ASSUME NEW await, ContinueAt(e, await) PROVE Writes
  BY <1>3, QuietWrites DEF ContinueAt
<1>4. ASSUME Return(e) PROVE Writes
  BY <1>3, <1>4 DEF Return
<1>5. CASE Started(e) \/ InputPasses(e) \/ Parked(e) \/ BackedOff(e) \/ ResumeRuns(e)
  BY <1>3, <1>5, QuietWrites DEF Started, InputPasses, Parked, BackedOff, ResumeRuns
<1>6. CASE InputBlocked(e) \/ HandlerThrows(e) \/ OutputBlocked(e)
  BY <1>2, <1>4, <1>6 DEF InputBlocked, HandlerThrows, OutputBlocked
<1>7. CASE HandlerReturns(e)
  BY <1>1, <1>3, <1>4, <1>7 DEF HandlerReturns, InHandler
<1>8. CASE HandlerWaits(e)
  BY <1>4, <1>8, MoveWrites DEF HandlerWaits, EnterWaiting
<1>9. CASE HandlerThrowsRetryable(e)
  <2>1. ASSUME Retry(e) PROVE Writes
    BY <2>1, Zenon DEF Retry, Moves, Writes
  <2>2. QED
    BY <1>2, <1>4, <1>9, <2>1 DEF HandlerThrowsRetryable
<1>10. CASE OutputPasses(e)
  <2>1. CASE ~Running(e)
    <3>1. UNCHANGED <<store, index, announced>>
      BY <1>10, <2>1 DEF OutputPasses
    <3>2. Ended(e, Late)
      BY <1>0, <1>10, <2>1 DEF OutputPasses, Running, Sound, CoroutineMatchesState, InRun,
         Awaits, Late
    <3>3. \A d \in Ids : \/ exec'[d] = exec[d]
                         \/ exec'[d] = Reported(exec[d], "guarded") /\ Ended(d, Late)
      BY <1>0, <1>10, <2>1, <3>2 DEF OutputPasses, TypeOK
    <3>4. Quiet
      BY <3>1, <3>3 DEF Quiet
    <3>5. QED
      BY <3>4 DEF Writes
  <2>2. QED
    BY <1>1, <1>10, <2>1 DEF OutputPasses
<1>11. CASE ResumeOutOfTime(e)
  BY <1>11, FailWrites, QuietWrites DEF ResumeOutOfTime, FailUnlessTerminal, Codes, Recorded
<1>12. CASE ResumeFindsNoHandler(e)
  <2>1. exec[e].state \in Terminal
    BY <1>0, <1>12
    DEF ResumeFindsNoHandler, Sound, CoroutineMatchesState, TimersMatchState, Leaked, Terminal
  <2>2. QED
    BY <1>12, <2>1, QuietWrites DEF ResumeFindsNoHandler, FailUnlessTerminal
<1>13. QED
  BY <1>5, <1>6, <1>7, <1>8, <1>9, <1>10, <1>11, <1>12 DEF Step

LEMMA NextWrites ==
  ASSUME IInv, [Next]_vars PROVE Writes
<1>0. TypeOK
  BY DEF IInv
<1>1. CASE UNCHANGED vars
  BY <1>1, QuietWrites DEF vars
<1>2. ASSUME NEW c \in Callers, Request(c) \/ Continue(c) PROVE Writes
  <2>1. CASE Request(c) \/ PolicyDenies(c) \/ ReplayTriggers(c)
    BY <2>1, QuietWrites DEF Request, Trigger, Resume, Replay, PolicyDenies, ReplayTriggers
  <2>2. ASSUME NEW e \in Ids, Create(c, e) PROVE Writes
    BY <2>2 DEF Writes
  <2>3. CASE DispatchNew(c)
    <3>1. calls[c].id \in Ids
      BY <1>0, <2>3 DEF TypeOK, DispatchNew, Call, Idle
    <3>2. QED
      BY <2>3, <3>1, MoveWrites, QuietWrites DEF DispatchNew, Start
  <2>4. CASE ResumeCommits(c)
    <3>1. PICK e \in Ids : e = calls[c].id
      BY <1>0, <2>4 DEF TypeOK, ResumeCommits, Call, Idle
    <3>2. CASE exec[e].state = "waiting"
      <4>1. Save(e, Resumed(exec[e])) /\ UNCHANGED announced
        BY <2>4, <3>1, <3>2 DEF ResumeCommits
      <4>2. QED
        BY <4>1, Zenon DEF Moves, Writes
    <3>3. CASE exec[e].state # "waiting"
      BY <2>4, <3>1, <3>3, QuietWrites DEF ResumeCommits
    <3>4. QED
      BY <3>2, <3>3
  <2>5. QED
    BY <1>2, <2>1, <2>2, <2>3, <2>4 DEF Continue
<1>3. ASSUME NEW e \in Ids, DispatchQueued(e) PROVE Writes
  BY <1>3, MoveWrites, QuietWrites DEF DispatchQueued, Start, objects
<1>4. ASSUME NEW e \in Ids, TimerFires(e) PROVE Writes
  BY <1>4, FailWrites, MoveWrites, QuietWrites
  DEF TimerFires, TimeoutFires, RetryFires, WaitTimeoutFires, Codes, Recorded
<1>5. ASSUME NEW e \in Ids, Cancel(e) \/ Delete(e) PROVE Writes
  <2>1. CASE Delete(e)
    BY <2>1 DEF Writes
  <2>2. QED
    BY <1>5, <2>1, FailWrites DEF Cancel, Codes, Recorded
<1>6. CASE \/ \E f \in Flows : Unregister(f) \/ Register(f)
           \/ Shutdown \/ Drained \/ Stop
  BY <1>6, QuietWrites DEF Unregister, Register, Shutdown, Drained, Stop
<1>7. CASE DrainTimeout
  BY <1>7 DEF Writes
<1>8. QED
  BY <1>1, <1>2, <1>3, <1>4, <1>5, <1>6, <1>7, StepWrites DEF Next

-------------------------------------------------------------------------------
(* The refinement *)

(* The store holds no id that no trigger has used. *)
StoreBorn == \A e \in store : exec[e].state # "absent"

AbstractState == [e \in Ids |-> exec[e].state]

(* The states in which the writes of the engine leave the execution *)
LEMMA MovesState ==
  ASSUME TypeOK, NEW e \in Ids, NEW object, Moves(e, object)
  PROVE  /\ CanMove(exec[e].state, object.state)
         /\ object.state \in States \ Terminal
         /\ AbstractState' = [AbstractState EXCEPT ![e] = object.state]
         /\ store' = store \cup {e}
         /\ exec' = [exec EXCEPT ![e] = object]
<1>1. exec[e] \in Execution
  BY DEF TypeOK
<1>2. object.state \in States \ Terminal
  <2>1. "running" \in States \ Terminal /\ "waiting" \in States \ Terminal
        /\ "retrying" \in States \ Terminal
    BY DEF States, Terminal
  <2>2. /\ Moved(exec[e], "running").state = "running"
        /\ Moved(exec[e], "waiting").state = "waiting"
        /\ Retried(exec[e]).state = "retrying"
        /\ Resumed(exec[e]).state = "running"
    BY <1>1, <2>1, MovedFields, RetriedFields, ResumedFields
  <2>3. QED
    BY <2>1, <2>2 DEF Moves
<1>3. CanMove(exec[e].state, object.state) /\ store' = store \cup {e}
      /\ exec' = [exec EXCEPT ![e] = object]
  BY DEF Moves, Save
<1>4. exec'[e] = object /\ \A d \in Ids \ {e} : exec'[d] = exec[d]
  BY <1>3 DEF TypeOK
<1>5. AbstractState' = [AbstractState EXCEPT ![e] = object.state]
  BY <1>4 DEF AbstractState
<1>6. QED
  BY <1>2, <1>3, <1>5

LEMMA EndsState ==
  ASSUME TypeOK, NEW e \in Ids, NEW object, Ends(e, object)
  PROVE  /\ CanMove(exec[e].state, object.state)
         /\ object.state \in Terminal
         /\ AbstractState' = [AbstractState EXCEPT ![e] = object.state]
         /\ store' = store \cup {e}
         /\ exec' = [exec EXCEPT ![e] = object]
<1>1. exec[e] \in Execution
  BY DEF TypeOK
<1>2. object.state \in Terminal
  BY <1>1, FailedFields, CompletedFields DEF Ends, Terminal, Recorded
<1>3. CanMove(exec[e].state, object.state) /\ store' = store \cup {e}
      /\ exec' = [exec EXCEPT ![e] = object]
  BY DEF Ends, Save
<1>4. exec'[e] = object /\ \A d \in Ids \ {e} : exec'[d] = exec[d]
  BY <1>3 DEF TypeOK
<1>5. AbstractState' = [AbstractState EXCEPT ![e] = object.state]
  BY <1>4 DEF AbstractState
<1>6. QED
  BY <1>2, <1>3, <1>5

LEMMA QuietState ==
  ASSUME TypeOK, Quiet
  PROVE  AbstractState' = AbstractState
<1>1. ASSUME NEW d \in Ids PROVE exec'[d].state = exec[d].state
  <2>1. exec[d] \in Execution
    BY DEF TypeOK
  <2>2. QED
    BY <2>1, ReportedFields DEF Quiet
<1>2. QED
  BY <1>1 DEF AbstractState

LEMMA CreateState ==
  ASSUME TypeOK, NEW c \in Callers, NEW e \in Ids, Create(c, e)
  PROVE  /\ exec[e].state = "absent"
         /\ AbstractState' = [AbstractState EXCEPT ![e] = "queued"]
<1>1. exec'[e].state = "queued" /\ exec[e].state = "absent"
  BY DEF Create, TypeOK, NewExecution, InitialState
<1>2. \A d \in Ids \ {e} : exec'[d] = exec[d]
  BY DEF Create, TypeOK
<1>3. QED
  BY <1>1, <1>2 DEF AbstractState

LEMMA DrainState ==
  ASSUME TypeOK, DrainTimeout
  PROVE  AbstractState' = [e \in Ids |-> IF e \in Stragglers THEN "failed"
                                         ELSE AbstractState[e]]
<1>1. ASSUME NEW e \in Ids
      PROVE  exec'[e].state = IF e \in Stragglers THEN "failed" ELSE exec[e].state
  <2>1. exec[e] \in Execution
    BY DEF TypeOK
  <2>2. CASE e \in Stragglers
    BY <2>1, <2>2, FailedFields DEF DrainTimeout, Codes
  <2>3. CASE e \notin Stragglers
    BY <2>1, <2>3 DEF DrainTimeout
  <2>4. QED
    BY <2>2, <2>3
<1>2. QED
  BY <1>1 DEF AbstractState

LEMMA StoreBornNext ==
  ASSUME TypeOK, StoreBorn, Writes PROVE StoreBorn'
<1>1. CASE Quiet
  <2>1. store' = store /\ \A d \in Ids : AbstractState'[d] = AbstractState[d]
    BY <1>1, QuietState DEF Quiet
  <2>2. \A d \in Ids : exec'[d].state = exec[d].state
    BY <2>1 DEF AbstractState
  <2>3. QED
    BY <2>1, <2>2 DEF StoreBorn, TypeOK
<1>2. ASSUME NEW e \in Ids, NEW object, Moves(e, object) \/ Ends(e, object)
      PROVE  StoreBorn'
  <2>1. /\ object.state \in States
        /\ store' = store \cup {e}
        /\ exec' = [exec EXCEPT ![e] = object]
    BY <1>2, MovesState, EndsState DEF States, Terminal
  <2>2. exec'[e] = object /\ \A d \in Ids \ {e} : exec'[d] = exec[d]
    BY <2>1 DEF TypeOK
  <2>3. QED
    BY <2>1, <2>2 DEF StoreBorn, TypeOK, States
<1>3. ASSUME NEW c \in Callers, NEW e \in Ids, Create(c, e) PROVE StoreBorn'
  <2>1. exec'[e].state = "queued" /\ store' = store \cup {e}
    BY <1>3 DEF Create, TypeOK, NewExecution, InitialState
  <2>2. \A d \in Ids \ {e} : exec'[d] = exec[d]
    BY <1>3 DEF Create, TypeOK
  <2>3. QED
    BY <2>1, <2>2 DEF StoreBorn, TypeOK
<1>4. ASSUME NEW e \in Ids, Delete(e) PROVE StoreBorn'
  BY <1>4 DEF Delete, StoreBorn
<1>5. CASE DrainTimeout
  <2>1. \A e \in Ids : exec'[e].state = IF e \in Stragglers THEN "failed" ELSE exec[e].state
    BY <1>5, DrainState DEF AbstractState
  <2>2. store' = store
    BY <1>5 DEF DrainTimeout
  <2>3. QED
    BY <2>1, <2>2 DEF StoreBorn, TypeOK
<1>6. QED
  BY <1>1, <1>2, <1>3, <1>4, <1>5 DEF Writes

LEMMA WritesRefine ==
  ASSUME TypeOK, StoreBorn, Writes
  PROVE  [Abstract!Next]_(Abstract!vars)
<1> USE DEF AbstractState
<1>1. CASE Quiet
  BY <1>1, QuietState DEF Quiet, Abstract!vars
<1>2. ASSUME NEW e \in Ids, NEW object, Moves(e, object) PROVE Abstract!Next
  <2>1. announced' = announced
    BY <1>2 DEF Moves
  <2>2. Abstract!Advance(e, object.state)
    BY <1>2, <2>1, MovesState DEF Abstract!Advance, Abstract!CanMove, CanMove,
       Abstract!States, States, Abstract!Successors, Successors, Abstract!Terminal, Terminal
  <2>3. object.state \in Abstract!States
    BY <1>2, MovesState DEF Abstract!States, States
  <2>4. QED
    BY <2>2, <2>3 DEF Abstract!Next
<1>3. ASSUME NEW e \in Ids, NEW object, Ends(e, object) PROVE Abstract!Next
  <2>1. announced' = [announced EXCEPT ![e] = @ + 1]
    BY <1>3 DEF Ends
  <2>2. Abstract!Finish(e, object.state)
    BY <1>3, <2>1, EndsState DEF Abstract!Finish, Abstract!CanMove, CanMove,
       Abstract!States, States, Abstract!Successors, Successors, Abstract!Terminal, Terminal
  <2>3. object.state \in Abstract!States
    BY <1>3, EndsState DEF Abstract!States, Terminal
  <2>4. QED
    BY <2>2, <2>3 DEF Abstract!Next
<1>4. ASSUME NEW c \in Callers, NEW e \in Ids, Create(c, e) PROVE Abstract!Next
  <2>1. Abstract!Create(e)
    BY <1>4, CreateState DEF Abstract!Create, Abstract!InitialState, Create
  <2>2. QED
    BY <2>1 DEF Abstract!Next
<1>5. ASSUME NEW e \in Ids, Delete(e) PROVE UNCHANGED Abstract!vars
  BY <1>5 DEF Delete, Abstract!vars
<1>6. ASSUME DrainTimeout PROVE Abstract!Next
  <2>1. PICK E \in SUBSET Ids : E = Stragglers
    BY DEF Stragglers, TypeOK
  <2>2. \A e \in E : CanMove(exec[e].state, "failed")
    BY <2>1 DEF Stragglers, TypeOK, StoreBorn, Execution, CanMove, States, Successors, Terminal
  <2>3. Abstract!FinishAll(E)
    BY <1>6, <2>1, <2>2, DrainState DEF Abstract!FinishAll, Abstract!CanMove, CanMove,
       Abstract!States, States, Abstract!Successors, Successors, DrainTimeout
  <2>4. QED
    BY <2>3 DEF Abstract!Next
<1>7. QED
  BY <1>1, <1>2, <1>3, <1>4, <1>5, <1>6 DEF Writes

(* Every behaviour of the engine is one of Executions.tla: executions start  *)
(* queued, follow the transition table, never leave a terminal state, and  *)
(* each end is announced once, whatever timers, callers and handlers race. *)
THEOREM Refinement == Spec => ImplementsExecutions
<1>1. Init => Abstract!Init
  BY DEF Init, Abstract!Init, Unborn, NewExecution
<1>2. Init => StoreBorn
  BY DEF Init, StoreBorn
<1>3. IInv => TypeOK
  BY DEF IInv
<1>4. IInv /\ StoreBorn /\ [Next]_vars => StoreBorn'
  BY <1>3, NextWrites, StoreBornNext
<1>5. IInv /\ StoreBorn /\ [Next]_vars => [Abstract!Next]_(Abstract!vars)
  BY <1>3, NextWrites, WritesRefine
<1>6. QED
  BY <1>1, <1>2, <1>4, <1>5, Invariance, PTL DEF Spec, ImplementsExecutions, Abstract!Spec

-------------------------------------------------------------------------------
(* What no write changes, and the results and errors that are written *)

(* An object of the store keeps its flow and key, is resumed for good, and   *)
(* carries only the results and errors a run may leave.                     *)
Written(d) ==
  /\ exec'[d].key = exec[d].key
  /\ exec[d].resumed = TRUE => exec'[d].resumed = TRUE
  /\ exec[d].retryCount <= exec'[d].retryCount
  /\ \/ exec'[d].result = exec[d].result
     \/ /\ \/ exec'[d].state = "complete"
           \/ Ended(d, Late) /\ exec'[d].error = exec[d].error
        /\ exec'[d].result = "raw" => exec'[d].retryCount > 0
  /\ \/ exec'[d].error = exec[d].error
     \/ exec'[d].error \in Recorded /\ exec[d].state \notin Terminal
  /\ exec[d].state = "complete" => exec'[d].state = "complete"

LEMMA ObjectWritten ==
  ASSUME TypeOK, NEW e \in Ids, NEW object, Moves(e, object) \/ Ends(e, object)
  PROVE  \A d \in Ids : Written(d)
<1>1. exec[e] \in Execution /\ exec[e].retryCount \in Nat
  BY DEF TypeOK, Execution
<1>2. exec'[e] = object /\ \A d \in Ids \ {e} : exec'[d] = exec[d]
  BY SaveSame DEF Moves, Ends
<1>3. exec[e].state \notin Terminal
  BY DEF Moves, Ends, Save, CanMove, Successors, Terminal, States
<1>4. CASE Moves(e, object)
  <2> DEFINE Kept(x) == /\ x.key = exec[e].key /\ x.result = exec[e].result
                        /\ x.error = exec[e].error
                        /\ x.resumed = TRUE \/ x.resumed = exec[e].resumed
                        /\ x.retryCount \in {exec[e].retryCount, exec[e].retryCount + 1}
  <2>1. "running" \in States /\ "waiting" \in States
    BY DEF States
  <2>2. Kept(Moved(exec[e], "running")) /\ Kept(Moved(exec[e], "waiting"))
    BY <1>1, <2>1, MovedFields
  <2>3. Kept(Retried(exec[e])) /\ Kept(Resumed(exec[e]))
    BY <1>1, RetriedFields, ResumedFields
  <2>4. Kept(object)
    BY <1>4, <2>2, <2>3 DEF Moves
  <2>5. QED
    BY <1>1, <1>2, <1>3, <2>4 DEF Written, Terminal, TypeOK, Execution
<1>5. CASE Ends(e, object)
  <2>1. /\ object.key = exec[e].key /\ object.resumed = exec[e].resumed
        /\ object.retryCount = exec[e].retryCount
        /\ \/ object.result = exec[e].result /\ object.error \in Recorded
           \/ /\ object.state = "complete" /\ object.error = exec[e].error
              /\ object.result = "raw" => exec[e].retryCount > 0
    BY <1>1, <1>5, FailedFields, CompletedFields DEF Ends, Recorded
  <2>2. QED
    BY <1>1, <1>2, <1>3, <2>1 DEF Written, Terminal, TypeOK, Execution
<1>6. QED
  BY <1>4, <1>5

LEMMA WritesWritten ==
  ASSUME TypeOK, Writes, NEW d \in Ids,
         \A c \in Callers : ~Create(c, d)
  PROVE  Written(d)
<1>1. exec[d] \in Execution /\ exec[d].retryCount \in Nat
  BY DEF TypeOK, Execution
<1>2. CASE exec'[d] = exec[d]
  BY <1>1, <1>2 DEF Written
<1>3. CASE Quiet
  <2>1. CASE exec'[d] = Reported(exec[d], "guarded") /\ Ended(d, Late)
    BY <1>1, <2>1, ReportedFields DEF Written
  <2>2. QED
    BY <1>2, <1>3, <2>1 DEF Quiet
<1>4. CASE DrainTimeout /\ d \in Stragglers
  <2>1. exec'[d] = Failed(exec[d], "SHUTDOWN") /\ exec[d].state \notin Terminal
    BY <1>4 DEF DrainTimeout, Stragglers
  <2>2. "SHUTDOWN" \in Codes /\ "SHUTDOWN" \in Recorded
    BY DEF Codes, Recorded
  <2>3. QED
    BY <1>1, <2>1, <2>2, FailedFields DEF Written, Terminal
<1>5. CASE DrainTimeout /\ d \notin Stragglers
  BY <1>2, <1>5 DEF DrainTimeout
<1>6. ASSUME NEW e \in Ids, Delete(e) PROVE Written(d)
  BY <1>2, <1>6 DEF Delete
<1>7. ASSUME NEW c \in Callers, NEW e \in Ids, Create(c, e) PROVE Written(d)
  <2>1. d # e
    BY <1>7
  <2>2. QED
    BY <1>2, <1>7, <2>1 DEF Create, TypeOK
<1>8. QED
  BY <1>3, <1>4, <1>5, <1>6, <1>7, ObjectWritten DEF Writes

(* A new execution is as createExecution makes it. *)
LEMMA CreatedFields ==
  ASSUME TypeOK, NEW c \in Callers, NEW e \in Ids, Create(c, e)
  PROVE  /\ exec[e].state = "absent"
         /\ exec'[e].key = calls[c].key
         /\ exec'[e].state = "queued"
         /\ exec'[e].result = "null" /\ exec'[e].error = "null"
         /\ \A d \in Ids \ {e} : exec'[d] = exec[d]
BY DEF Create, TypeOK, NewExecution, InitialState

(* A resume always finds its handler: FLOW_NOT_FOUND is never recorded. *)
THEOREM HandlersKept == Spec => []ResumeKeepsHandler
<1>1. Init => ResumeKeepsHandler
  <2>1. ASSUME Init, NEW e \in Ids PROVE exec[e].error = "null"
    BY <2>1 DEF Init, Unborn, NewExecution
  <2>2. QED
    BY <2>1 DEF ResumeKeepsHandler
<1>2. IInv /\ ResumeKeepsHandler /\ [Next]_vars => ResumeKeepsHandler'
  <2> SUFFICES ASSUME IInv, ResumeKeepsHandler, [Next]_vars, NEW d \in Ids
               PROVE  exec'[d].error # "FLOW_NOT_FOUND"
    BY DEF ResumeKeepsHandler
  <2>1. TypeOK /\ Writes
    BY NextWrites DEF IInv
  <2>2. CASE \E c \in Callers : Create(c, d)
    BY <2>1, <2>2, CreatedFields
  <2>3. CASE \A c \in Callers : ~Create(c, d)
    BY <2>1, <2>3, WritesWritten DEF Written, Recorded, ResumeKeepsHandler
  <2>4. QED
    BY <2>2, <2>3
<1>3. QED
  BY <1>1, <1>2, Invariance, PTL DEF Spec

(* Results are those of completed executions or of runs that came back late, *)
(* and only a retried run delivers a result past the output guardrails.     *)
THEOREM ResultsFromRuns == Spec => []ResultOrigin
<1>1. Init => ResultOrigin
  <2>1. ASSUME Init, NEW e \in Ids PROVE exec[e].result = "null"
    BY <2>1 DEF Init, Unborn, NewExecution
  <2>2. QED
    BY <2>1 DEF ResultOrigin
<1>2. IInv /\ ResultOrigin /\ [Next]_vars => ResultOrigin'
  <2> SUFFICES ASSUME IInv, ResultOrigin, [Next]_vars, NEW d \in Ids,
                      exec'[d].result # "null"
               PROVE  /\ \/ exec'[d].state = "complete"
                         \/ exec'[d].error \in Late
                      /\ exec'[d].result = "raw" => exec'[d].retryCount > 0
    BY DEF ResultOrigin, Late
  <2>1. TypeOK /\ Writes /\ Sound(d)
    BY NextWrites DEF IInv
  <2>2. CASE \E c \in Callers : Create(c, d)
    BY <2>1, <2>2, CreatedFields
  <2>3. CASE \A c \in Callers : ~Create(c, d)
    <3>1. Written(d)
      BY <2>1, <2>3, WritesWritten
    <3>2. exec[d].error # "null" => exec[d].state = "failed"
      BY <2>1 DEF Sound, CoroutineMatchesState
    <3>3. exec[d].retryCount \in Nat /\ exec'[d].retryCount \in Nat
      BY <2>1, NextType DEF TypeOK, Execution, IInv
    <3>4. CASE exec'[d].result = exec[d].result
      <4>1. /\ \/ exec[d].state = "complete"
               \/ exec[d].error \in Late /\ exec[d].state = "failed"
            /\ exec[d].result = "raw" => exec[d].retryCount > 0
        BY <3>2, <3>4 DEF ResultOrigin, Late
      <4>2. QED
        BY <3>1, <3>3, <3>4, <4>1 DEF Written, Terminal
    <3>5. QED
      BY <3>1, <3>4 DEF Written, Ended
  <2>4. QED
    BY <2>2, <2>3
<1>3. QED
  BY <1>1, <1>2, Invariance, PTL DEF Spec

-------------------------------------------------------------------------------
(* The store keeps what lives *)

UnbornHaveNoKey == \A e \in Ids : exec[e].state = "absent" => exec[e].key \notin Keys

KeyTaken(e) == \E d \in Ids \ {e} : exec[d].key = exec[e].key

LEMMA SaveKeepsLive ==
  ASSUME TypeOK, StoreKeepsLive, NEW e \in Ids, NEW object,
         Save(e, object), object.key = exec[e].key,
         NEW d \in Ids, exec'[d].state \notin Terminal \cup {"absent"}
  PROVE  d \in store' /\ (exec'[d].key \in Keys => index'[exec'[d].key] = d \/ KeyTaken(d)')
<1>1. exec'[e] = object /\ \A b \in Ids \ {e} : exec'[b] = exec[b]
  BY SaveSame
<1>2. \A b \in Ids : exec'[b].key = exec[b].key
  BY <1>1
<1>3. /\ store' = store \cup {e}
      /\ exec[e].key \in Keys => index' = [index EXCEPT ![exec[e].key] = e]
      /\ exec[e].key \notin Keys => index' = index
  BY DEF Save, Indexed
<1>4. index \in [Keys -> Ids \cup {0}]
  BY DEF TypeOK
<1>5. CASE d = e
  BY <1>2, <1>3, <1>4, <1>5
<1>6. CASE d # e
  <2>1. d \in store /\ (exec[d].key \in Keys => index[exec[d].key] = d \/ KeyTaken(d))
    BY <1>1, <1>6 DEF StoreKeepsLive, KeyTaken
  <2>2. CASE exec[d].key = exec[e].key
    BY <1>2, <1>3, <1>6, <2>1, <2>2 DEF KeyTaken
  <2>3. CASE exec[d].key # exec[e].key
    BY <1>2, <1>3, <1>4, <2>1, <2>3 DEF KeyTaken
  <2>4. QED
    BY <2>2, <2>3
<1>7. QED
  BY <1>5, <1>6

LEMMA StoreKeepsLiveNext ==
  ASSUME TypeOK, UnbornHaveNoKey, StoreKeepsLive, Writes PROVE StoreKeepsLive'
<1> SUFFICES ASSUME NEW d \in Ids, exec'[d].state \notin Terminal \cup {"absent"}
             PROVE  /\ d \in store'
                    /\ exec'[d].key \in Keys => index'[exec'[d].key] = d \/ KeyTaken(d)'
  BY DEF StoreKeepsLive, KeyTaken
<1>1. index \in [Keys -> Ids \cup {0}]
  BY DEF TypeOK
<1>2. ASSUME exec[d].state \notin Terminal \cup {"absent"}
      PROVE  d \in store /\ (exec[d].key \in Keys => index[exec[d].key] = d \/ KeyTaken(d))
  BY <1>2 DEF StoreKeepsLive, KeyTaken
<1>3. ASSUME NEW e \in Ids, NEW object, Moves(e, object) \/ Ends(e, object)
      PROVE  d \in store' /\ (exec'[d].key \in Keys => index'[exec'[d].key] = d \/ KeyTaken(d)')
  <2>1. exec'[e].key = exec[e].key /\ exec'[e] = object
    BY <1>3, ObjectWritten, SaveSame DEF Written, Moves, Ends
  <2>2. QED
    BY <1>3, <2>1, SaveKeepsLive DEF Moves, Ends
<1>4. CASE Quiet
  <2>1. \A b \in Ids : exec'[b].key = exec[b].key /\ exec'[b].state = exec[b].state
    <3>1. ASSUME NEW b \in Ids PROVE exec'[b].key = exec[b].key /\ exec'[b].state = exec[b].state
      <4>1. exec[b] \in Execution
        BY DEF TypeOK
      <4>2. QED
        BY <1>4, <4>1, ReportedFields DEF Quiet
    <3>2. QED
      BY <3>1
  <2>2. QED
    BY <1>2, <1>4, <2>1 DEF Quiet, KeyTaken
<1>5. ASSUME NEW c \in Callers, NEW e \in Ids, Create(c, e)
      PROVE  d \in store' /\ (exec'[d].key \in Keys => index'[exec'[d].key] = d \/ KeyTaken(d)')
  <2>1. /\ exec[e].state = "absent" /\ exec'[e].key = calls[c].key
        /\ \A b \in Ids \ {e} : exec'[b] = exec[b]
    BY <1>5, CreatedFields
  <2>2. /\ store' = store \cup {e}
        /\ calls[c].key \in Keys => index' = [index EXCEPT ![calls[c].key] = e]
        /\ calls[c].key \notin Keys => index' = index
    BY <1>5 DEF Create
  <2>3. CASE d = e
    BY <1>1, <2>1, <2>2, <2>3
  <2>4. CASE d # e /\ exec[d].key = calls[c].key
    BY <1>2, <2>1, <2>2, <2>4 DEF KeyTaken
  <2>5. CASE d # e /\ exec[d].key # calls[c].key
    <3>1. d \in store /\ (exec[d].key \in Keys => index[exec[d].key] = d \/ KeyTaken(d))
      BY <1>2, <2>1, <2>5
    <3>2. exec[d].key \in Keys => index'[exec[d].key] = index[exec[d].key]
      BY <1>1, <2>2, <2>5
    <3>3. KeyTaken(d) /\ ~KeyTaken(d)' => exec[e].key = exec[d].key
      BY <2>1, <2>5 DEF KeyTaken
    <3>4. exec[e].key \notin Keys
      BY <2>1 DEF UnbornHaveNoKey
    <3>5. QED
      BY <2>1, <2>2, <2>5, <3>1, <3>2, <3>3, <3>4
  <2>6. QED
    BY <2>3, <2>4, <2>5
<1>6. ASSUME NEW e \in Ids, Delete(e)
      PROVE  d \in store' /\ (exec'[d].key \in Keys => index'[exec'[d].key] = d \/ KeyTaken(d)')
  <2>1. exec' = exec /\ d # e /\ store' = store \ {e}
    BY <1>6 DEF Delete
  <2>2. CASE exec[d].key = exec[e].key
    BY <1>2, <2>1, <2>2 DEF KeyTaken
  <2>3. CASE exec[d].key # exec[e].key
    BY <1>1, <1>2, <1>6, <2>1, <2>3 DEF KeyTaken, Delete
  <2>4. QED
    BY <2>2, <2>3
<1>7. CASE DrainTimeout
  <2>1. ASSUME NEW b \in Ids PROVE exec'[b].key = exec[b].key
    <3>1. exec[b] \in Execution /\ "SHUTDOWN" \in Codes
      BY DEF TypeOK, Codes
    <3>2. QED
      BY <1>7, <3>1, FailedFields DEF DrainTimeout
  <2>2. d \notin Stragglers /\ exec'[d] = exec[d] /\ store' = store
    BY <1>7, DrainState DEF AbstractState, Terminal, DrainTimeout
  <2>3. CASE \E b \in Stragglers : exec[b].key = exec[d].key
    BY <1>2, <2>1, <2>2, <2>3 DEF KeyTaken, Stragglers, TypeOK
  <2>4. CASE \A b \in Stragglers : exec[b].key # exec[d].key
    <3>1. exec[d].key \in Keys => index'[exec[d].key] = index[exec[d].key]
      BY <1>7, <2>4 DEF DrainTimeout
    <3>2. QED
      BY <1>2, <2>1, <2>2, <3>1 DEF KeyTaken
  <2>5. QED
    BY <2>3, <2>4
<1>8. QED
  BY <1>3, <1>4, <1>5, <1>6, <1>7 DEF Writes

LEMMA UnbornHaveNoKeyNext ==
  ASSUME TypeOK, UnbornHaveNoKey, Writes PROVE UnbornHaveNoKey'
<1> SUFFICES ASSUME NEW d \in Ids, exec'[d].state = "absent"
             PROVE  exec'[d].key \notin Keys
  BY DEF UnbornHaveNoKey
<1>1. \A c \in Callers : ~Create(c, d)
  BY CreatedFields
<1>2. exec'[d].key = exec[d].key
  BY <1>1, WritesWritten DEF Written
<1>3. ASSUME NEW e \in Ids, NEW object, Moves(e, object) \/ Ends(e, object)
      PROVE  exec[d].state = "absent"
  <2>1. object.state \in States
    BY <1>3, MovesState, EndsState DEF States, Terminal
  <2>2. exec'[e] = object /\ \A b \in Ids \ {e} : exec'[b] = exec[b]
    BY <1>3, SaveSame DEF Moves, Ends
  <2>3. QED
    BY <2>1, <2>2 DEF States
<1>4. ASSUME Quiet PROVE exec[d].state = "absent"
  BY <1>4, QuietState DEF AbstractState
<1>5. ASSUME NEW c \in Callers, NEW e \in Ids, Create(c, e) PROVE exec[d].state = "absent"
  BY <1>1, <1>5, CreatedFields
<1>6. ASSUME DrainTimeout PROVE exec[d].state = "absent"
  BY <1>6, DrainState DEF AbstractState
<1>7. ASSUME NEW e \in Ids, Delete(e) PROVE exec[d].state = "absent"
  BY <1>7 DEF Delete
<1>8. exec[d].state = "absent"
  BY <1>3, <1>4, <1>5, <1>6, <1>7 DEF Writes
<1>9. QED
  BY <1>2, <1>8 DEF UnbornHaveNoKey

(* The store never loses an execution that is not over, and leads from its   *)
(* key to it, unless a second one was created with the same key.           *)
THEOREM LiveKept == Spec => []StoreKeepsLive
<1>1. Init => UnbornHaveNoKey /\ StoreKeepsLive
  <2>1. ASSUME Init, NEW e \in Ids
        PROVE  exec[e].state = "absent" /\ exec[e].key = "fresh"
    BY <2>1 DEF Init, Unborn, NewExecution
  <2>2. QED
    BY <2>1 DEF UnbornHaveNoKey, StoreKeepsLive, Keys
<1>2. IInv /\ UnbornHaveNoKey /\ StoreKeepsLive /\ [Next]_vars
        => UnbornHaveNoKey' /\ StoreKeepsLive'
  BY NextWrites, UnbornHaveNoKeyNext, StoreKeepsLiveNext DEF IInv
<1>3. QED
  BY <1>1, <1>2, Invariance, PTL DEF Spec

-------------------------------------------------------------------------------
(* The limit *)

Fresh == {e \in charged : ~exec[e].resumed}

(* Only a dispatch below the limit or a resume takes a slot. *)
SlotTaken ==
  \/ active < Concurrency /\ active' = active + 1
  \/ \A d \in charged' : d \in charged \/ exec'[d].resumed = TRUE

LEMMA SlotTakers ==
  ASSUME IInv, [Next]_vars PROVE SlotTaken
<1>1. ASSUME charged' \subseteq charged PROVE SlotTaken
  BY <1>1 DEF SlotTaken
<1>2. ASSUME NEW e \in Ids, Step(e) PROVE SlotTaken
  <2>1. CASE ResumeRuns(e)
    <3>1. exec[e].resumed = TRUE
      BY <2>1 DEF ResumeRuns, HandlerFound, IInv, Sound, CoroutineMatchesState, TypeOK, Execution
    <3>2. exec' = exec /\ charged' = charged \cup {e}
      BY <2>1 DEF ResumeRuns, objects
    <3>3. QED
      BY <3>1, <3>2 DEF SlotTaken
  <2>2. ASSUME FailRun(e) \/ Complete(e, "raw") \/ Complete(e, "guarded") PROVE SlotTaken
    BY <1>1, <2>2 DEF FailRun, Complete, FreeSlot
  <2>3. ASSUME NEW await, ContinueAt(e, await) PROVE SlotTaken
    BY <1>1, <2>3 DEF ContinueAt, slots
  <2>4. CASE Started(e) \/ InputPasses(e) \/ Parked(e) \/ BackedOff(e)
    BY <1>1, <2>3, <2>4 DEF Started, InputPasses, Parked, BackedOff, FreeSlot, slots
  <2>5. CASE InputBlocked(e) \/ HandlerThrows(e) \/ OutputBlocked(e)
    BY <2>2, <2>3, <2>5 DEF InputBlocked, HandlerThrows, OutputBlocked, Return
  <2>6. CASE HandlerReturns(e)
    BY <2>2, <2>3, <2>6 DEF HandlerReturns, InHandler, Return
  <2>7. CASE HandlerWaits(e) \/ HandlerThrowsRetryable(e)
    BY <1>1, <2>2, <2>3, <2>7
    DEF HandlerWaits, HandlerThrowsRetryable, EnterWaiting, Retry, Return, slots
  <2>8. CASE OutputPasses(e)
    BY <1>1, <2>2, <2>8 DEF OutputPasses, slots
  <2>9. CASE ResumeFindsNoHandler(e) \/ ResumeOutOfTime(e)
    BY <1>1, <2>9 DEF ResumeFindsNoHandler, ResumeOutOfTime, slots
  <2>10. QED
    BY <1>2, <2>1, <2>4, <2>5, <2>6, <2>7, <2>8, <2>9 DEF Step
<1>3. ASSUME NEW c \in Callers, Request(c) \/ Continue(c) PROVE SlotTaken
  <2>1. CASE DispatchNew(c)
    BY <1>1, <2>1 DEF DispatchNew, Start, MayStart, SlotTaken, slots
  <2>2. QED
    BY <1>1, <1>3, <2>1
    DEF Request, Continue, Trigger, Resume, Replay, PolicyDenies, ReplayTriggers, Create,
        ResumeCommits, slots
<1>4. ASSUME NEW e \in Ids, DispatchQueued(e) PROVE SlotTaken
  BY <1>1, <1>4 DEF DispatchQueued, Start, MayStart, SlotTaken
<1>5. ASSUME NEW e \in Ids, TimerFires(e) \/ Cancel(e) \/ Delete(e) PROVE SlotTaken
  BY <1>1, <1>5
  DEF TimerFires, TimeoutFires, RetryFires, WaitTimeoutFires, Cancel, Delete, FreeSlot, slots
<1>6. CASE \/ \E f \in Flows : Unregister(f) \/ Register(f)
           \/ Shutdown \/ Drained \/ DrainTimeout \/ Stop \/ UNCHANGED vars
  BY <1>1, <1>6 DEF Unregister, Register, Shutdown, Drained, DrainTimeout, Stop, vars, slots
<1>7. QED
  BY <1>2, <1>3, <1>4, <1>5, <1>6 DEF Next

(* dispatch never starts an execution beyond config.concurrency: only        *)
(* resumes take activeExecutions over the limit.                           *)
THEOREM LimitKept == Spec => []FreshWithinLimit
<1>1. Init => FreshWithinLimit
  <2> SUFFICES ASSUME Init PROVE Cardinality({e \in charged : ~exec[e].resumed}) <= Concurrency
    BY DEF FreshWithinLimit
  <2>1. {e \in charged : ~exec[e].resumed} = {}
    BY DEF Init
  <2>2. QED
    BY <2>1, FS_EmptySet, ConcurrencyAssumption
<1>2. IInv /\ FreshWithinLimit /\ [Next]_vars => FreshWithinLimit'
  <2> SUFFICES ASSUME IInv, FreshWithinLimit, [Next]_vars
               PROVE  Cardinality(Fresh') <= Concurrency
    BY DEF FreshWithinLimit, Fresh
  <2>1. /\ TypeOK /\ TypeOK' /\ Counted /\ Counted' /\ Writes /\ SlotTaken
        /\ \A d \in Ids : Sound(d)
    BY NextSound, NextWrites, SlotTakers DEF IInv
  <2>2. /\ IsFiniteSet(charged) /\ IsFiniteSet(charged') /\ IsFiniteSet(Fresh)
        /\ Fresh' \subseteq charged' /\ charged' \subseteq Ids /\ charged \subseteq Ids
    BY <2>1, IdsFinite DEF Fresh, TypeOK
  <2>3. Cardinality(Fresh) \in Nat /\ Cardinality(Fresh') \in Nat
        /\ Cardinality(charged') \in Nat
    BY <2>2, FS_CardinalityType, FS_Subset
  <2>4. CASE active < Concurrency /\ active' = active + 1
    <3>1. Cardinality(Fresh') <= Cardinality(charged')
      BY <2>2, FS_Subset
    <3>2. Cardinality(charged') <= Concurrency
      BY <2>1, <2>4, ConcurrencyAssumption DEF Counted, TypeOK
    <3>3. QED
      BY <2>3, <3>1, <3>2, ConcurrencyAssumption
  <2>5. CASE \A d \in charged' : d \in charged \/ exec'[d].resumed = TRUE
    <3>1. ASSUME NEW d \in Fresh' PROVE d \in Fresh
      <4>1. d \in Ids /\ d \in charged /\ exec'[d].resumed # TRUE
        BY <2>2, <2>5, <3>1 DEF Fresh
      <4>2. exec[d].state # "absent"
        BY <2>1, <4>1 DEF Sound, SlotSound, CoroutineMatchesState, Busy, Leaked
      <4>3. Written(d)
        BY <2>1, <4>1, <4>2, CreatedFields, WritesWritten
      <4>4. exec[d].resumed # TRUE /\ exec[d].resumed \in BOOLEAN
        BY <2>1, <4>1, <4>3 DEF Written, TypeOK, Execution
      <4>5. QED
        BY <4>1, <4>4 DEF Fresh
    <3>2. Fresh' \subseteq Fresh
      BY <3>1
    <3>3. Cardinality(Fresh') <= Cardinality(Fresh)
      BY <2>2, <3>2, FS_Subset
    <3>4. Cardinality(Fresh) <= Concurrency
      BY DEF Fresh, FreshWithinLimit
    <3>5. QED
      BY <2>3, <3>3, <3>4, ConcurrencyAssumption
  <2>6. QED
    BY <2>1, <2>4, <2>5 DEF SlotTaken
<1>3. QED
  BY <1>1, <1>2, Invariance, PTL DEF Spec

-------------------------------------------------------------------------------
(* The queue *)

(* Executions are born in the order of their ids, and a head of the queue    *)
(* that was chosen is its head for as long as it is in it.                 *)
QueueOrdered ==
  /\ \A e, d \in Ids : d < e /\ exec[e].state # "absent" => exec[d].state # "absent"
  /\ \A e \in wakes : exec[e].state # "absent"
  /\ \A e \in wakes : \A d \in Ids :
       d < e /\ exec[e].state = "queued" => exec[d].state # "queued"

(* Nothing returns to the queue, and nothing is unborn. *)
NeverRequeued(d) ==
  \/ exec'[d].state = exec[d].state
  \/ exec[d].state # "absent" /\ exec'[d].state \notin {"absent", "queued"}

LEMMA WritesNeverRequeue ==
  ASSUME TypeOK, StoreBorn, Writes, NEW d \in Ids, \A c \in Callers : ~Create(c, d)
  PROVE  NeverRequeued(d)
<1>1. exec[d] \in Execution
  BY DEF TypeOK
<1>2. CASE exec'[d] = exec[d]
  BY <1>2 DEF NeverRequeued
<1>3. CASE Quiet
  BY <1>1, <1>3, ReportedFields DEF Quiet, NeverRequeued
<1>4. ASSUME NEW e \in Ids, NEW object, Moves(e, object) \/ Ends(e, object)
      PROVE  NeverRequeued(d)
  <2>1. /\ CanMove(exec[e].state, object.state)
        /\ exec'[e] = object /\ \A x \in Ids \ {e} : exec'[x] = exec[x]
    BY <1>4, SaveSame DEF Moves, Ends, Save
  <2>2. exec[e].state # "absent" /\ object.state \notin {"absent", "queued"}
    BY <2>1 DEF CanMove, Successors, States
  <2>3. QED
    BY <1>2, <2>1, <2>2 DEF NeverRequeued
<1>5. CASE DrainTimeout
  <2>1. CASE d \in Stragglers
    <3>1. exec'[d] = Failed(exec[d], "SHUTDOWN")
      BY <1>5, <2>1 DEF DrainTimeout
    <3>2. exec'[d].state = "failed"
      BY <1>1, <3>1, FailedFields DEF Codes
    <3>3. CASE exec[d].state # "absent"
      BY <3>2, <3>3 DEF NeverRequeued
    <3>4. CASE exec[d].state = "absent"
      BY <2>1, <3>4 DEF Stragglers, StoreBorn
    <3>5. QED
      BY <3>3, <3>4
  <2>2. QED
    BY <1>2, <1>5, <2>1 DEF DrainTimeout
<1>6. ASSUME NEW e \in Ids, Delete(e) PROVE NeverRequeued(d)
  BY <1>2, <1>6 DEF Delete
<1>7. ASSUME NEW c \in Callers, NEW e \in Ids, Create(c, e) PROVE NeverRequeued(d)
  <2>1. d # e
    BY <1>7
  <2>2. QED
    BY <1>2, <1>7, <2>1, CreatedFields
<1>8. QED
  BY <1>3, <1>4, <1>5, <1>6, <1>7 DEF Writes

(* Heads are chosen where a slot is freed. *)
HeadsChosen == wakes' \subseteq wakes \cup Oldest(Queued)

LEMMA HeadChoosers ==
  ASSUME [Next]_vars PROVE HeadsChosen
<1>1. ASSUME wakes' \subseteq wakes PROVE HeadsChosen
  BY <1>1 DEF HeadsChosen
<1>2. ASSUME NEW n, wakes' = Woken(n) PROVE HeadsChosen
  BY <1>2 DEF Woken, HeadsChosen
<1>3. ASSUME NEW e \in Ids, Step(e) PROVE HeadsChosen
  <2>1. ASSUME FailRun(e) \/ Complete(e, "raw") \/ Complete(e, "guarded") PROVE HeadsChosen
    BY <1>2, <2>1 DEF FailRun, Complete, FreeSlot
  <2>2. ASSUME NEW await, ContinueAt(e, await) PROVE HeadsChosen
    BY <1>1, <2>2 DEF ContinueAt, slots
  <2>3. CASE Started(e) \/ InputPasses(e) \/ BackedOff(e) \/ ResumeRuns(e)
    BY <1>1, <2>2, <2>3 DEF Started, InputPasses, BackedOff, ResumeRuns, slots
  <2>4. CASE InputBlocked(e) \/ HandlerThrows(e) \/ OutputBlocked(e)
    BY <2>1, <2>2, <2>4 DEF InputBlocked, HandlerThrows, OutputBlocked, Return
  <2>5. CASE HandlerReturns(e)
    BY <2>1, <2>2, <2>5 DEF HandlerReturns, InHandler, Return
  <2>6. CASE HandlerWaits(e) \/ HandlerThrowsRetryable(e)
    BY <1>1, <2>1, <2>2, <2>6
    DEF HandlerWaits, HandlerThrowsRetryable, EnterWaiting, Retry, Return, slots
  <2>7. CASE OutputPasses(e)
    BY <1>1, <2>1, <2>7 DEF OutputPasses, slots
  <2>8. CASE Parked(e) \/ ResumeFindsNoHandler(e) \/ ResumeOutOfTime(e)
    BY <1>1, <1>2, <2>8 DEF Parked, ResumeFindsNoHandler, ResumeOutOfTime, FreeSlot, slots
  <2>9. QED
    BY <1>3, <2>3, <2>4, <2>5, <2>6, <2>7, <2>8 DEF Step
<1>4. ASSUME NEW c \in Callers, Request(c) \/ Continue(c) PROVE HeadsChosen
  BY <1>1, <1>4
  DEF Request, Continue, Trigger, Resume, Replay, PolicyDenies, ReplayTriggers, Create,
      DispatchNew, ResumeCommits, slots
<1>5. ASSUME NEW e \in Ids, DispatchQueued(e) PROVE HeadsChosen
  BY <1>1, <1>5 DEF DispatchQueued
<1>6. ASSUME NEW e \in Ids, TimerFires(e) \/ Cancel(e) \/ Delete(e) PROVE HeadsChosen
  BY <1>1, <1>2, <1>6
  DEF TimerFires, TimeoutFires, RetryFires, WaitTimeoutFires, Cancel, Delete, FreeSlot, slots
<1>7. CASE \/ \E f \in Flows : Unregister(f) \/ Register(f)
           \/ Shutdown \/ Drained \/ DrainTimeout \/ Stop \/ UNCHANGED vars
  BY <1>1, <1>7 DEF Unregister, Register, Shutdown, Drained, DrainTimeout, Stop, vars, slots
<1>8. QED
  BY <1>3, <1>4, <1>5, <1>6, <1>7 DEF Next

LEMMA QueueOrderedNext ==
  ASSUME IInv, StoreBorn, StoreKeepsLive, QueueOrdered, [Next]_vars
  PROVE  QueueOrdered'
<1>1. TypeOK /\ TypeOK' /\ Writes /\ HeadsChosen
  BY NextSound, NextWrites, HeadChoosers DEF IInv
<1>2. wakes \subseteq Ids /\ wakes' \subseteq Ids
  BY <1>1 DEF TypeOK
<1>3. \A d \in Ids : exec[d].state # "absent" => NeverRequeued(d)
  BY <1>1, CreatedFields, WritesNeverRequeue
<1>4. ASSUME NEW e \in Ids, NEW d \in Ids, d < e, exec'[e].state # "absent"
      PROVE  exec'[d].state # "absent"
  <2>1. CASE exec[d].state # "absent"
    BY <1>3, <2>1 DEF NeverRequeued
  <2>2. CASE \E c \in Callers : Create(c, d)
    BY <1>1, <2>2, CreatedFields
  <2>3. CASE exec[d].state = "absent" /\ \A c \in Callers : ~Create(c, d)
    <3>1. exec[e].state = "absent"
      BY <1>4, <2>3 DEF QueueOrdered
    <3>2. \A c \in Callers : ~Create(c, e)
      BY <1>4, <2>3 DEF Create
    <3>3. exec'[e].state = "absent"
      BY <1>1, <3>1, <3>2, WritesNeverRequeue DEF NeverRequeued
    <3>4. QED
      BY <1>4, <3>3
  <2>4. QED
    BY <2>1, <2>2, <2>3
<1>5. ASSUME NEW e \in wakes' PROVE exec[e].state # "absent" /\ exec'[e].state # "absent"
  <2>1. exec[e].state # "absent"
    BY <1>1, <1>5 DEF HeadsChosen, Oldest, Queued, QueueOrdered
  <2>2. QED
    BY <1>2, <1>3, <2>1 DEF NeverRequeued
<1>6. ASSUME NEW e \in wakes', NEW d \in Ids, d < e, exec'[e].state = "queued"
      PROVE  exec'[d].state # "queued"
  <2>1. exec[e].state = "queued" /\ e \in Ids
    BY <1>2, <1>3, <1>5, <1>6 DEF NeverRequeued
  <2>2. exec[d].state # "absent"
    BY <1>6, <2>1 DEF QueueOrdered
  <2>3. exec[d].state # "queued"
    <3>1. CASE e \in wakes
      BY <1>6, <2>1, <3>1 DEF QueueOrdered
    <3>2. CASE e \in Oldest(Queued)
      <4>1. \A x \in Queued : e <= x
        BY <3>2 DEF Oldest
      <4>2. e \in Int /\ d \in Int
        BY <2>1 DEF Ids
      <4>3. d \notin Queued
        BY <1>6, <4>1, <4>2
      <4>4. exec[d].state = "queued" => d \in store
        BY DEF StoreKeepsLive, Terminal
      <4>5. QED
        BY <4>3, <4>4 DEF Queued
    <3>3. QED
      BY <1>1, <1>6, <3>1, <3>2 DEF HeadsChosen
  <2>4. QED
    BY <1>3, <2>2, <2>3 DEF NeverRequeued
<1>7. QED
  BY <1>4, <1>5, <1>6 DEF QueueOrdered

(* Two dispatches take an execution out of the queue to run it. *)
LEMMA Starters ==
  ASSUME IInv, [Next]_vars, NEW e \in Ids,
         exec[e].state = "queued", exec'[e].state = "running"
  PROVE  e \in wakes \/ \E c \in Callers : calls[c] = [op |-> "dispatch", id |-> e]
<1>0. TypeOK /\ fiber[e] = "none" /\ exec[e] \in Execution
  BY DEF IInv, Sound, CoroutineMatchesState, TypeOK
<1>1. ASSUME NEW x \in Ids, NEW object, Save(x, object) PROVE x = e /\ object.state = "running"
  BY <1>0, <1>1, SaveSame
<1>2. ASSUME NEW x \in Ids, NEW code \in Codes, Fail(x, code) PROVE FALSE
  <2>1. x = e /\ Failed(exec[x], code).state = "running"
    BY <1>1, <1>2 DEF Fail
  <2>2. QED
    BY <1>0, <1>2, <2>1, FailedFields
<1>3. ASSUME exec' = exec PROVE FALSE
  BY <1>3
<1>4. ASSUME NEW x \in Ids, Step(x) PROVE FALSE
  <2>1. fiber[x] # "none"
    BY <1>4
    DEF Step, Started, InputPasses, InputBlocked, HandlerReturns, HandlerWaits, HandlerThrows,
        HandlerThrowsRetryable, InHandler, Parked, BackedOff, OutputPasses, OutputBlocked,
        ResumeFindsNoHandler, ResumeOutOfTime, ResumeRuns, HandlerFound
  <2>2. x # e
    BY <1>0, <2>1
  <2>3. Writes
    BY <1>4, StepWrites
  <2>4. \A object : ~Save(x, object)
    BY <1>1, <2>2
  <2>5. exec'[e] = exec[e]
    BY <1>0, <1>4, <2>2, <2>4
    DEF Step, Started, InputPasses, InputBlocked, HandlerReturns, HandlerWaits, HandlerThrows,
        HandlerThrowsRetryable, InHandler, Parked, BackedOff, OutputPasses, OutputBlocked,
        ResumeFindsNoHandler, ResumeOutOfTime, ResumeRuns, FailUnlessTerminal, Fail, FailRun,
        Complete, Return, ContinueAt, EnterWaiting, Move, Retry, objects, TypeOK
  <2>6. QED
    BY <2>5
<1>5. ASSUME NEW c \in Callers, Request(c) \/ Continue(c)
      PROVE  calls[c] = [op |-> "dispatch", id |-> e]
  <2>1. CASE Request(c) \/ PolicyDenies(c) \/ ReplayTriggers(c)
    BY <1>3, <2>1 DEF Request, Trigger, Resume, Replay, PolicyDenies, ReplayTriggers, objects
  <2>2. ASSUME NEW x \in Ids, Create(c, x) PROVE FALSE
    BY <1>0, <2>2, CreatedFields
  <2>3. CASE ResumeCommits(c)
    <3>1. calls[c].id \in Ids
      BY <1>0, <2>3 DEF TypeOK, ResumeCommits, Call, Idle
    <3>2. exec[calls[c].id].state = "waiting" => calls[c].id = e
      BY <1>1, <2>3, <3>1 DEF ResumeCommits
    <3>3. QED
      BY <1>3, <2>3, <3>2 DEF ResumeCommits, objects
  <2>4. CASE DispatchNew(c)
    <3>1. calls[c] \in [op : {"dispatch", "resume", "replay"}, id : Ids] /\ calls[c].op = "dispatch"
      BY <1>0, <2>4 DEF TypeOK, DispatchNew, Call, Idle
    <3>2. calls[c] = [op |-> "dispatch", id |-> calls[c].id] /\ calls[c].id \in Ids
      BY <3>1
    <3>3. Save(calls[c].id, Moved(exec[calls[c].id], "running"))
      BY <1>3, <2>4 DEF DispatchNew, Start, Move, objects
    <3>4. calls[c].id = e
      BY <1>1, <3>2, <3>3
    <3>5. QED
      BY <3>2, <3>4
  <2>5. QED
    BY <1>5, <2>1, <2>2, <2>3, <2>4 DEF Continue
<1>6. ASSUME NEW x \in Ids, DispatchQueued(x) PROVE e \in wakes
  <2>1. Save(x, Moved(exec[x], "running"))
    BY <1>3, <1>6 DEF DispatchQueued, Start, Move, objects
  <2>2. QED
    BY <1>1, <1>6, <2>1 DEF DispatchQueued
<1>7. ASSUME NEW x \in Ids, TimerFires(x) PROVE FALSE
  <2>1. ASSUME RetryFires(x) PROVE FALSE
    <3>1. exec[x].state = "retrying" => x = e
      BY <1>1, <2>1 DEF RetryFires, Move
    <3>2. QED
      BY <1>3, <2>1, <3>1 DEF RetryFires, objects
  <2>2. ASSUME TimeoutFires(x) \/ WaitTimeoutFires(x) PROVE FALSE
    BY <1>2, <1>3, <2>2 DEF TimeoutFires, WaitTimeoutFires, objects, Codes
  <2>3. QED
    BY <1>7, <2>1, <2>2 DEF TimerFires
<1>8. ASSUME NEW x \in Ids, Cancel(x) \/ Delete(x) PROVE FALSE
  BY <1>2, <1>3, <1>8 DEF Cancel, Delete, Codes
<1>9. ASSUME DrainTimeout PROVE FALSE
  <2>1. exec'[e] = exec[e] \/ exec'[e] = Failed(exec[e], "SHUTDOWN")
    BY <1>9 DEF DrainTimeout
  <2>2. QED
    BY <1>0, <2>1, FailedFields DEF Codes
<1>10. ASSUME \/ \E f \in Flows : Unregister(f) \/ Register(f)
              \/ Shutdown \/ Drained \/ Stop \/ UNCHANGED vars
       PROVE  FALSE
  BY <1>3, <1>10 DEF Unregister, Register, Shutdown, Drained, Stop, vars, objects
<1>11. QED
  BY <1>4, <1>5, <1>6, <1>7, <1>8, <1>9, <1>10 DEF Next

(* The queue is first in, first out: an execution that starts while an older   *)
(* one stays queued is started by the trigger call that created it.          *)
THEOREM QueueInOrder == Spec => OnlyTriggersOvertake
<1>1. Init => QueueOrdered
  <2>1. ASSUME Init, NEW e \in Ids PROVE exec[e].state = "absent"
    BY <2>1 DEF Init, Unborn, NewExecution
  <2>2. QED
    BY <2>1 DEF Init, QueueOrdered
<1>2. Init => StoreBorn
  BY DEF Init, StoreBorn
<1>3. IInv /\ StoreBorn /\ [Next]_vars => StoreBorn'
  BY NextWrites, StoreBornNext DEF IInv
<1>4. IInv /\ StoreBorn /\ StoreKeepsLive /\ QueueOrdered /\ [Next]_vars => QueueOrdered'
  BY QueueOrderedNext
<1>5. Spec => []QueueOrdered
  BY <1>1, <1>2, <1>3, <1>4, Invariance, LiveKept, PTL DEF Spec
<1>6. IInv /\ QueueOrdered /\ [Next]_vars =>
        [\A e, d \in Ids : Overtakes(e, d) =>
           \E c \in Callers : calls[c] = [op |-> "dispatch", id |-> e]]_vars
  <2> SUFFICES ASSUME IInv, QueueOrdered, [Next]_vars, NEW e \in Ids, NEW d \in Ids, Overtakes(e, d)
               PROVE  \E c \in Callers : calls[c] = [op |-> "dispatch", id |-> e]
    OBVIOUS
  <2>1. e \notin wakes
    BY DEF Overtakes, QueueOrdered
  <2>2. QED
    BY <2>1, Starters DEF Overtakes
<1>7. QED
  BY <1>5, <1>6, Invariance, PTL DEF Spec, OnlyTriggersOvertake
=============================================================================
