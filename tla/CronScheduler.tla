---------------------------- MODULE CronScheduler -----------------------------
(***************************************************************************)
(* The cron scheduler (class CronScheduler) as the engine wires it: a flow *)
(* registered with a schedule has a timer; its tick asks whether an        *)
(* execution of the flow is still active, triggers the flow, and arms the  *)
(* next timer.  A tick awaits the overlap check and the trigger: meanwhile *)
(* callers register and unregister, executions end and the engine shuts    *)
(* down.                                                                   *)
(*                                                                         *)
(* A cron expression matches the multiples of Period.  Timers fire at or   *)
(* after their time.  Executions are abstract; Engine.tla has their detail. *)
(***************************************************************************)
EXTENDS Integers, FiniteSets

CONSTANTS
  Flows,
  Period,            \* distance of the times a cron expression matches
  MaxDelay,          \* MAX_TIMEOUT_MS
  RearmInterval,     \* REARM_INTERVAL_MS
  MaxTime,           \* bound on the clock
  ReaddDuringTick    \* whether a flow is registered again while a tick of
                     \* its old schedule is suspended

ASSUME PeriodAssumption == Period \in Nat \ {0}
ASSUME DelayAssumption  == MaxDelay \in Nat /\ RearmInterval \in 1 .. MaxDelay
ASSUME TimeAssumption   == MaxTime \in Nat
ASSUME ReaddAssumption  == ReaddDuringTick \in BOOLEAN

(* croner's nextRun(t): the first match after t *)
NextRun(t) == Period * (t \div Period + 1)
Slots      == {s \in 1 .. MaxTime + Period : s % Period = 0}

VARIABLES
  now,
  schedules,      \* flows with an entry
  next,           \* nextFireTime of each entry
  timers,         \* armed timers of each flow: [kind, at]
  timerHandle,    \* the timer each entry refers to
  activeId,       \* activeExecutionId of each entry: its slot, 0 for null
  ticks,          \* suspended ticks: [flow, slot, stage, stale]; stale once
                  \* the entry they hold is no longer in the map
  exec,           \* scheduled executions: their state by flow and slot
  shuttingDown

entries == <<schedules, next, timers, timerHandle>>
vars    == <<now, entries, activeId, ticks, exec, shuttingDown>>

Unarmed == [kind |-> "tick", at |-> 0]

Init ==
  /\ now = 0
  /\ schedules = {}
  /\ next = [f \in Flows |-> 0]
  /\ timers = [f \in Flows |-> {}]
  /\ timerHandle = [f \in Flows |-> Unarmed]
  /\ activeId = [f \in Flows |-> 0]
  /\ ticks = {}
  /\ exec = [f \in Flows |-> [s \in Slots |-> "absent"]]
  /\ shuttingDown = FALSE

Clock ==
  /\ now < MaxTime
  /\ now' = now + 1
  /\ UNCHANGED <<entries, activeId, ticks, exec, shuttingDown>>

(* armTimer: beside the other timers the flow has, one for the fire time, or *)
(* one to look again when that is too far away for setTimeout              *)
TimerFor(time) ==
  IF time - now > MaxDelay THEN [kind |-> "recheck", at |-> now + RearmInterval]
                           ELSE [kind |-> "tick", at |-> time]

ArmTimer(f, time, others) ==
  /\ next' = [next EXCEPT ![f] = time]
  /\ timers' = [timers EXCEPT ![f] = others \cup {TimerFor(time)}]
  /\ timerHandle' = [timerHandle EXCEPT ![f] = TimerFor(time)]

(***************************************************************************)
(* Registration                                                            *)
(***************************************************************************)

(* register with a schedule: addSchedule of a flow that has none *)
AddSchedule(f) ==
  /\ ~shuttingDown
  /\ f \notin schedules
  /\ ReaddDuringTick \/ \A t \in ticks : t.flow # f
  /\ schedules' = schedules \cup {f}
  /\ ArmTimer(f, NextRun(now), timers[f])
  /\ activeId' = [activeId EXCEPT ![f] = 0]
  /\ UNCHANGED <<now, ticks, exec, shuttingDown>>

(* The suspended ticks hold an entry that is no longer in the map. *)
Stale(t, f) == IF t.flow = f THEN [t EXCEPT !.stale = TRUE] ELSE t

(* mutant of RemoveSchedule: the timer is not cleared *)
RemoveScheduleOnly(f) ==
  /\ ~shuttingDown
  /\ f \in schedules
  /\ schedules' = schedules \ {f}
  /\ ticks' = {Stale(t, f) : t \in ticks}
  /\ UNCHANGED <<now, next, timers, timerHandle, activeId, exec, shuttingDown>>

(* unregister: removeSchedule clears the one timer the entry refers to. *)
RemoveSchedule(f) ==
  /\ ~shuttingDown
  /\ f \in schedules
  /\ schedules' = schedules \ {f}
  /\ timers' = [timers EXCEPT ![f] = @ \ {timerHandle[f]}]
  /\ ticks' = {Stale(t, f) : t \in ticks}
  /\ UNCHANGED <<now, next, timerHandle, activeId, exec, shuttingDown>>

(* The engine's shutdown stops the scheduler in the same step. *)
Shutdown ==
  /\ ~shuttingDown
  /\ shuttingDown' = TRUE
  /\ timers' = [f \in Flows |-> IF f \in schedules THEN timers[f] \ {timerHandle[f]}
                                                   ELSE timers[f]]
  /\ schedules' = {}
  /\ ticks' = {Stale(t, t.flow) : t \in ticks}
  /\ UNCHANGED <<now, next, timerHandle, activeId, exec>>

(***************************************************************************)
(* Ticks                                                                   *)
(***************************************************************************)

Due(f, timer) == timer \in timers[f] /\ timer.at <= now
Spend(f, timer) == timers' = [timers EXCEPT ![f] = @ \ {timer}]

(* recheckAndRearm: compute the next fire time from now, and arm again. *)
Recheck(f, timer) ==
  /\ Due(f, timer)
  /\ timer.kind = "recheck"
  /\ IF shuttingDown \/ f \notin schedules
       THEN Spend(f, timer) /\ UNCHANGED <<next, timerHandle>>
       ELSE ArmTimer(f, NextRun(now), timers[f] \ {timer})
  /\ UNCHANGED <<now, schedules, activeId, ticks, exec, shuttingDown>>

(* onTick up to the await of the overlap check.  The tick takes the fire    *)
(* time the entry has now.                                                 *)
Fire(f, timer) ==
  /\ Due(f, timer)
  /\ timer.kind = "tick"
  /\ Spend(f, timer)
  /\ ticks' = IF shuttingDown \/ f \notin schedules THEN ticks
              ELSE ticks \cup {[flow |-> f, slot |-> next[f], stage |-> "checking",
                                stale |-> FALSE]}
  /\ UNCHANGED <<now, schedules, next, timerHandle, activeId, exec, shuttingDown>>

(* mutants of CalculateNextAndRearm: the timer is armed for the old fire    *)
(* time, or not at all                                                     *)
RearmStale(f) ==
  IF shuttingDown \/ f \notin schedules
    THEN UNCHANGED <<next, timers, timerHandle>>
    ELSE /\ next' = [next EXCEPT ![f] = NextRun(next[f])]
         /\ timers' = [timers EXCEPT ![f] = @ \cup {TimerFor(next[f])}]
         /\ timerHandle' = [timerHandle EXCEPT ![f] = TimerFor(next[f])]

RearmNever(f) == UNCHANGED <<next, timers, timerHandle>>

(* calculateNextAndRearm: the next fire time follows the previous one. *)
CalculateNextAndRearm(f) ==
  IF shuttingDown \/ f \notin schedules
    THEN UNCHANGED <<next, timers, timerHandle>>
    ELSE ArmTimer(f, NextRun(next[f]), timers[f])

(* A tick is over: it arms the next timer, whatever became of its trigger. *)
End(t) ==
  /\ CalculateNextAndRearm(t.flow)
  /\ ticks' = ticks \ {t}
  /\ UNCHANGED <<now, schedules, shuttingDown>>

Becomes(f, s, state) == exec' = [exec EXCEPT ![f] = [exec[f] EXCEPT ![s] = state]]

At(t, stage) == t \in ticks /\ t.stage = stage
Goto(t, stage) ==
  /\ ticks' = (ticks \ {t}) \cup {[t EXCEPT !.stage = stage]}
  /\ UNCHANGED <<now, entries, activeId, shuttingDown>>

(* mutant of Blocking: retrying and running executions are not looked for *)
BlockingNone(f) == {}

(* The overlap check finds executions that are queued, running or retrying. *)
Blocking(f) == {s \in Slots : exec[f][s] \in {"active", "resumed"}}

SetActive(t, s) == IF t.stale THEN UNCHANGED activeId
                   ELSE activeId' = [activeId EXCEPT ![t.flow] = s]

Skip(t) ==
  /\ At(t, "checking")
  /\ \E s \in Blocking(t.flow) : SetActive(t, s)
  /\ End(t)
  /\ UNCHANGED exec

(* No overlap: the trigger callback is called.  It throws once the engine    *)
(* shuts down or the flow is gone,                                         *)
TriggerFails(t) ==
  /\ At(t, "checking")
  /\ Blocking(t.flow) = {}
  /\ \/ shuttingDown
     \/ exec[t.flow][t.slot] = "absent" /\ t.flow \notin schedules
  /\ End(t)
  /\ UNCHANGED <<activeId, exec>>

(* finds the execution that has the key of this fire time, or asks the       *)
(* policy engine,                                                          *)
TriggerAsks(t) ==
  /\ At(t, "checking")
  /\ Blocking(t.flow) = {}
  /\ ~shuttingDown
  /\ \/ exec[t.flow][t.slot] # "absent" /\ Goto(t, "answered")
     \/ exec[t.flow][t.slot] = "absent" /\ t.flow \in schedules /\ Goto(t, "policy")
  /\ UNCHANGED exec

(* which denies the trigger                                                *)
PolicyDenies(t) ==
  /\ At(t, "policy")
  /\ End(t)
  /\ UNCHANGED <<activeId, exec>>

(* or allows it: the execution is created and dispatched.                  *)
PolicyAllows(t) ==
  /\ At(t, "policy")
  /\ Becomes(t.flow, t.slot, "active")
  /\ Goto(t, "answered")

(* The trigger has answered. *)
Answered(t) ==
  /\ At(t, "answered")
  /\ SetActive(t, t.slot)
  /\ End(t)
  /\ UNCHANGED exec

(***************************************************************************)
(* Executions                                                              *)
(***************************************************************************)

(* clearActiveExecution: the first entry that has the id *)
ClearActive(f, s) ==
  activeId' = IF f \in schedules /\ activeId[f] = s THEN [activeId EXCEPT ![f] = 0]
                                                   ELSE activeId

(* An execution ends or waits: execution:state_change is heard. *)
Ends(f, s) ==
  /\ exec[f][s] \in {"active", "waiting", "resumed"}
  /\ Becomes(f, s, "ended")
  /\ ClearActive(f, s)
  /\ UNCHANGED <<now, entries, ticks, shuttingDown>>

Waits(f, s) ==
  /\ exec[f][s] \in {"active", "resumed"}
  /\ Becomes(f, s, "waiting")
  /\ ClearActive(f, s)
  /\ UNCHANGED <<now, entries, ticks, shuttingDown>>

Resumes(f, s) ==
  /\ exec[f][s] = "waiting"
  /\ Becomes(f, s, "resumed")
  /\ UNCHANGED <<now, entries, activeId, ticks, shuttingDown>>

(***************************************************************************)
(* The specification                                                       *)
(***************************************************************************)

TickStep(t) ==
  \/ Skip(t) \/ TriggerFails(t) \/ TriggerAsks(t) \/ PolicyDenies(t)
  \/ PolicyAllows(t) \/ Answered(t)

TimerStep(f) == \E timer \in timers[f] : Fire(f, timer) \/ Recheck(f, timer)

Next ==
  \/ Clock
  \/ \E f \in Flows : AddSchedule(f) \/ RemoveSchedule(f) \/ TimerStep(f)
  \/ Shutdown
  \/ \E t \in ticks : TickStep(t)
  \/ \E f \in Flows, s \in Slots : Ends(f, s) \/ Waits(f, s) \/ Resumes(f, s)

Spec == Init /\ [][Next]_vars

(* Time passes, due timers fire and suspended ticks go on; callers and       *)
(* executions may do nothing.                                              *)
TickOf(f) == \E t \in ticks : t.flow = f /\ TickStep(t)

Fairness ==
  /\ WF_vars(Clock)
  /\ \A f \in Flows : WF_vars(TimerStep(f)) /\ WF_vars(TickOf(f))

FairSpec == Spec /\ Fairness

-------------------------------------------------------------------------------
(* What the scheduler keeps, whatever its ticks run into. *)

Stages == {"checking", "policy", "answered"}

TypeOK ==
  /\ now \in 0 .. MaxTime
  /\ schedules \subseteq Flows
  /\ next \in [Flows -> Nat]
  /\ timers \in [Flows -> SUBSET [kind : {"tick", "recheck"}, at : Nat]]
  /\ timerHandle \in [Flows -> [kind : {"tick", "recheck"}, at : Nat]]
  /\ activeId \in [Flows -> Slots \cup {0}]
  /\ ticks \subseteq [flow : Flows, slot : Slots, stage : Stages, stale : BOOLEAN]
  /\ exec \in [Flows -> [Slots -> {"absent", "active", "waiting", "resumed", "ended"}]]
  /\ shuttingDown \in BOOLEAN

TicksOf(f) == {t \in ticks : t.flow = f}

(* A schedule is always driven by exactly one timer or one suspended tick,   *)
(* whatever the tick ran into; a flow without a schedule has no timer, and *)
(* after shutdown nobody has.                                              *)
OneTimer ==
  \A f \in Flows :
    /\ f \in schedules => Cardinality(timers[f]) + Cardinality(TicksOf(f)) = 1
    /\ f \notin schedules => timers[f] = {} /\ Cardinality(TicksOf(f)) <= 1

(* No fire time is triggered before it has come. *)
OnTime == \A f \in Flows, s \in Slots : exec[f][s] # "absent" => s <= now

(* Two scheduled executions of a flow are active together only when one of   *)
(* them had waited and was resumed: of those that never waited at most one *)
(* is active.                                                              *)
NoOverlap ==
  \A f \in Flows : \A r, s \in Slots :
    exec[f][r] = "active" /\ exec[f][s] = "active" => r = s

(* As long as a flow stays scheduled its entry moves on from every fire time *)
(* that comes: no tick, failed, skipped or slow, leaves a schedule stopped. *)
KeepsTicking ==
  \A f \in Flows : \A s \in Slots \cap 1 .. MaxTime :
    (f \in schedules /\ next[f] = s) ~> (f \notin schedules \/ next[f] # s)
=============================================================================
