------------------------------ MODULE CronProofs ------------------------------
(***************************************************************************)
(* The cron scheduler's safety, for any number of flows and any cron       *)
(* expression, as long as no flow is registered again while a tick of its  *)
(* old schedule is suspended, which would leave it two timers.  The        *)
(* invariant is stated flow by flow: what drives it (Driver), when it      *)
(* fires (Punctual), and that it does not overlap itself (Serial).         *)
(***************************************************************************)
EXTENDS CronScheduler, FiniteSetTheorems, TLAPS

Timer == [kind : {"tick", "recheck"}, at : Nat]
Tick  == [flow : Flows, slot : Nat, stage : Stages, stale : BOOLEAN]
ExecStates == {"absent", "active", "waiting", "resumed", "ended"}

Shape ==
  /\ now \in Nat
  /\ schedules \subseteq Flows
  /\ next \in [Flows -> Nat]
  /\ timers \in [Flows -> SUBSET Timer]
  /\ timerHandle \in [Flows -> Timer]
  /\ ticks \subseteq Tick
  /\ exec \in [Flows -> [Slots -> ExecStates]]
  /\ shuttingDown \in BOOLEAN
  /\ shuttingDown = TRUE => schedules = {}

(* A flow has at most the timer its entry refers to, or one tick; a schedule *)
(* has one of them, and only a schedule has a timer.                       *)
Driver(f) ==
  /\ timers[f] \subseteq {timerHandle[f]}
  /\ \A t, u \in TicksOf(f) : t = u
  /\ TicksOf(f) = {} \/ timers[f] = {}
  /\ f \in schedules => TicksOf(f) # {} \/ timers[f] # {}
  /\ f \notin schedules => timers[f] = {}

(* The tick timer is set to the fire time; ticks and executions are of fire  *)
(* times that have come.                                                   *)
Punctual(f) ==
  /\ \A timer \in timers[f] : timer.kind = "tick" => timer.at = next[f]
  /\ \A t \in TicksOf(f) : t.slot <= now
  /\ \A s \in Slots : exec[f][s] # "absent" => s <= now

(* Nothing is active while a tick asks the policy engine, *)
Serial(f) ==
  /\ \A t \in TicksOf(f) : t.stage = "policy" => \A s \in Slots : exec[f][s] # "active"
  /\ \A r, s \in Slots : exec[f][r] = "active" /\ exec[f][s] = "active" => r = s

Good(f) == Driver(f) /\ Punctual(f) /\ Serial(f)

IInv == Shape /\ \A f \in Flows : Good(f)

(***************************************************************************)
(* Helpers                                                                 *)
(***************************************************************************)

LEMMA NextRunType == ASSUME NEW t \in Nat PROVE NextRun(t) \in Nat
<1>1. t \div Period \in Nat
  BY PeriodAssumption
<1>2. t \div Period + 1 \in Nat
  BY <1>1
<1> QED
  BY <1>2, PeriodAssumption DEF NextRun

LEMMA TimerForType ==
  ASSUME Shape, NEW time \in Nat
  PROVE  /\ TimerFor(time) \in Timer
         /\ TimerFor(time).kind = "tick" => TimerFor(time).at = time
<1>1. now + RearmInterval \in Nat
  BY DelayAssumption DEF Shape
<1> QED
  BY <1>1 DEF TimerFor, Timer

(* A flow a step leaves alone stays good while time does not go back. *)
LEMMA LeftAlone ==
  ASSUME NEW f \in Flows, Shape, Good(f), now' \in Nat, now <= now',
         f \in schedules' <=> f \in schedules,
         timers'[f] = timers[f], timerHandle'[f] = timerHandle[f], next'[f] = next[f],
         TicksOf(f)' = TicksOf(f), exec'[f] = exec[f]
  PROVE  Good(f)'
<1> USE DEF Good
<1>1. Driver(f)'
  BY DEF Driver
<1>2. Punctual(f)'
  <2>1. \A t \in TicksOf(f) : t.slot \in Nat
    BY DEF TicksOf, Shape, Tick
  <2>2. \A s \in Slots : s \in Int
    BY DEF Slots
  <2> QED
    BY <2>1, <2>2 DEF Punctual, Shape
<1>3. Serial(f)'
  BY DEF Serial
<1> QED
  BY <1>1, <1>2, <1>3

(* Arming a flow that no other timer and no tick drives *)
LEMMA ArmGood ==
  ASSUME Shape, NEW f \in Flows, NEW time \in Nat, Good(f),
         ArmTimer(f, time, {}), TicksOf(f)' = {}, f \in schedules',
         UNCHANGED <<now, exec>>
  PROVE  Good(f)'
<1>1. /\ timers'[f] = {TimerFor(time)}
      /\ timerHandle'[f] = TimerFor(time)
      /\ next'[f] = time
  BY DEF ArmTimer, Shape
<1>2. Driver(f)'
  BY <1>1 DEF Driver
<1>3. Punctual(f)'
  BY <1>1, TimerForType DEF Good, Punctual
<1>4. Serial(f)'
  BY DEF Good, Serial
<1> QED
  BY <1>2, <1>3, <1>4 DEF Good

LEMMA ArmShape ==
  ASSUME Shape, NEW f \in Flows, NEW time \in Nat, NEW others \in SUBSET Timer,
         ArmTimer(f, time, others)
  PROVE  /\ next' \in [Flows -> Nat]
         /\ timers' \in [Flows -> SUBSET Timer]
         /\ timerHandle' \in [Flows -> Timer]
         /\ \A g \in Flows \ {f} : /\ next'[g] = next[g]
                                   /\ timers'[g] = timers[g]
                                   /\ timerHandle'[g] = timerHandle[g]
BY TimerForType DEF ArmTimer, Shape

(* Marking ticks as stale changes nothing the invariant speaks of. *)
LEMMA StaleTick ==
  ASSUME NEW t \in Tick, NEW f
  PROVE  /\ Stale(t, f) \in Tick
         /\ Stale(t, f).flow = t.flow
         /\ Stale(t, f).slot = t.slot
         /\ Stale(t, f).stage = t.stage
         /\ t.flow # f => Stale(t, f) = t
BY DEF Stale, Tick

(***************************************************************************)
(* Registration, clock and shutdown                                        *)
(***************************************************************************)

LEMMA ClockGood ==
  ASSUME IInv, Clock
  PROVE  IInv'
<1> USE DEF IInv
<1>1. now' \in Nat /\ now <= now' /\ UNCHANGED <<entries, ticks, exec, shuttingDown>>
  BY DEF Clock, Shape
<1>2. Shape'
  BY <1>1 DEF Shape, entries
<1>3. \A f \in Flows : Good(f)'
  BY <1>1, LeftAlone DEF entries, TicksOf
<1> QED
  BY <1>2, <1>3

LEMMA AddGood ==
  ASSUME ReaddDuringTick = FALSE, IInv, NEW f \in Flows, AddSchedule(f)
  PROVE  IInv'
<1> USE DEF IInv
<1>1. /\ timers[f] = {}
      /\ TicksOf(f) = {}
      /\ NextRun(now) \in Nat
  BY NextRunType DEF AddSchedule, Good, Driver, TicksOf, Shape
<1>2. /\ ArmTimer(f, NextRun(now), {})
      /\ schedules' = schedules \cup {f}
      /\ UNCHANGED <<now, ticks, exec, shuttingDown>>
      /\ shuttingDown = FALSE
  BY <1>1 DEF AddSchedule, Shape
<1>3. Shape'
  BY <1>1, <1>2, ArmShape DEF Shape
<1>4. Good(f)'
  BY <1>1, <1>2, ArmGood DEF TicksOf
<1>5. ASSUME NEW g \in Flows, g # f
      PROVE  Good(g)'
  <2>1. /\ next'[g] = next[g]
        /\ timers'[g] = timers[g]
        /\ timerHandle'[g] = timerHandle[g]
    BY <1>1, <1>2, <1>5, ArmShape
  <2>2. /\ g \in schedules' <=> g \in schedules
        /\ now' \in Nat /\ now <= now'
        /\ TicksOf(g)' = TicksOf(g)
        /\ exec'[g] = exec[g]
    BY <1>2, <1>5 DEF TicksOf, Shape
  <2> QED
    BY <2>1, <2>2, LeftAlone
<1> QED
  BY <1>3, <1>4, <1>5

(* A flow that loses its schedule keeps at most a stale tick. *)
LEMMA RemovedGood ==
  ASSUME Shape, NEW f \in Flows, Good(f), UNCHANGED <<now, next, timerHandle, exec>>,
         timers'[f] = timers[f] \ {timerHandle[f]},
         f \notin schedules',
         \A u, v \in TicksOf(f)' : u = v,
         \A u \in TicksOf(f)' : \E t \in TicksOf(f) : u.slot = t.slot /\ u.stage = t.stage
  PROVE  Good(f)'
<1> USE DEF Good
<1>1. Driver(f)'
  BY DEF Driver
<1>2. Punctual(f)'
  BY <1>1 DEF Punctual, Driver
<1>3. Serial(f)'
  BY DEF Serial
<1> QED
  BY <1>1, <1>2, <1>3

LEMMA StaleShape ==
  ASSUME Shape, NEW gone,
         ticks' = {Stale(t, gone) : t \in ticks} \/ ticks' = {Stale(t, t.flow) : t \in ticks}
  PROVE  ticks' \subseteq Tick
BY StaleTick DEF Shape

LEMMA RemoveGood ==
  ASSUME IInv, NEW f \in Flows, RemoveSchedule(f)
  PROVE  IInv'
<1> USE DEF IInv
<1>1. /\ schedules' = schedules \ {f}
      /\ timers' = [timers EXCEPT ![f] = @ \ {timerHandle[f]}]
      /\ ticks' = {Stale(t, f) : t \in ticks}
      /\ UNCHANGED <<now, next, timerHandle, exec, shuttingDown>>
  BY DEF RemoveSchedule
<1>2. Shape'
  <2>1. ticks' \subseteq Tick
    BY <1>1, StaleShape
  <2> QED
    BY <1>1, <2>1 DEF Shape
<1>3. \A u \in ticks' : \E t \in ticks :
        /\ u = Stale(t, f)
        /\ u.flow = t.flow /\ u.slot = t.slot /\ u.stage = t.stage
        /\ t.flow # f => u = t
  BY <1>1, StaleTick DEF Shape
<1>4. Good(f)'
  <2>1. \A u, v \in TicksOf(f)' : u = v
    BY <1>3 DEF TicksOf, Good, Driver
  <2>2. \A u \in TicksOf(f)' : \E t \in TicksOf(f) : u.slot = t.slot /\ u.stage = t.stage
    BY <1>3 DEF TicksOf
  <2>3. timers'[f] = timers[f] \ {timerHandle[f]} /\ f \notin schedules'
    BY <1>1 DEF Shape
  <2> QED
    BY <1>1, <2>1, <2>2, <2>3, RemovedGood
<1>5. ASSUME NEW g \in Flows, g # f
      PROVE  Good(g)'
  <2>1. TicksOf(g)' \subseteq TicksOf(g)
    BY <1>3, <1>5 DEF TicksOf
  <2>2. TicksOf(g) \subseteq TicksOf(g)'
    <3> SUFFICES ASSUME NEW t \in ticks, t.flow = g
                 PROVE  t \in ticks'
      BY DEF TicksOf
    <3>1. Stale(t, f) = t
      BY <1>5, StaleTick DEF Shape
    <3> QED
      BY <1>1, <3>1
  <2>3. TicksOf(g)' = TicksOf(g)
    BY <2>1, <2>2
  <2>4. /\ g \in schedules' <=> g \in schedules
        /\ now' \in Nat /\ now <= now'
        /\ timers'[g] = timers[g] /\ timerHandle'[g] = timerHandle[g]
        /\ next'[g] = next[g] /\ exec'[g] = exec[g]
    BY <1>1, <1>5 DEF Shape
  <2> QED
    BY <2>3, <2>4, LeftAlone
<1> QED
  BY <1>2, <1>4, <1>5

LEMMA ShutdownGood ==
  ASSUME IInv, Shutdown
  PROVE  IInv'
<1> USE DEF IInv
<1>1. /\ schedules' = {}
      /\ timers' = [f \in Flows |-> IF f \in schedules THEN timers[f] \ {timerHandle[f]}
                                                       ELSE timers[f]]
      /\ ticks' = {Stale(t, t.flow) : t \in ticks}
      /\ UNCHANGED <<now, next, timerHandle, exec>>
      /\ shuttingDown' = TRUE
  BY DEF Shutdown
<1>2. Shape'
  <2>1. ticks' \subseteq Tick
    BY <1>1, StaleShape
  <2> QED
    BY <1>1, <2>1 DEF Shape
<1>3. \A u \in ticks' : \E t \in ticks :
        /\ u = Stale(t, t.flow)
        /\ u.flow = t.flow /\ u.slot = t.slot /\ u.stage = t.stage
  BY <1>1, StaleTick DEF Shape
<1>4. ASSUME NEW f \in Flows
      PROVE  Good(f)'
  <2>1. \A u, v \in TicksOf(f)' : u = v
    BY <1>3 DEF TicksOf, Good, Driver
  <2>2. \A u \in TicksOf(f)' : \E t \in TicksOf(f) : u.slot = t.slot /\ u.stage = t.stage
    BY <1>3 DEF TicksOf
  <2>3. timers'[f] = timers[f] \ {timerHandle[f]} /\ f \notin schedules'
    BY <1>1 DEF Good, Driver
  <2> QED
    BY <1>1, <2>1, <2>2, <2>3, RemovedGood
<1> QED
  BY <1>2, <1>4

(***************************************************************************)
(* Timers                                                                  *)
(***************************************************************************)

LEMMA RecheckGood ==
  ASSUME IInv, NEW f \in Flows, NEW timer \in timers[f], Recheck(f, timer)
  PROVE  IInv'
<1> USE DEF IInv
<1>1. /\ timers[f] \ {timer} = {}
      /\ TicksOf(f) = {}
      /\ f \in schedules
      /\ shuttingDown = FALSE
  BY DEF Good, Driver, Shape
<1>2. NextRun(now) \in Nat
  BY NextRunType DEF Shape
<1>3. ArmTimer(f, NextRun(now), {}) /\ UNCHANGED <<now, schedules, ticks, exec, shuttingDown>>
  BY <1>1 DEF Recheck
<1>4. Shape'
  BY <1>2, <1>3, ArmShape DEF Shape
<1>5. Good(f)'
  BY <1>1, <1>2, <1>3, ArmGood DEF TicksOf
<1>6. ASSUME NEW g \in Flows, g # f
      PROVE  Good(g)'
  <2>1. /\ next'[g] = next[g]
        /\ timers'[g] = timers[g]
        /\ timerHandle'[g] = timerHandle[g]
    BY <1>2, <1>3, <1>6, ArmShape
  <2>2. /\ g \in schedules' <=> g \in schedules
        /\ now' \in Nat /\ now <= now'
        /\ TicksOf(g)' = TicksOf(g) /\ exec'[g] = exec[g]
    BY <1>3 DEF TicksOf, Shape
  <2> QED
    BY <2>1, <2>2, LeftAlone
<1> QED
  BY <1>4, <1>5, <1>6

LEMMA FireGood ==
  ASSUME IInv, NEW f \in Flows, NEW timer \in timers[f], Fire(f, timer)
  PROVE  IInv'
<1> USE DEF IInv
<1> DEFINE t == [flow |-> f, slot |-> next[f], stage |-> "checking", stale |-> FALSE]
<1>1. /\ timers[f] \ {timer} = {}
      /\ TicksOf(f) = {}
      /\ f \in schedules
      /\ shuttingDown = FALSE
  BY DEF Good, Driver, Shape
<1>2. /\ timers' = [timers EXCEPT ![f] = @ \ {timer}]
      /\ ticks' = ticks \cup {t}
      /\ UNCHANGED <<now, schedules, next, timerHandle, exec, shuttingDown>>
  BY <1>1 DEF Fire, Spend
<1>3. t \in Tick /\ t.flow = f /\ t.slot = next[f] /\ t.stage = "checking"
  BY DEF Tick, Shape, Stages
<1>4. next[f] <= now
  BY DEF Fire, Due, Good, Punctual
<1> HIDE DEF t
<1>5. Shape'
  BY <1>2, <1>3 DEF Shape
<1>6. Good(f)'
  <2>1. timers'[f] = {}
    BY <1>1, <1>2 DEF Shape
  <2>2. TicksOf(f)' = {t}
    BY <1>1, <1>2, <1>3 DEF TicksOf
  <2>3. Driver(f)'
    BY <2>1, <2>2 DEF Driver
  <2>4. Punctual(f)'
    BY <1>2, <1>3, <1>4, <2>1, <2>2 DEF Punctual, Good
  <2>5. Serial(f)'
    BY <1>2, <1>3, <2>2 DEF Serial, Good
  <2> QED
    BY <2>3, <2>4, <2>5 DEF Good
<1>7. ASSUME NEW g \in Flows, g # f
      PROVE  Good(g)'
  <2>1. TicksOf(g)' = TicksOf(g) /\ timers'[g] = timers[g]
    BY <1>2, <1>3, <1>7 DEF TicksOf, Shape
  <2>2. /\ g \in schedules' <=> g \in schedules
        /\ now' \in Nat /\ now <= now'
        /\ timerHandle'[g] = timerHandle[g]
        /\ next'[g] = next[g] /\ exec'[g] = exec[g]
    BY <1>2 DEF Shape
  <2> QED
    BY <2>1, <2>2, LeftAlone
<1> QED
  BY <1>5, <1>6, <1>7

(***************************************************************************)
(* Ticks                                                                   *)
(***************************************************************************)

(* A tick that ends leaves its flow to the next timer, if it still has a     *)
(* schedule.                                                               *)
LEMMA EndGood ==
  ASSUME IInv, NEW t \in ticks, End(t), UNCHANGED exec
  PROVE  IInv'
<1> USE DEF IInv
<1> DEFINE f == t.flow
<1>1. t \in Tick /\ f \in Flows /\ TicksOf(f) = {t} /\ timers[f] = {}
  <2>1. t \in Tick /\ f \in Flows
    BY DEF Shape, Tick
  <2>2. t \in TicksOf(f) /\ Good(f)
    BY <2>1 DEF TicksOf
  <2> QED
    BY <2>1, <2>2 DEF Good, Driver
<1>2. ticks' = ticks \ {t} /\ UNCHANGED <<now, schedules, shuttingDown, exec>>
  BY DEF End
<1>3. TicksOf(f)' = {}
  BY <1>1, <1>2 DEF TicksOf
<1>4. \A g \in Flows \ {f} : TicksOf(g)' = TicksOf(g)
  BY <1>1, <1>2 DEF TicksOf
<1>5. NextRun(next[f]) \in Nat
  BY <1>1, NextRunType DEF Shape
<1>6. CASE f \in schedules
  <2>1. shuttingDown = FALSE
    BY <1>6 DEF Shape
  <2>2. ArmTimer(f, NextRun(next[f]), {})
    BY <1>1, <1>6, <2>1 DEF End, CalculateNextAndRearm
  <2>3. Shape'
    BY <1>1, <1>2, <1>5, <2>2, ArmShape DEF Shape
  <2>4. Good(f)'
    BY <1>1, <1>2, <1>3, <1>5, <1>6, <2>2, ArmGood
  <2>5. ASSUME NEW g \in Flows, g # f
        PROVE  Good(g)'
    <3>1. /\ next'[g] = next[g]
          /\ timers'[g] = timers[g]
          /\ timerHandle'[g] = timerHandle[g]
      BY <1>1, <1>5, <2>2, <2>5, ArmShape
    <3>2. /\ g \in schedules' <=> g \in schedules
          /\ now' \in Nat /\ now <= now'
          /\ TicksOf(g)' = TicksOf(g) /\ exec'[g] = exec[g]
      BY <1>2, <1>4, <2>5 DEF Shape
    <3> QED
      BY <3>1, <3>2, LeftAlone
  <2> QED
    BY <2>3, <2>4, <2>5
<1>7. CASE f \notin schedules
  <2>1. UNCHANGED <<next, timers, timerHandle>>
    BY <1>7 DEF End, CalculateNextAndRearm
  <2>2. Shape'
    BY <1>2, <2>1 DEF Shape
  <2>3. Good(f)'
    <3>1. Driver(f)'
      BY <1>1, <1>2, <1>3, <1>7, <2>1 DEF Driver
    <3>2. Punctual(f)' /\ Serial(f)'
      BY <1>1, <1>2, <1>3, <2>1 DEF Good, Punctual, Serial
    <3> QED
      BY <3>1, <3>2 DEF Good
  <2>4. ASSUME NEW g \in Flows, g # f
        PROVE  Good(g)'
    <3>1. /\ g \in schedules' <=> g \in schedules
          /\ now' \in Nat /\ now <= now'
          /\ next'[g] = next[g] /\ timers'[g] = timers[g] /\ timerHandle'[g] = timerHandle[g]
          /\ TicksOf(g)' = TicksOf(g) /\ exec'[g] = exec[g]
      BY <1>2, <1>4, <2>1, <2>4 DEF Shape
    <3> QED
      BY <3>1, LeftAlone
  <2> QED
    BY <2>2, <2>3, <2>4
<1> QED
  BY <1>6, <1>7

(* A tick that goes on stays the only one of its flow.                       *)
LEMMA GotoKeeps ==
  ASSUME IInv, NEW t \in ticks, NEW stage \in Stages, Goto(t, stage)
  PROVE  /\ t.flow \in Flows
         /\ TicksOf(t.flow) = {t}
         /\ TicksOf(t.flow)' = {[t EXCEPT !.stage = stage]}
         /\ [t EXCEPT !.stage = stage].slot = t.slot
         /\ [t EXCEPT !.stage = stage].stage = stage
         /\ \A g \in Flows \ {t.flow} : TicksOf(g)' = TicksOf(g)
         /\ ticks' \subseteq Tick
         /\ UNCHANGED <<now, schedules, next, timers, timerHandle, shuttingDown>>
<1> USE DEF IInv
<1> DEFINE u == [t EXCEPT !.stage = stage]
<1>1. t \in Tick /\ t.flow \in Flows
  BY DEF Shape, Tick
<1>2. TicksOf(t.flow) = {t}
  <2>1. t \in TicksOf(t.flow) /\ Good(t.flow)
    BY <1>1 DEF TicksOf
  <2> QED
    BY <2>1 DEF Good, Driver
<1>3. u \in Tick /\ u.flow = t.flow /\ u.slot = t.slot /\ u.stage = stage
  BY <1>1 DEF Tick
<1>4. /\ ticks' = (ticks \ {t}) \cup {u}
      /\ UNCHANGED <<now, schedules, next, timers, timerHandle, shuttingDown>>
  BY DEF Goto, entries
<1> HIDE DEF u
<1>5. TicksOf(t.flow)' = {u}
  BY <1>2, <1>3, <1>4 DEF TicksOf
<1>6. \A g \in Flows \ {t.flow} : TicksOf(g)' = TicksOf(g)
  BY <1>3, <1>4 DEF TicksOf
<1>7. ticks' \subseteq Tick
  BY <1>3, <1>4 DEF Shape
<1> QED
  BY <1>1, <1>2, <1>3, <1>4, <1>5, <1>6, <1>7 DEF u

LEMMA AsksGood ==
  ASSUME IInv, NEW t \in ticks, TriggerAsks(t)
  PROVE  IInv'
<1> USE DEF IInv
<1>1. PICK stage \in Stages : Goto(t, stage)
  BY DEF TriggerAsks, Stages
<1>2. UNCHANGED exec /\ \A s \in Slots : exec[t.flow][s] # "active"
  BY DEF TriggerAsks, Blocking
<1>3. /\ t.flow \in Flows
      /\ TicksOf(t.flow) = {t}
      /\ TicksOf(t.flow)' = {[t EXCEPT !.stage = stage]}
      /\ [t EXCEPT !.stage = stage].slot = t.slot
      /\ \A g \in Flows \ {t.flow} : TicksOf(g)' = TicksOf(g)
      /\ ticks' \subseteq Tick
      /\ UNCHANGED <<now, schedules, next, timers, timerHandle, shuttingDown>>
  BY <1>1, GotoKeeps
<1>4. Shape'
  BY <1>2, <1>3 DEF Shape
<1>5. Driver(t.flow)'
  BY <1>3 DEF Good, Driver
<1>6. Punctual(t.flow)'
  BY <1>2, <1>3 DEF Good, Punctual
<1>7. Serial(t.flow)'
  BY <1>2, <1>3 DEF Serial
<1>8. ASSUME NEW g \in Flows, g # t.flow
      PROVE  Good(g)'
  <2>1. /\ g \in schedules' <=> g \in schedules
        /\ now' \in Nat /\ now <= now'
        /\ next'[g] = next[g] /\ timers'[g] = timers[g] /\ timerHandle'[g] = timerHandle[g]
        /\ TicksOf(g)' = TicksOf(g) /\ exec'[g] = exec[g]
    BY <1>2, <1>3, <1>8 DEF Shape
  <2> QED
    BY <2>1, LeftAlone
<1> QED
  BY <1>4, <1>5, <1>6, <1>7, <1>8 DEF Good

LEMMA BecomesShape ==
  ASSUME Shape, NEW f \in Flows, NEW s, NEW state \in ExecStates, Becomes(f, s, state)
  PROVE  /\ exec' \in [Flows -> [Slots -> ExecStates]]
         /\ \A r \in Slots : exec'[f][r] = IF r = s THEN state ELSE exec[f][r]
         /\ \A g \in Flows \ {f} : exec'[g] = exec[g]
<1>1. exec[f] \in [Slots -> ExecStates]
  BY DEF Shape
<1>2. [exec[f] EXCEPT ![s] = state] \in [Slots -> ExecStates]
  BY <1>1
<1>3. exec'[f] = [exec[f] EXCEPT ![s] = state]
  BY DEF Becomes, Shape
<1> QED
  BY <1>1, <1>2, <1>3 DEF Becomes, Shape

LEMMA AllowsGood ==
  ASSUME IInv, NEW t \in ticks, PolicyAllows(t)
  PROVE  IInv'
<1> USE DEF IInv
<1>1. Goto(t, "answered") /\ Becomes(t.flow, t.slot, "active") /\ t.stage = "policy"
  BY DEF PolicyAllows, At
<1>2. "answered" \in Stages /\ "active" \in ExecStates
  BY DEF Stages, ExecStates
<1>3. /\ t.flow \in Flows
      /\ TicksOf(t.flow) = {t}
      /\ TicksOf(t.flow)' = {[t EXCEPT !.stage = "answered"]}
      /\ [t EXCEPT !.stage = "answered"].slot = t.slot
      /\ [t EXCEPT !.stage = "answered"].stage = "answered"
      /\ \A g \in Flows \ {t.flow} : TicksOf(g)' = TicksOf(g)
      /\ ticks' \subseteq Tick
      /\ UNCHANGED <<now, schedules, next, timers, timerHandle, shuttingDown>>
  BY <1>1, <1>2, GotoKeeps
<1>4. /\ exec' \in [Flows -> [Slots -> ExecStates]]
      /\ \A r \in Slots : exec'[t.flow][r] = IF r = t.slot THEN "active" ELSE exec[t.flow][r]
      /\ \A g \in Flows \ {t.flow} : exec'[g] = exec[g]
  BY <1>1, <1>2, <1>3, BecomesShape
<1>5. t.slot <= now /\ \A s \in Slots : exec[t.flow][s] # "active"
  BY <1>1, <1>3 DEF Good, Punctual, Serial
<1>6. Shape'
  BY <1>3, <1>4 DEF Shape
<1>7. Driver(t.flow)'
  BY <1>3 DEF Good, Driver
<1>8. Punctual(t.flow)'
  BY <1>3, <1>4, <1>5 DEF Good, Punctual
<1>9. Serial(t.flow)'
  BY <1>3, <1>4, <1>5 DEF Serial
<1>10. ASSUME NEW g \in Flows, g # t.flow
       PROVE  Good(g)'
  <2>1. /\ g \in schedules' <=> g \in schedules
        /\ now' \in Nat /\ now <= now'
        /\ next'[g] = next[g] /\ timers'[g] = timers[g] /\ timerHandle'[g] = timerHandle[g]
        /\ TicksOf(g)' = TicksOf(g) /\ exec'[g] = exec[g]
    BY <1>3, <1>4, <1>10 DEF Shape
  <2> QED
    BY <2>1, LeftAlone
<1> QED
  BY <1>6, <1>7, <1>8, <1>9, <1>10 DEF Good

(***************************************************************************)
(* Executions, and the inductive invariant                                 *)
(***************************************************************************)

LEMMA MovesOnGood ==
  ASSUME IInv, NEW f \in Flows, NEW s \in Slots, NEW state \in {"waiting", "resumed", "ended"},
         exec[f][s] # "absent", Becomes(f, s, state),
         UNCHANGED <<now, entries, ticks, shuttingDown>>
  PROVE  IInv'
<1> USE DEF IInv
<1>1. state \in ExecStates /\ state # "active"
  BY DEF ExecStates
<1>2. /\ exec' \in [Flows -> [Slots -> ExecStates]]
      /\ \A r \in Slots : exec'[f][r] = IF r = s THEN state ELSE exec[f][r]
      /\ \A g \in Flows \ {f} : exec'[g] = exec[g]
  BY <1>1, BecomesShape
<1>3. /\ UNCHANGED <<now, schedules, next, timers, timerHandle, ticks, shuttingDown>>
      /\ \A g \in Flows : TicksOf(g)' = TicksOf(g)
  BY DEF entries, TicksOf
<1>4. Shape'
  BY <1>2, <1>3 DEF Shape
<1>5. Driver(f)'
  BY <1>3 DEF Good, Driver
<1>6. Punctual(f)'
  BY <1>2, <1>3 DEF Good, Punctual
<1>7. Serial(f)'
  BY <1>1, <1>2, <1>3 DEF Good, Serial
<1>8. ASSUME NEW g \in Flows, g # f
      PROVE  Good(g)'
  <2>1. /\ g \in schedules' <=> g \in schedules
        /\ now' \in Nat /\ now <= now'
        /\ next'[g] = next[g] /\ timers'[g] = timers[g] /\ timerHandle'[g] = timerHandle[g]
        /\ TicksOf(g)' = TicksOf(g) /\ exec'[g] = exec[g]
    BY <1>2, <1>3, <1>8 DEF Shape
  <2> QED
    BY <2>1, LeftAlone
<1> QED
  BY <1>4, <1>5, <1>6, <1>7, <1>8 DEF Good

LEMMA Initially == Init => IInv
<1> SUFFICES ASSUME Init
             PROVE  IInv
  OBVIOUS
<1>1. Shape
  BY DEF Init, Shape, Timer, Unarmed, ExecStates, Tick
<1>2. ASSUME NEW f \in Flows
      PROVE  Good(f)
  <2>1. TicksOf(f) = {} /\ timers[f] = {} /\ f \notin schedules
    BY DEF Init, TicksOf
  <2>2. \A s \in Slots : exec[f][s] = "absent"
    BY DEF Init
  <2> QED
    BY <2>1, <2>2 DEF Good, Driver, Punctual, Serial
<1> QED
  BY <1>1, <1>2 DEF IInv

LEMMA Inductive ==
  ASSUME ReaddDuringTick = FALSE
  PROVE  IInv /\ [Next]_vars => IInv'
<1> SUFFICES ASSUME IInv, [Next]_vars
             PROVE  IInv'
  OBVIOUS
<1>1. CASE Clock
  BY <1>1, ClockGood
<1>2. ASSUME NEW f \in Flows, AddSchedule(f)
      PROVE  IInv'
  BY <1>2, AddGood
<1>3. ASSUME NEW f \in Flows, RemoveSchedule(f)
      PROVE  IInv'
  BY <1>3, RemoveGood
<1>4. ASSUME NEW f \in Flows, TimerStep(f)
      PROVE  IInv'
  BY <1>4, FireGood, RecheckGood DEF TimerStep
<1>5. CASE Shutdown
  BY <1>5, ShutdownGood
<1>6. ASSUME NEW t \in ticks, TickStep(t)
      PROVE  IInv'
  <2>1. CASE Skip(t) \/ TriggerFails(t) \/ PolicyDenies(t) \/ Answered(t)
    <3>1. End(t) /\ UNCHANGED exec
      BY <2>1 DEF Skip, TriggerFails, PolicyDenies, Answered
    <3> QED
      BY <3>1, EndGood
  <2>2. CASE TriggerAsks(t)
    BY <2>2, AsksGood
  <2>3. CASE PolicyAllows(t)
    BY <2>3, AllowsGood
  <2> QED
    BY <1>6, <2>1, <2>2, <2>3 DEF TickStep
<1>7. ASSUME NEW f \in Flows, NEW s \in Slots, Ends(f, s) \/ Waits(f, s) \/ Resumes(f, s)
      PROVE  IInv'
  <2>1. PICK state \in {"waiting", "resumed", "ended"} : Becomes(f, s, state)
    BY <1>7 DEF Ends, Waits, Resumes
  <2>2. exec[f][s] # "absent" /\ UNCHANGED <<now, entries, ticks, shuttingDown>>
    BY <1>7 DEF Ends, Waits, Resumes
  <2> QED
    BY <2>1, <2>2, MovesOnGood
<1>8. CASE UNCHANGED vars
  <2>1. /\ UNCHANGED <<now, schedules, next, timers, timerHandle, ticks, exec, shuttingDown>>
        /\ \A g \in Flows : TicksOf(g)' = TicksOf(g)
    BY <1>8 DEF vars, entries, TicksOf
  <2> QED
    BY <2>1 DEF IInv, Shape, Good, Driver, Punctual, Serial
<1> QED
  BY <1>1, <1>2, <1>3, <1>4, <1>5, <1>6, <1>7, <1>8 DEF Next

(***************************************************************************)
(* Theorems                                                                *)
(***************************************************************************)

THEOREM Invariance ==
  ASSUME ReaddDuringTick = FALSE
  PROVE  Spec => []IInv
BY Initially, Inductive, PTL DEF Spec

(* A schedule is driven by exactly one timer or tick, whatever its ticks run *)
(* into, and a flow without one by no timer.                               *)
THEOREM AlwaysDriven ==
  ASSUME ReaddDuringTick = FALSE
  PROVE  Spec => []OneTimer
<1>1. IInv => OneTimer
  <2> SUFFICES ASSUME IInv, NEW f \in Flows
               PROVE  /\ f \in schedules => Cardinality(timers[f]) + Cardinality(TicksOf(f)) = 1
                      /\ f \notin schedules => timers[f] = {} /\ Cardinality(TicksOf(f)) <= 1
    BY DEF OneTimer
  <2>1. Driver(f)
    BY DEF IInv, Good
  <2>2. TicksOf(f) = {} \/ \E t : TicksOf(f) = {t}
    <3>1. CASE TicksOf(f) # {}
      <4>1. PICK t : t \in TicksOf(f)
        BY <3>1
      <4> QED
        BY <2>1, <4>1 DEF Driver
    <3> QED
      BY <3>1
  <2>3. timers[f] = {} \/ \E timer : timers[f] = {timer}
    BY <2>1 DEF Driver
  <2>4. Cardinality({}) = 0 /\ \A x : Cardinality({x}) = 1
    BY FS_EmptySet, FS_Singleton
  <2>5. Cardinality(TicksOf(f)) = IF TicksOf(f) = {} THEN 0 ELSE 1
    BY <2>2, <2>4
  <2>6. Cardinality(timers[f]) = IF timers[f] = {} THEN 0 ELSE 1
    BY <2>3, <2>4
  <2> QED
    BY <2>1, <2>5, <2>6 DEF Driver
<1> QED
  BY <1>1, Invariance, PTL

(* No execution is created for a fire time that has not come.                *)
THEOREM AlwaysOnTime ==
  ASSUME ReaddDuringTick = FALSE
  PROVE  Spec => []OnTime
<1>1. IInv => OnTime
  BY DEF IInv, Good, Punctual, OnTime
<1> QED
  BY <1>1, Invariance, PTL

(* A scheduled flow never overlaps itself, resumed executions aside.         *)
THEOREM NeverOverlaps ==
  ASSUME ReaddDuringTick = FALSE
  PROVE  Spec => []NoOverlap
<1>1. IInv => NoOverlap
  BY DEF IInv, Good, Serial, NoOverlap
<1> QED
  BY <1>1, Invariance, PTL
=============================================================================
