----------------------------- MODULE Discernment ------------------------------
(***************************************************************************)
(* Discernment cycles (class DiscernmentEngine): a cycle collects signals  *)
(* flow by flow, asks a model, stores a report with its recommendations,   *)
(* and in enforce mode arms a timer for each one that may be executed.     *)
(* Operators decide on recommendations, flows come and go, reports are     *)
(* pruned and the engine shuts down meanwhile.                             *)
(***************************************************************************)
EXTENDS Objectives, Heuristics

CONSTANTS
  Autonomies,      \* the modes config.autonomy is taken from
  Grace,           \* config.gracePeriod
  Tools,           \* tools that are called
  Stores,          \* what the stores may hold of a flow
  CustomSignals,   \* what the custom heuristics may find
  Answers,         \* sequences of [target, action] the model may recommend
  MaxCycles,       \* bound on cycles that store a report
  MaxRecs,         \* bound on recommendations
  MaxEntries,      \* bound on entries of the accumulator
  MaxTime          \* bound on the clock

ASSUME TimesAssumption   == Lookback \in Nat /\ Grace \in Nat /\ MaxTime \in Nat
ASSUME CyclesAssumption  == MaxCycles \in Nat
ASSUME AnswersAssumption ==
  Answers \subseteq Seq([target : Flows, action : {"keep", "optimize", "retire"}])

VARIABLES
  autonomy,        \* config.autonomy
  engine,          \* "ready", "shutting_down", "stopped"
  cycle,           \* the cycle under way: [at, flows, profiles, served, found]
  reports,         \* per report ever made [at, stored]; its signals are left out
  recs,            \* recommendations ever made [target, action, status, report]
  recommendations, \* those in the map
  pendingActions,  \* recommendations in pendingActions
  timers,          \* recommendations whose enforce timer is armed, by due time
  lastAdvise,      \* lastAdviseCycleId
  entries,         \* of the accumulator
  now,
  renewed          \* history: recommendations whose flow was registered since

books == <<reports, recs, recommendations, lastAdvise>>
armed == <<pendingActions, timers>>
vars  == <<registries, autonomy, engine, cycle, books, armed, entries, now, renewed>>

Actions     == {"keep", "optimize", "retire"}
Enforceable == {"optimize", "retire"}
Statuses    == {"pending", "acknowledged", "dismissed", "overridden", "executed"}

NoCycle == [at |-> "none"]

Init ==
  /\ InitObjectives
  /\ autonomy \in Autonomies
  /\ engine = "ready"
  /\ cycle = NoCycle
  /\ reports = << >> /\ recs = << >>
  /\ recommendations = {} /\ pendingActions = {}
  /\ timers = << >>
  /\ lastAdvise = 0
  /\ entries = {}
  /\ now = 0
  /\ renewed = {}

(***************************************************************************)
(* Flows, objectives and events                                            *)
(***************************************************************************)

Registers ==
  /\ engine = "ready"
  /\ \E f \in Flows, p \in objectives \cup {"none"}, optIn \in BOOLEAN :
       \E s \in SUBSET (objectives \ {p}) :
         /\ Register(f, p, s, optIn)
         /\ renewed' = renewed \cup {i \in DOMAIN recs : recs[i].target = f}
  /\ UNCHANGED <<autonomy, engine, cycle, books, armed, entries, now>>

ChangesRegistries ==
  /\ \/ engine = "ready" /\ \E f \in Flows : Unregister(f)
     \/ \E o \in Names : AddObjective(o) \/ RemoveObjective(o)
  /\ UNCHANGED <<autonomy, engine, cycle, books, armed, entries, now, renewed>>

(* The accumulator hears an event *)
Hears ==
  /\ engine # "stopped" /\ Cardinality(entries) < MaxEntries
  /\ entries' \in {entries \cup {x} : x \in {ToolCall(t, now) : t \in Tools}
                                           \cup {Violation(f, now) : f \in Flows}}
  /\ UNCHANGED <<registries, autonomy, engine, cycle, books, armed, now, renewed>>

Tick ==
  /\ now < MaxTime
  /\ now' = now + 1
  /\ UNCHANGED <<registries, autonomy, engine, cycle, books, armed, entries, renewed>>

(***************************************************************************)
(* A cycle                                                                 *)
(***************************************************************************)

PendingIn(report) == {i \in recommendations : recs[i].report = report /\ recs[i].status = "pending"}

(* mutant of Gate: it is not looked at *)
NoGate == TRUE

(* ADVISE_GATE_PENDING: the last advice has not been decided on *)
Gate == autonomy = "advise" => PendingIn(lastAdvise) = {}

(* runCycle, up to the first flow whose executions are awaited *)
RunCycle ==
  /\ cycle = NoCycle
  /\ Gate
  /\ Len(reports) < MaxCycles
  /\ cycle' = [at |-> "collecting", flows |-> flowRegistry, profiles |-> << >>, served |-> Served]
  /\ UNCHANGED <<registries, autonomy, engine, books, armed, entries, now, renewed>>

(* The next flow is collected *)
Collect ==
  /\ cycle.at = "collecting" /\ cycle.flows # {}
  /\ \E f \in cycle.flows, stores \in Stores :
       cycle' = [cycle EXCEPT !.flows = @ \ {f},
                              !.profiles = [g \in DOMAIN @ \cup {f} |->
                                 IF g = f THEN Profile(f, stores, entries, now) ELSE @[g]]]
  /\ UNCHANGED <<registries, autonomy, engine, books, armed, entries, now, renewed>>

(* A store throws: so does the cycle *)
CollectFails ==
  /\ cycle.at = "collecting" /\ cycle.flows # {}
  /\ cycle' = NoCycle
  /\ UNCHANGED <<registries, autonomy, engine, books, armed, entries, now, renewed>>

(* armEnforceTimers: which of the recommendations new are armed *)
ToArm(all, new) ==
  IF autonomy # "enforce" THEN {}
  ELSE {i \in new : all[i].action \in Enforceable /\ all[i].target \in enforceable}

(* The report is stored with its recommendations, and the cycle ends *)
Store(made) ==
  LET report == Len(reports) + 1
      all    == recs \o [i \in DOMAIN made |->
                          [target |-> made[i].target, action |-> made[i].action,
                           status |-> "pending", report |-> report, at |-> now]]
      new    == DOMAIN all \ DOMAIN recs
      arm    == ToArm(all, new)
  IN /\ reports' = Append(reports, [at |-> now, stored |-> TRUE])
     /\ recs' = all
     /\ recommendations' = recommendations \cup new
     /\ lastAdvise' = IF autonomy = "advise" /\ made # << >> THEN report ELSE lastAdvise
     /\ pendingActions' = pendingActions \cup arm
     /\ timers' = [i \in DOMAIN timers \cup arm |-> IF i \in arm THEN now + Grace ELSE timers[i]]
     /\ cycle' = NoCycle
     /\ UNCHANGED <<registries, autonomy, engine, entries, now, renewed>>

(* The profiles are analysed; when observing the cycle ends without a model *)
Analyzes ==
  /\ cycle.at = "collecting" /\ cycle.flows = {}
  /\ \E custom \in CustomSignals :
       IF autonomy = "observe" THEN Store(<< >>)
       ELSE /\ cycle' = [at |-> "asking", found |-> Analyze(cycle.profiles, cycle.served, custom)]
            /\ UNCHANGED <<registries, autonomy, engine, books, armed, entries, now, renewed>>

(* The model's answer is parsed: an answer that cannot be parsed, like an     *)
(* empty one, makes no recommendation.                                     *)
ModelAnswers ==
  /\ cycle.at = "asking"
  /\ \E made \in Answers : Len(recs) + Len(made) <= MaxRecs /\ Store(made)

ModelFails ==
  /\ cycle.at = "asking"
  /\ Store(<< >>)

(***************************************************************************)
(* Recommendations                                                         *)
(***************************************************************************)

Decide(i, status) ==
  /\ i \in recommendations /\ recs[i].status = "pending"
  /\ recs' = [recs EXCEPT ![i].status = status]

Without(i) ==
  /\ pendingActions' = pendingActions \ {i}
  /\ timers' = [j \in DOMAIN timers \ {i} |-> timers[j]]

(* acknowledgeRecommendation, dismissRecommendation: an armed timer stays *)
AcknowledgeOrDismiss ==
  /\ \E i \in recommendations, s \in {"acknowledged", "dismissed"} : Decide(i, s)
  /\ UNCHANGED <<registries, autonomy, engine, cycle, reports, recommendations, lastAdvise,
                 armed, entries, now, renewed>>

(* overrideRecommendation cancels the timer first, even when it then throws *)
OverrideRecommendation ==
  /\ \E i \in DOMAIN recs :
       /\ i \in pendingActions \/ (i \in recommendations /\ recs[i].status = "pending")
       /\ Without(i)
       /\ \/ Decide(i, "overridden")
          \/ /\ i \notin recommendations \/ recs[i].status # "pending"
             /\ UNCHANGED recs
  /\ UNCHANGED <<registries, autonomy, engine, cycle, reports, recommendations, lastAdvise,
                 entries, now, renewed>>

(* mutant of MayExecute: the status is not looked at *)
MayExecuteAny(i) == recs[i].status # "executed"

MayExecute(i) == recs[i].status = "pending"

(* The timer of a recommendation fires: executeEnforceAction.  It holds the  *)
(* recommendation itself, which may have been pruned from the map.         *)
TimerFires(i) ==
  /\ i \in DOMAIN timers /\ timers[i] <= now
  /\ timers' = [j \in DOMAIN timers \ {i} |-> timers[j]]
  /\ LET rec   == recs[i]
         works == rec.action = "optimize" \/ (engine = "ready" /\ rec.target \in flowRegistry)
     IN IF ~MayExecute(i) THEN UNCHANGED <<registries, recs, pendingActions>>
        ELSE /\ pendingActions' = pendingActions \ {i}
             /\ recs' = IF works THEN [recs EXCEPT ![i].status = "executed"] ELSE recs
             /\ IF works /\ rec.action = "retire" THEN Unregister(rec.target)
                ELSE UNCHANGED registries
  /\ UNCHANGED <<autonomy, engine, cycle, reports, recommendations, lastAdvise, entries, now, renewed>>

(* pruneReports: reports older than four lookback periods, with what they     *)
(* recommended; their timers stay.                                         *)
PruneReports ==
  LET old == {r \in DOMAIN reports : reports[r].stored /\ reports[r].at < now - 4 * Lookback}
  IN /\ old # {}
     /\ reports' = [r \in DOMAIN reports |-> [reports[r] EXCEPT !.stored = @ /\ r \notin old]]
     /\ recommendations' = {i \in recommendations : recs[i].report \notin old}
     /\ UNCHANGED <<registries, autonomy, engine, cycle, recs, lastAdvise, armed, entries, now, renewed>>

(***************************************************************************)
(* Shutdown of the engine, and at its end that of discernment              *)
(***************************************************************************)

Shutdown ==
  /\ engine = "ready"
  /\ engine' = "shutting_down"
  /\ UNCHANGED <<registries, autonomy, cycle, books, armed, entries, now, renewed>>

(* mutant of ShutsDown: the map is emptied without clearing the timers *)
ForgetsTimers ==
  /\ engine = "shutting_down"
  /\ engine' = "stopped"
  /\ pendingActions' = {}
  /\ UNCHANGED <<registries, autonomy, cycle, books, timers, entries, now, renewed>>

ShutsDown ==
  /\ engine = "shutting_down"
  /\ engine' = "stopped"
  /\ pendingActions' = {} /\ timers' = << >>
  /\ UNCHANGED <<registries, autonomy, cycle, books, entries, now, renewed>>

Next ==
  \/ Registers \/ ChangesRegistries \/ Hears \/ Tick
  \/ RunCycle \/ Collect \/ CollectFails \/ Analyzes \/ ModelAnswers \/ ModelFails
  \/ AcknowledgeOrDismiss \/ OverrideRecommendation
  \/ \E i \in DOMAIN recs : TimerFires(i)
  \/ PruneReports \/ Shutdown \/ ShutsDown

Spec == Init /\ [][Next]_vars
=============================================================================
