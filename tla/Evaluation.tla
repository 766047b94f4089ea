------------------------------- MODULE Evaluation -----------------------------
(***************************************************************************)
(* Evaluations of executions that completed (class EvaluationEngine,       *)
(* runner and scorer) and flags for human review (class FlagManager).  An  *)
(* evaluator scores some dimensions in tenths; labels, feedback and events *)
(* are left out.                                                           *)
(***************************************************************************)
EXTENDS Integers, Sequences, FiniteSetsExt

CONSTANTS
  Executions,     \* that completed
  Names,          \* names of evaluators
  Mediums,        \* thresholds.medium an evaluator may be added with
  Applies(_, _),  \* whether an evaluator is for the flow of an execution
  Scorings,       \* what an evaluator may answer: functions from dimensions
  FlagThreshold,  \* config.autoFlagScoreThreshold, 0 for none
  MaxRecords,     \* MAX_EVAL_RECORDS
  MaxAdds         \* bound on evaluators added

VARIABLES
  evaluators,     \* thresholds.medium of the evaluators registered
  evaluations,    \* per execution its run: [at, pending, results]
  evalRecords,    \* sequence of records [execution, low], oldest first
  flags,          \* per execution the status of its flag
  adds

evaluationVars == <<evaluators, evaluations, evalRecords, flags, adds>>

DefaultMedium == 5
Unscored      == << >>
Statuses      == {"none", "pending", "reviewed", "resolved"}

InitEvaluation ==
  /\ evaluators = Unscored
  /\ evaluations = [e \in Executions |-> [at |-> "none", pending |-> {}, results |-> Unscored]]
  /\ evalRecords = << >>
  /\ flags = [e \in Executions |-> "none"]
  /\ adds = 0

AddEvaluator(n, medium) ==
  /\ n \notin DOMAIN evaluators /\ adds < MaxAdds
  /\ evaluators' = [m \in DOMAIN evaluators \cup {n} |-> IF m = n THEN medium ELSE evaluators[m]]
  /\ adds' = adds + 1
  /\ UNCHANGED <<evaluations, evalRecords, flags>>

RemoveEvaluator(n) ==
  /\ n \in DOMAIN evaluators
  /\ evaluators' = [m \in DOMAIN evaluators \ {n} |-> evaluators[m]]
  /\ UNCHANGED <<evaluations, evalRecords, flags, adds>>

(* runPostExecutionEval, runEvaluation up to the await of the evaluators *)
RunEvaluation(e) ==
  /\ evaluations[e].at = "none"
  /\ LET applicable == {n \in DOMAIN evaluators : Applies(n, e)}
     IN evaluations' = [evaluations EXCEPT ![e] =
          [at |-> IF applicable = {} THEN "ended" ELSE "running",
           pending |-> applicable, results |-> Unscored]]
  /\ UNCHANGED <<evaluators, evalRecords, flags, adds>>

Scored(e, n, scoring) ==
  [evaluations[e] EXCEPT !.pending = @ \ {n},
     !.results = [m \in DOMAIN @ \cup {n} |-> IF m = n THEN scoring ELSE @[m]]]

(* An evaluator answers, throws or times out *)
EvaluatorAnswers(e, n) ==
  /\ n \in evaluations[e].pending
  /\ \/ \E scoring \in Scorings : evaluations' = [evaluations EXCEPT ![e] = Scored(e, n, scoring)]
     \/ evaluations' = [evaluations EXCEPT ![e].pending = @ \ {n}]
  /\ UNCHANGED <<evaluators, evalRecords, flags, adds>>

(***************************************************************************)
(* Scores                                                                  *)
(***************************************************************************)
Clamped(score) == IF score < 0 THEN 0 ELSE IF score > 10 THEN 10 ELSE score

SumOver(f) == MapThenSumSet(LAMBDA x : f[x], DOMAIN f)

(* The average of an evaluator's own scores, which are not clamped here,       *)
(* against its threshold of now, or the default one when it is gone.       *)
MediumOf(n) == IF n \in DOMAIN evaluators THEN evaluators[n] ELSE DefaultMedium
Low(results) ==
  {n \in DOMAIN results : SumOver(results[n]) < MediumOf(n) * Cardinality(DOMAIN results[n])
                          \/ results[n] = Unscored}

(* aggregateScores: some dimension averages below the threshold *)
BelowThreshold(results) ==
  \E d \in UNION {DOMAIN results[n] : n \in DOMAIN results} :
    LET scorers == {n \in DOMAIN results : d \in DOMAIN results[n]}
    IN MapThenSumSet(LAMBDA n : Clamped(results[n][d]), scorers) < FlagThreshold * Cardinality(scorers)

(***************************************************************************)
(* Records and flags                                                       *)
(***************************************************************************)

(* mutant of CreateFlag: a flag that is there is set back *)
SetsFlag(e) == flags' = [flags EXCEPT ![e] = "pending"]

(* createFlag; callers catch ALREADY_FLAGGED *)
CreateFlag(e) == flags' = [flags EXCEPT ![e] = IF @ = "none" THEN "pending" ELSE @]

(* The record is stored, the oldest one evicted when there are too many *)
Stored(record) ==
  evalRecords' = Append(IF Len(evalRecords) >= MaxRecords THEN Tail(evalRecords) ELSE evalRecords,
                        record)

(* runEvaluation, when every evaluator has settled *)
EndsEvaluation(e) ==
  /\ evaluations[e].at = "running" /\ evaluations[e].pending = {}
  /\ LET results == evaluations[e].results
     IN /\ Stored([execution |-> e, low |-> Low(results)])
        /\ IF Low(results) # {} \/ BelowThreshold(results) THEN CreateFlag(e) ELSE UNCHANGED flags
  /\ evaluations' = [evaluations EXCEPT ![e].at = "ended", ![e].results = Unscored]
  /\ UNCHANGED <<evaluators, adds>>

(* flagExecution: any id may be flagged, whatever became of the execution *)
FlagExecution(e) ==
  /\ flags[e] = "none"
  /\ flags' = [flags EXCEPT ![e] = "pending"]
  /\ UNCHANGED <<evaluators, evaluations, evalRecords, adds>>

(* updateFlag, for the transitions that are valid *)
UpdateFlag(e) ==
  /\ \/ flags[e] = "pending" /\ flags' = [flags EXCEPT ![e] = "reviewed"]
     \/ flags[e] = "reviewed" /\ flags' = [flags EXCEPT ![e] = "resolved"]
  /\ UNCHANGED <<evaluators, evaluations, evalRecords, adds>>
=============================================================================
