----------------------------- MODULE DurableStore -----------------------------
(***************************************************************************)
(* The persistent state store (class SQLiteStateStore): one row for each   *)
(* execution, read and written as copies, which outlives the process.      *)
(* Every call is one transaction that ends in the step it begins in.       *)
(***************************************************************************)
EXTENDS Lifecycle, Integers

CONSTANTS
  MaxExecs,      \* bound on the executions ever created
  Keys,          \* idempotency keys
  Answers        \* what onOrphanedExecution may answer

Ids == 1 .. MaxExecs

OrphanAnswers == {"fail", "requeue", "ignore"}

ASSUME MaxExecsAssumption == MaxExecs \in Nat
ASSUME AnswersAssumption  == Answers \subseteq OrphanAnswers /\ Answers # {}

(* The columns that matter; ids are given in the order of ts_queued.  A      *)
(* replay's key is one of its own: the id of its execution.                 *)
Row    == [state : States, key : Keys \cup Ids]
Absent == [state |-> "absent"]

Orphaned == {"running", "retrying", "queued"}

VARIABLE rows

Has(e)         == rows[e] # Absent
ByKey(k)       == {e \in Ids : Has(e) /\ rows[e].key = k}
(* get and list hand out copies of what is stored *)
StateOf(e)     == rows[e].state

InitStore == rows = [e \in Ids |-> Absent]

(* mutant of Put: a plain INSERT of the row, which leaves other rows alone *)
PutOnly(table, e, row) == [table EXCEPT ![e] = row]

(* INSERT OR REPLACE: a row of another execution with the same, unique, key  *)
(* is deleted.                                                             *)
Put(table, e, row) ==
  [d \in Ids |-> IF d = e THEN row
                 ELSE IF table[d] # Absent /\ table[d].key = row.key THEN Absent
                 ELSE table[d]]

(* mutant of Remove: whatever its state *)
RemoveAny(e) ==
  /\ Has(e)
  /\ rows' = [rows EXCEPT ![e] = Absent]

(* delete, and evictExpired for what has been terminal too long *)
Remove(e) ==
  /\ StateOf(e) \in Terminal
  /\ rows' = [rows EXCEPT ![e] = Absent]

(* mutant of Recovered: what was to be retried is overlooked *)
RecoveredRunning(answers) ==
  [e \in Ids |->
     IF rows[e].state \notin Orphaned \ {"retrying"} THEN rows[e]
     ELSE CASE answers[e] = "fail"    -> [rows[e] EXCEPT !.state = "failed"]
            [] answers[e] = "requeue" -> [rows[e] EXCEPT !.state = "queued"]
            [] answers[e] = "ignore"  -> rows[e]]

(* recoverOrphaned, when the store is opened: without a callback, or when it *)
(* throws, the answer is fail.                                             *)
Recovered(answers) ==
  [e \in Ids |->
     IF rows[e].state \notin Orphaned THEN rows[e]
     ELSE CASE answers[e] = "fail"    -> [rows[e] EXCEPT !.state = "failed"]
            [] answers[e] = "requeue" -> [rows[e] EXCEPT !.state = "queued"]
            [] answers[e] = "ignore"  -> rows[e]]
=============================================================================
