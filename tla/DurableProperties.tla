--------------------------- MODULE DurableProperties --------------------------
(***************************************************************************)
(* What the persistent store and the engine over it keep, across crashes,  *)
(* and what the copies it hands out break.                                 *)
(***************************************************************************)
EXTENDS DurableEngine, TLC

(* Fibers and callers may be exchanged. *)
Interchangeable == Permutations(Fibers) \cup Permutations(Callers)

Calls ==
  [op : {"idle"}, on : {0}]
  \cup [op : {"create"}, on : {0}, key : Keys \cup {0}, next : {"idle", "mark"}]
  \cup [op : {"dispatch"}, on : Ids, next : {"idle", "mark"}]
  \cup [op : {"mark", "resume", "continue", "cancel"}, on : Ids]

(* Types: the tables, the fibers, the callers. *)
TypeOK ==
  /\ rows \in [Ids -> Row \cup {Absent}]
  /\ fiber \in [Fibers -> [on : Ids \cup {0}, at : DOMAIN CopyState]]
  /\ active \in Nat
  /\ retryTimer \in [Ids -> SUBSET Fibers] /\ waitTimer \in [Ids -> SUBSET Fibers]
  /\ calls \in [Callers -> Calls]
  /\ keyOf \in Seq(Keys \cup Ids) /\ Len(keyOf) <= MaxExecs
  /\ status \in {"up", "draining", "drained", "down"}
  /\ restarts \in 0 .. MaxRestarts
  /\ ignored \subseteq Ids /\ stale \subseteq Ids

(* sqlite-state-store.ts:208 INSERT OR REPLACE: whatever the triggers that     *)
(* race, the copies written late and the restarts, the table has one row for *)
(* an idempotency key, and each row has the key its execution was made with. *)
OneRowPerKey ==
  \A e \in Ids : Has(e) => /\ ByKey(rows[e].key) = {e}
                           /\ rows[e].key = keyOf[e]

(* engine.ts:1443-1648, sqlite-state-store.ts:155: an execution that reads as *)
(* running or retrying has a coroutine or a timer that will move it on, after *)
(* a crash and a recovery too, but for what the callback chose to ignore.   *)
RowsDriven ==
  status # "down" =>
    \A e \in Ids : StateOf(e) \in {"running", "retrying"} =>
      \/ e \in ignored
      \/ \E f \in Fibers : fiber[f].on = e /\ CopyState[fiber[f].at] = StateOf(e)

(* execution.ts VALID_TRANSITIONS: while no copy of an execution is behind its *)
(* row, the row moves only as the life cycle allows; it vanishes only once   *)
(* terminal, or for another execution with its key; recovery alone may take  *)
(* it back.                                                                *)
RowMove(e) ==
  \/ rows'[e] = rows[e]
  \/ Has(e) /\ Has(e)' /\ CanMove(StateOf(e), StateOf(e)')
  \/ ~Has(e) /\ Has(e)' /\ StateOf(e)' = InitialState
  \/ /\ Has(e) /\ ~Has(e)'
     /\ \/ StateOf(e) \in Terminal
        \/ \E d \in Ids : rows'[d] # Absent /\ rows'[d].key = rows[e].key
  \/ status = "down" /\ StateOf(e) \in Orphaned /\ StateOf(e)' \in {"failed", "queued"}
RowSteps == [][\A e \in Ids : e \in stale \/ RowMove(e)]_vars
=============================================================================
