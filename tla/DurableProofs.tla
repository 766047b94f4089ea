----------------------------- MODULE DurableProofs -----------------------------
(***************************************************************************)
(* What the persistent store keeps, and what the engine over it keeps of   *)
(* it, for any number of executions, keys, copies, callers and restarts.   *)
(* The invariant has five parts: the rows and their keys, the copies held  *)
(* by fibers, by timers and by callers, the slots, what drives a row, and  *)
(* the history variable stale, which the action property needs.            *)
(***************************************************************************)
EXTENDS DurableProperties, FiniteSetTheorems, WellFoundedInduction, TLAPS

Created == 1 .. Len(keyOf)

(* The rows are of executions that were created, each with its own key.      *)
RowsSound ==
  /\ rows \in [Ids -> Row \cup {Absent}]
  /\ keyOf \in Seq(Keys \cup Ids) /\ Len(keyOf) <= MaxExecs
  /\ \A e \in Ids : Has(e) => e \in Created /\ rows[e].key = keyOf[e]
  /\ \A d, e \in Ids : Has(d) /\ Has(e) /\ rows[d].key = rows[e].key => d = e

Copy == [on : Ids \cup {0}, at : DOMAIN CopyState]

(* A copy is of an execution that was created. *)
Held(x) ==
  /\ x \in Copy
  /\ IF x.at = "none" THEN x.on = 0 ELSE x.on \in Created

Asked(x) ==
  /\ x \in Calls
  /\ x.op \notin {"idle", "create"} => x.on \in Created
  /\ x.op = "create" /\ x.next = "idle" => x.key \in Keys

(* An execution's timers are fibers with a copy of it, at the right place. *)
TimersSound ==
  /\ retryTimer \in [Ids -> SUBSET Fibers] /\ waitTimer \in [Ids -> SUBSET Fibers]
  /\ \A e \in Ids :
       /\ \A f \in retryTimer[e] : fiber[f] = [on |-> e, at |-> "retry"]
       /\ \A f \in waitTimer[e] : fiber[f] = [on |-> e, at |-> "waiting"]

FibersSound == fiber \in [Fibers -> Copy] /\ \A f \in Fibers : Held(fiber[f])
CallsSound  == calls \in [Callers -> Calls] /\ \A c \in Callers : Asked(calls[c])

(* The places of a coroutine that has a slot, which a cleared retry keeps    *)
Slotted == {"handler", "resumed", "backoff", "retry", "parked", "done"}
Holders == {f \in Fibers : fiber[f].at \in Slotted}

SlotsSound ==
  /\ active \in Nat
  /\ IsFiniteSet(Holders) /\ Cardinality(Holders) <= active

(* A process that is down holds nothing. *)
DownSound ==
  /\ status \in {"up", "draining", "drained", "down"}
  /\ restarts \in 0 .. MaxRestarts
  /\ ignored \subseteq Ids
  /\ status = "down" => /\ \A f \in Fibers : fiber[f] = NoFiber
                        /\ \A c \in Callers : calls[c] = Idle

(* Whatever is behind its row is known to be. *)
StaleSound == stale \subseteq Ids /\ \A e \in Ids : Behind(e) => e \in stale

CopiesSound == FibersSound /\ TimersSound /\ CallsSound

IInv == RowsSound /\ CopiesSound /\ SlotsSound /\ DownSound /\ StaleSound /\ RowsDriven

(***************************************************************************)
(* The operators                                                           *)
(***************************************************************************)

LEMMA IdsAreNumbers == Ids \subseteq Nat \ {0} /\ 0 \notin Ids
BY MaxExecsAssumption DEF Ids

LEMMA CreatedIds ==
  ASSUME RowsSound PROVE Created \subseteq Ids /\ Len(keyOf) \in Nat
BY MaxExecsAssumption DEF RowsSound, Created, Ids

(* A row is there when its state is one of the life cycle. *)
LEMMA RowThere ==
  ASSUME RowsSound, NEW e \in Ids
  PROVE  /\ Has(e) <=> rows[e] \in Row
         /\ Has(e) <=> StateOf(e) \in States
         /\ Has(e) <=> StateOf(e) # "absent"
<1>1. CASE rows[e] \in Row
  <2>1. rows[e].state \in States /\ rows[e].state # "absent"
    BY <1>1 DEF Row, States
  <2>2. Absent.state = "absent"
    BY DEF Absent
  <2> QED
    BY <1>1, <2>1, <2>2 DEF Has, StateOf
<1>2. CASE rows[e] = Absent
  <2>1. rows[e].state = "absent" /\ "absent" \notin States
    BY <1>2 DEF Absent, States
  <2>2. rows[e] \notin Row
    BY <2>1 DEF Row
  <2> QED
    BY <1>2, <2>1, <2>2 DEF Has, StateOf
<1> QED
  BY <1>1, <1>2 DEF RowsSound

LEMMA NewRow ==
  ASSUME NEW s \in States, NEW k \in Keys \cup Ids
  PROVE  LET r == [state |-> s, key |-> k]
         IN  r \in Row /\ r # Absent /\ r.state = s /\ r.key = k
<1> DEFINE r == [state |-> s, key |-> k]
<1>1. r \in Row /\ r.state = s /\ r.key = k
  BY DEF Row
<1>2. s # "absent" /\ Absent.state = "absent"
  BY DEF States, Absent
<1> QED
  BY <1>1, <1>2

(* A non-empty set of ids has a first one: the choice of dispatchQueued.     *)
LEMMA FirstExists ==
  ASSUME NEW S \in SUBSET Ids, S # {}
  PROVE  (CHOOSE e \in S : \A d \in S : e <= d) \in S
<1> DEFINE Before(e) == {d \in S : d < e}
           Heads     == {T \in SUBSET S : \E e \in S : T = Before(e)}
<1>1. IsFiniteSet(S)
  <2>1. IsFiniteSet(Ids)
    BY MaxExecsAssumption, FS_Interval DEF Ids
  <2> QED
    BY <2>1, FS_Subset
<1>2. IsWellFoundedOn(StrictSubsetOrdering(S), SUBSET S)
  BY <1>1, FS_FiniteSubsetsOfFinite, FS_StrictSubsetOrderingWellFounded
<1>3. Heads # {} /\ Heads \subseteq SUBSET S
  OBVIOUS
<1>4. PICK T \in Heads : \A U \in Heads : <<U, T>> \notin StrictSubsetOrdering(S)
  BY <1>2, <1>3, WFMin
<1>5. PICK e \in S : T = Before(e)
  BY <1>4
<1>6. ASSUME NEW d \in S, d < e PROVE FALSE
  <2>1. Before(d) \in Heads
    OBVIOUS
  <2>2. \A x \in S : x < d => x < e
    BY <1>6, IdsAreNumbers
  <2>3. Before(d) \subseteq T
    BY <1>5, <2>2
  <2>4. d \in T /\ d \notin Before(d)
    BY <1>5, <1>6, IdsAreNumbers
  <2> QED
    BY <2>1, <2>3, <2>4, <1>4, <1>5 DEF StrictSubsetOrdering
<1>7. \A d \in S : e <= d
  BY <1>6, IdsAreNumbers
<1> QED
  BY <1>7

(* What a fiber is after it freed a slot: nothing, or the copy of a row that *)
(* is queued, to be dispatched                                             *)
LEMMA AfterTerminalHeld ==
  ASSUME NEW table, NEW slots
  PROVE  LET x == AfterTerminal(table, slots)
         IN  \/ x = NoFiber
             \/ /\ x.at = "listed" /\ x = [on |-> x.on, at |-> "listed"]
                /\ x.on \in Ids /\ table[x.on].state = "queued"
<1> DEFINE queued == {e \in Ids : table[e].state = "queued"}
           first  == CHOOSE e \in queued : \A d \in queued : e <= d
<1>1. CASE queued # {}
  <2>1. first \in queued
    BY <1>1, FirstExists
  <2> QED
    BY <2>1 DEF AfterTerminal
<1>2. CASE queued = {}
  BY <1>2 DEF AfterTerminal
<1> QED
  BY <1>1, <1>2

(***************************************************************************)
(* The rows                                                                *)
(***************************************************************************)

(* The row of e is written; at most a row with its key makes place for it.   *)
Wrote(e, s) ==
  /\ rows'[e] \in Row /\ rows'[e].state = s
  /\ \A d \in Ids \ {e} :
       \/ rows'[d] = rows[d]
       \/ rows'[d] = Absent /\ Has(d) /\ rows[d].key = rows'[e].key

(* INSERT OR REPLACE of a row with the key of its execution *)
LEMMA PutSound ==
  ASSUME RowsSound, NEW e \in Ids, NEW s \in States, NEW k \in Keys \cup Ids,
         rows' = Put(rows, e, [state |-> s, key |-> k]),
         keyOf' \in Seq(Keys \cup Ids), Len(keyOf') <= MaxExecs,
         e \in 1 .. Len(keyOf'), keyOf'[e] = k,
         \A d \in Created : d # e => d \in 1 .. Len(keyOf') /\ keyOf'[d] = keyOf[d]
  PROVE  /\ RowsSound'
         /\ Wrote(e, s)
<1> DEFINE r == [state |-> s, key |-> k]
<1>1. r \in Row /\ r # Absent /\ r.state = s /\ r.key = k
  BY NewRow
<1>2. /\ rows' \in [Ids -> Row \cup {Absent}]
      /\ rows'[e] = r
  BY <1>1 DEF Put, RowsSound
<1>3. \A d \in Ids \ {e} :
        \/ rows'[d] = rows[d] /\ ~(Has(d) /\ rows[d].key = k)
        \/ rows'[d] = Absent /\ Has(d) /\ rows[d].key = k
  BY <1>1 DEF Put, RowsSound, Has
<1> HIDE DEF r
<1>4. ASSUME NEW d \in Ids, rows'[d] # Absent
      PROVE  /\ d \in 1 .. Len(keyOf') /\ rows'[d].key = keyOf'[d]
             /\ d # e => rows'[d] = rows[d] /\ Has(d) /\ rows[d].key # k
  BY <1>1, <1>2, <1>3, <1>4 DEF RowsSound, Has
<1>5. ASSUME NEW c \in Ids, NEW d \in Ids, rows'[c] # Absent, rows'[d] # Absent,
             rows'[c].key = rows'[d].key
      PROVE  c = d
  BY <1>1, <1>2, <1>4, <1>5 DEF RowsSound, Has
<1>6. RowsSound'
  BY <1>2, <1>4, <1>5 DEF RowsSound, Has, Created
<1> QED
  BY <1>1, <1>2, <1>3, <1>6 DEF Wrote

(* What is written of a copy *)
LEMMA WriteSound ==
  ASSUME RowsSound, NEW e \in Created, NEW s \in States, Write(e, s), UNCHANGED keyOf
  PROVE  /\ RowsSound'
         /\ Wrote(e, s)
<1>1. e \in Ids /\ keyOf[e] \in Keys \cup Ids
  BY CreatedIds DEF RowsSound, Created
<1>2. rows' = Put(rows, e, [state |-> s, key |-> keyOf[e]])
  BY DEF Write
<1>3. /\ keyOf' \in Seq(Keys \cup Ids) /\ Len(keyOf') <= MaxExecs
      /\ e \in 1 .. Len(keyOf') /\ keyOf'[e] = keyOf[e]
      /\ \A d \in Created : d \in 1 .. Len(keyOf') /\ keyOf'[d] = keyOf[d]
  BY DEF RowsSound, Created
<1> HIDE DEF Write
<1> QED
  BY <1>1, <1>2, <1>3, PutSound

LEMMA CreateSound ==
  ASSUME RowsSound, CallsSound, NEW c \in Callers, Create(c)
  PROVE  /\ RowsSound'
         /\ Len(keyOf') = Len(keyOf) + 1
         /\ LET e == Len(keyOf) + 1
            IN  /\ e \in Ids /\ ~Has(e)
                /\ Wrote(e, InitialState)
<1> DEFINE e == Len(keyOf) + 1
           k == IF calls[c].next = "mark" THEN e ELSE calls[c].key
<1>1. e \in Ids /\ ~Has(e) /\ Len(keyOf) \in Nat
  BY MaxExecsAssumption DEF Create, CanCreate, RowsSound, Ids, Created
<1>2. k \in Keys \cup Ids
  BY <1>1 DEF Create, CallsSound, Asked, Calls
<1>3. rows' = Put(rows, e, [state |-> "queued", key |-> k]) /\ keyOf' = Append(keyOf, k)
  BY DEF Create, InitialState
<1> HIDE DEF k
<1>4. /\ keyOf' \in Seq(Keys \cup Ids) /\ Len(keyOf') = Len(keyOf) + 1 /\ keyOf'[e] = k
      /\ e \in 1 .. Len(keyOf') /\ Len(keyOf') <= MaxExecs
  BY <1>1, <1>2, <1>3, MaxExecsAssumption DEF RowsSound, Ids
<1>5. \A d \in Created : d \in 1 .. Len(keyOf') /\ keyOf'[d] = keyOf[d]
  BY <1>1, <1>2, <1>3 DEF RowsSound, Created
<1>6. "queued" \in States
  BY DEF States
<1> HIDE DEF e
<1>7. RowsSound' /\ Wrote(e, "queued")
  BY <1>1, <1>2, <1>3, <1>4, <1>5, <1>6, PutSound
<1> QED
  BY <1>1, <1>4, <1>7 DEF InitialState, e

(* Rows that keep their key, or go *)
LEMMA KeysKept ==
  ASSUME RowsSound, UNCHANGED keyOf, rows' \in [Ids -> Row \cup {Absent}],
         \A e \in Ids : rows'[e] = Absent \/ (Has(e) /\ rows'[e].key = rows[e].key)
  PROVE  RowsSound'
BY DEF RowsSound, Has, Created

LEMMA StateChange ==
  ASSUME NEW r \in Row, NEW s \in States
  PROVE  LET q == [r EXCEPT !.state = s]
         IN  q \in Row /\ q.key = r.key /\ q.state = s
BY DEF Row

LEMMA DrainSound ==
  ASSUME RowsSound, DrainTimeout
  PROVE  /\ RowsSound'
         /\ \A e \in Ids : IF StateOf(e) \in Orphaned
                           THEN rows'[e].state = "failed" /\ rows'[e] \in Row
                           ELSE rows'[e] = rows[e]
<1>1. \A e \in Ids : StateOf(e) \in Orphaned => rows[e] \in Row
  BY RowThere DEF Orphaned, States
<1>2. \A e \in Ids : IF StateOf(e) \in Orphaned THEN rows'[e] = [rows[e] EXCEPT !.state = "failed"]
                     ELSE rows'[e] = rows[e]
  BY DEF DrainTimeout
<1>3. \A e \in Ids :
        IF StateOf(e) \in Orphaned
        THEN rows'[e].state = "failed" /\ rows'[e] \in Row /\ rows'[e].key = rows[e].key
        ELSE rows'[e] = rows[e]
  <2> SUFFICES ASSUME NEW e \in Ids, StateOf(e) \in Orphaned
               PROVE  rows'[e].state = "failed" /\ rows'[e] \in Row /\ rows'[e].key = rows[e].key
    BY <1>2
  <2> DEFINE failed == [rows[e] EXCEPT !.state = "failed"]
  <2>1. rows[e] \in Row /\ rows'[e] = failed
    BY <1>1, <1>2
  <2>2. failed \in Row /\ failed.key = rows[e].key /\ failed.state = "failed"
    BY <2>1, StateChange DEF States
  <2> HIDE DEF failed
  <2> QED
    BY <2>1, <2>2
<1> DEFINE new(e) == IF e \in {d \in Ids : StateOf(d) \in Orphaned} THEN [rows[e] EXCEPT !.state = "failed"] ELSE rows[e]
<1>4. rows' = [e \in Ids |-> new(e)]
  BY DEF DrainTimeout
<1> HIDE DEF new
<1>5. rows' \in [Ids -> Row \cup {Absent}]
  BY <1>3, <1>4 DEF RowsSound
<1>6. \A e \in Ids : rows'[e] = Absent \/ (Has(e) /\ rows'[e].key = rows[e].key)
  BY <1>1, <1>3, RowThere DEF Has
<1>7. UNCHANGED keyOf
  BY DEF DrainTimeout
<1> QED
  BY <1>3, <1>5, <1>6, <1>7, KeysKept

(* Recovery: what is not an orphan, or is ignored, stays. *)
LEMMA RecoverSound ==
  ASSUME RowsSound, NEW answers \in [Ids -> Answers], rows' = Recovered(answers), UNCHANGED keyOf
  PROVE  /\ RowsSound'
         /\ \A e \in Ids :
              \/ rows'[e] = rows[e] /\ (StateOf(e) \notin Orphaned \/ answers[e] = "ignore")
              \/ StateOf(e) \in Orphaned /\ rows'[e] \in Row /\ rows'[e].state \in {"failed", "queued"}
<1>1. \A e \in Ids : StateOf(e) \in Orphaned => rows[e] \in Row
  BY RowThere DEF Orphaned, States
<1>2. \A e \in Ids : answers[e] \in OrphanAnswers
  BY AnswersAssumption
<1>3. \A e \in Ids :
        \/ rows'[e] = rows[e] /\ (StateOf(e) \notin Orphaned \/ answers[e] = "ignore")
        \/ /\ StateOf(e) \in Orphaned
           /\ \/ rows'[e] = [rows[e] EXCEPT !.state = "failed"]
              \/ rows'[e] = [rows[e] EXCEPT !.state = "queued"]
  <2> SUFFICES ASSUME NEW e \in Ids
               PROVE  \/ rows'[e] = rows[e] /\ (StateOf(e) \notin Orphaned \/ answers[e] = "ignore")
                      \/ /\ StateOf(e) \in Orphaned
                         /\ \/ rows'[e] = [rows[e] EXCEPT !.state = "failed"]
                            \/ rows'[e] = [rows[e] EXCEPT !.state = "queued"]
    OBVIOUS
  <2>1. answers[e] = "fail" \/ answers[e] = "requeue" \/ answers[e] = "ignore"
    BY <1>2 DEF OrphanAnswers
  <2>2. rows'[e] = IF StateOf(e) \notin Orphaned THEN rows[e]
                   ELSE CASE answers[e] = "fail"    -> [rows[e] EXCEPT !.state = "failed"]
                          [] answers[e] = "requeue" -> [rows[e] EXCEPT !.state = "queued"]
                          [] answers[e] = "ignore"  -> rows[e]
    BY DEF Recovered, StateOf
  <2>3. CASE StateOf(e) \notin Orphaned
    BY <2>2, <2>3
  <2>4. CASE StateOf(e) \in Orphaned /\ answers[e] = "fail"
    BY <2>2, <2>4
  <2>5. CASE StateOf(e) \in Orphaned /\ answers[e] = "requeue"
    BY <2>2, <2>5
  <2>6. CASE StateOf(e) \in Orphaned /\ answers[e] = "ignore"
    BY <2>2, <2>6
  <2> QED
    BY <2>1, <2>3, <2>4, <2>5, <2>6
<1>4. \A e \in Ids :
        \/ rows'[e] = rows[e] /\ (StateOf(e) \notin Orphaned \/ answers[e] = "ignore")
        \/ /\ StateOf(e) \in Orphaned /\ rows'[e] \in Row /\ rows'[e].key = rows[e].key
           /\ rows'[e].state \in {"failed", "queued"}
  <2> SUFFICES ASSUME NEW e \in Ids, rows'[e] # rows[e] \/ ~(StateOf(e) \notin Orphaned \/ answers[e] = "ignore")
               PROVE  /\ StateOf(e) \in Orphaned /\ rows'[e] \in Row /\ rows'[e].key = rows[e].key
                      /\ rows'[e].state \in {"failed", "queued"}
    OBVIOUS
  <2> DEFINE failed == [rows[e] EXCEPT !.state = "failed"]
             queued == [rows[e] EXCEPT !.state = "queued"]
  <2>1. StateOf(e) \in Orphaned /\ rows[e] \in Row /\ (rows'[e] = failed \/ rows'[e] = queued)
    BY <1>1, <1>3
  <2>2. failed \in Row /\ failed.key = rows[e].key /\ failed.state = "failed"
    BY <2>1, StateChange DEF States
  <2>3. queued \in Row /\ queued.key = rows[e].key /\ queued.state = "queued"
    BY <2>1, StateChange DEF States
  <2> HIDE DEF failed, queued
  <2> QED
    BY <2>1, <2>2, <2>3
<1>5. rows' \in [Ids -> Row \cup {Absent}]
  <2> DEFINE new(e) ==
        IF rows[e].state \notin Orphaned THEN rows[e]
        ELSE CASE answers[e] = "fail"    -> [rows[e] EXCEPT !.state = "failed"]
               [] answers[e] = "requeue" -> [rows[e] EXCEPT !.state = "queued"]
               [] answers[e] = "ignore"  -> rows[e]
  <2>1. rows' = [e \in Ids |-> new(e)]
    BY Zenon DEF Recovered
  <2> HIDE DEF new
  <2> QED
    BY <2>1, <1>4 DEF RowsSound
<1>6. \A e \in Ids : rows'[e] = Absent \/ (Has(e) /\ rows'[e].key = rows[e].key)
  BY <1>1, <1>4, RowThere DEF Has
<1> QED
  BY <1>4, <1>5, <1>6, KeysKept

LEMMA DeleteSound ==
  ASSUME RowsSound, NEW e \in Ids, DeleteExecution(e)
  PROVE  /\ RowsSound'
         /\ StateOf(e) \in Terminal /\ rows'[e] = Absent
         /\ \A d \in Ids \ {e} : rows'[d] = rows[d]
<1>1. /\ StateOf(e) \in Terminal /\ rows'[e] = Absent
      /\ rows' \in [Ids -> Row \cup {Absent}] /\ UNCHANGED keyOf
      /\ \A d \in Ids \ {e} : rows'[d] = rows[d]
  BY DEF DeleteExecution, Remove, RowsSound
<1>2. \A d \in Ids : rows'[d] = Absent \/ (Has(d) /\ rows'[d].key = rows[d].key)
  <2> SUFFICES ASSUME NEW d \in Ids, rows'[d] # Absent
               PROVE  rows[d] # Absent /\ rows'[d].key = rows[d].key
    BY DEF Has
  <2>1. rows'[d] = rows[d]
    BY <1>1
  <2> QED
    BY <2>1
<1> QED
  BY <1>1, <1>2, KeysKept

(* What a step may do to the rows *)
LEMMA RowEffect ==
  ASSUME RowsSound, CopiesSound, Next
  PROVE  \/ UNCHANGED <<rows, keyOf>>
         \/ UNCHANGED keyOf /\ \E e \in Created, s \in States : Write(e, s)
         \/ \E c \in Callers : Create(c)
         \/ \E e \in Ids : DeleteExecution(e)
         \/ DrainTimeout
         \/ Restart
<1> DEFINE Written == UNCHANGED keyOf /\ \E e \in Created, s \in States : Write(e, s)
<1>1. ASSUME NEW f \in Fibers, FiberNext(f)
      PROVE  UNCHANGED <<rows, keyOf>> \/ Written
  <2>1. fiber[f].at # "none" => fiber[f].on \in Created
    BY DEF CopiesSound, FibersSound, Held
  <2>2. CASE ResumeRuns(f) \/ FreesSlot(f) \/ ArmRetry(f) \/ WaitsOn(f)
    BY <2>2 DEF ResumeRuns, FreesSlot, ArmRetry, WaitsOn
  <2>3. CASE Completes(f) \/ Throws(f)
    BY <2>1, <2>3 DEF Completes, Throws, At, States
  <2>4. CASE ThrowsRetryable(f) \/ Waits(f)
    BY <2>1, <2>4 DEF ThrowsRetryable, Waits, Proceeds, At, States
  <2>5. CASE RetryFires(f) \/ WaitTimeout(f) \/ DispatchQueued(f)
    BY <2>1, <2>5 DEF RetryFires, WaitTimeout, DispatchQueued, Start, At, States
  <2> QED
    BY <1>1, <2>2, <2>3, <2>4, <2>5 DEF FiberNext
<1>2. ASSUME NEW c \in Callers, CallerNext(c)
      PROVE  UNCHANGED <<rows, keyOf>> \/ Written \/ Create(c)
  <2>1. calls[c].op \notin {"idle", "create"} => calls[c].on \in Created
    BY DEF CopiesSound, CallsSound, Asked
  <2>2. CASE \E k \in Keys : Trigger(c, k)
    BY <2>2 DEF Trigger
  <2>3. CASE \E e \in Ids : Replay(c, e) \/ Resume(c, e) \/ Cancel(c, e)
    BY <2>3 DEF Replay, Resume, Cancel
  <2>4. CASE Dispatch(c)
    BY <2>1, <2>4 DEF Dispatch, Start, States
  <2>5. CASE ReplayMarks(c) \/ ResumeReads(c)
    BY <2>1, <2>5 DEF ReplayMarks, ResumeReads, States
  <2>6. CASE ResumeContinues(c) \/ CancelWrites(c)
    BY <2>1, <2>6 DEF ResumeContinues, CancelWrites, States
  <2> QED
    BY <1>2, <2>2, <2>3, <2>4, <2>5, <2>6 DEF CallerNext
<1>3. CASE Shutdown \/ Close \/ Crash
  BY <1>3 DEF Shutdown, Close, Crash, Ends
<1> QED
  BY <1>1, <1>2, <1>3 DEF Next

LEMMA RowsNext ==
  ASSUME RowsSound, CopiesSound, [Next]_vars
  PROVE  RowsSound' /\ Created \subseteq Created'
<1> DEFINE Goal == RowsSound' /\ Created \subseteq Created'
<1>1. CASE UNCHANGED <<rows, keyOf>>
  BY <1>1 DEF RowsSound, Has, Created
<1>2. CASE UNCHANGED keyOf /\ \E e \in Created, s \in States : Write(e, s)
  BY <1>2, WriteSound DEF Created
<1>3. ASSUME NEW c \in Callers, Create(c) PROVE Goal
  BY <1>3, CreateSound, CreatedIds DEF CopiesSound, Created
<1>4. ASSUME NEW e \in Ids, DeleteExecution(e) PROVE Goal
  BY <1>4, DeleteSound DEF DeleteExecution, Created
<1>5. CASE DrainTimeout
  BY <1>5, DrainSound DEF DrainTimeout, Created
<1>6. CASE Restart
  <2>1. PICK answers \in [Ids -> Answers] : rows' = Recovered(answers)
    BY <1>6 DEF Restart
  <2>2. UNCHANGED keyOf
    BY <1>6 DEF Restart
  <2> QED
    BY <2>1, <2>2, RecoverSound DEF Created
<1>7. UNCHANGED vars => UNCHANGED <<rows, keyOf>>
  BY DEF vars
<1> QED
  BY <1>1, <1>2, <1>3, <1>4, <1>5, <1>6, <1>7, RowEffect

(***************************************************************************)
(* The copies                                                              *)
(***************************************************************************)

LEMMA Places ==
  ASSUME NEW e, NEW w
  PROVE  LET x == [on |-> e, at |-> w] IN x.on = e /\ x.at = w
OBVIOUS

LEMMA NewCopy ==
  ASSUME NEW e \in Ids, NEW w \in DOMAIN CopyState
  PROVE  [on |-> e, at |-> w] \in Copy
BY DEF Copy

LEMMA CopyStates ==
  /\ CopyState.none = "absent" /\ CopyState.listed = "queued"
  /\ CopyState.handler = "running" /\ CopyState.resuming = "running"
  /\ CopyState.resumed = "running" /\ CopyState.backoff = "retrying"
  /\ CopyState.retry = "retrying" /\ CopyState.parked = "waiting"
  /\ CopyState.waiting = "waiting" /\ CopyState.done = "complete"
  /\ DOMAIN CopyState = {"none", "listed", "handler", "resuming", "resumed", "backoff",
                         "retry", "parked", "waiting", "done"}
BY DEF CopyState

(* How a step moves a fiber: [on |-> fiber[f].on, at |-> at] *)
LEMMA MoveTo ==
  ASSUME FibersSound, NEW f \in Fibers, NEW w
  PROVE  [fiber EXCEPT ![f].at = w] =
           [g \in Fibers |-> IF g = f THEN [on |-> fiber[f].on, at |-> w] ELSE fiber[g]]
<1>1. fiber[f] \in Copy /\ fiber = [g \in Fibers |-> fiber[g]]
  BY DEF FibersSound
<1>2. [fiber[f] EXCEPT !.at = w] = [on |-> fiber[f].on, at |-> w]
  BY <1>1 DEF Copy
<1> QED
  BY <1>1, <1>2

(* What a step may make of a fiber: one that is dropped, one that moves, and *)
(* one that takes a copy of a row that is there                            *)
FiberStep(g) ==
  \/ fiber'[g] = fiber[g]
  \/ fiber'[g] = NoFiber
  \/ \E e \in Created, w \in DOMAIN CopyState \ {"none"} : fiber'[g] = [on |-> e, at |-> w]

(* What a fiber is once it freed a slot *)
Fresh(x) == x = NoFiber \/ \E e \in Created : x = [on |-> e, at |-> "listed"]

LEMMA FreshCopy ==
  ASSUME RowsSound, NEW slots PROVE Fresh(AfterTerminal(rows, slots))
<1>1. \A e \in Ids : rows[e].state = "queued" => e \in Created
  BY RowThere DEF RowsSound, StateOf, States
<1> QED
  BY <1>1, AfterTerminalHeld DEF Fresh

LEMMA FibersMove ==
  ASSUME RowsSound, CopiesSound, NEW f \in Fibers, FiberNext(f)
  PROVE  fiber' = [g \in Fibers |-> fiber'[g]] /\ \A g \in Fibers : FiberStep(g)
<1>a. FibersSound /\ (fiber[f].at # "none" => fiber[f].on \in Created)
  BY DEF CopiesSound, FibersSound, Held
<1>b. fiber = [g \in Fibers |-> fiber[g]]
  BY <1>a DEF FibersSound
<1> DEFINE at(w)  == fiber' = [g \in Fibers |-> IF g = f THEN [on |-> fiber[f].on, at |-> w] ELSE fiber[g]]
           Goal   == fiber' = [g \in Fibers |-> fiber'[g]] /\ \A g \in Fibers : FiberStep(g)
<1>c. ASSUME fiber[f].at # "none", NEW w \in DOMAIN CopyState \ {"none"}, at(w)
      PROVE  Goal
  BY <1>a, <1>c DEF FiberStep
<1>1. CASE ResumeRuns(f) \/ ArmRetry(f) \/ RetryFires(f)
  <2>1. ResumeRuns(f) => at("resumed")
    BY <1>a, MoveTo DEF ResumeRuns
  <2>2. ArmRetry(f) => at("retry")
    BY <1>a, MoveTo DEF ArmRetry
  <2>3. RetryFires(f) => at("handler")
    BY <1>a, MoveTo DEF RetryFires
  <2> HIDE DEF at
  <2> QED
    BY <1>c, <2>1, <2>2, <2>3, <1>1, CopyStates DEF ResumeRuns, ArmRetry, RetryFires, At
<1>2. CASE ThrowsRetryable(f) \/ Waits(f)
  <2>1. at("backoff") \/ at("parked")
    BY <1>a, <1>2, MoveTo DEF ThrowsRetryable, Waits, Proceeds
  <2> HIDE DEF at
  <2> QED
    BY <1>c, <2>1, <1>2, CopyStates DEF ThrowsRetryable, Waits, At
<1>3. CASE Completes(f)
  BY <1>a, <1>3, CopyStates DEF Completes, At, FiberStep, Moved
<1>4. CASE FreesSlot(f)
  <2> DEFINE x == AfterTerminal(rows, active - 1)
  <2>1. Fresh(x)
    BY FreshCopy
  <2>2. fiber' = [fiber EXCEPT ![f] = x]
    BY <1>4 DEF FreesSlot
  <2> HIDE DEF x
  <2> QED
    BY <1>b, <2>1, <2>2, CopyStates DEF FiberStep, Fresh
<1>5. CASE Throws(f)
  <2> DEFINE x == AfterTerminal(rows', active - 1)
             e == fiber[f].on
  <2>1. Fresh(x)
    <3>1. Write(e, "failed") /\ UNCHANGED keyOf /\ e \in Created
      BY <1>a, <1>5 DEF Throws, At
    <3>2. RowsSound' /\ Created' = Created
      BY <3>1, WriteSound DEF States, Created
    <3>3. \A d \in Ids : rows'[d].state = "queued" => d \in Created
      <4>1. \A d \in Ids : rows'[d].state = "queued" => rows'[d] # Absent
        BY DEF Absent
      <4> QED
        BY <3>2, <4>1 DEF RowsSound, Has
    <3> QED
      BY <3>3, AfterTerminalHeld DEF Fresh
  <2>2. fiber' = [g \in Fibers |-> IF g = f THEN x ELSE IF g \in Cleared(e) THEN NoFiber ELSE fiber[g]]
    BY <1>5 DEF Throws, Moved
  <2> HIDE DEF x
  <2> QED
    BY <1>b, <2>1, <2>2, CopyStates DEF FiberStep, Fresh
<1>6. CASE WaitsOn(f)
  <2> DEFINE x == AfterTerminal(rows, active - 1)
  <2>1. Fresh(x)
    BY FreshCopy
  <2>2. \/ fiber' = [fiber EXCEPT ![f] = x]
        \/ \E g \in Free : fiber' = [fiber EXCEPT ![f].at = "waiting", ![g] = x]
    BY <1>6 DEF WaitsOn
  <2> HIDE DEF x
  <2>3. CASE fiber' = [fiber EXCEPT ![f] = x]
    BY <1>b, <2>1, <2>3, CopyStates DEF FiberStep, Fresh
  <2>4. ASSUME NEW g \in Free, fiber' = [fiber EXCEPT ![f].at = "waiting", ![g] = x]
        PROVE  Goal
    <3> DEFINE mid == [fiber EXCEPT ![f].at = "waiting"]
    <3>1. mid = [h \in Fibers |-> IF h = f THEN [on |-> fiber[f].on, at |-> "waiting"] ELSE fiber[h]]
      BY <1>a, MoveTo
    <3>2. fiber' = [mid EXCEPT ![g] = x]
      BY <2>4
    <3>3. g \in Fibers /\ fiber[f].on \in Created
      BY <1>a, <1>6 DEF Free, WaitsOn, At
    <3> HIDE DEF mid
    <3> QED
      BY <1>b, <2>1, <3>1, <3>2, <3>3, CopyStates DEF FiberStep, Fresh
  <2> QED
    BY <2>2, <2>3, <2>4
<1>7. CASE WaitTimeout(f)
  BY <1>b, <1>7 DEF WaitTimeout, Moved, FiberStep
<1>8. CASE DispatchQueued(f)
  <2>1. \/ fiber' = [fiber EXCEPT ![f] = [on |-> fiber[f].on, at |-> "handler"]]
        \/ fiber' = [fiber EXCEPT ![f] = NoFiber]
    BY <1>8 DEF DispatchQueued, Start
  <2> QED
    BY <1>a, <1>b, <1>8, <2>1, CopyStates DEF DispatchQueued, At, FiberStep
<1> QED
  BY <1>1, <1>2, <1>3, <1>4, <1>5, <1>6, <1>7, <1>8 DEF FiberNext

(* The steps of a fiber that clear no timers, the ones that end its         *)
(* execution                                                               *)
Goes(f) ==
  \/ ResumeRuns(f) \/ FreesSlot(f) \/ ThrowsRetryable(f) \/ ArmRetry(f)
  \/ RetryFires(f) \/ Waits(f) \/ WaitsOn(f) \/ DispatchQueued(f)
Settles(f) == Completes(f) \/ Throws(f) \/ WaitTimeout(f)

(* The other fibers: a free one may be taken, or the timers of the execution *)
(* are cleared.                                                            *)
LEMMA OthersStay ==
  ASSUME RowsSound, CopiesSound, NEW f \in Fibers, Goes(f), NEW g \in Fibers \ {f}
  PROVE  fiber'[g] = fiber[g] \/ (fiber[g] = NoFiber /\ Fresh(fiber'[g]))
<1>a. FibersSound
  BY DEF CopiesSound
<1>b. fiber = [h \in Fibers |-> fiber[h]]
  BY <1>a DEF FibersSound
<1>1. CASE ResumeRuns(f) \/ ArmRetry(f) \/ RetryFires(f)
  BY <1>b, <1>1 DEF ResumeRuns, ArmRetry, RetryFires
<1>2. CASE ThrowsRetryable(f) \/ Waits(f)
  BY <1>b, <1>2 DEF ThrowsRetryable, Waits, Proceeds
<1>4. CASE FreesSlot(f)
  BY <1>b, <1>4 DEF FreesSlot
<1>6. CASE WaitsOn(f)
  <2> DEFINE x == AfterTerminal(rows, active - 1)
  <2>1. Fresh(x)
    BY FreshCopy
  <2>2. \/ fiber' = [fiber EXCEPT ![f] = x]
        \/ \E h \in Free : fiber' = [fiber EXCEPT ![f].at = "waiting", ![h] = x]
    BY <1>6 DEF WaitsOn
  <2> HIDE DEF x
  <2>3. CASE fiber' = [fiber EXCEPT ![f] = x]
    BY <1>b, <2>3
  <2>4. ASSUME NEW h \in Free, fiber' = [fiber EXCEPT ![f].at = "waiting", ![h] = x]
        PROVE  fiber'[g] = fiber[g] \/ (fiber[g] = NoFiber /\ Fresh(fiber'[g]))
    BY <1>b, <2>1, <2>4 DEF Free
  <2> QED
    BY <2>2, <2>3, <2>4
<1>8. CASE DispatchQueued(f)
  BY <1>b, <1>8 DEF DispatchQueued, Start
<1> QED
  BY <1>1, <1>2, <1>4, <1>6, <1>8 DEF Goes

LEMMA OthersCleared ==
  ASSUME NEW f \in Fibers, Settles(f), NEW g \in Fibers \ {f}
  PROVE  /\ fiber'[g] = IF g \in Cleared(fiber[f].on) THEN NoFiber ELSE fiber[g]
         /\ ClearTimers({fiber[f].on})
<1>1. CASE Completes(f)
  BY <1>1 DEF Completes, Moved
<1>2. CASE Throws(f)
  BY <1>2 DEF Throws, Moved
<1>3. CASE WaitTimeout(f)
  BY <1>3 DEF WaitTimeout, Moved
<1> QED
  BY <1>1, <1>2, <1>3 DEF Settles

(* A fiber with a timer is at the timer's place. *)
LEMMA AtTimer ==
  ASSUME TimersSound, NEW e \in Ids, NEW g \in Cleared(e)
  PROVE  /\ g \in Fibers /\ fiber[g].on = e /\ fiber[g] # NoFiber
         /\ fiber[g].at = IF g \in retryTimer[e] THEN "retry" ELSE "waiting"
<1>1. g \in Fibers /\ (fiber[g] = [on |-> e, at |-> "retry"] \/ fiber[g] = [on |-> e, at |-> "waiting"])
  BY DEF TimersSound, Cleared
<1>2. g \in retryTimer[e] => fiber[g] = [on |-> e, at |-> "retry"]
  BY DEF TimersSound
<1>3. g \notin retryTimer[e] => fiber[g] = [on |-> e, at |-> "waiting"]
  BY DEF TimersSound, Cleared
<1>4. fiber[g].on = e /\ fiber[g].at # "none"
  BY <1>1
<1> QED
  BY <1>1, <1>2, <1>3, <1>4 DEF NoFiber

LEMMA TimersKept ==
  ASSUME TimersSound,
         retryTimer' \in [Ids -> SUBSET Fibers], waitTimer' \in [Ids -> SUBSET Fibers],
         \A e \in Ids : \A g \in retryTimer'[e] :
           (g \in retryTimer[e] /\ fiber'[g] = fiber[g]) \/ fiber'[g] = [on |-> e, at |-> "retry"],
         \A e \in Ids : \A g \in waitTimer'[e] :
           (g \in waitTimer[e] /\ fiber'[g] = fiber[g]) \/ fiber'[g] = [on |-> e, at |-> "waiting"]
  PROVE  TimersSound'
BY DEF TimersSound

(* A step that leaves the timers alone, and whose fiber has none *)
LEMMA TimersUntouched ==
  ASSUME TimersSound, NoTimersCleared,
         \A e \in Ids : \A g \in Cleared(e) : fiber'[g] = fiber[g]
  PROVE  TimersSound'
BY DEF TimersSound, Cleared, NoTimersCleared

(* clearTimers for some executions *)
LEMMA ClearedKept ==
  ASSUME TimersSound, NEW es \in SUBSET Ids, ClearTimers(es),
         \A d \in Ids \ es : \A g \in Cleared(d) : fiber'[g] = fiber[g]
  PROVE  TimersSound'
<1>1. /\ retryTimer' \in [Ids -> SUBSET Fibers] /\ waitTimer' \in [Ids -> SUBSET Fibers]
      /\ \A e \in Ids : /\ retryTimer'[e] = IF e \in es THEN {} ELSE retryTimer[e]
                        /\ waitTimer'[e] = IF e \in es THEN {} ELSE waitTimer[e]
  BY DEF ClearTimers, TimersSound
<1>2. \A e \in Ids : \A g \in retryTimer'[e] : g \in retryTimer[e] /\ fiber'[g] = fiber[g]
  BY <1>1 DEF Cleared
<1>3. \A e \in Ids : \A g \in waitTimer'[e] : g \in waitTimer[e] /\ fiber'[g] = fiber[g]
  BY <1>1 DEF Cleared
<1> QED
  BY <1>1, <1>2, <1>3, TimersKept

LEMMA TimersMove ==
  ASSUME RowsSound, CopiesSound, NEW f \in Fibers, FiberNext(f)
  PROVE  TimersSound'
<1>a. /\ FibersSound /\ TimersSound
      /\ fiber[f].at # "none" => fiber[f].on \in Created /\ fiber[f].on \in Ids
  BY CreatedIds DEF CopiesSound, FibersSound, Held
<1>b. \A e \in Ids : \A g \in Cleared(e) :
        g \in Fibers /\ fiber[g].on = e /\ fiber[g] # NoFiber /\ fiber[g].at \in {"retry", "waiting"}
  BY <1>a, AtTimer
<1>c. Goes(f) => \A g \in Fibers \ {f} :
        fiber'[g] = fiber[g] \/ (fiber[g] = NoFiber /\ Fresh(fiber'[g]))
  BY OthersStay
<1>1. CASE ResumeRuns(f) \/ FreesSlot(f) \/ ThrowsRetryable(f) \/ Waits(f) \/ DispatchQueued(f)
  <2>1. NoTimersCleared /\ fiber[f].at \notin {"retry", "waiting"}
    BY <1>1 DEF ResumeRuns, FreesSlot, ThrowsRetryable, Waits, DispatchQueued, Proceeds, At
  <2>2. \A e \in Ids : \A g \in Cleared(e) : fiber'[g] = fiber[g]
    BY <1>1, <1>b, <1>c, <2>1 DEF Goes
  <2> QED
    BY <1>a, <2>1, <2>2, TimersUntouched
<1>2. CASE ArmRetry(f)
  <2>1. /\ fiber[f].at = "backoff" /\ UNCHANGED waitTimer
        /\ fiber' = [fiber EXCEPT ![f].at = "retry"]
        /\ retryTimer' = [retryTimer EXCEPT ![fiber[f].on] = {f}]
    BY <1>2 DEF ArmRetry, At
  <2>2. \A e \in Ids : \A g \in Cleared(e) : fiber'[g] = fiber[g]
    BY <1>2, <1>b, <1>c, <2>1 DEF Goes
  <2>3. fiber'[f] = [on |-> fiber[f].on, at |-> "retry"]
    BY <1>a, <2>1 DEF FibersSound, Copy
  <2>4. fiber[f].on \in Ids
    BY <1>a, <2>1
  <2>5. \A e \in Ids : \A g \in retryTimer'[e] :
          (g \in retryTimer[e] /\ fiber'[g] = fiber[g]) \/ fiber'[g] = [on |-> e, at |-> "retry"]
    BY <1>a, <2>1, <2>2, <2>3, <2>4 DEF TimersSound, Cleared
  <2>6. \A e \in Ids : \A g \in waitTimer'[e] :
          (g \in waitTimer[e] /\ fiber'[g] = fiber[g]) \/ fiber'[g] = [on |-> e, at |-> "waiting"]
    BY <2>1, <2>2 DEF Cleared
  <2>7. retryTimer' \in [Ids -> SUBSET Fibers] /\ waitTimer' \in [Ids -> SUBSET Fibers]
    BY <1>a, <2>1, <2>4 DEF TimersSound
  <2> QED
    BY <1>a, <2>5, <2>6, <2>7, TimersKept
<1>3. CASE RetryFires(f)
  <2>1. /\ fiber[f].at = "retry" /\ UNCHANGED waitTimer
        /\ retryTimer' = [retryTimer EXCEPT ![fiber[f].on] = {}]
    BY <1>3 DEF RetryFires, At
  <2>2. \A e \in Ids \ {fiber[f].on} : \A g \in Cleared(e) : fiber'[g] = fiber[g]
    BY <1>3, <1>b, <1>c DEF Goes
  <2>3. \A g \in waitTimer[fiber[f].on] : fiber'[g] = fiber[g]
    <3> SUFFICES ASSUME NEW g \in waitTimer[fiber[f].on] PROVE fiber'[g] = fiber[g]
      OBVIOUS
    <3>1. fiber[f].on \in Ids
      BY <1>a, <2>1
    <3>2. g \in Cleared(fiber[f].on) /\ fiber[g] = [on |-> fiber[f].on, at |-> "waiting"]
      BY <1>a, <3>1 DEF TimersSound, Cleared
    <3>3. fiber[g].at = "waiting"
      BY <3>2
    <3>4. g \in Fibers \ {f} /\ fiber[g] # NoFiber
      BY <1>b, <2>1, <3>1, <3>2, <3>3
    <3> QED
      BY <1>3, <1>c, <3>4 DEF Goes
  <2> QED
    BY <1>a, <2>1, <2>2, <2>3, TimersKept DEF TimersSound, Cleared
<1>4. CASE WaitsOn(f)
  <2>1. /\ fiber[f].at = "parked" /\ UNCHANGED retryTimer
        /\ \/ UNCHANGED waitTimer
           \/ /\ waitTimer' = [waitTimer EXCEPT ![fiber[f].on] = {f}]
              /\ fiber'[f] = [on |-> fiber[f].on, at |-> "waiting"]
    <3>1. \A g \in Free : g # f
      BY <1>4 DEF WaitsOn, At, Free, NoFiber
    <3> DEFINE x == AfterTerminal(rows, active - 1)
    <3>2. \/ UNCHANGED waitTimer
          \/ \E g \in Free : /\ fiber' = [fiber EXCEPT ![f].at = "waiting", ![g] = x]
                             /\ waitTimer' = [waitTimer EXCEPT ![fiber[f].on] = {f}]
      BY <1>4 DEF WaitsOn
    <3>3. fiber[f].at = "parked" /\ UNCHANGED retryTimer
      BY <1>4 DEF WaitsOn, At
    <3> HIDE DEF x
    <3> QED
      BY <1>a, <3>1, <3>2, <3>3 DEF FibersSound, Copy
  <2>2. \A e \in Ids : \A g \in Cleared(e) : fiber'[g] = fiber[g]
    BY <1>4, <1>b, <1>c, <2>1 DEF Goes
  <2> QED
    BY <1>a, <2>1, <2>2, TimersKept DEF TimersSound, Cleared
<1>5. CASE Settles(f)
  <2>1. \A g \in Fibers \ {f} : fiber'[g] = IF g \in Cleared(fiber[f].on) THEN NoFiber ELSE fiber[g]
    BY <1>5, OthersCleared
  <2>2. ClearTimers({fiber[f].on}) /\ fiber[f].on \in Ids
    BY <1>5, <1>a DEF Settles, Completes, Throws, WaitTimeout, At
  <2>3. \A e \in Ids \ {fiber[f].on} : \A g \in Cleared(e) : fiber'[g] = fiber[g]
    BY <1>b, <2>1, <2>2
  <2> QED
    BY <1>a, <2>2, <2>3, ClearedKept
<1> QED
  BY <1>1, <1>2, <1>3, <1>4, <1>5 DEF FiberNext, Settles

(* Callers: a fiber begins, resumes or is dropped. *)
LEMMA CallerCopies ==
  ASSUME RowsSound, CopiesSound, NEW c \in Callers, CallerNext(c)
  PROVE  /\ fiber' = [g \in Fibers |-> fiber'[g]] /\ \A g \in Fibers : FiberStep(g)
         /\ TimersSound'
<1>a. /\ FibersSound /\ TimersSound
      /\ calls[c].op \notin {"idle", "create"} => calls[c].on \in Created /\ calls[c].on \in Ids
  BY CreatedIds DEF CopiesSound, CallsSound, Asked
<1>b. fiber = [g \in Fibers |-> fiber[g]]
  BY <1>a DEF FibersSound
<1>c. \A e \in Ids : \A g \in Cleared(e) :
        g \in Fibers /\ fiber[g].on = e /\ fiber[g] # NoFiber /\ fiber[g].at \in {"retry", "waiting"}
  BY <1>a, AtTimer
<1>1. CASE UNCHANGED fiber /\ NoTimersCleared
  <2>1. TimersSound'
    BY <1>a, <1>1, TimersUntouched
  <2> QED
    BY <1>1, <1>b, <2>1 DEF FiberStep
<1>2. ASSUME NEW f \in Free, NEW e \in Created, Start(f, e), NoTimersCleared
      PROVE  /\ fiber' = [g \in Fibers |-> fiber'[g]] /\ \A g \in Fibers : FiberStep(g)
             /\ TimersSound'
  <2>1. fiber' = [fiber EXCEPT ![f] = [on |-> e, at |-> "handler"]] /\ f \in Fibers /\ fiber[f] = NoFiber
    BY <1>2 DEF Start, Free
  <2>2. \A d \in Ids : \A g \in Cleared(d) : fiber'[g] = fiber[g]
    BY <1>b, <1>c, <2>1
  <2>3. TimersSound'
    BY <1>a, <1>2, <2>2, TimersUntouched
  <2> QED
    BY <1>b, <2>1, <2>3, CopyStates DEF FiberStep
<1>3. CASE Dispatch(c)
  <2>1. CASE UNCHANGED fiber /\ NoTimersCleared
    BY <1>1, <2>1
  <2>2. CASE \E f \in Free : Start(f, calls[c].on) /\ NoTimersCleared
    BY <1>a, <1>2, <1>3, <2>2 DEF Dispatch
  <2> QED
    BY <1>3, <2>1, <2>2 DEF Dispatch
<1>4. CASE ResumeContinues(c)
  <2> DEFINE e == calls[c].on
  <2>1. PICK f \in Free \cup waitTimer[e] :
          fiber' = [g \in Fibers |-> IF g = f THEN [on |-> e, at |-> "resuming"]
                                     ELSE IF g \in waitTimer[e] THEN NoFiber ELSE fiber[g]]
    BY <1>4 DEF ResumeContinues, Moved
  <2>2. UNCHANGED retryTimer /\ waitTimer' = [waitTimer EXCEPT ![e] = {}] /\ e \in Created /\ e \in Ids
    BY <1>4, <1>a DEF ResumeContinues
  <2> HIDE DEF e
  <2>3. fiber[f] = NoFiber \/ f \in waitTimer[e]
    BY DEF Free
  <2>4. \A d \in Ids : \A g \in retryTimer[d] : fiber'[g] = fiber[g]
    <3> SUFFICES ASSUME NEW d \in Ids, NEW g \in retryTimer[d] PROVE fiber'[g] = fiber[g]
      OBVIOUS
    <3>1. fiber[g].at = "retry" /\ fiber[g] # NoFiber /\ g \in Fibers
      BY <1>a, AtTimer DEF Cleared
    <3>2. g \notin waitTimer[e]
      <4>1. g \in waitTimer[e] => fiber[g] = [on |-> e, at |-> "waiting"]
        BY <1>a, <2>2 DEF TimersSound
      <4> QED
        BY <3>1, <4>1
    <3> QED
      BY <2>1, <2>3, <3>1, <3>2
  <2>5. \A d \in Ids \ {e} : \A g \in waitTimer[d] : fiber'[g] = fiber[g]
    <3> SUFFICES ASSUME NEW d \in Ids \ {e}, NEW g \in waitTimer[d] PROVE fiber'[g] = fiber[g]
      OBVIOUS
    <3>1. fiber[g].on = d /\ fiber[g] # NoFiber /\ g \in Fibers
      BY <1>c DEF Cleared
    <3>2. g \notin waitTimer[e]
      BY <1>c, <2>2, <3>1 DEF Cleared
    <3> QED
      BY <2>1, <2>3, <3>1, <3>2
  <2>6. TimersSound'
    <3>1. retryTimer' \in [Ids -> SUBSET Fibers] /\ waitTimer' \in [Ids -> SUBSET Fibers]
      BY <1>a, <2>2 DEF TimersSound
    <3>2. \A d \in Ids : \A g \in retryTimer'[d] :
            (g \in retryTimer[d] /\ fiber'[g] = fiber[g]) \/ fiber'[g] = [on |-> d, at |-> "retry"]
      BY <2>2, <2>4
    <3>3. \A d \in Ids : \A g \in waitTimer'[d] :
            (g \in waitTimer[d] /\ fiber'[g] = fiber[g]) \/ fiber'[g] = [on |-> d, at |-> "waiting"]
      BY <1>a, <2>2, <2>5 DEF TimersSound
    <3> QED
      BY <1>a, <3>1, <3>2, <3>3, TimersKept
  <2> QED
    BY <2>1, <2>2, <2>6, CopyStates DEF FiberStep
<1>5. CASE CancelWrites(c)
  <2> DEFINE e == calls[c].on
  <2>1. fiber' = [g \in Fibers |-> IF g \in Cleared(e) THEN NoFiber ELSE fiber[g]]
    BY <1>5 DEF CancelWrites, Dropped
  <2>2. ClearTimers({e}) /\ e \in Ids
    BY <1>5, <1>a DEF CancelWrites
  <2> HIDE DEF e
  <2>3. \A d \in Ids \ {e} : \A g \in Cleared(d) : fiber'[g] = fiber[g]
    BY <1>c, <2>1, <2>2
  <2>4. TimersSound'
    BY <1>a, <2>2, <2>3, ClearedKept
  <2> QED
    BY <2>1, <2>4 DEF FiberStep
<1>6. \/ UNCHANGED fiber /\ NoTimersCleared
      \/ Dispatch(c) \/ ResumeContinues(c) \/ CancelWrites(c)
  BY DEF CallerNext, Trigger, Replay, Resume, Cancel, Create, ReplayMarks, ResumeReads
<1> QED
  BY <1>1, <1>3, <1>4, <1>5, <1>6

(* The process: the drain time-out drops timers, an end drops everything. *)
LEMMA ProcessCopies ==
  ASSUME RowsSound, CopiesSound,
         Shutdown \/ DrainTimeout \/ Close \/ Crash \/ Restart \/ \E e \in Ids : DeleteExecution(e)
  PROVE  /\ fiber' = [g \in Fibers |-> fiber'[g]] /\ \A g \in Fibers : FiberStep(g)
         /\ TimersSound'
<1>a. /\ FibersSound /\ TimersSound
      /\ fiber = [g \in Fibers |-> fiber[g]]
  BY DEF CopiesSound, FibersSound
<1>1. CASE UNCHANGED fiber /\ NoTimersCleared
  <2>1. TimersSound'
    BY <1>a, <1>1, TimersUntouched
  <2> QED
    BY <1>1, <1>a, <2>1 DEF FiberStep
<1>2. CASE DrainTimeout
  <2> DEFINE failing == {e \in Ids : StateOf(e) \in Orphaned}
             gone    == UNION {Cleared(e) : e \in failing}
  <2>1. fiber' = [g \in Fibers |-> IF g \in gone THEN NoFiber ELSE fiber[g]]
    BY <1>2 DEF DrainTimeout, Dropped
  <2>2. ClearTimers(failing)
    BY <1>2 DEF DrainTimeout
  <2>3. \A d \in Ids \ failing : \A g \in Cleared(d) : fiber'[g] = fiber[g]
    <3> SUFFICES ASSUME NEW d \in Ids \ failing, NEW g \in Cleared(d) PROVE fiber'[g] = fiber[g]
      OBVIOUS
    <3>1. g \in Fibers /\ fiber[g].on = d
      BY <1>a, AtTimer
    <3>2. \A e \in failing : g \notin Cleared(e)
      BY <1>a, <3>1, AtTimer
    <3> QED
      BY <2>1, <3>1, <3>2
  <2>4. failing \subseteq Ids
    OBVIOUS
  <2> HIDE DEF failing
  <2>5. TimersSound'
    BY <1>a, <2>2, <2>3, <2>4, ClearedKept
  <2> QED
    BY <2>1, <2>5 DEF FiberStep
<1>3. CASE Ends
  <2>1. /\ fiber' = [g \in Fibers |-> NoFiber]
        /\ retryTimer' = [e \in Ids |-> {}] /\ waitTimer' = [e \in Ids |-> {}]
    BY <1>3 DEF Ends, InitProcess
  <2> QED
    BY <2>1 DEF FiberStep, TimersSound
<1>4. \/ UNCHANGED fiber /\ NoTimersCleared
      \/ DrainTimeout \/ Ends
  BY DEF Shutdown, Close, Crash, Restart, process, DeleteExecution, NoTimersCleared
<1> QED
  BY <1>1, <1>2, <1>3, <1>4

(* What a caller is suspended with *)
LEMMA CallKinds ==
  /\ Idle \in Calls /\ Idle.op = "idle" /\ Idle.on = 0
  /\ \A e \in Ids, n \in {"idle", "mark"} :
       LET x == [op |-> "dispatch", on |-> e, next |-> n]
       IN  x \in Calls /\ x.op = "dispatch" /\ x.on = e /\ x.next = n
  /\ \A k \in Keys \cup {0}, n \in {"idle", "mark"} :
       LET x == [op |-> "create", on |-> 0, key |-> k, next |-> n]
       IN  x \in Calls /\ x.op = "create" /\ x.on = 0 /\ x.next = n /\ x.key = k
  /\ \A e \in Ids, o \in {"mark", "resume", "continue", "cancel"} :
       LET x == [op |-> o, on |-> e] IN x \in Calls /\ x.op = o /\ x.on = e
BY DEF Calls, Idle

(* A suspended caller knows executions that were created. *)
LEMMA CallAsked ==
  ASSUME CallsSound, NEW c \in Callers, NEW x, Suspend(c, x),
         x \in Calls, Created \subseteq Created',
         x.op \notin {"idle", "create"} => x.on \in Created',
         x.op = "create" /\ x.next = "idle" => x.key \in Keys
  PROVE  CallsSound'
<1>1. calls' = [calls EXCEPT ![c] = x]
  BY DEF Suspend
<1>2. calls' \in [Callers -> Calls]
  BY <1>1 DEF CallsSound
<1>3. \A d \in Callers : calls'[d] = calls[d] \/ calls'[d] = x
  BY <1>1 DEF CallsSound
<1> QED
  BY <1>2, <1>3 DEF CallsSound, Asked

LEMMA Finished ==
  ASSUME CallsSound, NEW c \in Callers, Finish(c), Created \subseteq Created'
  PROVE  CallsSound'
BY CallAsked, CallKinds DEF Finish

LEMMA CallsNext ==
  ASSUME RowsSound, CopiesSound, [Next]_vars
  PROVE  CallsSound'
<1>a. /\ CallsSound /\ Created \subseteq Created' /\ RowsSound'
      /\ Created \subseteq Ids /\ Created' \subseteq Ids
  <2>1. RowsSound' /\ Created \subseteq Created'
    BY RowsNext
  <2> QED
    BY <2>1, CreatedIds, MaxExecsAssumption DEF CopiesSound, RowsSound, Created, Ids
<1>b. \A e \in Ids : Has(e) => e \in Created
  BY DEF RowsSound
<1>1. CASE UNCHANGED calls
  BY <1>a, <1>1 DEF CallsSound, Asked
<1>2. ASSUME NEW c \in Callers, CallerNext(c) PROVE CallsSound'
  <2>1. ASSUME NEW k \in Keys, Trigger(c, k) PROVE CallsSound'
    BY <1>a, <2>1, CallAsked, CallKinds DEF Trigger
  <2>2. ASSUME NEW e \in Ids, Replay(c, e) PROVE CallsSound'
    BY <1>a, <2>2, CallAsked, CallKinds DEF Replay
  <2>3. ASSUME NEW e \in Ids, Resume(c, e) PROVE CallsSound'
    <3>1. e \in Created
      BY <1>b, <2>3, RowThere DEF Resume, States
    <3> QED
      BY <1>a, <2>3, <3>1, CallAsked, CallKinds DEF Resume
  <2>4. ASSUME NEW e \in Ids, Cancel(c, e) PROVE CallsSound'
    <3>1. e \in Created
      BY <1>b, <2>4 DEF Cancel
    <3> QED
      BY <1>a, <2>4, <3>1, CallAsked, CallKinds DEF Cancel
  <2>5. CASE Create(c)
    <3> DEFINE e == Len(keyOf) + 1
               x == [op |-> "dispatch", on |-> e, next |-> calls[c].next]
    <3>1. Len(keyOf') = e /\ e \in Ids /\ Len(keyOf) \in Nat
      BY <1>a, <2>5, CreateSound, CreatedIds
    <3>2. e \in Created'
      BY <3>1 DEF Created
    <3>3. calls[c].next \in {"idle", "mark"} /\ Suspend(c, x)
      BY <1>a, <2>5 DEF Create, CallsSound, Asked, Calls
    <3>4. x \in Calls /\ x.op = "dispatch" /\ x.on = e
      BY <3>1, <3>3, CallKinds
    <3> HIDE DEF x, e
    <3> QED
      BY <1>a, <3>2, <3>3, <3>4, CallAsked
  <2>6. CASE Dispatch(c)
    <3>1. calls[c].on \in Created /\ calls[c].on \in Ids
      BY <1>a, <2>6 DEF Dispatch, CallsSound, Asked
    <3>2. Finish(c) \/ Suspend(c, [op |-> "mark", on |-> calls[c].on])
      BY <2>6 DEF Dispatch
    <3> QED
      BY <1>a, <3>1, <3>2, Finished, CallAsked, CallKinds
  <2>7. CASE ResumeReads(c)
    <3>1. calls[c].on \in Created /\ calls[c].on \in Ids /\ calls[c].op = "resume"
      BY <1>a, <2>7 DEF ResumeReads, CallsSound, Asked
    <3>2. [calls[c] EXCEPT !.op = "continue"] = [op |-> "continue", on |-> calls[c].on]
      BY <1>a, <3>1 DEF CallsSound, Calls
    <3>3. Finish(c) \/ Suspend(c, [op |-> "continue", on |-> calls[c].on])
      BY <2>7, <3>2 DEF ResumeReads
    <3> QED
      BY <1>a, <3>1, <3>3, Finished, CallAsked, CallKinds
  <2>8. CASE ReplayMarks(c) \/ ResumeContinues(c) \/ CancelWrites(c)
    BY <1>a, <2>8, Finished DEF ReplayMarks, ResumeContinues, CancelWrites
  <2> QED
    BY <1>2, <2>1, <2>2, <2>3, <2>4, <2>5, <2>6, <2>7, <2>8 DEF CallerNext
<1>3. CASE Ends
  BY <1>3, CallKinds DEF Ends, InitProcess, CallsSound, Asked
<1>4. ASSUME NEW f \in Fibers, FiberNext(f) PROVE UNCHANGED calls
  BY <1>4 DEF FiberNext, ResumeRuns, Completes, FreesSlot, Throws, ThrowsRetryable, ArmRetry,
              RetryFires, Waits, WaitsOn, WaitTimeout, DispatchQueued, Proceeds
<1>5. UNCHANGED calls \/ Ends \/ \E c \in Callers : CallerNext(c)
  BY <1>4 DEF Next, vars, process, DeleteExecution, Shutdown, DrainTimeout, Close, Crash, Restart
<1> QED
  BY <1>1, <1>2, <1>3, <1>5

LEMMA CopiesNext ==
  ASSUME RowsSound, CopiesSound, [Next]_vars
  PROVE  CopiesSound'
<1>1. /\ fiber' = [g \in Fibers |-> fiber'[g]] /\ \A g \in Fibers : FiberStep(g)
      /\ TimersSound'
  <2>1. CASE UNCHANGED vars
    BY <2>1 DEF vars, process, CopiesSound, FibersSound, TimersSound, FiberStep
  <2>2. ASSUME NEW f \in Fibers, FiberNext(f)
        PROVE  /\ fiber' = [g \in Fibers |-> fiber'[g]] /\ \A g \in Fibers : FiberStep(g)
               /\ TimersSound'
    BY <2>2, FibersMove, TimersMove
  <2> QED
    BY <2>1, <2>2, CallerCopies, ProcessCopies DEF Next
<1>2. Created \subseteq Created' /\ Created \subseteq Ids
  BY RowsNext, CreatedIds
<1>3. FibersSound'
  <2>1. ASSUME NEW g \in Fibers
        PROVE  /\ fiber'[g] \in Copy
               /\ IF fiber'[g].at = "none" THEN fiber'[g].on = 0 ELSE fiber'[g].on \in Created'
    <3>1. fiber[g] \in Copy /\ IF fiber[g].at = "none" THEN fiber[g].on = 0 ELSE fiber[g].on \in Created
      BY DEF CopiesSound, FibersSound, Held
    <3>2. CASE fiber'[g] = fiber[g]
      BY <1>2, <3>1, <3>2
    <3>3. CASE fiber'[g] = NoFiber
      BY <3>3, CopyStates DEF NoFiber, Copy
    <3>4. ASSUME NEW e \in Created, NEW w \in DOMAIN CopyState \ {"none"}, fiber'[g] = [on |-> e, at |-> w]
          PROVE  fiber'[g] \in Copy /\ fiber'[g].at # "none" /\ fiber'[g].on \in Created'
      BY <1>2, <3>4, NewCopy
    <3>5. FiberStep(g)
      BY <1>1
    <3> QED
      BY <3>2, <3>3, <3>4, <3>5 DEF FiberStep
  <2> QED
    BY <1>1, <2>1 DEF FibersSound, Held
<1> QED
  BY <1>1, <1>3, CallsNext DEF CopiesSound

(***************************************************************************)
(* The slots                                                               *)
(***************************************************************************)

LEMMA SlotKept ==
  ASSUME SlotsSound, Holders' \subseteq Holders, active' = active
  PROVE  SlotsSound'
<1>1. IsFiniteSet(Holders') /\ Cardinality(Holders') <= Cardinality(Holders)
  BY FS_Subset DEF SlotsSound
<1>2. Cardinality(Holders) \in Nat /\ Cardinality(Holders') \in Nat
  BY <1>1, FS_CardinalityType DEF SlotsSound
<1> QED
  BY <1>1, <1>2 DEF SlotsSound

LEMMA SlotTaken ==
  ASSUME SlotsSound, NEW f, Holders' \subseteq Holders \cup {f}, active' = active + 1
  PROVE  SlotsSound'
<1> DEFINE S == Holders \cup {f}
<1>1. IsFiniteSet(S) /\ Cardinality(S) <= Cardinality(Holders) + 1 /\ Cardinality(Holders) \in Nat
  BY FS_AddElement, FS_CardinalityType DEF SlotsSound
<1>2. IsFiniteSet(Holders') /\ Cardinality(Holders') <= Cardinality(S)
  BY <1>1, FS_Subset
<1>3. Cardinality(S) \in Nat /\ Cardinality(Holders') \in Nat
  BY <1>1, <1>2, FS_CardinalityType
<1> HIDE DEF S
<1> QED
  BY <1>1, <1>2, <1>3 DEF SlotsSound

LEMMA SlotFreed ==
  ASSUME SlotsSound, NEW f \in Holders, Holders' \subseteq Holders \ {f}, active' = active - 1
  PROVE  SlotsSound'
<1> DEFINE S == Holders \ {f}
<1>1. IsFiniteSet(S) /\ Cardinality(S) = Cardinality(Holders) - 1 /\ Cardinality(Holders) \in Nat
  BY FS_RemoveElement, FS_CardinalityType DEF SlotsSound
<1>2. IsFiniteSet(Holders') /\ Cardinality(Holders') <= Cardinality(S)
  BY <1>1, FS_Subset
<1>3. Cardinality(S) \in Nat /\ Cardinality(Holders') \in Nat
  BY <1>1, <1>2, FS_CardinalityType
<1> HIDE DEF S
<1> QED
  BY <1>1, <1>2, <1>3 DEF SlotsSound

(* What takes no slot *)
LEMMA Unslotted ==
  /\ NoFiber.at \notin Slotted
  /\ \A x : Fresh(x) => x.at \notin Slotted
BY DEF NoFiber, Fresh, Slotted

LEMMA SlotsMove ==
  ASSUME RowsSound, CopiesSound, SlotsSound, NEW f \in Fibers, FiberNext(f)
  PROVE  SlotsSound'
<1>a. FibersSound /\ fiber = [g \in Fibers |-> fiber[g]]
  BY DEF CopiesSound, FibersSound
<1>b. Goes(f) => \A g \in Fibers \ {f} : fiber'[g].at \in Slotted => fiber[g].at \in Slotted
  BY OthersStay, Unslotted
<1>c. Settles(f) => \A g \in Fibers \ {f} : fiber'[g].at \in Slotted => fiber[g].at \in Slotted
  BY OthersCleared, Unslotted
<1>1. CASE ResumeRuns(f)
  <2>1. Holders' \subseteq Holders \cup {f} /\ active' = active + 1
    BY <1>1, <1>b DEF Goes, ResumeRuns, Holders
  <2> QED
    BY <2>1, SlotTaken
<1>2. CASE Completes(f)
  <2>1. Holders' \subseteq Holders /\ active' = active
    BY <1>2, <1>c DEF Settles, Completes, Holders, At, Slotted
  <2> QED
    BY <2>1, SlotKept
<1>3. CASE FreesSlot(f)
  <2>1. fiber'[f] = AfterTerminal(rows, active - 1)
    BY <1>3, <1>a DEF FreesSlot
  <2>2. fiber'[f].at \notin Slotted
    BY <2>1, FreshCopy, Unslotted
  <2>3. f \in Holders /\ Holders' \subseteq Holders \ {f} /\ active' = active - 1
    BY <1>3, <1>b, <2>2 DEF Goes, FreesSlot, Holders, At, Slotted
  <2> QED
    BY <2>3, SlotFreed
<1>4. CASE Throws(f)
  <2>1. fiber'[f] = AfterTerminal(rows', active - 1)
    BY <1>4 DEF Throws, Moved
  <2>2. fiber'[f].at \notin Slotted
    BY <2>1, AfterTerminalHeld, Unslotted DEF Slotted
  <2>3. f \in Holders /\ Holders' \subseteq Holders \ {f} /\ active' = active - 1
    BY <1>4, <1>c, <2>2 DEF Settles, Throws, Holders, At, Slotted
  <2> QED
    BY <2>3, SlotFreed
<1>5. CASE ThrowsRetryable(f) \/ ArmRetry(f) \/ RetryFires(f) \/ Waits(f)
  <2>1. Holders' \subseteq Holders /\ active' = active
    BY <1>5, <1>b DEF Goes, ThrowsRetryable, ArmRetry, RetryFires, Waits, Proceeds, Holders, At, Slotted
  <2> QED
    BY <2>1, SlotKept
<1>6. CASE WaitsOn(f)
  <2> DEFINE x == AfterTerminal(rows, active - 1)
  <2>1. x.at \notin Slotted
    BY FreshCopy, Unslotted
  <2>2. /\ active' = active - 1 /\ fiber[f].at = "parked"
        /\ \/ fiber' = [fiber EXCEPT ![f] = x]
           \/ \E g \in Free : fiber' = [fiber EXCEPT ![f].at = "waiting", ![g] = x]
    BY <1>6 DEF WaitsOn, At
  <2> HIDE DEF x
  <2>3. fiber'[f].at \notin Slotted
    <3>1. CASE fiber' = [fiber EXCEPT ![f] = x]
      BY <1>a, <2>1, <3>1
    <3>2. ASSUME NEW g \in Free, fiber' = [fiber EXCEPT ![f].at = "waiting", ![g] = x]
          PROVE  fiber'[f].at \notin Slotted
      <4>1. g # f
        BY <2>2 DEF Free, NoFiber
      <4>2. fiber'[f].at = "waiting"
        BY <1>a, <3>2, <4>1 DEF FibersSound, Copy
      <4> QED
        BY <4>2 DEF Slotted
    <3> QED
      BY <2>2, <3>1, <3>2
  <2>4. f \in Holders /\ Holders' \subseteq Holders \ {f}
    BY <1>6, <1>b, <2>2, <2>3 DEF Goes, Holders, Slotted
  <2> QED
    BY <2>2, <2>4, SlotFreed
<1>7. CASE WaitTimeout(f)
  <2>1. fiber'[f] = NoFiber /\ active' = active
    BY <1>7 DEF WaitTimeout, Moved
  <2>2. Holders' \subseteq Holders
    BY <1>7, <1>c, <2>1, Unslotted DEF Settles, Holders
  <2> QED
    BY <2>1, <2>2, SlotKept
<1>8. CASE DispatchQueued(f)
  <2>1. CASE fiber' = [fiber EXCEPT ![f] = NoFiber] /\ active' = active
    <3>1. Holders' \subseteq Holders
      BY <1>a, <1>8, <1>b, <2>1, Unslotted DEF Goes, Holders
    <3> QED
      BY <2>1, <3>1, SlotKept
  <2>2. CASE active' = active + 1
    <3>1. Holders' \subseteq Holders \cup {f}
      BY <1>8, <1>b DEF Goes, Holders
    <3> QED
      BY <2>2, <3>1, SlotTaken
  <2> QED
    BY <1>8, <2>1, <2>2 DEF DispatchQueued, Start
<1> QED
  BY <1>1, <1>2, <1>3, <1>4, <1>5, <1>6, <1>7, <1>8 DEF FiberNext

LEMMA SlotsNext ==
  ASSUME RowsSound, CopiesSound, SlotsSound, [Next]_vars
  PROVE  SlotsSound'
<1>a. FibersSound /\ fiber = [g \in Fibers |-> fiber[g]]
  BY DEF CopiesSound, FibersSound
<1>1. CASE UNCHANGED <<fiber, active>>
  BY <1>1 DEF SlotsSound, Holders
<1>2. ASSUME NEW gone, fiber' = Dropped(gone), active' = active
      PROVE  SlotsSound'
  <2>1. Holders' \subseteq Holders
    BY <1>2, Unslotted DEF Dropped, Holders
  <2> QED
    BY <1>2, <2>1, SlotKept
<1>3. ASSUME NEW c \in Callers, Dispatch(c) PROVE SlotsSound'
  <2>1. ASSUME NEW f \in Free, Start(f, calls[c].on) PROVE SlotsSound'
    <3>1. Holders' \subseteq Holders \cup {f} /\ active' = active + 1
      BY <1>a, <2>1 DEF Start, Holders
    <3> QED
      BY <3>1, SlotTaken
  <2> QED
    BY <1>1, <1>3, <2>1 DEF Dispatch
<1>4. ASSUME NEW c \in Callers, ResumeContinues(c) PROVE SlotsSound'
  <2> DEFINE e == calls[c].on
  <2>1. active' = active /\ \E f \in Free \cup waitTimer[e] :
          fiber' = [g \in Fibers |-> IF g = f THEN [on |-> e, at |-> "resuming"]
                                     ELSE IF g \in waitTimer[e] THEN NoFiber ELSE fiber[g]]
    BY <1>4 DEF ResumeContinues, Moved
  <2> HIDE DEF e
  <2>2. Holders' \subseteq Holders
    BY <2>1, Unslotted DEF Holders, Slotted
  <2> QED
    BY <2>1, <2>2, SlotKept
<1>5. ASSUME NEW c \in Callers, CancelWrites(c) PROVE SlotsSound'
  BY <1>2, <1>5 DEF CancelWrites
<1>6. CASE DrainTimeout
  BY <1>2, <1>6 DEF DrainTimeout
<1>7. CASE Ends
  <2>1. active' = 0 /\ Holders' = {}
    BY <1>7, Unslotted DEF Ends, InitProcess, Holders
  <2> QED
    BY <2>1, FS_EmptySet DEF SlotsSound
<1>8. ASSUME NEW c \in Callers, CallerNext(c)
      PROVE  UNCHANGED <<fiber, active>> \/ Dispatch(c) \/ ResumeContinues(c) \/ CancelWrites(c)
  BY <1>8 DEF CallerNext, Trigger, Replay, Resume, Cancel, Create, ReplayMarks, ResumeReads
<1>9. CASE \E f \in Fibers : FiberNext(f)
  BY <1>9, SlotsMove
<1>10. UNCHANGED vars \/ Shutdown \/ Restart \/ (\E e \in Ids : DeleteExecution(e))
         => UNCHANGED <<fiber, active>>
  BY DEF vars, process, Shutdown, Restart, DeleteExecution
<1>11. CASE \E c \in Callers : CallerNext(c)
  BY <1>1, <1>3, <1>4, <1>5, <1>8, <1>11
<1> QED
  BY <1>1, <1>6, <1>7, <1>9, <1>10, <1>11 DEF Next, Close, Crash

(***************************************************************************)
(* What drives a row                                                       *)
(***************************************************************************)

AtWork == {"running", "retrying"}

DrivenRow(e) ==
  rows[e].state \in AtWork =>
    \/ e \in ignored
    \/ \E f \in Fibers : fiber[f].on = e /\ CopyState[fiber[f].at] = rows[e].state

LEMMA AllDriven == RowsDriven <=> (status # "down" => \A e \in Ids : DrivenRow(e))
BY DEF RowsDriven, DrivenRow, StateOf, AtWork

(* The copies at work for e stay, or are moved within the state. *)
Kept(e) ==
  \A g \in Fibers : fiber[g].on = e /\ CopyState[fiber[g].at] \in AtWork =>
    fiber'[g].on = e /\ CopyState[fiber'[g].at] = CopyState[fiber[g].at]

(* A row whose state stays, or which is gone or at rest, is still driven. *)
LEMMA DrivenKept ==
  ASSUME NEW e \in Ids, DrivenRow(e), UNCHANGED ignored,
         rows'[e].state \in AtWork => rows'[e].state = rows[e].state /\ Kept(e)
  PROVE  DrivenRow(e)'
BY DEF DrivenRow, Kept

LEMMA AbsentAtRest == Absent.state \notin AtWork
BY DEF Absent, AtWork

(* A row that is written: the others *)
LEMMA OthersDriven ==
  ASSUME NEW e \in Ids, NEW s, Wrote(e, s), UNCHANGED ignored,
         NEW d \in Ids \ {e}, DrivenRow(d), Kept(d)
  PROVE  DrivenRow(d)'
<1>1. CASE rows'[d] = rows[d]
  BY <1>1, DrivenKept
<1>2. CASE rows'[d] = Absent
  BY <1>2, AbsentAtRest, DrivenKept
<1> QED
  BY <1>1, <1>2 DEF Wrote

LEMMA FiberKeeps ==
  ASSUME RowsSound, CopiesSound, NEW f \in Fibers, FiberNext(f)
  PROVE  /\ fiber[f].on \in Created /\ fiber[f].on \in Ids
         /\ \A d \in Ids \ {fiber[f].on} : Kept(d)
         /\ Goes(f) => \A g \in Fibers \ {f} : fiber[g].on # 0 => fiber'[g] = fiber[g]
<1>1. fiber[f].at # "none"
  BY DEF FiberNext, ResumeRuns, Completes, FreesSlot, Throws, ThrowsRetryable, ArmRetry,
         RetryFires, Waits, WaitsOn, WaitTimeout, DispatchQueued, At
<1>2. fiber[f].on \in Created /\ fiber[f].on \in Ids
  BY <1>1, CreatedIds DEF CopiesSound, FibersSound, Held
<1>3. Goes(f) => \A g \in Fibers \ {f} : fiber[g].on # 0 => fiber'[g] = fiber[g]
  <2>1. NoFiber.on = 0
    BY DEF NoFiber
  <2> QED
    BY <2>1, OthersStay
<1>4. Goes(f) => \A d \in Ids \ {fiber[f].on} : Kept(d)
  BY <1>3, IdsAreNumbers DEF Kept
<1>5. Settles(f) => \A d \in Ids \ {fiber[f].on} : Kept(d)
  <2> SUFFICES ASSUME Settles(f), NEW d \in Ids \ {fiber[f].on}, NEW g \in Fibers, fiber[g].on = d
               PROVE  fiber'[g] = fiber[g]
    BY DEF Kept
  <2>1. g # f
    OBVIOUS
  <2>2. g \notin Cleared(fiber[f].on)
    BY <1>2, AtTimer DEF CopiesSound
  <2> QED
    BY <2>1, <2>2, OthersCleared
<1>6. Goes(f) \/ Settles(f)
  BY DEF FiberNext, Goes, Settles
<1> QED
  BY <1>2, <1>3, <1>4, <1>5, <1>6

LEMMA DrivenMove ==
  ASSUME RowsSound, CopiesSound, NEW f \in Fibers, FiberNext(f),
         \A e \in Ids : DrivenRow(e)
  PROVE  \A e \in Ids : DrivenRow(e)'
<1>i. PICK e \in Ids : e = fiber[f].on
  BY FiberKeeps
<1>a. /\ e \in Created
      /\ \A d \in Ids \ {e} : Kept(d)
      /\ Goes(f) => \A g \in Fibers \ {f} : fiber[g].on = e => fiber'[g] = fiber[g]
  BY <1>i, FiberKeeps, IdsAreNumbers
<1>b. fiber \in [Fibers -> Copy] /\ fiber = [g \in Fibers |-> fiber[g]] /\ fiber[f] \in Copy
  BY DEF CopiesSound, FibersSound
<1>c. UNCHANGED ignored
  BY DEF FiberNext, ResumeRuns, Completes, FreesSlot, Throws, ThrowsRetryable, ArmRetry,
         RetryFires, Waits, WaitsOn, WaitTimeout, DispatchQueued, Proceeds
<1>d. ASSUME NEW s \in States, Write(e, s), UNCHANGED keyOf,
             s \in AtWork => fiber'[f].on = e /\ CopyState[fiber'[f].at] = s
      PROVE  \A d \in Ids : DrivenRow(d)'
  <2>1. Wrote(e, s)
    BY <1>a, <1>d, WriteSound
  <2>2. \A d \in Ids \ {e} : DrivenRow(d)'
    BY <1>a, <1>c, <2>1, OthersDriven
  <2>3. DrivenRow(e)'
    BY <1>d, <2>1 DEF DrivenRow, Wrote
  <2> QED
    BY <2>2, <2>3
<1>e. ASSUME UNCHANGED rows, Goes(f),
             \/ CopyState[fiber[f].at] \notin AtWork
             \/ fiber'[f].on = e /\ CopyState[fiber'[f].at] = CopyState[fiber[f].at]
      PROVE  \A d \in Ids : DrivenRow(d)'
  <2>1. Kept(e)
    BY <1>a, <1>e DEF Kept
  <2> QED
    BY <1>a, <1>c, <1>e, <2>1, DrivenKept
<1>1. CASE Settles(f)
  <2>1. UNCHANGED keyOf /\ (Write(e, "complete") \/ Write(e, "failed"))
    BY <1>i, <1>1 DEF Settles, Completes, Throws, WaitTimeout
  <2> QED
    BY <1>d, <2>1 DEF States, AtWork
<1>2. CASE ThrowsRetryable(f) \/ Waits(f)
  <2>1. UNCHANGED keyOf
    BY <1>2 DEF ThrowsRetryable, Waits, Proceeds
  <2>2. ThrowsRetryable(f) => Write(e, "retrying") /\ fiber'[f].on = e /\ fiber'[f].at = "backoff"
    BY <1>i, <1>b DEF ThrowsRetryable, Proceeds, Copy
  <2>3. Waits(f) => Write(e, "waiting")
    BY <1>i DEF Waits, Proceeds
  <2> QED
    BY <1>d, <1>2, <2>1, <2>2, <2>3, CopyStates DEF States, AtWork
<1>3. CASE RetryFires(f)
  <2>1. UNCHANGED keyOf /\ Write(e, "running") /\ fiber'[f].on = e /\ fiber'[f].at = "handler"
    BY <1>i, <1>b, <1>3 DEF RetryFires, Copy
  <2> QED
    BY <1>d, <2>1, CopyStates DEF States, AtWork
<1>4. CASE DispatchQueued(f)
  <2>1. CASE Start(f, e)
    <3>1. UNCHANGED keyOf /\ Write(e, "running") /\ fiber'[f].on = e /\ fiber'[f].at = "handler"
      BY <1>i, <1>b, <1>4, <2>1 DEF DispatchQueued, Start
    <3> QED
      BY <1>d, <3>1, CopyStates DEF States, AtWork
  <2>2. CASE UNCHANGED rows
    BY <1>4, <1>e, <2>2, CopyStates DEF DispatchQueued, At, Goes, AtWork
  <2> QED
    BY <1>i, <1>4, <2>1, <2>2 DEF DispatchQueued
<1>5. CASE ResumeRuns(f) \/ ArmRetry(f)
  <2>1. ResumeRuns(f) => fiber[f].at = "resuming" /\ fiber'[f].on = e /\ fiber'[f].at = "resumed"
    BY <1>i, <1>b DEF ResumeRuns, At, Copy
  <2>2. ArmRetry(f) => fiber[f].at = "backoff" /\ fiber'[f].on = e /\ fiber'[f].at = "retry"
    BY <1>i, <1>b DEF ArmRetry, At, Copy
  <2>3. UNCHANGED rows /\ Goes(f)
    BY <1>5 DEF ResumeRuns, ArmRetry, Goes
  <2> QED
    BY <1>e, <1>5, <2>1, <2>2, <2>3, CopyStates
<1>6. CASE FreesSlot(f) \/ WaitsOn(f)
  <2>1. UNCHANGED rows /\ Goes(f) /\ fiber[f].at \in {"done", "parked"}
    BY <1>6 DEF FreesSlot, WaitsOn, Goes, At
  <2> QED
    BY <1>e, <2>1, CopyStates DEF AtWork
<1> QED
  BY <1>1, <1>2, <1>3, <1>4, <1>5, <1>6 DEF FiberNext, Settles

LEMMA DrivenNext ==
  ASSUME RowsSound, CopiesSound, RowsDriven, [Next]_vars
  PROVE  RowsDriven'
<1> SUFFICES ASSUME status' # "down" PROVE \A e \in Ids : DrivenRow(e)'
  BY DEF RowsDriven, DrivenRow, StateOf, AtWork
<1>a. FibersSound /\ fiber = [g \in Fibers |-> fiber[g]]
  BY DEF CopiesSound, FibersSound
<1>1. CASE UNCHANGED <<rows, fiber, ignored>> /\ status # "down"
  <2>1. \A e \in Ids : DrivenRow(e) /\ Kept(e)
    BY <1>1, AllDriven DEF Kept
  <2> QED
    BY <1>1, <2>1, DrivenKept
<1>2. ASSUME NEW f \in Fibers, FiberNext(f) PROVE \A e \in Ids : DrivenRow(e)'
  <2>1. status # "down"
    BY <1>2 DEF FiberNext, ResumeRuns, Completes, FreesSlot, Throws, ThrowsRetryable, ArmRetry,
         RetryFires, Waits, WaitsOn, WaitTimeout, DispatchQueued, Proceeds
  <2> QED
    BY <1>2, <2>1, AllDriven, DrivenMove
<1>3. ASSUME NEW c \in Callers, CallerNext(c), status # "down" PROVE \A e \in Ids : DrivenRow(e)'
  <2>a. \A e \in Ids : DrivenRow(e)
    BY <1>3, AllDriven
  <2>b. calls[c].op \notin {"idle", "create"} => calls[c].on \in Created /\ calls[c].on \in Ids
    BY CreatedIds DEF CopiesSound, CallsSound, Asked
  <2>c. UNCHANGED ignored
    BY <1>3 DEF CallerNext, Trigger, Replay, Resume, Cancel, Create, ReplayMarks, ResumeReads,
                Dispatch, ResumeContinues, CancelWrites
  <2>1. CASE Create(c)
    <3>1. PICK e \in Ids : Wrote(e, "queued")
      BY <2>1, CreateSound DEF CopiesSound, InitialState
    <3>2. \A d \in Ids : Kept(d)
      BY <2>1 DEF Create, Kept
    <3>3. DrivenRow(e)'
      BY <3>1 DEF DrivenRow, Wrote, AtWork
    <3> QED
      BY <2>a, <2>c, <3>1, <3>2, <3>3, OthersDriven
  <2>2. CASE Dispatch(c) /\ ~UNCHANGED <<rows, fiber>>
    <3>1. PICK f \in Free : Start(f, calls[c].on)
      BY <2>2 DEF Dispatch
    <3>i. PICK e \in Ids : e = calls[c].on
      BY <2>2, <2>b DEF Dispatch
    <3>2. e \in Created /\ Write(e, "running") /\ UNCHANGED keyOf
      BY <2>2, <2>b, <3>1, <3>i DEF Dispatch, Start
    <3>3. f \in Fibers /\ fiber[f].on = 0 /\ fiber' = [fiber EXCEPT ![f] = [on |-> e, at |-> "handler"]]
      BY <3>1, <3>i DEF Start, Free, NoFiber
    <3>4. Wrote(e, "running")
      BY <3>2, WriteSound DEF States
    <3>5. \A d \in Ids : Kept(d)
      BY <1>a, <3>3, IdsAreNumbers DEF Kept
    <3>6. fiber'[f].on = e /\ CopyState[fiber'[f].at] = "running"
      BY <1>a, <3>3, CopyStates
    <3>7. DrivenRow(e)'
      BY <3>3, <3>4, <3>6 DEF DrivenRow, Wrote
    <3> QED
      BY <2>a, <2>c, <3>2, <3>4, <3>5, <3>7, OthersDriven
  <2>3. CASE ReplayMarks(c)
    <3>i. PICK e \in Ids : e = calls[c].on
      BY <2>3, <2>b DEF ReplayMarks
    <3>1. e \in Created /\ Write(e, "queued") /\ UNCHANGED keyOf
      BY <2>3, <2>b, <3>i DEF ReplayMarks
    <3>2. \A d \in Ids : Kept(d)
      BY <2>3 DEF ReplayMarks, Kept
    <3>3. Wrote(e, "queued")
      BY <3>1, WriteSound DEF States
    <3>4. DrivenRow(e)'
      BY <3>3 DEF DrivenRow, Wrote, AtWork
    <3> QED
      BY <2>a, <2>c, <3>1, <3>2, <3>3, <3>4, OthersDriven
  <2>4. CASE ResumeContinues(c)
    <3>i. PICK e \in Ids : e = calls[c].on
      BY <2>4, <2>b DEF ResumeContinues
    <3>1. e \in Created /\ Write(e, "running") /\ UNCHANGED keyOf
      BY <2>4, <2>b, <3>i DEF ResumeContinues
    <3>2. PICK f \in Free \cup waitTimer[e] :
            fiber' = [g \in Fibers |-> IF g = f THEN [on |-> e, at |-> "resuming"]
                                       ELSE IF g \in waitTimer[e] THEN NoFiber ELSE fiber[g]]
      BY <2>4, <3>i DEF ResumeContinues, Moved
    <3>3. \A g \in waitTimer[e] : g \in Fibers /\ fiber[g].on = e
      BY <3>1, AtTimer DEF CopiesSound, Cleared
    <3>4. f \in Fibers /\ fiber[f].on \in {0, e}
      BY <3>3 DEF Free, NoFiber
    <3>5. Wrote(e, "running")
      BY <3>1, WriteSound DEF States
    <3>6. \A d \in Ids \ {e} : Kept(d)
      BY <3>2, <3>3, <3>4, IdsAreNumbers DEF Kept
    <3>7. fiber'[f].on = e /\ CopyState[fiber'[f].at] = "running"
      BY <3>2, <3>4, CopyStates
    <3>8. DrivenRow(e)'
      BY <3>4, <3>5, <3>7 DEF DrivenRow, Wrote
    <3> QED
      BY <2>a, <2>c, <3>1, <3>5, <3>6, <3>8, OthersDriven
  <2>5. CASE CancelWrites(c)
    <3>i. PICK e \in Ids : e = calls[c].on
      BY <2>5, <2>b DEF CancelWrites
    <3>1. /\ e \in Created /\ Write(e, "failed") /\ UNCHANGED keyOf
          /\ fiber' = Dropped(Cleared(e))
      BY <2>5, <2>b, <3>i DEF CancelWrites
    <3>2. \A d \in Ids \ {e} : Kept(d)
      BY <3>1, AtTimer DEF CopiesSound, Dropped, Kept
    <3>3. Wrote(e, "failed")
      BY <3>1, WriteSound DEF States
    <3>4. DrivenRow(e)'
      BY <3>3 DEF DrivenRow, Wrote, AtWork
    <3> QED
      BY <2>a, <2>c, <3>1, <3>2, <3>3, <3>4, OthersDriven
  <2>6. \/ UNCHANGED <<rows, fiber>> \/ Create(c) \/ (Dispatch(c) /\ ~UNCHANGED <<rows, fiber>>)
        \/ ReplayMarks(c) \/ ResumeContinues(c) \/ CancelWrites(c)
    BY <1>3 DEF CallerNext, Trigger, Replay, Resume, Cancel, ResumeReads
  <2> QED
    BY <1>1, <1>3, <2>c, <2>1, <2>2, <2>3, <2>4, <2>5, <2>6
<1>4. ASSUME NEW e \in Ids, DeleteExecution(e), status # "down" PROVE \A d \in Ids : DrivenRow(d)'
  <2>1. rows'[e] = Absent /\ (\A d \in Ids \ {e} : rows'[d] = rows[d]) /\ UNCHANGED <<fiber, ignored>>
    BY <1>4, DeleteSound DEF DeleteExecution
  <2>2. \A d \in Ids : Kept(d) /\ DrivenRow(d)
    BY <1>4, <2>1, AllDriven DEF Kept
  <2> QED
    BY <2>1, <2>2, AbsentAtRest, DrivenKept
<1>5. CASE DrainTimeout
  <2>1. \A e \in Ids : DrivenRow(e)
    BY <1>5, AllDriven DEF DrainTimeout
  <2> SUFFICES ASSUME NEW e \in Ids PROVE DrivenRow(e)'
    OBVIOUS
  <2>2. UNCHANGED ignored /\ IF StateOf(e) \in Orphaned THEN rows'[e].state = "failed" ELSE rows'[e] = rows[e]
    BY <1>5, DrainSound DEF DrainTimeout
  <2>3. rows'[e].state \notin AtWork
    BY <2>2 DEF AtWork, Orphaned, StateOf
  <2> QED
    BY <2>3 DEF DrivenRow
<1>6. CASE Restart
  <2> SUFFICES ASSUME NEW e \in Ids, rows'[e].state \in AtWork PROVE e \in ignored'
    BY DEF DrivenRow
  <2>1. PICK answers \in [Ids -> Answers] :
          /\ rows' = Recovered(answers)
          /\ ignored' = {d \in Ids : answers[d] = "ignore" /\ StateOf(d) \in {"running", "retrying"}}
    BY <1>6 DEF Restart
  <2>2. rows'[e] = rows[e] /\ (StateOf(e) \notin Orphaned \/ answers[e] = "ignore")
    BY <1>6, <2>1, RecoverSound DEF Restart, AtWork
  <2> QED
    BY <2>1, <2>2 DEF AtWork, Orphaned, StateOf
<1>7. \/ UNCHANGED <<rows, fiber, ignored>> /\ status # "down"
      \/ \E f \in Fibers : FiberNext(f)
      \/ (\E c \in Callers : CallerNext(c)) /\ status # "down"
      \/ \E e \in Ids : DeleteExecution(e) /\ status # "down"
      \/ DrainTimeout \/ Restart
  <2>1. CASE UNCHANGED vars
    BY <2>1 DEF vars, process
  <2>2. CASE Shutdown \/ \E e \in Ids : DeleteExecution(e)
    BY <2>2 DEF Shutdown, DeleteExecution
  <2>3. ~(Close \/ Crash)
    BY DEF Close, Crash, Ends
  <2>4. ASSUME NEW c \in Callers, CallerNext(c) PROVE status # "down"
    BY <2>4 DEF CallerNext, Trigger, Replay, Resume, Cancel, Create, ReplayMarks, ResumeReads,
                Dispatch, ResumeContinues, CancelWrites
  <2> QED
    BY <2>1, <2>2, <2>3, <2>4 DEF Next
<1> QED
  BY <1>1, <1>2, <1>3, <1>4, <1>5, <1>6, <1>7

(***************************************************************************)
(* The process and what is known to be behind                              *)
(***************************************************************************)

(* A process that is down takes no step but to be restarted. *)
LEMMA DownStays ==
  ASSUME DownSound, status = "down", Next
  PROVE  Restart
<1>1. (\A f \in Fibers : fiber[f].at = "none") /\ (\A c \in Callers : calls[c].op = "idle")
  BY DEF DownSound, NoFiber, Idle
<1>2. ASSUME NEW f \in Fibers PROVE ~FiberNext(f)
  BY <1>1 DEF FiberNext, ResumeRuns, Completes, FreesSlot, Throws, ThrowsRetryable, ArmRetry,
         RetryFires, Waits, WaitsOn, WaitTimeout, DispatchQueued, At
<1>3. ASSUME NEW c \in Callers PROVE ~CallerNext(c)
  BY <1>1 DEF CallerNext, Trigger, Replay, Resume, Cancel, Create, ReplayMarks, ResumeReads,
              Dispatch, ResumeContinues, CancelWrites
<1>4. ASSUME NEW e \in Ids PROVE ~DeleteExecution(e)
  BY DEF DeleteExecution
<1>5. ~(Shutdown \/ DrainTimeout \/ Close \/ Crash)
  BY DEF Shutdown, DrainTimeout, Close, Crash
<1> QED
  BY <1>2, <1>3, <1>4, <1>5 DEF Next

LEMMA StatusNext ==
  ASSUME Next
  PROVE  \/ UNCHANGED <<status, restarts, ignored>>
         \/ Shutdown \/ DrainTimeout \/ Ends \/ Restart
<1>1. ASSUME NEW f \in Fibers, FiberNext(f) PROVE UNCHANGED <<status, restarts, ignored>>
  BY <1>1 DEF FiberNext, ResumeRuns, Completes, FreesSlot, Throws, ThrowsRetryable, ArmRetry,
         RetryFires, Waits, WaitsOn, WaitTimeout, DispatchQueued, Proceeds
<1>2. ASSUME NEW c \in Callers, CallerNext(c) PROVE UNCHANGED <<status, restarts, ignored>>
  BY <1>2 DEF CallerNext, Trigger, Replay, Resume, Cancel, Create, ReplayMarks, ResumeReads,
              Dispatch, ResumeContinues, CancelWrites
<1>3. ASSUME NEW e \in Ids, DeleteExecution(e) PROVE UNCHANGED <<status, restarts, ignored>>
  BY <1>3 DEF DeleteExecution
<1> QED
  BY <1>1, <1>2, <1>3 DEF Next, Close, Crash

LEMMA DownNext ==
  ASSUME DownSound, [Next]_vars
  PROVE  DownSound'
<1>1. CASE UNCHANGED vars
  BY <1>1 DEF DownSound, vars, process
<1>2. CASE Next /\ status = "down"
  <2>1. Restart
    BY <1>2, DownStays
  <2> QED
    BY <2>1, BoundsAssumption DEF DownSound, Restart
<1>3. CASE Next /\ status # "down"
  <2>1. CASE UNCHANGED <<status, restarts, ignored>>
    BY <1>3, <2>1 DEF DownSound
  <2>2. CASE Shutdown \/ DrainTimeout
    BY <2>2 DEF DownSound, Shutdown, DrainTimeout
  <2>3. CASE Ends
    BY <2>3 DEF DownSound, Ends, InitProcess
  <2> QED
    BY <1>3, <2>1, <2>2, <2>3, StatusNext DEF Restart
<1> QED
  BY <1>1, <1>2, <1>3

(* Every step looks for what fell behind. *)
LEMMA Tracks ==
  ASSUME Next PROVE Tracked
<1>1. ASSUME NEW f \in Fibers, FiberNext(f) PROVE Tracked
  BY <1>1 DEF FiberNext, ResumeRuns, Completes, FreesSlot, Throws, ThrowsRetryable, ArmRetry,
         RetryFires, Waits, WaitsOn, WaitTimeout, DispatchQueued, Proceeds
<1>2. ASSUME NEW c \in Callers, CallerNext(c) PROVE Tracked
  BY <1>2 DEF CallerNext, Trigger, Replay, Resume, Cancel, Create, ReplayMarks, ResumeReads,
              Dispatch, ResumeContinues, CancelWrites
<1>3. ASSUME NEW e \in Ids, DeleteExecution(e) PROVE Tracked
  BY <1>3 DEF DeleteExecution
<1>4. Shutdown \/ DrainTimeout \/ Close \/ Crash \/ Restart => Tracked
  BY DEF Shutdown, DrainTimeout, Close, Crash, Ends, Restart
<1> QED
  BY <1>1, <1>2, <1>3, <1>4 DEF Next

LEMMA StaleNext ==
  ASSUME DownSound, StaleSound, [Next]_vars
  PROVE  StaleSound'
<1>1. CASE UNCHANGED vars
  BY <1>1 DEF StaleSound, Behind, StateOf, vars, process
<1>2. CASE Next /\ status' = "down"
  <2>1. (\A f \in Fibers : fiber'[f].on = 0) /\ (\A c \in Callers : calls'[c].on = 0)
    BY <1>2, DownNext DEF DownSound, NoFiber, Idle
  <2>2. \A e \in Ids : ~Behind(e)'
    BY <2>1, IdsAreNumbers DEF Behind
  <2>3. stale' = {}
    BY <1>2, Tracks DEF Tracked
  <2> QED
    BY <2>2, <2>3 DEF StaleSound
<1>3. CASE Next /\ status' # "down"
  <2>1. stale' = stale \cup {e \in Ids : Behind(e)'}
    BY <1>3, Tracks DEF Tracked
  <2> QED
    BY <2>1 DEF StaleSound
<1> QED
  BY <1>1, <1>2, <1>3

(***************************************************************************)
(* The theorems                                                            *)
(***************************************************************************)

LEMMA InitInv == Init => IInv
<1> SUFFICES ASSUME Init PROVE IInv
  OBVIOUS
<1>1. RowsSound
  <2>1. rows = [e \in Ids |-> Absent] /\ keyOf = << >>
    BY DEF Init, InitStore
  <2>2. \A e \in Ids : ~Has(e)
    BY <2>1 DEF Has
  <2> QED
    BY <2>1, <2>2, MaxExecsAssumption DEF RowsSound
<1>2. /\ fiber = [f \in Fibers |-> NoFiber] /\ active = 0
      /\ retryTimer = [e \in Ids |-> {}] /\ waitTimer = [e \in Ids |-> {}]
      /\ calls = [c \in Callers |-> Idle]
  BY DEF Init, InitProcess
<1>3. CopiesSound
  <2>1. FibersSound
    BY <1>2, CopyStates DEF FibersSound, Held, Copy, NoFiber
  <2>2. TimersSound
    BY <1>2 DEF TimersSound
  <2>3. CallsSound
    BY <1>2, CallKinds DEF CallsSound, Asked
  <2> QED
    BY <2>1, <2>2, <2>3 DEF CopiesSound
<1>4. SlotsSound
  <2>1. Holders = {}
    BY <1>2, Unslotted DEF Holders
  <2> QED
    BY <1>2, <2>1, FS_EmptySet DEF SlotsSound
<1>5. DownSound
  BY BoundsAssumption DEF Init, DownSound
<1>6. StaleSound
  <2>1. \A e \in Ids : ~Behind(e)
    BY <1>2, IdsAreNumbers DEF Behind, NoFiber, Idle
  <2> QED
    BY <2>1 DEF StaleSound, Init
<1>7. RowsDriven
  BY AbsentAtRest DEF Init, InitStore, RowsDriven, StateOf, AtWork
<1> QED
  BY <1>1, <1>3, <1>4, <1>5, <1>6, <1>7 DEF IInv

LEMMA NextInv == IInv /\ [Next]_vars => IInv'
BY RowsNext, CopiesNext, SlotsNext, DownNext, StaleNext, DrivenNext DEF IInv

(* The rows, the copies, the slots and what drives the rows stay in order    *)
(* (IInv), whatever the interleaving, the crashes and the answers.          *)
THEOREM Invariance == Spec => []IInv
BY InitInv, NextInv, PTL DEF Spec

(* Types: the tables, the fibers, the callers; active, from which a slot is  *)
(* taken back by whoever has one, stays a natural number.                  *)
THEOREM TypeCorrect == Spec => []TypeOK
<1>1. IInv => TypeOK
  BY DEF IInv, RowsSound, CopiesSound, FibersSound, TimersSound, CallsSound, SlotsSound,
         DownSound, StaleSound, TypeOK, Copy
<1> QED
  BY <1>1, Invariance, PTL

(* INSERT OR REPLACE (sqlite-state-store.ts:208): one row for a key, and each *)
(* row with the key its execution was made with.                           *)
THEOREM KeysUnique == Spec => []OneRowPerKey
<1>1. IInv => OneRowPerKey
  BY DEF IInv, RowsSound, OneRowPerKey, ByKey
<1> QED
  BY <1>1, Invariance, PTL

(* What reads as running or retrying has a coroutine or a timer, after a     *)
(* crash and a recovery too (engine.ts:1443-1648).                         *)
THEOREM AlwaysDriven == Spec => []RowsDriven
<1>1. IInv => RowsDriven
  BY DEF IInv
<1> QED
  BY <1>1, Invariance, PTL

(***************************************************************************)
(* How a row moves                                                         *)
(***************************************************************************)

(* A copy that is not known to be behind agrees with its row. *)
LEMMA Abreast ==
  ASSUME StaleSound, NEW e \in Ids, e \notin stale
  PROVE  /\ \A f \in Fibers : fiber[f].on = e => CopyState[fiber[f].at] = StateOf(e)
         /\ \A c \in Callers : calls[c].on = e /\ calls[c].op \in DOMAIN CallState =>
              CallState[calls[c].op] = StateOf(e)
         /\ \A c \in Callers : calls[c].on = e /\ calls[c].op = "cancel" =>
              StateOf(e) \notin Terminal \cup {"absent"}
BY DEF StaleSound, Behind

(* What is written is a move of the row, and of the others' if they go. *)
LEMMA WrittenMoves ==
  ASSUME RowsSound, NEW e \in Ids, NEW s, Wrote(e, s),
         e \in stale \/ CanMove(StateOf(e), s) \/ rows'[e] = rows[e],
         NEW d \in Ids
  PROVE  d \in stale \/ RowMove(d)
<1>1. rows'[e] # Absent
  <2>1. rows'[e].state # Absent.state
    BY DEF Wrote, Row, States, Absent
  <2> QED
    BY <2>1
<1>2. CASE d = e
  <2>1. CanMove(StateOf(e), s) => Has(e)
    BY RowThere DEF CanMove
  <2> QED
    BY <1>1, <1>2, <2>1 DEF RowMove, Wrote, Has, StateOf
<1>3. CASE d # e
  BY <1>1, <1>3 DEF RowMove, Wrote, Has
<1> QED
  BY <1>2, <1>3

LEMMA StaysPut ==
  ASSUME NEW d \in Ids, rows'[d] = rows[d] PROVE RowMove(d)
BY DEF RowMove

LEMMA LifecycleMoves ==
  /\ CanMove("queued", "running") /\ CanMove("running", "complete")
  /\ CanMove("running", "failed") /\ CanMove("waiting", "failed")
  /\ CanMove("running", "retrying") /\ CanMove("running", "waiting")
  /\ CanMove("retrying", "running") /\ CanMove("waiting", "running")
  /\ \A s \in States \ Terminal : CanMove(s, "failed")
BY DEF CanMove, States, Successors, Terminal

LEMMA FiberRowMoves ==
  ASSUME RowsSound, CopiesSound, StaleSound, NEW f \in Fibers, FiberNext(f), NEW d \in Ids
  PROVE  d \in stale \/ RowMove(d)
<1>i. PICK e \in Ids : e = fiber[f].on /\ e \in Created
  BY FiberKeeps
<1>a. ASSUME NEW s \in States, Write(e, s), UNCHANGED keyOf, CanMove(CopyState[fiber[f].at], s)
      PROVE  d \in stale \/ RowMove(d)
  <2>1. Wrote(e, s)
    BY <1>i, <1>a, WriteSound
  <2>2. e \in stale \/ CanMove(StateOf(e), s)
    BY <1>i, <1>a, Abreast
  <2> QED
    BY <2>1, <2>2, WrittenMoves
<1>1. CASE Completes(f)
  <2>1. Write(e, "complete") /\ UNCHANGED keyOf /\ fiber[f].at \in {"handler", "resumed"}
    BY <1>i, <1>1 DEF Completes, At
  <2> QED
    BY <1>a, <2>1, CopyStates, LifecycleMoves DEF States
<1>2. CASE Throws(f)
  <2>1. Write(e, "failed") /\ UNCHANGED keyOf /\ fiber[f].at \in {"handler", "resumed"}
    BY <1>i, <1>2 DEF Throws, At
  <2> QED
    BY <1>a, <2>1, CopyStates, LifecycleMoves DEF States
<1>3. CASE WaitTimeout(f)
  <2>1. Write(e, "failed") /\ UNCHANGED keyOf /\ fiber[f].at = "waiting"
    BY <1>i, <1>3 DEF WaitTimeout, At
  <2> QED
    BY <1>a, <2>1, CopyStates, LifecycleMoves DEF States
<1>4. CASE ThrowsRetryable(f)
  <2>1. Write(e, "retrying") /\ UNCHANGED keyOf /\ fiber[f].at = "handler"
    BY <1>i, <1>4 DEF ThrowsRetryable, Proceeds, At
  <2> QED
    BY <1>a, <2>1, CopyStates, LifecycleMoves DEF States
<1>5. CASE Waits(f)
  <2>1. Write(e, "waiting") /\ UNCHANGED keyOf /\ fiber[f].at \in {"handler", "resumed"}
    BY <1>i, <1>5 DEF Waits, Proceeds, At
  <2> QED
    BY <1>a, <2>1, CopyStates, LifecycleMoves DEF States
<1>6. CASE RetryFires(f)
  <2>1. Write(e, "running") /\ UNCHANGED keyOf /\ fiber[f].at = "retry"
    BY <1>i, <1>6 DEF RetryFires, At
  <2> QED
    BY <1>a, <2>1, CopyStates, LifecycleMoves DEF States
<1>7. CASE DispatchQueued(f)
  <2>1. UNCHANGED keyOf /\ fiber[f].at = "listed" /\ (Write(e, "running") \/ UNCHANGED rows)
    BY <1>i, <1>7 DEF DispatchQueued, Start, At
  <2> QED
    BY <1>a, <2>1, StaysPut, CopyStates, LifecycleMoves DEF States
<1>8. CASE ResumeRuns(f) \/ FreesSlot(f) \/ ArmRetry(f) \/ WaitsOn(f)
  BY <1>8, StaysPut DEF ResumeRuns, FreesSlot, ArmRetry, WaitsOn
<1> QED
  BY <1>1, <1>2, <1>3, <1>4, <1>5, <1>6, <1>7, <1>8 DEF FiberNext

LEMMA CallerRowMoves ==
  ASSUME RowsSound, CopiesSound, StaleSound, NEW c \in Callers, CallerNext(c), NEW d \in Ids
  PROVE  d \in stale \/ RowMove(d)
<1>a. calls[c].op \notin {"idle", "create"} => calls[c].on \in Created /\ calls[c].on \in Ids
  BY CreatedIds DEF CopiesSound, CallsSound, Asked
<1>b. CallState.dispatch = "queued" /\ CallState.mark = "queued" /\ CallState.continue = "waiting"
      /\ DOMAIN CallState = {"dispatch", "mark", "continue"}
  BY DEF CallState
<1>1. CASE Create(c)
  <2>1. PICK e \in Ids : ~Has(e) /\ Wrote(e, InitialState)
    BY <1>1, CreateSound DEF CopiesSound
  <2>2. rows'[e].state = InitialState /\ rows'[e] # Absent
    <3>1. rows'[e].state = InitialState /\ InitialState # Absent.state
      BY <2>1 DEF Wrote, InitialState, Absent
    <3> QED
      BY <3>1
  <2>3. RowMove(e)
    BY <2>1, <2>2 DEF RowMove, Has, StateOf
  <2>4. d # e => RowMove(d)
    BY <2>1, <2>2 DEF RowMove, Wrote, Has
  <2> QED
    BY <2>3, <2>4
<1>2. CASE Dispatch(c)
  <2>1. PICK e \in Created : e = calls[c].on /\ e \in Ids
    BY <1>2, <1>a DEF Dispatch
  <2>2. UNCHANGED rows \/ (Write(e, "running") /\ UNCHANGED keyOf)
    BY <1>2, <2>1 DEF Dispatch, Start
  <2>3. e \in stale \/ CanMove(StateOf(e), "running")
    BY <1>2, <1>b, <2>1, Abreast, LifecycleMoves DEF Dispatch
  <2>4. UNCHANGED rows \/ Wrote(e, "running")
    BY <2>2, WriteSound DEF States
  <2> QED
    BY <2>1, <2>3, <2>4, StaysPut, WrittenMoves
<1>3. CASE ReplayMarks(c)
  <2>1. PICK e \in Created : e = calls[c].on /\ e \in Ids
    BY <1>3, <1>a DEF ReplayMarks
  <2>2. Write(e, "queued") /\ UNCHANGED keyOf
    BY <1>3, <2>1 DEF ReplayMarks
  <2>3. Wrote(e, "queued")
    BY <2>2, WriteSound DEF States
  <2>4. e \in stale \/ StateOf(e) = "queued"
    BY <1>3, <1>b, <2>1, Abreast DEF ReplayMarks
  <2>5. StateOf(e) = "queued" => rows'[e] = rows[e]
    <3>1. rows'[e] = [state |-> "queued", key |-> keyOf[e]]
      BY <2>1, <2>2 DEF Write, Put
    <3>2. StateOf(e) = "queued" => rows[e] \in Row /\ rows[e].key = keyOf[e] /\ rows[e].state = "queued"
      BY <2>1, RowThere DEF RowsSound, StateOf, States
    <3> QED
      BY <3>1, <3>2 DEF Row
  <2> QED
    BY <2>1, <2>3, <2>4, <2>5, WrittenMoves
<1>4. CASE ResumeContinues(c)
  <2>1. PICK e \in Created : e = calls[c].on /\ e \in Ids
    BY <1>4, <1>a DEF ResumeContinues
  <2>2. Write(e, "running") /\ UNCHANGED keyOf
    BY <1>4, <2>1 DEF ResumeContinues
  <2>3. e \in stale \/ CanMove(StateOf(e), "running")
    BY <1>4, <1>b, <2>1, Abreast, LifecycleMoves DEF ResumeContinues
  <2>4. Wrote(e, "running")
    BY <2>2, WriteSound DEF States
  <2> QED
    BY <2>1, <2>3, <2>4, WrittenMoves
<1>5. CASE CancelWrites(c)
  <2>1. PICK e \in Created : e = calls[c].on /\ e \in Ids
    BY <1>5, <1>a DEF CancelWrites
  <2>2. Write(e, "failed") /\ UNCHANGED keyOf
    BY <1>5, <2>1 DEF CancelWrites
  <2>3. e \in stale \/ CanMove(StateOf(e), "failed")
    <3>1. e \in stale \/ StateOf(e) \notin Terminal \cup {"absent"}
      BY <1>5, <2>1, Abreast DEF CancelWrites
    <3> QED
      BY <2>1, <3>1, RowThere, LifecycleMoves
  <2>4. Wrote(e, "failed")
    BY <2>2, WriteSound DEF States
  <2> QED
    BY <2>1, <2>3, <2>4, WrittenMoves
<1>6. UNCHANGED rows \/ Create(c) \/ Dispatch(c) \/ ReplayMarks(c) \/ ResumeContinues(c) \/ CancelWrites(c)
  BY DEF CallerNext, Trigger, Replay, Resume, Cancel, ResumeReads
<1> QED
  BY <1>1, <1>2, <1>3, <1>4, <1>5, <1>6, StaysPut

LEMMA RowMoves ==
  ASSUME IInv, [Next]_vars, NEW d \in Ids
  PROVE  d \in stale \/ RowMove(d)
<1>a. RowsSound /\ CopiesSound /\ StaleSound
  BY DEF IInv
<1>1. ASSUME NEW e \in Ids, DeleteExecution(e) PROVE RowMove(d)
  <2>1. /\ StateOf(e) \in Terminal /\ rows'[e] = Absent
        /\ \A x \in Ids \ {e} : rows'[x] = rows[x]
    BY <1>a, <1>1, DeleteSound
  <2>2. Has(e)
    BY <1>a, <2>1, RowThere DEF Terminal, States
  <2> QED
    BY <2>1, <2>2 DEF RowMove, Has
<1>2. CASE DrainTimeout
  <2>1. IF StateOf(d) \in Orphaned THEN rows'[d].state = "failed" /\ rows'[d] \in Row
        ELSE rows'[d] = rows[d]
    BY <1>a, <1>2, DrainSound
  <2>2. CASE StateOf(d) \in Orphaned
    <3>1. Has(d) /\ CanMove(StateOf(d), "failed")
      BY <1>a, <2>2, RowThere, LifecycleMoves DEF Orphaned, States, Terminal
    <3>2. rows'[d] # Absent
      BY <2>1, <2>2 DEF Absent
    <3> QED
      BY <2>1, <2>2, <3>1, <3>2 DEF RowMove, Has, StateOf
  <2> QED
    BY <2>1, <2>2, StaysPut
<1>3. CASE Restart
  <2>1. PICK answers \in [Ids -> Answers] : rows' = Recovered(answers)
    BY <1>3 DEF Restart
  <2>2. \/ rows'[d] = rows[d]
        \/ StateOf(d) \in Orphaned /\ rows'[d].state \in {"failed", "queued"}
    BY <1>a, <1>3, <2>1, RecoverSound DEF Restart
  <2> QED
    BY <1>3, <2>2 DEF RowMove, Restart, StateOf
<1>4. UNCHANGED vars \/ Shutdown \/ Close \/ Crash => UNCHANGED rows
  BY DEF vars, Shutdown, Close, Crash, Ends
<1> QED
  BY <1>a, <1>1, <1>2, <1>3, <1>4, FiberRowMoves, CallerRowMoves, StaysPut DEF Next

(* While no copy of an execution is behind, its row moves as the life cycle  *)
(* allows, vanishes only when terminal or replaced, and is taken back only  *)
(* by recovery (execution.ts VALID_TRANSITIONS).                           *)
THEOREM RowsMoveAsAllowed == Spec => RowSteps
<1>1. IInv /\ [Next]_vars => [\A e \in Ids : e \in stale \/ RowMove(e)]_vars
  BY RowMoves
<1> QED
  BY <1>1, Invariance, PTL DEF Spec, RowSteps
=============================================================================
