----------------------------- MODULE CostTracker ------------------------------
(***************************************************************************)
(* The cost tracker (class CostTracker) and its budgets (BudgetEnforcer):  *)
(* a model call checks the budgets it falls under, reserves its estimated  *)
(* cost in their accumulators, waits for the router, and replaces the      *)
(* estimate by the actual cost, which the ledger records.  Checking and    *)
(* reserving is one step; the wait is not, and other calls and the ends of *)
(* budget windows come in between.                                         *)
(*                                                                         *)
(* The scopes of a caller (user, flow, global, in this order) are the keys *)
(* of its accumulators; a disabled or missing budget has no key.  The      *)
(* router is external: it answers at some cost, or throws.                 *)
(***************************************************************************)
EXTENDS Integers, Sequences, TLC, FiniteSetsExt, Functions

CONSTANTS
  Callers,
  Keys,
  ScopesOf,       \* the keys of each caller, in the order they are checked
  Budget,         \* per key: [limit, hard, windowed, warnAt]
  RequestBudget,  \* the per-request budget: [limit, hard]
  Estimates,
  Costs,
  MaxCalls        \* bound on the calls begun

ASSUME CallersAssumption == IsFiniteSet(Callers)
ASSUME ScopesAssumption  == ScopesOf \in [Callers -> Seq(Keys)]
ASSUME BudgetAssumption  ==
  Budget \in [Keys -> [limit : Nat, hard : BOOLEAN, windowed : BOOLEAN, warnAt : Nat]]
ASSUME RequestAssumption == RequestBudget \in [limit : Nat, hard : BOOLEAN]
ASSUME AmountsAssumption == Estimates \subseteq Nat /\ Costs \subseteq Nat
ASSUME BoundAssumption   == MaxCalls \in Nat

VARIABLES
  spend,          \* currentSpend of each accumulator
  warned,         \* warningEmitted of each accumulator
  ended,          \* the accumulators whose window is over
  call,           \* per caller: [phase, estimate, scopes, outcome]
  ledger,         \* total cost recorded of the calls under each key
  calls,
  lost,           \* history: reservations of calls that threw, by key
  announced       \* history: warnings announced in the window, by key

vars == <<spend, warned, ended, call, ledger, calls, lost, announced>>

Idle == [phase |-> "idle", estimate |-> 0, scopes |-> {}, outcome |-> "none"]

Init ==
  /\ spend = [k \in Keys |-> 0]
  /\ warned = [k \in Keys |-> FALSE]
  /\ ended = [k \in Keys |-> FALSE]
  /\ call = [c \in Callers |-> Idle]
  /\ ledger = [k \in Keys |-> 0]
  /\ calls = 0
  /\ lost = [k \in Keys |-> 0]
  /\ announced = [k \in Keys |-> 0]

(***************************************************************************)
(* checkBudgets, of an amount against the accumulators s                   *)
(***************************************************************************)

KeysOf(c) == Range(ScopesOf[c])

(* maybeResetWindow: a window that is over counts as empty *)
Spent(k, s) == IF ended[k] THEN 0 ELSE s[k]

(* The positions of the scopes that would go over their limit; the check    *)
(* stops at the first.                                                     *)
Exceeded(c, amount, s) ==
  {i \in DOMAIN ScopesOf[c] : Spent(ScopesOf[c][i], s) + amount > Budget[ScopesOf[c][i]].limit}

(* The scopes the check gets to, and those it gets past; an exceeded soft    *)
(* per-request budget ends it before the first.                            *)
Visited(c, amount, s) ==
  IF amount > RequestBudget.limit THEN {}
  ELSE IF Exceeded(c, amount, s) = {} THEN KeysOf(c)
  ELSE {ScopesOf[c][i] : i \in 1 .. Min(Exceeded(c, amount, s))}

Passed(c, amount, s) ==
  IF Exceeded(c, amount, s) = {} THEN Visited(c, amount, s)
  ELSE Visited(c, amount, s) \ {ScopesOf[c][Min(Exceeded(c, amount, s))]}

(* BudgetExceededError *)
Denied(c, amount, s) ==
  IF amount > RequestBudget.limit THEN RequestBudget.hard
  ELSE /\ Exceeded(c, amount, s) # {}
       /\ Budget[ScopesOf[c][Min(Exceeded(c, amount, s))]].hard

(* mutant of Warns: the warnings already emitted are not looked at *)
WarnsAgain(c, amount, s) ==
  {k \in Passed(c, amount, s) : Spent(k, s) + amount >= Budget[k].warnAt}

Warns(c, amount, s) ==
  {k \in Passed(c, amount, s) :
     (ended[k] \/ ~warned[k]) /\ Spent(k, s) + amount >= Budget[k].warnAt}

(* The windows of the scopes it gets to are reset if over, those that have   *)
(* reached their threshold are marked, and the marks made known, unless the *)
(* check throws or its caller does not listen.                             *)
CheckBudgets(c, amount, s, listens) ==
  LET visited == Visited(c, amount, s)
      warns   == Warns(c, amount, s)
      news    == IF listens /\ ~Denied(c, amount, s) THEN warns ELSE {}
  IN  /\ ended' = [k \in Keys |-> ended[k] /\ k \notin visited]
      /\ warned' = [k \in Keys |-> IF k \in visited /\ ended[k] THEN k \in warns
                                   ELSE warned[k] \/ k \in warns]
      /\ announced' = [k \in Keys |-> (IF k \in visited /\ ended[k] THEN 0 ELSE announced[k])
                                      + (IF k \in news THEN 1 ELSE 0)]

(* The accumulators after the check *)
Reset(c, amount, s) == [k \in Keys |-> IF k \in Visited(c, amount, s) THEN Spent(k, s) ELSE s[k]]

Plus(s, scopes, amount) == [k \in Keys |-> IF k \in scopes THEN s[k] + amount ELSE s[k]]

(***************************************************************************)
(* Calls                                                                   *)
(***************************************************************************)

Leave(c, outcome) == call' = [call EXCEPT ![c] = [Idle EXCEPT !.outcome = outcome]]

(* mutant of Reserve: nothing is reserved until the cost is known *)
ReserveNothing(s, scopes, amount) == s

Reserve(s, scopes, amount) == Plus(s, scopes, amount)

(* The router is asked and keeps the caller waiting, *)
Waits(c, phase, estimate, scopes) ==
  /\ call' = [call EXCEPT ![c] = [phase |-> phase, estimate |-> estimate,
                                 scopes |-> scopes, outcome |-> "none"]]
  /\ UNCHANGED lost

(* or throws, and the reservation stays. *)
Throws(c, estimate, scopes) ==
  /\ lost' = Plus(lost, scopes, estimate)
  /\ Leave(c, "threw")

(* wrapComplete and wrapStream up to the call of the router, which can throw *)
(* at once for a stream; a denied call throws before it.                   *)
Begin(c, phase) ==
  /\ call[c].phase = "idle"
  /\ calls < MaxCalls
  /\ calls' = calls + 1
  /\ \E estimate \in Estimates :
       LET scopes == Visited(c, estimate, spend)
       IN  /\ CheckBudgets(c, estimate, spend, phase = "calling")
           /\ IF Denied(c, estimate, spend)
                THEN /\ spend' = Reset(c, estimate, spend)
                     /\ Leave(c, "denied")
                     /\ UNCHANGED lost
                ELSE /\ spend' = Reserve(Reset(c, estimate, spend), scopes, estimate)
                     /\ \/ Waits(c, phase, estimate, scopes)
                        \/ phase = "streaming" /\ Throws(c, estimate, scopes)
  /\ UNCHANGED ledger

BeginComplete(c) == Begin(c, "calling")
BeginStream(c)   == Begin(c, "streaming")

(* mutant of Reconcile: the reservation is released, the cost not charged *)
ReconcileUncharged(c, cost) == Plus(spend, call[c].scopes, -call[c].estimate)

(* reconcileCost *)
Reconcile(c, cost) == Plus(spend, call[c].scopes, cost - call[c].estimate)

Record(c, cost) == ledger' = Plus(ledger, KeysOf(c), cost)

(* wrapComplete after its await: reconcile, record, and check again with an  *)
(* amount of zero for the warnings, which throws when a hard budget is over *)
(* its limit.                                                              *)
Answered(c) ==
  /\ call[c].phase = "calling"
  /\ \E cost \in Costs :
       /\ Record(c, cost)
       /\ spend' = Reset(c, 0, Reconcile(c, cost))
       /\ CheckBudgets(c, 0, Reconcile(c, cost), TRUE)
       /\ Leave(c, IF Denied(c, 0, Reconcile(c, cost)) THEN "discarded" ELSE "response")
  /\ UNCHANGED <<calls, lost>>

CompleteThrows(c) ==
  /\ call[c].phase = "calling"
  /\ Throws(c, call[c].estimate, call[c].scopes)
  /\ UNCHANGED <<spend, warned, ended, ledger, calls, announced>>

(* wrapStream when the stream ends, or breaks *)
StreamEnds(c) ==
  /\ call[c].phase = "streaming"
  /\ \E cost \in Costs : Record(c, cost) /\ spend' = Reconcile(c, cost)
  /\ Leave(c, "response")
  /\ UNCHANGED <<warned, ended, calls, lost, announced>>

StreamBreaks(c) ==
  /\ call[c].phase = "streaming"
  /\ spend' = Reconcile(c, 0)
  /\ Leave(c, "threw")
  /\ UNCHANGED <<warned, ended, ledger, calls, lost, announced>>

WindowEnds(k) ==
  /\ Budget[k].windowed
  /\ ~ended[k]
  /\ ended' = [ended EXCEPT ![k] = TRUE]
  /\ UNCHANGED <<spend, warned, call, ledger, calls, lost, announced>>

Next ==
  \/ \E c \in Callers :
       \/ BeginComplete(c) \/ BeginStream(c) \/ Answered(c) \/ CompleteThrows(c)
       \/ StreamEnds(c) \/ StreamBreaks(c)
  \/ \E k \in Keys : WindowEnds(k)

Spec == Init /\ [][Next]_vars
=============================================================================
