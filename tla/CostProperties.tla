---------------------------- MODULE CostProperties ----------------------------
(***************************************************************************)
(* What budgets and ledger keep of each other, and the statements of the   *)
(* repository that the cost tracker does not keep.                         *)
(***************************************************************************)
EXTENDS CostTracker

Outcomes == {"none", "denied", "response", "discarded", "threw"}

TypeOK ==
  /\ spend \in [Keys -> Int]
  /\ warned \in [Keys -> BOOLEAN]
  /\ ended \in [Keys -> BOOLEAN]
  /\ call \in [Callers -> [phase : {"idle", "calling", "streaming"},
                           estimate : Estimates \cup {0}, scopes : SUBSET Keys,
                           outcome : Outcomes]]
  /\ ledger \in [Keys -> Nat]
  /\ calls \in 0 .. MaxCalls
  /\ lost \in [Keys -> Nat]
  /\ announced \in [Keys -> Nat]

(* The estimates reserved in k by calls under way *)
Reserved(k) ==
  SumFunctionOnSet([c \in Callers |-> call[c].estimate],
                   {c \in Callers : k \in call[c].scopes})

(* Of a budget without window, the accumulator is what the ledger recorded   *)
(* plus what calls under way reserved and what calls that threw left        *)
(* behind: no reservation is dropped, counted twice or reconciled with      *)
(* another's.  (Where an exceeded soft budget ends the check, calls are     *)
(* recorded that later budgets know nothing of: not in this run.)          *)
SpendAccounted ==
  \A k \in Keys : ~Budget[k].windowed => spend[k] = ledger[k] + Reserved(k) + lost[k]

(* Under a hard budget without window, as long as no call costs more than    *)
(* its estimate, calls in flight together never get the recorded cost over  *)
(* the limit.                                                              *)
HardKept ==
  \A k \in Keys : Budget[k].hard /\ ~Budget[k].windowed => ledger[k] <= Budget[k].limit

(* A budget warns at most once in a window, whichever of the calls in flight *)
(* crosses the threshold, and whether before or after its request.         *)
WarnedOnce == \A k \in Keys : announced[k] <= 1
=============================================================================
