---------------------------- MODULE ModelCallProofs ----------------------------
(***************************************************************************)
(* Proofs about the calls of models, for every number of callers, calls,   *)
(* providers and budgets, all amounts and all thresholds.                  *)
(*                                                                         *)
(* Cost: the accumulators agree with the ledger, hard budgets hold for the *)
(* calls in flight together, and a budget warns once in a window.          *)
(*                                                                         *)
(* Routing: an open breaker has its timer, no streaming provider is        *)
(* trusted after Threshold failures in a row, and health changes legally.  *)
(* The names of the router's specification and proof begin with Router.    *)
(*                                                                         *)
(* Agents: what an agent reports is what its calls were charged, it stays  *)
(* within its budget but for the calls of one iteration, and the flags of  *)
(* its evaluation go one way.  Their specification is ReviewSpec.          *)
(***************************************************************************)
EXTENDS CostProperties, ModelRouterProperties, AgentReview, FiniteSetTheorems, WellFoundedInduction, TLAPS

(***************************************************************************)
(* Cost                                                                    *)
(***************************************************************************)

-------------------------------------------------------------------------------
(* The inductive invariant *)

(* An idle caller has nothing reserved, a call under way its estimate. *)
Estimated ==
  \A c \in Callers : IF call[c].phase = "idle" THEN call[c].estimate = 0 /\ call[c].scopes = {}
                                                ELSE call[c].estimate \in Estimates

(* Only windows end. *)
WindowsEnd == \A k \in Keys : ended[k] => Budget[k].windowed

(* A warning that was made known left its mark. *)
Marked == \A k \in Keys : announced[k] = 0 \/ (announced[k] = 1 /\ warned[k])

IInv == TypeOK /\ Estimated /\ WindowsEnd /\ Marked

(* budget.ts:139: an exceeded soft budget ends the check, so that those that   *)
(* follow know nothing of the call: here only the last of them is soft.     *)
SoftLast ==
  /\ RequestBudget.hard
  /\ \A c \in Callers : \A i \in 1 .. Len(ScopesOf[c]) - 1 : Budget[ScopesOf[c][i]].hard

(* No call costs more than any estimate. *)
Overestimated == \A cost \in Costs, estimate \in Estimates : cost <= estimate

(* What is under way was charged to all its budgets, and the books agree. *)
Books ==
  /\ \A c \in Callers : call[c].phase # "idle" => call[c].scopes = KeysOf(c)
  /\ SpendAccounted

(* What is spent and reserved is within a hard budget. *)
Kept == \A k \in Keys : Budget[k].hard /\ ~Budget[k].windowed => spend[k] <= Budget[k].limit

CallRecord == [phase : {"idle", "calling", "streaming"}, estimate : Estimates \cup {0},
               scopes : SUBSET Keys, outcome : Outcomes]
CallTable  == [Callers -> CallRecord]

-------------------------------------------------------------------------------
(* The check of the budgets *)

LEMMA MinIn ==
  ASSUME NEW S \in SUBSET Nat, S # {}
  PROVE  Min(S) \in S /\ \A x \in S : Min(S) <= x
<1>1. PICK x \in S : \A y \in S : <<y, x>> \notin OpToRel(<, Nat)
  BY NatLessThanWellFounded, WFMin
<1>2. \A p \in Nat \X Nat : p[1] < p[2] => p \in OpToRel(<, Nat)
  BY DEF OpToRel
<1>3. ASSUME NEW y \in S, ~(x <= y) PROVE FALSE
  <2>1. <<y, x>> \in Nat \X Nat /\ y < x
    BY <1>3
  <2>2. QED
    BY <1>1, <1>2, <2>1
<1>4. QED
  BY <1>3 DEF Min

LEMMA FirstExceeded ==
  ASSUME NEW c \in Callers, NEW amount, NEW s, Exceeded(c, amount, s) # {}
  PROVE  LET m == Min(Exceeded(c, amount, s))
         IN  /\ m \in 1 .. Len(ScopesOf[c])
             /\ ScopesOf[c][m] \in KeysOf(c)
             /\ \A i \in Exceeded(c, amount, s) : m <= i
<1>1. Exceeded(c, amount, s) \subseteq DOMAIN ScopesOf[c]
  BY DEF Exceeded
<1>2. ScopesOf[c] \in Seq(Keys) /\ DOMAIN ScopesOf[c] = 1 .. Len(ScopesOf[c])
  BY ScopesAssumption
<1>3. Exceeded(c, amount, s) \in SUBSET Nat
  BY <1>1, <1>2
<1>4. /\ Min(Exceeded(c, amount, s)) \in Exceeded(c, amount, s)
      /\ \A i \in Exceeded(c, amount, s) : Min(Exceeded(c, amount, s)) <= i
  BY <1>3, MinIn
<1>5. QED
  BY <1>1, <1>2, <1>4 DEF KeysOf, Range

(* The check gets to budgets of the call only. *)
LEMMA VisitedKeys ==
  ASSUME NEW c \in Callers, NEW amount, NEW s
  PROVE  /\ KeysOf(c) \subseteq Keys
         /\ Visited(c, amount, s) \subseteq KeysOf(c)
         /\ Passed(c, amount, s) \subseteq Visited(c, amount, s)
<1>1. ScopesOf[c] \in Seq(Keys) /\ DOMAIN ScopesOf[c] = 1 .. Len(ScopesOf[c])
  BY ScopesAssumption
<1>2. KeysOf(c) \subseteq Keys
  BY <1>1 DEF KeysOf, Range
<1>3. Visited(c, amount, s) \subseteq KeysOf(c)
  <2>1. CASE Exceeded(c, amount, s) = {}
    BY <2>1 DEF Visited
  <2>2. CASE Exceeded(c, amount, s) # {}
    <3> DEFINE m == Min(Exceeded(c, amount, s))
    <3>1. m \in 1 .. Len(ScopesOf[c])
      BY <2>2, FirstExceeded
    <3> HIDE DEF m
    <3>2. 1 .. m \subseteq DOMAIN ScopesOf[c]
      BY <1>1, <3>1
    <3>3. {ScopesOf[c][i] : i \in 1 .. m} \subseteq KeysOf(c)
      BY <3>2 DEF KeysOf, Range
    <3>4. QED
      BY <3>3, <2>2 DEF Visited, m
  <2>3. QED
    BY <2>1, <2>2
<1>4. Passed(c, amount, s) \subseteq Visited(c, amount, s)
  BY DEF Passed
<1>5. QED
  BY <1>2, <1>3, <1>4

(* When only the last budgets are soft, a call that is let through has been *)
(* checked against all of its budgets, and its hard ones have room for it.  *)
LEMMA AllVisited ==
  ASSUME SoftLast, NEW c \in Callers, NEW amount, NEW s, ~Denied(c, amount, s)
  PROVE  /\ Visited(c, amount, s) = KeysOf(c)
         /\ \A k \in KeysOf(c) : Budget[k].hard => ~(Spent(k, s) + amount > Budget[k].limit)
<1> DEFINE scopes == ScopesOf[c]
           m == Min(Exceeded(c, amount, s))
<1>1. scopes \in Seq(Keys) /\ DOMAIN scopes = 1 .. Len(scopes) /\ Len(scopes) \in Nat
  BY ScopesAssumption
<1>2. ~(amount > RequestBudget.limit)
  BY DEF Denied, SoftLast
<1>3. CASE Exceeded(c, amount, s) = {}
  <2>1. Visited(c, amount, s) = KeysOf(c)
    BY <1>2, <1>3 DEF Visited
  <2>2. QED
    BY <2>1, <1>3 DEF KeysOf, Range, Exceeded
<1>4. CASE Exceeded(c, amount, s) # {}
  <2>1. m \in 1 .. Len(scopes) /\ \A i \in Exceeded(c, amount, s) : m <= i
    BY <1>4, FirstExceeded
  <2>2. ~Budget[scopes[m]].hard
    BY <1>2, <1>4 DEF Denied
  <2>3. Visited(c, amount, s) = {scopes[i] : i \in 1 .. m}
    BY <1>2, <1>4 DEF Visited
  <2> HIDE DEF m
  <2>4. m = Len(scopes)
    BY <1>1, <2>1, <2>2 DEF SoftLast
  <2>5. Visited(c, amount, s) = KeysOf(c)
    BY <1>1, <2>3, <2>4 DEF KeysOf, Range
  <2>6. ASSUME NEW k \in KeysOf(c), Budget[k].hard, Spent(k, s) + amount > Budget[k].limit
        PROVE  FALSE
    <3>1. PICK i \in DOMAIN scopes : k = scopes[i]
      BY DEF KeysOf, Range
    <3>2. i \in Exceeded(c, amount, s)
      BY <2>6, <3>1 DEF Exceeded
    <3>3. i = m
      BY <1>1, <2>1, <2>4, <3>1, <3>2
    <3>4. QED
      BY <2>2, <2>6, <3>1, <3>3
  <2>7. QED
    BY <2>5, <2>6
<1>5. QED
  BY <1>3, <1>4

-------------------------------------------------------------------------------
(* What steps do to the accumulators *)

LEMMA PlusInt ==
  ASSUME NEW s \in [Keys -> Int], NEW scopes, NEW amount \in Int
  PROVE  Plus(s, scopes, amount) \in [Keys -> Int]
BY DEF Plus

LEMMA PlusNat ==
  ASSUME NEW s \in [Keys -> Nat], NEW scopes, NEW amount \in Nat
  PROVE  Plus(s, scopes, amount) \in [Keys -> Nat]
BY DEF Plus

LEMMA EstimateNat ==
  ASSUME NEW r \in CallRecord
  PROVE  r.estimate \in Nat
<1>1. r.estimate = 0 \/ r.estimate \in Estimates
  BY DEF CallRecord
<1>2. CASE r.estimate = 0
  BY <1>2
<1>3. CASE r.estimate \in Estimates
  BY <1>3, AmountsAssumption
<1>4. QED
  BY <1>1, <1>2, <1>3

LEMMA CheckTypes ==
  ASSUME TypeOK, NEW c \in Callers, NEW amount, NEW s \in [Keys -> Int], NEW listens,
         CheckBudgets(c, amount, s, listens)
  PROVE  /\ ended' \in [Keys -> BOOLEAN]
         /\ warned' \in [Keys -> BOOLEAN]
         /\ announced' \in [Keys -> Nat]
         /\ Reset(c, amount, s) \in [Keys -> Int]
<1> DEFINE visited == Visited(c, amount, s)
           warns   == Warns(c, amount, s)
           stays(k) == ended[k] /\ k \notin visited
           marks(k) == IF k \in visited /\ ended[k] THEN k \in warns ELSE warned[k] \/ k \in warns
<1>1. ended' \in [Keys -> BOOLEAN] /\ warned' \in [Keys -> BOOLEAN]
  <2>1. ended' = [k \in Keys |-> stays(k)] /\ warned' = [k \in Keys |-> marks(k)]
    BY DEF CheckBudgets
  <2>2. \A k \in Keys : stays(k) \in BOOLEAN
    OBVIOUS
  <2>3. ASSUME NEW k \in Keys PROVE marks(k) \in BOOLEAN
    <3> HIDE DEF visited, warns
    <3>1. (k \in warns) \in BOOLEAN /\ (warned[k] \/ k \in warns) \in BOOLEAN
      OBVIOUS
    <3>2. CASE k \in visited /\ ended[k]
      BY <3>1, <3>2
    <3>3. CASE ~(k \in visited /\ ended[k])
      BY <3>1, <3>3
    <3>4. QED
      BY <3>2, <3>3
  <2> HIDE DEF stays, marks
  <2>4. QED
    BY <2>1, <2>2, <2>3
<1>2. announced' \in [Keys -> Nat]
  BY DEF CheckBudgets, TypeOK
<1>3. Reset(c, amount, s) \in [Keys -> Int]
  BY DEF Reset, Spent
<1>4. QED
  BY <1>1, <1>2, <1>3

(* A check ends no window, and marks what it makes known. *)
LEMMA CheckMarks ==
  ASSUME TypeOK, WindowsEnd, Marked,
         NEW c \in Callers, NEW amount, NEW s \in [Keys -> Int], NEW listens,
         CheckBudgets(c, amount, s, listens)
  PROVE  WindowsEnd' /\ Marked'
<1> DEFINE visited == Visited(c, amount, s)
           warns   == Warns(c, amount, s)
           news    == IF listens /\ ~Denied(c, amount, s) THEN warns ELSE {}
<1>1. warns \subseteq visited /\ \A k \in warns : ended[k] \/ ~warned[k]
  BY VisitedKeys DEF Warns
<1>2. news \subseteq warns
  OBVIOUS
<1>3. /\ ended' = [k \in Keys |-> ended[k] /\ k \notin visited]
      /\ warned' = [k \in Keys |-> IF k \in visited /\ ended[k] THEN k \in warns
                                   ELSE warned[k] \/ k \in warns]
      /\ announced' = [k \in Keys |-> (IF k \in visited /\ ended[k] THEN 0 ELSE announced[k])
                                      + (IF k \in news THEN 1 ELSE 0)]
  BY DEF CheckBudgets
<1> HIDE DEF visited, warns, news
<1>4. WindowsEnd'
  BY <1>3 DEF WindowsEnd
<1>5. ASSUME NEW k \in Keys
      PROVE  announced'[k] = 0 \/ (announced'[k] = 1 /\ warned'[k])
  <2>1. announced[k] = 0 \/ (announced[k] = 1 /\ warned[k])
    BY DEF Marked
  <2>2. CASE k \in news
    <3>1. k \in warns /\ k \in visited /\ (ended[k] \/ ~warned[k])
      BY <1>1, <1>2, <2>2
    <3>2. warned'[k]
      BY <1>3, <3>1
    <3>3. announced'[k] = (IF k \in visited /\ ended[k] THEN 0 ELSE announced[k]) + 1
      BY <1>3, <2>2
    <3>4. QED
      BY <2>1, <3>1, <3>2, <3>3
  <2>3. CASE k \notin news
    <3>1. announced'[k] = (IF k \in visited /\ ended[k] THEN 0 ELSE announced[k]) + 0
      BY <1>3, <2>3
    <3>2. ~(k \in visited /\ ended[k]) => (warned[k] => warned'[k])
      BY <1>3
    <3>3. QED
      BY <2>1, <3>1, <3>2
  <2>4. QED
    BY <2>2, <2>3
<1>6. QED
  BY <1>4, <1>5 DEF Marked

-------------------------------------------------------------------------------
(* Sums over finite sets.  SumFunctionOnSet takes the elements out in an     *)
(* order CHOOSE fixes; what the proofs need is that this order is no matter. *)
(* The library's induction takes an operator, so a set that is bad is taken *)
(* with no bad one inside it instead.                                      *)

First(S) == CHOOSE x \in S : TRUE

(* g gives every subset of S its sum *)
Sums(g, f, S) ==
  g = [s \in SUBSET S |-> IF s = {} THEN 0 ELSE f[First(s)] + g[s \ {First(s)}]]

LEMMA Smallest ==
  ASSUME NEW S, IsFiniteSet(S), NEW Bad \in SUBSET SUBSET S, Bad # {}
  PROVE  \E T \in Bad : \A U \in SUBSET T : U # T => U \notin Bad
<1>1. IsWellFoundedOn(StrictSubsetOrdering(S), SUBSET S)
  BY FS_FiniteSubsetsOfFinite, FS_StrictSubsetOrderingWellFounded
<1>2. PICK T \in Bad : \A U \in Bad : <<U, T>> \notin StrictSubsetOrdering(S)
  BY <1>1, WFMin
<1>3. QED
  BY <1>2 DEF StrictSubsetOrdering

LEMMA SumsAgree ==
  ASSUME NEW f, NEW S, NEW T \in SUBSET S, IsFiniteSet(S), NEW g, NEW h,
         Sums(g, f, S), Sums(h, f, T)
  PROVE  \A s \in SUBSET T : g[s] = h[s]
<1> DEFINE Bad == {s \in SUBSET T : g[s] # h[s]}
<1> SUFFICES ASSUME Bad # {} PROVE FALSE
  OBVIOUS
<1>1. PICK s \in Bad : \A u \in SUBSET s : u # s => u \notin Bad
  <2>1. IsFiniteSet(T) /\ Bad \in SUBSET SUBSET T
    BY FS_Subset
  <2> HIDE DEF Bad
  <2>2. QED
    BY <2>1, Smallest
<1>2. s \in SUBSET T /\ s \in SUBSET S /\ g[s] # h[s]
  BY <1>1
<1>3. s # {}
  BY <1>2 DEF Sums
<1>4. First(s) \in s
  BY <1>3 DEF First
<1>5. g[s \ {First(s)}] = h[s \ {First(s)}]
  BY <1>1, <1>2, <1>4
<1>6. g[s] = f[First(s)] + g[s \ {First(s)}]
  BY <1>2, <1>3 DEF Sums
<1>7. h[s] = f[First(s)] + h[s \ {First(s)}]
  BY <1>2, <1>3 DEF Sums
<1>8. QED
  BY <1>2, <1>5, <1>6, <1>7

LEMMA SumsExist ==
  ASSUME NEW f, NEW S, IsFiniteSet(S)
  PROVE  \E g : Sums(g, f, S)
<1> DEFINE Bad == {T \in SUBSET S : \A g : ~Sums(g, f, T)}
<1> SUFFICES ASSUME Bad # {} PROVE FALSE
  OBVIOUS
<1>0. Bad \in SUBSET SUBSET S
  OBVIOUS
<1>1. PICK T \in Bad : \A U \in SUBSET T : U # T => U \notin Bad
  <2> HIDE DEF Bad
  <2>1. QED
    BY <1>0, Smallest
<1> DEFINE sumsOf(U) == CHOOSE g : Sums(g, f, U)
           new == [s \in SUBSET T |->
                     IF s = {} THEN 0
                     ELSE f[First(s)] + sumsOf(s \ {First(s)})[s \ {First(s)}]]
<1>2. ASSUME NEW U \in SUBSET T, U # T PROVE Sums(sumsOf(U), f, U)
  <2>1. U \in SUBSET S
    BY <1>1
  <2>2. \E g : Sums(g, f, U)
    BY <1>1, <1>2, <2>1
  <2>3. QED
    BY <2>2
<1> HIDE DEF sumsOf
<1>3. ASSUME NEW U \in SUBSET T, U # T PROVE sumsOf(U)[U] = new[U]
  <2>1. CASE U = {}
    BY <2>1, <1>2 DEF Sums
  <2>2. CASE U # {}
    <3>1. First(U) \in U
      BY <2>2 DEF First
    <3>2. U \ {First(U)} \in SUBSET U /\ U \ {First(U)} \in SUBSET T /\ U \ {First(U)} # T
      BY <3>1, <1>3
    <3>3. Sums(sumsOf(U), f, U) /\ Sums(sumsOf(U \ {First(U)}), f, U \ {First(U)})
      BY <1>2, <1>3, <3>2
    <3>4. IsFiniteSet(U)
      BY <1>1, FS_Subset
    <3>5. sumsOf(U)[U \ {First(U)}] = sumsOf(U \ {First(U)})[U \ {First(U)}]
      BY <3>2, <3>3, <3>4, SumsAgree
    <3>6. sumsOf(U)[U] = f[First(U)] + sumsOf(U)[U \ {First(U)}]
      BY <3>3, <2>2 DEF Sums
    <3>7. new[U] = f[First(U)] + sumsOf(U \ {First(U)})[U \ {First(U)}]
      BY <2>2
    <3>8. QED
      BY <3>5, <3>6, <3>7
  <2>3. QED
    BY <2>1, <2>2
<1>4. \A s \in SUBSET T : s # {} => new[s] = f[First(s)] + new[s \ {First(s)}]
  <2> TAKE s \in SUBSET T
  <2> HAVE s # {}
  <2>1. First(s) \in s
    BY DEF First
  <2>2. s \ {First(s)} \in SUBSET T /\ s \ {First(s)} # T
    BY <2>1
  <2>3. sumsOf(s \ {First(s)})[s \ {First(s)}] = new[s \ {First(s)}]
    BY <1>3, <2>2
  <2>4. QED
    BY <2>3
<1>5. new[{}] = 0
  OBVIOUS
<1>6. new = [s \in SUBSET T |-> new[s]]
  OBVIOUS
<1> HIDE DEF new
<1>7. Sums(new, f, T)
  BY <1>4, <1>5, <1>6 DEF Sums
<1>8. QED
  BY <1>1, <1>7

(* The sum of a set that is not empty is its first element and the rest.    *)
LEMMA SumFirst ==
  ASSUME NEW f, NEW S, IsFiniteSet(S), S # {}
  PROVE  SumFunctionOnSet(f, S)
           = f[First(S)] + SumFunctionOnSet(f, S \ {First(S)})
<1> DEFINE sumsOf(U) == CHOOSE g : Sums(g, f, U)
           rest == S \ {First(S)}
<1>1. \A U : SumFunctionOnSet(f, U) = sumsOf(U)[U]
  BY DEF SumFunctionOnSet, FoldFunctionOnSet, MapThenFoldSet, Sums, First
<1>2. IsFiniteSet(rest)
  BY FS_Subset
<1>3. Sums(sumsOf(S), f, S) /\ Sums(sumsOf(rest), f, rest)
  BY <1>2, SumsExist
<1> HIDE DEF sumsOf
<1>4. sumsOf(S)[rest] = sumsOf(rest)[rest]
  <2>1. rest \in SUBSET S /\ rest \in SUBSET rest
    OBVIOUS
  <2> HIDE DEF rest
  <2>2. QED
    BY <1>3, <2>1, SumsAgree
<1>5. sumsOf(S)[S] = f[First(S)] + sumsOf(S)[rest]
  BY <1>3 DEF Sums
<1>6. QED
  BY <1>1, <1>4, <1>5

LEMMA SumEmpty ==
  ASSUME NEW f
  PROVE  SumFunctionOnSet(f, {}) = 0
<1>1. SumFunctionOnSet(f, {}) = (CHOOSE g : Sums(g, f, {}))[{}]
  BY DEF SumFunctionOnSet, FoldFunctionOnSet, MapThenFoldSet, Sums, First
<1>2. Sums(CHOOSE g : Sums(g, f, {}), f, {})
  BY FS_EmptySet, SumsExist
<1>3. QED
  BY <1>1, <1>2 DEF Sums

(* Sums of numbers are numbers, *)
LEMMA SumNat ==
  ASSUME NEW f, NEW S, IsFiniteSet(S), \A x \in S : f[x] \in Nat
  PROVE  SumFunctionOnSet(f, S) \in Nat
<1> DEFINE Bad == {T \in SUBSET S : SumFunctionOnSet(f, T) \notin Nat}
<1> SUFFICES ASSUME Bad # {} PROVE FALSE
  OBVIOUS
<1>0. Bad \in SUBSET SUBSET S
  OBVIOUS
<1>1. PICK T \in Bad : \A U \in SUBSET T : U # T => U \notin Bad
  <2> HIDE DEF Bad
  <2>1. QED
    BY <1>0, Smallest
<1>2. T # {}
  <2>1. SumFunctionOnSet(f, T) \notin Nat
    BY <1>1
  <2>2. SumFunctionOnSet(f, {}) \in Nat
    BY SumEmpty
  <2>3. QED
    BY <2>1, <2>2
<1>3. T \in SUBSET S /\ First(T) \in T
  BY <1>1, <1>2 DEF First
<1>. IsFiniteSet(T)
  <2> HIDE DEF Bad
  <2>1. QED
    BY <1>3, FS_Subset
<1>4. SumFunctionOnSet(f, T \ {First(T)}) \in Nat
  BY <1>1, <1>3
<1>5. SumFunctionOnSet(f, T) = f[First(T)] + SumFunctionOnSet(f, T \ {First(T)})
  BY <1>2, <1>3, SumFirst
<1>6. QED
  BY <1>1, <1>3, <1>4, <1>5

(* and any element may be taken out first. *)
LEMMA SumRemove ==
  ASSUME NEW f, NEW S, IsFiniteSet(S), \A x \in S : f[x] \in Nat
  PROVE  \A x \in S : SumFunctionOnSet(f, S) = f[x] + SumFunctionOnSet(f, S \ {x})
<1> DEFINE Fine(T) == \A x \in T : SumFunctionOnSet(f, T) = f[x] + SumFunctionOnSet(f, T \ {x})
           Bad == {T \in SUBSET S : ~Fine(T)}
<1> SUFFICES ASSUME Bad # {} PROVE FALSE
  OBVIOUS
<1>0. Bad \in SUBSET SUBSET S
  OBVIOUS
<1>1. PICK T \in Bad : \A U \in SUBSET T : U # T => U \notin Bad
  <2> HIDE DEF Bad
  <2>1. QED
    BY <1>0, Smallest
<1> DEFINE c == First(T)
<1>2. T \in SUBSET S /\ T # {} /\ IsFiniteSet(T) /\ c \in T
  BY <1>1, FS_Subset DEF First
<1>3. SumFunctionOnSet(f, T) = f[c] + SumFunctionOnSet(f, T \ {c})
  BY <1>2, SumFirst
<1> HIDE DEF c
<1>4. PICK x \in T : SumFunctionOnSet(f, T) # f[x] + SumFunctionOnSet(f, T \ {x})
  BY <1>1
<1>5. c # x
  BY <1>3, <1>4
<1>6. Fine(T \ {c}) /\ Fine(T \ {x})
  <2> HIDE DEF Fine
  <2>1. QED
    BY <1>1, <1>2, <1>4
<1>7. SumFunctionOnSet(f, T \ {c}) = f[x] + SumFunctionOnSet(f, (T \ {c}) \ {x})
  BY <1>4, <1>5, <1>6
<1>8. SumFunctionOnSet(f, T \ {x}) = f[c] + SumFunctionOnSet(f, (T \ {c}) \ {x})
  <2>1. (T \ {x}) \ {c} = (T \ {c}) \ {x}
    OBVIOUS
  <2>2. QED
    BY <1>2, <1>5, <1>6, <2>1
<1>9. SumFunctionOnSet(f, (T \ {c}) \ {x}) \in Nat /\ f[x] \in Nat /\ f[c] \in Nat
  <2>1. IsFiniteSet((T \ {c}) \ {x})
    BY <1>2, FS_Subset
  <2>2. \A y \in (T \ {c}) \ {x} : f[y] \in Nat
    BY <1>2
  <2>3. QED
    BY <2>1, <2>2, <1>2, <1>4, SumNat
<1> HIDE DEF Fine
<1>10. QED
  BY <1>3, <1>4, <1>7, <1>8, <1>9

(* The sum depends on the values in the set only. *)
LEMMA SumSame ==
  ASSUME NEW f, NEW g, NEW S, IsFiniteSet(S), \A x \in S : f[x] = g[x]
  PROVE  SumFunctionOnSet(f, S) = SumFunctionOnSet(g, S)
<1> DEFINE Bad == {T \in SUBSET S : SumFunctionOnSet(f, T) # SumFunctionOnSet(g, T)}
<1> SUFFICES ASSUME Bad # {} PROVE FALSE
  OBVIOUS
<1>0. Bad \in SUBSET SUBSET S
  OBVIOUS
<1>1. PICK T \in Bad : \A U \in SUBSET T : U # T => U \notin Bad
  <2> HIDE DEF Bad
  <2>1. QED
    BY <1>0, Smallest
<1>2. T # {}
  BY <1>1, SumEmpty
<1>3. IsFiniteSet(T) /\ First(T) \in T /\ T \in SUBSET S
  BY <1>1, <1>2, FS_Subset DEF First
<1>4. SumFunctionOnSet(f, T \ {First(T)}) = SumFunctionOnSet(g, T \ {First(T)})
  BY <1>1, <1>3
<1>5. /\ SumFunctionOnSet(f, T) = f[First(T)] + SumFunctionOnSet(f, T \ {First(T)})
      /\ SumFunctionOnSet(g, T) = g[First(T)] + SumFunctionOnSet(g, T \ {First(T)})
  BY <1>2, <1>3, SumFirst
<1>6. QED
  BY <1>1, <1>3, <1>4, <1>5
(* What calls cl reserve of k together, and what c reserves of it. *)
ReservedIn(cl, k) ==
  SumFunctionOnSet([c \in Callers |-> cl[c].estimate], {c \in Callers : k \in cl[c].scopes})
Own(cl, c, k) == IF k \in cl[c].scopes THEN cl[c].estimate ELSE 0

(* Only the call of c differs. *)
OnlyOf(c, cl, cm) == \A d \in Callers \ {c} : cm[d] = cl[d]

LEMMA ReservedSplit ==
  ASSUME NEW cl \in CallTable, NEW c \in Callers, NEW k
  PROVE  LET rest == SumFunctionOnSet([d \in Callers |-> cl[d].estimate],
                                      {d \in Callers \ {c} : k \in cl[d].scopes})
         IN  ReservedIn(cl, k) = Own(cl, c, k) + rest /\ rest \in Nat /\ Own(cl, c, k) \in Nat
<1> DEFINE f == [d \in Callers |-> cl[d].estimate]
           S == {d \in Callers : k \in cl[d].scopes}
           R == {d \in Callers \ {c} : k \in cl[d].scopes}
<1>1. \A d \in Callers : f[d] \in Nat
  <2>1. \A d \in Callers : cl[d] \in CallRecord
    BY DEF CallTable
  <2>2. QED
    BY <2>1, EstimateNat
<1>2. S \subseteq Callers /\ R \subseteq Callers /\ IsFiniteSet(S) /\ IsFiniteSet(R)
  <2>1. S \subseteq Callers /\ R \subseteq Callers
    OBVIOUS
  <2> HIDE DEF S, R
  <2>2. QED
    BY <2>1, CallersAssumption, FS_Subset
<1>3. f[c] = cl[c].estimate
  OBVIOUS
<1>4. IF k \in cl[c].scopes THEN c \in S /\ R = S \ {c} ELSE R = S
  OBVIOUS
<1>5. ReservedIn(cl, k) = SumFunctionOnSet(f, S)
  BY DEF ReservedIn
<1> HIDE DEF f, S, R
<1>6. SumFunctionOnSet(f, R) \in Nat
  BY <1>1, <1>2, SumNat
<1>7. ReservedIn(cl, k) = Own(cl, c, k) + SumFunctionOnSet(f, R)
  <2>1. CASE k \in cl[c].scopes
    <3>1. SumFunctionOnSet(f, S) = f[c] + SumFunctionOnSet(f, S \ {c})
      BY <1>1, <1>2, <1>4, <2>1, SumRemove
    <3>2. QED
      BY <1>3, <1>4, <1>5, <2>1, <3>1 DEF Own
  <2>2. CASE k \notin cl[c].scopes
    BY <1>4, <1>5, <1>6, <2>2 DEF Own
  <2>3. QED
    BY <2>1, <2>2
<1>8. Own(cl, c, k) \in Nat
  BY <1>1, <1>3 DEF Own
<1>9. QED
  BY <1>6, <1>7, <1>8 DEF f, R

(* A call that changes changes what is reserved by its own share. *)
LEMMA ReservedChange ==
  ASSUME NEW cl \in CallTable, NEW cm \in CallTable,
         NEW c \in Callers, OnlyOf(c, cl, cm), NEW k
  PROVE  /\ ReservedIn(cl, k) \in Nat /\ ReservedIn(cm, k) \in Nat
         /\ Own(cl, c, k) \in Nat /\ Own(cm, c, k) \in Nat
         /\ ReservedIn(cm, k) + Own(cl, c, k) = ReservedIn(cl, k) + Own(cm, c, k)
<1> DEFINE R(x) == {d \in Callers \ {c} : k \in x[d].scopes}
           rest(x) == SumFunctionOnSet([d \in Callers |-> x[d].estimate], R(x))
<1>2. R(cl) = R(cm)
  BY DEF OnlyOf
<1>3. rest(cl) = rest(cm)
  <2> DEFINE f == [d \in Callers |-> cl[d].estimate]
             g == [d \in Callers |-> cm[d].estimate]
             T == R(cl)
  <2>1. \A d \in T : f[d] = g[d]
    BY DEF OnlyOf
  <2>2. T \subseteq Callers
    OBVIOUS
  <2> HIDE DEF f, g, T
  <2>3. IsFiniteSet(T)
    BY <2>2, CallersAssumption, FS_Subset
  <2>4. SumFunctionOnSet(f, T) = SumFunctionOnSet(g, T)
    BY <2>1, <2>3, SumSame
  <2>5. QED
    BY <2>4, <1>2 DEF f, g, T
<1>4. ReservedIn(cl, k) = Own(cl, c, k) + rest(cl) /\ rest(cl) \in Nat /\ Own(cl, c, k) \in Nat
  BY ReservedSplit
<1>5. ReservedIn(cm, k) = Own(cm, c, k) + rest(cm) /\ rest(cm) \in Nat /\ Own(cm, c, k) \in Nat
  BY ReservedSplit
<1> HIDE DEF rest
<1>6. QED
  BY <1>3, <1>4, <1>5

-------------------------------------------------------------------------------
(* The invariant is inductive. *)

LEMMA Initially == Init => IInv
<1> SUFFICES ASSUME Init PROVE IInv
  OBVIOUS
<1>1. TypeOK
  BY BoundAssumption DEF Init, TypeOK, Idle, Outcomes
<1>2. Estimated /\ WindowsEnd /\ Marked
  BY DEF Init, Estimated, WindowsEnd, Marked, Idle
<1>3. QED
  BY <1>1, <1>2 DEF IInv

(* What call c becomes *)
LEMMA CallMoves ==
  ASSUME TypeOK, Estimated, NEW c \in Callers, NEW new \in CallRecord,
         call' = [call EXCEPT ![c] = new],
         IF new.phase = "idle" THEN new.estimate = 0 /\ new.scopes = {} ELSE new.estimate \in Estimates
  PROVE  call' \in [Callers -> CallRecord] /\ Estimated'
<1>1. call \in [Callers -> CallRecord]
  BY DEF TypeOK, CallRecord
<1>2. call' \in [Callers -> CallRecord]
  BY <1>1
<1>3. Estimated'
  <2>1. \A d \in Callers : call'[d] = IF d = c THEN new ELSE call[d]
    BY <1>1
  <2>2. QED
    BY <2>1 DEF Estimated
<1>4. QED
  BY <1>2, <1>3

LEMMA Left ==
  ASSUME NEW outcome \in Outcomes
  PROVE  /\ [Idle EXCEPT !.outcome = outcome] \in CallRecord
         /\ [Idle EXCEPT !.outcome = outcome].phase = "idle"
         /\ [Idle EXCEPT !.outcome = outcome].estimate = 0
         /\ [Idle EXCEPT !.outcome = outcome].scopes = {}
BY DEF Idle, CallRecord
(* Every step keeps the invariant, *)
LEMMA BeginNext ==
  ASSUME IInv, NEW c \in Callers, NEW phase \in {"calling", "streaming"}, Begin(c, phase)
  PROVE  IInv'
<1> USE DEF IInv
<1>1. PICK estimate \in Estimates :
        /\ CheckBudgets(c, estimate, spend, phase = "calling")
        /\ IF Denied(c, estimate, spend)
             THEN /\ spend' = Reset(c, estimate, spend)
                  /\ Leave(c, "denied")
                  /\ UNCHANGED lost
             ELSE /\ spend' = Reserve(Reset(c, estimate, spend), Visited(c, estimate, spend), estimate)
                  /\ \/ Waits(c, phase, estimate, Visited(c, estimate, spend))
                     \/ phase = "streaming" /\ Throws(c, estimate, Visited(c, estimate, spend))
  BY DEF Begin
<1> DEFINE scopes == Visited(c, estimate, spend)
<1>2. estimate \in Nat /\ spend \in [Keys -> Int] /\ scopes \subseteq Keys
  BY AmountsAssumption, VisitedKeys DEF TypeOK
<1>3. /\ ended' \in [Keys -> BOOLEAN]
      /\ warned' \in [Keys -> BOOLEAN]
      /\ announced' \in [Keys -> Nat]
      /\ Reset(c, estimate, spend) \in [Keys -> Int]
  BY <1>1, <1>2, CheckTypes
<1>4. WindowsEnd' /\ Marked'
  BY <1>1, <1>2, CheckMarks
<1>5. calls' \in 0 .. MaxCalls /\ ledger' \in [Keys -> Nat]
  BY BoundAssumption DEF Begin, TypeOK
<1> HIDE DEF scopes
<1>6. spend' \in [Keys -> Int]
  BY <1>1, <1>2, <1>3, PlusInt DEF Reserve, scopes
<1>7. lost' \in [Keys -> Nat]
  BY <1>1, <1>2, PlusNat DEF TypeOK, Waits, Throws, scopes
<1>8. call' \in [Callers -> CallRecord] /\ Estimated'
  <2>1. CASE Leave(c, "denied") \/ Leave(c, "threw")
    BY <2>1, CallMoves, Left DEF Leave, Outcomes
  <2>2. CASE Waits(c, phase, estimate, scopes)
    <3> DEFINE new == [phase |-> phase, estimate |-> estimate, scopes |-> scopes, outcome |-> "none"]
    <3>1. new \in CallRecord /\ new.phase # "idle" /\ new.estimate \in Estimates
      BY <1>2 DEF CallRecord, Outcomes
    <3>2. call' = [call EXCEPT ![c] = new]
      BY <2>2 DEF Waits
    <3> HIDE DEF new
    <3>3. QED
      BY <3>1, <3>2, CallMoves
  <2>3. QED
    BY <1>1, <2>1, <2>2 DEF Throws, scopes
<1>9. QED
  BY <1>3, <1>4, <1>5, <1>6, <1>7, <1>8 DEF TypeOK, CallRecord

LEMMA AnsweredNext ==
  ASSUME IInv, NEW c \in Callers, Answered(c)
  PROVE  IInv'
<1> USE DEF IInv
<1>1. PICK cost \in Costs :
        /\ Record(c, cost)
        /\ spend' = Reset(c, 0, Reconcile(c, cost))
        /\ CheckBudgets(c, 0, Reconcile(c, cost), TRUE)
        /\ Leave(c, IF Denied(c, 0, Reconcile(c, cost)) THEN "discarded" ELSE "response")
  BY DEF Answered
<1>2. cost \in Nat /\ call[c] \in CallRecord /\ call[c].estimate \in Nat
  <2>1. call[c] \in CallRecord
    BY DEF TypeOK, CallRecord
  <2>2. QED
    BY <2>1, EstimateNat, AmountsAssumption
<1>3. Reconcile(c, cost) \in [Keys -> Int]
  <2>1. cost - call[c].estimate \in Int
    BY <1>2
  <2>2. QED
    BY <2>1, PlusInt DEF Reconcile, TypeOK
<1>4. /\ ended' \in [Keys -> BOOLEAN]
      /\ warned' \in [Keys -> BOOLEAN]
      /\ announced' \in [Keys -> Nat]
      /\ spend' \in [Keys -> Int]
  BY <1>1, <1>3, CheckTypes
<1>5. WindowsEnd' /\ Marked'
  BY <1>1, <1>3, CheckMarks
<1>6. ledger' \in [Keys -> Nat]
  BY <1>1, <1>2, PlusNat DEF Record, TypeOK
<1>7. call' \in [Callers -> CallRecord] /\ Estimated'
  <2>1. PICK outcome \in Outcomes : Leave(c, outcome)
    BY <1>1 DEF Outcomes
  <2>2. QED
    BY <2>1, CallMoves, Left DEF Leave
<1>8. calls' = calls /\ lost' = lost
  BY DEF Answered
<1>9. QED
  BY <1>4, <1>5, <1>6, <1>7, <1>8 DEF TypeOK, CallRecord

LEMMA EndsNext ==
  ASSUME IInv, NEW c \in Callers, CompleteThrows(c) \/ StreamEnds(c) \/ StreamBreaks(c)
  PROVE  IInv'
<1> USE DEF IInv
<1>1. call[c] \in CallRecord /\ call[c].estimate \in Nat
  <2>1. call[c] \in CallRecord
    BY DEF TypeOK, CallRecord
  <2>2. QED
    BY <2>1, EstimateNat, AmountsAssumption
<1>2. WindowsEnd' /\ Marked'
  BY DEF WindowsEnd, Marked, CompleteThrows, StreamEnds, StreamBreaks
<1>3. call' \in [Callers -> CallRecord] /\ Estimated'
  <2>1. PICK outcome \in Outcomes : Leave(c, outcome)
    BY DEF Outcomes, CompleteThrows, Throws, StreamEnds, StreamBreaks
  <2>2. QED
    BY <2>1, CallMoves, Left DEF Leave
<1>4. lost' \in [Keys -> Nat]
  BY <1>1, PlusNat DEF TypeOK, CompleteThrows, Throws, StreamEnds, StreamBreaks
<1>5. ledger' \in [Keys -> Nat]
  <2>1. \A cost \in Costs : cost \in Nat
    BY AmountsAssumption
  <2>2. \A cost \in Costs : Plus(ledger, KeysOf(c), cost) \in [Keys -> Nat]
    BY <2>1, PlusNat DEF TypeOK
  <2>3. QED
    BY <2>2 DEF TypeOK, CompleteThrows, StreamEnds, StreamBreaks, Record
<1>6. ASSUME NEW cost \in Nat PROVE Reconcile(c, cost) \in [Keys -> Int]
  <2>1. cost - call[c].estimate \in Int
    BY <1>1
  <2>2. QED
    BY <2>1, PlusInt DEF Reconcile, TypeOK
<1>7. spend' \in [Keys -> Int]
  BY <1>6, AmountsAssumption DEF TypeOK, CompleteThrows, StreamEnds, StreamBreaks
<1>8. UNCHANGED <<warned, ended, calls, announced>>
  BY DEF CompleteThrows, StreamEnds, StreamBreaks
<1>9. QED
  BY <1>2, <1>3, <1>4, <1>5, <1>7, <1>8 DEF TypeOK, CallRecord

LEMMA Inductive == IInv /\ [Next]_vars => IInv'
<1> SUFFICES ASSUME IInv, [Next]_vars PROVE IInv'
  OBVIOUS
<1>1. ASSUME NEW c \in Callers, BeginComplete(c) \/ BeginStream(c) PROVE IInv'
  BY <1>1, BeginNext DEF BeginComplete, BeginStream
<1>2. ASSUME NEW c \in Callers, Answered(c) PROVE IInv'
  BY <1>2, AnsweredNext
<1>3. ASSUME NEW c \in Callers, CompleteThrows(c) \/ StreamEnds(c) \/ StreamBreaks(c) PROVE IInv'
  BY <1>3, EndsNext
<1>4. ASSUME NEW k \in Keys, WindowEnds(k) PROVE IInv'
  BY <1>4 DEF WindowEnds, IInv, TypeOK, Estimated, WindowsEnd, Marked
<1>5. CASE UNCHANGED vars
  BY <1>5 DEF vars, IInv, TypeOK, Estimated, WindowsEnd, Marked
<1>6. QED
  BY <1>1, <1>2, <1>3, <1>4, <1>5 DEF Next

(* The calls, warnings and windows of the tracker fit together. *)
THEOREM Invariance == Spec => []IInv
BY Initially, Inductive, PTL DEF Spec

(* The accumulators, the calls under way and the ledger keep their types, and *)
(* what is recorded and lost is never negative.                            *)
THEOREM TypeCorrect == Spec => []TypeOK
<1>1. IInv => TypeOK
  BY DEF IInv
<1>2. QED
  BY <1>1, Invariance, PTL

(* A budget warns at most once in a window, whichever call crosses its        *)
(* threshold.                                                              *)
THEOREM WarnsOnce == Spec => []WarnedOnce
<1>1. IInv => WarnedOnce
  BY DEF IInv, Marked, WarnedOnce
<1>2. QED
  BY <1>1, Invariance, PTL

-------------------------------------------------------------------------------
(* The books *)

(* A budget without window is spent by what is checked, nothing more. *)
LEMMA ResetSame ==
  ASSUME WindowsEnd, NEW c \in Callers, NEW amount, NEW s,
         NEW k \in Keys, ~Budget[k].windowed
  PROVE  Reset(c, amount, s)[k] = s[k] /\ Spent(k, s) = s[k]
BY DEF WindowsEnd, Reset, Spent

LEMMA PlusAt ==
  ASSUME NEW s, NEW scopes, NEW amount, NEW k \in Keys
  PROVE  Plus(s, scopes, amount)[k] = IF k \in scopes THEN s[k] + amount ELSE s[k]
BY DEF Plus

LEMMA BooksInitially == Init => Books /\ Kept
<1> SUFFICES ASSUME Init PROVE Books /\ Kept
  OBVIOUS
<1>1. \A c \in Callers : call[c].phase = "idle" /\ call[c].scopes = {}
  BY DEF Init, Idle
<1>2. ASSUME NEW k \in Keys PROVE Reserved(k) = 0
  <2>1. {c \in Callers : k \in call[c].scopes} = {}
    BY <1>1
  <2>2. QED
    BY <2>1, SumEmpty DEF Reserved
<1>3. \A k \in Keys : spend[k] = 0 /\ ledger[k] = 0 /\ lost[k] = 0
  BY DEF Init
<1>4. SpendAccounted
  BY <1>2, <1>3 DEF SpendAccounted
<1>5. Kept
  BY <1>3, BudgetAssumption DEF Kept
<1>6. QED
  BY <1>1, <1>4, <1>5 DEF Books

(* The share of c after a step is the share before and what was added to the *)
(* accumulator, but for what was recorded and lost of it.                  *)
LEMMA BalanceNext ==
  ASSUME TypeOK, SpendAccounted, NEW c \in Callers, NEW new \in CallRecord,
         call' = [call EXCEPT ![c] = new], NEW k \in Keys, ~Budget[k].windowed,
         spend'[k] \in Int, ledger'[k] \in Nat, lost'[k] \in Nat,
         spend'[k] - spend[k] = (ledger'[k] - ledger[k]) + (lost'[k] - lost[k])
                                  + (Own(call', c, k) - Own(call, c, k))
  PROVE  spend'[k] = ledger'[k] + Reserved(k)' + lost'[k]
<1>1. call \in CallTable /\ call' \in CallTable /\ OnlyOf(c, call, call')
  BY DEF TypeOK, CallRecord, CallTable, OnlyOf
<1>2. /\ ReservedIn(call, k) \in Nat /\ ReservedIn(call', k) \in Nat
      /\ Own(call, c, k) \in Nat /\ Own(call', c, k) \in Nat
      /\ ReservedIn(call', k) + Own(call, c, k) = ReservedIn(call, k) + Own(call', c, k)
  BY <1>1, ReservedChange
<1>3. Reserved(k) = ReservedIn(call, k) /\ Reserved(k)' = ReservedIn(call', k)
  BY DEF Reserved, ReservedIn
<1>4. spend[k] = ledger[k] + ReservedIn(call, k) + lost[k]
  BY <1>3 DEF SpendAccounted
<1>5. spend[k] \in Int /\ ledger[k] \in Nat /\ lost[k] \in Nat
  BY DEF TypeOK
<1>6. QED
  BY <1>2, <1>3, <1>4, <1>5

LEMMA BeginBooks ==
  ASSUME SoftLast, IInv, IInv', Books,
         NEW c \in Callers, NEW phase \in {"calling", "streaming"}, Begin(c, phase)
  PROVE  Books' /\ (Kept => Kept')
<1> USE DEF IInv
<1>1. PICK estimate \in Estimates :
        IF Denied(c, estimate, spend)
          THEN /\ spend' = Reset(c, estimate, spend)
               /\ Leave(c, "denied")
               /\ UNCHANGED lost
          ELSE /\ spend' = Reserve(Reset(c, estimate, spend), Visited(c, estimate, spend), estimate)
               /\ \/ Waits(c, phase, estimate, Visited(c, estimate, spend))
                  \/ phase = "streaming" /\ Throws(c, estimate, Visited(c, estimate, spend))
  BY DEF Begin
<1>2. estimate \in Nat
  BY AmountsAssumption
<1>3. ledger' = ledger /\ call[c].phase = "idle"
  BY DEF Begin
<1>4. \A k : Own(call, c, k) = 0
  BY <1>3 DEF Estimated, Own
<1>5. \A k \in Keys : /\ spend[k] \in Int /\ spend'[k] \in Int /\ lost[k] \in Nat /\ lost'[k] \in Nat
                      /\ ledger[k] \in Nat
  BY DEF TypeOK
<1>6. call \in [Callers -> CallRecord]
  BY DEF TypeOK, CallRecord
<1>7. CASE Denied(c, estimate, spend)
  <2> DEFINE new == [Idle EXCEPT !.outcome = "denied"]
  <2>1. new \in CallRecord /\ new.phase = "idle" /\ new.estimate = 0 /\ new.scopes = {}
    BY Left DEF Outcomes
  <2>2. call' = [call EXCEPT ![c] = new] /\ lost' = lost /\ spend' = Reset(c, estimate, spend)
    BY <1>1, <1>7 DEF Leave
  <2> HIDE DEF new
  <2>3. call'[c] = new /\ \A d \in Callers \ {c} : call'[d] = call[d]
    BY <1>6, <2>2
  <2>4. ASSUME NEW k \in Keys, ~Budget[k].windowed
        PROVE  spend'[k] = spend[k] /\ spend'[k] = ledger'[k] + Reserved(k)' + lost'[k]
    <3>1. spend'[k] = spend[k]
      BY <2>2, <2>4, ResetSame
    <3>2. Own(call', c, k) = 0
      BY <2>1, <2>3 DEF Own
    <3>3. spend'[k] - spend[k] = (ledger'[k] - ledger[k]) + (lost'[k] - lost[k])
                                  + (Own(call', c, k) - Own(call, c, k))
      BY <1>3, <1>4, <1>5, <2>2, <3>1, <3>2
    <3>4. QED
      BY <1>3, <1>5, <2>1, <2>2, <2>4, <3>1, <3>3, BalanceNext DEF Books
  <2>5. QED
    BY <2>1, <2>3, <2>4 DEF Books, SpendAccounted, Kept, KeysOf
<1>8. CASE ~Denied(c, estimate, spend)
  <2> DEFINE scopes == Visited(c, estimate, spend)
  <2>1. scopes = KeysOf(c) /\ KeysOf(c) \subseteq Keys
    BY <1>8, AllVisited, VisitedKeys
  <2>2. \A k \in KeysOf(c) : Budget[k].hard => ~(Spent(k, spend) + estimate > Budget[k].limit)
    BY <1>8, AllVisited
  <2>3. spend' = Plus(Reset(c, estimate, spend), KeysOf(c), estimate)
    BY <1>1, <1>8, <2>1 DEF Reserve
  <2>4. \/ Waits(c, phase, estimate, KeysOf(c))
        \/ Throws(c, estimate, KeysOf(c))
    BY <1>1, <1>8, <2>1
  <2>5. \A k \in Keys : ~Budget[k].windowed =>
          spend'[k] = IF k \in KeysOf(c) THEN spend[k] + estimate ELSE spend[k]
    BY <2>3, ResetSame, PlusAt
  <2>6. ASSUME Kept PROVE Kept'
    <3>1. ASSUME NEW k \in Keys, Budget[k].hard, ~Budget[k].windowed
          PROVE  spend'[k] <= Budget[k].limit
      <4>1. Budget[k].limit \in Nat /\ Spent(k, spend) = spend[k]
        BY <3>1, BudgetAssumption, ResetSame
      <4>2. CASE k \in KeysOf(c)
        BY <1>2, <1>5, <2>2, <2>5, <3>1, <4>1, <4>2
      <4>3. CASE k \notin KeysOf(c)
        BY <2>5, <2>6, <3>1, <4>3 DEF Kept
      <4>4. QED
        BY <4>2, <4>3
    <3>2. QED
      BY <3>1 DEF Kept
  <2>7. CASE Waits(c, phase, estimate, KeysOf(c))
    <3> DEFINE new == [phase |-> phase, estimate |-> estimate, scopes |-> KeysOf(c), outcome |-> "none"]
    <3>1. new \in CallRecord /\ new.estimate = estimate /\ new.scopes = KeysOf(c)
      BY <2>1 DEF CallRecord, Outcomes
    <3>2. call' = [call EXCEPT ![c] = new] /\ lost' = lost
      BY <2>7 DEF Waits
    <3> HIDE DEF new
    <3>3. call'[c] = new /\ \A d \in Callers \ {c} : call'[d] = call[d]
      BY <1>6, <3>2
    <3>4. ASSUME NEW k \in Keys, ~Budget[k].windowed
          PROVE  spend'[k] = ledger'[k] + Reserved(k)' + lost'[k]
      <4>1. Own(call', c, k) = IF k \in KeysOf(c) THEN estimate ELSE 0
        BY <3>1, <3>3 DEF Own
      <4>2. spend'[k] - spend[k] = (ledger'[k] - ledger[k]) + (lost'[k] - lost[k])
                                    + (Own(call', c, k) - Own(call, c, k))
        BY <1>2, <1>3, <1>4, <1>5, <2>5, <3>2, <3>4, <4>1
      <4>3. QED
        BY <1>3, <1>5, <3>1, <3>2, <3>4, <4>2, BalanceNext DEF Books
    <3>5. QED
      BY <2>6, <3>1, <3>3, <3>4 DEF Books, SpendAccounted, KeysOf
  <2>8. CASE Throws(c, estimate, KeysOf(c))
    <3> DEFINE new == [Idle EXCEPT !.outcome = "threw"]
    <3>1. new \in CallRecord /\ new.phase = "idle" /\ new.estimate = 0 /\ new.scopes = {}
      BY Left DEF Outcomes
    <3>2. call' = [call EXCEPT ![c] = new] /\ lost' = Plus(lost, KeysOf(c), estimate)
      BY <2>8 DEF Throws, Leave
    <3> HIDE DEF new
    <3>3. call'[c] = new /\ \A d \in Callers \ {c} : call'[d] = call[d]
      BY <1>6, <3>2
    <3>4. ASSUME NEW k \in Keys, ~Budget[k].windowed
          PROVE  spend'[k] = ledger'[k] + Reserved(k)' + lost'[k]
      <4>1. Own(call', c, k) = 0
        BY <3>1, <3>3 DEF Own
      <4>2. lost'[k] = IF k \in KeysOf(c) THEN lost[k] + estimate ELSE lost[k]
        BY <3>2, PlusAt
      <4>3. spend'[k] - spend[k] = (ledger'[k] - ledger[k]) + (lost'[k] - lost[k])
                                    + (Own(call', c, k) - Own(call, c, k))
        BY <1>2, <1>3, <1>4, <1>5, <2>5, <3>4, <4>1, <4>2
      <4>4. QED
        BY <1>3, <1>5, <3>1, <3>2, <3>4, <4>3, BalanceNext DEF Books
    <3>5. QED
      BY <2>6, <3>1, <3>3, <3>4 DEF Books, SpendAccounted, KeysOf
  <2>9. QED
    BY <2>4, <2>7, <2>8
<1>9. QED
  BY <1>7, <1>8

(* When c ends, its estimate leaves the accumulators for what was recorded   *)
(* of it and what it lost.                                                 *)
Settles(c, k) ==
  LET scoped == k \in KeysOf(c)
  IN  \E cost \in Costs \cup {0}, rest \in {0, call[c].estimate} :
        /\ rest # 0 => cost = 0
        /\ ledger'[k] = IF scoped THEN ledger[k] + cost ELSE ledger[k]
        /\ lost'[k] = IF scoped THEN lost[k] + rest ELSE lost[k]
        /\ spend'[k] = IF scoped THEN spend[k] + (cost + rest - call[c].estimate) ELSE spend[k]

LEMMA EndSettles ==
  ASSUME IInv, Books, NEW c \in Callers,
         Answered(c) \/ CompleteThrows(c) \/ StreamEnds(c) \/ StreamBreaks(c),
         NEW k \in Keys, ~Budget[k].windowed
  PROVE  Settles(c, k)
<1> USE DEF IInv
<1>1. call \in [Callers -> CallRecord] /\ call[c] \in CallRecord /\ call[c].phase # "idle"
  BY DEF TypeOK, CallRecord, Answered, CompleteThrows, StreamEnds, StreamBreaks
<1>2. call[c].estimate \in Nat /\ call[c].scopes = KeysOf(c)
  BY <1>1, EstimateNat DEF Books
<1>3. spend[k] \in Int /\ lost[k] \in Nat /\ ledger[k] \in Nat /\ Costs \subseteq Nat
  BY AmountsAssumption DEF TypeOK
<1>4. \A cost : Reconcile(c, cost)[k]
                  = IF k \in KeysOf(c) THEN spend[k] + (cost - call[c].estimate) ELSE spend[k]
  BY <1>2, PlusAt DEF Reconcile
<1>5. \A cost : Plus(ledger, KeysOf(c), cost)[k]
                  = IF k \in KeysOf(c) THEN ledger[k] + cost ELSE ledger[k]
  BY PlusAt
<1>6. CASE Answered(c)
  <2>1. PICK cost \in Costs : Record(c, cost) /\ spend' = Reset(c, 0, Reconcile(c, cost))
    BY <1>6 DEF Answered
  <2>2. spend'[k] = Reconcile(c, cost)[k] /\ lost' = lost
    BY <1>6, <2>1, ResetSame DEF Answered
  <2>3. ledger'[k] = IF k \in KeysOf(c) THEN ledger[k] + cost ELSE ledger[k]
    BY <1>5, <2>1 DEF Record
  <2>4. QED
    BY <1>2, <1>3, <1>4, <2>2, <2>3 DEF Settles
<1>7. CASE StreamEnds(c)
  <2>1. PICK cost \in Costs : Record(c, cost) /\ spend' = Reconcile(c, cost)
    BY <1>7 DEF StreamEnds
  <2>2. lost' = lost
    BY <1>7 DEF StreamEnds
  <2>3. ledger'[k] = IF k \in KeysOf(c) THEN ledger[k] + cost ELSE ledger[k]
    BY <1>5, <2>1 DEF Record
  <2>4. QED
    BY <1>2, <1>3, <1>4, <2>1, <2>2, <2>3 DEF Settles
<1>8. CASE StreamBreaks(c)
  <2>1. spend' = Reconcile(c, 0) /\ lost' = lost /\ ledger' = ledger
    BY <1>8 DEF StreamBreaks
  <2>2. QED
    BY <1>2, <1>3, <1>4, <2>1 DEF Settles
<1>9. CASE CompleteThrows(c)
  <2>1. lost' = Plus(lost, KeysOf(c), call[c].estimate) /\ spend' = spend /\ ledger' = ledger
    BY <1>2, <1>9 DEF CompleteThrows, Throws
  <2>2. lost'[k] = IF k \in KeysOf(c) THEN lost[k] + call[c].estimate ELSE lost[k]
    BY <2>1, PlusAt
  <2>3. spend[k] = spend[k] + (0 + call[c].estimate - call[c].estimate)
        /\ ledger[k] = ledger[k] + 0
    BY <1>2, <1>3
  <2>4. QED
    BY <2>1, <2>2, <2>3 DEF Settles
<1>10. QED
  BY <1>6, <1>7, <1>8, <1>9

LEMMA EndBooks ==
  ASSUME IInv, IInv', Books, NEW c \in Callers,
         Answered(c) \/ CompleteThrows(c) \/ StreamEnds(c) \/ StreamBreaks(c)
  PROVE  Books'
<1> USE DEF IInv
<1>1. call \in [Callers -> CallRecord] /\ call[c] \in CallRecord /\ call[c].phase # "idle"
  BY DEF TypeOK, CallRecord, Answered, CompleteThrows, StreamEnds, StreamBreaks
<1>2. call[c].estimate \in Nat /\ call[c].scopes = KeysOf(c)
  BY <1>1, EstimateNat DEF Books
<1>3. PICK outcome \in Outcomes : Leave(c, outcome)
  BY DEF Outcomes, Answered, CompleteThrows, Throws, StreamEnds, StreamBreaks
<1> DEFINE new == [Idle EXCEPT !.outcome = outcome]
<1>4. new \in CallRecord /\ new.phase = "idle" /\ new.estimate = 0 /\ new.scopes = {}
  BY Left
<1>5. call' = [call EXCEPT ![c] = new]
  BY <1>3 DEF Leave
<1> HIDE DEF new
<1>6. call'[c] = new /\ \A d \in Callers \ {c} : call'[d] = call[d]
  BY <1>1, <1>5
<1>7. ASSUME NEW k \in Keys, ~Budget[k].windowed
      PROVE  spend'[k] = ledger'[k] + Reserved(k)' + lost'[k]
  <2>1. PICK cost \in Costs \cup {0}, rest \in {0, call[c].estimate} :
          /\ ledger'[k] = IF k \in KeysOf(c) THEN ledger[k] + cost ELSE ledger[k]
          /\ lost'[k] = IF k \in KeysOf(c) THEN lost[k] + rest ELSE lost[k]
          /\ spend'[k] = IF k \in KeysOf(c) THEN spend[k] + (cost + rest - call[c].estimate)
                                            ELSE spend[k]
    BY <1>7, EndSettles DEF Settles
  <2>2. cost \in Nat /\ rest \in Nat
    <3>1. cost \in Nat
      BY AmountsAssumption
    <3>2. rest \in Nat
      BY <1>2
    <3> QED
      BY <3>1, <3>2
  <2>3. Own(call', c, k) = 0 /\ Own(call, c, k) = IF k \in KeysOf(c) THEN call[c].estimate ELSE 0
    BY <1>2, <1>4, <1>6 DEF Own
  <2>4. spend[k] \in Int /\ spend'[k] \in Int /\ lost[k] \in Nat /\ lost'[k] \in Nat
        /\ ledger[k] \in Nat /\ ledger'[k] \in Nat
    BY DEF TypeOK
  <2>5. spend'[k] - spend[k] = (ledger'[k] - ledger[k]) + (lost'[k] - lost[k])
                                + (Own(call', c, k) - Own(call, c, k))
    <3>1. CASE k \in KeysOf(c)
      <4>1. /\ ledger'[k] = ledger[k] + cost /\ lost'[k] = lost[k] + rest
            /\ spend'[k] = spend[k] + (cost + rest - call[c].estimate)
        BY <2>1, <3>1
      <4>2. Own(call', c, k) = 0 /\ Own(call, c, k) = call[c].estimate
        BY <2>3, <3>1
      <4>3. call[c].estimate \in Nat
        BY <1>2
      <4>4. spend'[k] - spend[k] = cost + rest - call[c].estimate
        BY <2>2, <2>4, <4>1, <4>3
      <4>5. ledger'[k] - ledger[k] = cost /\ lost'[k] - lost[k] = rest
        BY <2>2, <2>4, <4>1
      <4>6. QED
        BY <2>2, <4>2, <4>3, <4>4, <4>5
    <3>2. CASE k \notin KeysOf(c)
      BY <2>1, <2>3, <2>4, <3>2
    <3>3. QED
      BY <3>1, <3>2
  <2>6. QED
    BY <1>4, <1>5, <1>7, <2>4, <2>5, BalanceNext DEF Books
<1>8. QED
  BY <1>4, <1>6, <1>7 DEF Books, SpendAccounted, KeysOf

(* A call that ends never adds to what is spent, when it was overestimated. *)
LEMMA EndKept ==
  ASSUME Overestimated, IInv, Books, Kept, NEW c \in Callers,
         Answered(c) \/ CompleteThrows(c) \/ StreamEnds(c) \/ StreamBreaks(c)
  PROVE  Kept'
<1> USE DEF IInv
<1>1. call[c] \in CallRecord /\ call[c].phase # "idle"
  BY DEF TypeOK, CallRecord, Answered, CompleteThrows, StreamEnds, StreamBreaks
<1>2. call[c].estimate \in Nat /\ call[c].estimate \in Estimates
  BY <1>1, EstimateNat DEF Estimated
<1>3. ASSUME NEW k \in Keys, Budget[k].hard, ~Budget[k].windowed
      PROVE  spend'[k] <= Budget[k].limit
  <2>1. PICK cost \in Costs \cup {0}, rest \in {0, call[c].estimate} :
          /\ rest # 0 => cost = 0
          /\ spend'[k] = IF k \in KeysOf(c) THEN spend[k] + (cost + rest - call[c].estimate)
                                            ELSE spend[k]
    BY <1>3, EndSettles DEF Settles
  <2>2. cost \in Nat /\ rest \in Nat /\ cost + rest <= call[c].estimate
    <3>1. cost \in Nat
      <4>1. CASE cost = 0
        BY <4>1
      <4>2. CASE cost \in Costs
        BY <4>2, AmountsAssumption
      <4>3. QED
        BY <4>1, <4>2
    <3>2. cost <= call[c].estimate
      BY <1>2 DEF Overestimated
    <3>3. QED
      BY <1>2, <2>1, <3>1, <3>2
  <2>3. spend[k] \in Int /\ Budget[k].limit \in Nat /\ spend[k] <= Budget[k].limit
    BY <1>3, BudgetAssumption DEF TypeOK, Kept
  <2>4. QED
    BY <1>2, <2>1, <2>2, <2>3
<1>4. QED
  BY <1>3 DEF Kept

LEMMA BooksNext ==
  ASSUME SoftLast
  PROVE  IInv /\ IInv' /\ Books /\ [Next]_vars => Books'
<1> SUFFICES ASSUME IInv, IInv', Books, [Next]_vars PROVE Books'
  OBVIOUS
<1>1. ASSUME NEW c \in Callers, BeginComplete(c) \/ BeginStream(c) PROVE Books'
  BY <1>1, BeginBooks DEF BeginComplete, BeginStream
<1>2. ASSUME NEW c \in Callers,
             Answered(c) \/ CompleteThrows(c) \/ StreamEnds(c) \/ StreamBreaks(c)
      PROVE  Books'
  BY <1>2, EndBooks
<1>3. ASSUME NEW k \in Keys, WindowEnds(k) PROVE Books'
  BY <1>3 DEF WindowEnds, Books, SpendAccounted, Reserved, KeysOf
<1>4. CASE UNCHANGED vars
  BY <1>4 DEF vars, Books, SpendAccounted, Reserved, KeysOf
<1>5. QED
  BY <1>1, <1>2, <1>3, <1>4 DEF Next

LEMMA KeptNext ==
  ASSUME SoftLast, Overestimated
  PROVE  IInv /\ IInv' /\ Books /\ Kept /\ [Next]_vars => Kept'
<1> SUFFICES ASSUME IInv, IInv', Books, Kept, [Next]_vars PROVE Kept'
  OBVIOUS
<1>1. ASSUME NEW c \in Callers, BeginComplete(c) \/ BeginStream(c) PROVE Kept'
  BY <1>1, BeginBooks DEF BeginComplete, BeginStream
<1>2. ASSUME NEW c \in Callers,
             Answered(c) \/ CompleteThrows(c) \/ StreamEnds(c) \/ StreamBreaks(c)
      PROVE  Kept'
  BY <1>2, EndKept
<1>3. ASSUME NEW k \in Keys, WindowEnds(k) PROVE Kept'
  BY <1>3 DEF WindowEnds, Kept
<1>4. CASE UNCHANGED vars
  BY <1>4 DEF vars, Kept
<1>5. QED
  BY <1>1, <1>2, <1>3, <1>4 DEF Next

(* The recorded cost is what was spent but for what is reserved and lost.   *)
LEMMA LedgerWithin == TypeOK /\ SpendAccounted /\ Kept => HardKept
<1> SUFFICES ASSUME TypeOK, SpendAccounted, Kept,
                    NEW k \in Keys, Budget[k].hard, ~Budget[k].windowed
             PROVE  ledger[k] <= Budget[k].limit
  BY DEF HardKept
<1> DEFINE f == [c \in Callers |-> call[c].estimate]
           S == {c \in Callers : k \in call[c].scopes}
<1>1. \A c \in Callers : f[c] \in Nat
  <2>1. \A c \in Callers : call[c] \in CallRecord
    BY DEF TypeOK, CallRecord
  <2>2. QED
    BY <2>1, EstimateNat
<1>2. S \subseteq Callers
  OBVIOUS
<1>3. Reserved(k) = SumFunctionOnSet(f, S)
  BY DEF Reserved
<1> HIDE DEF f, S
<1>4. Reserved(k) \in Nat
  BY <1>1, <1>2, <1>3, CallersAssumption, FS_Subset, SumNat
<1>5. spend[k] = ledger[k] + Reserved(k) + lost[k] /\ spend[k] <= Budget[k].limit
  BY DEF SpendAccounted, Kept
<1>6. ledger[k] \in Nat /\ lost[k] \in Nat /\ Budget[k].limit \in Nat
  BY BudgetAssumption DEF TypeOK
<1>7. QED
  BY <1>4, <1>5, <1>6

(* tracker.ts:86-153: of a budget without window the accumulator is always     *)
(* what the ledger recorded, what calls under way reserved and what calls   *)
(* that threw left behind, when only the last budget of a call is soft.    *)
THEOREM SpendAlwaysAccounted ==
  ASSUME SoftLast
  PROVE  Spec => []SpendAccounted
<1>1. Init => Books
  BY BooksInitially
<1>2. IInv /\ IInv' /\ Books /\ [Next]_vars => Books'
  BY BooksNext
<1>3. Books => SpendAccounted
  BY DEF Books
<1>4. QED
  BY <1>1, <1>2, <1>3, Invariance, PTL DEF Spec

(* Calls in flight together never get what is recorded over a hard budget     *)
(* without window, when no call costs more than its estimate and only the   *)
(* last budget of a call is soft.                                          *)
THEOREM HardAlwaysKept ==
  ASSUME SoftLast, Overestimated
  PROVE  Spec => []HardKept
<1>1. Init => Books /\ Kept
  BY BooksInitially
<1>2. IInv /\ IInv' /\ Books /\ Kept /\ [Next]_vars => Books' /\ Kept'
  BY BooksNext, KeptNext
<1>3. IInv /\ Books /\ Kept => HardKept
  BY LedgerWithin DEF IInv, Books
<1>4. QED
  BY <1>1, <1>2, <1>3, Invariance, PTL DEF Spec

(***************************************************************************)
(* Routing.  The invariant is stated provider by provider: the breaker     *)
(* counts the failures callers saw (Sound), and has a timer exactly while  *)
(* it is open (Armed).  Everything the requests do reaches a breaker       *)
(* through RecordSuccess and RecordFailure, so the lemmas about these two  *)
(* carry the proof.                                                        *)
(***************************************************************************)

(* A breaker b beside the failures s in a row that callers saw: as long as   *)
(* it is healthy it has not counted to the threshold, and nothing callers   *)
(* did not see; it has counted everything if the provider streams natively.    *)
(* Its timer is armed only when it is open.                                *)
Sound(p, b, s) ==
  /\ b \in Breaker
  /\ s \in 0 .. Threshold
  /\ b.cooling = TRUE => b.state = "unhealthy"
  /\ b.state = "healthy" => b.failures < Threshold /\ b.failures <= s
  /\ b.state = "healthy" /\ p \in Streaming => b.failures = s

Armed(b) == b.state = "unhealthy" => b.cooling = TRUE

Counted == \A p \in Providers : Sound(p, breaker[p], streak[p])

RouterIInv ==
  /\ RouterTypeOK
  /\ Counted
  /\ ~down => \A p \in Providers : Armed(breaker[p])

(***************************************************************************)
(* The circuit breaker                                                     *)
(***************************************************************************)

(* What a breaker may become, beside the failures s seen after the step *)
Legal(p, b, c, s) ==
  \/ b.state = c.state
  \/ b.state = "healthy" /\ c.state = "unhealthy" /\ s = Threshold
  \/ b.state = "unhealthy" /\ c.state = "half_open" /\ b.cooling = TRUE
  \/ b.state = "half_open" /\ c.state = "unhealthy" /\ s > 0
  \/ b.state = "half_open" /\ c.state = "healthy" /\ (p \in Streaming => s = 0)

LEMMA CountType ==
  ASSUME NEW n \in 0 .. Threshold
  PROVE  Count(n) \in 1 .. Threshold /\ (n < Threshold => Count(n) = n + 1)
                                     /\ (n = Threshold => Count(n) = Threshold)
BY ThresholdAssumption DEF Count

(* A success seen by the caller keeps a breaker sound, *)
LEMMA SuccessSound ==
  ASSUME NEW p, NEW b, NEW s, Sound(p, b, s)
  PROVE  /\ Sound(p, RecordSuccess(b), 0)
         /\ Armed(b) => Armed(RecordSuccess(b))
         /\ Legal(p, b, RecordSuccess(b), 0)
BY ThresholdAssumption DEF Sound, RecordSuccess, Healthy, Breaker, Armed, Legal

(* and so does the success stream() reports when it hands out a response     *)
(* that has not come, if the provider does not stream natively.            *)
LEMMA EarlySuccessSound ==
  ASSUME NEW p, p \notin Streaming, NEW b, NEW s, Sound(p, b, s)
  PROVE  /\ Sound(p, RecordSuccess(b), s)
         /\ Armed(b) => Armed(RecordSuccess(b))
         /\ Legal(p, b, RecordSuccess(b), s)
BY ThresholdAssumption DEF Sound, RecordSuccess, Healthy, Breaker, Armed, Legal

LEMMA TripFields ==
  ASSUME NEW b \in Breaker
  PROVE  /\ Trip(b) \in Breaker
         /\ Trip(b).state = "unhealthy"
         /\ Trip(b).cooling = TRUE
         /\ Trip(b).failures = b.failures
BY DEF Trip, Breaker

LEMMA FailureSound ==
  ASSUME NEW p, NEW b, NEW s, Sound(p, b, s)
  PROVE  /\ Sound(p, RecordFailure(b), Count(s))
         /\ Armed(b) => Armed(RecordFailure(b))
         /\ Legal(p, b, RecordFailure(b), Count(s))
<1> b \in Breaker /\ s \in 0 .. Threshold
  BY DEF Sound
<1> DEFINE n == Count(b.failures)
           counted == [b EXCEPT !.failures = n]
<1>1. n \in 1 .. Threshold /\ (b.failures < Threshold => n = b.failures + 1)
  BY CountType DEF Breaker
<1>2. Count(s) \in 1 .. Threshold /\ (s < Threshold => Count(s) = s + 1)
                                  /\ (s = Threshold => Count(s) = Threshold)
  BY CountType
<1>3. RecordFailure(b) = IF b.state = "half_open" THEN Trip(b)
                         ELSE IF b.state = "healthy" /\ counted.failures = Threshold
                                THEN Trip(counted)
                         ELSE counted
  BY DEF RecordFailure
<1>4. /\ counted \in Breaker
      /\ counted.state = b.state
      /\ counted.failures = n
      /\ counted.cooling = b.cooling
  BY <1>1 DEF Breaker
<1> HIDE DEF n, counted
<1>9. Count(s) \in 0 .. Threshold /\ Count(s) > 0
  BY <1>2, ThresholdAssumption
<1>5. CASE b.state = "half_open"
  <2>1. RecordFailure(b) = Trip(b)
    BY <1>3, <1>5
  <2>2. /\ Trip(b) \in Breaker
        /\ Trip(b).state = "unhealthy"
        /\ Trip(b).cooling = TRUE
    BY TripFields
  <2>3. Sound(p, Trip(b), Count(s))
    BY <1>9, <2>2 DEF Sound
  <2>4. Armed(Trip(b)) /\ Legal(p, b, Trip(b), Count(s))
    BY <1>5, <1>9, <2>2 DEF Armed, Legal
  <2> QED
    BY <2>1, <2>3, <2>4
<1>6. CASE b.state = "healthy" /\ n = Threshold
  <2>1. RecordFailure(b) = Trip(counted)
    BY <1>3, <1>4, <1>6
  <2>2. Count(s) = Threshold
    BY <1>1, <1>2, <1>6, ThresholdAssumption DEF Sound, Breaker
  <2>3. /\ Trip(counted) \in Breaker
        /\ Trip(counted).state = "unhealthy"
        /\ Trip(counted).cooling = TRUE
    BY <1>4, TripFields
  <2>4. Sound(p, Trip(counted), Count(s))
    BY <1>9, <2>3 DEF Sound
  <2>5. Armed(Trip(counted)) /\ Legal(p, b, Trip(counted), Count(s))
    BY <1>6, <2>2, <2>3 DEF Armed, Legal
  <2> QED
    BY <2>1, <2>4, <2>5
<1>7. CASE b.state = "healthy" /\ n # Threshold
  <2>1. RecordFailure(b) = counted
    BY <1>3, <1>4, <1>7
  <2>2. n < Threshold /\ n <= Count(s) /\ (p \in Streaming => n = Count(s))
    BY <1>1, <1>2, <1>7, ThresholdAssumption DEF Sound, Breaker
  <2> QED
    BY <1>2, <1>4, <1>7, <2>1, <2>2 DEF Sound, Breaker, Armed, Legal
<1>8. CASE b.state = "unhealthy"
  BY <1>2, <1>3, <1>4, <1>8 DEF Sound, Breaker, Armed, Legal
<1> QED
  BY <1>5, <1>6, <1>7, <1>8 DEF Breaker

LEMMA HalfOpenSound ==
  ASSUME NEW p, NEW b, NEW s, Sound(p, b, s)
  PROVE  /\ Sound(p, HalfOpen(b), s)
         /\ Armed(HalfOpen(b))
         /\ b.cooling = TRUE => Legal(p, b, HalfOpen(b), s)
BY DEF Sound, HalfOpen, Breaker, Armed, Legal

(***************************************************************************)
(* Requests                                                                *)
(***************************************************************************)

LEMMA IdleType == IdleRequest \in RequestRecord
BY FallbackAssumption, AttemptsAssumption DEF IdleRequest, RequestRecord

LEMMA AskingType ==
  ASSUME NEW p \in Providers, NEW rest \in SUBSET Providers, NEW left \in 0 .. MaxFallback
  PROVE  /\ Asking(p, rest, left) \in RequestRecord
         /\ Asking(p, rest, left).provider = p
         /\ Asking(p, rest, left).phase = "asking"
BY AttemptsAssumption DEF Asking, RequestRecord

(* What routing and falling back make of a request: it ends, or asks a       *)
(* provider.                                                               *)
WellFormed(q) ==
  /\ q \in RequestRecord
  /\ q.phase # "idle" => q.provider \in Providers
  /\ q.phase = "backoff" => q.attempt < MaxAttempts

LEMMA RoutesType ==
  ASSUME NEW b, NEW q \in Routes(b)
  PROVE  WellFormed(q)
<1>1. CASE q = IdleRequest
  BY <1>1, IdleType DEF WellFormed, IdleRequest
<1>2. CASE q # IdleRequest
  <2>1. PICK p \in Available(b) :
          q = Asking(p, Available(b) \ {p}, Least(Cardinality(Available(b)), MaxFallback + 1) - 1)
    BY <1>2 DEF Routes
  <2>2. /\ Available(b) \subseteq Providers
        /\ Available(b) # {}
    BY <2>1 DEF Available
  <2>3. IsFiniteSet(Available(b))
    BY <2>2, FS_Subset, FiniteAssumption
  <2>4. Cardinality(Available(b)) \in Nat /\ Cardinality(Available(b)) # 0
    BY <2>2, <2>3, FS_CardinalityType, FS_EmptySet
  <2>5. Least(Cardinality(Available(b)), MaxFallback + 1) - 1 \in 0 .. MaxFallback
    BY <2>4, FallbackAssumption DEF Least
  <2> QED
    BY <2>1, <2>2, <2>5, AskingType DEF WellFormed
<1> QED
  BY <1>1, <1>2

LEMMA FallbacksType ==
  ASSUME NEW q \in RequestRecord, NEW b, NEW r \in Fallbacks(q, b)
  PROVE  WellFormed(r)
<1>1. CASE q.override
  BY <1>1, RoutesType DEF Fallbacks
<1>2. CASE ~q.override /\ q.left = 0
  <2>1. r = IdleRequest
    BY <1>2 DEF Fallbacks
  <2> QED
    BY <2>1, IdleType DEF WellFormed, IdleRequest
<1>3. CASE ~q.override /\ q.left # 0
  <2>1. PICK p \in q.rest : r = Asking(p, q.rest \ {p}, q.left - 1)
    BY <1>3 DEF Fallbacks
  <2>2. q.rest \subseteq Providers /\ q.left - 1 \in 0 .. MaxFallback
    BY <1>3, FallbackAssumption DEF RequestRecord
  <2> QED
    BY <2>1, <2>2, AskingType DEF WellFormed
<1> QED
  BY <1>1, <1>2, <1>3

(* A step that makes request r a well-formed record keeps the type of the     *)
(* requests.                                                                *)
RequestsTyped ==
  /\ request \in [Requests -> RequestRecord]
  /\ \A r \in Requests :
       /\ request[r].phase # "idle" => request[r].provider \in Providers
       /\ request[r].phase = "backoff" => request[r].attempt < MaxAttempts

LEMMA BecomeTyped ==
  ASSUME RequestsTyped, NEW r \in Requests, NEW q, WellFormed(q), Become(r, q)
  PROVE  RequestsTyped'
BY DEF RequestsTyped, WellFormed, Become

(***************************************************************************)
(* Steps                                                                   *)
(***************************************************************************)

(* What a step does to a breaker and the failures seen *)
Moves(p) ==
  /\ Sound(p, breaker'[p], streak'[p])
  /\ Armed(breaker[p]) => Armed(breaker'[p])
  /\ Legal(p, breaker[p], breaker'[p], streak'[p])

Typed ==
  /\ breaker \in [Providers -> Breaker]
  /\ streak \in [Providers -> 0 .. Threshold]
  /\ RequestsTyped

LEMMA StaysPut ==
  ASSUME Counted, NEW p \in Providers, breaker'[p] = breaker[p], streak'[p] = streak[p]
  PROVE  Moves(p)
BY DEF Moves, Counted, Legal, Armed

LEMMA SuccessMoves ==
  ASSUME Typed, Counted, NEW p \in Providers, Succeeded(p)
  PROVE  \A x \in Providers : Moves(x)
<1> SUFFICES ASSUME NEW x \in Providers
             PROVE  Moves(x)
  OBVIOUS
<1>1. CASE x = p
  <2>1. breaker'[x] = RecordSuccess(breaker[x]) /\ streak'[x] = 0
    BY <1>1 DEF Succeeded, Typed
  <2>2. Sound(x, breaker[x], streak[x])
    BY DEF Counted
  <2> QED
    BY <2>1, <2>2, SuccessSound DEF Moves
<1>2. CASE x # p
  BY <1>2, StaysPut DEF Succeeded, Typed
<1> QED
  BY <1>1, <1>2

LEMMA FailureMoves ==
  ASSUME Typed, Counted, NEW p \in Providers,
         breaker' = [breaker EXCEPT ![p] = RecordFailure(@)],
         streak' = [streak EXCEPT ![p] = Count(@)]
  PROVE  \A x \in Providers : Moves(x)
<1> SUFFICES ASSUME NEW x \in Providers
             PROVE  Moves(x)
  OBVIOUS
<1>1. CASE x = p
  <2>1. breaker'[x] = RecordFailure(breaker[x]) /\ streak'[x] = Count(streak[x])
    BY <1>1 DEF Typed
  <2>2. Sound(x, breaker[x], streak[x])
    BY DEF Counted
  <2> QED
    BY <2>1, <2>2, FailureSound DEF Moves
<1>2. CASE x # p
  BY <1>2, StaysPut DEF Typed
<1> QED
  BY <1>1, <1>2

(* stream() records the failures of those that threw, and the success of the *)
(* one that hands out a response, unless it streams natively.              *)
LEMMA StreamMoves ==
  ASSUME Typed, Counted, NEW r \in Requests, Stream(r)
  PROVE  (\A x \in Providers : Moves(x)) /\ RequestsTyped'
<1>0. PICK among \in Candidates : \E threw \in SUBSET among : Tries(r, among, threw)
  BY DEF Stream
<1>1. PICK threw \in SUBSET among : Tries(r, among, threw)
  BY <1>0
<1> DEFINE b == [p \in Providers |->
                   IF p \in threw THEN RecordFailure(breaker[p]) ELSE breaker[p]]
<1>2. streak' = [p \in Providers |-> IF p \in threw THEN Count(streak[p]) ELSE streak[p]]
  BY <1>1 DEF Tries
<1>3. among \subseteq Providers
  BY DEF Candidates, Available
<1>4. ASSUME NEW x \in Providers
      PROVE  /\ Sound(x, b[x], streak'[x])
             /\ Armed(breaker[x]) => Armed(b[x])
             /\ Legal(x, breaker[x], b[x], streak'[x])
  <2>1. Sound(x, breaker[x], streak[x])
    BY DEF Counted
  <2>2. CASE x \in threw
    BY <1>2, <2>1, <2>2, FailureSound
  <2>3. CASE x \notin threw
    BY <1>2, <2>1, <2>3 DEF Legal
  <2> QED
    BY <2>2, <2>3
<1>5. \/ breaker' = b /\ UNCHANGED request
      \/ \E p \in among \ threw :
           /\ breaker' = IF p \in Streaming THEN b ELSE [b EXCEPT ![p] = RecordSuccess(@)]
           /\ Become(r, [Asking(p, {}, 0) EXCEPT !.phase = "streaming"])
  BY <1>1 DEF Tries
<1> HIDE DEF b
<1>6. CASE breaker' = b /\ UNCHANGED request
  <2>1. \A x \in Providers : Moves(x)
    BY <1>4, <1>6 DEF Moves
  <2> QED
    BY <1>6, <2>1 DEF Typed, RequestsTyped
<1>7. ASSUME NEW p \in among \ threw,
             breaker' = IF p \in Streaming THEN b ELSE [b EXCEPT ![p] = RecordSuccess(@)],
             Become(r, [Asking(p, {}, 0) EXCEPT !.phase = "streaming"])
      PROVE  (\A x \in Providers : Moves(x)) /\ RequestsTyped'
  <2>1. p \in Providers
    BY <1>3
  <2>2. ASSUME NEW x \in Providers
        PROVE  Moves(x)
    <3>1. CASE p \in Streaming \/ x # p
      <4>1. breaker'[x] = b[x]
        BY <1>7, <3>1 DEF b
      <4> QED
        BY <1>4, <4>1 DEF Moves
    <3>2. CASE p \notin Streaming /\ x = p
      <4>1. breaker'[x] = RecordSuccess(breaker[x]) /\ streak'[x] = streak[x]
        BY <1>2, <1>7, <3>2 DEF b
      <4>2. Sound(x, breaker[x], streak[x])
        BY DEF Counted
      <4> QED
        BY <3>2, <4>1, <4>2, EarlySuccessSound DEF Moves
    <3> QED
      BY <3>1, <3>2
  <2>3. WellFormed([Asking(p, {}, 0) EXCEPT !.phase = "streaming"])
    <3>1. 0 \in 0 .. MaxFallback
      BY FallbackAssumption
    <3>2. Asking(p, {}, 0) \in RequestRecord /\ Asking(p, {}, 0).provider = p
      BY <2>1, <3>1, AskingType
    <3> QED
      BY <2>1, <3>2 DEF WellFormed, RequestRecord
  <2> QED
    BY <1>7, <2>2, <2>3, BecomeTyped DEF Typed
<1> QED
  BY <1>5, <1>6, <1>7

(***************************************************************************)
(* The inductive invariant                                                 *)
(***************************************************************************)

LEMMA RouterInitially == RouterInit => RouterIInv
<1> SUFFICES ASSUME RouterInit
             PROVE  RouterIInv
  OBVIOUS
<1>1. 0 \in 0 .. Threshold /\ 0 < Threshold
  BY ThresholdAssumption
<1>2. Healthy \in Breaker /\ Healthy.state = "healthy" /\ Healthy.failures = 0
                          /\ Healthy.cooling = FALSE
  BY <1>1 DEF Healthy, Breaker
<1>3. RouterTypeOK
  BY <1>1, <1>2, IdleType DEF RouterInit, RouterTypeOK, IdleRequest
<1>4. Counted
  BY <1>1, <1>2 DEF RouterInit, Counted, Sound
<1>5. \A p \in Providers : Armed(breaker[p])
  BY <1>2 DEF RouterInit, Armed
<1> QED
  BY <1>3, <1>4, <1>5 DEF RouterIInv

(* Every step but a shutdown moves each breaker soundly and keeps the type   *)
(* of the requests.                                                        *)
LEMMA StepMoves ==
  ASSUME RouterTypeOK, Counted, RouterNext, ~Shutdown
  PROVE  (\A p \in Providers : Moves(p)) /\ RequestsTyped' /\ UNCHANGED down
<1> USE DEF RouterTypeOK
<1>0. Typed
  BY DEF Typed, RequestsTyped
<1>1. ASSUME UNCHANGED <<breaker, streak>>
      PROVE  \A p \in Providers : Moves(p)
  BY <1>1, StaysPut
<1>2. ASSUME NEW r \in Requests, Complete(r)
      PROVE  (\A p \in Providers : Moves(p)) /\ RequestsTyped' /\ UNCHANGED down
  <2>1. PICK q \in Routes(breaker) : Become(r, q)
    BY <1>2 DEF Complete
  <2>2. RequestsTyped'
    BY <1>0, <2>1, RoutesType, BecomeTyped DEF Typed
  <2> QED
    BY <1>1, <1>2, <2>2 DEF Complete
<1>3. ASSUME NEW r \in Requests, NEW p \in Providers, CompleteWith(r, p)
      PROVE  (\A x \in Providers : Moves(x)) /\ RequestsTyped' /\ UNCHANGED down
  <2>1. 0 \in 0 .. MaxFallback
    BY FallbackAssumption
  <2>2. /\ Asking(p, {}, 0) \in RequestRecord
        /\ Asking(p, {}, 0).provider = p
        /\ Asking(p, {}, 0).phase = "asking"
    BY <2>1, AskingType
  <2>3. WellFormed([Asking(p, {}, 0) EXCEPT !.override = TRUE])
    BY <2>2 DEF WellFormed, RequestRecord
  <2>4. RequestsTyped'
    BY <1>0, <1>3, <2>3, BecomeTyped DEF Typed, CompleteWith
  <2> QED
    BY <1>1, <1>3, <2>4 DEF CompleteWith
<1>4. ASSUME NEW r \in Requests, Stream(r)
      PROVE  (\A p \in Providers : Moves(p)) /\ RequestsTyped' /\ UNCHANGED down
  BY <1>0, <1>4, StreamMoves DEF Stream
<1>5. WellFormed(IdleRequest)
  BY IdleType DEF WellFormed, IdleRequest
<1>6. ASSUME NEW r \in Requests, Answers(r) \/ StreamDone(r)
      PROVE  (\A p \in Providers : Moves(p)) /\ RequestsTyped' /\ UNCHANGED down
  <2>1. /\ request[r].provider \in Providers
        /\ Succeeded(request[r].provider)
        /\ Become(r, IdleRequest)
        /\ UNCHANGED down
    BY <1>6 DEF Answers, StreamDone
  <2>2. \A p \in Providers : Moves(p)
    BY <1>0, <2>1, SuccessMoves
  <2>3. RequestsTyped'
    BY <1>0, <1>5, <2>1, BecomeTyped DEF Typed
  <2> QED
    BY <2>1, <2>2, <2>3
<1>7. ASSUME NEW r \in Requests, Fails(r) \/ StreamLost(r)
      PROVE  (\A p \in Providers : Moves(p)) /\ RequestsTyped' /\ UNCHANGED down
  <2>1. /\ request[r].provider \in Providers
        /\ breaker' = [breaker EXCEPT ![request[r].provider] = RecordFailure(@)]
        /\ streak' = [streak EXCEPT ![request[r].provider] = Count(@)]
        /\ UNCHANGED down
    BY <1>7 DEF Fails, StreamLost
  <2>2. \A p \in Providers : Moves(p)
    BY <1>0, <2>1, FailureMoves
  <2>3. PICK q : WellFormed(q) /\ Become(r, q)
    <3>1. CASE Fails(r)
      <4>1. \E q \in Fallbacks(request[r], breaker') : Become(r, q)
        BY <3>1 DEF Fails
      <4>2. request[r] \in RequestRecord
        OBVIOUS
      <4> QED
        BY <4>1, <4>2, FallbacksType
    <3>2. CASE StreamLost(r)
      BY <1>5, <3>2 DEF StreamLost
    <3> QED
      BY <1>7, <3>1, <3>2
  <2>4. RequestsTyped'
    BY <1>0, <2>3, BecomeTyped DEF Typed
  <2> QED
    BY <2>1, <2>2, <2>4
<1>8. ASSUME NEW r \in Requests, FailsTransiently(r)
      PROVE  (\A p \in Providers : Moves(p)) /\ RequestsTyped' /\ UNCHANGED down
  <2>1. WellFormed([request[r] EXCEPT !.phase = "backoff"])
    BY <1>8 DEF FailsTransiently, WellFormed, RequestRecord
  <2>2. RequestsTyped'
    BY <1>0, <1>8, <2>1, BecomeTyped DEF Typed, FailsTransiently
  <2> QED
    BY <1>1, <1>8, <2>2 DEF FailsTransiently
<1>9. ASSUME NEW r \in Requests, BackedOff(r)
      PROVE  (\A p \in Providers : Moves(p)) /\ RequestsTyped' /\ UNCHANGED down
  <2> DEFINE q == [request[r] EXCEPT !.phase = "asking", !.attempt = @ + 1]
  <2>1. /\ request[r] \in RequestRecord
        /\ request[r].attempt < MaxAttempts
        /\ request[r].provider \in Providers
    BY <1>9 DEF BackedOff
  <2>2. request[r].attempt + 1 \in 0 .. MaxAttempts
    BY <2>1, AttemptsAssumption DEF RequestRecord
  <2>3. q \in RequestRecord /\ q.phase = "asking" /\ q.provider = request[r].provider
    BY <2>1, <2>2 DEF RequestRecord
  <2>4. WellFormed(q)
    BY <2>1, <2>3 DEF WellFormed
  <2>5. Become(r, q)
    BY <1>9 DEF BackedOff
  <2>6. RequestsTyped'
    BY <1>0, <2>4, <2>5, BecomeTyped DEF Typed
  <2> QED
    BY <1>1, <1>9, <2>6 DEF BackedOff
<1>10. ASSUME NEW p \in Providers, CooldownEnds(p)
       PROVE  (\A x \in Providers : Moves(x)) /\ RequestsTyped' /\ UNCHANGED down
  <2>1. ASSUME NEW x \in Providers
        PROVE  Moves(x)
    <3>1. CASE x = p
      <4>1. /\ breaker'[x] = HalfOpen(breaker[x])
            /\ streak'[x] = streak[x]
            /\ breaker[x].cooling = TRUE
        BY <1>10, <3>1 DEF CooldownEnds, Breaker
      <4>2. Sound(x, breaker[x], streak[x])
        BY DEF Counted
      <4> QED
        BY <4>1, <4>2, HalfOpenSound DEF Moves
    <3>2. CASE x # p
      BY <1>10, <3>2, StaysPut DEF CooldownEnds
    <3> QED
      BY <3>1, <3>2
  <2> QED
    BY <1>0, <1>10, <2>1 DEF CooldownEnds, Typed, RequestsTyped
<1> QED
  BY <1>2, <1>3, <1>4, <1>6, <1>7, <1>8, <1>9, <1>10 DEF RouterNext, RequestStep

LEMMA ShutdownMoves ==
  ASSUME RouterTypeOK, Counted, Shutdown
  PROVE  /\ Counted'
         /\ \A p \in Providers : breaker'[p].state = breaker[p].state
<1> SUFFICES ASSUME NEW p \in Providers
             PROVE  /\ Sound(p, breaker'[p], streak'[p])
                    /\ breaker'[p].state = breaker[p].state
  BY DEF Counted
<1>1. breaker'[p] = [breaker[p] EXCEPT !.cooling = FALSE] /\ streak'[p] = streak[p]
  BY DEF Shutdown
<1> QED
  BY <1>1 DEF Counted, Sound, Breaker

(* Breakers and failures stay functions over the providers. *)
IsTable(f) == f = [p \in Providers |-> f[p]]

LEMMA TablesKept ==
  ASSUME RouterTypeOK, RouterNext
  PROVE  IsTable(breaker') /\ IsTable(streak')
<1>0. IsTable(breaker) /\ IsTable(streak)
  BY DEF RouterTypeOK, IsTable
<1>1. ASSUME UNCHANGED <<breaker, streak>>
      PROVE  IsTable(breaker') /\ IsTable(streak')
  BY <1>0, <1>1 DEF IsTable
<1>2. ASSUME NEW r \in Requests, Stream(r)
      PROVE  IsTable(breaker') /\ IsTable(streak')
  <2>1. PICK among \in Candidates : \E threw \in SUBSET among : Tries(r, among, threw)
    BY <1>2 DEF Stream
  <2>2. PICK threw \in SUBSET among : Tries(r, among, threw)
    BY <2>1
  <2> DEFINE b == [p \in Providers |->
                     IF p \in threw THEN RecordFailure(breaker[p]) ELSE breaker[p]]
  <2>3. streak' = [p \in Providers |-> IF p \in threw THEN Count(streak[p]) ELSE streak[p]]
    BY <2>2 DEF Tries
  <2>4. breaker' = b \/ \E p \in among : breaker' = [b EXCEPT ![p] = RecordSuccess(@)]
    BY <2>2 DEF Tries
  <2> QED
    BY <2>3, <2>4 DEF IsTable
<1>3. ASSUME NEW r \in Requests, RequestStep(r)
      PROVE  IsTable(breaker') /\ IsTable(streak')
  BY <1>0, <1>1, <1>3 DEF RequestStep, Answers, StreamDone, Succeeded, Fails, StreamLost,
     FailsTransiently, BackedOff, IsTable
<1>4. ASSUME NEW p \in Providers, CooldownEnds(p)
      PROVE  IsTable(breaker') /\ IsTable(streak')
  BY <1>0, <1>4 DEF CooldownEnds, IsTable
<1>5. CASE Shutdown
  BY <1>0, <1>5 DEF Shutdown, IsTable
<1>6. ASSUME NEW r \in Requests, Complete(r) \/ \E p \in Providers : CompleteWith(r, p)
      PROVE  IsTable(breaker') /\ IsTable(streak')
  BY <1>1, <1>6 DEF Complete, CompleteWith
<1> QED
  BY <1>2, <1>3, <1>4, <1>5, <1>6 DEF RouterNext

(* Type and soundness after a step follow from the soundness of each breaker. *)
LEMMA TypedAgain ==
  ASSUME RouterTypeOK, RouterNext, Counted', RequestsTyped', down' \in BOOLEAN
  PROVE  RouterTypeOK'
<1>1. breaker' \in [Providers -> Breaker] /\ streak' \in [Providers -> 0 .. Threshold]
  BY TablesKept DEF Counted, Sound, IsTable
<1> QED
  BY <1>1 DEF RouterTypeOK, RequestsTyped

LEMMA RouterInductive == RouterIInv /\ [RouterNext]_routerVars => RouterIInv'
<1> SUFFICES ASSUME RouterIInv, [RouterNext]_routerVars
             PROVE  RouterIInv'
  OBVIOUS
<1> USE DEF RouterIInv
<1>1. CASE RouterNext /\ ~Shutdown
  <2>1. (\A p \in Providers : Moves(p)) /\ RequestsTyped' /\ UNCHANGED down
    BY <1>1, StepMoves
  <2>2. Counted'
    BY <2>1 DEF Counted, Moves
  <2>3. (~down => \A p \in Providers : Armed(breaker[p]))'
    BY <2>1 DEF Moves
  <2> QED
    BY <1>1, <2>1, <2>2, <2>3, TypedAgain DEF RouterTypeOK
<1>2. CASE Shutdown
  <2>1. Counted' /\ down' = TRUE
    BY <1>2, ShutdownMoves DEF Shutdown
  <2>2. RequestsTyped'
    BY <1>2 DEF Shutdown, RouterTypeOK, RequestsTyped
  <2>3. RouterTypeOK'
    BY <1>2, <2>1, <2>2, TypedAgain DEF RouterNext
  <2> QED
    BY <2>1, <2>3
<1>3. CASE UNCHANGED routerVars
  BY <1>3 DEF routerVars, RouterTypeOK, Counted, Armed
<1> QED
  BY <1>1, <1>2, <1>3

(***************************************************************************)
(* Theorems                                                                *)
(***************************************************************************)

THEOREM RouterInvariance == RouterSpec => []RouterIInv
BY RouterInitially, RouterInductive, PTL DEF RouterSpec

(* Every variable of the router keeps its type, and a request that backs off *)
(* has an attempt left.                                                    *)
THEOREM RouterTypeCorrect == RouterSpec => []RouterTypeOK
<1>1. RouterIInv => RouterTypeOK
  BY DEF RouterIInv
<1> QED
  BY <1>1, RouterInvariance, PTL

(* Whatever reports reach a breaker late, an open one has its timer, and no  *)
(* other has one, until the router is shut down.                           *)
THEOREM TimersArmed == RouterSpec => []CooldownArmed
<1>1. RouterIInv => CooldownArmed
  BY DEF RouterIInv, CooldownArmed, Counted, Sound, Armed, RouterTypeOK, Breaker
<1> QED
  BY <1>1, RouterInvariance, PTL

(* No natively streaming provider is in rotation after Threshold failures in *)
(* a row.                                                                  *)
THEOREM AlwaysTrusted == RouterSpec => []Trusted
<1>1. RouterIInv => Trusted
  BY ProvidersAssumption DEF RouterIInv, Trusted, Counted, Sound
<1> QED
  BY <1>1, RouterInvariance, PTL

(* Breakers open, are probed and close only in the ways they should.         *)
THEOREM HealthLegal == RouterSpec => HealthSteps
<1>1. RouterIInv /\ [RouterNext]_routerVars => [\A p \in Providers : HealthStep(p)]_routerVars
  <2> SUFFICES ASSUME RouterIInv, RouterNext, NEW p \in Providers
               PROVE  HealthStep(p)
    OBVIOUS
  <2>1. CASE ~Shutdown
    <3>1. Moves(p)
      BY <2>1, StepMoves DEF RouterIInv
    <3> QED
      BY <3>1 DEF Moves, Legal, HealthStep
  <2>2. CASE Shutdown
    BY <2>2, ShutdownMoves DEF RouterIInv, HealthStep
  <2> QED
    BY <2>1, <2>2
<1> QED
  BY <1>1, RouterInvariance, PTL DEF RouterSpec, HealthSteps

-------------------------------------------------------------------------------
(***************************************************************************)
(* Agents and reviews                                                      *)
(***************************************************************************)
AgentStages  == {"idle", "loop", "model", "tools", "result", "thrown"}
StopReasons  == {"none", "completed", "max_iterations", "budget_exhausted", "timeout",
                 "context_overflow"}
Senders      == {"system", "user", "assistant", "tool"}
LedgerEntry  == [own : BOOLEAN, cost : Nat]
AgentRecord ==
  [at : AgentStages, messages : Seq(Senders), count : Nat, iterations : Seq(Int), cost : Nat,
   started : Nat, retries : 0 .. MaxValidationRetries, calls : Nat, done : Nat, spent : Int,
   stopReason : StopReasons]

AgentTypeOK ==
  /\ config \in Configs
  /\ agent \in AgentRecord
  /\ entries \in Seq(LedgerEntry)
  /\ execution \in {"running", "complete", "failed"}
  /\ attempts \in Nat /\ now \in Nat /\ charged \in Nat /\ before \in Nat
  /\ evicted \in BOOLEAN

(* A flag has a status. *)
FlagsTyped == flags \in [Executions -> Statuses]

(* The ledger has all that was charged. *)
Booked == ExecutionTotal(entries) = charged

(* What the iterations cost is what the agent knows it was charged, which is  *)
(* all when it is about to answer or to go on, once it has iterated.       *)
Known ==
  /\ agent.iterations \in Seq(Nat) /\ agent.spent \in Nat
  /\ ReportedCost + (IF agent.at = "tools" THEN agent.spent ELSE 0) = agent.cost
  /\ agent.cost <= charged
  /\ agent.at = "tools" => agent.cost = charged
  /\ agent.iterations # << >> /\ Answering => agent.cost = charged

(* Calls of the model in one iteration, at most and so far *)
CallsEach == IF Validated THEN MaxValidationRetries + 1 ELSE 1
CallsMade == IF agent.at = "model" THEN agent.retries ELSE CallsEach

(* An iteration starts within the budget, and its calls add to it. *)
WithinCalls(made) ==
  config.iterationBudget # 0 =>
    charged <= Max({before, config.iterationBudget - 1}) + made * Max(CallCosts)

Paced ==
  /\ agent.at = "loop" /\ agent.iterations = << >> => charged = before
  /\ agent.at = "model" => agent.retries < CallsEach
  /\ WithinCalls(CallsMade)

AgentIInv == AgentTypeOK /\ (~evicted => Booked /\ Known /\ Paced)

-------------------------------------------------------------------------------
(* What is charged and known adds up *)

LEMMA SumAppend ==
  ASSUME NEW s \in Seq(Nat), NEW v \in Nat
  PROVE  SumFunction(Append(s, v)) = SumFunction(s) + v /\ SumFunction(s) \in Nat
<1> DEFINE t == Append(s, v)
           n == Len(s)
<1>1. n \in Nat /\ t \in Seq(Nat) /\ Len(t) = n + 1 /\ t[n + 1] = v
  OBVIOUS
<1>2. DOMAIN s = 1 .. n /\ DOMAIN t = 1 .. (n + 1)
  BY <1>1
<1>3. (1 .. (n + 1)) \ {n + 1} = 1 .. n /\ n + 1 \in 1 .. (n + 1)
  BY <1>1
<1>4. \A i \in 1 .. n : s[i] = t[i] /\ s[i] \in Nat
  OBVIOUS
<1>5. \A i \in 1 .. (n + 1) : t[i] \in Nat
  BY <1>1, <1>2
<1>6. IsFiniteSet(1 .. n) /\ IsFiniteSet(1 .. (n + 1))
  BY <1>1, FS_Interval
<1> HIDE DEF t, n
<1>7. SumFunctionOnSet(t, 1 .. (n + 1)) = t[n + 1] + SumFunctionOnSet(t, 1 .. n)
  <2> DEFINE D == 1 .. (n + 1)
  <2>1. n + 1 \in D /\ D \ {n + 1} = 1 .. n /\ IsFiniteSet(D) /\ \A i \in D : t[i] \in Nat
    BY <1>3, <1>5, <1>6
  <2> HIDE DEF D
  <2>2. SumFunctionOnSet(t, D) = t[n + 1] + SumFunctionOnSet(t, D \ {n + 1})
    BY <2>1, SumRemove
  <2> QED
    BY <2>1, <2>2 DEF D
<1>8. SumFunctionOnSet(s, 1 .. n) = SumFunctionOnSet(t, 1 .. n)
  BY <1>4, <1>6, SumSame
<1>9. SumFunctionOnSet(s, 1 .. n) \in Nat
  BY <1>4, <1>6, SumNat
<1> QED
  BY <1>1, <1>2, <1>7, <1>8, <1>9 DEF SumFunction, t

LEMMA SumTail ==
  ASSUME NEW s \in Seq(Nat), s # << >>
  PROVE  SumFunction(s) = Head(s) + SumFunction(Tail(s)) /\ SumFunction(Tail(s)) \in Nat
<1> DEFINE t == Tail(s)
           n == Len(t)
           next(T) == {i + 1 : i \in T}
           Bad == {T \in SUBSET (1 .. n) : SumFunctionOnSet(t, T) # SumFunctionOnSet(s, next(T))}
<1>1. /\ n \in Nat /\ Len(s) = n + 1 /\ DOMAIN t = 1 .. n /\ DOMAIN s = 1 .. (n + 1)
      /\ t \in Seq(Nat) /\ s[1] = Head(s)
      /\ \A i \in 1 .. n : t[i] = s[i + 1]
  OBVIOUS
<1>2. /\ \A i \in 1 .. n : t[i] \in Nat
      /\ \A i \in 1 .. (n + 1) : s[i] \in Nat
  BY <1>1
<1>3. IsFiniteSet(1 .. n) /\ IsFiniteSet(1 .. (n + 1))
  BY <1>1, FS_Interval
<1> HIDE DEF t, n
<1>4. Bad = {}
  <2> SUFFICES ASSUME Bad # {} PROVE FALSE
    OBVIOUS
  <2>0. Bad \in SUBSET SUBSET (1 .. n)
    OBVIOUS
  <2>1. PICK T \in Bad : \A U \in SUBSET T : U # T => U \notin Bad
    <3> HIDE DEF Bad
    <3> QED
      BY <1>3, <2>0, Smallest
  <2>2. T \in SUBSET (1 .. n)
    BY <2>1
  <2>3. SumFunctionOnSet(t, T) # SumFunctionOnSet(s, next(T))
    BY <2>1
  <2>4. T # {}
    <3>1. T = {} => next(T) = {}
      OBVIOUS
    <3> HIDE DEF next
    <3> QED
      BY <2>3, <3>1, SumEmpty
  <2>5. PICK x \in T : TRUE
    BY <2>4
  <2>6. T \ {x} \notin Bad
    BY <2>1, <2>5
  <2>7. SumFunctionOnSet(t, T \ {x}) = SumFunctionOnSet(s, next(T \ {x}))
    BY <2>2, <2>6
  <2>8. /\ next(T) \in SUBSET (1 .. (n + 1)) /\ x + 1 \in next(T)
        /\ next(T \ {x}) = next(T) \ {x + 1}
    BY <1>1, <2>2, <2>5
  <2> HIDE DEF next, Bad
  <2>9. IsFiniteSet(T) /\ IsFiniteSet(next(T))
    BY <1>3, <2>2, <2>8, FS_Subset
  <2>10. SumFunctionOnSet(t, T) = t[x] + SumFunctionOnSet(t, T \ {x})
    BY <1>2, <2>2, <2>5, <2>9, SumRemove
  <2>11. SumFunctionOnSet(s, next(T)) = s[x + 1] + SumFunctionOnSet(s, next(T) \ {x + 1})
    <3>1. \A y \in next(T) : s[y] \in Nat
      BY <1>2, <2>8
    <3> QED
      BY <2>8, <2>9, <3>1, SumRemove
  <2>12. t[x] = s[x + 1]
    BY <1>1, <2>2, <2>5
  <2> QED
    BY <2>3, <2>7, <2>8, <2>10, <2>11, <2>12
<1>5. SumFunctionOnSet(t, 1 .. n) = SumFunctionOnSet(s, next(1 .. n))
  BY <1>4
<1>6. next(1 .. n) = (1 .. (n + 1)) \ {1} /\ 1 \in 1 .. (n + 1)
  <2>1. \A j \in (1 .. (n + 1)) \ {1} : j - 1 \in 1 .. n /\ j = (j - 1) + 1
    BY <1>1
  <2>2. \A i \in 1 .. n : i + 1 \in (1 .. (n + 1)) \ {1}
    BY <1>1
  <2>3. next(1 .. n) \subseteq (1 .. (n + 1)) \ {1}
    BY <2>2
  <2>4. (1 .. (n + 1)) \ {1} \subseteq next(1 .. n)
    BY <2>1
  <2>5. 1 \in 1 .. (n + 1)
    BY <1>1
  <2> QED
    BY <2>3, <2>4, <2>5
<1> HIDE DEF next, Bad
<1>7. SumFunctionOnSet(s, 1 .. (n + 1)) = s[1] + SumFunctionOnSet(s, (1 .. (n + 1)) \ {1})
  <2> DEFINE D == 1 .. (n + 1)
  <2>1. 1 \in D /\ IsFiniteSet(D) /\ \A i \in D : s[i] \in Nat
    BY <1>2, <1>3, <1>6
  <2> HIDE DEF D
  <2>2. SumFunctionOnSet(s, D) = s[1] + SumFunctionOnSet(s, D \ {1})
    BY <2>1, SumRemove
  <2> QED
    BY <2>2 DEF D
<1>8. SumFunctionOnSet(t, 1 .. n) \in Nat
  BY <1>2, <1>3, SumNat
<1> QED
  BY <1>1, <1>5, <1>6, <1>7, <1>8 DEF SumFunction, t

LEMMA SumOfNone == SumFunction(<< >>) = 0
<1>1. DOMAIN << >> = {}
  OBVIOUS
<1> QED
  BY <1>1, SumEmpty DEF SumFunction

(* What the ledger has of the execution, entry by entry *)
OwnCosts(all) == [i \in DOMAIN all |-> IF all[i].own THEN all[i].cost ELSE 0]

LEMMA OwnCostsType ==
  ASSUME NEW all \in Seq(LedgerEntry)
  PROVE  OwnCosts(all) \in Seq(Nat)
<1>1. \A i \in 1 .. Len(all) : all[i] \in LedgerEntry
  OBVIOUS
<1>2. \A i \in 1 .. Len(all) : (IF all[i].own THEN all[i].cost ELSE 0) \in Nat
  BY <1>1 DEF LedgerEntry
<1> QED
  BY <1>2 DEF OwnCosts

LEMMA TotalAppended ==
  ASSUME NEW all \in Seq(LedgerEntry), NEW entry \in LedgerEntry
  PROVE  /\ ExecutionTotal(all) \in Nat
         /\ ExecutionTotal(Append(all, entry))
              = ExecutionTotal(all) + (IF entry.own THEN entry.cost ELSE 0)
<1> DEFINE v == IF entry.own THEN entry.cost ELSE 0
<1>1. v \in Nat
  BY DEF LedgerEntry
<1>2. OwnCosts(all) \in Seq(Nat)
  BY OwnCostsType
<1>3. OwnCosts(Append(all, entry)) = Append(OwnCosts(all), v)
  BY DEF OwnCosts
<1> QED
  BY <1>1, <1>2, <1>3, SumAppend DEF ExecutionTotal, OwnCosts

LEMMA TotalEvicted ==
  ASSUME NEW all \in Seq(LedgerEntry), all # << >>, ~Head(all).own
  PROVE  ExecutionTotal(Tail(all)) = ExecutionTotal(all)
<1>1. OwnCosts(all) \in Seq(Nat)
  BY OwnCostsType
<1>2. OwnCosts(all) # << >> /\ Head(OwnCosts(all)) = 0
  BY DEF OwnCosts
<1>3. OwnCosts(Tail(all)) = Tail(OwnCosts(all))
  BY DEF OwnCosts
<1>4. SumFunction(OwnCosts(all)) = SumFunction(OwnCosts(Tail(all)))
  <2> DEFINE f == OwnCosts(all)
  <2>1. f \in Seq(Nat) /\ f # << >> /\ Head(f) = 0
    BY <1>1, <1>2
  <2> HIDE DEF f
  <2>2. SumFunction(f) = Head(f) + SumFunction(Tail(f)) /\ SumFunction(Tail(f)) \in Nat
    BY <2>1, SumTail
  <2>3. SumFunction(f) = SumFunction(Tail(f))
    BY <2>1, <2>2
  <2> QED
    BY <1>3, <2>3 DEF f
<1> QED
  BY <1>4 DEF ExecutionTotal, OwnCosts

-------------------------------------------------------------------------------
(* The limits of an agent *)

LEMMA MostCost ==
  /\ Max(CallCosts) \in Nat
  /\ \A c \in CallCosts : c \in Nat /\ c <= Max(CallCosts)
<1>1. CallCosts \subseteq Nat /\ \E most \in CallCosts : \A c \in CallCosts : c <= most
  BY AgentAssumption
<1>2. \E most \in CallCosts : \A c \in CallCosts : most >= c
  BY <1>1
<1>3. Max(CallCosts) \in CallCosts /\ \A c \in CallCosts : Max(CallCosts) >= c
  BY <1>2 DEF Max
<1> QED
  BY <1>1, <1>3

LEMMA LargerOfTwo ==
  ASSUME NEW a \in Int, NEW b \in Int
  PROVE  Max({a, b}) \in Int /\ a <= Max({a, b}) /\ b <= Max({a, b})
<1>1. \E x \in {a, b} : \A y \in {a, b} : x >= y
  OBVIOUS
<1>2. Max({a, b}) \in {a, b} /\ \A y \in {a, b} : Max({a, b}) >= y
  BY <1>1 DEF Max
<1> QED
  BY <1>2

LEMMA ConfigType ==
  ASSUME AgentTypeOK
  PROVE  /\ config.iterationBudget \in Nat /\ config.maxIterations \in Nat
         /\ config.timeoutMs \in Nat /\ config.maxHistoryMessages \in Nat
         /\ config.maxHistoryMessages = 0 \/ config.maxHistoryMessages >= 2
<1>1. ValidConfig(config)
  BY AgentAssumption DEF AgentTypeOK
<1>2. config \in [tools : BOOLEAN, outputSchema : BOOLEAN, maxIterations : Nat,
                  iterationBudget : Nat, timeoutMs : Nat, maxHistoryMessages : Nat]
  BY AgentAssumption DEF AgentTypeOK
<1> QED
  BY <1>1, <1>2 DEF ValidConfig

LEMMA LargerOfBudget ==
  ASSUME AgentTypeOK, NEW a \in Int
  PROVE  /\ Max({a, config.iterationBudget - 1}) \in Int
         /\ a <= Max({a, config.iterationBudget - 1})
         /\ config.iterationBudget - 1 <= Max({a, config.iterationBudget - 1})
<1> DEFINE b == config.iterationBudget - 1
<1>1. b \in Int
  BY ConfigType
<1> HIDE DEF b
<1>2. Max({a, b}) \in Int /\ a <= Max({a, b}) /\ b <= Max({a, b})
  BY <1>1, LargerOfTwo
<1> QED
  BY <1>2 DEF b

(* The history stays a sequence of messages. *)
LEMMA TruncatedType ==
  ASSUME AgentTypeOK
  PROVE  Truncated(agent.messages) \in Seq(Senders)
<1> DEFINE m == agent.messages
           max == config.maxHistoryMessages
<1>1. m \in Seq(Senders)
  BY DEF AgentTypeOK, AgentRecord
<1>2. max \in Nat /\ (max = 0 \/ max >= 2)
  BY ConfigType
<1> HIDE DEF m, max
<1>3. CASE max = 0 \/ Len(m) <= max
  BY <1>1, <1>3 DEF Truncated, m, max
<1>4. CASE max # 0 /\ Len(m) > max
  <2>1. Len(m) \in Nat /\ m # << >> /\ Head(m) \in Senders
    BY <1>1, <1>2, <1>4
  <2>2. \A i \in (Len(m) - max + 2) .. Len(m) : i \in 1 .. Len(m)
    BY <1>2, <1>4, <2>1
  <2>3. SubSeq(m, Len(m) - max + 2, Len(m)) \in Seq(Senders)
    BY <1>1, <1>2, <1>4, <2>1, <2>2
  <2>4. <<Head(m)>> \in Seq(Senders)
    BY <2>1
  <2>5. <<Head(m)>> \o SubSeq(m, Len(m) - max + 2, Len(m)) \in Seq(Senders)
    BY <2>3, <2>4
  <2>6. ~(max = 0 \/ Len(m) <= max)
    BY <1>2, <1>4, <2>1
  <2> QED
    BY <2>5, <2>6 DEF Truncated, m, max
<1> QED
  BY <1>1, <1>2, <1>3, <1>4

-------------------------------------------------------------------------------
(* What the ledger records is booked *)

LEMMA Recorded ==
  ASSUME AgentTypeOK, NEW own \in BOOLEAN, NEW cost \in Nat, RecordEntry(own, cost)
  PROVE  /\ entries' \in Seq(LedgerEntry) /\ evicted' \in BOOLEAN
         /\ ExecutionTotal(entries') \in Nat
         /\ charged' = charged + (IF own THEN cost ELSE 0) /\ charged' \in Nat
         /\ ~evicted' => ~evicted /\ (Booked => Booked')
<1> DEFINE full == Len(entries) >= MaxEntries
           kept == IF full THEN Tail(entries) ELSE entries
           entry == [own |-> own, cost |-> cost]
<1>1. entry \in LedgerEntry /\ entries \in Seq(LedgerEntry) /\ charged \in Nat
  BY DEF LedgerEntry, AgentTypeOK
<1>2. entry.own = own /\ entry.cost = cost
  OBVIOUS
<1>3. MaxEntries \in Nat \ {0}
  BY AgentAssumption
<1>4. full => entries # << >>
  BY <1>1, <1>3
<1>5. kept \in Seq(LedgerEntry)
  BY <1>1, <1>4
<1>6. /\ entries' = Append(kept, entry)
      /\ evicted' = (evicted \/ (full /\ Head(entries).own))
      /\ charged' = charged + (IF own THEN cost ELSE 0)
  BY <1>1 DEF RecordEntry
<1>7. full /\ ~Head(entries).own => ExecutionTotal(kept) = ExecutionTotal(entries)
  BY <1>1, <1>4, TotalEvicted
<1>8. ~full => kept = entries
  OBVIOUS
<1> HIDE DEF full, kept, entry
<1>9. /\ ExecutionTotal(kept) \in Nat
      /\ ExecutionTotal(Append(kept, entry))
           = ExecutionTotal(kept) + (IF entry.own THEN entry.cost ELSE 0)
  BY <1>1, <1>5, TotalAppended
<1>10. Append(kept, entry) \in Seq(LedgerEntry)
  BY <1>1, <1>5
<1>11. evicted' \in BOOLEAN
  <2>1. evicted \in BOOLEAN
    BY DEF AgentTypeOK
  <2>2. CASE evicted \/ (full /\ Head(entries).own)
    BY <1>6, <2>2
  <2>3. CASE ~(evicted \/ (full /\ Head(entries).own))
    BY <1>6, <2>3
  <2> QED
    BY <2>2, <2>3
<1>12. /\ ExecutionTotal(entries') = ExecutionTotal(kept) + (IF own THEN cost ELSE 0)
       /\ ExecutionTotal(entries') \in Nat /\ charged' \in Nat
  BY <1>1, <1>2, <1>6, <1>9
<1>13. ASSUME ~evicted'
       PROVE  ~evicted /\ ExecutionTotal(kept) = ExecutionTotal(entries)
  <2>1. ~evicted /\ ~(full /\ Head(entries).own)
    BY <1>6, <1>13
  <2> QED
    BY <1>7, <1>8, <2>1
<1> QED
  BY <1>6, <1>10, <1>11, <1>12, <1>13 DEF Booked

-------------------------------------------------------------------------------
(* What the steps make of the coroutine *)

LEMMA Longer ==
  ASSUME NEW S, NEW s \in Seq(S), NEW x \in S
  PROVE  Append(s, x) \in Seq(S) /\ Append(s, x) # << >>
<1>1. Append(s, x) \in Seq(S)
  OBVIOUS
<1>2. Len(Append(s, x)) = Len(s) + 1 /\ Len(s) \in Nat
  OBVIOUS
<1>3. Len(<< >>) = 0
  OBVIOUS
<1> QED
  BY <1>1, <1>2, <1>3

LEMMA IteratedType ==
  ASSUME NEW a \in AgentRecord
  PROVE  /\ Iterated(a) \in AgentRecord
         /\ Iterated(a) = [a EXCEPT !.iterations = Append(a.iterations, a.spent)]
         /\ Iterated(a).iterations = Append(a.iterations, a.spent)
         /\ Iterated(a).iterations # << >>
         /\ Iterated(a).cost = a.cost /\ Iterated(a).spent = a.spent
<1>1. a.iterations \in Seq(Int) /\ a.spent \in Int
  BY DEF AgentRecord
<1>2. Append(a.iterations, a.spent) \in Seq(Int) /\ Append(a.iterations, a.spent) # << >>
  BY <1>1, Longer
<1> QED
  BY <1>2 DEF Iterated, AgentRecord

LEMMA ResultType ==
  ASSUME NEW a \in AgentRecord, NEW reason \in StopReasons
  PROVE  /\ Result(reason, a) \in AgentRecord
         /\ Result(reason, a).at = "result" /\ Result(reason, a).stopReason = reason
         /\ Result(reason, a).iterations = a.iterations /\ Result(reason, a).spent = a.spent
         /\ Result(reason, a).cost = a.cost /\ Result(reason, a).retries = a.retries
BY DEF Result, AgentRecord, AgentStages

(* An answer that is taken: the iteration costs what the ledger has more. *)
LEMMA AnswerTaken ==
  ASSUME AgentTypeOK, ExecutionTotal(entries') \in Nat
  PROVE  /\ WithAnswer(agent) \in AgentRecord
         /\ WithAnswer(agent).iterations = agent.iterations
         /\ WithAnswer(agent).cost = ExecutionTotal(entries')
         /\ WithAnswer(agent).spent = ExecutionTotal(entries') - agent.cost
<1>1. agent \in AgentRecord
  BY DEF AgentTypeOK
<1>2. Append(agent.messages, "assistant") \in Seq(Senders)
  <2>1. agent.messages \in Seq(Senders)
    BY <1>1 DEF AgentRecord
  <2>2. "assistant" \in Senders
    BY DEF Senders
  <2> QED
    BY <2>1, <2>2, Longer
<1>3. ExecutionTotal(entries') - agent.cost \in Int
  BY <1>1 DEF AgentRecord
<1> DEFINE total == ExecutionTotal(entries')
<1>4. WithAnswer(agent) = [agent EXCEPT !.messages = Append(agent.messages, "assistant"),
                                        !.cost = total, !.spent = total - agent.cost]
  BY <1>1 DEF WithAnswer, AgentRecord
<1> HIDE DEF total
<1> QED
  BY <1>1, <1>2, <1>3, <1>4 DEF AgentRecord, total

-------------------------------------------------------------------------------
(* An agent's steps *)

LEMMA CallsType ==
  /\ CallsEach \in {1, 3}
  /\ AgentTypeOK => agent.retries \in {0, 1, 2} /\ CallsMade \in {0, 1, 2, 3}
BY DEF CallsEach, CallsMade, MaxValidationRetries, AgentTypeOK, AgentRecord

LEMMA MoreCalls ==
  ASSUME AgentTypeOK, NEW n \in {0, 1, 2, 3}, NEW m \in {0, 1, 2, 3}, n <= m, WithinCalls(n)
  PROVE  WithinCalls(m)
<1> DEFINE top == Max(CallCosts)
           base == Max({before, config.iterationBudget - 1})
<1>1. top \in Nat /\ base \in Int /\ charged \in Nat
  <2>1. before \in Int /\ config.iterationBudget - 1 \in Int /\ charged \in Nat
    BY ConfigType DEF AgentTypeOK
  <2> QED
    BY <2>1, MostCost, LargerOfTwo
<1> HIDE DEF top, base
<1>2. n * top <= m * top
  BY <1>1
<1>3. n * top \in Nat /\ m * top \in Nat
  BY <1>1
<1>4. charged <= base + n * top => charged <= base + m * top
  BY <1>1, <1>2, <1>3
<1> QED
  BY <1>4 DEF WithinCalls, top, base

LEMMA OneMoreCall ==
  ASSUME AgentTypeOK, NEW n \in {0, 1, 2}, WithinCalls(n), NEW c \in CallCosts,
         charged' = charged + c, UNCHANGED <<config, before>>
  PROVE  WithinCalls(n + 1)'
<1> DEFINE top == Max(CallCosts)
           base == Max({before, config.iterationBudget - 1})
<1>1. top \in Nat /\ base \in Int /\ charged \in Nat /\ c \in Nat /\ c <= top
  <2>1. before \in Int /\ config.iterationBudget - 1 \in Int /\ charged \in Nat
    BY ConfigType DEF AgentTypeOK
  <2> QED
    BY <2>1, MostCost, LargerOfTwo
<1> HIDE DEF top, base
<1>2. (n + 1) * top = n * top + top /\ n * top \in Nat
  BY <1>1
<1>3. charged <= base + n * top => charged' <= base + (n + 1) * top
  BY <1>1, <1>2
<1> QED
  BY <1>3 DEF WithinCalls, top, base

(* A call that was answered, well or not: booked, and within one call more *)
LEMMA Called ==
  ASSUME AgentIInv, agent.at = "model", NEW c \in CallCosts, RecordEntry(TRUE, c),
         UNCHANGED <<config, before>>
  PROVE  /\ entries' \in Seq(LedgerEntry) /\ evicted' \in BOOLEAN /\ charged' \in Nat
         /\ ExecutionTotal(entries') \in Nat
         /\ ~evicted' =>
              /\ Booked' /\ charged' = ExecutionTotal(entries')
              /\ agent.iterations \in Seq(Nat) /\ agent.spent \in Nat
              /\ ReportedCost = agent.cost /\ agent.cost <= charged'
              /\ agent.retries + 1 <= CallsEach
              /\ \A n \in {1, 2, 3} : agent.retries < n => WithinCalls(n)'
<1>1. AgentTypeOK /\ c \in Nat
  BY MostCost DEF AgentIInv
<1>2. /\ entries' \in Seq(LedgerEntry) /\ evicted' \in BOOLEAN
      /\ ExecutionTotal(entries') \in Nat
      /\ charged' = charged + c /\ charged' \in Nat
      /\ ~evicted' => ~evicted /\ (Booked => Booked')
  BY <1>1, Recorded
<1>3. agent.cost \in Nat /\ charged \in Nat /\ agent.retries \in {0, 1, 2}
  BY <1>1, CallsType DEF AgentTypeOK, AgentRecord
<1>4. ASSUME ~evicted'
      PROVE  /\ Booked' /\ charged' = ExecutionTotal(entries')
             /\ agent.iterations \in Seq(Nat) /\ agent.spent \in Nat
             /\ ReportedCost = agent.cost /\ agent.cost <= charged'
             /\ agent.retries + 1 <= CallsEach
             /\ \A n \in {1, 2, 3} : agent.retries < n => WithinCalls(n)'
  <2>1. Booked /\ Known /\ Paced /\ Booked'
    BY <1>2, <1>4 DEF AgentIInv
  <2>2. charged' = ExecutionTotal(entries')
    BY <2>1 DEF Booked
  <2>3. agent.iterations \in Seq(Nat) /\ agent.spent \in Nat /\ agent.cost <= charged
    BY <2>1 DEF Known
  <2>4. ReportedCost \in Nat
    <3>1. SumFunction(agent.iterations) \in Nat
      BY <2>3, SumAppend
    <3> QED
      BY <3>1 DEF ReportedCost
  <2>5. ReportedCost = agent.cost
    BY <2>1, <2>4 DEF Known
  <2>6. agent.retries < CallsEach /\ WithinCalls(agent.retries)
    BY <2>1 DEF Paced, CallsMade
  <2>7. ASSUME NEW n \in {1, 2, 3}, agent.retries < n
        PROVE  WithinCalls(n)'
    <3> DEFINE m == n - 1
               made == agent.retries
    <3>1. m \in {0, 1, 2} /\ made \in {0, 1, 2} /\ made <= m /\ m + 1 = n
      BY <1>3, <2>7
    <3>2. WithinCalls(made)
      BY <2>6
    <3> HIDE DEF m, made
    <3>3. WithinCalls(m)
      BY <1>1, <3>1, <3>2, MoreCalls
    <3>4. WithinCalls(m + 1)'
      BY <1>1, <1>2, <3>1, <3>3, OneMoreCall
    <3> QED
      BY <3>1, <3>4
  <2>8. agent.retries + 1 <= CallsEach /\ agent.cost <= charged'
    BY <1>1, <1>2, <1>3, <2>3, <2>6, CallsType
  <2> QED
    BY <2>1, <2>2, <2>3, <2>5, <2>7, <2>8
<1> QED
  BY <1>2, <1>4

LEMMA AgentInvariance ==
  ASSUME AgentIInv, [AgentStep]_agentVars
  PROVE  AgentIInv'
<1>0. /\ AgentTypeOK /\ agent \in AgentRecord
      /\ ~evicted => Booked /\ Known /\ Paced
  BY DEF AgentIInv, AgentTypeOK
<1>1. /\ charged \in Nat /\ before \in Nat /\ now \in Nat /\ attempts \in Nat
      /\ entries \in Seq(LedgerEntry) /\ evicted \in BOOLEAN
      /\ agent.cost \in Nat /\ agent.spent \in Int /\ agent.count \in Nat
      /\ agent.iterations \in Seq(Int) /\ agent.messages \in Seq(Senders)
      /\ CallsEach \in {1, 3}
  BY <1>0, CallsType DEF AgentTypeOK, AgentRecord
<1>2. ~evicted => ReportedCost \in Nat
  <2>1. ASSUME ~evicted
        PROVE  SumFunction(agent.iterations) \in Nat
    <3>1. agent.iterations \in Seq(Nat)
      BY <1>0, <2>1 DEF Known
    <3> QED
      BY <3>1, SumAppend
  <2> QED
    BY <2>1 DEF ReportedCost
(* Nothing that counts changes: the coroutine stays, and the books. *)
<1>3. ASSUME UNCHANGED <<agent, config, charged, before>>, entries' \in Seq(LedgerEntry),
             evicted' \in BOOLEAN, ~evicted' => ~evicted /\ (Booked => Booked'),
             execution' \in {"running", "complete", "failed"}, attempts' \in Nat, now' \in Nat
      PROVE  AgentIInv'
  <2>1. AgentTypeOK'
    BY <1>0, <1>3 DEF AgentTypeOK
  <2>2. ~evicted /\ Known => Known'
    BY <1>3 DEF Known, ReportedCost, Answering
  <2>3. Paced => Paced'
    BY <1>3 DEF Paced, WithinCalls, CallsMade, CallsEach, Validated
  <2> QED
    BY <1>0, <1>3, <2>1, <2>2, <2>3 DEF AgentIInv
<1>4. UNCHANGED agentVars => AgentIInv'
  BY <1>0, <1>3 DEF agentVars, ledgerVars, AgentTypeOK, Booked
<1>5. CASE OthersSpend
  <2>1. RecordEntry(FALSE, 0) /\ UNCHANGED <<config, agent, execution, attempts, now, before>>
    BY <1>5 DEF OthersSpend
  <2>2. /\ entries' \in Seq(LedgerEntry) /\ evicted' \in BOOLEAN
        /\ charged' = charged + 0
        /\ ~evicted' => ~evicted /\ (Booked => Booked')
    BY <1>0, <2>1, Recorded
  <2>3. charged' = charged
    BY <1>1, <2>2
  <2> QED
    BY <1>0, <1>3, <2>1, <2>2, <2>3 DEF AgentTypeOK
<1>6. CASE Tick
  BY <1>0, <1>1, <1>3, <1>6 DEF Tick, ledgerVars, AgentTypeOK, Booked
<1>7. CASE ExecutionEnds
  BY <1>0, <1>1, <1>3, <1>7 DEF ExecutionEnds, Ends, ledgerVars, AgentTypeOK, Booked
<1>8. CASE Dropped
  <2>1. /\ agent' = IdleAgent /\ entries' = << >> /\ charged' = 0 /\ before' = 0
        /\ evicted' = FALSE /\ UNCHANGED <<config, execution, attempts, now>>
    BY <1>8 DEF Dropped
  <2>2. IdleAgent \in AgentRecord
    BY DEF IdleAgent, AgentRecord, AgentStages, StopReasons, MaxValidationRetries
  <2>3. AgentTypeOK'
    <3>1. << >> \in Seq(LedgerEntry)
      OBVIOUS
    <3> QED
      BY <1>0, <2>1, <2>2, <3>1 DEF AgentTypeOK
  <2>4. Booked'
    <3>1. [i \in DOMAIN << >> |-> IF << >>[i].own THEN << >>[i].cost ELSE 0] = << >>
      OBVIOUS
    <3>2. ExecutionTotal(<< >>) = 0
      BY <3>1, SumOfNone DEF ExecutionTotal
    <3> QED
      BY <2>1, <3>2 DEF Booked
  <2>5. Known'
    <3>1. << >> \in Seq(Nat)
      OBVIOUS
    <3> QED
      BY <2>1, <3>1, SumOfNone DEF Known, ReportedCost, Answering, IdleAgent
  <2>6. WithinCalls(CallsMade)'
    <3>1. CallsMade' \in {1, 3}
      BY <1>1, <2>1 DEF CallsMade, CallsEach, Validated, IdleAgent, MaxValidationRetries
    <3> DEFINE n == CallsMade'
               base == Max({0, config.iterationBudget - 1})
    <3>2. base \in Int /\ 0 <= base
      BY <1>0, LargerOfBudget
    <3>3. Max(CallCosts) \in Nat
      BY MostCost
    <3> HIDE DEF n, base
    <3>4. n \in {1, 3} => 0 <= base + n * Max(CallCosts)
      BY <3>2, <3>3
    <3> QED
      BY <2>1, <3>1, <3>4 DEF WithinCalls, n, base
  <2> QED
    BY <2>3, <2>4, <2>5, <2>6, <2>1 DEF AgentIInv, Paced, IdleAgent
(* The coroutine goes on, and the books stay. *)
<1>9. ASSUME agent' \in AgentRecord, UNCHANGED <<config, entries, charged, evicted, before>>,
             execution' = execution, attempts' \in Nat, now' \in Nat,
             ~evicted => Known' /\ Paced'
      PROVE  AgentIInv'
  <2>1. AgentTypeOK'
    BY <1>0, <1>9 DEF AgentTypeOK
  <2>2. Booked => Booked'
    BY <1>9 DEF Booked
  <2> QED
    BY <1>0, <1>9, <2>1, <2>2 DEF AgentIInv
<1>10. ASSUME UNCHANGED config
       PROVE  /\ CallsEach' = CallsEach /\ Validated' = Validated
              /\ CallsMade' = IF agent'.at = "model" THEN agent'.retries ELSE CallsEach
  BY <1>10 DEF CallsMade, CallsEach, Validated
<1>11. CASE Begins
  <2>1. /\ before' = charged /\ attempts' = attempts + 1
        /\ agent' = [IdleAgent EXCEPT !.at = "loop", !.messages = <<"system", "user">>,
                                      !.started = now]
        /\ UNCHANGED <<config, execution, entries, charged, evicted, now>>
    BY <1>11 DEF Begins, ledgerVars
  <2>2. <<"system", "user">> \in Seq(Senders)
    BY DEF Senders
  <2>3. agent' \in AgentRecord
    <3>1. agent' = [at |-> "loop", messages |-> <<"system", "user">>, count |-> 0,
                    iterations |-> << >>, cost |-> 0, started |-> now, retries |-> 0,
                    calls |-> 0, done |-> 0, spent |-> 0, stopReason |-> "none"]
      BY <2>1 DEF IdleAgent
    <3>2. << >> \in Seq(Int)
      OBVIOUS
    <3> QED
      BY <1>1, <2>2, <3>1, <3>2 DEF AgentRecord, AgentStages, StopReasons, MaxValidationRetries
  <2>4. AgentTypeOK'
    BY <1>0, <1>1, <2>1, <2>3 DEF AgentTypeOK
  <2>5. /\ agent'.at = "loop" /\ agent'.iterations = << >> /\ agent'.cost = 0
        /\ agent'.spent = 0 /\ agent'.stopReason = "none"
    BY <2>1 DEF IdleAgent
  <2>6. Known'
    <3>1. << >> \in Seq(Nat) /\ agent'.at # "tools" /\ charged' \in Nat
      BY <1>1, <2>1, <2>5
    <3> QED
      BY <3>1, <2>5, SumOfNone DEF Known, ReportedCost, Answering
  <2>7. WithinCalls(CallsMade)'
    <3>1. CallsMade' \in {1, 3}
      BY <1>1, <1>10, <2>1, <2>5
    <3> DEFINE n == CallsMade'
               base == Max({charged, config.iterationBudget - 1})
    <3>2. base \in Int /\ charged <= base
      BY <1>0, <1>1, LargerOfBudget
    <3>3. Max(CallCosts) \in Nat
      BY MostCost
    <3> HIDE DEF n, base
    <3>4. n \in {1, 3} => charged <= base + n * Max(CallCosts)
      BY <1>1, <3>2, <3>3
    <3> QED
      BY <2>1, <3>1, <3>4 DEF WithinCalls, n, base
  <2>8. ~evicted' => Booked'
    BY <1>0, <2>1 DEF Booked
  <2> QED
    BY <2>1, <2>4, <2>5, <2>6, <2>7, <2>8 DEF AgentIInv, Paced
<1>12. CASE Stops
  <2>1. PICK reason \in {"max_iterations", "budget_exhausted", "timeout"} :
          agent' = Result(reason, agent)
    BY <1>12 DEF Stops, Becomes
  <2>2. /\ UNCHANGED <<config, execution, entries, charged, evicted, before, attempts, now>>
        /\ agent.at = "loop"
    BY <1>12 DEF Stops, Becomes, ledgerVars
  <2>3. /\ agent' \in AgentRecord
        /\ agent'.at = "result" /\ agent'.iterations = agent.iterations
        /\ agent'.cost = agent.cost /\ agent'.spent = agent.spent
    BY <1>0, <2>1, ResultType DEF StopReasons
  <2>4. Known => Known'
    BY <2>2, <2>3 DEF Known, ReportedCost, Answering
  <2>5. Paced => Paced'
    BY <1>10, <2>2, <2>3 DEF Paced, WithinCalls, CallsMade
  <2> QED
    BY <1>0, <1>1, <1>9, <2>2, <2>3, <2>4, <2>5
<1>13. CASE Iterates
  <2>1. /\ agent.at = "loop" /\ ~Exhausted
        /\ agent' = [agent EXCEPT !.at = "model", !.messages = Truncated(agent.messages),
                                  !.count = agent.count + 1, !.retries = 0]
        /\ UNCHANGED <<config, execution, entries, charged, evicted, before, attempts, now>>
    BY <1>0, <1>13 DEF Iterates, Becomes, ledgerVars, AgentRecord
  <2>2. Truncated(agent.messages) \in Seq(Senders)
    BY <1>0, TruncatedType
  <2>3. /\ agent' \in AgentRecord
        /\ agent'.at = "model" /\ agent'.iterations = agent.iterations /\ agent'.retries = 0
        /\ agent'.cost = agent.cost /\ agent'.spent = agent.spent
        /\ agent'.stopReason = agent.stopReason
    <3> DEFINE m == Truncated(agent.messages)
               n == agent.count + 1
    <3>1. m \in Seq(Senders) /\ n \in Nat
      BY <1>1, <2>2
    <3>2. agent' = [agent EXCEPT !.at = "model", !.messages = m, !.count = n, !.retries = 0]
      BY <2>1
    <3> HIDE DEF m, n
    <3>3. 0 \in 0 .. MaxValidationRetries /\ "model" \in AgentStages
      BY DEF MaxValidationRetries, AgentStages
    <3> QED
      BY <1>0, <3>1, <3>2, <3>3 DEF AgentRecord
  <2>4. ASSUME ~evicted
        PROVE  Known'
    <3>1. Known
      BY <1>0, <2>4
    <3>2. Answering
      BY <2>1 DEF Answering
    <3> QED
      BY <2>1, <2>3, <3>1, <3>2 DEF Known, ReportedCost
  <2>5. ASSUME ~evicted
        PROVE  Paced'
    <3>1. CallsMade' = 0 /\ agent'.retries < CallsEach'
      BY <1>1, <1>10, <2>1, <2>3
    <3>2. Known /\ Paced /\ Answering
      BY <1>0, <2>1, <2>5 DEF Answering
    <3>3. charged = agent.cost \/ charged = before
      BY <2>1, <3>2 DEF Known, Paced
    <3>4. config.iterationBudget # 0 => agent.cost < config.iterationBudget
      BY <1>0, <1>1, <2>1, ConfigType DEF Exhausted, Overspent
    <3> DEFINE base == Max({before, config.iterationBudget - 1})
    <3>5. base \in Int /\ before <= base /\ config.iterationBudget - 1 <= base
      BY <1>0, <1>1, LargerOfBudget
    <3>6. Max(CallCosts) \in Nat
      BY MostCost
    <3> HIDE DEF base
    <3>7. config.iterationBudget # 0 => charged <= base + 0 * Max(CallCosts)
      BY <1>0, <1>1, <3>3, <3>4, <3>5, <3>6, ConfigType
    <3> QED
      BY <2>1, <2>3, <3>1, <3>7 DEF Paced, WithinCalls, base
  <2> QED
    BY <1>1, <1>9, <2>1, <2>3, <2>4, <2>5
<1>14. CASE ToolReturns
  <2>1. /\ agent.at = "tools"
        /\ UNCHANGED <<config, execution, entries, charged, evicted, before, attempts, now>>
    BY <1>14 DEF ToolReturns, Becomes, ledgerVars
  <2>2. CASE agent.done + 1 < agent.calls
    <3>1. agent' = [agent EXCEPT !.done = agent.done + 1]
      BY <1>0, <1>14, <2>2 DEF ToolReturns, Becomes, AgentRecord
    <3>2. /\ agent' \in AgentRecord
          /\ agent'.at = agent.at /\ agent'.iterations = agent.iterations
          /\ agent'.retries = agent.retries /\ agent'.cost = agent.cost
          /\ agent'.spent = agent.spent /\ agent'.stopReason = agent.stopReason
      <4> DEFINE n == agent.done + 1
      <4>1. n \in Nat
        BY <1>0 DEF AgentRecord
      <4>2. agent' = [agent EXCEPT !.done = n]
        BY <3>1
      <4> HIDE DEF n
      <4> QED
        BY <1>0, <4>1, <4>2 DEF AgentRecord
    <3>3. Known => Known'
      BY <2>1, <3>2 DEF Known, ReportedCost, Answering
    <3>4. Paced => Paced'
      BY <1>10, <2>1, <3>2 DEF Paced, WithinCalls, CallsMade
    <3> QED
      BY <1>0, <1>1, <1>9, <2>1, <3>2, <3>3, <3>4
  <2>3. CASE ~(agent.done + 1 < agent.calls)
    <3> DEFINE a == Iterated(agent)
    <3>1. a \in AgentRecord /\ a.iterations = Append(agent.iterations, agent.spent)
          /\ a.iterations # << >> /\ a.cost = agent.cost /\ a.spent = agent.spent
      BY <1>0, IteratedType
    <3>2. a.messages \o Tools(agent.calls) \in Seq(Senders)
      <4>1. a.messages \in Seq(Senders) /\ agent.calls \in Nat
        BY <1>0, <3>1 DEF AgentRecord
      <4>2. Tools(agent.calls) \in Seq(Senders)
        BY <4>1 DEF Tools, Senders
      <4> HIDE DEF a
      <4> QED
        BY <4>1, <4>2
    <3>3. agent' = [a EXCEPT !.at = "loop", !.messages = a.messages \o Tools(agent.calls),
                             !.calls = 0, !.done = 0]
      BY <1>14, <2>3, <3>1 DEF ToolReturns, Becomes, AgentRecord
    <3> HIDE DEF a
    <3>4. /\ agent' \in AgentRecord /\ agent'.at = "loop"
          /\ agent'.iterations = Append(agent.iterations, agent.spent)
          /\ agent'.iterations # << >>
          /\ agent'.cost = agent.cost /\ agent'.spent = agent.spent
      BY <3>1, <3>2, <3>3 DEF AgentRecord, AgentStages
    <3>5. ASSUME ~evicted
          PROVE  Known'
      <4>1. Known
        BY <1>0, <3>5
      <4>2. /\ agent.iterations \in Seq(Nat) /\ agent.spent \in Nat
            /\ ReportedCost + agent.spent = agent.cost /\ agent.cost = charged
        BY <2>1, <4>1 DEF Known
      <4>3. /\ SumFunction(agent'.iterations) = SumFunction(agent.iterations) + agent.spent
            /\ agent'.iterations \in Seq(Nat)
        BY <3>4, <4>2, SumAppend, Longer
      <4>4. ReportedCost' = agent.cost
        BY <4>2, <4>3 DEF ReportedCost
      <4> QED
        BY <1>1, <2>1, <3>4, <4>2, <4>3, <4>4 DEF Known
    <3>6. Paced => Paced'
      BY <1>10, <2>1, <3>4 DEF Paced, WithinCalls, CallsMade
    <3> QED
      BY <1>0, <1>1, <1>9, <2>1, <3>4, <3>5, <3>6
  <2> QED
    BY <2>2, <2>3
(* The model has answered, well or not. *)
<1>15. ASSUME agent.at = "model", NEW c \in CallCosts, RecordEntry(TRUE, c),
              UNCHANGED <<config, execution, attempts, now, before>>,
              agent' \in AgentRecord,
              ~evicted' /\ agent.iterations \in Seq(Nat) /\ ReportedCost = agent.cost
                /\ agent.cost <= charged' /\ charged' = ExecutionTotal(entries')
                /\ agent.spent \in Nat => Known',
              agent'.at = "model" => agent'.retries = agent.retries + 1 /\ agent'.retries < CallsEach,
              agent'.at = "loop" => agent'.iterations # << >>
       PROVE  AgentIInv'
  <2>1. /\ entries' \in Seq(LedgerEntry) /\ evicted' \in BOOLEAN /\ charged' \in Nat
        /\ ~evicted' =>
             /\ Booked' /\ charged' = ExecutionTotal(entries')
             /\ agent.iterations \in Seq(Nat) /\ agent.spent \in Nat
             /\ ReportedCost = agent.cost /\ agent.cost <= charged'
             /\ agent.retries + 1 <= CallsEach
             /\ \A n \in {1, 2, 3} : agent.retries < n => WithinCalls(n)'
    BY <1>15, Called
  <2>2. AgentTypeOK'
    BY <1>0, <1>15, <2>1 DEF AgentTypeOK
  <2>3. ASSUME ~evicted'
        PROVE  Paced'
    <3>1. CallsMade' \in {1, 2, 3} /\ agent.retries < CallsMade'
      BY <1>0, <1>1, <1>10, <1>15, <2>1, <2>3, CallsType
    <3>2. WithinCalls(CallsMade)'
      <4>1. PICK n \in {1, 2, 3} : n = CallsMade'
        BY <3>1
      <4>2. agent.retries < n
        BY <3>1, <4>1
      <4>3. WithinCalls(n)'
        <5>1. \A k \in {1, 2, 3} : agent.retries < k => WithinCalls(k)'
          BY <2>1, <2>3
        <5> QED
          BY <4>2, <5>1
      <4> QED
        BY <4>1, <4>3 DEF WithinCalls
    <3>3. CallsEach' = CallsEach
      BY <1>10, <1>15
    <3> QED
      BY <1>15, <3>2, <3>3 DEF Paced
  <2> QED
    BY <1>15, <2>1, <2>2, <2>3 DEF AgentIInv
<1>16. CASE ValidationRetry
  <2>1. PICK c \in CallCosts : RecordEntry(TRUE, c)
    BY <1>16 DEF ValidationRetry
  <2>2. /\ agent.at = "model" /\ Validated /\ agent.retries < MaxValidationRetries
        /\ agent' = [agent EXCEPT !.retries = agent.retries + 1]
        /\ UNCHANGED <<config, execution, attempts, now, before>>
    BY <1>0, <1>16 DEF ValidationRetry, Becomes, AgentRecord
  <2>3. /\ agent' \in AgentRecord
        /\ agent'.at = "model" /\ agent'.iterations = agent.iterations
        /\ agent'.retries = agent.retries + 1 /\ agent'.cost = agent.cost
        /\ agent'.spent = agent.spent /\ agent'.stopReason = agent.stopReason
    <3> DEFINE n == agent.retries + 1
    <3>1. n \in 0 .. MaxValidationRetries
      BY <1>0, <2>2, CallsType DEF MaxValidationRetries
    <3>2. agent' = [agent EXCEPT !.retries = n]
      BY <2>2
    <3> HIDE DEF n
    <3>3. /\ agent' \in AgentRecord
          /\ agent'.at = "model" /\ agent'.iterations = agent.iterations
          /\ agent'.retries = n /\ agent'.cost = agent.cost
          /\ agent'.spent = agent.spent /\ agent'.stopReason = agent.stopReason
      BY <1>0, <2>2, <3>1, <3>2 DEF AgentRecord
    <3> QED
      BY <3>3 DEF n
  <2>4. agent'.retries < CallsEach
    BY <1>0, <2>2, <2>3, CallsType DEF CallsEach, MaxValidationRetries
  <2>5. ~evicted' /\ agent.iterations \in Seq(Nat) /\ ReportedCost = agent.cost
          /\ agent.cost <= charged' /\ charged' = ExecutionTotal(entries')
          /\ agent.spent \in Nat => Known'
    <3>1. ~Answering' /\ agent'.at # "tools" /\ ReportedCost' = ReportedCost
      BY <2>3 DEF Answering, ReportedCost
    <3> QED
      BY <1>1, <2>3, <3>1 DEF Known
  <2> QED
    BY <1>15, <2>1, <2>2, <2>3, <2>4, <2>5
<1>17. CASE ValidationFails
  <2>1. PICK c \in CallCosts : RecordEntry(TRUE, c)
    BY <1>17 DEF ValidationFails
  <2>2. /\ agent.at = "model"
        /\ agent' = [agent EXCEPT !.at = "thrown"]
        /\ UNCHANGED <<config, execution, attempts, now, before>>
    BY <1>17 DEF ValidationFails, Becomes
  <2>3. /\ agent' \in AgentRecord
        /\ agent'.at = "thrown" /\ agent'.iterations = agent.iterations
        /\ agent'.cost = agent.cost /\ agent'.spent = agent.spent
    BY <1>0, <2>2 DEF AgentRecord, AgentStages
  <2>4. ~evicted' /\ agent.iterations \in Seq(Nat) /\ ReportedCost = agent.cost
          /\ agent.cost <= charged' /\ charged' = ExecutionTotal(entries')
          /\ agent.spent \in Nat => Known'
    <3>1. ~Answering' /\ agent'.at # "tools" /\ ReportedCost' = ReportedCost
      BY <2>3 DEF Answering, ReportedCost
    <3> QED
      BY <1>1, <2>3, <3>1 DEF Known
  <2> QED
    BY <1>15, <2>1, <2>2, <2>3, <2>4
(* The answer is taken: all that was charged is known. *)
<1>18. ASSUME NEW a, a = WithAnswer(agent), ExecutionTotal(entries') \in Nat,
              agent.iterations \in Seq(Nat), ReportedCost = agent.cost,
              agent.cost <= charged', charged' = ExecutionTotal(entries')
       PROVE  /\ a.spent \in Nat /\ a.cost = charged' /\ charged' \in Nat
              /\ agent.cost + a.spent = a.cost
              /\ SumFunction(agent.iterations) = agent.cost
              /\ Append(agent.iterations, a.spent) \in Seq(Nat)
              /\ SumFunction(Append(agent.iterations, a.spent)) = a.cost
  <2>1. a.cost = ExecutionTotal(entries') /\ a.spent = ExecutionTotal(entries') - agent.cost
    BY <1>0, <1>18, AnswerTaken
  <2> DEFINE total == ExecutionTotal(entries')
  <2>2. total \in Nat /\ agent.cost \in Nat /\ agent.cost <= total
    BY <1>1, <1>18
  <2>3. a.cost = total /\ a.spent = total - agent.cost /\ charged' = total
    BY <1>18, <2>1
  <2> HIDE DEF total
  <2>4. a.spent \in Nat /\ agent.cost + a.spent = total
    BY <2>2, <2>3
  <2>5. SumFunction(agent.iterations) = agent.cost
    BY <1>18 DEF ReportedCost
  <2>6. SumFunction(Append(agent.iterations, a.spent)) = total
    BY <1>18, <2>4, <2>5, SumAppend
  <2>7. Append(agent.iterations, a.spent) \in Seq(Nat)
    BY <1>18, <2>4, Longer
  <2> QED
    BY <2>2, <2>3, <2>4, <2>5, <2>6, <2>7
<1>19. CASE Completes
  <2> DEFINE a == WithAnswer(agent)
             b == Iterated(a)
  <2>1. PICK c \in CallCosts : RecordEntry(TRUE, c)
    BY <1>19 DEF Completes
  <2>2. /\ agent.at = "model" /\ agent' = Result("completed", b)
        /\ UNCHANGED <<config, execution, attempts, now, before>>
    BY <1>19 DEF Completes, Becomes
  <2>3. ExecutionTotal(entries') \in Nat
    BY <2>1, <1>0, MostCost, Recorded
  <2>4. a \in AgentRecord /\ a.iterations = agent.iterations
    BY <1>0, <2>3, AnswerTaken
  <2> HIDE DEF a
  <2>5. /\ b \in AgentRecord /\ b.iterations = Append(agent.iterations, a.spent)
        /\ b.cost = a.cost /\ b.spent = a.spent
    BY <2>4, IteratedType
  <2> HIDE DEF b
  <2>6. /\ agent' \in AgentRecord /\ agent'.at = "result"
        /\ agent'.iterations = Append(agent.iterations, a.spent)
        /\ agent'.cost = a.cost /\ agent'.spent = a.spent
    BY <2>2, <2>5, ResultType DEF StopReasons
  <2>7. ASSUME agent.iterations \in Seq(Nat), ReportedCost = agent.cost,
               agent.cost <= charged', charged' = ExecutionTotal(entries')
        PROVE  Known'
    <3>1. /\ a.spent \in Nat /\ a.cost = charged' /\ charged' \in Nat
          /\ Append(agent.iterations, a.spent) \in Seq(Nat)
          /\ SumFunction(Append(agent.iterations, a.spent)) = a.cost
      BY <1>18, <2>3, <2>7 DEF a
    <3>2. ReportedCost' = charged'
      BY <2>6, <3>1 DEF ReportedCost
    <3> QED
      BY <2>6, <3>1, <3>2 DEF Known
  <2> QED
    BY <1>15, <2>1, <2>2, <2>6, <2>7
<1>20. CASE Hints
  <2> DEFINE a == WithAnswer(agent)
             b == Iterated(a)
             hints == Append(b.messages, "user")
  <2>1. PICK c \in CallCosts : RecordEntry(TRUE, c)
    BY <1>20 DEF Hints
  <2>2. ExecutionTotal(entries') \in Nat
    BY <2>1, <1>0, MostCost, Recorded
  <2>3. a \in AgentRecord /\ a.iterations = agent.iterations
    BY <1>0, <2>2, AnswerTaken
  <2>4. /\ b \in AgentRecord /\ b.iterations = Append(agent.iterations, a.spent)
        /\ b.iterations # << >> /\ b.cost = a.cost /\ b.spent = a.spent
    <3> HIDE DEF a
    <3> QED
      BY <2>3, IteratedType
  <2>5. /\ agent.at = "model"
        /\ agent' = [b EXCEPT !.at = "loop", !.messages = hints]
        /\ UNCHANGED <<config, execution, attempts, now, before>>
    BY <1>20, <2>4 DEF Hints, Becomes, AgentRecord
  <2> HIDE DEF a, b
  <2>6. hints \in Seq(Senders)
    <3>1. b.messages \in Seq(Senders) /\ "user" \in Senders
      BY <2>4 DEF AgentRecord, Senders
    <3> QED
      BY <3>1, Longer
  <2> HIDE DEF hints
  <2>7. /\ agent' \in AgentRecord /\ agent'.at = "loop" /\ agent'.iterations # << >>
        /\ agent'.iterations = Append(agent.iterations, a.spent)
        /\ agent'.cost = a.cost /\ agent'.spent = a.spent
    BY <2>4, <2>5, <2>6 DEF AgentRecord, AgentStages
  <2>8. ASSUME agent.iterations \in Seq(Nat), ReportedCost = agent.cost,
               agent.cost <= charged', charged' = ExecutionTotal(entries')
        PROVE  Known'
    <3>1. /\ a.spent \in Nat /\ a.cost = charged' /\ charged' \in Nat
          /\ Append(agent.iterations, a.spent) \in Seq(Nat)
          /\ SumFunction(Append(agent.iterations, a.spent)) = a.cost
      BY <1>18, <2>2, <2>8 DEF a
    <3>2. ReportedCost' = charged'
      BY <2>7, <3>1 DEF ReportedCost
    <3>3. /\ agent'.spent \in Nat /\ agent'.iterations \in Seq(Nat)
          /\ agent'.cost = charged' /\ agent'.at # "tools"
      BY <2>7, <3>1
    <3>4. agent'.cost <= charged' /\ charged' + 0 = charged'
      <4>1. charged' \in Nat /\ agent'.cost = charged'
        BY <3>1, <3>3
      <4>2. \A x \in Nat : x <= x /\ x + 0 = x
        OBVIOUS
      <4> QED
        BY <4>1, <4>2
    <3>5. (IF agent'.at = "tools" THEN agent'.spent ELSE 0) = 0
      BY <3>3
    <3>6. ReportedCost' + (IF agent'.at = "tools" THEN agent'.spent ELSE 0) = agent'.cost
      BY <3>2, <3>3, <3>4, <3>5
    <3> QED
      BY <3>3, <3>4, <3>6 DEF Known
  <2> QED
    BY <1>15, <2>1, <2>5, <2>7, <2>8
<1>21. CASE CallsTools
  <2> DEFINE a == WithAnswer(agent)
  <2>1. PICK c \in CallCosts : RecordEntry(TRUE, c)
    BY <1>21 DEF CallsTools
  <2>2. PICK n \in 1 .. MaxToolCalls :
          Becomes([a EXCEPT !.at = "tools", !.calls = n, !.done = 0])
    BY <1>21 DEF CallsTools
  <2>3. /\ agent.at = "model"
        /\ agent' = [a EXCEPT !.at = "tools", !.calls = n, !.done = 0]
        /\ UNCHANGED <<config, execution, attempts, now, before>>
    BY <1>21, <2>2 DEF CallsTools, Becomes
  <2>4. ExecutionTotal(entries') \in Nat
    BY <2>1, <1>0, MostCost, Recorded
  <2>5. a \in AgentRecord /\ a.iterations = agent.iterations
    BY <1>0, <2>4, AnswerTaken
  <2>6. n \in Nat
    BY AgentAssumption
  <2> HIDE DEF a
  <2>7. /\ agent' \in AgentRecord /\ agent'.at = "tools"
        /\ agent'.iterations = agent.iterations
        /\ agent'.cost = a.cost /\ agent'.spent = a.spent
    BY <2>3, <2>5, <2>6 DEF AgentRecord, AgentStages
  <2>8. ASSUME agent.iterations \in Seq(Nat), ReportedCost = agent.cost,
               agent.cost <= charged', charged' = ExecutionTotal(entries')
        PROVE  Known'
    <3>1. /\ a.spent \in Nat /\ a.cost = charged' /\ charged' \in Nat
          /\ agent.cost + a.spent = a.cost
      BY <1>18, <2>4, <2>8 DEF a
    <3>2. ReportedCost' = agent.cost
      BY <2>7, <2>8 DEF ReportedCost
    <3> QED
      BY <2>7, <2>8, <3>1, <3>2 DEF Known
  <2> QED
    BY <1>15, <2>1, <2>3, <2>7, <2>8
<1>22. CASE ModelThrows
  <2>1. /\ agent.at = "model"
        /\ UNCHANGED <<config, execution, attempts, now, before>>
        /\ \/ agent' = Result("budget_exhausted", agent)
           \/ agent' = Result("context_overflow", agent)
           \/ agent' = [agent EXCEPT !.at = "thrown"]
        /\ UNCHANGED ledgerVars \/ \E c \in CallCosts : RecordEntry(TRUE, c)
    BY <1>22 DEF ModelThrows, Becomes
  <2>2. /\ agent' \in AgentRecord
        /\ agent'.iterations = agent.iterations
        /\ agent'.cost = agent.cost /\ agent'.spent = agent.spent
        /\ ~Answering' /\ agent'.at \in {"result", "thrown"}
    <3>1. CASE agent' = [agent EXCEPT !.at = "thrown"]
      BY <1>0, <3>1 DEF AgentRecord, AgentStages, Answering
    <3>2. ASSUME NEW reason \in {"budget_exhausted", "context_overflow"},
                 agent' = Result(reason, agent)
          PROVE  /\ agent' \in AgentRecord
                 /\ agent'.iterations = agent.iterations
                 /\ agent'.cost = agent.cost /\ agent'.spent = agent.spent
                 /\ ~Answering' /\ agent'.at \in {"result", "thrown"}
      BY <1>0, <3>2, ResultType DEF StopReasons, Answering
    <3> QED
      BY <2>1, <3>1, <3>2
  <2>3. ReportedCost' = ReportedCost
    BY <2>2 DEF ReportedCost
  <2>4. CASE UNCHANGED ledgerVars
    <3>1. UNCHANGED <<entries, charged, evicted>>
      BY <2>4 DEF ledgerVars
    <3>2. Known => Known'
      BY <2>1, <2>2, <2>3, <3>1 DEF Known
    <3>3. ASSUME Paced
          PROVE  Paced'
      <4>1. WithinCalls(CallsEach)
        <5>1. agent.retries < CallsEach /\ WithinCalls(agent.retries)
          BY <2>1, <3>3 DEF Paced, CallsMade
        <5> DEFINE n == agent.retries
                   m == CallsEach
        <5>2. n \in {0, 1, 2, 3} /\ m \in {0, 1, 2, 3} /\ n <= m /\ WithinCalls(n)
          BY <1>0, <1>1, <5>1, CallsType
        <5> HIDE DEF n, m
        <5>3. WithinCalls(m)
          BY <1>0, <5>2, MoreCalls
        <5> QED
          BY <5>3 DEF m
      <4>2. CallsMade' = CallsEach
        BY <1>10, <2>1, <2>2
      <4> QED
        BY <2>1, <2>2, <3>1, <4>1, <4>2 DEF Paced, WithinCalls
    <3> QED
      BY <1>0, <1>1, <1>9, <2>1, <2>2, <3>1, <3>2, <3>3
  <2>5. ASSUME NEW c \in CallCosts, RecordEntry(TRUE, c)
        PROVE  AgentIInv'
    <3>1. agent.iterations \in Seq(Nat) /\ ReportedCost = agent.cost
            /\ agent.cost <= charged' /\ agent.spent \in Nat => Known'
      BY <1>1, <2>2, <2>3 DEF Known
    <3> QED
      BY <1>15, <2>1, <2>2, <2>5, <3>1
  <2> QED
    BY <2>1, <2>4, <2>5
<1> QED
  BY <1>4, <1>5, <1>6, <1>7, <1>8, <1>11, <1>12, <1>13, <1>14, <1>16, <1>17, <1>19, <1>20,
     <1>21, <1>22 DEF AgentStep

-------------------------------------------------------------------------------
(* Theorems *)

LEMMA AgentAlways == ReviewSpec => []AgentIInv
<1>1. ReviewInit => AgentIInv
  <2> SUFFICES ASSUME ReviewInit
               PROVE  AgentIInv
    OBVIOUS
  <2>1. /\ config \in Configs /\ agent = IdleAgent /\ execution = "running" /\ attempts = 0
        /\ entries = << >> /\ charged = 0 /\ evicted = FALSE /\ now = 0 /\ before = 0
    BY DEF ReviewInit, InitAgent
  <2>2. AgentTypeOK
    <3>1. << >> \in Seq(LedgerEntry) /\ << >> \in Seq(Int) /\ << >> \in Seq(Senders)
      OBVIOUS
    <3>2. IdleAgent \in AgentRecord
      BY <3>1 DEF IdleAgent, AgentRecord, AgentStages, StopReasons, MaxValidationRetries
    <3> QED
      BY <2>1, <3>1, <3>2 DEF AgentTypeOK
  <2>3. Booked
    <3>1. [i \in DOMAIN << >> |-> IF << >>[i].own THEN << >>[i].cost ELSE 0] = << >>
      OBVIOUS
    <3> QED
      BY <2>1, <3>1, SumOfNone DEF Booked, ExecutionTotal
  <2>4. Known
    <3>1. << >> \in Seq(Nat)
      OBVIOUS
    <3> QED
      BY <2>1, <3>1, SumOfNone DEF Known, ReportedCost, Answering, IdleAgent
  <2>5. WithinCalls(CallsMade)
    <3>1. CallsMade \in {1, 3}
      BY <2>1, CallsType DEF CallsMade, IdleAgent
    <3> DEFINE n == CallsMade
               base == Max({before, config.iterationBudget - 1})
    <3>2. base \in Int /\ 0 <= base
      BY <2>1, <2>2, LargerOfBudget
    <3>3. Max(CallCosts) \in Nat
      BY MostCost
    <3> HIDE DEF n, base
    <3>4. n \in {1, 3} => 0 <= base + n * Max(CallCosts)
      BY <3>2, <3>3
    <3> QED
      BY <2>1, <3>1, <3>4 DEF WithinCalls, n, base
  <2> QED
    BY <2>1, <2>2, <2>3, <2>4, <2>5 DEF AgentIInv, Paced, IdleAgent
<1>2. AgentIInv /\ [ReviewNext]_reviewVars => AgentIInv'
  <2>1. [ReviewNext]_reviewVars => [AgentStep]_agentVars
    BY DEF ReviewNext, reviewVars
  <2> QED
    BY <2>1, AgentInvariance
<1> QED
  BY <1>1, <1>2, PTL DEF ReviewSpec

(* The types of an agent's state: the history stays a sequence of messages   *)
(* whatever is truncated (conversation.ts), the retries within their limit. *)
THEOREM AgentTypeCorrect == ReviewSpec => []AgentTypeOK
<1>1. AgentIInv => AgentTypeOK
  BY DEF AgentIInv
<1> QED
  BY <1>1, AgentAlways, PTL

(* As long as the ledger evicts nothing of it, what an agent reports is what *)
(* it was charged, and it goes beyond its budget by the calls of one        *)
(* iteration at most (agent/handler.ts), whatever the prices, limits,       *)
(* retries and tools.                                                      *)
THEOREM AlwaysBudgeted == ReviewSpec => []Budgeted
<1>1. AgentIInv => Budgeted
  <2> SUFFICES ASSUME AgentIInv, ~evicted
               PROVE  Budgeted
    BY DEF Budgeted, Accounted, Overshoot
  <2>0. AgentTypeOK /\ Known /\ Paced
    BY DEF AgentIInv
  <2>1. Accounted
    <3> SUFFICES ASSUME agent.iterations # << >>, Answering
                 PROVE  ReportedCost = charged
      BY DEF Accounted
    <3>1. agent.at # "tools" /\ agent.cost = charged
      BY <2>0 DEF Known, Answering
    <3>2. ReportedCost \in Nat
      <4>1. SumFunction(agent.iterations) \in Nat
        BY <2>0, SumAppend DEF Known
      <4> QED
        BY <4>1 DEF ReportedCost
    <3> QED
      BY <2>0, <3>1, <3>2 DEF Known
  <2>2. Overshoot
    <3> DEFINE n == CallsMade
               m == CallsEach
    <3>1. n \in {0, 1, 2, 3} /\ m \in {0, 1, 2, 3} /\ n <= m /\ WithinCalls(n)
      BY <2>0, CallsType DEF CallsMade, Paced
    <3> HIDE DEF n, m
    <3>2. WithinCalls(m)
      BY <2>0, <3>1, MoreCalls
    <3> QED
      BY <3>2 DEF m, WithinCalls, CallsEach, Overshoot
  <2> QED
    BY <2>1, <2>2 DEF Budgeted
<1> QED
  BY <1>1, AgentAlways, PTL

(* Flags go from pending to reviewed to resolved, and an evaluation that ends *)
(* late sets none back (FlagManager), for all executions and evaluators.     *)
THEOREM FlagsOneWay == ReviewSpec => FlagSteps
<1> DEFINE Moved == \A e \in Executions : flags[e] # flags'[e] =>
                      <<flags[e], flags'[e]>> \in
                        {<<"none", "pending">>, <<"pending", "reviewed">>,
                         <<"reviewed", "resolved">>}
<1>1. ReviewInit => FlagsTyped
  BY DEF ReviewInit, InitEvaluation, FlagsTyped, Statuses
<1>2. ASSUME FlagsTyped, ReviewNext
      PROVE  FlagsTyped' /\ Moved
  <2>1. ASSUME NEW e \in Executions, NEW s \in Statuses, flags' = [flags EXCEPT ![e] = s],
               <<flags[e], s>> \in {<<"none", "pending">>, <<"pending", "reviewed">>,
                                    <<"reviewed", "resolved">>} \/ s = flags[e]
        PROVE  FlagsTyped' /\ Moved
    BY <1>2, <2>1 DEF FlagsTyped
  <2>2. UNCHANGED flags => FlagsTyped' /\ Moved
    BY <1>2 DEF FlagsTyped
  <2>3. CASE AgentStep /\ UNCHANGED evaluationVars
    BY <2>2, <2>3 DEF evaluationVars
  <2>4. CASE Evaluates
    <3>1. ASSUME NEW e \in Executions, EndsEvaluation(e)
          PROVE  FlagsTyped' /\ Moved
      <4>1. CreateFlag(e) \/ UNCHANGED flags
        BY <3>1 DEF EndsEvaluation
      <4>2. CASE CreateFlag(e)
        <5>1. flags[e] \in Statuses
          BY <1>2 DEF FlagsTyped
        <5>2. CASE flags[e] = "none"
          <6>1. flags' = [flags EXCEPT ![e] = "pending"]
            BY <4>2, <5>2 DEF CreateFlag
          <6> QED
            BY <2>1, <5>2, <6>1 DEF Statuses
        <5>3. CASE flags[e] # "none"
          <6>1. flags' = [flags EXCEPT ![e] = flags[e]]
            BY <4>2, <5>3 DEF CreateFlag
          <6> QED
            BY <2>1, <5>1, <6>1
        <5> QED
          BY <5>2, <5>3
      <4> QED
        BY <2>2, <4>1, <4>2
    <3>2. ASSUME NEW e \in Executions, RunEvaluation(e)
          PROVE  UNCHANGED flags
      BY <3>2 DEF RunEvaluation
    <3>3. ASSUME NEW e \in Executions, NEW n \in Names, EvaluatorAnswers(e, n)
          PROVE  UNCHANGED flags
      BY <3>3 DEF EvaluatorAnswers
    <3> QED
      BY <2>2, <2>4, <3>1, <3>2, <3>3 DEF Evaluates
  <2>5. CASE Operates
    <3>1. ASSUME NEW n \in Names, RemoveEvaluator(n) \/ \E m \in Mediums : AddEvaluator(n, m)
          PROVE  UNCHANGED flags
      BY <3>1 DEF RemoveEvaluator, AddEvaluator
    <3>2. ASSUME NEW e \in Executions, FlagExecution(e)
          PROVE  FlagsTyped' /\ Moved
      BY <2>1, <3>2 DEF FlagExecution, Statuses
    <3>3. ASSUME NEW e \in Executions, UpdateFlag(e)
          PROVE  FlagsTyped' /\ Moved
      BY <2>1, <3>3 DEF UpdateFlag, Statuses
    <3> QED
      BY <2>2, <2>5, <3>1, <3>2, <3>3 DEF Operates
  <2> QED
    BY <1>2, <2>3, <2>4, <2>5 DEF ReviewNext
<1>3. FlagsTyped /\ [ReviewNext]_reviewVars => FlagsTyped'
  BY <1>2 DEF reviewVars, evaluationVars, FlagsTyped
<1>4. FlagsTyped /\ [ReviewNext]_reviewVars => [Moved]_reviewVars
  BY <1>2
<1> QED
  BY <1>1, <1>3, <1>4, PTL DEF ReviewSpec, FlagSteps
==============================================================================
