----------------------------- MODULE PolicyProofs ------------------------------
(***************************************************************************)
(* Proofs about the policy engine, for every number of requests and of     *)
(* limits, rules and guardrails.                                           *)
(*                                                                         *)
(* The engine goes over its limits, rules and queues in loops, which the   *)
(* model writes as folds.  Run is such a loop whose turn is a function:    *)
(* what it does to a longer sequence follows from what it did to the       *)
(* shorter one, so that facts about it are proved by induction over the    *)
(* sequence, and every loop of the model is shown to be a Run.             *)
(***************************************************************************)
EXTENDS PolicyProperties, FiniteSetTheorems, SequenceTheorems, WellFoundedInduction, TLAPS

-------------------------------------------------------------------------------
(* Induction *)

LEMMA Least ==
  ASSUME NEW S \in SUBSET Nat, S # {}
  PROVE  \E x \in S : \A y \in S : x <= y
<1>1. PICK x \in S : \A y \in S : <<y, x>> \notin OpToRel(<, Nat)
  BY NatLessThanWellFounded, WFMin
<1>2. \A p \in Nat \X Nat : p[1] < p[2] => p \in OpToRel(<, Nat)
  BY DEF OpToRel
<1>3. ASSUME NEW y \in S, ~(x <= y) PROVE FALSE
  <2>1. <<y, x>> \in Nat \X Nat /\ y < x
    BY <1>3
  <2> QED
    BY <1>1, <1>2, <2>1
<1> QED
  BY <1>3

LEMMA Upward ==
  ASSUME NEW n \in Nat, NEW S, 0 \in S, \A i \in 0 .. n - 1 : i \in S => i + 1 \in S
  PROVE  \A i \in 0 .. n : i \in S
<1> DEFINE Bad == {i \in 0 .. n : i \notin S}
<1> SUFFICES ASSUME Bad # {} PROVE FALSE
  OBVIOUS
<1>0. Bad \in SUBSET Nat
  OBVIOUS
<1>1. PICK i \in Bad : \A j \in Bad : i <= j
  <2> HIDE DEF Bad
  <2> QED
    BY <1>0, Least
<1>2. i \in Nat /\ i # 0 /\ i - 1 \in 0 .. n - 1
  BY <1>1
<1>3. i - 1 \in S
  BY <1>1, <1>2
<1> QED
  BY <1>1, <1>2, <1>3

(* What holds of the empty sequence, and of a longer one when of the shorter *)
LEMMA BySequence ==
  ASSUME NEW D, NEW S, <<>> \in S,
         \A s \in Seq(D) : \A x \in D : s \in S => Append(s, x) \in S
  PROVE  \A t \in Seq(D) : t \in S
<1> SUFFICES ASSUME NEW t \in Seq(D)
             PROVE  t \in S
  OBVIOUS
<1> DEFINE Good == {i \in Nat : \A s \in Seq(D) : Len(s) = i => s \in S}
<1>0. Len(t) \in Nat
  BY LenProperties
<1>1. 0 \in Good
  BY EmptySeq
<1>2. \A i \in 0 .. Len(t) - 1 : i \in Good => i + 1 \in Good
  <2> SUFFICES ASSUME NEW i \in 0 .. Len(t) - 1, i \in Good, NEW s \in Seq(D), Len(s) = i + 1
               PROVE  s \in S
    OBVIOUS
  <2>1. s # <<>>
    BY EmptySeq
  <2>2. PICK r \in Seq(D), x \in D : s = Append(r, x)
    BY <2>1, SequenceEmptyOrAppend
  <2>3. Len(r) = i
    <3>1. Len(s) = Len(r) + 1 /\ Len(r) \in Nat
      BY <2>2, AppendProperties, LenProperties
    <3> QED
      BY <3>1
  <2> QED
    BY <2>2, <2>3
<1>3. Len(t) \in Good
  <2> HIDE DEF Good
  <2>1. \A i \in 0 .. Len(t) : i \in Good
    BY <1>0, <1>1, <1>2, Upward
  <2> QED
    BY <1>0, <2>1
<1> QED
  BY <1>3

-------------------------------------------------------------------------------
(* Loops *)

(* A loop over elements of D, begun with base, whose turn is step *)
Loop(X, D, step, base) == base \in X /\ step \in [X \X D -> X]

(* What it makes of base when it goes over s *)
Run(step, base, s) ==
  LET upTo[i \in 0 .. Len(s)] == IF i = 0 THEN base ELSE step[<<upTo[i - 1], s[i]>>]
  IN  upTo[Len(s)]

(* f[i] is what the first i turns make of base. *)
Turns(f, step, base, s) ==
  /\ f[0] = base
  /\ \A i \in 1 .. Len(s) : f[i] = step[<<f[i - 1], s[i]>>]

LEMMA TurnsTyped ==
  ASSUME NEW X, NEW D, NEW step, NEW base, Loop(X, D, step, base), NEW s \in Seq(D),
         NEW f, Turns(f, step, base, s)
  PROVE  \A i \in 0 .. Len(s) : f[i] \in X
<1> DEFINE Good == {i \in 0 .. Len(s) : f[i] \in X}
<1>0. Len(s) \in Nat
  BY LenProperties
<1>1. 0 \in Good
  BY <1>0 DEF Turns, Loop
<1>2. \A i \in 0 .. Len(s) - 1 : i \in Good => i + 1 \in Good
  <2> SUFFICES ASSUME NEW i \in 0 .. Len(s) - 1, f[i] \in X
               PROVE  f[i + 1] \in X
    BY <1>0
  <2>1. i + 1 \in 1 .. Len(s) /\ (i + 1) - 1 = i
    BY <1>0
  <2>2. s[i + 1] \in D
    BY <2>1, ElementOfSeq
  <2>3. f[i + 1] = step[<<f[i], s[i + 1]>>]
    BY <2>1 DEF Turns
  <2> QED
    BY <2>2, <2>3 DEF Loop
<1>3. \A i \in 0 .. Len(s) : i \in Good
  <2> HIDE DEF Good
  <2> QED
    BY <1>0, <1>1, <1>2, Upward
<1> QED
  BY <1>3

LEMMA TurnsAgree ==
  ASSUME NEW step, NEW base, NEW s, NEW t, Len(s) \in Nat, Len(t) \in Nat, Len(s) <= Len(t),
         \A i \in 1 .. Len(s) : s[i] = t[i],
         NEW f, Turns(f, step, base, s), NEW g, Turns(g, step, base, t)
  PROVE  \A i \in 0 .. Len(s) : f[i] = g[i]
<1> DEFINE Good == {i \in 0 .. Len(s) : f[i] = g[i]}
<1>1. 0 \in Good
  BY DEF Turns
<1>2. \A i \in 0 .. Len(s) - 1 : i \in Good => i + 1 \in Good
  <2> SUFFICES ASSUME NEW i \in 0 .. Len(s) - 1, f[i] = g[i]
               PROVE  f[i + 1] = g[i + 1]
    OBVIOUS
  <2>1. i + 1 \in 1 .. Len(s) /\ i + 1 \in 1 .. Len(t) /\ (i + 1) - 1 = i
    OBVIOUS
  <2>2. f[i + 1] = step[<<f[i], s[i + 1]>>] /\ g[i + 1] = step[<<g[i], t[i + 1]>>]
    BY <2>1 DEF Turns
  <2> QED
    BY <2>1, <2>2
<1>3. \A i \in 0 .. Len(s) : i \in Good
  <2> HIDE DEF Good
  <2> QED
    BY <1>1, <1>2, Upward
<1> QED
  BY <1>3

LEMMA TurnsExist ==
  ASSUME NEW X, NEW D, NEW step, NEW base, Loop(X, D, step, base)
  PROVE  \A s \in Seq(D) : \E f \in [0 .. Len(s) -> X] : Turns(f, step, base, s)
<1> DEFINE Good == {s \in Seq(D) : \E f \in [0 .. Len(s) -> X] : Turns(f, step, base, s)}
<1>1. <<>> \in Good
  <2>1. <<>> \in Seq(D) /\ Len(<<>>) = 0
    BY EmptySeq
  <2>2. [i \in 0 .. 0 |-> base] \in [0 .. 0 -> X] /\ Turns([i \in 0 .. 0 |-> base], step, base, <<>>)
    BY <2>1 DEF Turns, Loop
  <2> QED
    BY <2>1, <2>2
<1>2. \A s \in Seq(D) : \A x \in D : s \in Good => Append(s, x) \in Good
  <2> SUFFICES ASSUME NEW s \in Seq(D), NEW x \in D,
                      NEW f \in [0 .. Len(s) -> X], Turns(f, step, base, s)
               PROVE  Append(s, x) \in Good
    OBVIOUS
  <2> DEFINE n == Len(s)
             t == Append(s, x)
             g == [i \in 0 .. n + 1 |-> IF i = n + 1 THEN step[<<f[n], x>>] ELSE f[i]]
  <2>1. /\ n \in Nat
        /\ t \in Seq(D)
        /\ Len(t) = n + 1
        /\ \A i \in 1 .. n : t[i] = s[i]
        /\ t[n + 1] = x
    BY LenProperties, AppendProperties
  <2>2. f[n] \in X /\ step[<<f[n], x>>] \in X
    BY <2>1 DEF Loop
  <2> HIDE DEF n, t
  <2>3. g \in [0 .. n + 1 -> X]
    BY <2>1, <2>2 DEF n
  <2>4. g[0] = base
    BY <2>1 DEF Turns
  <2>5. ASSUME NEW i \in 1 .. n + 1
        PROVE  g[i] = step[<<g[i - 1], t[i]>>]
    <3>1. CASE i = n + 1
      <4>1. i - 1 = n /\ g[n] = f[n]
        BY <2>1, <3>1
      <4>2. g[i] = step[<<f[n], x>>] /\ t[i] = x
        BY <2>1, <3>1
      <4> HIDE DEF g
      <4> QED
        BY <4>1, <4>2
    <3>2. CASE i # n + 1
      <4>1. i \in 1 .. n /\ i - 1 \in 0 .. n + 1 /\ i - 1 # n + 1
        BY <2>1, <3>2
      <4>2. f[i] = step[<<f[i - 1], s[i]>>]
        BY <4>1 DEF Turns, n
      <4>3. g[i] = f[i] /\ g[i - 1] = f[i - 1]
        BY <4>1, <3>2
      <4> QED
        BY <2>1, <4>1, <4>2, <4>3
    <3> QED
      BY <3>1, <3>2
  <2> HIDE DEF g
  <2>6. Turns(g, step, base, t)
    BY <2>1, <2>4, <2>5 DEF Turns
  <2>7. t \in Good
    BY <2>1, <2>3, <2>6
  <2> QED
    BY <2>7 DEF t
<1>3. \A s \in Seq(D) : s \in Good
  <2> HIDE DEF Good
  <2> QED
    BY <1>1, <1>2, BySequence
<1> QED
  BY <1>3

(* The end of the turns is the result of the loop. *)
LEMMA RunIs ==
  ASSUME NEW X, NEW D, NEW step, NEW base, Loop(X, D, step, base)
  PROVE  \A s \in Seq(D) : \E f \in [0 .. Len(s) -> X] :
           Turns(f, step, base, s) /\ Run(step, base, s) = f[Len(s)]
<1> SUFFICES ASSUME NEW s \in Seq(D)
             PROVE  \E f \in [0 .. Len(s) -> X] :
                      Turns(f, step, base, s) /\ Run(step, base, s) = f[Len(s)]
  OBVIOUS
<1> PICK f \in [0 .. Len(s) -> X] : Turns(f, step, base, s)
  BY TurnsExist
<1> DEFINE Eq(h) == h = [i \in 0 .. Len(s) |-> IF i = 0 THEN base ELSE step[<<h[i - 1], s[i]>>]]
<1>0. Len(s) \in Nat
  BY LenProperties
<1>1. Run(step, base, s) = (CHOOSE h : Eq(h))[Len(s)]
  BY DEF Run
<1>2. \E h : Eq(h)
  <2>1. PICK g \in [0 .. Len(s) -> X] : Turns(g, step, base, s)
    BY TurnsExist
  <2>2. \A i \in 0 .. Len(s) : g[i] = IF i = 0 THEN base ELSE step[<<g[i - 1], s[i]>>]
    BY <1>0, <2>1 DEF Turns
  <2>3. Eq(g)
    BY <2>2
  <2> QED
    BY <2>3
<1> DEFINE h == CHOOSE h : Eq(h)
<1>3. Eq(h)
  BY <1>2
<1>4. Turns(h, step, base, s)
  <2> HIDE DEF h
  <2> QED
    BY <1>0, <1>3 DEF Turns
<1>5. h[Len(s)] = f[Len(s)]
  <2> HIDE DEF h
  <2> QED
    BY <1>0, <1>4, TurnsAgree
<1> QED
  BY <1>1, <1>5

(* What a loop does: it stays among the results X of its turns, leaves base  *)
(* as it is when there is nothing to go over, and takes the last turn last. *)
LEMMA RunType ==
  ASSUME NEW X, NEW D, NEW step, NEW base, Loop(X, D, step, base), NEW s \in Seq(D)
  PROVE  Run(step, base, s) \in X
<1>1. PICK f \in [0 .. Len(s) -> X] : Run(step, base, s) = f[Len(s)]
  BY RunIs
<1>2. Len(s) \in 0 .. Len(s)
  BY LenProperties
<1> QED
  BY <1>1, <1>2

LEMMA RunEmpty ==
  ASSUME NEW X, NEW D, NEW step, NEW base, Loop(X, D, step, base)
  PROVE  Run(step, base, <<>>) = base
<1>1. ASSUME NEW s \in Seq(D), Len(s) = 0
      PROVE  Run(step, base, s) = base
  <2>1. PICK f : Turns(f, step, base, s) /\ Run(step, base, s) = f[Len(s)]
    BY RunIs
  <2> QED
    BY <1>1, <2>1 DEF Turns
<1> QED
  BY <1>1, EmptySeq

LEMMA RunAppend ==
  ASSUME NEW X, NEW D, NEW step, NEW base, Loop(X, D, step, base), NEW s \in Seq(D), NEW x \in D
  PROVE  Run(step, base, Append(s, x)) = step[<<Run(step, base, s), x>>]
<1> DEFINE t == Append(s, x)
<1>1. /\ Len(s) \in Nat
      /\ t \in Seq(D)
      /\ Len(t) = Len(s) + 1
      /\ \A i \in 1 .. Len(s) : s[i] = t[i]
      /\ t[Len(s) + 1] = x
  BY LenProperties, AppendProperties
<1> HIDE DEF t
<1>2. PICK f : Turns(f, step, base, s) /\ Run(step, base, s) = f[Len(s)]
  BY RunIs
<1>3. PICK g : Turns(g, step, base, t) /\ Run(step, base, t) = g[Len(t)]
  BY <1>1, RunIs
<1>4. f[Len(s)] = g[Len(s)]
  <2>1. Turns(f, step, base, s) /\ Turns(g, step, base, t)
    BY <1>2, <1>3
  <2>2. Len(s) \in Nat /\ Len(t) \in Nat /\ Len(s) <= Len(t)
    BY <1>1
  <2>3. \A i \in 1 .. Len(s) : s[i] = t[i]
    BY <1>1
  <2>4. \A i \in 0 .. Len(s) : f[i] = g[i]
    BY <2>1, <2>2, <2>3, TurnsAgree
  <2> QED
    BY <2>2, <2>4
<1>5. g[Len(t)] = step[<<g[Len(s)], x>>]
  BY <1>1, <1>3 DEF Turns
<1> QED
  BY <1>2, <1>3, <1>4, <1>5 DEF t

(* A FoldLeft is defined over the sets of positions of its sequence, the     *)
(* last position of a set taken off first.                                 *)
Folded(h, step, base, s) ==
  h = [S \in SUBSET DOMAIN s |->
         IF S = {} THEN base ELSE step[<<h[S \ {Max(S)}], s[Max(S)]>>]]

LEMMA MaxUpTo ==
  ASSUME NEW i \in Nat \ {0}
  PROVE  Max(1 .. i) = i /\ (1 .. i) \ {i} = 1 .. i - 1
BY DEF Max

LEMMA MaxIn ==
  ASSUME NEW n \in Nat, NEW S \in SUBSET (1 .. n), S # {}
  PROVE  Max(S) \in S /\ \A x \in S : x <= Max(S)
<1> DEFINE R == {n - x : x \in S}
<1>1. R \in SUBSET Nat /\ R # {}
  <2>1. \A x \in S : n - x \in Nat
    OBVIOUS
  <2> QED
    BY <2>1
<1>2. PICK m \in R : \A y \in R : m <= y
  <2> HIDE DEF R
  <2> QED
    BY <1>1, Least
<1>3. PICK x \in S : m = n - x
  BY <1>2
<1>4. \A y \in S : x >= y
  <2> TAKE y \in S
  <2>1. n - y \in R
    OBVIOUS
  <2>2. n - x <= n - y
    BY <1>2, <1>3, <2>1
  <2> QED
    BY <2>2
<1> QED
  BY <1>4 DEF Max

LEMMA FoldedExists ==
  ASSUME NEW X, NEW D, NEW step, NEW base, Loop(X, D, step, base)
  PROVE  \A s \in Seq(D) : \E h \in [SUBSET DOMAIN s -> X] : Folded(h, step, base, s)
<1> DEFINE Good == {s \in Seq(D) : \E h \in [SUBSET DOMAIN s -> X] : Folded(h, step, base, s)}
<1>1. <<>> \in Good
  <2>1. <<>> \in Seq(D) /\ DOMAIN <<>> = {}
    BY EmptySeq
  <2> DEFINE h == [S \in {{}} |-> base]
  <2>2. SUBSET DOMAIN <<>> = {{}}
    BY <2>1
  <2>3. h \in [SUBSET DOMAIN <<>> -> X] /\ Folded(h, step, base, <<>>)
    BY <2>2 DEF Folded, Loop
  <2> QED
    BY <2>1, <2>3
<1>2. \A s \in Seq(D) : \A x \in D : s \in Good => Append(s, x) \in Good
  <2> SUFFICES ASSUME NEW s \in Seq(D), NEW x \in D,
                      NEW h \in [SUBSET DOMAIN s -> X], Folded(h, step, base, s)
               PROVE  Append(s, x) \in Good
    OBVIOUS
  <2> DEFINE n == Len(s)
             t == Append(s, x)
  <2>1. /\ n \in Nat
        /\ DOMAIN s = 1 .. n
        /\ t \in Seq(D)
        /\ DOMAIN t = 1 .. n + 1
        /\ \A i \in 1 .. n : t[i] = s[i]
        /\ t[n + 1] = x
    BY LenProperties, AppendProperties
  <2> HIDE DEF n, t
  <2> DEFINE g == [S \in SUBSET (1 .. n + 1) |->
                     IF n + 1 \in S THEN step[<<h[S \ {n + 1}], x>>] ELSE h[S]]
  <2>2. ASSUME NEW S \in SUBSET (1 .. n + 1), n + 1 \notin S
        PROVE  S \in SUBSET (1 .. n) /\ g[S] = h[S] /\ h[S] \in X
    <3>1. S \in SUBSET (1 .. n)
      BY <2>1, <2>2
    <3> QED
      BY <2>1, <2>2, <3>1
  <2>3. ASSUME NEW S \in SUBSET (1 .. n + 1), n + 1 \in S
        PROVE  /\ g[S] = step[<<h[S \ {n + 1}], x>>]
               /\ g[S] \in X
               /\ Max(S) = n + 1
               /\ h[S \ {n + 1}] = g[S \ {n + 1}]
    <3>1. S \ {n + 1} \in SUBSET (1 .. n + 1) /\ n + 1 \notin S \ {n + 1}
      OBVIOUS
    <3>2. g[S \ {n + 1}] = h[S \ {n + 1}] /\ h[S \ {n + 1}] \in X
      BY <2>2, <3>1
    <3>3. Max(S) = n + 1
      <4>1. n + 1 \in Nat /\ S # {}
        BY <2>1, <2>3
      <4>2. Max(S) \in S /\ n + 1 <= Max(S)
        BY <2>3, <4>1, MaxIn
      <4>3. Max(S) \in 1 .. n + 1
        BY <4>2
      <4> HIDE DEF g
      <4> QED
        BY <2>1, <4>2, <4>3
    <3>4. g[S] = step[<<h[S \ {n + 1}], x>>]
      BY <2>3
    <3> HIDE DEF g
    <3> QED
      BY <3>2, <3>3, <3>4 DEF Loop
  <2>4. ASSUME NEW S \in SUBSET (1 .. n + 1)
        PROVE  g[S] = IF S = {} THEN base ELSE step[<<g[S \ {Max(S)}], t[Max(S)]>>]
    <3>1. CASE n + 1 \in S
      <4> HIDE DEF g
      <4> QED
        BY <2>1, <2>3, <3>1
    <3>2. CASE n + 1 \notin S
      <4>1. S \in SUBSET DOMAIN s /\ g[S] = h[S]
        BY <2>1, <2>2, <3>2
      <4>2. h[S] = IF S = {} THEN base ELSE step[<<h[S \ {Max(S)}], s[Max(S)]>>]
        BY <4>1 DEF Folded
      <4>3. CASE S = {}
        BY <4>1, <4>2, <4>3
      <4>4. CASE S # {}
        <5>1. Max(S) \in 1 .. n
          BY <2>1, <4>1, <4>4, MaxIn
        <5>2. S \ {Max(S)} \in SUBSET (1 .. n + 1) /\ n + 1 \notin S \ {Max(S)}
          BY <3>2
        <5>3. g[S \ {Max(S)}] = h[S \ {Max(S)}]
          BY <2>2, <5>2
        <5> HIDE DEF g
        <5> QED
          BY <2>1, <4>1, <4>2, <4>4, <5>1, <5>3
      <4> QED
        BY <4>3, <4>4
    <3> QED
      BY <3>1, <3>2
  <2>5. g \in [SUBSET (1 .. n + 1) -> X]
    BY <2>2, <2>3
  <2>6. Folded(g, step, base, t)
    <3>1. g = [S \in SUBSET (1 .. n + 1) |-> g[S]]
      OBVIOUS
    <3> HIDE DEF g
    <3> QED
      BY <2>1, <2>4, <3>1 DEF Folded
  <2>7. t \in Good
    BY <2>1, <2>5, <2>6
  <2> QED
    BY <2>7 DEF t
<1>3. \A s \in Seq(D) : s \in Good
  <2> HIDE DEF Good
  <2> QED
    BY <1>1, <1>2, BySequence
<1> QED
  BY <1>3

(* Whatever takes its turns like step, as far as they stay in X, is that     *)
(* loop,                                                                   *)
LEMMA TurnsRun ==
  ASSUME NEW X, NEW D, NEW step, NEW base, Loop(X, D, step, base), NEW s \in Seq(D),
         NEW f, f[0] = base,
         \A i \in 1 .. Len(s) : f[i - 1] \in X => f[i] = step[<<f[i - 1], s[i]>>]
  PROVE  f[Len(s)] = Run(step, base, s)
<1> DEFINE n == Len(s)
           Good == {i \in 0 .. n : f[i] \in X /\ (i > 0 => f[i] = step[<<f[i - 1], s[i]>>])}
<1>0. n \in Nat
  BY LenProperties
<1>1. 0 \in Good
  BY <1>0 DEF Loop
<1>2. \A i \in 0 .. n - 1 : i \in Good => i + 1 \in Good
  <2> SUFFICES ASSUME NEW i \in 0 .. n - 1, f[i] \in X
               PROVE  f[i + 1] = step[<<f[i], s[i + 1]>>] /\ f[i + 1] \in X
    <3>1. \A i \in 0 .. n - 1 : i + 1 \in 0 .. n /\ (i + 1) - 1 = i
      BY <1>0
    <3> HIDE DEF n
    <3> QED
      BY <3>1
  <2>1. i + 1 \in 1 .. n /\ (i + 1) - 1 = i
    BY <1>0
  <2>2. s[i + 1] \in D
    BY <2>1, ElementOfSeq
  <2>3. f[i + 1] = step[<<f[i], s[i + 1]>>]
    BY <2>1
  <2> QED
    BY <2>2, <2>3 DEF Loop
<1>3. \A i \in 0 .. n : i \in Good
  <2> HIDE DEF Good
  <2> QED
    BY <1>0, <1>1, <1>2, Upward
<1>4. Turns(f, step, base, s)
  <2>1. \A i \in 1 .. n : i \in 0 .. n /\ i > 0
    BY <1>0
  <2> QED
    BY <1>3, <2>1 DEF Turns
<1>5. PICK g : Turns(g, step, base, s) /\ Run(step, base, s) = g[n]
  BY RunIs
<1>6. f[n] = g[n]
  BY <1>0, <1>4, <1>5, TurnsAgree
<1> QED
  BY <1>5, <1>6

(* and so is a fold.                                                         *)
LEMMA FoldedRuns ==
  ASSUME NEW X, NEW D, NEW step, NEW base, Loop(X, D, step, base), NEW s \in Seq(D),
         NEW h, h[{}] = base,
         \A i \in 1 .. Len(s) : h[1 .. i - 1] \in X => h[1 .. i] = step[<<h[1 .. i - 1], s[i]>>]
  PROVE  h[1 .. Len(s)] = Run(step, base, s)
<1> DEFINE f == [i \in 0 .. Len(s) |-> h[1 .. i]]
<1>0. Len(s) \in Nat /\ 1 .. 0 = {}
  BY LenProperties
<1>1. f[0] = base /\ f[Len(s)] = h[1 .. Len(s)]
  BY <1>0
<1>2. \A i \in 1 .. Len(s) : f[i] = h[1 .. i] /\ f[i - 1] = h[1 .. i - 1]
  BY <1>0
<1> HIDE DEF f
<1>3. \A i \in 1 .. Len(s) : f[i - 1] \in X => f[i] = step[<<f[i - 1], s[i]>>]
  BY <1>2
<1>4. f[Len(s)] = Run(step, base, s)
  BY <1>1, <1>3, TurnsRun
<1> QED
  BY <1>1, <1>4

-------------------------------------------------------------------------------
(* Sequences *)

LEMMA ToSetEmpty == ToSet(<<>>) = {}
BY EmptySeq DEF ToSet

LEMMA ToSetAppend ==
  ASSUME NEW D, NEW s \in Seq(D), NEW x \in D
  PROVE  ToSet(Append(s, x)) = ToSet(s) \cup {x}
<1> DEFINE t == Append(s, x)
<1>1. /\ Len(s) \in Nat
      /\ DOMAIN s = 1 .. Len(s)
      /\ DOMAIN t = 1 .. Len(s) + 1
      /\ \A i \in 1 .. Len(s) : t[i] = s[i]
      /\ t[Len(s) + 1] = x
  BY LenProperties, AppendProperties
<1> HIDE DEF t
<1>2. \A i \in DOMAIN t : i \in DOMAIN s \/ i = Len(s) + 1
  BY <1>1
<1>3. DOMAIN s \subseteq DOMAIN t /\ Len(s) + 1 \in DOMAIN t
  BY <1>1
<1>4. ToSet(t) = ToSet(s) \cup {x}
  BY <1>1, <1>2, <1>3 DEF ToSet
<1> QED
  BY <1>4 DEF t

LEMMA ToSetType ==
  ASSUME NEW D, NEW s \in Seq(D)
  PROVE  /\ ToSet(s) \subseteq D
         /\ \A i \in 1 .. Len(s) : s[i] \in ToSet(s)
         /\ \A x \in ToSet(s) : \E i \in 1 .. Len(s) : x = s[i]
         /\ s # <<>> => Len(s) > 0 /\ Head(s) \in ToSet(s)
<1>1. DOMAIN s = 1 .. Len(s) /\ Len(s) \in Nat
  BY LenProperties
<1>2. \A i \in 1 .. Len(s) : s[i] \in D
  BY ElementOfSeq
<1>3. s # <<>> => Len(s) > 0 /\ Head(s) = s[1]
  BY <1>1, EmptySeq
<1> QED
  BY <1>1, <1>2, <1>3 DEF ToSet

-------------------------------------------------------------------------------
(* Only *)

Picking(D, T) == [p \in Seq(D) \X D |-> IF p[2] \in T THEN Append(p[1], p[2]) ELSE p[1]]

LEMMA OnlyRuns ==
  ASSUME NEW D, NEW s \in Seq(D), NEW T
  PROVE  /\ Loop(Seq(D), D, Picking(D, T), <<>>)
         /\ Only(s, T) = Run(Picking(D, T), <<>>, s)
<1> DEFINE step == Picking(D, T)
           n == Len(s)
           Eq(u) == u = [i \in 0 .. n |-> IF i = 0 THEN <<>>
                                          ELSE IF s[i] \in T THEN Append(u[i - 1], s[i])
                                          ELSE u[i - 1]]
<1>0. n \in Nat /\ \A i \in 1 .. n : s[i] \in D
  BY LenProperties, ElementOfSeq
<1>1. Loop(Seq(D), D, step, <<>>)
  <2>1. \A r \in Seq(D) : \A x \in D : Append(r, x) \in Seq(D)
    BY AppendProperties
  <2> QED
    BY <2>1, EmptySeq DEF Loop, Picking
<1>2. \A r \in Seq(D) : \A x \in D : step[<<r, x>>] = IF x \in T THEN Append(r, x) ELSE r
  BY DEF Picking
<1>3. Only(s, T) = (CHOOSE u : Eq(u))[n]
  BY DEF Only
<1> HIDE DEF step, n
<1>4. \E u : Eq(u)
  <2>1. PICK f \in [0 .. n -> Seq(D)] : Turns(f, step, <<>>, s)
    BY <1>1, TurnsExist DEF n
  <2>2. ASSUME NEW i \in 1 .. n
        PROVE  f[i] = IF s[i] \in T THEN Append(f[i - 1], s[i]) ELSE f[i - 1]
    <3>1. f[i - 1] \in Seq(D) /\ s[i] \in D
      BY <1>0
    <3>2. f[i] = step[<<f[i - 1], s[i]>>]
      BY <2>1 DEF Turns, n
    <3> QED
      BY <1>2, <3>1, <3>2
  <2>3. f[0] = <<>>
    BY <2>1 DEF Turns
  <2>4. f = [i \in 0 .. n |-> f[i]]
    OBVIOUS
  <2>5. \A i \in 0 .. n : f[i] = IF i = 0 THEN <<>>
                                 ELSE IF s[i] \in T THEN Append(f[i - 1], s[i]) ELSE f[i - 1]
    <3>1. \A i \in 0 .. n : i = 0 \/ i \in 1 .. n
      BY <1>0
    <3> QED
      BY <2>2, <2>3, <3>1
  <2>6. Eq(f)
    BY <2>4, <2>5
  <2> QED
    BY <2>6
<1> DEFINE u == CHOOSE u : Eq(u)
<1>5. Eq(u)
  BY <1>4
<1> HIDE DEF u
<1>6. u[0] = <<>>
  BY <1>0, <1>5
<1>7. \A i \in 1 .. n : u[i] = IF s[i] \in T THEN Append(u[i - 1], s[i]) ELSE u[i - 1]
  <2>1. \A i \in 1 .. n : i \in 0 .. n /\ i # 0
    BY <1>0
  <2> QED
    BY <1>5, <2>1
<1>8. \A i \in 1 .. n : u[i - 1] \in Seq(D) => u[i] = step[<<u[i - 1], s[i]>>]
  BY <1>0, <1>2, <1>7
<1>9. u[n] = Run(step, <<>>, s)
  BY <1>1, <1>6, <1>8, TurnsRun DEF n
<1> QED
  BY <1>1, <1>3, <1>9 DEF u, step

LEMMA OnlyEmpty == \A T : Only(<<>>, T) = <<>>
<1> SUFFICES ASSUME NEW T
             PROVE  Only(<<>>, T) = <<>>
  OBVIOUS
<1>1. <<>> \in Seq({})
  BY EmptySeq
<1>2. /\ Loop(Seq({}), {}, Picking({}, T), <<>>)
      /\ Only(<<>>, T) = Run(Picking({}, T), <<>>, <<>>)
  BY <1>1, OnlyRuns
<1> QED
  BY <1>2, RunEmpty

LEMMA OnlyType ==
  ASSUME NEW D, NEW s \in Seq(D), NEW T
  PROVE  Only(s, T) \in Seq(D)
<1>1. Loop(Seq(D), D, Picking(D, T), <<>>) /\ Only(s, T) = Run(Picking(D, T), <<>>, s)
  BY OnlyRuns
<1> QED
  BY <1>1, RunType

LEMMA OnlyAppend ==
  ASSUME NEW D, NEW s \in Seq(D), NEW x \in D, NEW T
  PROVE  Only(Append(s, x), T) = IF x \in T THEN Append(Only(s, T), x) ELSE Only(s, T)
<1>1. Loop(Seq(D), D, Picking(D, T), <<>>) /\ Only(s, T) = Run(Picking(D, T), <<>>, s)
  BY OnlyRuns
<1>2. Append(s, x) \in Seq(D)
  BY AppendProperties
<1>3. Only(Append(s, x), T) = Run(Picking(D, T), <<>>, Append(s, x))
  BY <1>2, OnlyRuns
<1>4. Run(Picking(D, T), <<>>, Append(s, x)) = Picking(D, T)[<<Only(s, T), x>>]
  BY <1>1, RunAppend
<1>5. Only(s, T) \in Seq(D)
  BY OnlyType
<1> QED
  BY <1>3, <1>4, <1>5 DEF Picking

(* Only keeps the elements of T and no others, *)
LEMMA OnlySet ==
  ASSUME NEW D, NEW T
  PROVE  \A s \in Seq(D) : ToSet(Only(s, T)) = ToSet(s) \cap T
<1> DEFINE Good == {s \in Seq(D) : ToSet(Only(s, T)) = ToSet(s) \cap T}
<1>1. <<>> \in Good
  BY EmptySeq, OnlyEmpty, ToSetEmpty
<1>2. \A s \in Seq(D) : \A x \in D : s \in Good => Append(s, x) \in Good
  <2> SUFFICES ASSUME NEW s \in Seq(D), NEW x \in D, ToSet(Only(s, T)) = ToSet(s) \cap T
               PROVE  ToSet(Only(Append(s, x), T)) = ToSet(Append(s, x)) \cap T
    BY AppendProperties
  <2>1. ToSet(Append(s, x)) = ToSet(s) \cup {x}
    BY ToSetAppend
  <2>2. CASE x \in T
    <3>1. Only(Append(s, x), T) = Append(Only(s, T), x)
      BY <2>2, OnlyAppend
    <3>2. ToSet(Append(Only(s, T), x)) = ToSet(Only(s, T)) \cup {x}
      BY OnlyType, ToSetAppend
    <3> QED
      BY <2>1, <2>2, <3>1, <3>2
  <2>3. CASE x \notin T
    <3>1. Only(Append(s, x), T) = Only(s, T)
      BY <2>3, OnlyAppend
    <3> QED
      BY <2>1, <2>3, <3>1
  <2> QED
    BY <2>2, <2>3
<1>3. \A s \in Seq(D) : s \in Good
  <2> HIDE DEF Good
  <2> QED
    BY <1>1, <1>2, BySequence
<1> QED
  BY <1>3

(* and to keep some of those it kept is to keep what is in both sets.        *)
LEMMA OnlyTwice ==
  ASSUME NEW D, NEW T, NEW U
  PROVE  \A s \in Seq(D) : Only(Only(s, T), U) = Only(s, T \cap U)
<1> DEFINE Good == {s \in Seq(D) : Only(Only(s, T), U) = Only(s, T \cap U)}
<1>1. <<>> \in Good
  BY EmptySeq, OnlyEmpty
<1>2. \A s \in Seq(D) : \A x \in D : s \in Good => Append(s, x) \in Good
  <2> SUFFICES ASSUME NEW s \in Seq(D), NEW x \in D, Only(Only(s, T), U) = Only(s, T \cap U)
               PROVE  Only(Only(Append(s, x), T), U) = Only(Append(s, x), T \cap U)
    BY AppendProperties
  <2>1. Only(Append(s, x), T) = IF x \in T THEN Append(Only(s, T), x) ELSE Only(s, T)
    BY OnlyAppend
  <2>2. Only(Append(Only(s, T), x), U) = IF x \in U THEN Append(Only(Only(s, T), U), x)
                                                     ELSE Only(Only(s, T), U)
    BY OnlyType, OnlyAppend
  <2>3. Only(Append(s, x), T \cap U) = IF x \in T \cap U THEN Append(Only(s, T \cap U), x)
                                                         ELSE Only(s, T \cap U)
    BY OnlyAppend
  <2>4. CASE x \in T
    <3>1. Only(Only(Append(s, x), T), U) = Only(Append(Only(s, T), x), U)
      BY <2>1, <2>4
    <3> QED
      BY <2>2, <2>3, <2>4, <3>1
  <2>5. CASE x \notin T
    <3>1. Only(Only(Append(s, x), T), U) = Only(Only(s, T), U)
      BY <2>1, <2>5
    <3> QED
      BY <2>3, <2>5, <3>1
  <2> QED
    BY <2>4, <2>5
<1>3. \A s \in Seq(D) : s \in Good
  <2> HIDE DEF Good
  <2> QED
    BY <1>1, <1>2, BySequence
<1> QED
  BY <1>3

(* A list without one of its elements *)
LEMMA WithoutType ==
  ASSUME NEW D, NEW s \in Seq(D), NEW x
  PROVE  Without(s, x) \in Seq(D) /\ ToSet(Without(s, x)) = ToSet(s) \ {x}
BY OnlyType, OnlySet DEF Without

-------------------------------------------------------------------------------
(* The order of priority *)

Inserted(sorted, n, policyOf) ==
  InsertAt(sorted, Cardinality({i \in DOMAIN sorted :
                                  policyOf[sorted[i]].priority <= policyOf[n].priority}) + 1, n)

Inserting(D, policyOf) == [p \in Seq(D) \X D |-> Inserted(p[1], p[2], policyOf)]

LEMMA InsertedType ==
  ASSUME NEW D, NEW s \in Seq(D), NEW n \in D, NEW policyOf
  PROVE  Inserted(s, n, policyOf) \in Seq(D) /\ ToSet(Inserted(s, n, policyOf)) = ToSet(s) \cup {n}
<1> DEFINE before == {i \in DOMAIN s : policyOf[s[i]].priority <= policyOf[n].priority}
           c == Cardinality(before)
           a == SubSeq(s, 1, (c + 1) - 1)
           b == SubSeq(s, c + 1, Len(s))
<1>0. Len(s) \in Nat /\ DOMAIN s = 1 .. Len(s)
  BY LenProperties
<1>1. c \in 0 .. Len(s)
  <2>1. IsFiniteSet(1 .. Len(s)) /\ Cardinality(1 .. Len(s)) = Len(s)
    BY <1>0, FS_Interval
  <2>2. before \subseteq 1 .. Len(s)
    BY <1>0
  <2> HIDE DEF before
  <2>3. IsFiniteSet(before) /\ Cardinality(before) <= Len(s)
    BY <2>1, <2>2, FS_Subset
  <2> QED
    BY <1>0, <2>3, FS_CardinalityType
<1>2. Inserted(s, n, policyOf) = a \o <<n>> \o b
  BY DEF Inserted, InsertAt
<1> HIDE DEF c
<1>3. \A i \in 1 .. Len(s) : s[i] \in D
  BY ElementOfSeq
<1>4. /\ a \in Seq(D)
      /\ Len(a) = c
      /\ \A i \in 1 .. c : a[i] = s[i]
  BY <1>0, <1>1, <1>3, SubSeqProperties
<1>5. /\ b \in Seq(D)
      /\ Len(b) = Len(s) - c
      /\ \A i \in 1 .. Len(s) - c : b[i] = s[c + i]
  <2> DEFINE m == c + 1
  <2>1. m \in 1 .. Len(s) + 1 /\ \A i \in m .. Len(s) : s[i] \in D
    BY <1>0, <1>1, <1>3
  <2>2. /\ Len(s) - m + 1 = Len(s) - c
        /\ ~(m <= Len(s)) => Len(s) - c = 0
        /\ \A i \in 1 .. Len(s) - c : m + i - 1 = c + i
    <3>1. \A k \in Nat : \A d \in 0 .. k :
            k - (d + 1) + 1 = k - d /\ (~(d + 1 <= k) => k - d = 0)
      OBVIOUS
    <3>2. Len(s) - m + 1 = Len(s) - c /\ (~(m <= Len(s)) => Len(s) - c = 0)
      BY <1>0, <1>1, <3>1
    <3>3. ASSUME NEW i \in 1 .. Len(s) - c
          PROVE  m + i - 1 = c + i
      <4>1. i \in Int /\ c \in Int
        BY <1>0, <1>1
      <4> QED
        BY <4>1
    <3> QED
      BY <3>2, <3>3
  <2> HIDE DEF m
  <2>3. m \in Int /\ Len(s) \in Int
    BY <1>0, <2>1
  <2>4. /\ SubSeq(s, m, Len(s)) \in Seq(D)
        /\ Len(SubSeq(s, m, Len(s))) = IF m <= Len(s) THEN Len(s) - m + 1 ELSE 0
        /\ \A i \in 1 .. Len(s) - m + 1 : SubSeq(s, m, Len(s))[i] = s[m + i - 1]
    BY <2>1, <2>3, SubSeqProperties
  <2> QED
    BY <2>2, <2>4 DEF m
<1> HIDE DEF a, b
<1>6. <<n>> \in Seq(D)
  OBVIOUS
<1>7. a \o <<n>> \in Seq(D) /\ (a \o <<n>>) \o b \in Seq(D)
  BY <1>4, <1>5, <1>6, ConcatProperties
<1>8. ToSet((a \o <<n>>) \o b) = (ToSet(a) \cup {n}) \cup ToSet(b)
  <2>1. a \o <<n>> = Append(a, n)
    BY <1>4, AppendIsConcat
  <2>2. ToSet(a \o <<n>>) = ToSet(a) \cup {n}
    <3>1. ToSet(Append(a, n)) = ToSet(a) \cup {n}
      BY <1>4, ToSetAppend
    <3> QED
      BY <2>1, <3>1
  <2>3. \A r \in Seq(D) : \A q \in Seq(D) : ToSet(r \o q) = ToSet(r) \cup ToSet(q)
    <3>1. \A r : ToSet(r) = Range(r)
      BY DEF ToSet, Range
    <3> QED
      BY <3>1, RangeConcatenation
  <2> QED
    BY <1>5, <1>7, <2>2, <2>3
<1>9. ToSet(s) = ToSet(a) \cup ToSet(b)
  <2>1. ToSet(s) = {s[i] : i \in 1 .. Len(s)}
    BY <1>0 DEF ToSet
  <2>2. ToSet(a) = {s[i] : i \in 1 .. c}
    <3>1. DOMAIN a = 1 .. c
      BY <1>4, LenProperties
    <3> QED
      BY <1>4, <3>1 DEF ToSet
  <2>3. ToSet(b) = {s[c + i] : i \in 1 .. Len(s) - c}
    <3>1. DOMAIN b = 1 .. Len(s) - c
      BY <1>5, LenProperties
    <3> QED
      BY <1>5, <3>1 DEF ToSet
  <2>4. ASSUME NEW i \in 1 .. Len(s)
        PROVE  i \in 1 .. c \/ (i - c \in 1 .. Len(s) - c /\ c + (i - c) = i)
    BY <1>0, <1>1
  <2>5. \A i \in 1 .. c : i \in 1 .. Len(s)
    BY <1>0, <1>1
  <2>6. \A i \in 1 .. Len(s) - c : c + i \in 1 .. Len(s)
    BY <1>0, <1>1
  <2>7. ToSet(s) \subseteq ToSet(a) \cup ToSet(b)
    BY <2>1, <2>2, <2>3, <2>4
  <2>8. ToSet(a) \cup ToSet(b) \subseteq ToSet(s)
    BY <2>1, <2>2, <2>3, <2>5, <2>6
  <2> QED
    BY <2>7, <2>8
<1> QED
  BY <1>2, <1>7, <1>8, <1>9

LEMMA ByPriorityRuns ==
  ASSUME NEW D, NEW s \in Seq(D), NEW policyOf
  PROVE  /\ Loop(Seq(D), D, Inserting(D, policyOf), <<>>)
         /\ ByPriority(s, policyOf) = Run(Inserting(D, policyOf), <<>>, s)
<1> DEFINE step == Inserting(D, policyOf)
           Eq(h) == h = [S \in SUBSET DOMAIN s |->
                           IF S = {} THEN <<>>
                           ELSE Inserted(h[S \ {Max(S)}], s[Max(S)], policyOf)]
<1>0. Len(s) \in Nat /\ DOMAIN s = 1 .. Len(s) /\ \A i \in 1 .. Len(s) : s[i] \in D
  BY LenProperties, ElementOfSeq
<1>1. Loop(Seq(D), D, step, <<>>)
  BY InsertedType, EmptySeq DEF Loop, Inserting
<1>2. \A r \in Seq(D) : \A x \in D : step[<<r, x>>] = Inserted(r, x, policyOf)
  BY DEF Inserting
<1>3. ByPriority(s, policyOf) = (CHOOSE h : Eq(h))[DOMAIN s]
  BY DEF ByPriority, FoldLeft, MapThenFoldSet, Inserted
<1> HIDE DEF step
<1>4. \E h : Eq(h)
  <2>1. PICK h \in [SUBSET DOMAIN s -> Seq(D)] : Folded(h, step, <<>>, s)
    BY <1>1, FoldedExists
  <2>2. ASSUME NEW S \in SUBSET DOMAIN s, S # {}
        PROVE  h[S] = Inserted(h[S \ {Max(S)}], s[Max(S)], policyOf)
    <3>1. Max(S) \in 1 .. Len(s)
      BY <1>0, <2>2, MaxIn
    <3>2. h[S] = step[<<h[S \ {Max(S)}], s[Max(S)]>>]
      BY <2>1, <2>2 DEF Folded
    <3>3. h[S \ {Max(S)}] \in Seq(D)
      OBVIOUS
    <3> QED
      BY <1>0, <1>2, <3>1, <3>2, <3>3
  <2>3. h[{}] = <<>>
    BY <2>1 DEF Folded
  <2>4. h = [S \in SUBSET DOMAIN s |-> h[S]]
    OBVIOUS
  <2>5. Eq(h)
    BY <2>2, <2>3, <2>4
  <2> QED
    BY <2>5
<1> DEFINE h == CHOOSE h : Eq(h)
<1>5. Eq(h)
  BY <1>4
<1> HIDE DEF h
<1>6. h[{}] = <<>>
  BY <1>5
<1>7. ASSUME NEW i \in 1 .. Len(s)
      PROVE  h[1 .. i] = Inserted(h[1 .. i - 1], s[i], policyOf)
  <2>1. Max(1 .. i) = i /\ (1 .. i) \ {i} = 1 .. i - 1
    BY <1>0, MaxUpTo
  <2>2. 1 .. i \in SUBSET DOMAIN s /\ 1 .. i # {}
    <3>1. 1 \in 1 .. i /\ \A j \in 1 .. i : j \in 1 .. Len(s)
      BY <1>0
    <3> QED
      BY <1>0, <3>1
  <2> QED
    BY <1>5, <2>1, <2>2
<1>8. \A i \in 1 .. Len(s) : h[1 .. i - 1] \in Seq(D) => h[1 .. i] = step[<<h[1 .. i - 1], s[i]>>]
  BY <1>0, <1>2, <1>7
<1>9. h[1 .. Len(s)] = Run(step, <<>>, s)
  BY <1>1, <1>6, <1>8, FoldedRuns
<1> QED
  BY <1>0, <1>1, <1>3, <1>9 DEF h, step

(* Sorting changes the order alone. *)
LEMMA ByPrioritySet ==
  ASSUME NEW D, NEW policyOf
  PROVE  \A s \in Seq(D) : /\ ByPriority(s, policyOf) \in Seq(D)
                           /\ ToSet(ByPriority(s, policyOf)) = ToSet(s)
<1> DEFINE step == Inserting(D, policyOf)
           Good == {s \in Seq(D) : ToSet(Run(step, <<>>, s)) = ToSet(s)}
<1>0. Loop(Seq(D), D, step, <<>>) /\ \A s \in Seq(D) : ByPriority(s, policyOf) = Run(step, <<>>, s)
  BY ByPriorityRuns, EmptySeq
<1> HIDE DEF step
<1>1. <<>> \in Good
  BY <1>0, RunEmpty, EmptySeq
<1>2. \A s \in Seq(D) : \A x \in D : s \in Good => Append(s, x) \in Good
  <2> SUFFICES ASSUME NEW s \in Seq(D), NEW x \in D, ToSet(Run(step, <<>>, s)) = ToSet(s)
               PROVE  ToSet(Run(step, <<>>, Append(s, x))) = ToSet(Append(s, x))
    BY AppendProperties
  <2>1. Run(step, <<>>, s) \in Seq(D)
    BY <1>0, RunType
  <2>2. Run(step, <<>>, Append(s, x)) = step[<<Run(step, <<>>, s), x>>]
    BY <1>0, RunAppend
  <2>3. step[<<Run(step, <<>>, s), x>>] = Inserted(Run(step, <<>>, s), x, policyOf)
    BY <2>1 DEF step, Inserting
  <2>4. ToSet(Append(s, x)) = ToSet(s) \cup {x}
    BY ToSetAppend
  <2> QED
    BY <2>1, <2>2, <2>3, <2>4, InsertedType
<1>3. \A s \in Seq(D) : s \in Good
  <2> HIDE DEF Good
  <2> QED
    BY <1>1, <1>2, BySequence
<1>4. \A s \in Seq(D) : Run(step, <<>>, s) \in Seq(D)
  BY <1>0, RunType
<1> QED
  BY <1>0, <1>3, <1>4

-------------------------------------------------------------------------------
(* Rules *)

Decisions == [action : {"allow", "deny", "modify"}, rule : Rules \cup {NoOne}]

Deciding == [p \in Decisions \X Rules |-> Evaluate(p[1], p[2])]

LEMMA EvaluateRuns ==
  ASSUME NEW s \in Seq(Rules)
  PROVE  /\ Loop(Decisions, Rules, Deciding, Decision("allow", NoOne))
         /\ FoldLeft(Evaluate, Decision("allow", NoOne), s) = Run(Deciding, Decision("allow", NoOne), s)
<1> DEFINE turn == Deciding
           first == Decision("allow", NoOne)
           Eq(h) == h = [S \in SUBSET DOMAIN s |->
                           IF S = {} THEN Decision("allow", NoOne)
                           ELSE Evaluate(h[S \ {Max(S)}], s[Max(S)])]
<1>0. Len(s) \in Nat /\ DOMAIN s = 1 .. Len(s) /\ \A i \in 1 .. Len(s) : s[i] \in Rules
  BY LenProperties, ElementOfSeq
<1>1. Loop(Decisions, Rules, turn, first)
  BY RuleAssumption DEF Loop, Deciding, Decisions, Decision, Evaluate, PolicyRule
<1>2. \A y \in Decisions : \A x \in Rules : turn[<<y, x>>] = Evaluate(y, x)
  BY DEF Deciding
<1>3. FoldLeft(Evaluate, Decision("allow", NoOne), s) = (CHOOSE h : Eq(h))[DOMAIN s]
  BY DEF FoldLeft, MapThenFoldSet
<1> HIDE DEF turn
<1>4. \E h : Eq(h)
  <2>1. PICK h \in [SUBSET DOMAIN s -> Decisions] : Folded(h, turn, first, s)
    BY <1>1, FoldedExists
  <2>2. ASSUME NEW S \in SUBSET DOMAIN s, S # {}
        PROVE  h[S] = Evaluate(h[S \ {Max(S)}], s[Max(S)])
    <3>1. Max(S) \in 1 .. Len(s)
      BY <1>0, <2>2, MaxIn
    <3>2. h[S] = turn[<<h[S \ {Max(S)}], s[Max(S)]>>]
      BY <2>1, <2>2 DEF Folded
    <3>3. h[S \ {Max(S)}] \in Decisions
      OBVIOUS
    <3> QED
      BY <1>0, <1>2, <3>1, <3>2, <3>3
  <2>3. h[{}] = first
    BY <2>1 DEF Folded
  <2>4. h = [S \in SUBSET DOMAIN s |-> h[S]]
    OBVIOUS
  <2>5. Eq(h)
    BY <2>2, <2>3, <2>4
  <2> QED
    BY <2>5
<1> DEFINE h == CHOOSE h : Eq(h)
<1>5. Eq(h)
  BY <1>4
<1> HIDE DEF h
<1>6. h[{}] = first
  BY <1>5
<1>7. ASSUME NEW i \in 1 .. Len(s)
      PROVE  h[1 .. i] = Evaluate(h[1 .. i - 1], s[i])
  <2>1. Max(1 .. i) = i /\ (1 .. i) \ {i} = 1 .. i - 1
    BY <1>0, MaxUpTo
  <2>2. 1 .. i \in SUBSET DOMAIN s /\ 1 .. i # {}
    <3>1. 1 \in 1 .. i /\ \A j \in 1 .. i : j \in 1 .. Len(s)
      BY <1>0
    <3> QED
      BY <1>0, <3>1
  <2> QED
    BY <1>5, <2>1, <2>2
<1>8. \A i \in 1 .. Len(s) :
        h[1 .. i - 1] \in Decisions => h[1 .. i] = turn[<<h[1 .. i - 1], s[i]>>]
  BY <1>0, <1>2, <1>7
<1>9. h[1 .. Len(s)] = Run(turn, first, s)
  BY <1>1, <1>6, <1>8, FoldedRuns
<1> QED
  BY <1>0, <1>1, <1>3, <1>9 DEF h, turn

(* What a rule decides when nothing before it denied *)
Failing == {n \in Rules : RuleOf[n].does \notin {"allow", "modify"}}
Modifying == {n \in Rules : RuleOf[n].does = "modify"}

(* The loop denies when one of the rules does, whichever comes first. *)
LEMMA Decided ==
  \A s \in Seq(Rules) :
    FoldLeft(Evaluate, Decision("allow", NoOne), s).action =
      IF ToSet(s) \cap Failing # {} THEN "deny"
      ELSE IF ToSet(s) \cap Modifying # {} THEN "modify" ELSE "allow"
<1> DEFINE step == Deciding
           first == Decision("allow", NoOne)
           Says(s) == IF ToSet(s) \cap Failing # {} THEN "deny"
                      ELSE IF ToSet(s) \cap Modifying # {} THEN "modify" ELSE "allow"
           Good == {s \in Seq(Rules) : Run(step, first, s).action = Says(s)}
<1>0. /\ Loop(Decisions, Rules, step, first)
      /\ \A s \in Seq(Rules) : FoldLeft(Evaluate, Decision("allow", NoOne), s) = Run(step, first, s)
  BY EvaluateRuns, EmptySeq
<1>1. <<>> \in Good
  <2>1. Run(step, first, <<>>) = first
    BY <1>0, RunEmpty
  <2>2. first.action = "allow"
    BY DEF Decision
  <2> QED
    BY <2>1, <2>2, EmptySeq, ToSetEmpty
<1>2. \A s \in Seq(Rules) : \A x \in Rules : s \in Good => Append(s, x) \in Good
  <2> SUFFICES ASSUME NEW s \in Seq(Rules), NEW x \in Rules, Run(step, first, s).action = Says(s)
               PROVE  Run(step, first, Append(s, x)).action = Says(Append(s, x))
    BY AppendProperties
  <2> DEFINE d == Run(step, first, s)
  <2>1. d \in Decisions
    BY <1>0, RunType
  <2>2. Run(step, first, Append(s, x)) = step[<<d, x>>]
    BY <1>0, RunAppend
  <2>3. step[<<d, x>>] = Evaluate(d, x)
    BY <2>1 DEF Deciding
  <2>4. ToSet(Append(s, x)) = ToSet(s) \cup {x}
    BY ToSetAppend
  <2>5. Evaluate(d, x).action = IF d.action = "deny" \/ RuleOf[x].does = "allow" THEN d.action
                                ELSE IF RuleOf[x].does = "modify" THEN "modify" ELSE "deny"
    BY DEF Evaluate, Decision
  <2> HIDE DEF d
  <2>6. CASE x \in Failing
    <3>1. RuleOf[x].does # "allow" /\ RuleOf[x].does # "modify"
      BY <2>6 DEF Failing
    <3>2. Says(Append(s, x)) = "deny"
      BY <2>4, <2>6
    <3> HIDE DEF Says
    <3> QED
      BY <2>2, <2>3, <2>5, <3>1, <3>2
  <2>7. CASE RuleOf[x].does = "modify"
    <3>1. x \in Modifying /\ x \notin Failing
      BY <2>7 DEF Failing, Modifying
    <3>2. Says(Append(s, x)) = IF Says(s) = "deny" THEN "deny" ELSE "modify"
      BY <2>4, <3>1
    <3>3. d.action = Says(s)
      BY DEF d
    <3> HIDE DEF Says
    <3> QED
      BY <2>2, <2>3, <2>5, <2>7, <3>2, <3>3
  <2>8. CASE RuleOf[x].does = "allow"
    <3>1. x \notin Modifying /\ x \notin Failing
      BY <2>8 DEF Failing, Modifying
    <3>2. Says(Append(s, x)) = Says(s)
      BY <2>4, <3>1
    <3>3. d.action = Says(s)
      BY DEF d
    <3> HIDE DEF Says
    <3> QED
      BY <2>2, <2>3, <2>5, <2>8, <3>2, <3>3
  <2> QED
    BY <2>6, <2>7, <2>8 DEF Failing
<1>3. \A s \in Seq(Rules) : s \in Good
  <2> HIDE DEF Good
  <2> QED
    BY <1>1, <1>2, BySequence
<1> QED
  BY <1>0, <1>3

(* Whatever the rules are and in whatever order they were registered *)
LEMMA DecidedAsDocumented ==
  ASSUME NEW o \in OperationType, NEW list \in Seq(Rules)
  PROVE  LET does == {RuleOf[n].does : n \in {m \in ToSet(list) : o \in RuleOf[m].operations}}
         IN  EvaluateRules(list, o).action =
               CASE does \cap {"deny", "invalid", "throws"} # {} -> "deny"
                 [] does = {"modify"} \/ does = {"allow", "modify"} -> "modify"
                 [] OTHER -> "allow"
<1> DEFINE mine == {m \in ToSet(list) : o \in RuleOf[m].operations}
           does == {RuleOf[n].does : n \in mine}
<1>1. ToSet(list) \subseteq Rules
  BY ToSetType
<1>2. Sorted(list, o) \in Seq(Rules) /\ ToSet(Sorted(list, o)) = mine
  <2>1. Only(list, RulesFor[o]) \in Seq(Rules)
    BY OnlyType
  <2>2. ToSet(Only(list, RulesFor[o])) = ToSet(list) \cap RulesFor[o]
    BY OnlySet
  <2>3. RulesFor[o] = {n \in Rules : o \in RuleOf[n].operations}
    BY DEF RulesFor
  <2>4. \A s \in Seq(Rules) : ByPriority(s, RuleOf) \in Seq(Rules) /\ ToSet(ByPriority(s, RuleOf)) = ToSet(s)
    BY ByPrioritySet
  <2>5. Sorted(list, o) \in Seq(Rules) /\ ToSet(Sorted(list, o)) = ToSet(list) \cap RulesFor[o]
    BY <2>1, <2>2, <2>4 DEF Sorted
  <2> QED
    BY <1>1, <2>3, <2>5
<1>3. EvaluateRules(list, o).action =
        IF mine \cap Failing # {} THEN "deny"
        ELSE IF mine \cap Modifying # {} THEN "modify" ELSE "allow"
  BY <1>2, Decided DEF EvaluateRules
<1>4. \A n \in mine : n \in Rules /\ RuleOf[n].does \in {"allow", "deny", "modify", "invalid", "throws"}
  BY <1>1, RuleAssumption DEF PolicyRule
<1>5. mine \cap Failing # {} <=> does \cap {"deny", "invalid", "throws"} # {}
  BY <1>4 DEF Failing
<1>6. mine \cap Modifying # {} <=> "modify" \in does
  BY <1>4 DEF Modifying
<1>7. does \subseteq {"allow", "deny", "modify", "invalid", "throws"}
  BY <1>4
<1>8. does \cap {"deny", "invalid", "throws"} = {} =>
        ("modify" \in does <=> does = {"modify"} \/ does = {"allow", "modify"})
  <2> HIDE DEF does
  <2> QED
    BY <1>7
<1> HIDE DEF does, mine
<1> QED
  BY <1>3, <1>5, <1>6, <1>8 DEF does, mine

-------------------------------------------------------------------------------
(* The logs *)

(* Times in the order they were recorded *)
InOrder(s) == \A i, j \in 1 .. Len(s) : i <= j => s[i] <= s[j]
Stamps == {s \in Seq(0 .. now) : InOrder(s)}
Logs == [Keys -> Stamps]

LEMMA InOrderAppend ==
  ASSUME NEW D \in SUBSET Int, NEW s \in Seq(D), NEW x \in D
  PROVE  InOrder(Append(s, x)) <=> InOrder(s) /\ \A y \in ToSet(s) : y <= x
<1> DEFINE t == Append(s, x)
           n == Len(s)
<1>1. /\ n \in Nat
      /\ Len(t) = n + 1
      /\ \A i \in 1 .. n : t[i] = s[i]
      /\ t[n + 1] = x
  BY LenProperties, AppendProperties
<1>2. \A i \in 1 .. n : s[i] \in Int
  BY ElementOfSeq
<1>3. ToSet(s) = {s[i] : i \in 1 .. n}
  BY LenProperties DEF ToSet
<1> HIDE DEF t, n
<1>4. ASSUME \A i, j \in 1 .. n + 1 : i <= j => t[i] <= t[j]
      PROVE  (\A i, j \in 1 .. n : i <= j => s[i] <= s[j]) /\ \A i \in 1 .. n : s[i] <= x
  <2>1. \A i \in 1 .. n : i \in 1 .. n + 1 /\ n + 1 \in 1 .. n + 1 /\ i <= n + 1
    BY <1>1
  <2> QED
    BY <1>1, <1>4, <2>1
<1>5. ASSUME \A i, j \in 1 .. n : i <= j => s[i] <= s[j], \A i \in 1 .. n : s[i] <= x
      PROVE  \A i, j \in 1 .. n + 1 : i <= j => t[i] <= t[j]
  <2> TAKE i, j \in 1 .. n + 1
  <2>1. CASE j \in 1 .. n /\ i \in 1 .. n
    BY <1>1, <1>5, <2>1
  <2>2. CASE j = n + 1 /\ i \in 1 .. n
    BY <1>1, <1>5, <2>2
  <2>3. CASE j = n + 1 /\ i = n + 1
    BY <1>1, <2>3
  <2>4. CASE j \in 1 .. n /\ i = n + 1
    BY <1>1, <2>4
  <2>5. \A m \in 1 .. n + 1 : m \in 1 .. n \/ m = n + 1
    BY <1>1
  <2> QED
    BY <2>1, <2>2, <2>3, <2>4, <2>5
<1>6. InOrder(t) <=> \A i, j \in 1 .. n + 1 : i <= j => t[i] <= t[j]
  BY <1>1 DEF InOrder
<1>7. InOrder(s) <=> \A i, j \in 1 .. n : i <= j => s[i] <= s[j]
  BY DEF InOrder, n
<1>8. (\A y \in ToSet(s) : y <= x) <=> \A i \in 1 .. n : s[i] <= x
  BY <1>3
<1>9. InOrder(t) <=> InOrder(s) /\ \A y \in ToSet(s) : y <= x
  BY <1>4, <1>5, <1>6, <1>7, <1>8
<1> QED
  BY <1>9 DEF t

LEMMA StampsEmpty == <<>> \in Stamps
BY EmptySeq DEF Stamps, InOrder

LEMMA StampsAppend ==
  ASSUME now \in Nat, NEW s \in Stamps
  PROVE  Append(s, now) \in Stamps
<1>1. s \in Seq(0 .. now) /\ InOrder(s)
  BY DEF Stamps
<1>2. now \in 0 .. now /\ 0 .. now \in SUBSET Int
  OBVIOUS
<1>3. ToSet(s) \subseteq 0 .. now
  BY <1>1, ToSetType
<1>4. Append(s, now) \in Seq(0 .. now)
  BY <1>1, <1>2, AppendProperties
<1>5. \A y \in ToSet(s) : y <= now
  BY <1>3
<1>6. InOrder(Append(s, now))
  BY <1>1, <1>2, <1>5, InOrderAppend
<1> QED
  BY <1>4, <1>6 DEF Stamps

LEMMA StampsOnly ==
  ASSUME NEW T
  PROVE  \A s \in Stamps : Only(s, T) \in Stamps
<1> DEFINE D == 0 .. now
           Good == {s \in Seq(D) : InOrder(s) => InOrder(Only(s, T))}
<1>0. D \in SUBSET Int
  OBVIOUS
<1>1. <<>> \in Good
  BY OnlyEmpty, EmptySeq
<1>2. \A s \in Seq(D) : \A x \in D : s \in Good => Append(s, x) \in Good
  <2> SUFFICES ASSUME NEW s \in Seq(D), NEW x \in D, InOrder(s) => InOrder(Only(s, T)),
                      InOrder(Append(s, x))
               PROVE  InOrder(Only(Append(s, x), T))
    BY AppendProperties
  <2> HIDE DEF D
  <2>1. InOrder(s) /\ \A y \in ToSet(s) : y <= x
    BY <1>0, InOrderAppend
  <2>2. Only(s, T) \in Seq(D) /\ ToSet(Only(s, T)) \subseteq ToSet(s)
    <3>1. ToSet(Only(s, T)) = ToSet(s) \cap T
      BY OnlySet
    <3> QED
      BY <3>1, OnlyType
  <2>3. InOrder(Append(Only(s, T), x))
    BY <1>0, <2>1, <2>2, InOrderAppend
  <2> QED
    BY <2>1, <2>3, OnlyAppend
<1>3. \A s \in Seq(D) : s \in Good
  <2> HIDE DEF Good
  <2> QED
    BY <1>1, <1>2, BySequence
<1>4. \A s \in Seq(D) : Only(s, T) \in Seq(D)
  BY OnlyType
<1> QED
  BY <1>3, <1>4 DEF Stamps

(* The last time recorded is taken back: it is now, when there is one of now. *)
LEMMA StampsFront ==
  ASSUME now \in Nat, NEW s \in Stamps
  PROVE  Front(s) \in Stamps /\ (now \in ToSet(s) => s = Append(Front(s), now))
<1> DEFINE D == 0 .. now
           n == Len(s)
<1>0. D \in SUBSET Int /\ now \in D /\ \A d \in D : d <= now
  OBVIOUS
<1>1. s \in Seq(D) /\ InOrder(s)
  BY DEF Stamps
<1>2. CASE s = <<>>
  <2>1. Front(s) = <<>>
    <3>1. Len(s) = 0 /\ Front(s) = SubSeq(s, 1, 0 - 1)
      BY <1>2, EmptySeq DEF Front
    <3>2. 1 \in Int /\ (0 - 1) \in Int /\ ~(1 <= 0 - 1) /\ (0 - 1) - 1 + 1 < 0
      OBVIOUS
    <3>3. \A i \in 1 .. 0 - 1 : s[i] \in D
      OBVIOUS
    <3> DEFINE m == 0 - 1
    <3> HIDE DEF m
    <3>4. SubSeq(s, 1, m) \in Seq(D) /\ Len(SubSeq(s, 1, m)) = 0
      BY <3>2, <3>3, SubSeqProperties DEF m
    <3> QED
      BY <3>1, <3>4, EmptySeq DEF m
  <2> QED
    BY <1>2, <2>1, StampsEmpty, ToSetEmpty
<1>3. CASE s # <<>>
  <2> HIDE DEF D
  <2>1. PICK r \in Seq(D), x \in D : s = Append(r, x)
    BY <1>1, <1>3, SequenceEmptyOrAppend
  <2>2. Front(s) = r
    <3>1. /\ Len(r) \in Nat
          /\ Len(s) = Len(r) + 1
          /\ \A i \in 1 .. Len(r) : s[i] = r[i] /\ r[i] \in D
      BY <2>1, LenProperties, AppendProperties, ElementOfSeq
    <3>2. Front(s) = SubSeq(s, 1, Len(r))
      BY <3>1 DEF Front
    <3>3. /\ SubSeq(s, 1, Len(r)) \in Seq(D)
          /\ Len(SubSeq(s, 1, Len(r))) = Len(r)
          /\ \A i \in 1 .. Len(r) : SubSeq(s, 1, Len(r))[i] = r[i]
      <4>1. 1 \in Int /\ Len(r) \in Int /\ \A i \in 1 .. Len(r) : 1 + i - 1 = i
        BY <3>1
      <4>2. /\ SubSeq(s, 1, Len(r)) \in Seq(D)
            /\ Len(SubSeq(s, 1, Len(r))) = IF 1 <= Len(r) THEN Len(r) - 1 + 1 ELSE 0
            /\ \A i \in 1 .. Len(r) - 1 + 1 : SubSeq(s, 1, Len(r))[i] = s[1 + i - 1]
        BY <3>1, <4>1, SubSeqProperties
      <4>3. Len(r) - 1 + 1 = Len(r) /\ (~(1 <= Len(r)) => Len(r) = 0)
        BY <3>1
      <4> QED
        BY <3>1, <4>1, <4>2, <4>3
    <3> QED
      BY <3>2, <3>3, SeqEqual
  <2>3. InOrder(r) /\ \A y \in ToSet(r) : y <= x
    BY <1>0, <1>1, <2>1, InOrderAppend
  <2>4. r \in Stamps
    BY <2>3 DEF Stamps, D
  <2>5. now \in ToSet(s) => x = now
    <3>1. ToSet(s) = ToSet(r) \cup {x}
      BY <2>1, ToSetAppend
    <3>2. x \in Int /\ x <= now
      BY <1>0
    <3>3. now \in ToSet(s) => now = x \/ now <= x
      BY <2>3, <3>1
    <3> QED
      BY <1>0, <3>2, <3>3
  <2> QED
    BY <2>1, <2>2, <2>4, <2>5
<1> QED
  BY <1>2, <1>3

(* How many times of a log are in T *)
Count(s, T) == Len(Only(s, T))

LEMMA CountAppend ==
  ASSUME NEW D, NEW s \in Seq(D), NEW x \in D, NEW T
  PROVE  Count(s, T) \in Nat /\ Count(Append(s, x), T) = Count(s, T) + IF x \in T THEN 1 ELSE 0
<1>1. Only(s, T) \in Seq(D)
  BY OnlyType
<1>2. Len(Only(s, T)) \in Nat /\ Len(Append(Only(s, T), x)) = Len(Only(s, T)) + 1
  BY <1>1, LenProperties, AppendProperties
<1>3. CASE x \in T
  BY <1>2, <1>3, OnlyAppend DEF Count
<1>4. CASE x \notin T
  BY <1>2, <1>4, OnlyAppend DEF Count
<1> QED
  BY <1>3, <1>4

LEMMA KeyType ==
  \A l \in Limits, r \in Requests :
    Key(l, r) \in Keys /\ LimitOf[l].window \in Nat \ {0} /\ LimitOf[l].limit \in Nat \ {0}
BY LimitAssumption DEF Keys, RateLimitConfig

(* An operation on the log changes it under one key. *)
LEMMA EvictedType ==
  ASSUME NEW log \in Logs, NEW l \in Limits, NEW r \in Requests
  PROVE  /\ Evicted(log, l, r) \in Logs
         /\ \A k \in Keys :
              Evicted(log, l, r)[k] = IF k = Key(l, r) THEN Only(log[k], Later(now - LimitOf[l].window))
                                      ELSE log[k]
<1>1. Only(log[Key(l, r)], Later(now - LimitOf[l].window)) \in Stamps
  BY KeyType, StampsOnly DEF Logs
<1> QED
  BY <1>1, KeyType DEF Evicted, Logs

LEMMA RecordedType ==
  ASSUME now \in Nat, NEW log \in Logs, NEW l \in Limits, NEW r \in Requests
  PROVE  /\ Recorded(log, l, r) \in Logs
         /\ \A k \in Keys :
              Recorded(log, l, r)[k] = IF k = Key(l, r) THEN Append(log[k], now) ELSE log[k]
<1>1. Append(log[Key(l, r)], now) \in Stamps
  BY KeyType, StampsAppend DEF Logs
<1> QED
  BY <1>1, KeyType DEF Recorded, Logs

(* The times in T are kept when the log of k is evicted. *)
Lasting(k, T) ==
  \A l \in Limits, r \in Requests : Key(l, r) = k => T \subseteq Later(now - LimitOf[l].window)

LEMMA NowLasts ==
  ASSUME now \in Nat
  PROVE  \A k \in Keys : Lasting(k, {now})
BY KeyType DEF Lasting, Later

LEMMA EvictedCount ==
  ASSUME NEW log \in Logs, NEW l \in Limits, NEW r \in Requests, NEW k \in Keys, NEW T, Lasting(k, T)
  PROVE  Count(Evicted(log, l, r)[k], T) = Count(log[k], T)
<1>1. CASE k = Key(l, r)
  <2> DEFINE U == Later(now - LimitOf[l].window)
  <2>1. U \cap T = T
    BY <1>1 DEF Lasting
  <2>2. log[k] \in Seq(0 .. now)
    BY DEF Logs, Stamps
  <2> HIDE DEF U
  <2>3. Only(Only(log[k], U), T) = Only(log[k], U \cap T)
    BY <2>2, OnlyTwice
  <2> QED
    BY <1>1, <2>1, <2>3, EvictedType DEF Count, U
<1>2. CASE k # Key(l, r)
  BY <1>2, EvictedType
<1> QED
  BY <1>1, <1>2

LEMMA RecordedCount ==
  ASSUME now \in Nat, NEW log \in Logs, NEW l \in Limits, NEW r \in Requests, NEW k \in Keys, NEW T
  PROVE  /\ Count(log[k], T) \in Nat
         /\ Count(Recorded(log, l, r)[k], T)
              = Count(log[k], T) + IF k = Key(l, r) /\ now \in T THEN 1 ELSE 0
<1> DEFINE D == 0 .. now
<1>1. log[k] \in Seq(D) /\ now \in D
  BY DEF Logs, Stamps
<1> HIDE DEF D
<1>2. /\ Count(log[k], T) \in Nat
      /\ Count(Append(log[k], now), T) = Count(log[k], T) + IF now \in T THEN 1 ELSE 0
  BY <1>1, CountAppend
<1>3. Recorded(log, l, r)[k] = IF k = Key(l, r) THEN Append(log[k], now) ELSE log[k]
  BY RecordedType
<1>4. CASE k = Key(l, r)
  BY <1>2, <1>3, <1>4
<1>5. CASE k # Key(l, r)
  BY <1>2, <1>3, <1>5
<1> QED
  BY <1>2, <1>4, <1>5

(* A request that is released is recorded, and the log then evicted. *)
LEMMA ResolveType ==
  ASSUME now \in Nat, NEW log \in Logs, NEW l \in Limits, NEW q \in Requests
  PROVE  /\ Resolve(log, l, q) \in Logs
         /\ \A k \in Keys : \A T : Lasting(k, T) =>
              /\ Count(log[k], T) \in Nat
              /\ Count(Resolve(log, l, q)[k], T)
                   = Count(log[k], T) + IF k = Key(l, q) /\ now \in T THEN 1 ELSE 0
<1>1. Recorded(log, l, q) \in Logs
  BY RecordedType
<1>2. Evicted(Recorded(log, l, q), l, q) \in Logs
  BY <1>1, EvictedType
<1> SUFFICES ASSUME NEW k \in Keys, NEW T, Lasting(k, T)
             PROVE  /\ Count(log[k], T) \in Nat
                    /\ Count(Resolve(log, l, q)[k], T)
                         = Count(log[k], T) + IF k = Key(l, q) /\ now \in T THEN 1 ELSE 0
  BY <1>2 DEF Resolve
<1>3. Count(Resolve(log, l, q)[k], T) = Count(Recorded(log, l, q)[k], T)
  BY <1>1, EvictedCount DEF Resolve
<1> QED
  BY <1>3, RecordedCount

-------------------------------------------------------------------------------
(* The loops over the log *)

Checks == [log : Logs, allowed : Seq(Limits), denied : Seq(Limits)]

Checked(sofar, l, r) ==
  LET check == CheckSync(sofar.log, l, r)
  IN  [log     |-> check.log,
       allowed |-> IF check.allowed THEN Append(sofar.allowed, l) ELSE sofar.allowed,
       denied  |-> IF check.allowed THEN sofar.denied ELSE Append(sofar.denied, l)]

Checking(r) == [p \in Checks \X Limits |-> Checked(p[1], p[2], r)]

TakenBack(rest, l, r) == [rest EXCEPT ![Key(l, r)] = Front(@)]

Undoing(r) == [p \in Logs \X Limits |-> TakenBack(p[1], p[2], r)]

Drains == [log : Logs, released : Nat, stopped : BOOLEAN]

Drained(sofar, q, l, r) ==
  IF sofar.stopped \/ Full(sofar.log, l, r)
    THEN [sofar EXCEPT !.stopped = TRUE, !.log = Evicted(@, l, r)]
    ELSE [sofar EXCEPT !.released = @ + 1, !.log = Resolve(@, l, q)]

Draining(l, r) == [p \in Drains \X Requests |-> Drained(p[1], p[2], l, r)]

Resolving(l) == [p \in Logs \X Requests |-> Resolve(p[1], l, p[2])]

LEMMA CheckSyncType ==
  ASSUME now \in Nat, NEW log \in Logs, NEW l \in Limits, NEW r \in Requests
  PROVE  /\ CheckSync(log, l, r).allowed = ~Full(log, l, r)
         /\ CheckSync(log, l, r).log = IF Full(log, l, r) THEN Evicted(log, l, r)
                                       ELSE Recorded(Evicted(log, l, r), l, r)
         /\ CheckSync(log, l, r).log \in Logs
<1>1. Evicted(log, l, r) \in Logs
  BY EvictedType
<1>2. Recorded(Evicted(log, l, r), l, r) \in Logs
  BY <1>1, RecordedType
<1> QED
  BY <1>1, <1>2 DEF CheckSync

LEMMA CheckedType ==
  ASSUME now \in Nat, NEW c \in Checks, NEW l \in Limits, NEW r \in Requests
  PROVE  /\ Checked(c, l, r) \in Checks
         /\ Checked(c, l, r).log = CheckSync(c.log, l, r).log
         /\ Checked(c, l, r).allowed = IF Full(c.log, l, r) THEN c.allowed ELSE Append(c.allowed, l)
         /\ Checked(c, l, r).denied = IF Full(c.log, l, r) THEN Append(c.denied, l) ELSE c.denied
<1>1. c.log \in Logs /\ c.allowed \in Seq(Limits) /\ c.denied \in Seq(Limits)
  BY DEF Checks
<1>2. Append(c.allowed, l) \in Seq(Limits) /\ Append(c.denied, l) \in Seq(Limits)
  BY <1>1, AppendProperties
<1>3. /\ CheckSync(c.log, l, r).allowed = ~Full(c.log, l, r)
      /\ CheckSync(c.log, l, r).log \in Logs
  BY <1>1, CheckSyncType
<1> HIDE DEF Logs
<1> QED
  BY <1>1, <1>2, <1>3 DEF Checks, Checked

LEMMA TakenBackType ==
  ASSUME now \in Nat, NEW log \in Logs, NEW l \in Limits, NEW r \in Requests
  PROVE  /\ TakenBack(log, l, r) \in Logs
         /\ \A k \in Keys : TakenBack(log, l, r)[k] = IF k = Key(l, r) THEN Front(log[k]) ELSE log[k]
<1>1. Front(log[Key(l, r)]) \in Stamps
  BY KeyType, StampsFront DEF Logs
<1> QED
  BY <1>1, KeyType DEF TakenBack, Logs

LEMMA DrainedType ==
  ASSUME now \in Nat, NEW d \in Drains, NEW q \in Requests, NEW l \in Limits, NEW r \in Requests
  PROVE  /\ Drained(d, q, l, r) \in Drains
         /\ d.stopped \/ Full(d.log, l, r) =>
              /\ Drained(d, q, l, r).stopped
              /\ Drained(d, q, l, r).released = d.released
              /\ Drained(d, q, l, r).log = Evicted(d.log, l, r)
         /\ ~(d.stopped \/ Full(d.log, l, r)) =>
              /\ Drained(d, q, l, r).stopped = d.stopped
              /\ Drained(d, q, l, r).released = d.released + 1
              /\ Drained(d, q, l, r).log = Resolve(d.log, l, q)
<1>1. d.log \in Logs /\ d.released \in Nat /\ d.stopped \in BOOLEAN
  BY DEF Drains
<1>2. Evicted(d.log, l, r) \in Logs
  BY <1>1, EvictedType
<1>3. Resolve(d.log, l, q) \in Logs
  BY <1>1, ResolveType
<1>4. d.released + 1 \in Nat
  BY <1>1
<1>5. CASE d.stopped \/ Full(d.log, l, r)
  BY <1>1, <1>2, <1>5 DEF Drains, Drained
<1>6. CASE ~(d.stopped \/ Full(d.log, l, r))
  BY <1>1, <1>3, <1>4, <1>6 DEF Drains, Drained
<1> QED
  BY <1>5, <1>6

LEMMA CheckAllRuns ==
  ASSUME now \in Nat, NEW log \in Logs, NEW r \in Requests, NEW s \in Seq(Limits)
  PROVE  /\ Loop(Checks, Limits, Checking(r), [log |-> log, allowed |-> <<>>, denied |-> <<>>])
         /\ CheckAll(log, s, r) = Run(Checking(r), [log |-> log, allowed |-> <<>>, denied |-> <<>>], s)
<1> DEFINE turn == Checking(r)
           first == [log |-> log, allowed |-> <<>>, denied |-> <<>>]
           Eq(h) == h = [S \in SUBSET DOMAIN s |->
                           IF S = {} THEN [log |-> log, allowed |-> <<>>, denied |-> <<>>]
                           ELSE Checked(h[S \ {Max(S)}], s[Max(S)], r)]
<1>0. Len(s) \in Nat /\ DOMAIN s = 1 .. Len(s) /\ \A i \in 1 .. Len(s) : s[i] \in Limits
  BY LenProperties, ElementOfSeq
<1>1. Loop(Checks, Limits, turn, first)
  BY CheckedType, EmptySeq DEF Loop, Checking, Checks
<1>2. \A y \in Checks : \A x \in Limits : turn[<<y, x>>] = Checked(y, x, r)
  BY DEF Checking
<1>3. CheckAll(log, s, r) = (CHOOSE h : Eq(h))[DOMAIN s]
  BY DEF CheckAll, Checked, FoldLeft, MapThenFoldSet
<1> HIDE DEF turn
<1>4. \E h : Eq(h)
  <2>1. PICK h \in [SUBSET DOMAIN s -> Checks] : Folded(h, turn, first, s)
    BY <1>1, FoldedExists
  <2>2. ASSUME NEW S \in SUBSET DOMAIN s, S # {}
        PROVE  h[S] = Checked(h[S \ {Max(S)}], s[Max(S)], r)
    <3>1. Max(S) \in 1 .. Len(s)
      BY <1>0, <2>2, MaxIn
    <3>2. h[S] = turn[<<h[S \ {Max(S)}], s[Max(S)]>>]
      BY <2>1, <2>2 DEF Folded
    <3>3. h[S \ {Max(S)}] \in Checks
      OBVIOUS
    <3> QED
      BY <1>0, <1>2, <3>1, <3>2, <3>3
  <2>3. h[{}] = first
    BY <2>1 DEF Folded
  <2>4. h = [S \in SUBSET DOMAIN s |-> h[S]]
    OBVIOUS
  <2>5. Eq(h)
    BY <2>2, <2>3, <2>4
  <2> QED
    BY <2>5
<1> DEFINE h == CHOOSE h : Eq(h)
<1>5. Eq(h)
  BY <1>4
<1> HIDE DEF h
<1>6. h[{}] = first
  BY <1>5
<1>7. ASSUME NEW i \in 1 .. Len(s)
      PROVE  h[1 .. i] = Checked(h[1 .. i - 1], s[i], r)
  <2>1. Max(1 .. i) = i /\ (1 .. i) \ {i} = 1 .. i - 1
    BY <1>0, MaxUpTo
  <2>2. 1 .. i \in SUBSET DOMAIN s /\ 1 .. i # {}
    <3>1. 1 \in 1 .. i /\ \A j \in 1 .. i : j \in 1 .. Len(s)
      BY <1>0
    <3> QED
      BY <1>0, <3>1
  <2> QED
    BY <1>5, <2>1, <2>2
<1>8. \A i \in 1 .. Len(s) :
        h[1 .. i - 1] \in Checks => h[1 .. i] = turn[<<h[1 .. i - 1], s[i]>>]
  BY <1>0, <1>2, <1>7
<1>9. h[1 .. Len(s)] = Run(turn, first, s)
  BY <1>1, <1>6, <1>8, FoldedRuns
<1> QED
  BY <1>0, <1>1, <1>3, <1>9 DEF h, turn

LEMMA UndoRuns ==
  ASSUME now \in Nat, NEW log \in Logs, NEW r \in Requests, NEW s \in Seq(Limits)
  PROVE  /\ Loop(Logs, Limits, Undoing(r), log)
         /\ Undo(log, s, r) = Run(Undoing(r), log, s)
<1> DEFINE turn == Undoing(r)
           first == log
           Eq(h) == h = [S \in SUBSET DOMAIN s |->
                           IF S = {} THEN log
                           ELSE TakenBack(h[S \ {Max(S)}], s[Max(S)], r)]
<1>0. Len(s) \in Nat /\ DOMAIN s = 1 .. Len(s) /\ \A i \in 1 .. Len(s) : s[i] \in Limits
  BY LenProperties, ElementOfSeq
<1>1. Loop(Logs, Limits, turn, first)
  BY TakenBackType DEF Loop, Undoing
<1>2. \A y \in Logs : \A x \in Limits : turn[<<y, x>>] = TakenBack(y, x, r)
  BY DEF Undoing
<1>3. Undo(log, s, r) = (CHOOSE h : Eq(h))[DOMAIN s]
  BY DEF Undo, TakenBack, FoldLeft, MapThenFoldSet
<1> HIDE DEF turn
<1>4. \E h : Eq(h)
  <2>1. PICK h \in [SUBSET DOMAIN s -> Logs] : Folded(h, turn, first, s)
    BY <1>1, FoldedExists
  <2>2. ASSUME NEW S \in SUBSET DOMAIN s, S # {}
        PROVE  h[S] = TakenBack(h[S \ {Max(S)}], s[Max(S)], r)
    <3>1. Max(S) \in 1 .. Len(s)
      BY <1>0, <2>2, MaxIn
    <3>2. h[S] = turn[<<h[S \ {Max(S)}], s[Max(S)]>>]
      BY <2>1, <2>2 DEF Folded
    <3>3. h[S \ {Max(S)}] \in Logs
      OBVIOUS
    <3> QED
      BY <1>0, <1>2, <3>1, <3>2, <3>3
  <2>3. h[{}] = first
    BY <2>1 DEF Folded
  <2>4. h = [S \in SUBSET DOMAIN s |-> h[S]]
    OBVIOUS
  <2>5. Eq(h)
    BY <2>2, <2>3, <2>4
  <2> QED
    BY <2>5
<1> DEFINE h == CHOOSE h : Eq(h)
<1>5. Eq(h)
  BY <1>4
<1> HIDE DEF h
<1>6. h[{}] = first
  BY <1>5
<1>7. ASSUME NEW i \in 1 .. Len(s)
      PROVE  h[1 .. i] = TakenBack(h[1 .. i - 1], s[i], r)
  <2>1. Max(1 .. i) = i /\ (1 .. i) \ {i} = 1 .. i - 1
    BY <1>0, MaxUpTo
  <2>2. 1 .. i \in SUBSET DOMAIN s /\ 1 .. i # {}
    <3>1. 1 \in 1 .. i /\ \A j \in 1 .. i : j \in 1 .. Len(s)
      BY <1>0
    <3> QED
      BY <1>0, <3>1
  <2> QED
    BY <1>5, <2>1, <2>2
<1>8. \A i \in 1 .. Len(s) :
        h[1 .. i - 1] \in Logs => h[1 .. i] = turn[<<h[1 .. i - 1], s[i]>>]
  BY <1>0, <1>2, <1>7
<1>9. h[1 .. Len(s)] = Run(turn, first, s)
  BY <1>1, <1>6, <1>8, FoldedRuns
<1> QED
  BY <1>0, <1>1, <1>3, <1>9 DEF h, turn

(* The queue is a parameter here, so that it can be gone over by induction. *)
DrainFrom(log, s, l, r) ==
  FoldLeft(LAMBDA sofar, q : Drained(sofar, q, l, r),
           [log |-> log, released |-> 0, stopped |-> FALSE], s)

ReleaseFrom(log, s, l) == FoldLeft(LAMBDA sofar, q : Resolve(sofar, l, q), log, s)

LEMMA OverQueues ==
  \A log, l, r : /\ Drain(log, l, r) = DrainFrom(log, queues[l], l, r)
                 /\ ReleaseQueued(log, l) = ReleaseFrom(log, queues[l], l)
BY DEF Drain, DrainFrom, Drained, ReleaseQueued, ReleaseFrom

LEMMA DrainRuns ==
  ASSUME now \in Nat, NEW log \in Logs, NEW l \in Limits, NEW r \in Requests,
         NEW s \in Seq(Requests)
  PROVE  /\ Loop(Drains, Requests, Draining(l, r), [log |-> log, released |-> 0, stopped |-> FALSE])
         /\ DrainFrom(log, s, l, r) = Run(Draining(l, r), [log |-> log, released |-> 0, stopped |-> FALSE], s)
<1> DEFINE turn == Draining(l, r)
           first == [log |-> log, released |-> 0, stopped |-> FALSE]
           Eq(h) == h = [S \in SUBSET DOMAIN s |->
                           IF S = {} THEN [log |-> log, released |-> 0, stopped |-> FALSE]
                           ELSE Drained(h[S \ {Max(S)}], s[Max(S)], l, r)]
<1>0. Len(s) \in Nat /\ DOMAIN s = 1 .. Len(s) /\ \A i \in 1 .. Len(s) : s[i] \in Requests
  BY LenProperties, ElementOfSeq
<1>1. Loop(Drains, Requests, turn, first)
  BY DrainedType DEF Loop, Draining, Drains
<1>2. \A y \in Drains : \A x \in Requests : turn[<<y, x>>] = Drained(y, x, l, r)
  BY DEF Draining
<1>3. DrainFrom(log, s, l, r) = (CHOOSE h : Eq(h))[DOMAIN s]
  BY DEF DrainFrom, Drained, FoldLeft, MapThenFoldSet
<1> HIDE DEF turn
<1>4. \E h : Eq(h)
  <2>1. PICK h \in [SUBSET DOMAIN s -> Drains] : Folded(h, turn, first, s)
    BY <1>1, FoldedExists
  <2>2. ASSUME NEW S \in SUBSET DOMAIN s, S # {}
        PROVE  h[S] = Drained(h[S \ {Max(S)}], s[Max(S)], l, r)
    <3>1. Max(S) \in 1 .. Len(s)
      BY <1>0, <2>2, MaxIn
    <3>2. h[S] = turn[<<h[S \ {Max(S)}], s[Max(S)]>>]
      BY <2>1, <2>2 DEF Folded
    <3>3. h[S \ {Max(S)}] \in Drains
      OBVIOUS
    <3> QED
      BY <1>0, <1>2, <3>1, <3>2, <3>3
  <2>3. h[{}] = first
    BY <2>1 DEF Folded
  <2>4. h = [S \in SUBSET DOMAIN s |-> h[S]]
    OBVIOUS
  <2>5. Eq(h)
    BY <2>2, <2>3, <2>4
  <2> QED
    BY <2>5
<1> DEFINE h == CHOOSE h : Eq(h)
<1>5. Eq(h)
  BY <1>4
<1> HIDE DEF h
<1>6. h[{}] = first
  BY <1>5
<1>7. ASSUME NEW i \in 1 .. Len(s)
      PROVE  h[1 .. i] = Drained(h[1 .. i - 1], s[i], l, r)
  <2>1. Max(1 .. i) = i /\ (1 .. i) \ {i} = 1 .. i - 1
    BY <1>0, MaxUpTo
  <2>2. 1 .. i \in SUBSET DOMAIN s /\ 1 .. i # {}
    <3>1. 1 \in 1 .. i /\ \A j \in 1 .. i : j \in 1 .. Len(s)
      BY <1>0
    <3> QED
      BY <1>0, <3>1
  <2> QED
    BY <1>5, <2>1, <2>2
<1>8. \A i \in 1 .. Len(s) :
        h[1 .. i - 1] \in Drains => h[1 .. i] = turn[<<h[1 .. i - 1], s[i]>>]
  BY <1>0, <1>2, <1>7
<1>9. h[1 .. Len(s)] = Run(turn, first, s)
  BY <1>1, <1>6, <1>8, FoldedRuns
<1> QED
  BY <1>0, <1>1, <1>3, <1>9 DEF h, turn

LEMMA ReleaseRuns ==
  ASSUME now \in Nat, NEW log \in Logs, NEW l \in Limits, NEW s \in Seq(Requests)
  PROVE  /\ Loop(Logs, Requests, Resolving(l), log)
         /\ ReleaseFrom(log, s, l) = Run(Resolving(l), log, s)
<1> DEFINE turn == Resolving(l)
           first == log
           Eq(h) == h = [S \in SUBSET DOMAIN s |->
                           IF S = {} THEN log
                           ELSE Resolve(h[S \ {Max(S)}], l, s[Max(S)])]
<1>0. Len(s) \in Nat /\ DOMAIN s = 1 .. Len(s) /\ \A i \in 1 .. Len(s) : s[i] \in Requests
  BY LenProperties, ElementOfSeq
<1>1. Loop(Logs, Requests, turn, first)
  BY ResolveType DEF Loop, Resolving
<1>2. \A y \in Logs : \A x \in Requests : turn[<<y, x>>] = Resolve(y, l, x)
  BY DEF Resolving
<1>3. ReleaseFrom(log, s, l) = (CHOOSE h : Eq(h))[DOMAIN s]
  BY DEF ReleaseFrom, FoldLeft, MapThenFoldSet
<1> HIDE DEF turn
<1>4. \E h : Eq(h)
  <2>1. PICK h \in [SUBSET DOMAIN s -> Logs] : Folded(h, turn, first, s)
    BY <1>1, FoldedExists
  <2>2. ASSUME NEW S \in SUBSET DOMAIN s, S # {}
        PROVE  h[S] = Resolve(h[S \ {Max(S)}], l, s[Max(S)])
    <3>1. Max(S) \in 1 .. Len(s)
      BY <1>0, <2>2, MaxIn
    <3>2. h[S] = turn[<<h[S \ {Max(S)}], s[Max(S)]>>]
      BY <2>1, <2>2 DEF Folded
    <3>3. h[S \ {Max(S)}] \in Logs
      OBVIOUS
    <3> QED
      BY <1>0, <1>2, <3>1, <3>2, <3>3
  <2>3. h[{}] = first
    BY <2>1 DEF Folded
  <2>4. h = [S \in SUBSET DOMAIN s |-> h[S]]
    OBVIOUS
  <2>5. Eq(h)
    BY <2>2, <2>3, <2>4
  <2> QED
    BY <2>5
<1> DEFINE h == CHOOSE h : Eq(h)
<1>5. Eq(h)
  BY <1>4
<1> HIDE DEF h
<1>6. h[{}] = first
  BY <1>5
<1>7. ASSUME NEW i \in 1 .. Len(s)
      PROVE  h[1 .. i] = Resolve(h[1 .. i - 1], l, s[i])
  <2>1. Max(1 .. i) = i /\ (1 .. i) \ {i} = 1 .. i - 1
    BY <1>0, MaxUpTo
  <2>2. 1 .. i \in SUBSET DOMAIN s /\ 1 .. i # {}
    <3>1. 1 \in 1 .. i /\ \A j \in 1 .. i : j \in 1 .. Len(s)
      BY <1>0
    <3> QED
      BY <1>0, <3>1
  <2> QED
    BY <1>5, <2>1, <2>2
<1>8. \A i \in 1 .. Len(s) :
        h[1 .. i - 1] \in Logs => h[1 .. i] = turn[<<h[1 .. i - 1], s[i]>>]
  BY <1>0, <1>2, <1>7
<1>9. h[1 .. Len(s)] = Run(turn, first, s)
  BY <1>1, <1>6, <1>8, FoldedRuns
<1> QED
  BY <1>0, <1>1, <1>3, <1>9 DEF h, turn

LEMMA CheckAllType ==
  ASSUME now \in Nat, NEW log \in Logs, NEW r \in Requests, NEW s \in Seq(Limits)
  PROVE  CheckAll(log, s, r) \in Checks
<1>1. /\ Loop(Checks, Limits, Checking(r), [log |-> log, allowed |-> <<>>, denied |-> <<>>])
      /\ CheckAll(log, s, r) = Run(Checking(r), [log |-> log, allowed |-> <<>>, denied |-> <<>>], s)
  BY CheckAllRuns
<1> HIDE DEF Checks
<1> QED
  BY <1>1, RunType

LEMMA UndoType ==
  ASSUME now \in Nat, NEW log \in Logs, NEW r \in Requests, NEW s \in Seq(Limits)
  PROVE  Undo(log, s, r) \in Logs
<1>1. Loop(Logs, Limits, Undoing(r), log) /\ Undo(log, s, r) = Run(Undoing(r), log, s)
  BY UndoRuns
<1> QED
  BY <1>1, RunType

LEMMA DrainType ==
  ASSUME now \in Nat, NEW log \in Logs, NEW l \in Limits, NEW r \in Requests,
         queues[l] \in Seq(Requests)
  PROVE  Drain(log, l, r) \in Drains
<1>1. /\ Loop(Drains, Requests, Draining(l, r), [log |-> log, released |-> 0, stopped |-> FALSE])
      /\ DrainFrom(log, queues[l], l, r)
           = Run(Draining(l, r), [log |-> log, released |-> 0, stopped |-> FALSE], queues[l])
  BY DrainRuns
<1>2. Drain(log, l, r) = DrainFrom(log, queues[l], l, r)
  BY OverQueues
<1>3. DrainFrom(log, queues[l], l, r) \in Drains
  BY <1>1, RunType
<1> QED
  BY <1>2, <1>3

LEMMA ReleaseType ==
  ASSUME now \in Nat, NEW log \in Logs, NEW l \in Limits, queues[l] \in Seq(Requests)
  PROVE  ReleaseQueued(log, l) \in Logs
<1>1. /\ Loop(Logs, Requests, Resolving(l), log)
      /\ ReleaseFrom(log, queues[l], l) = Run(Resolving(l), log, queues[l])
  BY ReleaseRuns
<1>2. ReleaseFrom(log, queues[l], l) \in Logs
  BY <1>1, RunType
<1> QED
  BY <1>2, OverQueues

LEMMA ReportedType ==
  ASSUME NEW log \in Logs, NEW r \in Requests, rateLimits \in Seq(Limits)
  PROVE  /\ Applicable(r) \in Seq(Limits)
         /\ Reported(log, r) \in Logs
         /\ \/ Reported(log, r) = log
            \/ \E l \in Limits : Reported(log, r) = Evicted(log, l, r)
<1>1. Applicable(r) \in Seq(Limits)
  <2>1. \A T : Only(rateLimits, T) \in Seq(Limits)
    BY OnlyType
  <2> QED
    BY <2>1, EmptySeq DEF Applicable
<1>2. Applicable(r) # <<>> => Head(Applicable(r)) \in Limits
  BY <1>1, ToSetType
<1> QED
  BY <1>1, <1>2, EvictedType DEF Reported

(* Taking requests off the front of a queue *)
LEMMA DequeueType ==
  ASSUME NEW D, NEW s \in Seq(D), NEW n \in Nat
  PROVE  /\ SubSeq(s, n + 1, Len(s)) \in Seq(D)
         /\ Len(SubSeq(s, n + 1, Len(s))) <= Len(s)
         /\ n <= Len(s) => Len(SubSeq(s, n + 1, Len(s))) = Len(s) - n
         /\ \A i \in 1 .. Len(s) - n : n + i \in 1 .. Len(s) /\ SubSeq(s, n + 1, Len(s))[i] = s[n + i]
<1> DEFINE m == n + 1
           t == SubSeq(s, m, Len(s))
<1>1. Len(s) \in Nat /\ \A i \in 1 .. Len(s) : s[i] \in D
  BY LenProperties, ElementOfSeq
<1>2. m \in Int /\ Len(s) \in Int /\ \A i \in m .. Len(s) : i \in 1 .. Len(s)
  BY <1>1
<1>3. Len(s) - m + 1 = Len(s) - n /\ (m <= Len(s) <=> n < Len(s))
  BY <1>1
<1>4. \A i \in 1 .. Len(s) - n : m + i - 1 = n + i /\ n + i \in 1 .. Len(s)
  BY <1>1
<1> HIDE DEF m
<1>5. /\ t \in Seq(D)
      /\ Len(t) = IF m <= Len(s) THEN Len(s) - m + 1 ELSE 0
      /\ \A i \in 1 .. Len(s) - m + 1 : t[i] = s[m + i - 1]
  BY <1>1, <1>2, SubSeqProperties
<1> HIDE DEF t
<1>6. Len(t) = IF n < Len(s) THEN Len(s) - n ELSE 0
  BY <1>3, <1>5
<1>7. Len(t) <= Len(s) /\ (n <= Len(s) => Len(t) = Len(s) - n)
  BY <1>1, <1>6
<1>8. \A i \in 1 .. Len(s) - n : t[i] = s[n + i] /\ n + i \in 1 .. Len(s)
  BY <1>3, <1>4, <1>5
<1> QED
  BY <1>5, <1>7, <1>8 DEF t, m

LEMMA OnlyShorter ==
  ASSUME NEW D, NEW T
  PROVE  \A s \in Seq(D) : Len(Only(s, T)) <= Len(s)
<1> DEFINE Good == {s \in Seq(D) : Len(Only(s, T)) <= Len(s)}
<1>1. <<>> \in Good
  BY OnlyEmpty, EmptySeq
<1>2. \A s \in Seq(D) : \A x \in D : s \in Good => Append(s, x) \in Good
  <2> SUFFICES ASSUME NEW s \in Seq(D), NEW x \in D, Len(Only(s, T)) <= Len(s)
               PROVE  Len(Only(Append(s, x), T)) <= Len(Append(s, x))
    BY AppendProperties
  <2>1. Only(s, T) \in Seq(D)
    BY OnlyType
  <2>2. /\ Len(Only(s, T)) \in Nat
        /\ Len(s) \in Nat
        /\ Len(Append(s, x)) = Len(s) + 1
        /\ Len(Append(Only(s, T), x)) = Len(Only(s, T)) + 1
    BY <2>1, LenProperties, AppendProperties
  <2>3. Only(Append(s, x), T) = IF x \in T THEN Append(Only(s, T), x) ELSE Only(s, T)
    BY OnlyAppend
  <2>4. CASE x \in T
    BY <2>2, <2>3, <2>4
  <2>5. CASE x \notin T
    BY <2>2, <2>3, <2>5
  <2> QED
    BY <2>4, <2>5
<1>3. \A s \in Seq(D) : s \in Good
  <2> HIDE DEF Good
  <2> QED
    BY <1>1, <1>2, BySequence
<1> QED
  BY <1>3

-------------------------------------------------------------------------------
(* Types *)

Codes == {"none", "ACCESS_DENIED", "RATE_LIMITED", "POLICY_DENIED", "GUARDRAIL_BLOCKED"}

RequestState ==
  [stage : Stages, at : 0 .. now, charged : SUBSET Limits, waits : Limits \cup {"none"},
   rest : Seq(Guardrails), code : Codes, lasting : SUBSET Guardrails, seen : SUBSET Guardrails]

Registered ==
  /\ rateLimits \in Seq(Limits)
  /\ rules \in Seq(Rules)
  /\ guardrails \in Seq(Guardrails)

Typed ==
  /\ now \in 0 .. MaxTime
  /\ entries \in Logs
  /\ queues \in [Limits -> Seq(Requests)]
  /\ \A l \in Limits : Len(queues[l]) <= LimitOf[l].maxQueueDepth
  /\ Registered
  /\ request \in [Requests -> RequestState]

LEMMA Fields ==
  ASSUME NEW stage \in Stages, NEW at \in 0 .. now, NEW charged \in SUBSET Limits,
         NEW waits \in Limits \cup {"none"}, NEW rest \in Seq(Guardrails), NEW code \in Codes,
         NEW lasting \in SUBSET Guardrails, NEW seen \in SUBSET Guardrails
  PROVE  [stage |-> stage, at |-> at, charged |-> charged, waits |-> waits, rest |-> rest,
          code |-> code, lasting |-> lasting, seen |-> seen] \in RequestState
BY DEF RequestState

LEMMA NewType == now \in Nat => New \in RequestState
<1> SUFFICES ASSUME now \in Nat
             PROVE  New \in RequestState
  OBVIOUS
<1>1. /\ "idle" \in Stages
      /\ 0 \in 0 .. now
      /\ {} \in SUBSET Limits /\ {} \in SUBSET Guardrails
      /\ "none" \in Limits \cup {"none"}
      /\ <<>> \in Seq(Guardrails)
      /\ "none" \in Codes
  BY EmptySeq DEF Stages, Codes
<1> QED
  BY <1>1, Fields DEF New

(* A request goes over to another state, the others stay in theirs. *)
LEMMA GoesOver ==
  ASSUME request \in [Requests -> RequestState], NEW r \in Requests, NEW next \in RequestState,
         request' = [request EXCEPT ![r] = next]
  PROVE  /\ request' \in [Requests -> RequestState]
         /\ request'[r] = next
         /\ \A q \in Requests : q # r => request'[q] = request[q]
OBVIOUS

LEMMA TypedInit == Init => Typed
<1> SUFFICES ASSUME Init
             PROVE  Typed
  OBVIOUS
<1> USE DEF Init, InitLimiter
<1>1. now \in 0 .. MaxTime
  BY ClockAssumption
<1>2. entries \in Logs
  BY StampsEmpty DEF Logs
<1>3. queues \in [Limits -> Seq(Requests)] /\ \A l \in Limits : Len(queues[l]) = 0
  BY EmptySeq
<1>4. \A l \in Limits : LimitOf[l].maxQueueDepth \in Nat
  BY LimitAssumption DEF RateLimitConfig
<1>5. Registered
  BY InitiallyAssumption DEF Registered
<1>6. New \in RequestState
  BY NewType
<1>7. request \in [Requests -> RequestState]
  BY <1>6
<1>8. \A l \in Limits : Len(queues[l]) <= LimitOf[l].maxQueueDepth
  BY <1>3, <1>4
<1> QED
  BY <1>1, <1>2, <1>3, <1>5, <1>7, <1>8 DEF Typed

Waiting(l) == [New EXCEPT !.stage = "queued", !.waits = l]

LEMMA VerdictType ==
  ASSUME now \in Nat
  PROVE  /\ \A code \in {"ACCESS_DENIED", "RATE_LIMITED"} :
              Refused(code) \in RequestState /\ Refused(code).stage = "refused"
         /\ \A charged \in SUBSET Limits :
              /\ Admitted(charged) \in RequestState
              /\ Admitted(charged).stage = "admitted"
              /\ Admitted(charged).at = now
              /\ Admitted(charged).charged = charged
         /\ \A l \in Limits :
              /\ Waiting(l) \in RequestState
              /\ Waiting(l).stage = "queued"
              /\ Waiting(l).waits = l
<1>1. /\ {"refused", "admitted", "queued"} \subseteq Stages
      /\ {"ACCESS_DENIED", "RATE_LIMITED"} \subseteq Codes
      /\ now \in 0 .. now
  BY DEF Stages, Codes
<1>2. New \in RequestState
  BY NewType
<1> HIDE DEF Stages, Codes, New
<1>3. ASSUME NEW x \in RequestState, NEW code \in Codes
      PROVE  /\ [x EXCEPT !.stage = "refused", !.code = code] \in RequestState
             /\ [x EXCEPT !.stage = "refused", !.code = code].stage = "refused"
  BY <1>1 DEF RequestState
<1>4. ASSUME NEW x \in RequestState, NEW charged \in SUBSET Limits
      PROVE  LET y == [x EXCEPT !.stage = "admitted", !.at = now, !.charged = charged]
             IN  y \in RequestState /\ y.stage = "admitted" /\ y.at = now /\ y.charged = charged
  BY <1>1 DEF RequestState
<1>5. ASSUME NEW x \in RequestState, NEW l \in Limits
      PROVE  LET y == [x EXCEPT !.stage = "queued", !.waits = l]
             IN  y \in RequestState /\ y.stage = "queued" /\ y.waits = l
  BY <1>1 DEF RequestState
<1>6. \A code \in {"ACCESS_DENIED", "RATE_LIMITED"} :
        Refused(code) \in RequestState /\ Refused(code).stage = "refused"
  BY <1>1, <1>2, <1>3 DEF Refused
<1>7. ASSUME NEW charged \in SUBSET Limits
      PROVE  /\ Admitted(charged) \in RequestState
             /\ Admitted(charged).stage = "admitted"
             /\ Admitted(charged).at = now
             /\ Admitted(charged).charged = charged
  BY <1>2, <1>4 DEF Admitted
<1>8. ASSUME NEW l \in Limits
      PROVE  Waiting(l) \in RequestState /\ Waiting(l).stage = "queued" /\ Waiting(l).waits = l
  BY <1>2, <1>5 DEF Waiting
<1> QED
  BY <1>6, <1>7, <1>8

(* A request that asks, waits, is refused or has been admitted has no        *)
(* guardrails yet.                                                         *)
Fresh(x) == x.rest = <<>> /\ x.lasting = {} /\ x.seen = {}

LEMMA VerdictFresh ==
  /\ Fresh(New) /\ New.charged = {} /\ New.waits = "none" /\ New.stage = "idle"
  /\ \A code : Fresh(Refused(code)) /\ Refused(code).charged = {}
  /\ \A charged : Fresh(Admitted(charged)) /\ Admitted(charged).waits = "none"
  /\ \A l : /\ Fresh(Waiting(l))
            /\ Waiting(l).charged = {}
<1>1. Fresh(New) /\ New.charged = {} /\ New.waits = "none" /\ New.stage = "idle"
  BY DEF Fresh, New
<1>2. \A code : Fresh(Refused(code)) /\ Refused(code).charged = {}
  BY DEF Fresh, New, Refused
<1>3. \A charged : Fresh(Admitted(charged)) /\ Admitted(charged).waits = "none"
  BY DEF Fresh, New, Admitted
<1>4. \A l : /\ Fresh(Waiting(l))
             /\ Waiting(l).charged = {}
  BY DEF Fresh, New, Waiting
<1> QED
  BY <1>1, <1>2, <1>3, <1>4

(* Those whose limit is removed were admitted too, and still name it. *)
LEMMA ReleasedType ==
  ASSUME now \in Nat, NEW l \in Limits
  PROVE  LET y == [Admitted({l}) EXCEPT !.waits = l]
         IN  /\ y \in RequestState
             /\ Fresh(y)
             /\ y.stage = "admitted" /\ y.at = now /\ y.charged = {l} /\ y.waits = l
<1>1. /\ Admitted({l}) \in RequestState
      /\ Fresh(Admitted({l}))
      /\ Admitted({l}).stage = "admitted"
      /\ Admitted({l}).at = now
      /\ Admitted({l}).charged = {l}
  BY VerdictType, VerdictFresh
<1>2. ASSUME NEW x \in RequestState, Fresh(x)
      PROVE  LET y == [x EXCEPT !.waits = l]
             IN  /\ y \in RequestState
                 /\ Fresh(y)
                 /\ y.stage = x.stage /\ y.at = x.at /\ y.charged = x.charged /\ y.waits = l
  BY <1>2 DEF RequestState, Fresh
<1> QED
  BY <1>1, <1>2

(* The guardrails of a phase are among those that are registered. *)
LEMMA GuardrailsForType ==
  ASSUME guardrails \in Seq(Guardrails), NEW r, NEW phase
  PROVE  GuardrailsFor(r, phase) \in Seq(Guardrails)
<1> DEFINE T == {g \in Guardrails : /\ GuardrailOf[g].phase = phase
                                    /\ GuardrailOf[g].flowName \in {"*", RequestOf[r].flow}}
<1>1. \A s \in Seq(Guardrails) : ByPriority(s, GuardrailOf) \in Seq(Guardrails)
  BY ByPrioritySet
<1>2. Only(guardrails, T) \in Seq(Guardrails)
  BY OnlyType
<1> QED
  BY <1>1, <1>2 DEF GuardrailsFor

LEMMA BeginType ==
  ASSUME Typed, NEW r \in Requests, NEW stage \in {"input", "output"}, Begin(r, stage)
  PROVE  /\ request' \in [Requests -> RequestState]
         /\ request'[r] = [request[r] EXCEPT !.stage = stage, !.rest = GuardrailsFor(r, stage),
                                             !.lasting = @ \cup ToSet(GuardrailsFor(r, stage))]
         /\ \A q \in Requests \ {r} : request'[q] = request[q]
<1> DEFINE list == GuardrailsFor(r, stage)
           next == [request[r] EXCEPT !.stage = stage, !.rest = list, !.lasting = @ \cup ToSet(list)]
<1>1. list \in Seq(Guardrails) /\ ToSet(list) \subseteq Guardrails
  BY GuardrailsForType, ToSetType DEF Typed, Registered
<1> HIDE DEF list
<1>2. request[r] \in RequestState /\ request \in [Requests -> RequestState]
  BY DEF Typed
<1>3. next \in RequestState
  BY <1>1, <1>2 DEF RequestState, Stages
<1>4. request' = [request EXCEPT ![r] = next]
  BY <1>2 DEF Begin, list, RequestState
<1> HIDE DEF next
<1>5. /\ request' \in [Requests -> RequestState]
      /\ request'[r] = next
      /\ \A q \in Requests \ {r} : request'[q] = request[q]
  BY <1>2, <1>3, <1>4
<1> QED
  BY <1>5 DEF next, list

(* Steps of a request between its admission and its end *)
Onward(r) ==
  \/ PassesRules(r) \/ DeniedByRule(r) \/ PhaseDone(r)
  \/ \E result \in GuardrailResult : LetsThrough(r, result) \/ Blocked(r, result)

LEMMA TypedOnward ==
  ASSUME Typed, NEW r \in Requests, Onward(r)
  PROVE  request' \in [Requests -> RequestState] /\ UNCHANGED <<limiter, registry>>
<1>0. request[r] \in RequestState /\ request \in [Requests -> RequestState]
  BY DEF Typed
<1>1. UNCHANGED <<limiter, registry>>
  BY DEF Onward, PassesRules, DeniedByRule, PhaseDone, LetsThrough, Blocked
<1>2. ASSUME Begin(r, "input") \/ Begin(r, "output")
      PROVE  request' \in [Requests -> RequestState]
  BY <1>2, BeginType
<1>3. ASSUME Finish(r)
      PROVE  request' \in [Requests -> RequestState]
  BY <1>0, <1>3 DEF Finish, RequestState, Stages
<1>4. CASE PassesRules(r)
  BY <1>1, <1>2, <1>3, <1>4 DEF PassesRules
<1>5. CASE DeniedByRule(r)
  <2> DEFINE next == [request[r] EXCEPT !.stage = "refused", !.code = "POLICY_DENIED"]
  <2>1. next \in RequestState
    BY <1>0 DEF RequestState, Stages, Codes
  <2>2. request' = [request EXCEPT ![r] = next]
    BY <1>0, <1>5 DEF DeniedByRule
  <2> QED
    BY <1>0, <1>1, <2>1, <2>2, GoesOver
<1>6. CASE PhaseDone(r)
  BY <1>1, <1>2, <1>3, <1>6 DEF PhaseDone
<1>7. ASSUME NEW result, LetsThrough(r, result)
      PROVE  request' \in [Requests -> RequestState]
  <2>1. request[r].rest \in Seq(Guardrails) /\ request[r].rest # <<>>
    BY <1>0, <1>7 DEF LetsThrough, Guarding, RequestState
  <2>2. Tail(request[r].rest) \in Seq(Guardrails) /\ Head(request[r].rest) \in Guardrails
    BY <2>1, HeadTailProperties
  <2>3. request' = [request EXCEPT ![r].rest = Tail(@), ![r].seen = @ \cup {Head(request[r].rest)}]
    BY <1>7 DEF LetsThrough
  <2> QED
    BY <1>0, <2>2, <2>3 DEF RequestState
<1>8. ASSUME NEW result, Blocked(r, result)
      PROVE  request' \in [Requests -> RequestState]
  <2> DEFINE next == [request[r] EXCEPT !.stage = "refused", !.code = "GUARDRAIL_BLOCKED"]
  <2>1. next \in RequestState
    BY <1>0 DEF RequestState, Stages, Codes
  <2>2. request' = [request EXCEPT ![r] = next]
    BY <1>0, <1>8 DEF Blocked
  <2> QED
    BY <1>0, <2>1, <2>2, GoesOver
<1> QED
  BY <1>1, <1>4, <1>5, <1>6, <1>7, <1>8 DEF Onward

LEMMA LimitParts ==
  ASSUME Typed, NEW r \in Requests
  PROVE  LET check == CheckAll(entries, Applicable(r), r)
             undone == Undo(check.log, check.allowed, r)
         IN  /\ now \in Nat
             /\ Applicable(r) \in Seq(Limits)
             /\ check \in Checks
             /\ ToSet(check.allowed) \subseteq Limits
             /\ check.denied # <<>> => Head(check.denied) \in Limits
             /\ undone \in Logs
             /\ \A l \in Limits : CheckSync(undone, l, r).log \in Logs
<1> DEFINE check == CheckAll(entries, Applicable(r), r)
           undone == Undo(check.log, check.allowed, r)
<1>1. now \in Nat /\ entries \in Logs /\ rateLimits \in Seq(Limits)
  BY ClockAssumption DEF Typed, Registered
<1>2. Applicable(r) \in Seq(Limits)
  BY <1>1, ReportedType
<1>3. check \in Checks
  BY <1>1, <1>2, CheckAllType
<1> HIDE DEF check
<1>4. check.log \in Logs /\ check.allowed \in Seq(Limits) /\ check.denied \in Seq(Limits)
  BY <1>3 DEF Checks
<1>5. undone \in Logs
  BY <1>1, <1>4, UndoType
<1> HIDE DEF undone
<1>6. \A l \in Limits : CheckSync(undone, l, r).log \in Logs
  BY <1>1, <1>5, CheckSyncType
<1>7. ToSet(check.allowed) \subseteq Limits /\ (check.denied # <<>> => Head(check.denied) \in Limits)
  BY <1>4, ToSetType
<1> QED
  BY <1>1, <1>2, <1>3, <1>5, <1>6, <1>7 DEF check, undone

LEMMA TypedDequeue ==
  ASSUME Typed, NEW l \in Limits, NEW n \in Nat, Dequeue(l, n)
  PROVE  /\ queues' \in [Limits -> Seq(Requests)]
         /\ \A m \in Limits : Len(queues'[m]) <= LimitOf[m].maxQueueDepth
<1>1. queues \in [Limits -> Seq(Requests)] /\ \A m \in Limits : Len(queues[m]) <= LimitOf[m].maxQueueDepth
  BY DEF Typed
<1> DEFINE s == queues[l]
           t == SubSeq(s, n + 1, Len(s))
<1>2. s \in Seq(Requests)
  BY <1>1
<1> HIDE DEF s
<1>3. t \in Seq(Requests) /\ Len(t) <= Len(s)
  BY <1>2, DequeueType
<1>4. queues' = [queues EXCEPT ![l] = t]
  BY DEF Dequeue, s
<1>5. Len(s) <= LimitOf[l].maxQueueDepth /\ Len(t) \in Int /\ Len(s) \in Int
  BY <1>1, <1>2, <1>3, LenProperties DEF s
<1>6. LimitOf[l].maxQueueDepth \in Int
  BY LimitAssumption DEF RateLimitConfig
<1> HIDE DEF t
<1>7. Len(t) <= LimitOf[l].maxQueueDepth
  BY <1>3, <1>5, <1>6
<1> QED
  BY <1>1, <1>3, <1>4, <1>7

LEMMA TypedLimit ==
  ASSUME Typed, NEW r \in Requests, Limit(r)
  PROVE  /\ entries' \in Logs
         /\ queues' \in [Limits -> Seq(Requests)]
         /\ \A l \in Limits : Len(queues'[l]) <= LimitOf[l].maxQueueDepth
         /\ request' \in [Requests -> RequestState]
         /\ now' = now /\ UNCHANGED registry
<1> DEFINE check == CheckAll(entries, Applicable(r), r)
           undone == Undo(check.log, check.allowed, r)
<1>1. /\ now \in Nat
      /\ check \in Checks
      /\ ToSet(check.allowed) \subseteq Limits
      /\ check.denied # <<>> => Head(check.denied) \in Limits
      /\ \A l \in Limits : CheckSync(undone, l, r).log \in Logs
  BY LimitParts
<1>2. \/ AllAllow(r, check)
      \/ /\ check.denied # <<>>
         /\ LET l == Head(check.denied)
                retry == CheckSync(undone, l, r)
            IN  AllowedAgain(r, l, retry) \/ Queues(r, l, retry) \/ RateLimited(r, l, retry)
  BY DEF Limit
<1> HIDE DEF check, undone
<1>3. /\ queues \in [Limits -> Seq(Requests)]
      /\ \A l \in Limits : Len(queues[l]) <= LimitOf[l].maxQueueDepth
      /\ request \in [Requests -> RequestState]
      /\ rateLimits \in Seq(Limits)
  BY DEF Typed, Registered
<1>4. CASE AllAllow(r, check)
  <2>1. entries' \in Logs
    BY <1>1, <1>4 DEF AllAllow, Checks
  <2>2. request' \in [Requests -> RequestState]
    <3>1. request' = [request EXCEPT ![r] = Admitted(ToSet(check.allowed))]
      BY <1>4 DEF AllAllow
    <3>2. Admitted(ToSet(check.allowed)) \in RequestState
      BY <1>1, VerdictType
    <3> QED
      BY <1>3, <3>1, <3>2, GoesOver
  <2> QED
    BY <1>3, <1>4, <2>1, <2>2 DEF AllAllow
<1>5. ASSUME NEW l \in Limits, AllowedAgain(r, l, CheckSync(undone, l, r))
      PROVE  /\ entries' \in Logs
             /\ queues' \in [Limits -> Seq(Requests)]
             /\ \A m \in Limits : Len(queues'[m]) <= LimitOf[m].maxQueueDepth
             /\ request' \in [Requests -> RequestState]
             /\ now' = now /\ UNCHANGED registry
  <2> DEFINE drain == Drain(CheckSync(undone, l, r).log, l, r)
  <2>1. drain \in Drains
    BY <1>1, <1>3, DrainType
  <2>2. /\ entries' = drain.log
        /\ Dequeue(l, drain.released)
        /\ request' = [q \in Requests |->
                         IF q = r \/ q \in Oldest(l, drain.released) THEN Admitted({l})
                                                                     ELSE request[q]]
        /\ UNCHANGED <<now, registry>>
    BY <1>5 DEF AllowedAgain
  <2> HIDE DEF drain
  <2>3. drain.log \in Logs /\ drain.released \in Nat
    BY <2>1 DEF Drains
  <2>4. Admitted({l}) \in RequestState
    BY <1>1, VerdictType
  <2>5. request' \in [Requests -> RequestState]
    BY <1>3, <2>2, <2>4
  <2> QED
    BY <2>2, <2>3, <2>5, TypedDequeue
<1>6. ASSUME NEW l \in Limits, Queues(r, l, CheckSync(undone, l, r))
      PROVE  /\ entries' \in Logs
             /\ queues' \in [Limits -> Seq(Requests)]
             /\ \A m \in Limits : Len(queues'[m]) <= LimitOf[m].maxQueueDepth
             /\ request' \in [Requests -> RequestState]
             /\ now' = now /\ UNCHANGED registry
  <2>1. /\ ~QueueFull(l)
        /\ entries' = CheckSync(undone, l, r).log
        /\ queues' = [queues EXCEPT ![l] = Append(@, r)]
        /\ request' = [request EXCEPT ![r] = Waiting(l)]
        /\ UNCHANGED <<now, registry>>
    BY <1>6 DEF Queues, Enqueue, Waiting
  <2>2. Waiting(l) \in RequestState
    BY <1>1, VerdictType
  <2>3. /\ Append(queues[l], r) \in Seq(Requests)
        /\ Len(Append(queues[l], r)) = Len(queues[l]) + 1
        /\ Len(queues[l]) \in Nat
    BY <1>3, LenProperties, AppendProperties
  <2>4. LimitOf[l].maxQueueDepth \in Nat
    BY LimitAssumption DEF RateLimitConfig
  <2>5. Len(Append(queues[l], r)) <= LimitOf[l].maxQueueDepth
    BY <2>1, <2>3, <2>4 DEF QueueFull
  <2>6. /\ queues' \in [Limits -> Seq(Requests)]
        /\ \A m \in Limits : Len(queues'[m]) <= LimitOf[m].maxQueueDepth
    BY <1>3, <2>1, <2>3, <2>5
  <2>7. request' \in [Requests -> RequestState]
    BY <1>3, <2>1, <2>2, GoesOver
  <2> QED
    BY <1>1, <2>1, <2>6, <2>7
<1>7. ASSUME NEW l \in Limits, RateLimited(r, l, CheckSync(undone, l, r))
      PROVE  /\ entries' \in Logs
             /\ queues' \in [Limits -> Seq(Requests)]
             /\ \A m \in Limits : Len(queues'[m]) <= LimitOf[m].maxQueueDepth
             /\ request' \in [Requests -> RequestState]
             /\ now' = now /\ UNCHANGED registry
  <2>1. /\ entries' = Reported(CheckSync(undone, l, r).log, r)
        /\ request' = [request EXCEPT ![r] = Refused("RATE_LIMITED")]
        /\ UNCHANGED <<now, queues, registry>>
    BY <1>7 DEF RateLimited
  <2>2. entries' \in Logs
    BY <1>1, <1>3, <2>1, ReportedType
  <2>3. Refused("RATE_LIMITED") \in RequestState
    BY <1>1, VerdictType
  <2>4. request' \in [Requests -> RequestState]
    BY <1>3, <2>1, <2>3, GoesOver
  <2> QED
    BY <1>3, <2>1, <2>2, <2>4
<1> QED
  BY <1>1, <1>2, <1>4, <1>5, <1>6, <1>7

LEMMA TypedTimeout ==
  ASSUME Typed, NEW r \in Requests, QueueTimeout(r)
  PROVE  /\ entries' \in Logs
         /\ queues' \in [Limits -> Seq(Requests)]
         /\ \A l \in Limits : Len(queues'[l]) <= LimitOf[l].maxQueueDepth
         /\ request' \in [Requests -> RequestState]
         /\ now' = now /\ UNCHANGED registry
<1> DEFINE l == request[r].waits
           s == Without(queues[l], r)
<1>1. /\ now \in Nat
      /\ entries \in Logs
      /\ rateLimits \in Seq(Limits)
      /\ queues \in [Limits -> Seq(Requests)]
      /\ \A m \in Limits : Len(queues[m]) <= LimitOf[m].maxQueueDepth
      /\ request \in [Requests -> RequestState]
  BY ClockAssumption DEF Typed, Registered
<1>2. /\ queues' = [queues EXCEPT ![l] = s]
      /\ entries' = Reported(entries, r)
      /\ request' = [request EXCEPT ![r] = Refused("RATE_LIMITED")]
      /\ UNCHANGED <<now, registry>>
  BY DEF QueueTimeout, Expired
<1>3. /\ entries' \in Logs
      /\ request' \in [Requests -> RequestState]
  <2>1. entries' \in Logs
    BY <1>1, <1>2, ReportedType
  <2>2. Refused("RATE_LIMITED") \in RequestState
    BY <1>1, VerdictType
  <2> QED
    BY <1>1, <1>2, <2>1, <2>2, GoesOver
<1>4. ASSUME l \in Limits
      PROVE  s \in Seq(Requests) /\ Len(s) <= LimitOf[l].maxQueueDepth
  <2>1. queues[l] \in Seq(Requests)
    BY <1>1, <1>4
  <2>2. s \in Seq(Requests) /\ Len(s) <= Len(queues[l])
    BY <2>1, OnlyType, OnlyShorter DEF Without
  <2>3. Len(s) \in Nat /\ Len(queues[l]) \in Nat /\ LimitOf[l].maxQueueDepth \in Nat
    BY <1>4, <2>1, <2>2, LenProperties, LimitAssumption DEF RateLimitConfig
  <2>4. Len(queues[l]) <= LimitOf[l].maxQueueDepth
    BY <1>1, <1>4
  <2> HIDE DEF s
  <2> QED
    BY <2>2, <2>3, <2>4
<1> HIDE DEF l, s
<1>5. /\ queues' \in [Limits -> Seq(Requests)]
      /\ \A m \in Limits : Len(queues'[m]) <= LimitOf[m].maxQueueDepth
  <2>1. CASE l \in Limits
    BY <1>1, <1>2, <1>4, <2>1
  <2>2. CASE l \notin Limits
    BY <1>1, <1>2, <2>2
  <2> QED
    BY <2>1, <2>2
<1> QED
  BY <1>2, <1>3, <1>5

LEMMA TypedChange ==
  ASSUME Typed, Change
  PROVE  /\ entries' \in Logs
         /\ queues' \in [Limits -> Seq(Requests)]
         /\ \A l \in Limits : Len(queues'[l]) <= LimitOf[l].maxQueueDepth
         /\ Registered'
         /\ request' \in [Requests -> RequestState]
         /\ now' = now
<1>0. /\ now \in Nat
      /\ entries \in Logs
      /\ queues \in [Limits -> Seq(Requests)]
      /\ \A m \in Limits : Len(queues[m]) <= LimitOf[m].maxQueueDepth
      /\ request \in [Requests -> RequestState]
  BY ClockAssumption DEF Typed
<1>1. rateLimits \in Seq(Limits) /\ rules \in Seq(Rules) /\ guardrails \in Seq(Guardrails)
  BY DEF Typed, Registered
<1>2. ASSUME NEW n \in Rules, AddPolicy(n) \/ RemovePolicy(n)
      PROVE  rules' \in Seq(Rules) /\ UNCHANGED <<limiter, request, rateLimits, guardrails>>
  <2>1. Append(rules, n) \in Seq(Rules) /\ Without(rules, n) \in Seq(Rules)
    BY <1>1, AppendProperties, WithoutType
  <2> QED
    BY <1>2, <2>1 DEF AddPolicy, RemovePolicy
<1>3. ASSUME NEW g \in Guardrails, AddGuardrail(g) \/ RemoveGuardrail(g)
      PROVE  /\ guardrails' \in Seq(Guardrails)
             /\ request' \in [Requests -> RequestState]
             /\ UNCHANGED <<limiter, rateLimits, rules>>
  <2>1. Append(guardrails, g) \in Seq(Guardrails) /\ Without(guardrails, g) \in Seq(Guardrails)
    BY <1>1, AppendProperties, WithoutType
  <2>2. CASE AddGuardrail(g)
    BY <1>0, <2>1, <2>2 DEF AddGuardrail
  <2>3. CASE RemoveGuardrail(g)
    <3>1. \A x \in RequestState : [x EXCEPT !.lasting = @ \ {g}] \in RequestState
      BY DEF RequestState
    <3>2. request' = [r \in Requests |-> [request[r] EXCEPT !.lasting = @ \ {g}]]
      BY <2>3 DEF RemoveGuardrail
    <3>3. request' \in [Requests -> RequestState]
      BY <1>0, <3>1, <3>2
    <3> QED
      BY <2>1, <2>3, <3>3 DEF RemoveGuardrail
  <2> QED
    BY <1>3, <2>2, <2>3
<1>4. ASSUME NEW l \in Limits, AddRateLimit(l)
      PROVE  rateLimits' \in Seq(Limits) /\ UNCHANGED <<limiter, request, rules, guardrails>>
  <2>1. Append(rateLimits, l) \in Seq(Limits)
    BY <1>1, AppendProperties
  <2> QED
    BY <1>4, <2>1 DEF AddRateLimit
<1>5. ASSUME NEW l \in Limits, RemoveRateLimit(l)
      PROVE  /\ entries' \in Logs
             /\ queues' \in [Limits -> Seq(Requests)]
             /\ \A m \in Limits : Len(queues'[m]) <= LimitOf[m].maxQueueDepth
             /\ rateLimits' \in Seq(Limits)
             /\ request' \in [Requests -> RequestState]
             /\ UNCHANGED <<now, rules, guardrails>>
  <2>1. Without(rateLimits, l) \in Seq(Limits)
    BY <1>1, WithoutType
  <2>2. queues[l] \in Seq(Requests) /\ Len(queues[l]) \in Nat
    BY <1>0, LenProperties
  <2>3. ReleaseQueued(entries, l) \in Logs
    BY <1>0, <2>2, ReleaseType
  <2>4. /\ rateLimits' = Without(rateLimits, l)
        /\ entries' = ReleaseQueued(entries, l)
        /\ Dequeue(l, Len(queues[l]))
        /\ request' = [r \in Requests |->
                         IF request[r].stage = "queued" /\ request[r].waits = l
                           THEN [Admitted({l}) EXCEPT !.waits = l] ELSE request[r]]
        /\ UNCHANGED <<now, rules, guardrails>>
    BY <1>5 DEF RemoveRateLimit
  <2>5. [Admitted({l}) EXCEPT !.waits = l] \in RequestState
    BY <1>0, ReleasedType
  <2>6. request' \in [Requests -> RequestState]
    BY <1>0, <2>4, <2>5
  <2> QED
    BY <2>1, <2>2, <2>3, <2>4, <2>6, TypedDequeue
<1>6. ASSUME NEW i, SetAccessPolicy(i) \/ RemoveAccessPolicy(i)
      PROVE  UNCHANGED <<limiter, request, rateLimits, rules, guardrails>>
  BY <1>6 DEF SetAccessPolicy, RemoveAccessPolicy
<1>7. CASE UNCHANGED limiter /\ UNCHANGED request /\ Registered'
  BY <1>0, <1>7 DEF limiter, Logs, Stamps, InOrder, RequestState
<1> QED
  BY <1>0, <1>1, <1>2, <1>3, <1>4, <1>5, <1>6, <1>7 DEF Change, Registered, limiter

LEMMA TypedNext == Typed /\ [Next]_vars => Typed'
<1> SUFFICES ASSUME Typed, [Next]_vars
             PROVE  Typed'
  OBVIOUS
<1>0. /\ now \in 0 .. MaxTime /\ now \in Nat
      /\ entries \in Logs
      /\ queues \in [Limits -> Seq(Requests)]
      /\ \A l \in Limits : Len(queues[l]) <= LimitOf[l].maxQueueDepth
      /\ Registered
      /\ request \in [Requests -> RequestState]
  BY ClockAssumption DEF Typed
<1>1. ASSUME /\ entries' \in Logs
             /\ queues' \in [Limits -> Seq(Requests)]
             /\ \A l \in Limits : Len(queues'[l]) <= LimitOf[l].maxQueueDepth
             /\ Registered'
             /\ request' \in [Requests -> RequestState]
             /\ now' = now
      PROVE  Typed'
  <2>1. Logs' = Logs /\ RequestState' = RequestState
    BY <1>1 DEF Logs, Stamps, RequestState
  <2> HIDE DEF Logs, RequestState
  <2> QED
    BY <1>0, <1>1, <2>1 DEF Typed
<1>2. ASSUME UNCHANGED registry
      PROVE  Registered'
  BY <1>0, <1>2 DEF registry, Registered
<1>3. CASE Change
  BY <1>1, <1>3, TypedChange
<1>4. CASE Clock
  <2>1. now' = now + 1 /\ now' \in 0 .. MaxTime /\ UNCHANGED <<entries, queues, registry, request>>
    BY <1>0, <1>4, ClockAssumption DEF Clock
  <2>2. 0 .. now \subseteq 0 .. now'
    BY <1>0, <2>1
  <2>3. Seq(0 .. now) \subseteq Seq(0 .. now')
    <3> SUFFICES ASSUME NEW s \in Seq(0 .. now)
                 PROVE  s \in Seq(0 .. now')
      OBVIOUS
    <3> DEFINE C == 0 .. now
               D == 0 .. now'
    <3>1. C \subseteq D /\ s \in Seq(C)
      BY <2>2
    <3> HIDE DEF C, D
    <3>2. s \in Seq(D)
      <4>1. Len(s) \in Nat /\ s \in [1 .. Len(s) -> C]
        BY <3>1, LenProperties
      <4>2. s \in [1 .. Len(s) -> D]
        BY <3>1, <4>1
      <4> QED
        BY <4>1, <4>2
    <3> QED
      BY <3>2 DEF D
  <2>4. entries' \in Logs'
    <3>1. Stamps \subseteq Stamps'
      BY <2>3 DEF Stamps, InOrder
    <3>2. Keys' = Keys
      BY DEF Keys, Key
    <3>3. \A k \in Keys : entries[k] \in Stamps'
      BY <1>0, <3>1 DEF Logs
    <3>4. entries \in [Keys -> Stamps']
      BY <1>0, <3>3 DEF Logs
    <3> QED
      BY <2>1, <3>2, <3>4 DEF Logs
  <2>5. request' \in [Requests -> RequestState']
    <3>1. RequestState \subseteq RequestState'
      BY <2>2 DEF RequestState
    <3>2. \A r \in Requests : request[r] \in RequestState'
      BY <1>0, <3>1
    <3> HIDE DEF RequestState
    <3> QED
      BY <1>0, <2>1, <3>2
  <2> HIDE DEF Logs, RequestState
  <2> QED
    BY <1>0, <1>2, <2>1, <2>4, <2>5 DEF Typed
<1>5. ASSUME NEW r \in Requests, Denied(r)
      PROVE  request' \in [Requests -> RequestState] /\ UNCHANGED <<limiter, registry>>
  <2>1. Refused("ACCESS_DENIED") \in RequestState
    BY <1>0, VerdictType
  <2>2. /\ request' = [request EXCEPT ![r] = Refused("ACCESS_DENIED")]
        /\ UNCHANGED <<limiter, registry>>
    BY <1>5 DEF Denied
  <2> QED
    BY <1>0, <2>1, <2>2, GoesOver
<1>6. ASSUME request' \in [Requests -> RequestState], UNCHANGED <<limiter, registry>>
      PROVE  Typed'
  BY <1>0, <1>1, <1>2, <1>6 DEF limiter
<1>7. ASSUME NEW r \in Requests, Ask(r) \/ Proceed(r)
      PROVE  Typed'
  <2>1. CASE Denied(r)
    BY <1>5, <1>6, <2>1
  <2>2. CASE Limit(r)
    BY <1>1, <1>2, <2>2, TypedLimit
  <2>3. CASE QueueTimeout(r)
    BY <1>1, <1>2, <2>3, TypedTimeout
  <2>4. CASE Onward(r)
    BY <1>6, <2>4, TypedOnward
  <2> QED
    BY <1>7, <2>1, <2>2, <2>3, <2>4 DEF Ask, Proceed, Onward
<1>8. CASE UNCHANGED vars
  BY <1>0, <1>6, <1>8 DEF vars
<1> QED
  BY <1>3, <1>4, <1>7, <1>8 DEF Next

LEMMA TypedAlways == Spec => []Typed
BY TypedInit, TypedNext, PTL DEF Spec

(* The type invariant of PolicyProperties *)
THEOREM TypeCorrect == Spec => []TypeOK
<1>1. Typed => TypeOK
  <2> SUFFICES ASSUME Typed
               PROVE  TypeOK
    OBVIOUS
  <2>1. ASSUME NEW k \in Keys, NEW i \in DOMAIN entries[k]
        PROVE  entries[k][i] \in 0 .. now
    <3>1. entries[k] \in Seq(0 .. now)
      BY DEF Typed, Logs, Stamps
    <3> DEFINE D == 0 .. now
    <3> HIDE DEF D
    <3>2. entries[k] \in Seq(D)
      BY <3>1 DEF D
    <3>3. entries[k][i] \in D
      BY <3>2, LenProperties, ElementOfSeq
    <3> QED
      BY <3>3 DEF D
  <2> QED
    BY <2>1 DEF Typed, TypeOK, RequestState
<1> QED
  BY <1>1, TypedAlways, PTL

(* The rules decide as the type PolicyDecision documents it, in every state: *)
(* evaluateRules (policy/rule-engine.ts), whatever rules are registered and *)
(* in whatever order.                                                      *)
THEOREM RulesAlwaysAsDocumented == Spec => []RulesAsDocumented
<1>1. Typed => RulesAsDocumented
  BY DecidedAsDocumented DEF Typed, Registered, RulesAsDocumented
<1> QED
  BY <1>1, TypedAlways, PTL

-------------------------------------------------------------------------------
(* Guardrails *)

(* What lasted since a request's guardrails began has let it through or is   *)
(* still to be asked; before that there is nothing.                        *)
Guards(x) ==
  /\ x.stage \in {"idle", "queued", "admitted"} => x.rest = <<>> /\ x.lasting = {}
  /\ x.stage = "done" => x.rest = <<>>
  /\ x.stage # "refused" => x.lasting \subseteq x.seen \cup ToSet(x.rest)

GuardsKept == \A r \in Requests : Guards(request[r])

(* Before its guardrails a request goes over to states without any. *)
LEMMA FreshSteps ==
  ASSUME Typed, \/ \E r \in Requests : Denied(r) \/ Limit(r) \/ QueueTimeout(r)
                \/ \E l \in Limits : RemoveRateLimit(l)
  PROVE  \A q \in Requests : request'[q] = request[q] \/ Fresh(request'[q])
<1>0. request \in [Requests -> RequestState]
  BY DEF Typed
<1>1. ASSUME NEW r \in Requests, NEW code, request' = [request EXCEPT ![r] = Refused(code)]
      PROVE  \A q \in Requests : request'[q] = request[q] \/ Fresh(request'[q])
  BY <1>0, <1>1, VerdictFresh
<1>2. ASSUME NEW r \in Requests, Limit(r)
      PROVE  \A q \in Requests : request'[q] = request[q] \/ Fresh(request'[q])
  <2>1. \/ \E charged : request' = [request EXCEPT ![r] = Admitted(charged)]
        \/ \E n, l : request' = [q \in Requests |-> IF q = r \/ q \in Oldest(l, n) THEN Admitted({l})
                                                                                 ELSE request[q]]
        \/ \E l : request' = [request EXCEPT ![r] = Waiting(l)]
        \/ \E code : request' = [request EXCEPT ![r] = Refused(code)]
    BY <1>2 DEF Limit, AllAllow, AllowedAgain, Queues, RateLimited, Waiting
  <2>2. ASSUME NEW charged, request' = [request EXCEPT ![r] = Admitted(charged)]
        PROVE  \A q \in Requests : request'[q] = request[q] \/ Fresh(request'[q])
    BY <1>0, <2>2, VerdictFresh
  <2>3. ASSUME NEW n, NEW l,
               request' = [q \in Requests |-> IF q = r \/ q \in Oldest(l, n) THEN Admitted({l})
                                                                            ELSE request[q]]
        PROVE  \A q \in Requests : request'[q] = request[q] \/ Fresh(request'[q])
    BY <2>3, VerdictFresh
  <2>4. ASSUME NEW l, request' = [request EXCEPT ![r] = Waiting(l)]
        PROVE  \A q \in Requests : request'[q] = request[q] \/ Fresh(request'[q])
    BY <1>0, <2>4, VerdictFresh
  <2> QED
    BY <1>1, <2>1, <2>2, <2>3, <2>4
<1>3. ASSUME NEW r \in Requests, Denied(r) \/ QueueTimeout(r)
      PROVE  \A q \in Requests : request'[q] = request[q] \/ Fresh(request'[q])
  BY <1>1, <1>3 DEF Denied, QueueTimeout
<1>4. ASSUME NEW l \in Limits, RemoveRateLimit(l)
      PROVE  \A q \in Requests : request'[q] = request[q] \/ Fresh(request'[q])
  <2>1. now \in Nat
    BY ClockAssumption DEF Typed
  <2>2. Fresh([Admitted({l}) EXCEPT !.waits = l])
    BY <2>1, ReleasedType
  <2> QED
    BY <1>4, <2>2 DEF RemoveRateLimit
<1> QED
  BY <1>2, <1>3, <1>4

LEMMA FreshGuards == \A x : Fresh(x) => Guards(x)
BY DEF Fresh, Guards

LEMMA BeginGuards ==
  ASSUME Typed, GuardsKept, NEW r \in Requests, NEW stage \in {"input", "output"}, Begin(r, stage),
         request[r].rest = <<>>, request[r].stage # "refused"
  PROVE  GuardsKept'
<1> DEFINE list == GuardrailsFor(r, stage)
<1>1. /\ request'[r] = [request[r] EXCEPT !.stage = stage, !.rest = list, !.lasting = @ \cup ToSet(list)]
      /\ \A q \in Requests \ {r} : request'[q] = request[q]
  BY BeginType
<1>2. request[r] \in RequestState
  BY DEF Typed
<1> HIDE DEF list
<1>3. request[r].lasting \subseteq request[r].seen
  BY ToSetEmpty DEF GuardsKept, Guards
<1>4. /\ request'[r].stage = stage
      /\ request'[r].rest = list
      /\ request'[r].lasting = request[r].lasting \cup ToSet(list)
      /\ request'[r].seen = request[r].seen
  BY <1>1, <1>2 DEF RequestState
<1>5. Guards(request'[r])
  BY <1>3, <1>4 DEF Guards
<1>6. \A q \in Requests \ {r} : Guards(request'[q])
  BY <1>1 DEF GuardsKept
<1>7. \A q \in Requests : Guards(request'[q])
  BY <1>5, <1>6
<1> QED
  BY <1>7 DEF GuardsKept

LEMMA OnwardGuards ==
  ASSUME Typed, GuardsKept, NEW r \in Requests, Onward(r)
  PROVE  GuardsKept'
<1>0. request[r] \in RequestState /\ request \in [Requests -> RequestState] /\ Guards(request[r])
  BY DEF Typed, GuardsKept
<1>1. ASSUME NEW next, request' = [request EXCEPT ![r] = next], Guards(next)
      PROVE  GuardsKept'
  BY <1>0, <1>1 DEF GuardsKept
<1>2. ASSUME request[r].rest = <<>>, request[r].stage # "refused", Finish(r)
      PROVE  GuardsKept'
  <2> DEFINE next == [request[r] EXCEPT !.stage = "done"]
  <2>1. request' = [request EXCEPT ![r] = next]
    BY <1>2 DEF Finish
  <2>2. Guards(next)
    BY <1>0, <1>2 DEF Guards, RequestState
  <2> QED
    BY <1>1, <2>1, <2>2
<1>3. CASE PassesRules(r)
  <2>1. request[r].rest = <<>> /\ request[r].stage # "refused"
    BY <1>0, <1>3 DEF PassesRules, Guards
  <2>2. Begin(r, "input") \/ Begin(r, "output") \/ Finish(r)
    BY <1>3 DEF PassesRules
  <2> QED
    BY <1>2, <2>1, <2>2, BeginGuards
<1>4. CASE PhaseDone(r)
  <2>1. request[r].rest = <<>> /\ request[r].stage # "refused"
    BY <1>4 DEF PhaseDone
  <2>2. Begin(r, "output") \/ Finish(r)
    BY <1>4 DEF PhaseDone
  <2> QED
    BY <1>2, <2>1, <2>2, BeginGuards
<1>5. ASSUME NEW code, request' = [request EXCEPT ![r].stage = "refused", ![r].code = code]
      PROVE  GuardsKept'
  <2> DEFINE next == [request[r] EXCEPT !.stage = "refused", !.code = code]
  <2>1. request' = [request EXCEPT ![r] = next]
    BY <1>0, <1>5
  <2>2. Guards(next)
    BY <1>0 DEF Guards, RequestState
  <2> QED
    BY <1>1, <2>1, <2>2
<1>6. ASSUME NEW result, LetsThrough(r, result)
      PROVE  GuardsKept'
  <2> DEFINE rest == request[r].rest
             next == [request[r] EXCEPT !.rest = Tail(rest), !.seen = @ \cup {Head(rest)}]
  <2>1. /\ rest \in Seq(Guardrails)
        /\ rest # <<>>
        /\ request[r].stage \in {"input", "output"}
    BY <1>0, <1>6 DEF LetsThrough, Guarding, RequestState
  <2>2. request' = [request EXCEPT ![r] = next]
    BY <1>0, <1>6 DEF LetsThrough
  <2>3. ToSet(rest) \subseteq {Head(rest)} \cup ToSet(Tail(rest))
    <3>1. /\ Tail(rest) \in Seq(Guardrails)
          /\ Len(rest) \in Nat
          /\ Len(Tail(rest)) = Len(rest) - 1
          /\ Head(rest) = rest[1]
          /\ \A i \in 1 .. Len(rest) - 1 : Tail(rest)[i] = rest[i + 1]
      BY <2>1, HeadTailProperties, LenProperties
    <3>2. ASSUME NEW i \in 1 .. Len(rest)
          PROVE  rest[i] \in {Head(rest)} \cup ToSet(Tail(rest))
      <4>1. i = 1 \/ (i - 1 \in 1 .. Len(rest) - 1 /\ (i - 1) + 1 = i)
        BY <3>1
      <4>2. \A j \in 1 .. Len(rest) - 1 : Tail(rest)[j] \in ToSet(Tail(rest))
        BY <3>1, ToSetType
      <4> HIDE DEF rest
      <4> QED
        BY <3>1, <4>1, <4>2
    <3> QED
      BY <2>1, <3>2, ToSetType
  <2>4. /\ next.stage = request[r].stage
        /\ next.rest = Tail(rest)
        /\ next.lasting = request[r].lasting
        /\ next.seen = request[r].seen \cup {Head(rest)}
    BY <1>0 DEF RequestState
  <2>5. request[r].lasting \subseteq request[r].seen \cup ToSet(rest)
    BY <1>0, <2>1 DEF Guards
  <2> HIDE DEF rest, next
  <2>6. Guards(next)
    BY <2>1, <2>3, <2>4, <2>5 DEF Guards
  <2> QED
    BY <1>1, <2>2, <2>6
<1> QED
  BY <1>3, <1>4, <1>5, <1>6 DEF Onward, DeniedByRule, Blocked

LEMMA GuardsNext == Typed /\ GuardsKept /\ [Next]_vars => GuardsKept'
<1> SUFFICES ASSUME Typed, GuardsKept, [Next]_vars
             PROVE  GuardsKept'
  OBVIOUS
<1>0. request \in [Requests -> RequestState]
  BY DEF Typed
<1>1. ASSUME \A q \in Requests : request'[q] = request[q] \/ Fresh(request'[q])
      PROVE  GuardsKept'
  BY <1>1, FreshGuards DEF GuardsKept
<1>2. ASSUME NEW g \in Guardrails, RemoveGuardrail(g)
      PROVE  GuardsKept'
  <2> SUFFICES ASSUME NEW r \in Requests
               PROVE  Guards(request'[r])
    BY DEF GuardsKept
  <2>1. request'[r] = [request[r] EXCEPT !.lasting = @ \ {g}]
    BY <1>2 DEF RemoveGuardrail
  <2>2. Guards(request[r]) /\ request[r] \in RequestState
    BY <1>0 DEF GuardsKept
  <2> QED
    BY <2>1, <2>2 DEF Guards, RequestState
<1>3. CASE UNCHANGED request
  BY <1>1, <1>3
<1>4. CASE Change
  <2>1. \/ UNCHANGED request
        \/ \E g \in Guardrails : RemoveGuardrail(g)
        \/ \E l \in Limits : RemoveRateLimit(l)
    BY <1>4 DEF Change, AddPolicy, RemovePolicy, AddGuardrail, AddRateLimit, SetAccessPolicy,
                RemoveAccessPolicy
  <2> QED
    BY <1>1, <1>2, <1>3, <2>1, FreshSteps
<1>5. ASSUME NEW r \in Requests, Ask(r) \/ Proceed(r)
      PROVE  GuardsKept'
  BY <1>1, <1>5, FreshSteps, OnwardGuards DEF Ask, Proceed, Onward
<1>6. Clock => UNCHANGED request
  BY DEF Clock
<1> QED
  BY <1>3, <1>4, <1>5, <1>6 DEF Next, vars

(* A request is done only after every guardrail that was registered from the *)
(* start of its guardrails to the end has let it through (runGuardrails,    *)
(* policy/engine.ts), for all guardrails, priorities and changes.          *)
THEOREM AlwaysGuarded == Spec => []Guarded
<1>1. Init => GuardsKept
  BY VerdictFresh, FreshGuards DEF Init, GuardsKept
<1>2. GuardsKept => Guarded
  BY ToSetEmpty DEF GuardsKept, Guards, Guarded
<1> QED
  BY <1>1, <1>2, TypedAlways, GuardsNext, PTL DEF Spec

-------------------------------------------------------------------------------
(* Lists without duplicates *)

Distinct(s) == \A i, j \in 1 .. Len(s) : s[i] = s[j] => i = j

LEMMA DistinctAppend ==
  ASSUME NEW D, NEW s \in Seq(D), NEW x \in D
  PROVE  Distinct(Append(s, x)) <=> Distinct(s) /\ x \notin ToSet(s)
<1> DEFINE t == Append(s, x)
           n == Len(s)
<1>1. /\ n \in Nat
      /\ Len(t) = n + 1
      /\ \A i \in 1 .. n : t[i] = s[i]
      /\ t[n + 1] = x
  BY LenProperties, AppendProperties
<1>2. ToSet(s) = {s[i] : i \in 1 .. n}
  BY LenProperties DEF ToSet
<1>3. /\ Distinct(t) <=> \A i, j \in 1 .. n + 1 : t[i] = t[j] => i = j
      /\ Distinct(s) <=> \A i, j \in 1 .. n : s[i] = s[j] => i = j
  BY <1>1 DEF Distinct
<1> HIDE DEF t, n
<1>4. \A i \in 1 .. n + 1 : i \in 1 .. n \/ i = n + 1
  BY <1>1
<1>5. \A i \in 1 .. n : i \in 1 .. n + 1 /\ i # n + 1
  BY <1>1
<1>6. n + 1 \in 1 .. n + 1
  BY <1>1
<1>7. ASSUME Distinct(t)
      PROVE  Distinct(s) /\ x \notin ToSet(s)
  BY <1>1, <1>2, <1>3, <1>5, <1>6, <1>7
<1>8. ASSUME Distinct(s), x \notin ToSet(s)
      PROVE  Distinct(t)
  <2> SUFFICES ASSUME NEW i \in 1 .. n + 1, NEW j \in 1 .. n + 1, t[i] = t[j]
               PROVE  i = j
    BY <1>3
  <2> QED
    BY <1>1, <1>2, <1>3, <1>4, <1>8
<1> QED
  BY <1>7, <1>8 DEF t

LEMMA DistinctEmpty == Distinct(<<>>)
BY EmptySeq DEF Distinct

LEMMA DistinctOnly ==
  ASSUME NEW D, NEW T
  PROVE  \A s \in Seq(D) : Distinct(s) => Distinct(Only(s, T))
<1> DEFINE Good == {s \in Seq(D) : Distinct(s) => Distinct(Only(s, T))}
<1>1. <<>> \in Good
  BY OnlyEmpty, EmptySeq
<1>2. \A s \in Seq(D) : \A x \in D : s \in Good => Append(s, x) \in Good
  <2> SUFFICES ASSUME NEW s \in Seq(D), NEW x \in D, Distinct(s) => Distinct(Only(s, T)),
                      Distinct(Append(s, x))
               PROVE  Distinct(Only(Append(s, x), T))
    BY AppendProperties
  <2>1. Distinct(s) /\ x \notin ToSet(s)
    BY DistinctAppend
  <2>2. Only(s, T) \in Seq(D) /\ ToSet(Only(s, T)) = ToSet(s) \cap T
    BY OnlyType, OnlySet
  <2>3. Distinct(Append(Only(s, T), x))
    BY <2>1, <2>2, DistinctAppend
  <2> QED
    BY <2>1, <2>3, OnlyAppend
<1>3. \A s \in Seq(D) : s \in Good
  <2> HIDE DEF Good
  <2> QED
    BY <1>1, <1>2, BySequence
<1> QED
  BY <1>3

(* The first n requests of a queue are taken off. *)
LEMMA DistinctDequeue ==
  ASSUME NEW D, NEW s \in Seq(D), Distinct(s), NEW n \in 0 .. Len(s)
  PROVE  /\ Distinct(SubSeq(s, n + 1, Len(s)))
         /\ ToSet(SubSeq(s, n + 1, Len(s))) = ToSet(s) \ {s[i] : i \in 1 .. n}
<1> DEFINE t == SubSeq(s, n + 1, Len(s))
<1>0. Len(s) \in Nat /\ n \in Nat /\ n <= Len(s)
  BY LenProperties
<1>1. /\ t \in Seq(D)
      /\ Len(t) = Len(s) - n
      /\ \A i \in 1 .. Len(s) - n : n + i \in 1 .. Len(s) /\ t[i] = s[n + i]
  BY <1>0, DequeueType
<1> HIDE DEF t
<1>2. Distinct(t)
  <2> SUFFICES ASSUME NEW i \in 1 .. Len(s) - n, NEW j \in 1 .. Len(s) - n, t[i] = t[j]
               PROVE  i = j
    BY <1>1 DEF Distinct
  <2>1. s[n + i] = s[n + j] /\ n + i \in 1 .. Len(s) /\ n + j \in 1 .. Len(s)
    BY <1>1
  <2>2. n + i = n + j
    BY <2>1 DEF Distinct
  <2> QED
    BY <1>0, <2>2
<1>3. ToSet(t) = {s[n + i] : i \in 1 .. Len(s) - n} /\ ToSet(s) = {s[i] : i \in 1 .. Len(s)}
  <2>1. DOMAIN t = 1 .. Len(s) - n /\ DOMAIN s = 1 .. Len(s)
    BY <1>1, LenProperties
  <2> QED
    BY <1>1, <2>1 DEF ToSet
<1>4. \A i \in 1 .. Len(s) : i \in 1 .. n \/ (i - n \in 1 .. Len(s) - n /\ n + (i - n) = i)
  BY <1>0
<1>5. \A i \in 1 .. Len(s) - n : \A j \in 1 .. n : n + i # j /\ j \in 1 .. Len(s)
  BY <1>0
<1>6. ToSet(t) \subseteq ToSet(s) \ {s[i] : i \in 1 .. n}
  <2> SUFFICES ASSUME NEW y \in ToSet(t)
               PROVE  y \in ToSet(s) \ {s[i] : i \in 1 .. n}
    OBVIOUS
  <2>1. PICK i \in 1 .. Len(s) - n : y = s[n + i]
    BY <1>3
  <2>2. n + i \in 1 .. Len(s) /\ \A j \in 1 .. n : j \in 1 .. Len(s) /\ n + i # j
    BY <1>1, <1>5
  <2>3. \A j \in 1 .. n : y # s[j]
    BY <2>1, <2>2 DEF Distinct
  <2>4. y \in ToSet(s)
    BY <1>3, <2>1, <2>2
  <2> QED
    BY <2>3, <2>4
<1>7. ToSet(s) \ {s[i] : i \in 1 .. n} \subseteq ToSet(t)
  <2> SUFFICES ASSUME NEW i \in 1 .. Len(s), i \notin 1 .. n
               PROVE  s[i] \in ToSet(t)
    BY <1>3
  <2> QED
    BY <1>3, <1>4
<1> QED
  BY <1>2, <1>6, <1>7 DEF t

(* Each of its elements is in one place. *)
LEMMA DistinctPlaces ==
  ASSUME NEW D, NEW s \in Seq(D), Distinct(s), NEW x
  PROVE  Cardinality({i \in DOMAIN s : s[i] = x}) = IF x \in ToSet(s) THEN 1 ELSE 0
<1> DEFINE places == {i \in DOMAIN s : s[i] = x}
<1>1. DOMAIN s = 1 .. Len(s)
  BY LenProperties
<1>2. CASE x \in ToSet(s)
  <2>1. PICK i \in 1 .. Len(s) : s[i] = x
    BY <1>1, <1>2 DEF ToSet
  <2>2. places = {i}
    BY <1>1, <2>1 DEF Distinct
  <2> HIDE DEF places
  <2> QED
    BY <1>2, <2>2, FS_Singleton DEF places
<1>3. CASE x \notin ToSet(s)
  <2>1. places = {}
    BY <1>3 DEF ToSet
  <2> HIDE DEF places
  <2> QED
    BY <1>3, <2>1, FS_EmptySet DEF places
<1> QED
  BY <1>2, <1>3

(* The first elements of a list *)
LEMMA PrefixType ==
  ASSUME NEW D, NEW s \in Seq(D), NEW n \in 0 .. Len(s)
  PROVE  /\ SubSeq(s, 1, n) \in Seq(D)
         /\ Len(SubSeq(s, 1, n)) = n
         /\ \A i \in 1 .. n : SubSeq(s, 1, n)[i] = s[i]
         /\ ToSet(SubSeq(s, 1, n)) = {s[i] : i \in 1 .. n}
         /\ Distinct(s) => Distinct(SubSeq(s, 1, n))
<1> DEFINE t == SubSeq(s, 1, n)
<1>0. /\ Len(s) \in Nat /\ n \in Nat /\ n <= Len(s)
      /\ \A i \in 1 .. n : i \in 1 .. Len(s)
      /\ \A i \in 1 .. n : s[i] \in D
  BY LenProperties, ElementOfSeq
<1>1. 1 \in Int /\ n \in Int /\ n - 1 + 1 = n /\ (~(1 <= n) => n = 0) /\ \A i \in 1 .. n : 1 + i - 1 = i
  BY <1>0
<1>2. /\ t \in Seq(D)
      /\ Len(t) = IF 1 <= n THEN n - 1 + 1 ELSE 0
      /\ \A i \in 1 .. n - 1 + 1 : t[i] = s[1 + i - 1]
  BY <1>0, <1>1, SubSeqProperties
<1> HIDE DEF t
<1>3. Len(t) = n /\ \A i \in 1 .. n : t[i] = s[i]
  BY <1>1, <1>2
<1>4. ToSet(t) = {s[i] : i \in 1 .. n}
  <2>1. DOMAIN t = 1 .. n
    BY <1>2, <1>3, LenProperties
  <2> QED
    BY <1>3, <2>1 DEF ToSet
<1>5. Distinct(s) => Distinct(t)
  BY <1>0, <1>3 DEF Distinct
<1> QED
  BY <1>2, <1>3, <1>4, <1>5 DEF t

LEMMA PrefixAppend ==
  ASSUME NEW D, NEW s \in Seq(D), NEW x \in D
  PROVE  /\ \A n \in 0 .. Len(s) : SubSeq(Append(s, x), 1, n) = SubSeq(s, 1, n)
         /\ SubSeq(s, 1, Len(s)) = s
<1> DEFINE t == Append(s, x)
<1>1. /\ Len(s) \in Nat
      /\ t \in Seq(D)
      /\ Len(t) = Len(s) + 1
      /\ \A i \in 1 .. Len(s) : t[i] = s[i]
  BY LenProperties, AppendProperties
<1> HIDE DEF t
<1>2. ASSUME NEW n \in 0 .. Len(s)
      PROVE  SubSeq(t, 1, n) = SubSeq(s, 1, n)
  <2>1. n \in 0 .. Len(t) /\ \A i \in 1 .. n : i \in 1 .. Len(s)
    BY <1>1
  <2>2. /\ SubSeq(t, 1, n) \in Seq(D)
        /\ Len(SubSeq(t, 1, n)) = n
        /\ \A i \in 1 .. n : SubSeq(t, 1, n)[i] = t[i]
    BY <1>1, <2>1, PrefixType
  <2>3. /\ SubSeq(s, 1, n) \in Seq(D)
        /\ Len(SubSeq(s, 1, n)) = n
        /\ \A i \in 1 .. n : SubSeq(s, 1, n)[i] = s[i]
    BY PrefixType
  <2>4. \A i \in 1 .. n : SubSeq(t, 1, n)[i] = SubSeq(s, 1, n)[i]
    BY <1>1, <2>1, <2>2, <2>3
  <2> QED
    BY <2>2, <2>3, <2>4, SeqEqual
<1>3. SubSeq(s, 1, Len(s)) = s
  <2>1. Len(s) \in 0 .. Len(s)
    BY <1>1
  <2>2. /\ SubSeq(s, 1, Len(s)) \in Seq(D)
        /\ Len(SubSeq(s, 1, Len(s))) = Len(s)
        /\ \A i \in 1 .. Len(s) : SubSeq(s, 1, Len(s))[i] = s[i]
    BY <2>1, PrefixType
  <2> QED
    BY <2>2, SeqEqual
<1> QED
  BY <1>2, <1>3 DEF t

-------------------------------------------------------------------------------
(* What the loops do to the log *)

(* The requests that limit l records under k *)
Under(l, k) == {q \in Requests : Key(l, q) = k}

(* drainQueue releases the first of the queue, each is recorded once, and    *)
(* nothing else is recorded.                                               *)
LEMMA DrainEffect ==
  ASSUME now \in Nat, NEW log \in Logs, NEW l \in Limits, NEW r \in Requests,
         NEW k \in Keys, NEW T, Lasting(k, T), now \in T
  PROVE  \A s \in Seq(Requests) :
           LET d == DrainFrom(log, s, l, r)
           IN  /\ d \in Drains
               /\ d.released \in 0 .. Len(s)
               /\ ~d.stopped => d.released = Len(s)
               /\ Count(d.log[k], T) = Count(log[k], T) + Count(SubSeq(s, 1, d.released), Under(l, k))
<1> DEFINE step == Draining(l, r)
           first == [log |-> log, released |-> 0, stopped |-> FALSE]
           Says(d, s) == /\ d.released \in 0 .. Len(s)
                         /\ ~d.stopped => d.released = Len(s)
                         /\ Count(d.log[k], T)
                              = Count(log[k], T) + Count(SubSeq(s, 1, d.released), Under(l, k))
           Good == {s \in Seq(Requests) : Says(Run(step, first, s), s)}
<1>0. /\ Loop(Drains, Requests, step, first)
      /\ \A s \in Seq(Requests) : DrainFrom(log, s, l, r) = Run(step, first, s)
  BY DrainRuns, EmptySeq
<1>1. <<>> \in Good
  <2>1. Run(step, first, <<>>) = first
    BY <1>0, RunEmpty
  <2>2. first.released = 0 /\ first.log = log /\ first.stopped = FALSE
    OBVIOUS
  <2> HIDE DEF first
  <2>3. <<>> \in Seq(Requests) /\ Len(<<>>) = 0 /\ 0 \in 0 .. 0
    BY EmptySeq
  <2>4. Count(SubSeq(<<>>, 1, 0), Under(l, k)) = 0
    <3>1. \A s \in Seq(Requests) : SubSeq(s, 1, Len(s)) = s
      <4>1. r \in Requests
        OBVIOUS
      <4> QED
        BY <4>1, PrefixAppend
    <3>2. SubSeq(<<>>, 1, 0) = <<>>
      BY <2>3, <3>1
    <3> QED
      BY <2>3, <3>2, OnlyEmpty DEF Count
  <2>5. Count(log[k], T) \in Nat
    BY RecordedCount
  <2> HIDE DEF step
  <2> QED
    BY <2>1, <2>2, <2>3, <2>4, <2>5
<1>2. \A s \in Seq(Requests) : \A x \in Requests : s \in Good => Append(s, x) \in Good
  <2> SUFFICES ASSUME NEW s \in Seq(Requests), NEW x \in Requests, Says(Run(step, first, s), s)
               PROVE  Says(Run(step, first, Append(s, x)), Append(s, x))
    BY AppendProperties
  <2> DEFINE d == Run(step, first, s)
             e == Run(step, first, Append(s, x))
  <2>1. d \in Drains
    BY <1>0, RunType
  <2>2. e = step[<<d, x>>]
    BY <1>0, RunAppend
  <2>3. step[<<d, x>>] = Drained(d, x, l, r)
    BY <2>1 DEF Draining
  <2>4. e = Drained(d, x, l, r)
    BY <2>2, <2>3
  <2>5. /\ Len(s) \in Nat
        /\ Len(Append(s, x)) = Len(s) + 1
        /\ Append(s, x) \in Seq(Requests)
    BY LenProperties, AppendProperties
  <2>6. Says(d, s)
    OBVIOUS
  <2> HIDE DEF d, e
  <2>7. d.log \in Logs /\ d.released \in Nat /\ d.released <= Len(s)
    BY <2>1, <2>5, <2>6 DEF Drains
  <2>8. ASSUME d.stopped \/ Full(d.log, l, r)
        PROVE  Says(e, Append(s, x))
    <3>1. e.stopped /\ e.released = d.released /\ e.log = Evicted(d.log, l, r)
      BY <2>1, <2>4, <2>8, DrainedType
    <3>2. Count(e.log[k], T) = Count(d.log[k], T)
      BY <2>7, <3>1, EvictedCount
    <3>3. SubSeq(Append(s, x), 1, d.released) = SubSeq(s, 1, d.released)
      BY <2>6, PrefixAppend
    <3>4. e.released \in 0 .. Len(Append(s, x)) /\ (~e.stopped => e.released = Len(Append(s, x)))
      BY <2>5, <2>7, <3>1
    <3>5. Count(e.log[k], T) = Count(log[k], T) + Count(SubSeq(s, 1, d.released), Under(l, k))
      BY <2>6, <3>2
    <3>6. SubSeq(Append(s, x), 1, e.released) = SubSeq(s, 1, d.released)
      BY <3>1, <3>3
    <3> QED
      BY <3>4, <3>5, <3>6
  <2>9. ASSUME ~(d.stopped \/ Full(d.log, l, r))
        PROVE  Says(e, Append(s, x))
    <3>1. e.stopped = d.stopped /\ e.released = d.released + 1 /\ e.log = Resolve(d.log, l, x)
      BY <2>1, <2>4, <2>9, DrainedType
    <3>2. d.released = Len(s)
      BY <2>6, <2>9
    <3>3. /\ SubSeq(s, 1, d.released) = s
          /\ SubSeq(Append(s, x), 1, e.released) = Append(s, x)
      <4>1. e.released = Len(Append(s, x))
        BY <2>5, <3>1, <3>2
      <4> QED
        BY <2>5, <3>2, <4>1, PrefixAppend
    <3>4. Count(e.log[k], T) = Count(d.log[k], T) + IF k = Key(l, x) THEN 1 ELSE 0
      <4>1. Count(e.log[k], T) = Count(d.log[k], T) + IF k = Key(l, x) /\ now \in T THEN 1 ELSE 0
        BY <2>7, <3>1, ResolveType
      <4> QED
        BY <4>1
    <3>5. /\ Count(s, Under(l, k)) \in Nat
          /\ Count(Append(s, x), Under(l, k)) = Count(s, Under(l, k)) + IF k = Key(l, x) THEN 1 ELSE 0
      <4>1. x \in Under(l, k) <=> k = Key(l, x)
        BY DEF Under
      <4> QED
        BY <4>1, CountAppend
    <3>6. Count(log[k], T) \in Nat
      BY RecordedCount
    <3>7. Count(d.log[k], T) = Count(log[k], T) + Count(s, Under(l, k))
      BY <2>6, <3>3
    <3>8. Count(e.log[k], T) = Count(log[k], T) + Count(Append(s, x), Under(l, k))
      BY <3>4, <3>5, <3>6, <3>7
    <3>9. e.released \in 0 .. Len(Append(s, x)) /\ e.released = Len(Append(s, x))
      BY <2>5, <3>1, <3>2
    <3> QED
      BY <3>3, <3>8, <3>9
  <2>10. Says(e, Append(s, x))
    BY <2>8, <2>9
  <2> QED
    BY <2>10 DEF e
<1>3. \A s \in Seq(Requests) : s \in Good
  <2> HIDE DEF Good
  <2> QED
    BY <1>1, <1>2, BySequence
<1>4. \A s \in Seq(Requests) : Run(step, first, s) \in Drains
  BY <1>0, RunType
<1> HIDE DEF step, first
<1> QED
  BY <1>0, <1>3, <1>4

LEMMA ReleaseEffect ==
  ASSUME now \in Nat, NEW log \in Logs, NEW l \in Limits,
         NEW k \in Keys, NEW T, Lasting(k, T), now \in T
  PROVE  \A s \in Seq(Requests) :
           /\ ReleaseFrom(log, s, l) \in Logs
           /\ Count(ReleaseFrom(log, s, l)[k], T) = Count(log[k], T) + Count(s, Under(l, k))
<1> DEFINE step == Resolving(l)
           Good == {s \in Seq(Requests) :
                      Count(Run(step, log, s)[k], T) = Count(log[k], T) + Count(s, Under(l, k))}
<1>0. /\ Loop(Logs, Requests, step, log)
      /\ \A s \in Seq(Requests) : ReleaseFrom(log, s, l) = Run(step, log, s)
  BY ReleaseRuns, EmptySeq
<1>1. <<>> \in Good
  <2>1. Run(step, log, <<>>) = log
    BY <1>0, RunEmpty
  <2>2. <<>> \in Seq(Requests) /\ Count(<<>>, Under(l, k)) = 0
    BY OnlyEmpty, EmptySeq DEF Count
  <2>3. Count(log[k], T) \in Nat
    <3>1. log[k] \in Seq(0 .. now)
      BY DEF Logs, Stamps
    <3> DEFINE D == 0 .. now
    <3> HIDE DEF D
    <3>2. Only(log[k], T) \in Seq(D)
      BY <3>1, OnlyType DEF D
    <3> QED
      BY <3>2, LenProperties DEF Count
  <2> HIDE DEF step
  <2> QED
    BY <2>1, <2>2, <2>3
<1>2. \A s \in Seq(Requests) : \A x \in Requests : s \in Good => Append(s, x) \in Good
  <2> SUFFICES ASSUME NEW s \in Seq(Requests), NEW x \in Requests,
                      Count(Run(step, log, s)[k], T) = Count(log[k], T) + Count(s, Under(l, k))
               PROVE  Count(Run(step, log, Append(s, x))[k], T)
                        = Count(log[k], T) + Count(Append(s, x), Under(l, k))
    BY AppendProperties
  <2> DEFINE d == Run(step, log, s)
             e == Run(step, log, Append(s, x))
  <2>1. d \in Logs
    BY <1>0, RunType
  <2>2. e = step[<<d, x>>]
    BY <1>0, RunAppend
  <2>3. step[<<d, x>>] = Resolve(d, l, x)
    BY <2>1 DEF Resolving
  <2>4. e = Resolve(d, l, x) /\ Count(d[k], T) = Count(log[k], T) + Count(s, Under(l, k))
    BY <2>2, <2>3
  <2> HIDE DEF d, e
  <2>5. Count(e[k], T) = Count(d[k], T) + IF k = Key(l, x) THEN 1 ELSE 0
    <3>1. Count(e[k], T) = Count(d[k], T) + IF k = Key(l, x) /\ now \in T THEN 1 ELSE 0
      BY <2>1, <2>4, ResolveType
    <3> QED
      BY <3>1
  <2>6. /\ Count(s, Under(l, k)) \in Nat
        /\ Count(Append(s, x), Under(l, k)) = Count(s, Under(l, k)) + IF k = Key(l, x) THEN 1 ELSE 0
    <3>1. x \in Under(l, k) <=> k = Key(l, x)
      BY DEF Under
    <3> QED
      BY <3>1, CountAppend
  <2>7. Count(log[k], T) \in Nat
    BY RecordedCount
  <2>8. Count(e[k], T) = Count(log[k], T) + Count(Append(s, x), Under(l, k))
    BY <2>4, <2>5, <2>6, <2>7
  <2> QED
    BY <2>8 DEF e
<1>3. \A s \in Seq(Requests) : s \in Good
  <2> HIDE DEF Good
  <2> QED
    BY <1>1, <1>2, BySequence
<1>4. \A s \in Seq(Requests) : Run(step, log, s) \in Logs
  BY <1>0, RunType
<1> HIDE DEF step
<1> QED
  BY <1>0, <1>3, <1>4

-------------------------------------------------------------------------------
(* Queues *)

Waits(x, l) == x.stage = "queued" /\ x.waits = l

(* A queue holds whoever waits for its limit, and holds him once. *)
InQueues ==
  \A l \in Limits : /\ Distinct(queues[l])
                    /\ \A q \in Requests : q \in ToSet(queues[l]) <=> Waits(request[q], l)

(* Past its limits a request changes nothing its admission has set. *)
LEMMA OnwardKeeps ==
  ASSUME Typed, NEW r \in Requests, Onward(r)
  PROVE  /\ request[r].stage \in {"admitted", "input", "output"}
         /\ request'[r].stage \in {"input", "output", "done", "refused"}
         /\ request'[r].at = request[r].at
         /\ request'[r].charged = request[r].charged
         /\ request'[r].waits = request[r].waits
         /\ \A q \in Requests : q # r => request'[q] = request[q]
<1> DEFINE Kept == /\ request'[r].stage \in {"input", "output", "done", "refused"}
                   /\ request'[r].at = request[r].at
                   /\ request'[r].charged = request[r].charged
                   /\ request'[r].waits = request[r].waits
                   /\ \A q \in Requests : q # r => request'[q] = request[q]
<1>0. request[r] \in RequestState /\ request \in [Requests -> RequestState]
  BY DEF Typed
<1>1. ASSUME NEW next, request' = [request EXCEPT ![r] = next],
             next.stage \in {"input", "output", "done", "refused"},
             next.at = request[r].at, next.charged = request[r].charged, next.waits = request[r].waits
      PROVE  Kept
  BY <1>0, <1>1
<1>2. ASSUME NEW stage \in {"input", "output"}, Begin(r, stage)
      PROVE  Kept
  <2> DEFINE list == GuardrailsFor(r, stage)
             next == [request[r] EXCEPT !.stage = stage, !.rest = list, !.lasting = @ \cup ToSet(list)]
  <2>1. request' = [request EXCEPT ![r] = next]
    BY <1>0, <1>2 DEF Begin, RequestState
  <2> HIDE DEF list
  <2>2. /\ next.stage = stage
        /\ next.at = request[r].at
        /\ next.charged = request[r].charged
        /\ next.waits = request[r].waits
    BY <1>0 DEF RequestState
  <2> HIDE DEF next, Kept
  <2> QED
    BY <1>1, <2>1, <2>2
<1>3. ASSUME Finish(r)
      PROVE  Kept
  <2> DEFINE next == [request[r] EXCEPT !.stage = "done"]
  <2>1. request' = [request EXCEPT ![r] = next]
    BY <1>3 DEF Finish
  <2>2. /\ next.stage = "done"
        /\ next.at = request[r].at
        /\ next.charged = request[r].charged
        /\ next.waits = request[r].waits
    BY <1>0 DEF RequestState
  <2> HIDE DEF next, Kept
  <2> QED
    BY <1>1, <2>1, <2>2
<1>4. ASSUME NEW code, request' = [request EXCEPT ![r].stage = "refused", ![r].code = code]
      PROVE  Kept
  <2> DEFINE next == [request[r] EXCEPT !.stage = "refused", !.code = code]
  <2>1. request' = [request EXCEPT ![r] = next]
    BY <1>0, <1>4
  <2>2. /\ next.stage = "refused"
        /\ next.at = request[r].at
        /\ next.charged = request[r].charged
        /\ next.waits = request[r].waits
    BY <1>0 DEF RequestState
  <2> HIDE DEF next, Kept
  <2> QED
    BY <1>1, <2>1, <2>2
<1>5. ASSUME NEW result, LetsThrough(r, result)
      PROVE  Kept
  <2> DEFINE next == [request[r] EXCEPT !.rest = Tail(@), !.seen = @ \cup {Head(request[r].rest)}]
  <2>1. request' = [request EXCEPT ![r] = next]
    BY <1>0, <1>5 DEF LetsThrough
  <2>2. request[r].stage \in {"input", "output"}
    BY <1>5 DEF LetsThrough, Guarding
  <2>3. /\ next.stage = request[r].stage
        /\ next.at = request[r].at
        /\ next.charged = request[r].charged
        /\ next.waits = request[r].waits
    BY <1>0 DEF RequestState
  <2> HIDE DEF next, Kept
  <2> QED
    BY <1>1, <2>1, <2>2, <2>3
<1> HIDE DEF Kept
<1>6. Kept
  BY <1>2, <1>3, <1>4, <1>5
  DEF Onward, PassesRules, DeniedByRule, PhaseDone, Blocked
<1>7. request[r].stage \in {"admitted", "input", "output"}
  BY DEF Onward, PassesRules, DeniedByRule, PhaseDone, LetsThrough, Blocked, Guarding
<1> QED
  BY <1>6, <1>7 DEF Kept

LEMMA QueuesKept ==
  ASSUME InQueues, queues' = queues,
         \A q \in Requests, l \in Limits : Waits(request'[q], l) <=> Waits(request[q], l)
  PROVE  InQueues'
BY DEF InQueues, Waits

(* The queue is left by the first, by those who are no longer to wait. *)
LEMMA QueueLeft ==
  ASSUME Typed, InQueues, NEW l \in Limits, NEW n \in 0 .. Len(queues[l]), Dequeue(l, n),
         \A q \in Requests : q \in Oldest(l, n) => request'[q].stage # "queued",
         \A q \in Requests, m \in Limits :
           q \notin Oldest(l, n) => (Waits(request'[q], m) <=> Waits(request[q], m))
  PROVE  InQueues'
<1> DEFINE t == SubSeq(queues[l], n + 1, Len(queues[l]))
<1>1. queues \in [Limits -> Seq(Requests)] /\ queues[l] \in Seq(Requests) /\ Distinct(queues[l])
  BY DEF Typed, InQueues
<1>2. Distinct(t) /\ ToSet(t) = ToSet(queues[l]) \ Oldest(l, n)
  BY <1>1, DistinctDequeue DEF Oldest
<1>3. queues' = [queues EXCEPT ![l] = t]
  BY DEF Dequeue
<1> HIDE DEF t
<1>4. Oldest(l, n) \subseteq ToSet(queues[l])
  <2>1. Len(queues[l]) \in Nat /\ n \in Nat /\ n <= Len(queues[l])
    BY <1>1, LenProperties
  <2>2. \A i \in 1 .. n : i \in 1 .. Len(queues[l])
    BY <2>1
  <2> QED
    BY <1>1, <2>2, ToSetType DEF Oldest
<1>5. ASSUME NEW m \in Limits, m # l
      PROVE  /\ Distinct(queues'[m])
             /\ \A q \in Requests : q \in ToSet(queues'[m]) <=> Waits(request'[q], m)
  <2>1. queues'[m] = queues[m]
    BY <1>1, <1>3, <1>5
  <2>2. ASSUME NEW q \in Requests, q \in Oldest(l, n)
        PROVE  ~Waits(request[q], m) /\ ~Waits(request'[q], m)
    <3>1. Waits(request[q], l)
      BY <1>4, <2>2 DEF InQueues
    <3> QED
      BY <1>5, <2>2, <3>1 DEF Waits
  <2> QED
    BY <2>1, <2>2 DEF InQueues
<1>6. /\ Distinct(queues'[l])
      /\ \A q \in Requests : q \in ToSet(queues'[l]) <=> Waits(request'[q], l)
  <2>1. queues'[l] = t
    BY <1>1, <1>3
  <2>2. \A q \in Requests : q \in ToSet(queues[l]) <=> Waits(request[q], l)
    BY DEF InQueues
  <2>3. \A q \in Requests : q \in Oldest(l, n) => ~Waits(request'[q], l)
    BY DEF Waits
  <2> QED
    BY <1>2, <2>1, <2>2, <2>3
<1> QED
  BY <1>5, <1>6 DEF InQueues

LEMMA LimitQueues ==
  ASSUME Typed, InQueues, NEW r \in Requests, Limit(r)
  PROVE  InQueues'
<1> DEFINE check == CheckAll(entries, Applicable(r), r)
           undone == Undo(check.log, check.allowed, r)
<1>1. /\ now \in Nat
      /\ check \in Checks
      /\ ToSet(check.allowed) \subseteq Limits
      /\ check.denied # <<>> => Head(check.denied) \in Limits
      /\ \A l \in Limits : CheckSync(undone, l, r).log \in Logs
  BY LimitParts
<1>2. /\ request[r].stage = "idle"
      /\ \/ AllAllow(r, check)
         \/ /\ check.denied # <<>>
            /\ LET l == Head(check.denied)
                   retry == CheckSync(undone, l, r)
               IN  AllowedAgain(r, l, retry) \/ Queues(r, l, retry) \/ RateLimited(r, l, retry)
  BY DEF Limit
<1> HIDE DEF check, undone
<1>3. request \in [Requests -> RequestState] /\ queues \in [Limits -> Seq(Requests)]
  BY DEF Typed
<1>4. \A m : ~Waits(request[r], m)
  BY <1>2 DEF Waits
<1>5. ASSUME NEW next, next.stage # "queued", request' = [request EXCEPT ![r] = next], queues' = queues
      PROVE  InQueues'
  <2>1. \A q \in Requests, m \in Limits : Waits(request'[q], m) <=> Waits(request[q], m)
    BY <1>3, <1>4, <1>5 DEF Waits
  <2> QED
    BY <1>5, <2>1, QueuesKept
<1>6. CASE AllAllow(r, check)
  <2>1. Admitted(ToSet(check.allowed)).stage # "queued"
    BY <1>1, VerdictType
  <2> QED
    BY <1>5, <1>6, <2>1 DEF AllAllow
<1>7. ASSUME NEW l \in Limits, AllowedAgain(r, l, CheckSync(undone, l, r))
      PROVE  InQueues'
  <2> DEFINE drain == Drain(CheckSync(undone, l, r).log, l, r)
             n == drain.released
  <2>1. n \in 0 .. Len(queues[l])
    <3> DEFINE log == CheckSync(undone, l, r).log
    <3>1. log \in Logs /\ queues[l] \in Seq(Requests) /\ now \in {now}
      BY <1>1, <1>3
    <3> HIDE DEF log
    <3>2. Key(l, r) \in Keys /\ Lasting(Key(l, r), {now})
      BY <1>1, KeyType, NowLasts
    <3>3. DrainFrom(log, queues[l], l, r).released \in 0 .. Len(queues[l])
      BY <1>1, <3>1, <3>2, DrainEffect
    <3> QED
      BY <3>3, OverQueues DEF log
  <2>2. /\ Dequeue(l, n)
        /\ request' = [q \in Requests |-> IF q = r \/ q \in Oldest(l, n) THEN Admitted({l})
                                                                         ELSE request[q]]
    BY <1>7 DEF AllowedAgain
  <2> HIDE DEF n
  <2>3. Admitted({l}).stage # "queued"
    BY <1>1, VerdictType
  <2>4. \A q \in Requests : q \in Oldest(l, n) => request'[q].stage # "queued"
    BY <2>2, <2>3
  <2>5. \A q \in Requests, m \in Limits :
          q \notin Oldest(l, n) => (Waits(request'[q], m) <=> Waits(request[q], m))
    BY <1>4, <2>2, <2>3 DEF Waits
  <2> QED
    BY <2>1, <2>2, <2>4, <2>5, QueueLeft
<1>8. ASSUME NEW l \in Limits, Queues(r, l, CheckSync(undone, l, r))
      PROVE  InQueues'
  <2>1. /\ queues' = [queues EXCEPT ![l] = Append(@, r)]
        /\ request' = [request EXCEPT ![r] = Waiting(l)]
    BY <1>8 DEF Queues, Enqueue, Waiting
  <2>2. Waiting(l).stage = "queued" /\ Waiting(l).waits = l
    BY <1>1, VerdictType
  <2>3. /\ Distinct(Append(queues[l], r))
        /\ ToSet(Append(queues[l], r)) = ToSet(queues[l]) \cup {r}
    <3>1. queues[l] \in Seq(Requests) /\ Distinct(queues[l]) /\ r \notin ToSet(queues[l])
      BY <1>3, <1>4 DEF InQueues
    <3> QED
      BY <3>1, DistinctAppend, ToSetAppend
  <2> SUFFICES ASSUME NEW m \in Limits
               PROVE  /\ Distinct(queues'[m])
                      /\ \A q \in Requests : q \in ToSet(queues'[m]) <=> Waits(request'[q], m)
    BY DEF InQueues
  <2>4. \A q \in Requests : q # r => (Waits(request'[q], m) <=> Waits(request[q], m))
    BY <1>3, <2>1 DEF Waits
  <2>5. Waits(request'[r], m) <=> m = l
    BY <1>3, <2>1, <2>2 DEF Waits
  <2>6. CASE m = l
    <3>1. queues'[m] = Append(queues[l], r)
      BY <1>3, <2>1, <2>6
    <3> QED
      BY <2>3, <2>4, <2>5, <2>6, <3>1 DEF InQueues
  <2>7. CASE m # l
    <3>1. queues'[m] = queues[m]
      BY <1>3, <2>1, <2>7
    <3> QED
      BY <1>4, <2>4, <2>5, <2>7, <3>1 DEF InQueues
  <2> QED
    BY <2>6, <2>7
<1>9. ASSUME NEW l \in Limits, RateLimited(r, l, CheckSync(undone, l, r))
      PROVE  InQueues'
  <2>1. Refused("RATE_LIMITED").stage # "queued"
    BY <1>1, VerdictType
  <2> QED
    BY <1>5, <1>9, <2>1 DEF RateLimited
<1> QED
  BY <1>1, <1>2, <1>6, <1>7, <1>8, <1>9

LEMMA TimeoutQueues ==
  ASSUME Typed, InQueues, NEW r \in Requests, QueueTimeout(r)
  PROVE  InQueues'
<1> DEFINE l == request[r].waits
           s == Without(queues[l], r)
<1>1. request \in [Requests -> RequestState] /\ queues \in [Limits -> Seq(Requests)] /\ now \in Nat
  BY ClockAssumption DEF Typed
<1>2. /\ request[r].stage = "queued"
      /\ queues' = [queues EXCEPT ![l] = s]
      /\ request' = [request EXCEPT ![r] = Refused("RATE_LIMITED")]
  BY DEF QueueTimeout, Expired
<1>3. Refused("RATE_LIMITED").stage # "queued"
  BY <1>1, VerdictType
<1>4. ASSUME l \in Limits
      PROVE  Distinct(s) /\ ToSet(s) = ToSet(queues[l]) \ {r}
  <2>1. queues[l] \in Seq(Requests) /\ Distinct(queues[l])
    BY <1>1, <1>4 DEF InQueues
  <2> QED
    BY <2>1, DistinctOnly, WithoutType DEF Without
<1>5. \A m \in Limits : Waits(request[r], m) <=> m = l
  BY <1>2 DEF Waits
<1> HIDE DEF s, l
<1> SUFFICES ASSUME NEW m \in Limits
             PROVE  /\ Distinct(queues'[m])
                    /\ \A q \in Requests : q \in ToSet(queues'[m]) <=> Waits(request'[q], m)
  BY DEF InQueues
<1>6. /\ \A q \in Requests : q # r => (Waits(request'[q], m) <=> Waits(request[q], m))
      /\ ~Waits(request'[r], m)
  BY <1>1, <1>2, <1>3 DEF Waits
<1>7. CASE m = l
  <2>1. queues'[m] = s
    BY <1>1, <1>2, <1>7
  <2> QED
    BY <1>4, <1>6, <1>7, <2>1 DEF InQueues
<1>8. CASE m # l
  <2>1. queues'[m] = queues[m]
    BY <1>1, <1>2, <1>8
  <2> QED
    BY <1>5, <1>6, <1>8, <2>1 DEF InQueues
<1> QED
  BY <1>7, <1>8

LEMMA QueuesNext == Typed /\ InQueues /\ [Next]_vars => InQueues'
<1> SUFFICES ASSUME Typed, InQueues, [Next]_vars
             PROVE  InQueues'
  OBVIOUS
<1>0. /\ request \in [Requests -> RequestState]
      /\ queues \in [Limits -> Seq(Requests)]
      /\ now \in Nat
  BY ClockAssumption DEF Typed
<1>1. CASE UNCHANGED <<queues, request>>
  BY <1>1 DEF InQueues
<1>2. ASSUME NEW r \in Requests, Denied(r)
      PROVE  InQueues'
  <2>1. /\ request[r].stage = "idle"
        /\ request' = [request EXCEPT ![r] = Refused("ACCESS_DENIED")]
        /\ queues' = queues
    BY <1>2 DEF Denied, limiter
  <2>2. Refused("ACCESS_DENIED").stage = "refused"
    BY <1>0, VerdictType
  <2>3. \A q \in Requests, m \in Limits : Waits(request'[q], m) <=> Waits(request[q], m)
    BY <1>0, <2>1, <2>2 DEF Waits
  <2> QED
    BY <2>1, <2>3, QueuesKept
<1>3. ASSUME NEW r \in Requests, Onward(r)
      PROVE  InQueues'
  <2>1. queues' = queues
    BY <1>3, TypedOnward DEF limiter
  <2>2. \A q \in Requests, m \in Limits : Waits(request'[q], m) <=> Waits(request[q], m)
    BY <1>3, OnwardKeeps DEF Waits
  <2> QED
    BY <2>1, <2>2, QueuesKept
<1>4. ASSUME NEW g \in Guardrails, RemoveGuardrail(g)
      PROVE  InQueues'
  <2>1. queues' = queues /\ request' = [r \in Requests |-> [request[r] EXCEPT !.lasting = @ \ {g}]]
    BY <1>4 DEF RemoveGuardrail, limiter
  <2>2. ASSUME NEW q \in Requests, NEW m \in Limits
        PROVE  Waits(request'[q], m) <=> Waits(request[q], m)
    <3>1. request[q] \in RequestState
      BY <1>0
    <3> QED
      BY <2>1, <3>1 DEF Waits, RequestState
  <2> QED
    BY <2>1, <2>2, QueuesKept
<1>5. ASSUME NEW l \in Limits, RemoveRateLimit(l)
      PROVE  InQueues'
  <2> DEFINE n == Len(queues[l])
  <2>1. queues[l] \in Seq(Requests) /\ n \in 0 .. Len(queues[l])
    BY <1>0, LenProperties
  <2>2. /\ Dequeue(l, n)
        /\ request' = [r \in Requests |->
                         IF request[r].stage = "queued" /\ request[r].waits = l
                           THEN [Admitted({l}) EXCEPT !.waits = l] ELSE request[r]]
    BY <1>5 DEF RemoveRateLimit
  <2>3. [Admitted({l}) EXCEPT !.waits = l].stage = "admitted"
    BY <1>0, ReleasedType
  <2>4. Oldest(l, n) = ToSet(queues[l])
    <3>1. DOMAIN queues[l] = 1 .. n
      BY <2>1, LenProperties
    <3> QED
      BY <3>1 DEF Oldest, ToSet
  <2> HIDE DEF n
  <2>5. \A q \in Requests : q \in Oldest(l, n) <=> Waits(request[q], l)
    BY <2>4 DEF InQueues
  <2>6. \A q \in Requests : q \in Oldest(l, n) => request'[q].stage # "queued"
    BY <2>2, <2>3, <2>5 DEF Waits
  <2>7. \A q \in Requests, m \in Limits :
          q \notin Oldest(l, n) => (Waits(request'[q], m) <=> Waits(request[q], m))
    BY <2>2, <2>5 DEF Waits
  <2> QED
    BY <2>1, <2>2, <2>6, <2>7, QueueLeft
<1>6. CASE Change
  <2>1. \/ UNCHANGED <<queues, request>>
        \/ \E g \in Guardrails : RemoveGuardrail(g)
        \/ \E l \in Limits : RemoveRateLimit(l)
    BY <1>6 DEF Change, AddPolicy, RemovePolicy, AddGuardrail, AddRateLimit, SetAccessPolicy,
                RemoveAccessPolicy, limiter
  <2> QED
    BY <1>1, <1>4, <1>5, <2>1
<1>7. ASSUME NEW r \in Requests, Ask(r) \/ Proceed(r)
      PROVE  InQueues'
  BY <1>2, <1>3, <1>7, LimitQueues, TimeoutQueues DEF Ask, Proceed, Onward
<1>8. Clock => UNCHANGED <<queues, request>>
  BY DEF Clock
<1> QED
  BY <1>1, <1>6, <1>7, <1>8 DEF Next, vars, limiter

LEMMA QueuesAlways == Spec => []InQueues
<1>1. Init => InQueues
  <2> SUFFICES ASSUME Init
               PROVE  InQueues
    OBVIOUS
  <2>1. \A l \in Limits : queues[l] = <<>>
    BY DEF Init, InitLimiter
  <2>2. \A q \in Requests : \A l : ~Waits(request[q], l)
    BY VerdictFresh DEF Init, Waits
  <2> QED
    BY <2>1, <2>2, DistinctEmpty, ToSetEmpty DEF InQueues
<1> QED
  BY <1>1, TypedAlways, QueuesNext, PTL DEF Spec

(* A request that waits is in one queue, once, where its timer, the drain    *)
(* and the removal of its limit find it (enqueue, drainQueue, releaseQueued, *)
(* policy/rate-limiter.ts), for any limits and any number of requests.     *)
THEOREM AlwaysQueuedOnce == Spec => []QueuedOnce
<1>1. Typed /\ InQueues => QueuedOnce
  <2> SUFFICES ASSUME Typed, InQueues, NEW r \in Requests, NEW l \in Limits
               PROVE  Cardinality({i \in DOMAIN queues[l] : queues[l][i] = r})
                        = IF request[r].stage = "queued" /\ request[r].waits = l THEN 1 ELSE 0
    BY DEF QueuedOnce
  <2>1. queues[l] \in Seq(Requests) /\ Distinct(queues[l])
    BY DEF Typed, InQueues
  <2>2. Cardinality({i \in DOMAIN queues[l] : queues[l][i] = r}) = IF r \in ToSet(queues[l]) THEN 1 ELSE 0
    BY <2>1, DistinctPlaces
  <2>3. r \in ToSet(queues[l]) <=> request[r].stage = "queued" /\ request[r].waits = l
    BY DEF InQueues, Waits
  <2> QED
    BY <2>2, <2>3
<1> QED
  BY <1>1, TypedAlways, QueuesAlways, PTL

-------------------------------------------------------------------------------
(* Checks and their undoing *)

(* The limits that record request r under k *)
At(k, r) == {l \in Limits : Key(l, r) = k}

LEMMA CountNat ==
  ASSUME now \in Nat, NEW log \in Logs, NEW k \in Keys, NEW T
  PROVE  /\ Count(log[k], T) \in Nat
         /\ Count(log[k], {now}) > 0 => now \in ToSet(log[k])
<1> DEFINE D == 0 .. now
<1>1. log[k] \in Seq(D)
  BY DEF Logs, Stamps
<1> HIDE DEF D
<1>2. \A U : Only(log[k], U) \in Seq(D) /\ ToSet(Only(log[k], U)) = ToSet(log[k]) \cap U
  BY <1>1, OnlyType, OnlySet
<1>3. \A U : Count(log[k], U) \in Nat
  BY <1>2, LenProperties DEF Count
<1>4. ASSUME Count(log[k], {now}) > 0
      PROVE  now \in ToSet(log[k])
  <2> DEFINE s == Only(log[k], {now})
  <2>1. s \in Seq(D) /\ ToSet(s) = ToSet(log[k]) \cap {now} /\ Len(s) > 0 /\ Len(s) \in Nat
    BY <1>2, <1>3, <1>4 DEF Count
  <2> HIDE DEF s
  <2>2. 1 \in 1 .. Len(s)
    BY <2>1
  <2>3. s[1] \in ToSet(s)
    BY <2>1, <2>2, ToSetType
  <2> QED
    BY <2>1, <2>3
<1> QED
  BY <1>3, <1>4

(* checkMultiple records a request once for every limit that allows it, *)
LEMMA CheckAllEffect ==
  ASSUME now \in Nat, NEW log \in Logs, NEW r \in Requests,
         NEW k \in Keys, NEW T, Lasting(k, T), now \in T
  PROVE  \A s \in Seq(Limits) :
           LET c == CheckAll(log, s, r)
           IN  /\ c \in Checks
               /\ Count(c.log[k], T) = Count(log[k], T) + Count(c.allowed, At(k, r))
<1> DEFINE step == Checking(r)
           first == [log |-> log, allowed |-> <<>>, denied |-> <<>>]
           Says(c) == Count(c.log[k], T) = Count(log[k], T) + Count(c.allowed, At(k, r))
           Good == {s \in Seq(Limits) : Says(Run(step, first, s))}
<1>0. /\ Loop(Checks, Limits, step, first)
      /\ \A s \in Seq(Limits) : CheckAll(log, s, r) = Run(step, first, s)
  BY CheckAllRuns, EmptySeq
<1>1. <<>> \in Good
  <2>1. Run(step, first, <<>>) = first
    BY <1>0, RunEmpty
  <2>2. first.log = log /\ first.allowed = <<>>
    OBVIOUS
  <2> HIDE DEF first
  <2>3. <<>> \in Seq(Limits) /\ Count(<<>>, At(k, r)) = 0
    BY OnlyEmpty, EmptySeq DEF Count
  <2>4. Count(log[k], T) \in Nat
    BY CountNat
  <2> HIDE DEF step
  <2> QED
    BY <2>1, <2>2, <2>3, <2>4
<1>2. \A s \in Seq(Limits) : \A x \in Limits : s \in Good => Append(s, x) \in Good
  <2> SUFFICES ASSUME NEW s \in Seq(Limits), NEW x \in Limits, Says(Run(step, first, s))
               PROVE  Says(Run(step, first, Append(s, x)))
    BY AppendProperties
  <2> DEFINE c == Run(step, first, s)
             e == Run(step, first, Append(s, x))
  <2>1. c \in Checks
    BY <1>0, RunType
  <2>2. e = step[<<c, x>>]
    BY <1>0, RunAppend
  <2>3. step[<<c, x>>] = Checked(c, x, r)
    BY <2>1 DEF Checking
  <2>4. e = Checked(c, x, r) /\ Says(c)
    BY <2>2, <2>3
  <2> HIDE DEF c, e
  <2>5. c.log \in Logs /\ c.allowed \in Seq(Limits)
    BY <2>1 DEF Checks
  <2>6. Evicted(c.log, x, r) \in Logs /\ Count(Evicted(c.log, x, r)[k], T) = Count(c.log[k], T)
    BY <2>5, EvictedType, EvictedCount
  <2>7. /\ e.log = CheckSync(c.log, x, r).log
        /\ e.allowed = IF Full(c.log, x, r) THEN c.allowed ELSE Append(c.allowed, x)
    BY <2>1, <2>4, CheckedType
  <2>8. CASE Full(c.log, x, r)
    <3>1. e.log = Evicted(c.log, x, r) /\ e.allowed = c.allowed
      BY <2>5, <2>7, <2>8, CheckSyncType
    <3>2. Says(e)
      BY <2>4, <2>6, <3>1
    <3> QED
      BY <3>2 DEF e
  <2>9. CASE ~Full(c.log, x, r)
    <3>1. e.log = Recorded(Evicted(c.log, x, r), x, r) /\ e.allowed = Append(c.allowed, x)
      BY <2>5, <2>7, <2>9, CheckSyncType
    <3>2. Count(e.log[k], T) = Count(c.log[k], T) + IF k = Key(x, r) THEN 1 ELSE 0
      <4>1. Count(e.log[k], T) = Count(Evicted(c.log, x, r)[k], T)
                                   + IF k = Key(x, r) /\ now \in T THEN 1 ELSE 0
        BY <2>6, <3>1, RecordedCount
      <4> QED
        BY <2>6, <4>1
    <3>3. /\ Count(c.allowed, At(k, r)) \in Nat
          /\ Count(e.allowed, At(k, r)) = Count(c.allowed, At(k, r)) + IF k = Key(x, r) THEN 1 ELSE 0
      <4>1. x \in At(k, r) <=> k = Key(x, r)
        BY DEF At
      <4> QED
        BY <2>5, <3>1, <4>1, CountAppend
    <3>4. Count(log[k], T) \in Nat
      BY CountNat
    <3>5. Says(e)
      BY <2>4, <3>2, <3>3, <3>4
    <3> QED
      BY <3>5 DEF e
  <2> QED
    BY <2>8, <2>9
<1>3. \A s \in Seq(Limits) : s \in Good
  <2> HIDE DEF Good
  <2> QED
    BY <1>1, <1>2, BySequence
<1>4. \A s \in Seq(Limits) : Run(step, first, s) \in Checks
  BY <1>0, RunType
<1> HIDE DEF step, first
<1> QED
  BY <1>0, <1>3, <1>4

(* and its second loop takes back one record of now for each of them.        *)
LEMMA UndoEffect ==
  ASSUME now \in Nat, NEW log \in Logs, NEW r \in Requests, NEW k \in Keys, NEW T, now \in T
  PROVE  \A s \in Seq(Limits) :
           Count(s, At(k, r)) <= Count(log[k], {now}) =>
             /\ Undo(log, s, r) \in Logs
             /\ Count(Undo(log, s, r)[k], T) = Count(log[k], T) - Count(s, At(k, r))
<1> DEFINE step == Undoing(r)
           N(s) == Count(s, At(k, r))
           Says(u, s) == N(s) <= Count(log[k], {now}) =>
                           /\ Count(u[k], T) = Count(log[k], T) - N(s)
                           /\ Count(u[k], {now}) = Count(log[k], {now}) - N(s)
           Good == {s \in Seq(Limits) : Says(Run(step, log, s), s)}
<1>0. /\ Loop(Logs, Limits, step, log)
      /\ \A s \in Seq(Limits) : Undo(log, s, r) = Run(step, log, s)
  BY UndoRuns, EmptySeq
<1>1. <<>> \in Good
  <2>1. Run(step, log, <<>>) = log
    BY <1>0, RunEmpty
  <2>2. <<>> \in Seq(Limits) /\ N(<<>>) = 0
    BY OnlyEmpty, EmptySeq DEF Count
  <2>3. Count(log[k], T) \in Nat /\ Count(log[k], {now}) \in Nat
    BY CountNat
  <2> HIDE DEF step, N
  <2> QED
    BY <2>1, <2>2, <2>3
<1>2. \A s \in Seq(Limits) : \A x \in Limits : s \in Good => Append(s, x) \in Good
  <2> SUFFICES ASSUME NEW s \in Seq(Limits), NEW x \in Limits, Says(Run(step, log, s), s)
               PROVE  Says(Run(step, log, Append(s, x)), Append(s, x))
    BY AppendProperties
  <2> DEFINE u == Run(step, log, s)
             e == Run(step, log, Append(s, x))
  <2>1. u \in Logs
    BY <1>0, RunType
  <2>2. e = step[<<u, x>>]
    BY <1>0, RunAppend
  <2>3. step[<<u, x>>] = TakenBack(u, x, r)
    BY <2>1 DEF Undoing
  <2>4. e = TakenBack(u, x, r) /\ Says(u, s)
    BY <2>2, <2>3
  <2> HIDE DEF u, e
  <2>5. e[k] = IF k = Key(x, r) THEN Front(u[k]) ELSE u[k]
    BY <2>1, <2>4, TakenBackType
  <2>6. N(s) \in Nat /\ N(Append(s, x)) = N(s) + IF k = Key(x, r) THEN 1 ELSE 0
    <3>1. x \in At(k, r) <=> k = Key(x, r)
      BY DEF At
    <3> QED
      BY <3>1, CountAppend
  <2>7. /\ Count(log[k], T) \in Nat /\ Count(log[k], {now}) \in Nat
        /\ Count(u[k], T) \in Nat /\ Count(u[k], {now}) \in Nat
    BY <2>1, CountNat
  <2> HIDE DEF N
  <2>8. ASSUME k # Key(x, r)
        PROVE  Says(e, Append(s, x))
    <3>1. e[k] = u[k] /\ N(Append(s, x)) = N(s)
      BY <2>5, <2>6, <2>8
    <3> QED
      BY <2>4, <3>1
  <2>9. ASSUME k = Key(x, r), N(s) + 1 <= Count(log[k], {now})
        PROVE  Says(e, Append(s, x))
    <3>1. e[k] = Front(u[k]) /\ N(Append(s, x)) = N(s) + 1
      BY <2>5, <2>6, <2>9
    <3>2. /\ Count(u[k], T) = Count(log[k], T) - N(s)
          /\ Count(u[k], {now}) = Count(log[k], {now}) - N(s)
      BY <2>4, <2>6, <2>7, <2>9
    <3>3. Count(u[k], {now}) > 0
      BY <2>6, <2>7, <2>9, <3>2
    <3>4. Front(u[k]) \in Stamps /\ u[k] = Append(Front(u[k]), now)
      <4>1. now \in ToSet(u[k])
        BY <2>1, <3>3, CountNat
      <4>2. u[k] \in Stamps
        BY <2>1 DEF Logs
      <4> QED
        BY <4>1, <4>2, StampsFront
    <3>5. /\ Count(Front(u[k]), T) \in Nat
          /\ Count(u[k], T) = Count(Front(u[k]), T) + 1
          /\ Count(Front(u[k]), {now}) \in Nat
          /\ Count(u[k], {now}) = Count(Front(u[k]), {now}) + 1
      <4> DEFINE D == 0 .. now
                 f == Front(u[k])
      <4>1. f \in Seq(D) /\ now \in D
        BY <3>4 DEF Stamps
      <4> HIDE DEF D, f
      <4>2. /\ Count(f, T) \in Nat
            /\ Count(Append(f, now), T) = Count(f, T) + 1
        BY <4>1, CountAppend
      <4>3. /\ Count(f, {now}) \in Nat
            /\ Count(Append(f, now), {now}) = Count(f, {now}) + 1
        BY <4>1, CountAppend
      <4> QED
        BY <3>4, <4>2, <4>3 DEF f
    <3>6. Count(e[k], T) = Count(u[k], T) - 1 /\ Count(e[k], {now}) = Count(u[k], {now}) - 1
      BY <3>1, <3>5
    <3>7. /\ Count(e[k], T) = Count(log[k], T) - N(Append(s, x))
          /\ Count(e[k], {now}) = Count(log[k], {now}) - N(Append(s, x))
      BY <2>6, <2>7, <3>1, <3>2, <3>6
    <3> QED
      BY <3>7
  <2>10. ASSUME k = Key(x, r), ~(N(s) + 1 <= Count(log[k], {now}))
         PROVE  Says(e, Append(s, x))
    BY <2>6, <2>7, <2>10
  <2>11. Says(e, Append(s, x))
    BY <2>8, <2>9, <2>10
  <2> QED
    BY <2>11 DEF e
<1>3. \A s \in Seq(Limits) : s \in Good
  <2> HIDE DEF Good
  <2> QED
    BY <1>1, <1>2, BySequence
<1>4. \A s \in Seq(Limits) : Run(step, log, s) \in Logs
  BY <1>0, RunType
<1> HIDE DEF step
<1> QED
  BY <1>0, <1>3, <1>4

(* So a request that is checked and undone has left no trace in any window.  *)
LEMMA UndoneEffect ==
  ASSUME now \in Nat, NEW log \in Logs, NEW r \in Requests, NEW s \in Seq(Limits),
         NEW k \in Keys, NEW T, Lasting(k, T), now \in T
  PROVE  LET c == CheckAll(log, s, r)
         IN  /\ Undo(c.log, c.allowed, r) \in Logs
             /\ Count(Undo(c.log, c.allowed, r)[k], T) = Count(log[k], T)
<1> DEFINE c == CheckAll(log, s, r)
<1>1. /\ c \in Checks
      /\ Count(c.log[k], T) = Count(log[k], T) + Count(c.allowed, At(k, r))
  BY CheckAllEffect
<1>2. Count(c.log[k], {now}) = Count(log[k], {now}) + Count(c.allowed, At(k, r))
  BY NowLasts, CheckAllEffect
<1> HIDE DEF c
<1>3. c.log \in Logs /\ c.allowed \in Seq(Limits)
  BY <1>1 DEF Checks
<1>4. /\ Count(log[k], {now}) \in Nat /\ Count(log[k], T) \in Nat
      /\ Count(c.allowed, At(k, r)) \in Nat
  <2>1. Only(c.allowed, At(k, r)) \in Seq(Limits)
    BY <1>3, OnlyType
  <2> QED
    BY <2>1, CountNat, LenProperties DEF Count
<1>5. Count(c.allowed, At(k, r)) <= Count(c.log[k], {now})
  BY <1>2, <1>4
<1>6. /\ Undo(c.log, c.allowed, r) \in Logs
      /\ Count(Undo(c.log, c.allowed, r)[k], T) = Count(c.log[k], T) - Count(c.allowed, At(k, r))
  <2> DEFINE full == c.log
  <2>1. full \in Logs
    BY <1>3
  <2> HIDE DEF full
  <2>2. \A q \in Seq(Limits) :
          Count(q, At(k, r)) <= Count(full[k], {now}) =>
            /\ Undo(full, q, r) \in Logs
            /\ Count(Undo(full, q, r)[k], T) = Count(full[k], T) - Count(q, At(k, r))
    BY <2>1, UndoEffect
  <2> QED
    BY <1>3, <1>5, <2>2 DEF full
<1> QED
  BY <1>1, <1>4, <1>6 DEF c

-------------------------------------------------------------------------------
(* The log of a key and the requests charged under it *)

(* Elements that are counted once are counted as a set. *)
LEMMA DistinctCount ==
  ASSUME NEW D, NEW T
  PROVE  \A s \in Seq(D) :
           /\ IsFiniteSet(ToSet(s))
           /\ Distinct(s) => Cardinality(ToSet(s) \cap T) = Count(s, T)
<1> DEFINE Good == {s \in Seq(D) : /\ IsFiniteSet(ToSet(s))
                                   /\ Distinct(s) => Cardinality(ToSet(s) \cap T) = Count(s, T)}
<1>1. <<>> \in Good
  <2>1. <<>> \in Seq(D) /\ ToSet(<<>>) = {} /\ Only(<<>>, T) = <<>> /\ Len(<<>>) = 0
    BY EmptySeq, ToSetEmpty, OnlyEmpty
  <2>2. {} \cap T = {}
    OBVIOUS
  <2> QED
    BY <2>1, <2>2, FS_EmptySet DEF Count
<1>2. \A s \in Seq(D) : \A x \in D : s \in Good => Append(s, x) \in Good
  <2> SUFFICES ASSUME NEW s \in Seq(D), NEW x \in D, s \in Good
               PROVE  Append(s, x) \in Good
    OBVIOUS
  <2> DEFINE S == ToSet(s)
             t == Append(s, x)
  <2>1. IsFiniteSet(S) /\ (Distinct(s) => Cardinality(S \cap T) = Count(s, T))
    OBVIOUS
  <2>2. t \in Seq(D) /\ ToSet(t) = S \cup {x} /\ (Distinct(t) => Distinct(s) /\ x \notin S)
    BY ToSetAppend, DistinctAppend, AppendProperties
  <2>3. Count(s, T) \in Nat /\ Count(t, T) = Count(s, T) + IF x \in T THEN 1 ELSE 0
    BY CountAppend
  <2> HIDE DEF S, t
  <2>4. IsFiniteSet(S \cup {x}) /\ IsFiniteSet(S \cap T)
    BY <2>1, FS_AddElement, FS_Intersection
  <2>5. ASSUME Distinct(t)
        PROVE  Cardinality((S \cup {x}) \cap T) = Count(t, T)
    <3>1. CASE x \in T
      <4>1. (S \cup {x}) \cap T = (S \cap T) \cup {x} /\ x \notin S \cap T
        BY <2>2, <2>5, <3>1
      <4>2. Cardinality((S \cap T) \cup {x}) = Cardinality(S \cap T) + 1
        BY <2>4, <4>1, FS_AddElement
      <4> QED
        BY <2>1, <2>2, <2>3, <2>5, <3>1, <4>1, <4>2
    <3>2. CASE x \notin T
      <4>1. (S \cup {x}) \cap T = S \cap T
        BY <3>2
      <4>2. Count(t, T) = Count(s, T)
        BY <2>3, <3>2
      <4>3. Cardinality(S \cap T) = Count(s, T)
        BY <2>1, <2>2, <2>5
      <4> QED
        BY <4>1, <4>2, <4>3
    <3> QED
      BY <3>1, <3>2
  <2>6. IsFiniteSet(ToSet(t)) /\ (Distinct(t) => Cardinality(ToSet(t) \cap T) = Count(t, T))
    BY <2>2, <2>4, <2>5
  <2> QED
    BY <2>2, <2>6 DEF t
<1> HIDE DEF Good
<1>3. \A s \in Seq(D) : s \in Good
  BY <1>1, <1>2, BySequence
<1> QED
  BY <1>3 DEF Good

(* The pairs of one request, and those of one limit *)
LEMMA PairsCount ==
  ASSUME NEW k \in Keys
  PROVE  /\ \A r \in Requests, s \in Seq(Limits) : Distinct(s) =>
              Cardinality({c \in {r} \X ToSet(s) : Key(c[2], c[1]) = k}) = Count(s, At(k, r))
         /\ \A l \in Limits, s \in Seq(Requests) : Distinct(s) =>
              Cardinality({c \in ToSet(s) \X {l} : Key(c[2], c[1]) = k}) = Count(s, Under(l, k))
<1>1. ASSUME NEW r \in Requests, NEW s \in Seq(Limits), Distinct(s)
      PROVE  Cardinality({c \in {r} \X ToSet(s) : Key(c[2], c[1]) = k}) = Count(s, At(k, r))
  <2> DEFINE S == ToSet(s) \cap At(k, r)
  <2>1. IsFiniteSet(S) /\ Cardinality(S) = Count(s, At(k, r))
    BY <1>1, DistinctCount, FS_Intersection
  <2>2. {c \in {r} \X ToSet(s) : Key(c[2], c[1]) = k} = {r} \X S
    BY ToSetType DEF At
  <2> HIDE DEF S
  <2>3. Cardinality({r} \X S) = Cardinality({r}) * Cardinality(S)
    BY <2>1, FS_Product, FS_Singleton
  <2>4. Cardinality({r}) = 1 /\ Cardinality(S) \in Nat
    BY <2>1, FS_Singleton, FS_CardinalityType
  <2>5. 1 * Cardinality(S) = Cardinality(S)
    BY <2>4
  <2> QED
    BY <2>1, <2>2, <2>3, <2>4, <2>5
<1>2. ASSUME NEW l \in Limits, NEW s \in Seq(Requests), Distinct(s)
      PROVE  Cardinality({c \in ToSet(s) \X {l} : Key(c[2], c[1]) = k}) = Count(s, Under(l, k))
  <2> DEFINE S == ToSet(s) \cap Under(l, k)
  <2>1. IsFiniteSet(S) /\ Cardinality(S) = Count(s, Under(l, k))
    BY <1>2, DistinctCount, FS_Intersection
  <2>2. {c \in ToSet(s) \X {l} : Key(c[2], c[1]) = k} = S \X {l}
    BY ToSetType DEF Under
  <2> HIDE DEF S
  <2>3. Cardinality(S \X {l}) = Cardinality(S) * Cardinality({l})
    BY <2>1, FS_Product, FS_Singleton
  <2>4. Cardinality({l}) = 1 /\ Cardinality(S) \in Nat
    BY <2>1, FS_Singleton, FS_CardinalityType
  <2>5. Cardinality(S) * 1 = Cardinality(S)
    BY <2>4
  <2> QED
    BY <2>1, <2>2, <2>3, <2>4, <2>5
<1> QED
  BY <1>1, <1>2

(* The limits that allow a request are among those asked, and each is once. *)
LEMMA AllowedDistinct ==
  ASSUME now \in Nat, NEW log \in Logs, NEW r \in Requests
  PROVE  \A s \in Seq(Limits) :
           LET c == CheckAll(log, s, r)
           IN  /\ c \in Checks
               /\ ToSet(c.allowed) \subseteq ToSet(s)
               /\ Distinct(s) => Distinct(c.allowed)
<1> DEFINE step == Checking(r)
           first == [log |-> log, allowed |-> <<>>, denied |-> <<>>]
           Says(c, s) == /\ ToSet(c.allowed) \subseteq ToSet(s)
                         /\ Distinct(s) => Distinct(c.allowed)
           Good == {s \in Seq(Limits) : Says(Run(step, first, s), s)}
<1>0. /\ Loop(Checks, Limits, step, first)
      /\ \A s \in Seq(Limits) : CheckAll(log, s, r) = Run(step, first, s)
  BY CheckAllRuns, EmptySeq
<1>1. <<>> \in Good
  <2>1. Run(step, first, <<>>) = first /\ first.allowed = <<>> /\ <<>> \in Seq(Limits)
    BY <1>0, RunEmpty, EmptySeq
  <2> HIDE DEF first, step
  <2> QED
    BY <2>1
<1>2. \A s \in Seq(Limits) : \A x \in Limits : s \in Good => Append(s, x) \in Good
  <2> SUFFICES ASSUME NEW s \in Seq(Limits), NEW x \in Limits, Says(Run(step, first, s), s)
               PROVE  Says(Run(step, first, Append(s, x)), Append(s, x))
    BY AppendProperties
  <2> DEFINE c == Run(step, first, s)
             e == Run(step, first, Append(s, x))
  <2>1. c \in Checks
    BY <1>0, RunType
  <2>2. e = step[<<c, x>>]
    BY <1>0, RunAppend
  <2>3. step[<<c, x>>] = Checked(c, x, r)
    BY <2>1 DEF Checking
  <2>4. e = Checked(c, x, r) /\ Says(c, s)
    BY <2>2, <2>3
  <2> HIDE DEF c, e
  <2>5. c.allowed \in Seq(Limits)
    BY <2>1 DEF Checks
  <2>6. e.allowed = c.allowed \/ e.allowed = Append(c.allowed, x)
    BY <2>1, <2>4, CheckedType
  <2>7. /\ ToSet(Append(s, x)) = ToSet(s) \cup {x}
        /\ ToSet(Append(c.allowed, x)) = ToSet(c.allowed) \cup {x}
        /\ Distinct(Append(s, x)) <=> Distinct(s) /\ x \notin ToSet(s)
        /\ Distinct(Append(c.allowed, x)) <=> Distinct(c.allowed) /\ x \notin ToSet(c.allowed)
    BY <2>5, ToSetAppend, DistinctAppend
  <2>8. Says(e, Append(s, x))
    BY <2>4, <2>6, <2>7
  <2> QED
    BY <2>8 DEF e
<1>3. \A s \in Seq(Limits) : s \in Good
  <2> HIDE DEF Good
  <2> QED
    BY <1>1, <1>2, BySequence
<1>4. \A s \in Seq(Limits) : Run(step, first, s) \in Checks
  BY <1>0, RunType
<1> HIDE DEF step, first
<1> QED
  BY <1>0, <1>3, <1>4

(* What an action admits: the requests of G, each under all limits of M *)
Admits(G, M) ==
  /\ G \subseteq Requests /\ M \subseteq Limits
  /\ \A q \in G : request[q].charged = {} /\ request'[q].charged = M /\ request'[q].at = now
  /\ \A q \in Requests \ G : /\ request'[q].charged = request[q].charged
                             /\ request[q].charged = {} \/ request'[q].at = request[q].at

ChargesOf(G, M, k) == {c \in G \X M : Key(c[2], c[1]) = k}

LEMMA ChargesAdded ==
  ASSUME Typed, NEW G, NEW M, Admits(G, M), NEW k \in Keys, NEW t \in Int, t < now
  PROVE  /\ Cardinality(Charges(k, t)) \in Nat
         /\ Cardinality(ChargesOf(G, M, k)) \in Nat
         /\ Cardinality(Charges(k, t)') = Cardinality(Charges(k, t)) + Cardinality(ChargesOf(G, M, k))
<1> DEFINE Old == Charges(k, t)
           Added == ChargesOf(G, M, k)
           Both == Charges(k, t)'
<1>1. IsFiniteSet(Requests \X Limits)
  BY FinitenessAssumption, FS_Product
<1>2. Old \in SUBSET (Requests \X Limits) /\ Added \in SUBSET (Requests \X Limits)
  BY DEF Charges, ChargesOf, Admits
<1>3. IsFiniteSet(Old) /\ IsFiniteSet(Added)
  <2> HIDE DEF Old, Added
  <2> QED
    BY <1>1, <1>2, FS_Subset
<1>4. Old \cap Added = {}
  BY DEF Charges, ChargesOf, Admits
<1>5. Both = Old \cup Added
  <2>1. ASSUME NEW q \in Requests, NEW l \in Limits, Key(l, q) = k
        PROVE  <<q, l>> \in Both <=> <<q, l>> \in Old \/ <<q, l>> \in Added
    <3>1. <<q, l>> \in Both <=> l \in request'[q].charged /\ request'[q].at > t
      BY <2>1 DEF Charges
    <3>2. <<q, l>> \in Old <=> l \in request[q].charged /\ request[q].at > t
      BY <2>1 DEF Charges
    <3>3. <<q, l>> \in Added <=> q \in G /\ l \in M
      BY <2>1 DEF ChargesOf
    <3>4. CASE q \in G
      <4>1. request[q].charged = {} /\ request'[q].charged = M /\ request'[q].at = now
        BY <3>4 DEF Admits
      <4> QED
        BY <3>1, <3>2, <3>3, <3>4, <4>1
    <3>5. CASE q \notin G
      <4>1. /\ request'[q].charged = request[q].charged
            /\ request[q].charged = {} \/ request'[q].at = request[q].at
        BY <3>5 DEF Admits
      <4> QED
        BY <3>1, <3>2, <3>3, <3>5, <4>1
    <3> QED
      BY <3>4, <3>5
  <2>2. \A c \in Both : c \in Requests \X Limits /\ Key(c[2], c[1]) = k
    BY DEF Charges
  <2>3. \A c \in Old \cup Added : c \in Requests \X Limits /\ Key(c[2], c[1]) = k
    BY <1>2 DEF Charges, ChargesOf
  <2> HIDE DEF Both, Old, Added
  <2>4. \A c \in Requests \X Limits : Key(c[2], c[1]) = k => (c \in Both <=> c \in Old \cup Added)
    BY <2>1
  <2> QED
    BY <2>2, <2>3, <2>4
<1> HIDE DEF Old, Added, Both
<1>6. Cardinality(Old \cup Added) = Cardinality(Old) + Cardinality(Added)
  <2>1. Cardinality(Old) \in Nat /\ Cardinality(Added) \in Nat /\ Cardinality({}) = 0
    BY <1>3, FS_CardinalityType, FS_EmptySet
  <2>2. Cardinality(Old \cup Added) = Cardinality(Old) + Cardinality(Added) - Cardinality(Old \cap Added)
    BY <1>3, FS_Union
  <2>3. Cardinality(Old \cap Added) = 0
    BY <1>4, <2>1
  <2> QED
    BY <2>1, <2>2, <2>3
<1>7. Cardinality(Old) \in Nat /\ Cardinality(Added) \in Nat
  BY <1>3, FS_CardinalityType
<1> QED
  BY <1>5, <1>6, <1>7 DEF Old, Added, Both

(* The books: what the log holds of the last while is what was charged. *)
Uncharged == \A r \in Requests : request[r].stage \in {"idle", "queued"} => request[r].charged = {}

Exact ==
  \A k \in Keys, t \in Int :
    t < now /\ Lasting(k, Later(t)) => Count(entries[k], Later(t)) = Cardinality(Charges(k, t))

Books == Distinct(rateLimits) /\ Uncharged /\ Exact

(* An action keeps them if it records what it admits. *)
LEMMA ExactKept ==
  ASSUME Typed, Exact, NEW G, NEW M, Admits(G, M), now' = now,
         \A k \in Keys : \A T : Lasting(k, T) /\ now \in T =>
           Count(entries'[k], T) = Count(entries[k], T) + Cardinality(ChargesOf(G, M, k))
  PROVE  Exact'
<1> SUFFICES ASSUME NEW k \in Keys, NEW t \in Int, t < now, Lasting(k, Later(t))
             PROVE  Count(entries'[k], Later(t)) = Cardinality(Charges(k, t)')
  BY DEF Exact, Lasting
<1>1. now \in Later(t)
  BY DEF Later, Typed
<1> QED
  BY <1>1, ChargesAdded DEF Exact

(* The log of every key has grown by what was charged under it. *)
Records(G, M) ==
  \A k \in Keys : \A T : Lasting(k, T) /\ now \in T =>
    Count(entries'[k], T) = Count(entries[k], T) + Cardinality(ChargesOf(G, M, k))

(* Nobody is admitted, and the logs only evict. *)
LEMMA NobodyAdmitted ==
  ASSUME Typed,
         \A q \in Requests : /\ request'[q].charged = request[q].charged
                             /\ request[q].charged = {} \/ request'[q].at = request[q].at,
         \A k \in Keys : \A T : Lasting(k, T) /\ now \in T =>
           Count(entries'[k], T) = Count(entries[k], T)
  PROVE  Admits({}, {}) /\ Records({}, {})
<1>1. Admits({}, {})
  BY DEF Admits
<1>2. ASSUME NEW k \in Keys, NEW T, Lasting(k, T), now \in T
      PROVE  Count(entries'[k], T) = Count(entries[k], T) + Cardinality(ChargesOf({}, {}, k))
  <2>1. ChargesOf({}, {}, k) = {}
    BY DEF ChargesOf
  <2>2. Cardinality(ChargesOf({}, {}, k)) = 0
    BY <2>1, FS_EmptySet
  <2>3. Count(entries[k], T) \in Nat
    <3>1. now \in Nat /\ entries \in Logs
      BY ClockAssumption DEF Typed
    <3> QED
      BY <3>1, CountNat
  <2> QED
    BY <1>2, <2>2, <2>3
<1> QED
  BY <1>1, <1>2 DEF Records

(* The drain admits the request and the oldest of the queue. *)
LEMMA DrainAdmits ==
  ASSUME Typed, InQueues, Uncharged, NEW r \in Requests, request[r].stage = "idle",
         NEW l \in Limits, NEW log \in Logs,
         \A k \in Keys : \A T : Lasting(k, T) /\ now \in T => Count(log[k], T) = Count(entries[k], T),
         AllowedAgain(r, l, CheckSync(log, l, r))
  PROVE  LET G == Oldest(l, Drain(CheckSync(log, l, r).log, l, r).released) \cup {r}
         IN  Admits(G, {l}) /\ Records(G, {l})
<1> DEFINE checked == CheckSync(log, l, r).log
           drain == Drain(checked, l, r)
           n == drain.released
           s == queues[l]
           released == SubSeq(s, 1, n)
           all == Append(released, r)
<1>1. /\ now \in Nat
      /\ request \in [Requests -> RequestState]
      /\ queues \in [Limits -> Seq(Requests)]
      /\ entries \in Logs
  BY ClockAssumption DEF Typed
<1>2. s \in Seq(Requests) /\ Distinct(s) /\ \A q \in Requests : q \in ToSet(s) <=> Waits(request[q], l)
  BY <1>1 DEF InQueues
<1>3. /\ CheckSync(log, l, r).allowed = ~Full(log, l, r)
      /\ CheckSync(log, l, r).log = IF Full(log, l, r) THEN Evicted(log, l, r)
                                    ELSE Recorded(Evicted(log, l, r), l, r)
      /\ checked \in Logs
  BY <1>1, CheckSyncType
<1>4. /\ CheckSync(log, l, r).allowed
      /\ entries' = drain.log
      /\ request' = [q \in Requests |-> IF q = r \/ q \in Oldest(l, n) THEN Admitted({l})
                                                                       ELSE request[q]]
  BY DEF AllowedAgain
<1>5. Evicted(log, l, r) \in Logs
  BY EvictedType
<1>6. checked = Recorded(Evicted(log, l, r), l, r)
  BY <1>3, <1>4
<1> HIDE DEF checked
<1>7. ASSUME NEW k \in Keys, NEW T, Lasting(k, T), now \in T
      PROVE  /\ n \in 0 .. Len(s)
             /\ Count(entries'[k], T) = Count(checked[k], T) + Count(released, Under(l, k))
  <2>1. LET d == DrainFrom(checked, s, l, r)
        IN  /\ d \in Drains
            /\ d.released \in 0 .. Len(s)
            /\ ~d.stopped => d.released = Len(s)
            /\ Count(d.log[k], T) = Count(checked[k], T) + Count(SubSeq(s, 1, d.released), Under(l, k))
    BY <1>1, <1>2, <1>3, <1>7, DrainEffect
  <2>2. drain = DrainFrom(checked, s, l, r)
    BY OverQueues
  <2> HIDE DEF drain
  <2> QED
    BY <1>4, <2>1, <2>2
<1>8. n \in 0 .. Len(s)
  <2>1. Key(l, r) \in Keys /\ Lasting(Key(l, r), {now}) /\ now \in {now}
    BY <1>1, KeyType, NowLasts
  <2> QED
    BY <1>7, <2>1
<1> HIDE DEF n, drain
<1>9. /\ released \in Seq(Requests)
      /\ ToSet(released) = Oldest(l, n)
      /\ Distinct(released)
      /\ ToSet(released) \subseteq ToSet(s)
  <2>1. /\ released \in Seq(Requests)
        /\ ToSet(released) = {s[i] : i \in 1 .. n}
        /\ Distinct(released)
    BY <1>2, <1>8, PrefixType
  <2>2. {s[i] : i \in 1 .. n} = Oldest(l, n)
    BY DEF Oldest
  <2>3. \A i \in 1 .. n : s[i] \in ToSet(s)
    <3>1. Len(s) \in Nat /\ n \in Nat /\ n <= Len(s)
      BY <1>2, <1>8, LenProperties
    <3>2. \A i \in 1 .. n : i \in 1 .. Len(s)
      BY <3>1
    <3> QED
      BY <1>2, <3>2, ToSetType
  <2> QED
    BY <2>1, <2>2, <2>3
<1> HIDE DEF released
<1>10. r \notin ToSet(s)
  BY <1>2 DEF Waits
<1>11. /\ all \in Seq(Requests)
       /\ Distinct(all)
       /\ ToSet(all) = Oldest(l, n) \cup {r}
  BY <1>9, <1>10, AppendProperties, ToSetAppend, DistinctAppend
<1>12. Admits(ToSet(all), {l})
  <2>1. \A q \in ToSet(all) : q \in Requests /\ request[q].charged = {}
    <3>1. ASSUME NEW q \in Oldest(l, n)
          PROVE  q \in Requests /\ request[q].charged = {}
      <4>1. q \in Requests /\ q \in ToSet(s)
        BY <1>9, ToSetType
      <4>2. request[q].stage = "queued"
        BY <1>2, <4>1 DEF Waits
      <4> QED
        BY <4>1, <4>2 DEF Uncharged
    <3>2. request[r].charged = {}
      BY DEF Uncharged
    <3> QED
      BY <1>11, <3>1, <3>2
  <2>2. Admitted({l}).charged = {l} /\ Admitted({l}).at = now
    BY <1>1, VerdictType
  <2>3. \A q \in Requests : IF q \in ToSet(all) THEN request'[q] = Admitted({l})
                                                ELSE request'[q] = request[q]
    BY <1>4, <1>11
  <2> QED
    BY <2>1, <2>2, <2>3 DEF Admits
<1>13. Records(ToSet(all), {l})
  <2> SUFFICES ASSUME NEW k \in Keys, NEW T, Lasting(k, T), now \in T
               PROVE  Count(entries'[k], T) = Count(entries[k], T) + Cardinality(ChargesOf(ToSet(all), {l}, k))
    BY DEF Records
  <2>1. Count(log[k], T) = Count(entries[k], T)
    OBVIOUS
  <2>2. Count(Evicted(log, l, r)[k], T) = Count(log[k], T)
    BY EvictedCount
  <2>3. Count(checked[k], T) = Count(Evicted(log, l, r)[k], T) + IF k = Key(l, r) THEN 1 ELSE 0
    <3>1. Count(checked[k], T) = Count(Evicted(log, l, r)[k], T) + IF k = Key(l, r) /\ now \in T THEN 1 ELSE 0
      BY <1>1, <1>5, <1>6, RecordedCount
    <3> QED
      BY <3>1
  <2>4. Count(entries'[k], T) = Count(checked[k], T) + Count(released, Under(l, k))
    BY <1>7 DEF released
  <2>5. /\ Count(released, Under(l, k)) \in Nat
        /\ Count(all, Under(l, k)) = Count(released, Under(l, k)) + IF k = Key(l, r) THEN 1 ELSE 0
    <3>1. r \in Under(l, k) <=> k = Key(l, r)
      BY DEF Under
    <3> QED
      BY <1>9, <3>1, CountAppend
  <2>6. Cardinality(ChargesOf(ToSet(all), {l}, k)) = Count(all, Under(l, k))
    BY <1>11, PairsCount DEF ChargesOf
  <2>7. Count(entries[k], T) \in Nat
    BY <1>1, CountNat
  <2> QED
    BY <2>1, <2>2, <2>3, <2>4, <2>5, <2>6, <2>7
<1> QED
  BY <1>11, <1>12, <1>13 DEF n, drain, checked

LEMMA LimitAdmits ==
  ASSUME Typed, InQueues, Books, NEW r \in Requests, Limit(r)
  PROVE  /\ \E G, M : Admits(G, M) /\ Records(G, M)
         /\ Uncharged'
         /\ now' = now /\ rateLimits' = rateLimits
<1> DEFINE check == CheckAll(entries, Applicable(r), r)
           undone == Undo(check.log, check.allowed, r)
<1>1. /\ now \in Nat
      /\ Applicable(r) \in Seq(Limits)
      /\ check \in Checks
      /\ ToSet(check.allowed) \subseteq Limits
      /\ check.denied # <<>> => Head(check.denied) \in Limits
      /\ undone \in Logs
      /\ \A l \in Limits : CheckSync(undone, l, r).log \in Logs
  BY LimitParts
<1>2. /\ request[r].stage = "idle"
      /\ \/ AllAllow(r, check)
         \/ /\ check.denied # <<>>
            /\ LET l == Head(check.denied)
                   retry == CheckSync(undone, l, r)
               IN  AllowedAgain(r, l, retry) \/ Queues(r, l, retry) \/ RateLimited(r, l, retry)
  BY DEF Limit
<1>3. request \in [Requests -> RequestState] /\ entries \in Logs /\ rateLimits \in Seq(Limits)
  BY DEF Typed, Registered
<1>4. now' = now /\ rateLimits' = rateLimits
  BY TypedLimit DEF registry
<1>5. ASSUME NEW k \in Keys, NEW T, Lasting(k, T), now \in T
      PROVE  Count(undone[k], T) = Count(entries[k], T)
  BY <1>1, <1>3, <1>5, UndoneEffect
<1>6. ASSUME AllAllow(r, check)
      PROVE  Admits({r}, ToSet(check.allowed)) /\ Records({r}, ToSet(check.allowed))
  <2>1. entries' = check.log /\ request' = [request EXCEPT ![r] = Admitted(ToSet(check.allowed))]
    BY <1>6 DEF AllAllow
  <2>2. Distinct(check.allowed) /\ check.allowed \in Seq(Limits)
    <3>1. Distinct(Applicable(r))
      BY <1>3, DistinctEmpty, DistinctOnly DEF Applicable, Books
    <3>2. Distinct(check.allowed)
      BY <1>1, <1>3, <3>1, AllowedDistinct
    <3> QED
      BY <1>1, <3>2 DEF Checks
  <2>3. ASSUME NEW k \in Keys, NEW T, Lasting(k, T), now \in T
        PROVE  Count(check.log[k], T) = Count(entries[k], T) + Count(check.allowed, At(k, r))
    BY <1>1, <1>3, <2>3, CheckAllEffect
  <2> HIDE DEF check
  <2>4. /\ Admitted(ToSet(check.allowed)).charged = ToSet(check.allowed)
        /\ Admitted(ToSet(check.allowed)).at = now
    BY <1>1, VerdictType
  <2>5. Admits({r}, ToSet(check.allowed))
    BY <1>1, <1>2, <1>3, <2>1, <2>4 DEF Admits, Books, Uncharged
  <2>6. Records({r}, ToSet(check.allowed))
    BY <2>1, <2>2, <2>3, PairsCount DEF Records, ChargesOf
  <2> QED
    BY <2>5, <2>6
<1> HIDE DEF check, undone
<1>7. ASSUME NEW next, next.charged = {}, request' = [request EXCEPT ![r] = next],
             \A k \in Keys : \A T : Lasting(k, T) /\ now \in T =>
               Count(entries'[k], T) = Count(undone[k], T)
      PROVE  Admits({}, {}) /\ Records({}, {})
  <2>1. \A q \in Requests : /\ request'[q].charged = request[q].charged
                            /\ request[q].charged = {} \/ request'[q].at = request[q].at
    BY <1>2, <1>3, <1>7 DEF Books, Uncharged
  <2> QED
    BY <1>5, <1>7, <2>1, NobodyAdmitted
<1>8. ASSUME NEW l \in Limits, ~CheckSync(undone, l, r).allowed
      PROVE  /\ CheckSync(undone, l, r).log = Evicted(undone, l, r)
             /\ \A k \in Keys : \A T : Lasting(k, T) =>
                  Count(Evicted(undone, l, r)[k], T) = Count(undone[k], T)
  BY <1>1, <1>8, CheckSyncType, EvictedCount
<1>9. CASE AllAllow(r, check)
  <2>1. request' = [request EXCEPT ![r] = Admitted(ToSet(check.allowed))]
    BY <1>9 DEF AllAllow
  <2>2. Admitted(ToSet(check.allowed)).stage = "admitted"
    BY <1>1, VerdictType
  <2>3. Uncharged'
    BY <1>3, <2>1, <2>2 DEF Uncharged, Books
  <2> QED
    BY <1>4, <1>6, <1>9, <2>3
<1>10. ASSUME NEW l \in Limits, AllowedAgain(r, l, CheckSync(undone, l, r))
       PROVE  Uncharged' /\ \E G, M : Admits(G, M) /\ Records(G, M)
  <2> DEFINE G == Oldest(l, Drain(CheckSync(undone, l, r).log, l, r).released)
  <2>1. Admits(G \cup {r}, {l}) /\ Records(G \cup {r}, {l})
    BY <1>1, <1>2, <1>5, <1>10, DrainAdmits DEF Books
  <2>2. request' = [q \in Requests |-> IF q = r \/ q \in G THEN Admitted({l}) ELSE request[q]]
    BY <1>10 DEF AllowedAgain
  <2>3. Admitted({l}).stage = "admitted"
    BY <1>1, VerdictType
  <2> HIDE DEF G
  <2>4. Uncharged'
    BY <2>2, <2>3 DEF Uncharged, Books
  <2> QED
    BY <2>1, <2>4
<1>11. ASSUME NEW l \in Limits, Queues(r, l, CheckSync(undone, l, r))
       PROVE  Uncharged' /\ \E G, M : Admits(G, M) /\ Records(G, M)
  <2>1. /\ ~CheckSync(undone, l, r).allowed
        /\ entries' = CheckSync(undone, l, r).log
        /\ request' = [request EXCEPT ![r] = Waiting(l)]
    BY <1>11 DEF Queues, Waiting
  <2>2. Waiting(l).charged = {}
    BY VerdictFresh
  <2>3. Uncharged'
    BY <1>3, <2>1, <2>2 DEF Uncharged, Books
  <2> QED
    BY <1>7, <1>8, <2>1, <2>2, <2>3
<1>12. ASSUME NEW l \in Limits, RateLimited(r, l, CheckSync(undone, l, r))
       PROVE  Uncharged' /\ \E G, M : Admits(G, M) /\ Records(G, M)
  <2> DEFINE kept == CheckSync(undone, l, r).log
  <2>1. /\ ~CheckSync(undone, l, r).allowed
        /\ entries' = Reported(kept, r)
        /\ request' = [request EXCEPT ![r] = Refused("RATE_LIMITED")]
    BY <1>12 DEF RateLimited
  <2>2. Refused("RATE_LIMITED").charged = {}
    BY VerdictFresh
  <2>3. Uncharged'
    BY <1>3, <2>1, <2>2 DEF Uncharged, Books
  <2>4. kept \in Logs /\ \A k \in Keys : \A T : Lasting(k, T) => Count(kept[k], T) = Count(undone[k], T)
    BY <1>1, <1>8, <2>1
  <2> HIDE DEF kept
  <2>5. \/ Reported(kept, r) = kept
        \/ \E m \in Limits : Reported(kept, r) = Evicted(kept, m, r)
    BY <1>3, <2>4, ReportedType
  <2>6. \A k \in Keys : \A T : Lasting(k, T) => Count(Reported(kept, r)[k], T) = Count(kept[k], T)
    BY <2>4, <2>5, EvictedCount
  <2> QED
    BY <1>7, <2>1, <2>2, <2>3, <2>4, <2>6
<1> QED
  BY <1>1, <1>2, <1>4, <1>9, <1>10, <1>11, <1>12

LEMMA TimeoutAdmits ==
  ASSUME Typed, Books, NEW r \in Requests, QueueTimeout(r)
  PROVE  Admits({}, {}) /\ Records({}, {}) /\ Uncharged'
<1>1. /\ request \in [Requests -> RequestState]
      /\ entries \in Logs
      /\ rateLimits \in Seq(Limits)
  BY DEF Typed, Registered
<1>2. /\ request[r].stage = "queued"
      /\ entries' = Reported(entries, r)
      /\ request' = [request EXCEPT ![r] = Refused("RATE_LIMITED")]
  BY DEF QueueTimeout
<1>3. Refused("RATE_LIMITED").charged = {}
  BY VerdictFresh
<1>4. \A q \in Requests : /\ request'[q].charged = request[q].charged
                          /\ request[q].charged = {} \/ request'[q].at = request[q].at
  BY <1>1, <1>2, <1>3 DEF Books, Uncharged
<1>5. ASSUME NEW k \in Keys, NEW T, Lasting(k, T)
      PROVE  Count(entries'[k], T) = Count(entries[k], T)
  <2>1. \/ Reported(entries, r) = entries
        \/ \E m \in Limits : Reported(entries, r) = Evicted(entries, m, r)
    BY <1>1, ReportedType
  <2> QED
    BY <1>1, <1>2, <1>5, <2>1, EvictedCount
<1>6. Uncharged'
  BY <1>1, <1>2, <1>3 DEF Uncharged, Books
<1> QED
  BY <1>4, <1>5, <1>6, NobodyAdmitted

LEMMA RemovalAdmits ==
  ASSUME Typed, InQueues, Books, NEW l \in Limits, RemoveRateLimit(l)
  PROVE  /\ Admits(ToSet(queues[l]), {l}) /\ Records(ToSet(queues[l]), {l})
         /\ Uncharged'
         /\ Distinct(rateLimits')
<1> DEFINE s == queues[l]
           next == [Admitted({l}) EXCEPT !.waits = l]
<1>1. /\ now \in Nat
      /\ request \in [Requests -> RequestState]
      /\ queues \in [Limits -> Seq(Requests)]
      /\ entries \in Logs
      /\ rateLimits \in Seq(Limits)
  BY ClockAssumption DEF Typed, Registered
<1>2. s \in Seq(Requests) /\ Distinct(s) /\ \A q \in Requests : q \in ToSet(s) <=> Waits(request[q], l)
  BY <1>1 DEF InQueues
<1>3. /\ rateLimits' = Without(rateLimits, l)
      /\ entries' = ReleaseFrom(entries, s, l)
      /\ request' = [q \in Requests |-> IF Waits(request[q], l) THEN next ELSE request[q]]
  BY OverQueues DEF RemoveRateLimit, Waits
<1>4. next.stage = "admitted" /\ next.charged = {l} /\ next.at = now
  BY <1>1, ReleasedType
<1> HIDE DEF s, next
<1>5. Distinct(rateLimits')
  BY <1>1, <1>3, DistinctOnly DEF Without, Books
<1>6. Uncharged'
  BY <1>3, <1>4 DEF Uncharged, Books
<1>7. Admits(ToSet(s), {l})
  <2>1. ToSet(s) \subseteq Requests
    BY <1>2, ToSetType
  <2>2. \A q \in ToSet(s) : request[q].charged = {} /\ request'[q] = next
    BY <1>2, <1>3, <2>1 DEF Waits, Uncharged, Books
  <2>3. \A q \in Requests \ ToSet(s) : request'[q] = request[q]
    BY <1>2, <1>3
  <2> QED
    BY <1>4, <2>1, <2>2, <2>3 DEF Admits
<1>8. Records(ToSet(s), {l})
  <2> SUFFICES ASSUME NEW k \in Keys, NEW T, Lasting(k, T), now \in T
               PROVE  Count(entries'[k], T) = Count(entries[k], T) + Cardinality(ChargesOf(ToSet(s), {l}, k))
    BY DEF Records
  <2>1. Count(ReleaseFrom(entries, s, l)[k], T) = Count(entries[k], T) + Count(s, Under(l, k))
    BY <1>1, <1>2, ReleaseEffect
  <2>2. Cardinality(ChargesOf(ToSet(s), {l}, k)) = Count(s, Under(l, k))
    BY <1>2, PairsCount DEF ChargesOf
  <2> QED
    BY <1>3, <2>1, <2>2
<1> QED
  BY <1>5, <1>6, <1>7, <1>8 DEF s

(* Of what has not happened yet there are no records and no charges. *)
LEMMA NothingLater ==
  ASSUME Typed, NEW k \in Keys
  PROVE  Count(entries[k], Later(now)) = 0 /\ Charges(k, now) = {}
<1>1. /\ now \in Nat
      /\ entries[k] \in Seq(0 .. now)
      /\ request \in [Requests -> RequestState]
  BY ClockAssumption DEF Typed, Logs, Stamps
<1>2. Charges(k, now) = {}
  BY <1>1 DEF Charges, RequestState
<1> DEFINE D == 0 .. now
           s == entries[k]
           t == Only(s, Later(now))
<1>3. D \cap Later(now) = {} /\ s \in Seq(D)
  BY <1>1 DEF Later
<1> HIDE DEF D, s
<1>4. ToSet(s) \subseteq D
  BY <1>3, ToSetType
<1>5. t \in Seq(D) /\ ToSet(t) = ToSet(s) \cap Later(now)
  BY <1>3, OnlyType, OnlySet
<1> HIDE DEF t
<1>6. t = <<>>
  BY <1>3, <1>4, <1>5, ToSetType
<1> QED
  BY <1>2, <1>6, EmptySeq DEF Count, s, t

LEMMA ExactLater ==
  ASSUME Typed, Exact, now' = now + 1, UNCHANGED <<entries, request>>
  PROVE  Exact'
<1>0. \A k, t : Charges(k, t)' = Charges(k, t)
  BY DEF Charges
<1> SUFFICES ASSUME NEW k \in Keys, NEW t \in Int, t < now', Lasting(k, Later(t))'
             PROVE  Count(entries[k], Later(t)) = Cardinality(Charges(k, t))
  BY <1>0 DEF Exact
<1>1. now \in Nat
  BY ClockAssumption DEF Typed
<1>2. CASE t = now
  BY <1>2, NothingLater, FS_EmptySet
<1>3. CASE t # now
  <2>1. t < now
    BY <1>1, <1>3
  <2>2. ASSUME NEW l \in Limits, NEW r \in Requests, Key(l, r) = k
        PROVE  Later(t) \subseteq Later(now - LimitOf[l].window)
    <3>1. LimitOf[l].window \in Int
      BY LimitAssumption DEF RateLimitConfig
    <3>2. Later(now' - LimitOf[l].window) \subseteq Later(now - LimitOf[l].window)
      BY <1>1, <3>1 DEF Later
    <3>3. Later(t) \subseteq Later(now' - LimitOf[l].window)
      BY <2>2 DEF Lasting
    <3> QED
      BY <3>2, <3>3
  <2> QED
    BY <2>1, <2>2 DEF Exact, Lasting
<1> QED
  BY <1>2, <1>3

LEMMA BooksNext == Typed /\ InQueues /\ Books /\ [Next]_vars => Books'
<1> SUFFICES ASSUME Typed, InQueues, Books, [Next]_vars
             PROVE  Books'
  OBVIOUS
<1>0. /\ request \in [Requests -> RequestState]
      /\ rateLimits \in Seq(Limits)
      /\ entries \in Logs
      /\ now \in Nat
  BY ClockAssumption DEF Typed, Registered
<1>1. ASSUME NEW G, NEW M, Admits(G, M), Records(G, M), Uncharged', now' = now,
             Distinct(rateLimits')
      PROVE  Books'
  BY <1>1, ExactKept DEF Records, Books
<1>2. ASSUME UNCHANGED <<now, entries, rateLimits>>, Uncharged',
             \A q \in Requests : /\ request'[q].charged = request[q].charged
                                 /\ request[q].charged = {} \/ request'[q].at = request[q].at
      PROVE  Books'
  <2>1. Admits({}, {}) /\ Records({}, {})
    BY <1>2, NobodyAdmitted
  <2> QED
    BY <1>1, <1>2, <2>1 DEF Books
<1>3. CASE UNCHANGED <<now, entries, rateLimits, request>>
  BY <1>2, <1>3 DEF Books, Uncharged
<1>4. ASSUME NEW r \in Requests, Denied(r)
      PROVE  Books'
  <2>1. /\ request[r].stage = "idle"
        /\ request' = [request EXCEPT ![r] = Refused("ACCESS_DENIED")]
        /\ UNCHANGED <<now, entries, rateLimits>>
    BY <1>4 DEF Denied, limiter, registry
  <2>2. Refused("ACCESS_DENIED").charged = {}
    BY VerdictFresh
  <2>3. \A q \in Requests : /\ request'[q].charged = request[q].charged
                            /\ request[q].charged = {} \/ request'[q].at = request[q].at
    BY <1>0, <2>1, <2>2 DEF Books, Uncharged
  <2>4. Uncharged'
    BY <1>0, <2>1, <2>2 DEF Books, Uncharged
  <2> QED
    BY <1>2, <2>1, <2>3, <2>4
<1>5. ASSUME NEW r \in Requests, Limit(r)
      PROVE  Books'
  <2>1. /\ \E G, M : Admits(G, M) /\ Records(G, M)
        /\ Uncharged'
        /\ now' = now /\ rateLimits' = rateLimits
    BY <1>5, LimitAdmits
  <2> QED
    BY <1>1, <2>1 DEF Books
<1>6. ASSUME NEW r \in Requests, QueueTimeout(r)
      PROVE  Books'
  <2>1. now' = now /\ rateLimits' = rateLimits
    BY <1>6 DEF QueueTimeout, registry
  <2> QED
    BY <1>1, <1>6, <2>1, TimeoutAdmits DEF Books
<1>7. ASSUME NEW r \in Requests, Onward(r)
      PROVE  Books'
  <2>1. UNCHANGED <<now, entries, rateLimits>>
    BY <1>7, TypedOnward DEF limiter, registry
  <2>2. /\ request'[r].stage \in {"input", "output", "done", "refused"}
        /\ request'[r].at = request[r].at
        /\ request'[r].charged = request[r].charged
        /\ \A q \in Requests : q # r => request'[q] = request[q]
    BY <1>7, OnwardKeeps
  <2>3. Uncharged'
    BY <2>2 DEF Books, Uncharged
  <2> QED
    BY <1>2, <2>1, <2>2, <2>3
<1>8. ASSUME NEW g \in Guardrails, RemoveGuardrail(g)
      PROVE  Books'
  <2>1. /\ UNCHANGED <<now, entries, rateLimits>>
        /\ request' = [r \in Requests |-> [request[r] EXCEPT !.lasting = @ \ {g}]]
    BY <1>8 DEF RemoveGuardrail, limiter
  <2>2. ASSUME NEW q \in Requests
        PROVE  /\ request'[q].charged = request[q].charged
               /\ request'[q].at = request[q].at
               /\ request'[q].stage = request[q].stage
    <3>1. request[q] \in RequestState
      BY <1>0
    <3> QED
      BY <2>1, <3>1 DEF RequestState
  <2>3. Uncharged'
    BY <2>2 DEF Books, Uncharged
  <2> QED
    BY <1>2, <2>1, <2>2, <2>3
<1>9. ASSUME NEW l \in Limits, AddRateLimit(l)
      PROVE  Books'
  <2>1. /\ l \notin ToSet(rateLimits)
        /\ rateLimits' = Append(rateLimits, l)
        /\ UNCHANGED <<now, entries, request>>
    BY <1>9 DEF AddRateLimit, limiter
  <2>2. Distinct(rateLimits')
    BY <1>0, <2>1, DistinctAppend DEF Books
  <2>3. Admits({}, {}) /\ Records({}, {})
    BY <2>1, NobodyAdmitted
  <2>4. Uncharged'
    BY <2>1 DEF Books, Uncharged
  <2> QED
    BY <1>1, <2>1, <2>2, <2>3, <2>4
<1>10. ASSUME NEW l \in Limits, RemoveRateLimit(l)
       PROVE  Books'
  <2>1. now' = now
    BY <1>10 DEF RemoveRateLimit
  <2> QED
    BY <1>1, <1>10, <2>1, RemovalAdmits
<1>11. CASE Change
  <2>1. \/ UNCHANGED <<now, entries, rateLimits, request>>
        \/ \E g \in Guardrails : RemoveGuardrail(g)
        \/ \E l \in Limits : AddRateLimit(l) \/ RemoveRateLimit(l)
    BY <1>11 DEF Change, AddPolicy, RemovePolicy, AddGuardrail, SetAccessPolicy,
                 RemoveAccessPolicy, limiter
  <2> QED
    BY <1>3, <1>8, <1>9, <1>10, <2>1
<1>12. CASE Clock
  <2>1. now' = now + 1 /\ UNCHANGED <<entries, rateLimits, request>>
    BY <1>12 DEF Clock, registry
  <2>2. Exact'
    BY <2>1, ExactLater DEF Books
  <2> QED
    BY <2>1, <2>2 DEF Books, Uncharged
<1>13. ASSUME NEW r \in Requests, Ask(r) \/ Proceed(r)
       PROVE  Books'
  BY <1>4, <1>5, <1>6, <1>7, <1>13 DEF Ask, Proceed, Onward
<1>14. UNCHANGED vars => UNCHANGED <<now, entries, rateLimits, request>>
  BY DEF vars, limiter, registry
<1> QED
  BY <1>3, <1>11, <1>12, <1>13, <1>14 DEF Next

LEMMA BooksAlways == Spec => []Books
<1>1. Init => Books
  <2> SUFFICES ASSUME Init
               PROVE  Books
    OBVIOUS
  <2>1. /\ rateLimits = Initially.limits
        /\ \A r \in Requests : request[r] = New
        /\ \A k \in Keys : entries[k] = <<>>
    BY DEF Init, InitLimiter
  <2>2. Distinct(rateLimits)
    <3>1. rateLimits \in Seq(Limits) /\ IsInjective(rateLimits)
      BY <2>1, InitiallyAssumption
    <3>2. DOMAIN rateLimits = 1 .. Len(rateLimits)
      BY <3>1, LenProperties
    <3> QED
      BY <3>1, <3>2 DEF IsInjective, Distinct
  <2>3. New.charged = {}
    BY VerdictFresh
  <2>4. Exact
    <3>1. \A k \in Keys, t \in Int : Charges(k, t) = {}
      BY <2>1, <2>3 DEF Charges
    <3>2. \A k \in Keys, t \in Int : Count(entries[k], Later(t)) = 0
      BY <2>1, OnlyEmpty, EmptySeq DEF Count
    <3> QED
      BY <3>1, <3>2, FS_EmptySet DEF Exact
  <2> QED
    BY <2>1, <2>2, <2>3, <2>4 DEF Books, Uncharged
<1> QED
  BY <1>1, TypedAlways, QueuesAlways, BooksNext, PTL DEF Spec

(* Logs and queues account for every request, for every number of requests   *)
(* and limits: what a log holds of its window was charged, what was charged *)
(* is in the log, and who waits is in one queue (RateLimiter.checkMultiple, *)
(* drainQueue, releaseQueued).                                             *)
THEOREM AlwaysAccounted == Spec => []Accounted
<1>1. Typed /\ Books => LogExact
  <2> SUFFICES ASSUME Typed, Books, NEW k \in Keys, NEW w \in Shortest(k)
               PROVE  Len(InLog(k, now - w)) = Cardinality(Charges(k, now - w))
    BY DEF LogExact
  <2>1. now \in Nat
    BY ClockAssumption DEF Typed
  <2>2. \A l \in Limits : LimitOf[l].window \in Nat \ {0}
    BY LimitAssumption DEF RateLimitConfig
  <2>3. w \in Nat \ {0}
    BY <2>2 DEF Shortest, Windows
  <2>4. Lasting(k, Later(now - w))
    <3> SUFFICES ASSUME NEW l \in Limits, NEW r \in Requests, Key(l, r) = k
                 PROVE  Later(now - w) \subseteq Later(now - LimitOf[l].window)
      BY DEF Lasting
    <3>1. LimitOf[l].window \in Windows(k)
      BY DEF Windows
    <3>2. w <= LimitOf[l].window
      BY <3>1 DEF Shortest
    <3> QED
      BY <2>1, <2>2, <2>3, <3>2 DEF Later
  <2>5. now - w \in Int /\ now - w < now
    BY <2>1, <2>3
  <2> QED
    BY <2>4, <2>5 DEF Books, Exact, InLog, Count
<1>2. Spec => []LogExact
  BY <1>1, TypedAlways, BooksAlways, PTL
<1> QED
  BY <1>2, AlwaysQueuedOnce, PTL DEF Accounted

-------------------------------------------------------------------------------
(* The bound of a limit, under WindowsAgree and OneKeyPerQueue *)

(* The window of a limit that ends now *)
Recent(l) == Later(now - LimitOf[l].window)

LEMMA RecentLasts ==
  ASSUME WindowsAgree, now \in Nat, NEW l \in Limits, NEW r \in Requests
  PROVE  /\ LimitOf[l].window \in Nat \ {0} /\ LimitOf[l].limit \in Nat \ {0}
         /\ Key(l, r) \in Keys
         /\ now \in Recent(l)
         /\ Lasting(Key(l, r), Recent(l))
<1>1. LimitOf[l].window \in Nat \ {0} /\ LimitOf[l].limit \in Nat \ {0}
  BY LimitAssumption DEF RateLimitConfig
<1>2. Lasting(Key(l, r), Recent(l))
  <2>1. \A m \in Limits, q \in Requests :
          Key(m, q) = Key(l, r) => LimitOf[m].window = LimitOf[l].window
    BY DEF WindowsAgree
  <2> QED
    BY <2>1 DEF Lasting, Recent
<1> QED
  BY <1>1, <1>2, KeyType DEF Recent, Later

(* A limit that is not full has room for one more. *)
LEMMA RoomLeft ==
  ASSUME now \in Nat, NEW log \in Logs, NEW l \in Limits, NEW r \in Requests
  PROVE  Full(log, l, r) <=> Count(log[Key(l, r)], Recent(l)) >= LimitOf[l].limit
<1>1. Key(l, r) \in Keys
  BY KeyType
<1>2. Evicted(log, l, r)[Key(l, r)] = Only(log[Key(l, r)], Recent(l))
  BY <1>1, EvictedType DEF Recent
<1> QED
  BY <1>2 DEF Full, Count

(* Every limit that allows a request in the first loop had room before it. *)
LEMMA AllowedRoom ==
  ASSUME WindowsAgree, now \in Nat, NEW log \in Logs, NEW r \in Requests
  PROVE  \A s \in Seq(Limits) : \A l \in ToSet(CheckAll(log, s, r).allowed) :
           l \in Limits => Count(log[Key(l, r)], Recent(l)) < LimitOf[l].limit
<1> DEFINE step == Checking(r)
           first == [log |-> log, allowed |-> <<>>, denied |-> <<>>]
           Says(c) == \A l \in ToSet(c.allowed) :
                        l \in Limits => Count(log[Key(l, r)], Recent(l)) < LimitOf[l].limit
           Good == {s \in Seq(Limits) : Says(Run(step, first, s))}
<1>0. /\ Loop(Checks, Limits, step, first)
      /\ \A s \in Seq(Limits) : CheckAll(log, s, r) = Run(step, first, s)
  BY CheckAllRuns, EmptySeq
<1>1. <<>> \in Good
  <2>1. Run(step, first, <<>>) = first /\ first.allowed = <<>> /\ <<>> \in Seq(Limits)
    BY <1>0, RunEmpty, EmptySeq
  <2> HIDE DEF first, step
  <2> QED
    BY <2>1, ToSetEmpty
<1>2. \A s \in Seq(Limits) : \A x \in Limits : s \in Good => Append(s, x) \in Good
  <2> SUFFICES ASSUME NEW s \in Seq(Limits), NEW x \in Limits, Says(Run(step, first, s))
               PROVE  Says(Run(step, first, Append(s, x)))
    BY AppendProperties
  <2> DEFINE c == Run(step, first, s)
             e == Run(step, first, Append(s, x))
             k == Key(x, r)
             T == Recent(x)
  <2>1. c \in Checks
    BY <1>0, RunType
  <2>2. e = step[<<c, x>>] /\ c = CheckAll(log, s, r)
    BY <1>0, RunAppend
  <2>3. step[<<c, x>>] = Checked(c, x, r)
    BY <2>1 DEF Checking
  <2>4. e = Checked(c, x, r) /\ Says(c) /\ c = CheckAll(log, s, r)
    BY <2>2, <2>3
  <2> HIDE DEF c, e
  <2>5. c.log \in Logs /\ c.allowed \in Seq(Limits)
    BY <2>1 DEF Checks
  <2>6. e.allowed = IF Full(c.log, x, r) THEN c.allowed ELSE Append(c.allowed, x)
    BY <2>1, <2>4, CheckedType
  <2>7. CASE Full(c.log, x, r)
    <3>1. Says(e)
      BY <2>4, <2>6, <2>7
    <3> QED
      BY <3>1 DEF e
  <2>8. CASE ~Full(c.log, x, r)
    <3>1. ToSet(e.allowed) = ToSet(c.allowed) \cup {x}
      BY <2>5, <2>6, <2>8, ToSetAppend
    <3>2. k \in Keys /\ now \in T /\ Lasting(k, T) /\ LimitOf[x].limit \in Nat
      BY RecentLasts
    <3>3. Count(c.log[k], T) < LimitOf[x].limit
      <4>1. ~(Count(c.log[k], T) >= LimitOf[x].limit) /\ Count(c.log[k], T) \in Nat
        BY <2>5, <2>8, <3>2, RoomLeft, CountNat
      <4> QED
        BY <3>2, <4>1
    <3> HIDE DEF k, T
    <3>4. Count(c.log[k], T) = Count(log[k], T) + Count(c.allowed, At(k, r))
      BY <2>4, <3>2, CheckAllEffect
    <3>5. Count(c.allowed, At(k, r)) \in Nat /\ Count(log[k], T) \in Nat
      <4>1. Count(c.allowed, At(k, r)) \in Nat
        BY <2>5, CountAppend
      <4> QED
        BY <3>2, <4>1, CountNat
    <3>6. Count(log[k], T) < LimitOf[x].limit
      BY <3>2, <3>3, <3>4, <3>5
    <3>7. Says(e)
      BY <2>4, <3>1, <3>6 DEF k, T
    <3> QED
      BY <3>7 DEF e
  <2> QED
    BY <2>7, <2>8
<1>3. \A s \in Seq(Limits) : s \in Good
  <2> HIDE DEF Good
  <2> QED
    BY <1>1, <1>2, BySequence
<1> HIDE DEF step, first
<1> QED
  BY <1>0, <1>3

(* The drain stops when there is no room left. *)
LEMMA DrainRoom ==
  ASSUME WindowsAgree, now \in Nat, NEW log \in Logs, NEW l \in Limits, NEW r \in Requests,
         Count(log[Key(l, r)], Recent(l)) <= LimitOf[l].limit
  PROVE  \A s \in Seq(Requests) :
           Count(DrainFrom(log, s, l, r).log[Key(l, r)], Recent(l)) <= LimitOf[l].limit
<1> DEFINE step == Draining(l, r)
           first == [log |-> log, released |-> 0, stopped |-> FALSE]
           k == Key(l, r)
           T == Recent(l)
           Says(d) == Count(d.log[k], T) <= LimitOf[l].limit
           Good == {s \in Seq(Requests) : Says(Run(step, first, s))}
<1>a. k \in Keys /\ now \in T /\ Lasting(k, T) /\ LimitOf[l].limit \in Nat
  BY RecentLasts
<1>b. \A full \in Logs : Full(full, l, r) <=> Count(full[k], T) >= LimitOf[l].limit
  BY RoomLeft
<1>c. Count(log[k], T) <= LimitOf[l].limit
  OBVIOUS
<1> HIDE DEF k, T
<1>0. /\ Loop(Drains, Requests, step, first)
      /\ \A s \in Seq(Requests) : DrainFrom(log, s, l, r) = Run(step, first, s)
  BY DrainRuns, EmptySeq
<1>1. <<>> \in Good
  <2>1. Run(step, first, <<>>) = first /\ <<>> \in Seq(Requests)
    BY <1>0, RunEmpty, EmptySeq
  <2>2. first.log = log
    OBVIOUS
  <2> HIDE DEF first, step
  <2> QED
    BY <1>c, <2>1, <2>2
<1>2. \A s \in Seq(Requests) : \A x \in Requests : s \in Good => Append(s, x) \in Good
  <2> SUFFICES ASSUME NEW s \in Seq(Requests), NEW x \in Requests, Says(Run(step, first, s))
               PROVE  Says(Run(step, first, Append(s, x)))
    BY AppendProperties
  <2> DEFINE d == Run(step, first, s)
             e == Run(step, first, Append(s, x))
  <2>1. d \in Drains
    BY <1>0, RunType
  <2>2. e = step[<<d, x>>]
    BY <1>0, RunAppend
  <2>3. step[<<d, x>>] = Drained(d, x, l, r)
    BY <2>1 DEF Draining
  <2>4. e = Drained(d, x, l, r) /\ Says(d)
    BY <2>2, <2>3
  <2> HIDE DEF d, e
  <2>5. d.log \in Logs
    BY <2>1 DEF Drains
  <2>6. ASSUME d.stopped \/ Full(d.log, l, r)
        PROVE  Says(e)
    <3>1. e.log = Evicted(d.log, l, r)
      BY <2>1, <2>4, <2>6, DrainedType
    <3>2. Count(e.log[k], T) = Count(d.log[k], T)
      BY <1>a, <2>5, <3>1, EvictedCount
    <3> QED
      BY <2>4, <3>2
  <2>7. ASSUME ~(d.stopped \/ Full(d.log, l, r))
        PROVE  Says(e)
    <3>1. e.log = Resolve(d.log, l, x)
      BY <2>1, <2>4, <2>7, DrainedType
    <3>2. /\ Count(d.log[k], T) \in Nat
          /\ Count(e.log[k], T) = Count(d.log[k], T) + IF k = Key(l, x) /\ now \in T THEN 1 ELSE 0
      BY <1>a, <2>5, <3>1, ResolveType
    <3>3. ~(Count(d.log[k], T) >= LimitOf[l].limit)
      BY <1>b, <2>5, <2>7
    <3> QED
      BY <1>a, <3>2, <3>3
  <2> QED
    BY <2>6, <2>7 DEF e
<1>3. \A s \in Seq(Requests) : s \in Good
  <2> HIDE DEF Good
  <2> QED
    BY <1>1, <1>2, BySequence
<1> HIDE DEF step, first
<1> QED
  BY <1>0, <1>3 DEF k, T

(* Those a limit admitted under k, other than by being removed, in the       *)
(* window that ends at t; req is the state of the requests.                *)
Members(req, l, k, t) ==
  {q \in Requests : /\ l \in req[q].charged
                    /\ req[q].waits = "none"
                    /\ Key(l, q) = k
                    /\ req[q].at \in t - LimitOf[l].window + 1 .. t}

ChargedIn(req, k, since) ==
  {c \in Requests \X Limits : /\ c[2] \in req[c[1]].charged
                              /\ Key(c[2], c[1]) = k
                              /\ req[c[1]].at > since}

Stamped(req) == \A q \in Requests : req[q].at \in Int

LEMMA MembersCharged ==
  ASSUME NEW req, Stamped(req),
         NEW l \in Limits, NEW k \in Keys, NEW t \in Int, NEW n \in Int, n <= t
  PROVE  /\ IsFiniteSet(Members(req, l, k, t))
         /\ Cardinality(Members(req, l, k, t)) \in Nat
         /\ Cardinality(Members(req, l, k, t)) <= Cardinality(ChargedIn(req, k, n - LimitOf[l].window))
<1> DEFINE since == n - LimitOf[l].window
           charges == ChargedIn(req, k, since)
           members == Members(req, l, k, t)
<1>1. LimitOf[l].window \in Int
  BY LimitAssumption DEF RateLimitConfig
<1>2. members \X {l} \subseteq charges
  BY <1>1 DEF Members, ChargedIn, Stamped
<1>3. members \in SUBSET Requests /\ charges \in SUBSET (Requests \X Limits)
  BY DEF Members, ChargedIn
<1> HIDE DEF members, charges
<1>4. IsFiniteSet(members) /\ IsFiniteSet(charges)
  <2>1. IsFiniteSet(Requests \X Limits)
    BY FinitenessAssumption, FS_Product
  <2> QED
    BY <1>3, <2>1, FinitenessAssumption, FS_Subset
<1>5. Cardinality(members) \in Nat /\ Cardinality(charges) \in Nat
  BY <1>4, FS_CardinalityType
<1>6. Cardinality(members \X {l}) = Cardinality(members)
  <2>1. Cardinality(members \X {l}) = Cardinality(members) * Cardinality({l}) /\ Cardinality({l}) = 1
    BY <1>4, FS_Product, FS_Singleton
  <2>2. Cardinality(members) * 1 = Cardinality(members)
    BY <1>5
  <2> QED
    BY <2>1, <2>2
<1>7. Cardinality(members \X {l}) <= Cardinality(charges)
  BY <1>2, <1>4, FS_Subset
<1> QED
  BY <1>4, <1>5, <1>6, <1>7 DEF members, charges, since

Bound ==
  \A l \in Limits, k \in Keys, t \in Int : Cardinality(Members(request, l, k, t)) <= LimitOf[l].limit

QueuesAllowed == \A l \in Limits, q \in Requests : Waits(request[q], l) => LimitOf[l].behavior = "queue"

(* The log of a key has no more records in a window than charges. *)
LEMMA RecentExact ==
  ASSUME now \in Nat, NEW log, NEW req, Stamped(req),
         NEW l \in Limits, NEW k \in Keys, NEW t \in Int, now <= t,
         Count(log[k], Recent(l)) = Cardinality(ChargedIn(req, k, now - LimitOf[l].window))
  PROVE  /\ IsFiniteSet(Members(req, l, k, t))
         /\ Cardinality(Members(req, l, k, t)) \in Nat
         /\ Cardinality(Members(req, l, k, t)) <= Count(log[k], Recent(l))
BY MembersCharged

(* Members change by those of G only, and by those when the window ends now  *)
(* or later.                                                               *)
Rests(q) ==
  /\ request'[q].charged = request[q].charged
  /\ \/ request[q].charged = {}
     \/ request'[q].at = request[q].at /\ request'[q].waits = request[q].waits

Joins(G) ==
  /\ \A q \in Requests \ G : Rests(q)
  /\ \A q \in G : request'[q].waits = "none" => request'[q].at = now
  /\ \A l \in Limits, q \in G, t \in Int :
       l \in request'[q].charged /\ request'[q].waits = "none" /\ now <= t =>
         Cardinality(Members(request', l, Key(l, q), t)) <= LimitOf[l].limit

LEMMA BoundKept ==
  ASSUME Typed, Bound, NEW G \in SUBSET Requests, Joins(G)
  PROVE  Bound'
<1> SUFFICES ASSUME NEW l \in Limits, NEW k \in Keys, NEW t \in Int
             PROVE  Cardinality(Members(request', l, k, t)) <= LimitOf[l].limit
  BY DEF Bound
<1> DEFINE old == Members(request, l, k, t)
           new == Members(request', l, k, t)
<1>1. /\ request \in [Requests -> RequestState] /\ now \in Nat
      /\ LimitOf[l].window \in Nat \ {0} /\ LimitOf[l].limit \in Nat
  BY ClockAssumption, LimitAssumption DEF Typed, RateLimitConfig
<1>2. IsFiniteSet(old) /\ Cardinality(old) \in Nat
  <2>1. Stamped(request)
    BY <1>1 DEF RequestState, Stamped
  <2> QED
    BY <1>1, <2>1, MembersCharged
<1>3. CASE \E q \in G : q \in new
  <2>1. PICK q \in G : q \in new
    BY <1>3
  <2>2. /\ l \in request'[q].charged /\ request'[q].waits = "none" /\ Key(l, q) = k
        /\ request'[q].at \in t - LimitOf[l].window + 1 .. t
    BY <2>1 DEF Members
  <2>3. now <= t
    BY <1>1, <2>2 DEF Joins
  <2> QED
    BY <2>2, <2>3 DEF Joins
<1>4. CASE \A q \in G : q \notin new
  <2>1. new \subseteq old
    <3> SUFFICES ASSUME NEW q \in new
                 PROVE  q \in old
      OBVIOUS
    <3>1. q \in Requests \ G
      BY <1>4 DEF Members
    <3>2. /\ request'[q].charged = request[q].charged
          /\ \/ request[q].charged = {}
             \/ request'[q].at = request[q].at /\ request'[q].waits = request[q].waits
      BY <3>1 DEF Joins, Rests
    <3> QED
      BY <3>1, <3>2 DEF Members
  <2> HIDE DEF old, new
  <2>2. Cardinality(new) <= Cardinality(old) /\ IsFiniteSet(new)
    BY <1>2, <2>1, FS_Subset
  <2>3. Cardinality(new) \in Nat
    BY <2>2, FS_CardinalityType
  <2>4. Cardinality(old) <= LimitOf[l].limit
    BY DEF Bound, old
  <2>5. Cardinality(new) <= LimitOf[l].limit
    BY <1>1, <1>2, <2>2, <2>3, <2>4
  <2> QED
    BY <2>5 DEF new
<1> QED
  BY <1>3, <1>4

(* Nothing is admitted: nothing to show. *)
LEMMA BoundRests ==
  ASSUME Typed, Bound, \A q \in Requests : Rests(q)
  PROVE  Bound'
<1>1. Joins({})
  BY DEF Joins
<1> QED
  BY <1>1, BoundKept

(* Every limit allows the request: one more, where there was room. *)
LEMMA BoundAllows ==
  ASSUME WindowsAgree, Typed, Books, Bound, NEW r \in Requests, request[r].stage = "idle",
         AllAllow(r, CheckAll(entries, Applicable(r), r))
  PROVE  Bound'
<1> DEFINE check == CheckAll(entries, Applicable(r), r)
           M == ToSet(check.allowed)
<1>1. /\ now \in Nat
      /\ request \in [Requests -> RequestState]
      /\ entries \in Logs
      /\ Applicable(r) \in Seq(Limits)
      /\ M \subseteq Limits
  BY LimitParts DEF Typed
<1>2. request' = [request EXCEPT ![r] = Admitted(M)]
  BY DEF AllAllow
<1>3. \A l \in M : Count(entries[Key(l, r)], Recent(l)) < LimitOf[l].limit
  <2>1. \A l \in ToSet(check.allowed) :
          l \in Limits => Count(entries[Key(l, r)], Recent(l)) < LimitOf[l].limit
    BY <1>1, AllowedRoom
  <2> QED
    BY <1>1, <2>1
<1> HIDE DEF check, M
<1>4. /\ Admitted(M).charged = M /\ Admitted(M).at = now /\ Admitted(M).waits = "none"
      /\ request[r].charged = {}
  BY <1>1, VerdictType, VerdictFresh DEF Books, Uncharged
<1>5. ASSUME NEW l \in M, NEW t \in Int, now <= t
      PROVE  Cardinality(Members(request', l, Key(l, r), t)) <= LimitOf[l].limit
  <2> DEFINE k == Key(l, r)
             old == Members(request, l, k, t)
             new == Members(request', l, k, t)
  <2>1. l \in Limits /\ k \in Keys /\ LimitOf[l].window \in Nat \ {0} /\ LimitOf[l].limit \in Nat
        /\ now \in Recent(l) /\ Lasting(k, Recent(l))
    BY <1>1, RecentLasts
  <2>2. Count(entries[k], Recent(l)) = Cardinality(Charges(k, now - LimitOf[l].window))
    <3>1. now - LimitOf[l].window \in Int /\ now - LimitOf[l].window < now
      BY <1>1, <2>1
    <3>2. Lasting(k, Later(now - LimitOf[l].window))
      BY <2>1 DEF Recent
    <3> QED
      BY <2>1, <3>1, <3>2 DEF Books, Exact, Recent
  <2>3. IsFiniteSet(old) /\ Cardinality(old) \in Nat /\ Cardinality(old) <= Count(entries[k], Recent(l))
    <3>1. Stamped(request)
      BY <1>1 DEF RequestState, Stamped
    <3>2. Count(entries[k], Recent(l)) = Cardinality(ChargedIn(request, k, now - LimitOf[l].window))
      BY <2>2 DEF Charges, ChargedIn
    <3> HIDE DEF k
    <3> QED
      BY <1>1, <1>5, <2>1, <3>1, <3>2, RecentExact
  <2>4. new \subseteq old \cup {r}
    BY <1>1, <1>2 DEF Members
  <2>5. Count(entries[k], Recent(l)) < LimitOf[l].limit /\ Count(entries[k], Recent(l)) \in Nat
    BY <1>1, <1>3, <2>1, CountNat
  <2> HIDE DEF old, new
  <2>6. IsFiniteSet(old \cup {r}) /\ Cardinality(old \cup {r}) <= Cardinality(old) + 1
    <3>1. /\ IsFiniteSet(old \cup {r})
          /\ Cardinality(old \cup {r}) = IF r \in old THEN Cardinality(old) ELSE Cardinality(old) + 1
      BY <2>3, FS_AddElement
    <3> QED
      BY <2>3, <3>1
  <2>7. IsFiniteSet(new) /\ Cardinality(new) <= Cardinality(old \cup {r})
    BY <2>4, <2>6, FS_Subset
  <2>8. Cardinality(new) \in Nat /\ Cardinality(old \cup {r}) \in Nat
    BY <2>6, <2>7, FS_CardinalityType
  <2>9. Cardinality(new) <= LimitOf[l].limit
    BY <2>1, <2>3, <2>5, <2>6, <2>7, <2>8
  <2> QED
    BY <2>9 DEF new
<1>6. \A q \in Requests \ {r} : request'[q] = request[q]
  BY <1>1, <1>2
<1>7. request'[r] = Admitted(M)
  BY <1>1, <1>2
<1>8. Joins({r})
  BY <1>4, <1>5, <1>6, <1>7 DEF Joins, Rests
<1> QED
  BY <1>8, BoundKept

(* The drain takes only from the queue. *)
LEMMA DrainTakes ==
  ASSUME now \in Nat, NEW log \in Logs, NEW l \in Limits, NEW r \in Requests,
         queues[l] \in Seq(Requests)
  PROVE  Oldest(l, Drain(log, l, r).released) \subseteq ToSet(queues[l])
<1> DEFINE s == queues[l]
           n == Drain(log, l, r).released
<1>1. n \in 0 .. Len(s)
  <2>1. Key(l, r) \in Keys /\ Lasting(Key(l, r), {now}) /\ now \in {now}
    BY KeyType, NowLasts
  <2>2. DrainFrom(log, s, l, r).released \in 0 .. Len(s)
    BY <2>1, DrainEffect
  <2> QED
    BY <2>2, OverQueues
<1> HIDE DEF n
<1>2. Len(s) \in Nat /\ n \in Nat /\ n <= Len(s)
  BY <1>1, LenProperties
<1>3. \A i \in 1 .. n : i \in 1 .. Len(s)
  BY <1>2
<1>4. \A i \in 1 .. n : s[i] \in ToSet(s)
  BY <1>3, ToSetType
<1> QED
  BY <1>4 DEF Oldest, n

(* The request is allowed at the second check, and the queue drained. *)
LEMMA BoundDrains ==
  ASSUME WindowsAgree, OneKeyPerQueue, Typed, InQueues, Books, Books', Bound, QueuesAllowed,
         NEW r \in Requests, now' = now,
         entries' \in Logs, request' \in [Requests -> RequestState],
         NEW l \in Limits, NEW log \in Logs,
         AllowedAgain(r, l, CheckSync(log, l, r))
  PROVE  Bound'
<1> DEFINE checked == CheckSync(log, l, r).log
           drain == Drain(checked, l, r)
           n == drain.released
           G == {r} \cup Oldest(l, n)
           k == Key(l, r)
<1>1. /\ now \in Nat
      /\ request \in [Requests -> RequestState]
      /\ queues[l] \in Seq(Requests)
  BY ClockAssumption DEF Typed
<1>2. /\ CheckSync(log, l, r).allowed
      /\ entries' = drain.log
      /\ request' = [q \in Requests |-> IF q = r \/ q \in Oldest(l, n) THEN Admitted({l})
                                                                       ELSE request[q]]
  BY DEF AllowedAgain
<1>3. /\ k \in Keys /\ LimitOf[l].window \in Nat \ {0} /\ LimitOf[l].limit \in Nat \ {0}
      /\ now \in Recent(l) /\ Lasting(k, Recent(l))
  BY <1>1, RecentLasts
<1>4. Count(entries'[k], Recent(l)) <= LimitOf[l].limit
  <2>1. /\ CheckSync(log, l, r).allowed = ~Full(log, l, r)
        /\ CheckSync(log, l, r).log = IF Full(log, l, r) THEN Evicted(log, l, r)
                                      ELSE Recorded(Evicted(log, l, r), l, r)
        /\ checked \in Logs
    BY <1>1, CheckSyncType
  <2>2. ~Full(log, l, r) /\ checked = Recorded(Evicted(log, l, r), l, r)
    BY <1>2, <2>1
  <2> HIDE DEF checked
  <2>3. ~(Count(log[k], Recent(l)) >= LimitOf[l].limit)
    BY <1>1, <2>2, RoomLeft
  <2> HIDE DEF k
  <2>4. Count(log[k], Recent(l)) \in Nat
    BY <1>1, <1>3, CountNat
  <2>5. Evicted(log, l, r) \in Logs /\ Count(Evicted(log, l, r)[k], Recent(l)) = Count(log[k], Recent(l))
    BY <1>3, EvictedType, EvictedCount
  <2>6. Count(checked[k], Recent(l))
          = Count(Evicted(log, l, r)[k], Recent(l)) + IF k = Key(l, r) /\ now \in Recent(l) THEN 1 ELSE 0
    BY <1>1, <1>3, <2>2, <2>5, RecordedCount
  <2>7. Count(checked[k], Recent(l)) <= LimitOf[l].limit
    BY <1>3, <2>3, <2>4, <2>5, <2>6
  <2>8. Count(DrainFrom(checked, queues[l], l, r).log[k], Recent(l)) <= LimitOf[l].limit
    BY <1>1, <2>1, <2>7, DrainRoom DEF k
  <2> QED
    BY <1>2, <2>8, OverQueues
<1>5. Oldest(l, n) \subseteq ToSet(queues[l]) /\ ToSet(queues[l]) \subseteq Requests
  <2>1. checked \in Logs
    BY <1>1, CheckSyncType
  <2> HIDE DEF checked
  <2> QED
    BY <1>1, <2>1, DrainTakes, ToSetType
<1> HIDE DEF n, drain, checked
<1>6. \A q \in G : Key(l, q) = k
  <2>1. ASSUME NEW q \in Oldest(l, n)
        PROVE  Key(l, q) = k
    <3>1. q \in Requests /\ Waits(request[q], l)
      BY <1>5, <2>1 DEF InQueues
    <3>2. LimitOf[l].behavior = "queue"
      BY <3>1 DEF QueuesAllowed
    <3> QED
      BY <3>1, <3>2 DEF OneKeyPerQueue
  <2> QED
    BY <2>1
<1>7. /\ Admitted({l}).charged = {l} /\ Admitted({l}).at = now
      /\ G \subseteq Requests
      /\ \A q \in G : request'[q] = Admitted({l})
      /\ \A q \in Requests \ G : request'[q] = request[q]
  BY <1>1, <1>2, <1>5, VerdictType
<1>8. ASSUME NEW t \in Int, now <= t
      PROVE  Cardinality(Members(request', l, k, t)) <= LimitOf[l].limit
  <2> DEFINE since == now - LimitOf[l].window
             charges == ChargedIn(request', k, since)
  <2>1. Count(entries'[k], Recent(l)) = Cardinality(charges)
    <3>1. since \in Int /\ since < now
      BY <1>1, <1>3
    <3>2. Lasting(k, Later(since))
      BY <1>3 DEF Recent
    <3>3. \A j \in Keys, i \in Int :
            i < now /\ Lasting(j, Later(i)) =>
              Count(entries'[j], Later(i)) = Cardinality(ChargedIn(request', j, i))
      <4>1. Exact'
        BY DEF Books
      <4> QED
        BY <4>1 DEF Exact, Lasting, Charges, ChargedIn
    <3> HIDE DEF since, k
    <3>4. Count(entries'[k], Later(since)) = Cardinality(charges)
      BY <1>3, <3>1, <3>2, <3>3
    <3> QED
      BY <3>4 DEF since, Recent
  <2>2. Stamped(request')
    BY DEF RequestState, Stamped
  <2> HIDE DEF k
  <2>3. /\ Cardinality(Members(request', l, k, t)) \in Nat
        /\ Cardinality(Members(request', l, k, t)) <= Count(entries'[k], Recent(l))
    BY <1>1, <1>3, <1>8, <2>1, <2>2, RecentExact
  <2>4. Count(entries'[k], Recent(l)) \in Nat
    BY <1>1, <1>3, CountNat
  <2> QED
    BY <1>3, <1>4, <2>3, <2>4
<1> HIDE DEF G
<1>9. Joins(G)
  BY <1>6, <1>7, <1>8 DEF Joins, Rests
<1> QED
  BY <1>7, <1>9, BoundKept

Bounded == Bound /\ QueuesAllowed

LEMMA LimitBounded ==
  ASSUME WindowsAgree, OneKeyPerQueue, Typed, InQueues, Books, Books', Bounded,
         NEW r \in Requests, Limit(r)
  PROVE  Bounded'
<1> DEFINE check == CheckAll(entries, Applicable(r), r)
           undone == Undo(check.log, check.allowed, r)
<1>1. /\ now \in Nat
      /\ ToSet(check.allowed) \subseteq Limits
      /\ check.denied # <<>> => Head(check.denied) \in Limits
      /\ undone \in Logs
  BY LimitParts
<1>2. /\ request[r].stage = "idle"
      /\ \/ AllAllow(r, check)
         \/ /\ check.denied # <<>>
            /\ LET l == Head(check.denied)
                   retry == CheckSync(undone, l, r)
               IN  AllowedAgain(r, l, retry) \/ Queues(r, l, retry) \/ RateLimited(r, l, retry)
  BY DEF Limit
<1>3. request \in [Requests -> RequestState]
  BY DEF Typed
<1>4. entries' \in Logs /\ request' \in [Requests -> RequestState] /\ now' = now
  BY TypedLimit
<1>5. AllAllow(r, check) => Bound'
  BY <1>2, BoundAllows DEF Bounded
<1> HIDE DEF check, undone
<1>6. ASSUME NEW next, request' = [request EXCEPT ![r] = next],
             \A l \in Limits : Waits(next, l) => LimitOf[l].behavior = "queue"
      PROVE  QueuesAllowed'
  BY <1>3, <1>6 DEF Bounded, QueuesAllowed
<1>7. ASSUME NEW next, request' = [request EXCEPT ![r] = next], next.charged = {}
      PROVE  Bound'
  <2>1. \A q \in Requests : Rests(q)
    BY <1>2, <1>3, <1>7 DEF Rests, Books, Uncharged
  <2> QED
    BY <2>1, BoundRests DEF Bounded
<1>8. CASE AllAllow(r, check)
  <2>1. request' = [request EXCEPT ![r] = Admitted(ToSet(check.allowed))]
    BY <1>8 DEF AllAllow
  <2>2. \A l : ~Waits(Admitted(ToSet(check.allowed)), l)
    BY <1>1, VerdictType DEF Waits
  <2> QED
    BY <1>5, <1>6, <1>8, <2>1, <2>2 DEF Bounded
<1>9. ASSUME NEW l \in Limits, AllowedAgain(r, l, CheckSync(undone, l, r))
      PROVE  Bounded'
  <2> DEFINE G == Oldest(l, Drain(CheckSync(undone, l, r).log, l, r).released)
  <2>1. Bound'
    BY <1>1, <1>4, <1>9, BoundDrains DEF Bounded
  <2>2. request' = [q \in Requests |-> IF q = r \/ q \in G THEN Admitted({l}) ELSE request[q]]
    BY <1>9 DEF AllowedAgain
  <2> HIDE DEF G
  <2>3. \A m : ~Waits(Admitted({l}), m)
    BY <1>1, VerdictType DEF Waits
  <2>4. QueuesAllowed'
    BY <2>2, <2>3 DEF Bounded, QueuesAllowed
  <2> QED
    BY <2>1, <2>4 DEF Bounded
<1>10. ASSUME NEW l \in Limits, Queues(r, l, CheckSync(undone, l, r))
       PROVE  Bounded'
  <2>1. LimitOf[l].behavior = "queue" /\ request' = [request EXCEPT ![r] = Waiting(l)]
    BY <1>10 DEF Queues, Waiting
  <2>2. Waiting(l).charged = {} /\ \A m \in Limits : Waits(Waiting(l), m) => m = l
    BY <1>1, VerdictType, VerdictFresh DEF Waits
  <2> QED
    BY <1>6, <1>7, <2>1, <2>2 DEF Bounded
<1>11. ASSUME NEW l \in Limits, RateLimited(r, l, CheckSync(undone, l, r))
       PROVE  Bounded'
  <2>1. request' = [request EXCEPT ![r] = Refused("RATE_LIMITED")]
    BY <1>11 DEF RateLimited
  <2>2. /\ Refused("RATE_LIMITED").charged = {}
        /\ \A m : ~Waits(Refused("RATE_LIMITED"), m)
    BY <1>1, VerdictType, VerdictFresh DEF Waits
  <2> QED
    BY <1>6, <1>7, <2>1, <2>2 DEF Bounded
<1> QED
  BY <1>1, <1>2, <1>8, <1>9, <1>10, <1>11

LEMMA BoundedNext ==
  ASSUME WindowsAgree, OneKeyPerQueue
  PROVE  Typed /\ InQueues /\ Books /\ Books' /\ Bounded /\ [Next]_vars => Bounded'
<1> SUFFICES ASSUME Typed, InQueues, Books, Books', Bounded, [Next]_vars
             PROVE  Bounded'
  OBVIOUS
<1>0. request \in [Requests -> RequestState] /\ now \in Nat
  BY ClockAssumption DEF Typed
<1>1. ASSUME \A q \in Requests : Rests(q),
             \A q \in Requests, l \in Limits : Waits(request'[q], l) => Waits(request[q], l)
      PROVE  Bounded'
  <2>1. Bound'
    BY <1>1, BoundRests DEF Bounded
  <2> QED
    BY <1>1, <2>1 DEF Bounded, QueuesAllowed
<1>2. CASE UNCHANGED request
  BY <1>1, <1>2 DEF Rests
<1>3. ASSUME NEW r \in Requests, NEW code \in {"ACCESS_DENIED", "RATE_LIMITED"},
             request[r].stage \in {"idle", "queued"},
             request' = [request EXCEPT ![r] = Refused(code)]
      PROVE  Bounded'
  <2>1. Refused(code).charged = {} /\ \A m : ~Waits(Refused(code), m)
    BY <1>0, VerdictType, VerdictFresh DEF Waits
  <2>2. request[r].charged = {}
    BY <1>3 DEF Books, Uncharged
  <2>3. \A q \in Requests : IF q = r THEN request'[q] = Refused(code) ELSE request'[q] = request[q]
    BY <1>0, <1>3
  <2>4. \A q \in Requests : Rests(q)
    BY <2>1, <2>2, <2>3 DEF Rests
  <2> QED
    BY <1>1, <2>1, <2>3, <2>4
<1>4. ASSUME NEW r \in Requests, Onward(r)
      PROVE  Bounded'
  <2>1. /\ request'[r].stage \in {"input", "output", "done", "refused"}
        /\ request'[r].at = request[r].at
        /\ request'[r].charged = request[r].charged
        /\ request'[r].waits = request[r].waits
        /\ \A q \in Requests : q # r => request'[q] = request[q]
    BY <1>4, OnwardKeeps
  <2> QED
    BY <1>1, <2>1 DEF Rests, Waits
<1>5. ASSUME NEW g \in Guardrails, RemoveGuardrail(g)
      PROVE  Bounded'
  <2>1. request' = [r \in Requests |-> [request[r] EXCEPT !.lasting = @ \ {g}]]
    BY <1>5 DEF RemoveGuardrail
  <2>2. ASSUME NEW q \in Requests
        PROVE  Rests(q) /\ \A l \in Limits : Waits(request'[q], l) => Waits(request[q], l)
    <3>1. request[q] \in RequestState
      BY <1>0
    <3>2. /\ request'[q].charged = request[q].charged
          /\ request'[q].at = request[q].at
          /\ request'[q].waits = request[q].waits
          /\ request'[q].stage = request[q].stage
      BY <2>1, <3>1 DEF RequestState
    <3> QED
      BY <3>2 DEF Rests, Waits
  <2> QED
    BY <1>1, <2>2
<1>6. ASSUME NEW l \in Limits, RemoveRateLimit(l)
      PROVE  Bounded'
  <2> DEFINE next == [Admitted({l}) EXCEPT !.waits = l]
             G == {q \in Requests : Waits(request[q], l)}
  <2>1. request' = [q \in Requests |-> IF Waits(request[q], l) THEN next ELSE request[q]]
    BY <1>6 DEF RemoveRateLimit, Waits
  <2>2. next.stage = "admitted" /\ next.waits = l /\ l # "none"
    BY <1>0, ReleasedType, InitiallyAssumption
  <2> HIDE DEF next
  <2>3. Joins(G)
    <3>1. \A q \in Requests \ G : Rests(q)
      BY <2>1 DEF Rests
    <3>2. \A q \in G : request'[q].waits # "none"
      BY <2>1, <2>2
    <3> QED
      BY <3>1, <3>2 DEF Joins
  <2>4. Bound'
    BY <2>3, BoundKept DEF Bounded
  <2>5. QueuesAllowed'
    BY <2>1, <2>2 DEF Bounded, QueuesAllowed, Waits
  <2> QED
    BY <2>4, <2>5 DEF Bounded
<1>7. CASE Change
  <2>1. \/ UNCHANGED request
        \/ \E g \in Guardrails : RemoveGuardrail(g)
        \/ \E l \in Limits : RemoveRateLimit(l)
    BY <1>7 DEF Change, AddPolicy, RemovePolicy, AddGuardrail, AddRateLimit, SetAccessPolicy,
                RemoveAccessPolicy
  <2> QED
    BY <1>2, <1>5, <1>6, <2>1
<1>8. ASSUME NEW r \in Requests, Ask(r) \/ Proceed(r)
      PROVE  Bounded'
  <2>1. Denied(r) => Bounded'
    BY <1>3 DEF Denied
  <2>2. QueueTimeout(r) => Bounded'
    BY <1>3 DEF QueueTimeout
  <2>3. Limit(r) => Bounded'
    BY LimitBounded
  <2> QED
    BY <1>4, <1>8, <2>1, <2>2, <2>3 DEF Ask, Proceed, Onward
<1>9. Clock => UNCHANGED request
  BY DEF Clock
<1> QED
  BY <1>2, <1>7, <1>8, <1>9 DEF Next, vars

(* In no window are more requests admitted against a limit than it has room  *)
(* for (RateLimiter.check, checkMultiple, drainQueue), for every number of  *)
(* requests and limits, whatever is added and removed: provided that limits *)
(* of one key agree on the window and a limit that queues has one key.     *)
THEOREM AlwaysWithinLimit ==
  ASSUME WindowsAgree, OneKeyPerQueue
  PROVE  Spec => []WithinLimit
<1>1. Init => Bounded
  <2> SUFFICES ASSUME Init
               PROVE  Bounded
    OBVIOUS
  <2>1. \A r \in Requests : request[r] = New
    BY DEF Init
  <2>2. New.charged = {} /\ New.stage = "idle"
    BY VerdictFresh
  <2>3. \A l \in Limits, k \in Keys, t \in Int : Members(request, l, k, t) = {}
    BY <2>1, <2>2 DEF Members
  <2>4. \A l \in Limits : LimitOf[l].limit \in Nat
    BY LimitAssumption DEF RateLimitConfig
  <2>5. Bound
    <3> SUFFICES ASSUME NEW l \in Limits, NEW k \in Keys, NEW t \in Int
                 PROVE  Cardinality(Members(request, l, k, t)) <= LimitOf[l].limit
      BY DEF Bound
    <3>1. Members(request, l, k, t) = {}
      BY <2>3
    <3>2. Cardinality(Members(request, l, k, t)) = 0
      BY <3>1, FS_EmptySet
    <3> QED
      BY <2>4, <3>2
  <2> QED
    BY <2>1, <2>2, <2>5 DEF Bounded, QueuesAllowed, Waits
<1>2. Typed /\ Bounded => WithinLimit
  <2> SUFFICES ASSUME Typed, Bounded, NEW r \in Requests, NEW l \in request[r].charged
               PROVE  Cardinality(Within(l, r)) <= LimitOf[l].limit
    BY DEF WithinLimit
  <2>1. request[r] \in RequestState /\ now \in Nat
    BY ClockAssumption DEF Typed
  <2>2. l \in Limits /\ request[r].at \in Int
    BY <2>1 DEF RequestState
  <2>3. Within(l, r) = Members(request, l, Key(l, r), request[r].at)
    BY DEF Within, Members
  <2>4. Key(l, r) \in Keys
    BY <2>2, KeyType
  <2> QED
    BY <2>2, <2>3, <2>4 DEF Bounded, Bound
<1>3. Typed /\ InQueues /\ Books /\ Books' /\ Bounded /\ [Next]_vars => Bounded'
  BY BoundedNext
<1>4. Spec => []Bounded
  BY <1>1, <1>3, TypedAlways, QueuesAlways, BooksAlways, PTL DEF Spec
<1> QED
  BY <1>2, <1>4, TypedAlways, PTL
===============================================================================
