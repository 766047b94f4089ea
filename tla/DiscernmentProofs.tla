-------------------------- MODULE DiscernmentProofs ---------------------------
(***************************************************************************)
(* Proofs, for every number of flows, objectives, cycles and               *)
(* recommendations and any grace period, of what the run of                *)
(* DiscernmentProperties checks on a small instance: what is armed can be  *)
(* called off, what is executed was deliberate, and advice is decided on   *)
(* before the next.                                                        *)
(***************************************************************************)
EXTENDS DiscernmentProperties, SequenceTheorems, TLAPS

Recommendation ==
  [target : Flows, action : Actions, status : Statuses, report : Nat, at : Nat]

Tag == [primary : Names \cup {"", "untagged"}, secondary : SUBSET Names]

(* Types, and what refers to what *)
RegistriesSound ==
  /\ objectives \subseteq Names /\ flowRegistry \subseteq Flows
  /\ flowTags \in [Flows -> Tag]
  /\ enforceable \subseteq flowRegistry

Booked ==
  /\ reports \in Seq([at : Nat, stored : BOOLEAN])
  /\ recs \in Seq(Recommendation)
  /\ \A i \in DOMAIN recs : recs[i].report \in DOMAIN reports
  /\ recommendations \subseteq DOMAIN recs /\ pendingActions \subseteq DOMAIN recs
  /\ lastAdvise \in 0 .. Len(reports)

(* A cycle is begun only with room for its report. *)
Room ==
  /\ now \in Nat
  /\ engine \in {"ready", "shutting_down", "stopped"}
  /\ Len(reports) <= MaxCycles
  /\ cycle # NoCycle => Len(reports) < MaxCycles

(* An armed recommendation can be called off, is due after its grace period,  *)
(* and was to be executed on a flow that had opted in.                     *)
ArmedSound(i) ==
  /\ i \in pendingActions
  /\ recs[i].status \notin {"overridden", "executed"}
  /\ autonomy = "enforce"
  /\ timers[i] = recs[i].at + Grace
  /\ recs[i].target \in flowRegistry => recs[i].target \in enforceable \/ i \in renewed

IInv ==
  /\ RegistriesSound /\ Booked /\ Room
  /\ \A i \in DOMAIN timers : ArmedSound(i)
  /\ AdviceDecided

-------------------------------------------------------------------------------
(* What steps do to the books *)

(* What the books hold of a recommendation *)
LEMMA RecommendationType ==
  ASSUME Booked, NEW i \in DOMAIN recs
  PROVE  /\ recs[i].target \in Flows /\ recs[i].action \in Actions
         /\ recs[i].status \in Statuses /\ recs[i].at \in Nat
<1>1. recs \in Seq(Recommendation) /\ DOMAIN recs = 1 .. Len(recs)
  BY LenProperties DEF Booked
<1>2. recs \in [1 .. Len(recs) -> Recommendation]
  BY <1>1, LenProperties
<1>3. recs[i] \in Recommendation
  BY <1>1, <1>2
<1>4. QED
  BY <1>3 DEF Recommendation

(* A decision changes the status of one recommendation and nothing else of it. *)
StatusOf(i, s) ==
  /\ recs' \in Seq(Recommendation) /\ DOMAIN recs' = DOMAIN recs
  /\ \A j \in DOMAIN recs :
       /\ recs'[j].target = recs[j].target /\ recs'[j].action = recs[j].action
       /\ recs'[j].report = recs[j].report /\ recs'[j].at = recs[j].at
       /\ recs'[j].status = IF j = i THEN s ELSE recs[j].status

LEMMA StatusSet ==
  ASSUME Booked, NEW i \in DOMAIN recs, NEW s \in Statuses,
         recs' = [recs EXCEPT ![i].status = s]
  PROVE  StatusOf(i, s)
<1> DEFINE n == Len(recs)
           rec == [recs[i] EXCEPT !.status = s]
<1>1. /\ recs \in Seq(Recommendation) /\ n \in Nat /\ DOMAIN recs = 1 .. n
      /\ recs \in [1 .. n -> Recommendation]
  BY LenProperties DEF Booked
<1>2. recs[i] \in Recommendation
  BY <1>1
<1>3. /\ rec \in Recommendation /\ rec.status = s
      /\ rec.target = recs[i].target /\ rec.action = recs[i].action
      /\ rec.report = recs[i].report /\ rec.at = recs[i].at
  BY <1>2 DEF Recommendation
<1>4. recs' = [recs EXCEPT ![i] = rec]
  BY <1>1
<1> HIDE DEF rec
<1>5. recs' \in [1 .. n -> Recommendation] /\ \A j \in 1 .. n : recs'[j] = IF j = i THEN rec ELSE recs[j]
  BY <1>1, <1>3, <1>4
<1>6. recs' \in Seq(Recommendation)
  BY <1>1, <1>5, SeqDef
<1>7. DOMAIN recs' = DOMAIN recs
  BY <1>1, <1>5
<1>8. QED
  BY <1>1, <1>3, <1>5, <1>6, <1>7 DEF StatusOf

Made == [target : Flows, action : Actions]

(* Sequences with the same indices are as long. *)
LEMMA SameLength == \A k, l \in Nat : 1 .. k = 1 .. l => k = l
<1> SUFFICES ASSUME NEW k \in Nat, NEW l \in Nat, k # l PROVE 1 .. k # 1 .. l
  OBVIOUS
<1>1. CASE k < l
  <2>1. l \in 1 .. l /\ l \notin 1 .. k
    BY <1>1
  <2>2. QED
    BY <2>1
<1>2. CASE l < k
  <2>1. k \in 1 .. k /\ k \notin 1 .. l
    BY <1>2
  <2>2. QED
    BY <2>1
<1>3. QED
  BY <1>1, <1>2

(* A report is added with its recommendations, which are pending. *)
LEMMA StoreAdds ==
  ASSUME Booked, Room, NEW made \in Seq(Made), Store(made)
  PROVE  /\ recs' \in Seq(Recommendation) /\ DOMAIN recs \subseteq DOMAIN recs'
         /\ \A i \in DOMAIN recs : recs'[i] = recs[i]
         /\ \A i \in DOMAIN recs' \ DOMAIN recs :
              /\ recs'[i].status = "pending" /\ recs'[i].at = now
              /\ recs'[i].report = Len(reports) + 1
         /\ made = << >> => recs' = recs
         /\ recommendations' = recommendations \cup (DOMAIN recs' \ DOMAIN recs)
         /\ reports' \in Seq([at : Nat, stored : BOOLEAN]) /\ Len(reports') = Len(reports) + 1
         /\ DOMAIN reports \subseteq DOMAIN reports' /\ Len(reports) + 1 \in DOMAIN reports'
<1> DEFINE report == Len(reports) + 1
           new(i) == [target |-> made[i].target, action |-> made[i].action,
                      status |-> "pending", report |-> report, at |-> now]
           news == [i \in DOMAIN made |-> new(i)]
           n == Len(recs)
           m == Len(made)
<1>1. /\ recs \in Seq(Recommendation) /\ n \in Nat /\ DOMAIN recs = 1 .. n
      /\ m \in Nat /\ DOMAIN made = 1 .. m /\ made \in [1 .. m -> Made]
  BY LenProperties DEF Booked
<1>2. Len(reports) \in Nat /\ DOMAIN reports = 1 .. Len(reports) /\ now \in Nat
  BY LenProperties DEF Booked, Room
<1>3. \A i \in 1 .. m : /\ new(i) \in Recommendation
                        /\ new(i).status = "pending" /\ new(i).report = report /\ new(i).at = now
  BY <1>1, <1>2 DEF Recommendation, Made, Statuses
<1> HIDE DEF new
<1>4. news \in [1 .. m -> Recommendation] /\ \A i \in 1 .. m : news[i] = new(i)
  BY <1>1, <1>3
<1>5. news \in Seq(Recommendation) /\ Len(news) = m
  <2>1. news \in Seq(Recommendation)
    BY <1>1, <1>4, SeqDef
  <2>2. DOMAIN news = 1 .. m /\ DOMAIN news = 1 .. Len(news) /\ Len(news) \in Nat
    BY <1>1, <2>1, LenProperties
  <2> HIDE DEF news, m
  <2>4. Len(news) = m
    BY <1>1, <2>2, SameLength
  <2>5. QED
    BY <2>1, <2>4
<1>6. recs' = recs \o news
  BY DEF Store, new
<1> HIDE DEF news
<1>7. /\ recs' \in Seq(Recommendation) /\ Len(recs') = n + m
      /\ \A i \in 1 .. n + m : recs'[i] = IF i <= n THEN recs[i] ELSE news[i - n]
  <2>1. /\ recs \o news \in Seq(Recommendation) /\ Len(recs \o news) = Len(recs) + Len(news)
        /\ \A i \in 1 .. Len(recs) + Len(news) :
             (recs \o news)[i] = IF i <= Len(recs) THEN recs[i] ELSE news[i - Len(recs)]
    BY <1>1, <1>5, ConcatProperties
  <2>2. QED
    BY <1>5, <1>6, <2>1
<1>8. DOMAIN recs' = 1 .. n + m
  BY <1>7, LenProperties
<1>9. \A i \in DOMAIN recs : i \in DOMAIN recs' /\ recs'[i] = recs[i]
  BY <1>1, <1>7, <1>8
<1>10. ASSUME NEW i \in DOMAIN recs' \ DOMAIN recs
       PROVE  /\ recs'[i].status = "pending" /\ recs'[i].at = now
              /\ recs'[i].report = Len(reports) + 1
  <2>1. i \in n + 1 .. n + m
    BY <1>1, <1>8
  <2>2. i - n \in 1 .. m /\ recs'[i] = new(i - n)
    BY <1>1, <1>4, <1>7, <2>1
  <2>3. QED
    BY <1>3, <2>2
<1>11. made = << >> => recs' = recs
  <2> SUFFICES ASSUME made = << >> PROVE recs' = recs
    OBVIOUS
  <2>1. m = 0
    OBVIOUS
  <2>2. \A i \in 1 .. n : recs'[i] = recs[i]
    BY <1>1, <1>9
  <2>3. QED
    BY <1>1, <1>7, <2>1, <2>2, SeqEqual
<1>12. recommendations' = recommendations \cup (DOMAIN recs' \ DOMAIN recs)
  BY <1>6 DEF Store, news, new
<1>13. /\ reports' \in Seq([at : Nat, stored : BOOLEAN]) /\ Len(reports') = Len(reports) + 1
       /\ DOMAIN reports' = 1 .. Len(reports) + 1
  <2>1. reports' = Append(reports, [at |-> now, stored |-> TRUE])
    BY DEF Store
  <2>2. [at |-> now, stored |-> TRUE] \in [at : Nat, stored : BOOLEAN]
    BY <1>2
  <2>3. reports' \in Seq([at : Nat, stored : BOOLEAN]) /\ Len(reports') = Len(reports) + 1
    BY <2>1, <2>2, AppendProperties DEF Booked
  <2>4. QED
    BY <2>3, LenProperties
<1>14. DOMAIN reports \subseteq DOMAIN reports' /\ Len(reports) + 1 \in DOMAIN reports'
  BY <1>2, <1>13
<1>15. QED
  BY <1>7, <1>9, <1>10, <1>11, <1>12, <1>13, <1>14

-------------------------------------------------------------------------------
(* Every step keeps the invariant. *)

LEMMA Initially == Init => IInv
<1> SUFFICES ASSUME Init PROVE IInv
  OBVIOUS
<1>1. RegistriesSound
  BY DEF Init, InitObjectives, RegistriesSound, Tag, NoTag
<1>2. recs = << >> /\ reports = << >> /\ timers = << >> /\ recommendations = {}
      /\ pendingActions = {} /\ lastAdvise = 0 /\ now = 0 /\ engine = "ready" /\ cycle = NoCycle
  BY DEF Init
<1>3. DOMAIN << >> = {} /\ Len(<< >>) = 0
  OBVIOUS
<1>4. Booked
  BY <1>2, <1>3, EmptySeq DEF Booked
<1>5. Room
  BY <1>2, <1>3, CyclesAssumption DEF Room
<1>6. AdviceDecided /\ \A i \in DOMAIN timers : ArmedSound(i)
  BY <1>2, <1>3 DEF AdviceDecided
<1>7. QED
  BY <1>1, <1>4, <1>5, <1>6 DEF IInv

(* Flows and objectives come and go. *)
LEMMA RegistryNext ==
  ASSUME IInv, Registers \/ ChangesRegistries
  PROVE  IInv'
<1> USE DEF IInv
<1>1. UNCHANGED <<autonomy, engine, cycle, books, armed, now>>
  BY DEF Registers, ChangesRegistries
<1>2. Booked' /\ Room' /\ AdviceDecided'
  BY <1>1 DEF Booked, Room, AdviceDecided, books, armed
<1>3. CASE Registers
  <2>1. PICK f \in Flows, p \in objectives \cup {"none"}, optIn \in BOOLEAN :
          \E s \in SUBSET (objectives \ {p}) :
            /\ Register(f, p, s, optIn)
            /\ renewed' = renewed \cup {i \in DOMAIN recs : recs[i].target = f}
    BY <1>3 DEF Registers
  <2>2. PICK s \in SUBSET (objectives \ {p}) :
            /\ Register(f, p, s, optIn)
            /\ renewed' = renewed \cup {i \in DOMAIN recs : recs[i].target = f}
    BY <2>1
  <2>3. /\ flowRegistry' = flowRegistry \cup {f} /\ objectives' = objectives
        /\ enforceable \subseteq enforceable' /\ enforceable' \subseteq enforceable \cup {f}
    BY <2>2 DEF Register
  <2>4. flowTags' \in [Flows -> Tag]
    <3>1. p # "none" => [primary |-> p, secondary |-> s] \in Tag
      BY DEF RegistriesSound, Tag
    <3>2. flowTags' = [flowTags EXCEPT ![f] = IF p = "none" THEN @ ELSE [primary |-> p, secondary |-> s]]
      BY <2>2 DEF Register
    <3> HIDE DEF IInv
    <3>3. flowTags \in [Flows -> Tag]
      BY DEF IInv, RegistriesSound
    <3>4. QED
      BY <3>1, <3>2, <3>3
  <2>5. RegistriesSound'
    BY <2>3, <2>4 DEF RegistriesSound
  <2>6. ASSUME NEW i \in DOMAIN timers' PROVE ArmedSound(i)'
    <3>1. i \in DOMAIN timers /\ ArmedSound(i) /\ i \in DOMAIN recs
      BY <1>1, <2>6 DEF armed, Booked, ArmedSound
    <3>2. recs' = recs /\ timers' = timers /\ pendingActions' = pendingActions /\ autonomy' = autonomy
      BY <1>1 DEF books, armed
    <3>3. recs[i].target \in flowRegistry' => recs[i].target \in enforceable' \/ i \in renewed'
      BY <2>2, <2>3, <3>1 DEF ArmedSound
    <3>4. QED
      BY <3>1, <3>2, <3>3 DEF ArmedSound
  <2>7. QED
    BY <1>2, <2>5, <2>6
<1>4. CASE ChangesRegistries
  <2>1. \/ \E f \in Flows : Unregister(f)
        \/ \E o \in Names : AddObjective(o) \/ RemoveObjective(o)
    BY <1>4 DEF ChangesRegistries
  <2>2. RegistriesSound'
    <3>1. ASSUME NEW f \in Flows, Unregister(f) PROVE RegistriesSound'
      <4>1. NoTag \in Tag
        BY DEF NoTag, Tag
      <4>2. QED
        BY <3>1, <4>1 DEF Unregister, RegistriesSound
    <3>2. ASSUME NEW o \in Names, AddObjective(o) PROVE RegistriesSound'
      BY <3>2 DEF AddObjective, RegistriesSound
    <3>3. ASSUME NEW o \in Names, RemoveObjective(o) PROVE RegistriesSound'
      <4> DEFINE tag(f) == [primary   |-> IF flowTags[f].primary = o THEN "" ELSE flowTags[f].primary,
                            secondary |-> flowTags[f].secondary \ {o}]
      <4>1. \A f \in Flows : tag(f) \in Tag
        BY DEF RegistriesSound, Tag
      <4>2. flowTags' = [f \in Flows |-> tag(f)]
        BY <3>3 DEF RemoveObjective
      <4> HIDE DEF tag
      <4>3. flowTags' \in [Flows -> Tag]
        BY <4>1, <4>2
      <4>4. QED
        BY <3>3, <4>3 DEF RemoveObjective, RegistriesSound
    <3>4. QED
      BY <2>1, <3>1, <3>2, <3>3
  <2>3. \/ flowRegistry' = flowRegistry /\ enforceable' = enforceable
        \/ \E f \in Flows : flowRegistry' = flowRegistry \ {f} /\ enforceable' = enforceable \ {f}
    BY <2>1 DEF Unregister, AddObjective, RemoveObjective
  <2>4. ASSUME NEW i \in DOMAIN timers' PROVE ArmedSound(i)'
    <3>1. i \in DOMAIN timers /\ ArmedSound(i)
      BY <1>1, <2>4 DEF armed
    <3>2. recs' = recs /\ timers' = timers /\ pendingActions' = pendingActions /\ autonomy' = autonomy
          /\ renewed' = renewed
      BY <1>1, <1>4 DEF books, armed, ChangesRegistries
    <3>3. recs[i].target \in flowRegistry' => recs[i].target \in enforceable' \/ i \in renewed'
      BY <2>3, <3>1, <3>2 DEF ArmedSound
    <3>4. QED
      BY <3>1, <3>2, <3>3 DEF ArmedSound
  <2>5. QED
    BY <1>2, <2>2, <2>4
<1>5. QED
  BY <1>3, <1>4

(* Nothing is booked or armed: a cycle may begin, go on or fail. *)
LEMMA CycleNext ==
  ASSUME IInv,
         \/ Hears \/ Tick \/ RunCycle \/ Collect \/ CollectFails \/ Shutdown
         \/ Analyzes /\ autonomy # "observe"
         \/ UNCHANGED vars
  PROVE  IInv'
<1> USE DEF IInv
<1>1. UNCHANGED <<registries, autonomy, books, armed, renewed>>
  BY DEF Hears, Tick, RunCycle, Collect, CollectFails, Shutdown, Analyzes, vars
<1>2. RegistriesSound' /\ Booked'
  BY <1>1 DEF RegistriesSound, Booked, registries, books, armed
<1>3. now' \in Nat /\ engine' \in {"ready", "shutting_down", "stopped"}
  <2>1. now' = now \/ now' = now + 1
    BY DEF Hears, Tick, RunCycle, Collect, CollectFails, Shutdown, Analyzes, vars
  <2>2. engine' = engine \/ engine' = "shutting_down"
    BY DEF Hears, Tick, RunCycle, Collect, CollectFails, Shutdown, Analyzes, vars
  <2>3. now \in Nat /\ engine \in {"ready", "shutting_down", "stopped"}
    BY DEF Room
  <2>4. now' \in Nat
    BY <2>1, <2>3
  <2>5. QED
    BY <2>2, <2>3, <2>4
<1>4. cycle' # NoCycle => cycle # NoCycle \/ (Gate /\ Len(reports) < MaxCycles)
  <2>1. cycle.at = "collecting" => cycle # NoCycle
    BY DEF NoCycle
  <2>2. QED
    BY <2>1 DEF Hears, Tick, RunCycle, Collect, CollectFails, Shutdown, Analyzes, vars
<1>5. Room'
  BY <1>1, <1>3, <1>4 DEF Room, books
<1>6. AdviceDecided'
  <2> SUFFICES ASSUME autonomy = "advise", NEW i \in recommendations, recs[i].status = "pending"
               PROVE  recs[i].report = lastAdvise /\ cycle' = NoCycle
    BY <1>1 DEF AdviceDecided, books
  <2>1. recs[i].report = lastAdvise /\ cycle = NoCycle
    BY DEF AdviceDecided
  <2>2. ~Gate
    BY <2>1 DEF Gate, PendingIn
  <2>3. QED
    BY <1>4, <2>1, <2>2
<1>7. \A i \in DOMAIN timers' : ArmedSound(i)'
  BY <1>1 DEF ArmedSound, registries, books, armed
<1>8. QED
  BY <1>2, <1>5, <1>6, <1>7

(* The step that ends a cycle, whatever the model made of it. *)
LEMMA StoreNext ==
  ASSUME IInv, NEW made \in Seq(Made), Store(made), cycle # NoCycle
  PROVE  IInv'
<1> USE DEF IInv
<1>1. /\ recs' \in Seq(Recommendation) /\ DOMAIN recs \subseteq DOMAIN recs'
      /\ \A i \in DOMAIN recs : recs'[i] = recs[i]
      /\ \A i \in DOMAIN recs' \ DOMAIN recs :
           /\ recs'[i].status = "pending" /\ recs'[i].at = now
           /\ recs'[i].report = Len(reports) + 1
      /\ made = << >> => recs' = recs
      /\ recommendations' = recommendations \cup (DOMAIN recs' \ DOMAIN recs)
      /\ reports' \in Seq([at : Nat, stored : BOOLEAN]) /\ Len(reports') = Len(reports) + 1
      /\ DOMAIN reports \subseteq DOMAIN reports' /\ Len(reports) + 1 \in DOMAIN reports'
  BY StoreAdds
<1> DEFINE new == DOMAIN recs' \ DOMAIN recs
           arm == IF autonomy # "enforce" THEN {}
                  ELSE {i \in new : recs'[i].action \in Enforceable /\ recs'[i].target \in enforceable}
<1>2. /\ pendingActions' = pendingActions \cup arm
      /\ timers' = [i \in DOMAIN timers \cup arm |-> IF i \in arm THEN now + Grace ELSE timers[i]]
      /\ lastAdvise' = IF autonomy = "advise" /\ made # << >> THEN Len(reports) + 1 ELSE lastAdvise
      /\ cycle' = NoCycle
      /\ UNCHANGED <<registries, autonomy, engine, entries, now, renewed>>
  <2>1. recs' = recs \o [i \in DOMAIN made |->
                          [target |-> made[i].target, action |-> made[i].action,
                           status |-> "pending", report |-> Len(reports) + 1, at |-> now]]
    BY DEF Store
  <2>2. QED
    BY <2>1 DEF Store, ToArm
<1>3. arm \subseteq new /\ (arm # {} => autonomy = "enforce")
      /\ \A i \in arm : recs'[i].target \in enforceable
  OBVIOUS
<1> HIDE DEF arm
<1>4. RegistriesSound'
  BY <1>2 DEF RegistriesSound, registries
<1>5. Len(reports) \in Nat
  BY LenProperties DEF Booked
<1>6. Booked'
  <2>1. \A i \in DOMAIN recs' : recs'[i].report \in DOMAIN reports'
    BY <1>1 DEF Booked
  <2>2. lastAdvise' \in 0 .. Len(reports')
    BY <1>1, <1>2, <1>5 DEF Booked
  <2>3. recommendations' \subseteq DOMAIN recs' /\ pendingActions' \subseteq DOMAIN recs'
    BY <1>1, <1>2, <1>3 DEF Booked
  <2>4. QED
    BY <1>1, <2>1, <2>2, <2>3 DEF Booked
<1>7. Room'
  BY <1>1, <1>2, <1>5, CyclesAssumption DEF Room
<1>8. AdviceDecided'
  <2> SUFFICES ASSUME autonomy = "advise", NEW i \in recommendations', recs'[i].status = "pending"
               PROVE  recs'[i].report = lastAdvise' /\ cycle' = NoCycle
    BY <1>2 DEF AdviceDecided
  <2>1. i \notin recommendations \/ i \notin DOMAIN recs
    BY <1>1 DEF AdviceDecided
  <2>2. i \in new
    BY <1>1, <2>1 DEF Booked
  <2>3. made # << >>
    BY <1>1, <2>2
  <2>4. QED
    BY <1>1, <1>2, <2>2, <2>3
<1>9. ASSUME NEW i \in DOMAIN timers' PROVE ArmedSound(i)'
  <2>1. CASE i \in arm
    <3>1. i \in new /\ autonomy = "enforce" /\ recs'[i].target \in enforceable
      BY <1>3, <2>1
    <3>2. timers'[i] = recs'[i].at + Grace /\ recs'[i].status = "pending"
      BY <1>1, <1>2, <2>1, <3>1
    <3>3. QED
      BY <1>2, <2>1, <3>1, <3>2 DEF ArmedSound, registries
  <2>2. CASE i \notin arm
    <3>1. i \in DOMAIN timers /\ timers'[i] = timers[i]
      BY <1>2, <1>9, <2>2
    <3>2. i \in DOMAIN recs /\ ArmedSound(i)
      BY <3>1 DEF ArmedSound, Booked
    <3>3. QED
      BY <1>1, <1>2, <3>1, <3>2 DEF ArmedSound, registries
  <2>3. QED
    BY <2>1, <2>2
<1>10. QED
  BY <1>4, <1>6, <1>7, <1>8, <1>9

(* An operator decides: what was overridden is no longer armed. *)
LEMMA DecideNext ==
  ASSUME IInv, AcknowledgeOrDismiss \/ OverrideRecommendation
  PROVE  IInv'
<1> USE DEF IInv
<1>1. UNCHANGED <<registries, autonomy, engine, cycle, reports, recommendations, lastAdvise, now, renewed>>
  BY DEF AcknowledgeOrDismiss, OverrideRecommendation
<1>2. \/ \E i \in DOMAIN recs, s \in {"acknowledged", "dismissed"} :
            i \in recommendations /\ Decide(i, s) /\ UNCHANGED armed
      \/ \E i \in DOMAIN recs : Without(i) /\ (Decide(i, "overridden") \/ UNCHANGED recs)
  BY DEF AcknowledgeOrDismiss, OverrideRecommendation, Booked
<1>3. PICK i \in DOMAIN recs, s \in {"acknowledged", "dismissed", "overridden"} :
        /\ StatusOf(i, s) \/ UNCHANGED recs
        /\ (s # "overridden" /\ UNCHANGED armed) \/ Without(i)
  <2>1. \A i \in DOMAIN recs, s \in {"acknowledged", "dismissed", "overridden"} :
          Decide(i, s) => StatusOf(i, s)
    BY StatusSet DEF Decide, Statuses
  <2>2. QED
    BY <1>2, <2>1
<1>4. /\ recs' \in Seq(Recommendation) /\ DOMAIN recs' = DOMAIN recs
      /\ \A j \in DOMAIN recs :
           /\ recs'[j].target = recs[j].target
           /\ recs'[j].report = recs[j].report /\ recs'[j].at = recs[j].at
           /\ recs'[j].status = IF j = i /\ recs' # recs THEN s ELSE recs[j].status
  BY <1>3 DEF StatusOf, Booked
<1>5. /\ pendingActions' \subseteq pendingActions /\ DOMAIN timers' \subseteq DOMAIN timers
      /\ \A j \in DOMAIN timers' : timers'[j] = timers[j] /\ j \in pendingActions'
      /\ s = "overridden" => i \notin DOMAIN timers'
  BY <1>3 DEF Without, armed, ArmedSound
<1>6. RegistriesSound' /\ Room'
  BY <1>1 DEF RegistriesSound, Room, registries
<1>7. Booked'
  BY <1>1, <1>4, <1>5 DEF Booked
<1>8. AdviceDecided'
  BY <1>1, <1>4 DEF AdviceDecided, Booked
<1>9. ASSUME NEW j \in DOMAIN timers' PROVE ArmedSound(j)'
  <2>1. j \in DOMAIN timers /\ ArmedSound(j) /\ j \in DOMAIN recs /\ timers'[j] = timers[j]
    BY <1>5 DEF Booked, ArmedSound
  <2>2. recs'[j].status \notin {"overridden", "executed"}
    BY <1>4, <1>5, <2>1 DEF ArmedSound
  <2>3. QED
    BY <1>1, <1>4, <1>5, <2>1, <2>2 DEF ArmedSound, registries
<1>10. QED
  BY <1>6, <1>7, <1>8, <1>9

(* An enforce timer fires: what it executes is no longer armed. *)
LEMMA TimerNext ==
  ASSUME IInv, NEW i \in DOMAIN recs, TimerFires(i)
  PROVE  IInv'
<1> USE DEF IInv
<1>1. /\ UNCHANGED <<autonomy, engine, cycle, reports, recommendations, lastAdvise, now, renewed>>
      /\ i \in DOMAIN timers
      /\ timers' = [j \in DOMAIN timers \ {i} |-> timers[j]]
  BY DEF TimerFires
<1>2. pendingActions' = pendingActions \/ pendingActions' = pendingActions \ {i}
  BY DEF TimerFires
<1>3. StatusOf(i, "executed") \/ recs' = recs
  BY StatusSet DEF TimerFires, Statuses
<1>4. UNCHANGED registries \/ \E f \in Flows : Unregister(f)
  <2>1. recs[i].target \in Flows
    BY RecommendationType
  <2>2. QED
    BY <2>1 DEF TimerFires
<1>5. /\ recs' \in Seq(Recommendation) /\ DOMAIN recs' = DOMAIN recs
      /\ \A j \in DOMAIN recs :
           /\ recs'[j].target = recs[j].target
           /\ recs'[j].report = recs[j].report /\ recs'[j].at = recs[j].at
           /\ recs'[j].status = IF j = i /\ recs' # recs THEN "executed" ELSE recs[j].status
  BY <1>3 DEF StatusOf, Booked
<1>6. RegistriesSound'
  <2>1. NoTag \in Tag
    BY DEF NoTag, Tag
  <2>2. QED
    BY <1>4, <2>1 DEF Unregister, RegistriesSound, registries
<1>7. Room'
  BY <1>1 DEF Room
<1>8. Booked'
  BY <1>1, <1>2, <1>5 DEF Booked
<1>9. AdviceDecided'
  BY <1>1, <1>5 DEF AdviceDecided, Booked
<1>10. ASSUME NEW j \in DOMAIN timers' PROVE ArmedSound(j)'
  <2>1. j # i /\ j \in DOMAIN timers /\ ArmedSound(j) /\ j \in DOMAIN recs /\ timers'[j] = timers[j]
    BY <1>1 DEF Booked, ArmedSound
  <2>2. /\ recs'[j].target = recs[j].target /\ recs'[j].at = recs[j].at
        /\ recs'[j].status = recs[j].status
    BY <1>5, <2>1
  <2>3. j \in pendingActions'
    BY <1>2, <2>1 DEF ArmedSound
  <2>4. recs[j].target \in flowRegistry' => recs[j].target \in enforceable' \/ j \in renewed
    BY <1>4, <2>1 DEF ArmedSound, Unregister, registries
  <2>5. QED
    BY <1>1, <2>1, <2>2, <2>3, <2>4 DEF ArmedSound
<1>11. QED
  BY <1>6, <1>7, <1>8, <1>9, <1>10

(* Reports go with what they recommended, but not what is armed. *)
LEMMA PruneNext ==
  ASSUME IInv, PruneReports
  PROVE  IInv'
<1> USE DEF IInv
<1>1. /\ UNCHANGED <<registries, autonomy, engine, cycle, recs, lastAdvise, armed, now, renewed>>
      /\ recommendations' \subseteq recommendations
  BY DEF PruneReports
<1>2. /\ reports' \in Seq([at : Nat, stored : BOOLEAN])
      /\ DOMAIN reports' = DOMAIN reports /\ Len(reports') = Len(reports)
  <2> DEFINE old == {r \in DOMAIN reports : reports[r].stored /\ reports[r].at < now - 4 * Lookback}
             pruned(r) == [reports[r] EXCEPT !.stored = @ /\ r \notin old]
             n == Len(reports)
  <2>1. n \in Nat /\ DOMAIN reports = 1 .. n /\ reports \in [1 .. n -> [at : Nat, stored : BOOLEAN]]
    BY LenProperties DEF Booked
  <2>2. reports' = [r \in 1 .. n |-> pruned(r)]
    BY <2>1 DEF PruneReports
  <2>3. ASSUME NEW r \in 1 .. n PROVE pruned(r) \in [at : Nat, stored : BOOLEAN]
    <3>1. reports[r] \in [at : Nat, stored : BOOLEAN]
      BY <2>1, <2>3
    <3> DEFINE kept == reports[r].stored /\ r \notin old
    <3>2. kept \in BOOLEAN
      OBVIOUS
    <3>3. pruned(r) = [reports[r] EXCEPT !.stored = kept]
      BY <3>1
    <3> HIDE DEF kept
    <3>4. QED
      BY <3>1, <3>2, <3>3
  <2> HIDE DEF pruned
  <2>4. reports' \in [1 .. n -> [at : Nat, stored : BOOLEAN]]
    BY <2>2, <2>3
  <2>5. reports' \in Seq([at : Nat, stored : BOOLEAN])
    BY <2>1, <2>4, SeqDef
  <2>6. DOMAIN reports' = 1 .. n /\ DOMAIN reports' = 1 .. Len(reports') /\ Len(reports') \in Nat
    BY <2>4, <2>5, LenProperties
  <2>7. Len(reports') = n
    BY <2>1, <2>6, SameLength
  <2>8. QED
    BY <2>1, <2>5, <2>6, <2>7
<1>3. RegistriesSound' /\ Booked' /\ Room'
  BY <1>1, <1>2 DEF RegistriesSound, Booked, Room, registries, armed
<1>4. AdviceDecided'
  BY <1>1 DEF AdviceDecided
<1>5. \A i \in DOMAIN timers' : ArmedSound(i)'
  BY <1>1 DEF ArmedSound, registries, armed
<1>6. QED
  BY <1>3, <1>4, <1>5

(* At the shutdown of discernment nothing stays armed. *)
LEMMA ShutsDownNext ==
  ASSUME IInv, ShutsDown
  PROVE  IInv'
<1> USE DEF IInv
<1>1. /\ UNCHANGED <<registries, autonomy, cycle, books, now, renewed>>
      /\ engine' = "stopped" /\ pendingActions' = {} /\ timers' = << >>
  BY DEF ShutsDown
<1>2. DOMAIN timers' = {}
  BY <1>1
<1>3. RegistriesSound' /\ Booked' /\ Room'
  BY <1>1 DEF RegistriesSound, Booked, Room, registries, books
<1>4. AdviceDecided'
  BY <1>1 DEF AdviceDecided, books
<1>5. QED
  BY <1>2, <1>3, <1>4

LEMMA Inductive == IInv /\ [Next]_vars => IInv'
<1> SUFFICES ASSUME IInv, [Next]_vars PROVE IInv'
  OBVIOUS
<1>1. << >> \in Seq(Made)
  BY EmptySeq
<1>2. ASSUME Analyzes PROVE IInv'
  <2>1. cycle # NoCycle
    BY <1>2 DEF Analyzes, NoCycle
  <2>2. CASE autonomy = "observe"
    BY <1>1, <1>2, <2>1, <2>2, StoreNext DEF Analyzes
  <2>3. CASE autonomy # "observe"
    BY <1>2, <2>3, CycleNext
  <2>4. QED
    BY <2>2, <2>3
<1>3. ASSUME ModelAnswers \/ ModelFails PROVE IInv'
  <2>1. cycle # NoCycle
    BY <1>3 DEF ModelAnswers, ModelFails, NoCycle
  <2>2. \E made \in Seq(Made) : Store(made)
    BY <1>1, <1>3, AnswersAssumption DEF ModelAnswers, ModelFails, Made, Actions
  <2>3. QED
    BY <2>1, <2>2, StoreNext
<1>4. ASSUME NEW i \in DOMAIN recs, TimerFires(i) PROVE IInv'
  BY <1>4, TimerNext
<1>5. QED
  BY <1>2, <1>3, <1>4, RegistryNext, CycleNext, DecideNext, PruneNext, ShutsDownNext DEF Next

-------------------------------------------------------------------------------
(* What follows *)

(* The inductive invariant, of every behaviour. *)
THEOREM Invariance == Spec => []IInv
<1>1. Init => IInv
  BY Initially
<1>2. IInv /\ [Next]_vars => IInv'
  BY Inductive
<1>3. QED
  BY <1>1, <1>2, PTL DEF Spec

(* Types, and books that refer to what there is, whatever the model recommends *)
(* and whenever reports are pruned (discernment/engine.ts).                *)
THEOREM TypeCorrect == Spec => []TypeOK
<1>1. ASSUME IInv PROVE TypeOK
  <2>1. RegistriesSound /\ Booked /\ Room /\ \A i \in DOMAIN timers : ArmedSound(i)
    BY <1>1 DEF IInv
  <2>2. DOMAIN reports \subseteq 1 .. MaxCycles
    <3>1. Len(reports) \in Nat /\ DOMAIN reports = 1 .. Len(reports) /\ Len(reports) <= MaxCycles
      BY <2>1, LenProperties DEF Booked, Room
    <3>2. QED
      BY <3>1, CyclesAssumption
  <2>3. \A i \in DOMAIN recs : /\ recs[i].target \in Flows /\ recs[i].action \in Actions
                               /\ recs[i].status \in Statuses /\ recs[i].report \in DOMAIN reports
    BY <2>1, RecommendationType DEF Booked
  <2>4. DOMAIN timers \subseteq DOMAIN recs
    BY <2>1 DEF Booked, ArmedSound
  <2>5. QED
    BY <2>1, <2>2, <2>3, <2>4 DEF TypeOK, RegistriesSound, Booked, Room, Tag
<1>2. QED
  BY <1>1, Invariance, PTL

(* Every armed timer can be called off, and none is armed for what was        *)
(* overridden or executed (engine.ts:360-366, 436-441).                    *)
THEOREM AlwaysCancellable == Spec => []Cancellable
<1>1. IInv => Cancellable
  BY DEF IInv, ArmedSound, Cancellable
<1>2. QED
  BY <1>1, Invariance, PTL

(* In advise mode undecided advice is of the last cycle that gave any, and no *)
(* cycle is under way with it (discernment/engine.ts:106).                 *)
THEOREM AdviceAlwaysDecided == Spec => []AdviceDecided
<1>1. IInv => AdviceDecided
  BY DEF IInv
<1>2. QED
  BY <1>1, Invariance, PTL

(* Only the timer of an undecided recommendation executes it, in enforce mode *)
(* and after its whole grace period; a flow is retired only if it had opted  *)
(* in or was registered again since (discernment/engine.ts:256-301).       *)
THEOREM ExecutesDeliberately == Spec => ExecutedDeliberately
<1> DEFINE A == \A i \in DOMAIN recs :
                  recs[i].status # recs'[i].status /\ recs'[i].status = "executed" =>
                    /\ recs[i].status = "pending"
                    /\ autonomy = "enforce" /\ now >= recs[i].at + Grace
                    /\ (recs[i].action = "retire" =>
                          recs[i].target \in flowRegistry \ flowRegistry'
                          /\ (recs[i].target \in enforceable \/ i \in renewed))
<1>1. IInv /\ [Next]_vars => [A]_vars
  <2> SUFFICES ASSUME IInv, Next,
                      NEW i \in DOMAIN recs, recs[i].status # recs'[i].status, recs'[i].status = "executed"
               PROVE  /\ recs[i].status = "pending"
                      /\ autonomy = "enforce" /\ now >= recs[i].at + Grace
                      /\ (recs[i].action = "retire" =>
                            recs[i].target \in flowRegistry \ flowRegistry'
                            /\ (recs[i].target \in enforceable \/ i \in renewed))
    OBVIOUS
  <2>1. Booked /\ Room
    BY DEF IInv
  <2>2. \A made \in Seq(Made) : ~Store(made)
    BY <2>1, StoreAdds
  <2>3. << >> \in Seq(Made)
    BY EmptySeq
  <2>4. ~ModelAnswers /\ ~ModelFails
    BY <2>2, <2>3, AnswersAssumption DEF ModelAnswers, ModelFails, Made, Actions
  <2>5. ~Analyzes
    BY <2>2, <2>3 DEF Analyzes, books
  <2>6. ASSUME AcknowledgeOrDismiss \/ OverrideRecommendation PROVE FALSE
    <3>1. \/ recs' = recs
          \/ \E j \in DOMAIN recs, s \in {"acknowledged", "dismissed", "overridden"} : Decide(j, s)
      BY <2>1, <2>6 DEF AcknowledgeOrDismiss, OverrideRecommendation, Booked
    <3>2. \/ recs' = recs
          \/ \E j \in DOMAIN recs, s \in {"acknowledged", "dismissed", "overridden"} : StatusOf(j, s)
      BY <2>1, <3>1, StatusSet DEF Decide, Statuses
    <3>3. QED
      BY <3>2 DEF StatusOf
  <2>7. \E j \in DOMAIN recs : TimerFires(j)
    <3>1. ~(Registers \/ ChangesRegistries \/ Hears \/ Tick)
      BY DEF Registers, ChangesRegistries, Hears, Tick, books
    <3>2. ~(RunCycle \/ Collect \/ CollectFails \/ PruneReports \/ Shutdown \/ ShutsDown)
      BY DEF RunCycle, Collect, CollectFails, PruneReports, Shutdown, ShutsDown, books
    <3>3. QED
      BY <2>4, <2>5, <2>6, <3>1, <3>2 DEF Next
  <2>8. PICK j \in DOMAIN recs : TimerFires(j)
    BY <2>7
  <2>9. StatusOf(j, "executed") \/ recs' = recs
    BY <2>1, <2>8, StatusSet DEF TimerFires, Statuses
  <2>10. j = i
    BY <2>9 DEF StatusOf
  <2>11. i \in DOMAIN timers /\ timers[i] <= now /\ MayExecute(i)
    BY <2>8, <2>10 DEF TimerFires
  <2>12. ArmedSound(i)
    BY <2>11 DEF IInv
  <2>13. recs[i].status = "pending" /\ autonomy = "enforce" /\ now >= recs[i].at + Grace
    <3>1. recs[i].at \in Nat /\ now \in Nat
      BY <2>1, RecommendationType DEF Room
    <3>2. QED
      BY <2>11, <2>12, <3>1, TimesAssumption DEF ArmedSound, MayExecute
  <2>14. ASSUME recs[i].action = "retire"
         PROVE  /\ recs[i].target \in flowRegistry \ flowRegistry'
                /\ recs[i].target \in enforceable \/ i \in renewed
    <3>1. /\ recs[i].target \in flowRegistry
          /\ Unregister(recs[i].target)
      BY <2>8, <2>10, <2>11, <2>14 DEF TimerFires
    <3>2. QED
      BY <2>12, <3>1 DEF ArmedSound, Unregister
  <2>15. QED
    BY <2>13, <2>14
<1>2. QED
  BY <1>1, Invariance, PTL DEF Spec, ExecutedDeliberately
=============================================================================
