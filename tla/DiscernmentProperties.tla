------------------------- MODULE DiscernmentProperties ------------------------
(***************************************************************************)
(* What discernment may do to a system on its own, and what an operator    *)
(* may rely on.                                                            *)
(***************************************************************************)
EXTENDS Discernment

(* Types: the registries, the books, what is armed. *)
TypeOK ==
  /\ objectives \subseteq Names /\ flowRegistry \subseteq Flows
  /\ flowTags \in [Flows -> [primary : Names \cup {"", "untagged"}, secondary : SUBSET Names]]
  /\ enforceable \subseteq flowRegistry
  /\ engine \in {"ready", "shutting_down", "stopped"}
  /\ DOMAIN reports \subseteq 1 .. MaxCycles
  /\ \A i \in DOMAIN recs : /\ recs[i].target \in Flows /\ recs[i].action \in Actions
                            /\ recs[i].status \in Statuses /\ recs[i].report \in DOMAIN reports
  /\ recommendations \subseteq DOMAIN recs /\ pendingActions \subseteq DOMAIN recs
  /\ DOMAIN timers \subseteq DOMAIN recs
  /\ lastAdvise \in 0 .. Len(reports)

(* engine.ts:360-366,436-441: whatever is armed can be called off: every armed *)
(* timer is in pendingActions, where an override and the shutdown look for   *)
(* it, and an overridden recommendation has none, even after the reports     *)
(* were pruned.                                                            *)
Cancellable ==
  /\ DOMAIN timers \subseteq pendingActions
  /\ \A i \in DOMAIN timers : recs[i].status \notin {"overridden", "executed"}

(* discernment/engine.ts:256-301: what becomes executed was undecided, in      *)
(* enforce mode, due after the full grace period, and its flow had opted in: *)
(* unless it was registered again since, it is the flow that opted in which  *)
(* goes, and only a recommendation to retire it takes it away.             *)
ExecutedDeliberately ==
  [][\A i \in DOMAIN recs : recs[i].status # recs'[i].status /\ recs'[i].status = "executed" =>
       /\ recs[i].status = "pending"
       /\ autonomy = "enforce" /\ now >= recs[i].at + Grace
       /\ (recs[i].action = "retire" =>
             recs[i].target \in flowRegistry \ flowRegistry'
             /\ (recs[i].target \in enforceable \/ i \in renewed))]_vars

(* discernment/engine.ts:106 ADVISE_GATE_PENDING: in advise mode all advice    *)
(* that is undecided is of the last cycle that gave any, so that operators   *)
(* never face the advice of two cycles; with it none other is under way.    *)
AdviceDecided ==
  autonomy = "advise" =>
    \A i \in recommendations : recs[i].status = "pending" =>
      recs[i].report = lastAdvise /\ cycle = NoCycle
=============================================================================
