------------------------------ MODULE Objectives ------------------------------
(***************************************************************************)
(* The registries a discernment cycle works on: flows with their objective *)
(* tags (class ObjectiveRegistry), and the flows that opted in to being    *)
(* retired (the engine's flowRegistry and enforceableFlows).               *)
(***************************************************************************)
EXTENDS FiniteSets

CONSTANTS
  Flows,        \* names of flows
  Names         \* names of objectives

VARIABLES
  objectives,   \* objectives declared
  flowRegistry, \* flows registered
  flowTags,     \* per flow [primary, secondary], or NoTag
  enforceable   \* enforceableFlows

registries == <<objectives, flowRegistry, flowTags, enforceable>>

NoTag == [primary |-> "untagged", secondary |-> {}]

InitObjectives ==
  /\ objectives = {}
  /\ flowRegistry = {}
  /\ flowTags = [f \in Flows |-> NoTag]
  /\ enforceable = {}

AddObjective(o) ==
  /\ o \in Names \ objectives
  /\ objectives' = objectives \cup {o}
  /\ UNCHANGED <<flowRegistry, flowTags, enforceable>>

(* A primary reference becomes the empty string, a secondary one goes *)
RemoveObjective(o) ==
  /\ o \in objectives
  /\ objectives' = objectives \ {o}
  /\ flowTags' = [f \in Flows |->
                    [primary   |-> IF flowTags[f].primary = o THEN "" ELSE flowTags[f].primary,
                     secondary |-> flowTags[f].secondary \ {o}]]
  /\ UNCHANGED <<flowRegistry, enforceable>>

(* Engine.register: secondary objectives are looked at only with a primary *)
Register(f, primary, secondary, optIn) ==
  /\ f \notin flowRegistry
  /\ primary # "none" => {primary} \cup secondary \subseteq objectives
  /\ flowRegistry' = flowRegistry \cup {f}
  /\ flowTags' = [flowTags EXCEPT ![f] =
       IF primary = "none" THEN @ ELSE [primary |-> primary, secondary |-> secondary]]
  /\ enforceable' = IF optIn THEN enforceable \cup {f} ELSE enforceable
  /\ UNCHANGED objectives

(* Engine.unregister *)
Unregister(f) ==
  /\ f \in flowRegistry
  /\ flowRegistry' = flowRegistry \ {f}
  /\ flowTags' = [flowTags EXCEPT ![f] = NoTag]
  /\ enforceable' = enforceable \ {f}
  /\ UNCHANGED objectives

(* listObjectives: every objective with the flows that serve it *)
Served == [o \in objectives |->
             {f \in Flows : flowTags[f].primary = o \/ o \in flowTags[f].secondary}]
=============================================================================
