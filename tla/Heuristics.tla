------------------------------ MODULE Heuristics ------------------------------
(***************************************************************************)
(* What a discernment cycle computes: the signals collected of a flow      *)
(* (SignalCollector over the stores and the SignalAccumulator), the system *)
(* profile (FlowProfiler) and the checks run on it (HeuristicAnalyzer).    *)
(* Names, evidence and severities of signals are left out, and so are the  *)
(* policy, memory and provider signals: no check reads them.               *)
(***************************************************************************)
EXTENDS Integers, Sequences, FiniteSetsExt

CONSTANTS
  CostPercent,     \* thresholds.disproportionateCostPercent, in percent
  HardStopPercent, \* thresholds.agentHardStopPercent, in percent
  Lookback         \* config.lookbackPeriod

Total(values) == ReduceSet(LAMBDA i, sum : sum + values[i], DOMAIN values, 0)

(***************************************************************************)
(* The accumulator: entries of tool calls name no flow, and nothing emits  *)
(* the event that would enter an invocation by MCP.                        *)
(***************************************************************************)
Global == "__global"

ToolCall(tool, at)      == [category |-> "tool_call", flow |-> Global, what |-> tool, at |-> at]
Violation(flow, at)     == [category |-> "violation", flow |-> flow, what |-> "rule", at |-> at]
Query(entries, c, f, t) == {x \in entries : x.category = c /\ x.flow = f /\ x.at >= t}

(***************************************************************************)
(* The collector                                                           *)
(***************************************************************************)

(* computeTrend: the latest third against the earliest, by more than a tenth *)
Trend(values) ==
  LET third  == Len(values) \div 3
      early  == Total(SubSeq(values, 1, third))
      recent == Total(SubSeq(values, Len(values) - third + 1, Len(values)))
  IN CASE third = 0 \/ early = 0         -> "stable"
       [] 10 * (recent - early) > early  -> "increasing"
       [] 10 * (early - recent) > early  -> "decreasing"
       [] OTHER                          -> "stable"

QualityTrend(scores) ==
  IF scores = << >> THEN "null"
  ELSE [increasing |-> "improving", decreasing |-> "declining", stable |-> "stable"][Trend(scores)]

(* The profile of flow f: stores says what ledger, evaluations and           *)
(* executions hold of it.  Neither the objective of the flow nor its agents  *)
(* are filled in, and its schedule is null: the collector is built before    *)
(* the scheduler, which the first schedule makes.                          *)
Profile(f, stores, entries, now) ==
  LET since == now - Lookback
  IN [cost        |-> Total(stores.costs),
      trend       |-> QualityTrend(stores.scores),
      executions  |-> stores.executions,
      cron        |-> "none",
      tools       |-> {x.what : x \in Query(entries, "tool_call", f, since)},
      invocations |-> Cardinality(Query(entries, "mcp_invocation", f, since)),
      violations  |-> Cardinality(Query(entries, "violation", f, since)),
      agent       |-> "null",
      objective   |-> "null"]

(***************************************************************************)
(* The profiler: served is the objectives with the flows that serve them   *)
(***************************************************************************)
OrphanFlows(profiles)      == {f \in DOMAIN profiles : profiles[f].objective = "null"}
UnservedObjectives(served) == {o \in DOMAIN served : served[o] = {}}
CostOf(profiles, flows)    == MapThenSumSet(LAMBDA f : profiles[f].cost, flows \cap DOMAIN profiles)

(***************************************************************************)
(* The checks                                                              *)
(***************************************************************************)
Signals(check, targets) == {[check |-> check, target |-> x] : x \in targets}

IdleFlow(profiles) == {f \in DOMAIN profiles : profiles[f].executions = 0}

DisproportionateCost(profiles) ==
  {f \in DOMAIN profiles :
     100 * profiles[f].cost > CostPercent * CostOf(profiles, DOMAIN profiles)}

QualityDeclining(profiles) == {f \in DOMAIN profiles : profiles[f].trend = "declining"}

AgentHardStops(profiles) ==
  {f \in DOMAIN profiles : /\ profiles[f].agent # "null"
                           /\ profiles[f].agent.hardStopPercent > HardStopPercent}

(* collectMcpServerSignals answers null for 0, so that this finds nothing *)
UnusedMcpTool(profiles) == {}

Pairs(flows) == {{a, b} : a, b \in flows} \ {{a} : a \in flows}

ScheduleOverlap(profiles) ==
  {p \in Pairs({f \in DOMAIN profiles : profiles[f].cron # "none"}) :
     /\ Cardinality({profiles[f].cron : f \in p}) = 1
     /\ \E t \in UNION {profiles[f].tools : f \in p} : \A f \in p : t \in profiles[f].tools}

AdapterOverlap(profiles) ==
  {p \in Pairs({f \in DOMAIN profiles : profiles[f].cron = "none" /\ profiles[f].tools # {}}) :
     LET all    == UNION {profiles[f].tools : f \in p}
         shared == {t \in all : \A f \in p : t \in profiles[f].tools}
     IN 2 * Cardinality(shared) > Cardinality(all)}

(* analyze; a custom heuristic answers a set of signals or throws, and is    *)
(* skipped then                                                            *)
Analyze(profiles, served, custom) ==
  Signals("idle-flow", IdleFlow(profiles))
  \cup Signals("disproportionate-cost", DisproportionateCost(profiles))
  \cup Signals("quality-declining", QualityDeclining(profiles))
  \cup Signals("orphan-flow", OrphanFlows(profiles))
  \cup Signals("agent-hard-stop-pattern", AgentHardStops(profiles))
  \cup Signals("unused-mcp-tool", UnusedMcpTool(profiles))
  \cup Signals("schedule-overlap", ScheduleOverlap(profiles))
  \cup Signals("adapter-overlap", AdapterOverlap(profiles))
  \cup Signals("unserved-objective", UnservedObjectives(served))
  \cup custom
=============================================================================
