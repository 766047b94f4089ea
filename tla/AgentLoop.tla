------------------------------- MODULE AgentLoop ------------------------------
(***************************************************************************)
(* An execution whose handler is an agent (createAgentHandler), with the   *)
(* model interface of its context, which validates structured output and   *)
(* asks again, and the ledger that tells it what it has spent.  Texts and  *)
(* arguments are left out: an answer either conforms to the schema or does *)
(* not.  The saved state a resumed handler looks for is written by nobody, *)
(* so that every attempt starts afresh.  config.tools says whether the     *)
(* context offers tools: the engine's never does, one that a flow makes of *)
(* it may.                                                                 *)
(***************************************************************************)
EXTENDS Integers, SequencesExt

CONSTANTS
  Configs,       \* [tools, outputSchema, maxIterations, iterationBudget,
                 \* timeoutMs, maxHistoryMessages], 0 for a limit that is not set
  CallCosts,     \* what a call of the model may cost
  MaxToolCalls,  \* bound on the tool calls of one answer
  MaxRuns,       \* flow.maxRetries + 1
  MaxEntries,    \* capacity of the ledger
  MaxTime        \* bound on the clock

(* validateAgentConfig, called when the handler is made: unset, or in range *)
ValidConfig(c) ==
  /\ c.maxIterations >= 1              \* DEFAULT_MAX_ITERATIONS when unset
  /\ c.iterationBudget >= 0 /\ c.timeoutMs >= 0
  /\ c.maxHistoryMessages = 0 \/ c.maxHistoryMessages >= 2

ASSUME AgentAssumption ==
  /\ CallCosts \subseteq Nat /\ \E most \in CallCosts : \A c \in CallCosts : c <= most
  /\ MaxToolCalls \in Nat /\ MaxRuns \in Nat \ {0} /\ MaxEntries \in Nat \ {0}
  /\ Configs \subseteq [tools : BOOLEAN, outputSchema : BOOLEAN, maxIterations : Nat,
                        iterationBudget : Nat, timeoutMs : Nat, maxHistoryMessages : Nat]
  /\ \A c \in Configs : ValidConfig(c)

VARIABLES
  config,
  agent,         \* the coroutine of the handler
  execution,     \* "running", "complete", "failed"
  attempts,      \* attempts begun
  entries,       \* of the ledger: [own, cost]
  now,
  charged,       \* history: what the execution was charged
  before,        \* history: what it had been charged when the attempt began
  evicted        \* history: an entry of the execution was evicted

ledgerVars == <<entries, charged, evicted>>
agentVars  == <<config, agent, execution, attempts, ledgerVars, now, before>>

MaxValidationRetries == 2

IdleAgent ==
  [at |-> "idle", messages |-> << >>, count |-> 0, iterations |-> << >>, cost |-> 0, started |-> 0,
   retries |-> 0, calls |-> 0, done |-> 0, spent |-> 0, stopReason |-> "none"]

InitAgent ==
  /\ config \in Configs
  /\ agent = IdleAgent
  /\ execution = "running" /\ attempts = 0
  /\ entries = << >> /\ charged = 0 /\ evicted = FALSE
  /\ now = 0 /\ before = 0

(***************************************************************************)
(* The ledger: the oldest entry goes when it is full                       *)
(***************************************************************************)
RecordEntry(own, cost) ==
  LET full == Len(entries) >= MaxEntries
  IN /\ entries' = Append(IF full THEN Tail(entries) ELSE entries, [own |-> own, cost |-> cost])
     /\ evicted' = (evicted \/ (full /\ Head(entries).own))
     /\ charged' = IF own THEN charged + cost ELSE charged

ExecutionTotal(all) ==
  SumFunction([i \in DOMAIN all |-> IF all[i].own THEN all[i].cost ELSE 0])

(* Another execution is charged, whatever that costs *)
OthersSpend ==
  /\ RecordEntry(FALSE, 0)
  /\ UNCHANGED <<config, agent, execution, attempts, now, before>>

Tick ==
  /\ now < MaxTime
  /\ now' = now + 1
  /\ UNCHANGED <<config, agent, execution, attempts, ledgerVars, before>>

(***************************************************************************)
(* The conversation                                                        *)
(***************************************************************************)
Tools(n) == [i \in 1 .. n |-> "tool"]

(* truncateHistory keeps the system prompt and the latest messages *)
Truncated(messages) ==
  LET max == config.maxHistoryMessages
  IN IF max = 0 \/ Len(messages) <= max THEN messages
     ELSE <<Head(messages)>> \o SubSeq(messages, Len(messages) - max + 2, Len(messages))

(***************************************************************************)
(* The loop                                                                *)
(***************************************************************************)
Becomes(new) ==
  /\ agent' = new
  /\ UNCHANGED <<config, execution, attempts, now, before>>

(* The engine runs the handler, at first or for a retry *)
Begins ==
  /\ execution = "running" /\ agent.at \in {"idle", "thrown"} /\ attempts < MaxRuns
  /\ attempts' = attempts + 1
  /\ before' = charged
  /\ agent' = [IdleAgent EXCEPT !.at = "loop", !.messages = <<"system", "user">>, !.started = now]
  /\ UNCHANGED <<config, execution, ledgerVars, now>>

Overspent(cost) == config.iterationBudget # 0 /\ cost >= config.iterationBudget

(* mutant of Exhausted: the budget is one of each iteration *)
ExhaustedByIteration == agent.iterations # << >> /\ Overspent(Last(agent.iterations))

Exhausted == Overspent(agent.cost)
TimedOut == config.timeoutMs # 0 /\ now - agent.started >= config.timeoutMs

Result(reason, a) == [a EXCEPT !.at = "result", !.stopReason = reason]

(* The hard stops before an iteration, in their order *)
Stops ==
  /\ agent.at = "loop"
  /\ \/ agent.count >= config.maxIterations /\ Becomes(Result("max_iterations", agent))
     \/ agent.count < config.maxIterations /\ Exhausted /\ Becomes(Result("budget_exhausted", agent))
     \/ /\ agent.count < config.maxIterations /\ ~Exhausted /\ TimedOut
        /\ Becomes(Result("timeout", agent))
  /\ UNCHANGED ledgerVars

Iterates ==
  /\ agent.at = "loop"
  /\ agent.count < config.maxIterations /\ ~Exhausted /\ ~TimedOut
  /\ Becomes([agent EXCEPT !.at = "model", !.messages = Truncated(@), !.count = @ + 1, !.retries = 0])
  /\ UNCHANGED ledgerVars

(***************************************************************************)
(* The model answers                                                       *)
(***************************************************************************)

(* responseFormat is left out of the request when there are tools *)
Validated == config.outputSchema /\ ~config.tools

(* The context asks again, with a hint *)
ValidationRetry ==
  /\ agent.at = "model" /\ Validated /\ agent.retries < MaxValidationRetries
  /\ \E c \in CallCosts : RecordEntry(TRUE, c)
  /\ Becomes([agent EXCEPT !.retries = @ + 1])

ValidationFails ==
  /\ agent.at = "model" /\ Validated /\ agent.retries = MaxValidationRetries
  /\ \E c \in CallCosts : RecordEntry(TRUE, c)
  /\ Becomes([agent EXCEPT !.at = "thrown"])

(* An answer that reaches the agent: the iteration costs what the ledger has   *)
(* of the execution beyond what the agent knew of.                         *)
WithAnswer(a) ==
  LET total == ExecutionTotal(entries')
  IN [a EXCEPT !.messages = Append(@, "assistant"), !.cost = total, !.spent = total - agent.cost]

Iterated(a) == [a EXCEPT !.iterations = Append(@, a.spent)]

(* A text, with an output schema one that conforms, or the provider's tool     *)
(* for structured output, whose arguments are taken as they are.           *)
Completes ==
  /\ agent.at = "model"
  /\ \E c \in CallCosts : RecordEntry(TRUE, c)
  /\ Becomes(Result("completed", Iterated(WithAnswer(agent))))

(* A text that does not conform, where the agent itself has to find out *)
Hints ==
  /\ agent.at = "model" /\ config.outputSchema /\ ~Validated
  /\ \E c \in CallCosts : RecordEntry(TRUE, c)
  /\ LET a == Iterated(WithAnswer(agent))
     IN Becomes([a EXCEPT !.at = "loop", !.messages = Append(@, "user")])

CallsTools ==
  /\ agent.at = "model"
  /\ \E c \in CallCosts : RecordEntry(TRUE, c)
  /\ \E n \in 1 .. MaxToolCalls :
       Becomes([WithAnswer(agent) EXCEPT !.at = "tools", !.calls = n, !.done = 0])

(* A tool returns or throws, and the next one is called *)
ToolReturns ==
  /\ agent.at = "tools"
  /\ Becomes(IF agent.done + 1 < agent.calls THEN [agent EXCEPT !.done = @ + 1]
             ELSE [Iterated(agent) EXCEPT !.at = "loop", !.messages = @ \o Tools(agent.calls),
                                          !.calls = 0, !.done = 0])
  /\ UNCHANGED ledgerVars

(* The model call throws: the budget is exceeded, before the call or by it,   *)
(* the context is too long, or anything else.                              *)
ModelThrows ==
  /\ agent.at = "model"
  /\ \/ /\ UNCHANGED ledgerVars \/ \E c \in CallCosts : RecordEntry(TRUE, c)
        /\ Becomes(Result("budget_exhausted", agent))
     \/ /\ config.maxHistoryMessages = 0
        /\ Becomes(Result("context_overflow", agent)) /\ UNCHANGED ledgerVars
     \/ Becomes([agent EXCEPT !.at = "thrown"]) /\ UNCHANGED ledgerVars

(***************************************************************************)
(* The execution                                                           *)
(***************************************************************************)

Ends(state) ==
  /\ execution = "running"
  /\ execution' = state
  /\ UNCHANGED <<config, agent, attempts, ledgerVars, now, before>>

(* The engine stores the result, gives up, or times the execution out; then   *)
(* the loop goes on.                                                       *)
ExecutionEnds ==
  \/ agent.at = "result" /\ Ends("complete")
  \/ Ends("failed")

(* The loop ends after its execution, and its result is dropped; the model     *)
(* forgets what the execution was charged, which nobody reads any more.    *)
Dropped ==
  /\ execution # "running" /\ agent.at \in {"result", "thrown"}
  /\ agent' = IdleAgent
  /\ entries' = << >> /\ charged' = 0 /\ before' = 0 /\ evicted' = FALSE
  /\ UNCHANGED <<config, execution, attempts, now>>

Settled == execution # "running" /\ agent.at = "idle"

AgentStep ==
  \/ Begins \/ Stops \/ Iterates
  \/ ValidationRetry \/ ValidationFails \/ Completes \/ Hints
  \/ CallsTools \/ ToolReturns \/ ModelThrows
  \/ ExecutionEnds \/ Dropped
  \/ OthersSpend \/ Tick
=============================================================================
