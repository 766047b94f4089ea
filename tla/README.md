# Runcor in TLA+

Runcor is a TypeScript runtime that executes flows: it queues them, runs their
handlers under time-outs, retries and waits, routes their model calls over
several providers, charges the calls to budgets, and starts flows on schedules.
It runs on one JavaScript thread, so it has no data races; what makes it hard is
everything that happens while a coroutine is suspended at an `await` and what
timers do in the meantime. This directory models that: specifications checked
with TLC on small instances, and theorems proved with TLAPS for all instances.
Around the engine it models what gates it (policies, rate limits), what it is
persisted in (the SQLite store, through crashes), what its handlers call (models,
budgets, adapters), what watches it (discernment, evaluation) and what serves it
(MCP, HTTP, the command line).

All paths below are relative to `src/src/` of the repository unless they start
with `src/`. `PROJECT.json` maps every definition to the lines it stands for.

* [Inventory](#inventory): the parts of the system
* [Plan](#plan): what is done, what comes next
* [The models](#the-models): how state and actions correspond to the code
* [The runs](#the-runs): what TLC checks and shows
* [The proofs](#the-proofs): what holds for every instance, and why
* [Where code and documents disagree](#where-code-and-documents-disagree)
* [Not modelled](#not-modelled)

## Inventory

**Execution life cycle** (`execution.ts`, `types.ts`, `errors.ts`). The
`Execution` record and the transition table `VALID_TRANSITIONS`. Correct if
executions follow the table and never leave a terminal state.

**Engine** (`engine.ts`, class `Runcor`). State: the count `activeExecutions`,
the maps `timeoutTimers`, `retryTimers`, `waitTimeoutTimers`,
`executionTimeoutRemaining`, `flowHandlerMap`, the flow registry and the status.
Operations: `register`, `unregister`, `trigger`, `resume`, `replay`, `cancel`,
`deleteExecution`, `shutdown`; inside, `dispatch`, `dispatchQueued`,
`runExecution`, `executeFlow`, the retry, wait and time-out timers. It calls the
store, the policy engine (before triggers, resumes and replays, and around
handlers), and emits `execution:state_change` and `execution:complete`. Hard:
handler, guardrails, five kinds of timer, callers and shutdown race to end one
execution; slots are counted by hand on each of those paths; the head of the
queue is chosen before an `await` and started after it. Correct if slots are
counted, nothing is left without somebody to move it on, each execution ends
once, the queue is fair and drains.

**State stores** (`state-store.ts`, `sqlite-state-store.ts`). The in-memory
store hands out references and keeps an index of idempotency keys; the SQLite
store hands out copies, survives a crash and requeues or fails orphans when it
is opened. Correct if live executions can be found and a crash loses none.

**Wait signal and execution context** (`wait-signal.ts`,
`execution-context.ts`). How a handler asks to be parked; the object it is given.

**Model router** (`model/router.ts`, `model/circuit-breaker.ts`,
`model/strategies.ts`). State: a circuit breaker per provider with its cool-down
timer, a round-robin counter, the last provider. Operations: `complete` (with
override, routing, fallback, retry with backoff), `stream`, `shutdown`. Hard:
outcomes reach a breaker long after it changed. Correct if broken providers are
taken out and come back, and requests end.

**Model providers** (`model/anthropic.ts`, `model/openai.ts`, `model/google.ts`)
and **structured output** (`model/validation.ts`). External I/O; validation of
responses.

**Cost tracking** (`cost/tracker.ts`, `budget.ts`, `ledger.ts`,
`calculator.ts`). State: an accumulator per budget key with spend, window and
warning flag; the ledger. Operations: check and reserve before a model call,
reconcile and record after it, check again for warnings. Hard: several calls
are in flight between reservation and reconciliation, calls fail or stream,
windows end. Correct if accumulators and ledger agree, hard budgets hold, and
warnings come once.

**Scheduler** (`scheduler/cron-scheduler.ts`). State: an entry per flow (next
fire time, timer handle, active execution). Operations: `addSchedule`,
`removeSchedule`, the tick, recheck of far timers, `shutdown`. It asks the
store for executions of the flow, and triggers through the engine. Hard: a tick
is suspended twice while its schedule is removed or added again. Correct if a
schedule never stops, never fires early or twice, and never overlaps itself.

**Policy engine** (`policy/policy-engine.ts`, `access-control.ts`,
`rule-evaluator.ts`, `guardrail-runner.ts`, `tenant-resolver.ts`). State: rules,
guardrails, limits and access policies, each registered and removed at any time.
A trigger, resume or replay passes access control, rate limits and rules, its
input and output pass guardrails. Hard: a request waits in a rate limit's queue
or between two guardrails while all of these change. Correct if the first denial
decides, a rule that throws denies, and no guardrail that stays is passed over.

**Rate limiter** (`policy/rate-limiter.ts`). State: a log of timestamps per
key, a queue of waiting requests per limit, each with a timer. Operations:
`checkSync`, `check`, `checkMultiple` (records, then undoes), `enqueue`,
`drainQueue`, removal of a limit. Hard: the undo pops the last timestamp of a log
that several limits share; the queue is drained only by a later request. Correct
if a window never admits more than the limit, a log holds what was admitted and
nothing else, and a queued request is admitted or refused.

**Adapters** (`adapter/managed-adapter.ts`, `adapter-manager.ts`,
`tool-router.ts`, `resource-cache.ts`, `in-process.ts`). Connection state machine of
each adapter, health checks, reconnection with backoff, circuit breaker; a map by
name, tool routing, a cache of resources. Hard: `disconnect` during an awaited
connect, reconnect or health check; two additions or removals of one name.
Correct if timers and reconnections are single, a connected adapter is checked, a
lost one reconnects, and one that is removed stays so.

**Discernment** (`discernment/*.ts`, and its part of `engine.ts`). State:
objectives and tags of flows, an accumulator of signals, reports,
recommendations, pending actions, enforcement timers. A cycle collects signals,
asks a model, stores a report, and in enforce mode arms a timer per
recommendation. Hard: the cycle awaits while operators decide, flows come and go,
reports are pruned and the engine shuts down; an override races the timer.
Correct if what is armed can be called off, and only what is undecided, due and
opted in is executed.

**Evaluation** (`evaluation/*.ts`). Evaluators score completed executions
asynchronously, scores are recorded up to a limit, low ones raise flags that
operators review. Correct if flags go one way.

**Agent** (`agent/*.ts`, with `cost/ledger.ts` and `model/validation.ts`). A
handler that loops over model and tool calls within limits of iterations, cost,
time and history. Its cost is read from the ledger before and after a call. Hard:
validation asks again, attempts fail and are retried, the ledger evicts. Correct
if what it reports was charged, and it stays within its budget.

**MCP server** (`server/mcp-server-adapter.ts`, `startServer` and `stopServer` of
the engine). Registered flows are tools; a tool call triggers an execution and
waits for it. Hard: it listens to events that are emitted before the store is
written; flows come and go while it connects. Correct if every call is answered,
and truthfully, and the tools are the registered flows.

**HTTP server** (`http/*.ts`). Routes for executions, a stream of events with a
limit of connections, a stop that waits for them. Correct if answers and events
agree with what became of the executions.

**Command line** (`cli/*.ts`). `runcor trigger`, `status` and `resume` probe for a
server and otherwise open a temporary engine; `runcor dev` serves, watches flow
files and registers them again. Correct if exit codes are true and the newest
version of a file is what runs.

**Memory** (`memory/*.ts`), **configuration** (`config/`), **telemetry**
(`telemetry/`). Scoped key-value maps; parsing and validation; spans and metrics.

How they interact: callers, scheduler and servers call `trigger`; the engine
asks the policy engine, creates the execution in the store and dispatches it;
handlers call models through cost tracker and router, tools through adapters;
ends of executions come back as events to the scheduler (which clears its active
execution), evaluation and servers. Discernment reads the stores of all of them
and unregisters flows.

## Plan

| order | modules | component | state |
|---|---|---|---|
| 1 | `Lifecycle`, `Executions` | life cycle; abstract specification of executions | done |
| 2 | `Engine`, `EngineProperties`, `MCEngine` | engine over the in-memory store | done |
| 3 | `EngineProofs` | its safety, its refinement of `Executions`, the order of its queue | done |
| 4 | `CronScheduler`, `CronProofs` | scheduler | done |
| 5 | `ModelRouter`, `ModelRouterProperties`, `ModelCallProofs` | router and breakers | done |
| 6 | `CostTracker`, `CostProperties`, `ModelCallProofs`, `MCCostTracker` | budgets and ledger | done but for attribution |
| 7 | `PolicyRules`, `RateLimiter`, `PolicyEngine`, `PolicyProperties`, `PolicyProofs`, `MCPolicy` | policies and rate limits | done |
| 8 | `ManagedAdapter`, `AdapterManager`, `AdapterProperties`, `AdapterProofs` | adapters | done |
| 9 | `DurableStore`, `DurableEngine`, `DurableProperties`, `DurableProofs` | engine over the SQLite store, crashes | done |
| 10 | `Heuristics`, `Objectives`, `Discernment`, `DiscernmentProperties`, `DiscernmentProofs`, `MCDiscernment` | discernment | done |
| 11 | `AgentLoop`, `Evaluation`, `AgentReview`, `ModelCallProofs`, `MCAgent` | agent, evaluation and flags | done |
| 12 | `ServedEngine`, `McpServer`, `HttpServer`, `CommandLine`, `Servers`, `ServerProperties`, `ServerProofs`, `MCServers` | servers and commands around one engine | done |
| 13 | `CostRouting` | which provider a cost is charged to | open, low value: nothing reads it back |

Every safety property a run checks is a theorem. What would make the theorems worth
more: `SpendAccounted` without `SoftLast`, which needs the code to decide what a soft
budget lets through, and `WithinLimit` without `WindowsAgree` and `OneKeyPerQueue`,
which needs a log per limit and a drain that asks for each request's own key.

## The models

A step is what the code does between two awaits; a suspended coroutine is part
of the state. Time is left out where only its order matters: an armed timer may
fire at any moment.

### Lifecycle and Executions

`Lifecycle` is the transition table. `Executions` is the promise: an execution
starts `queued`, moves along the table, and its end is announced once, in the
step in which it becomes terminal. `EngineProperties!Abstract` instantiates it
with the `state` field of the engine's objects.

### Engine

| code | model |
|---|---|
| the `Execution` objects | `exec` (by id; ids in order of `timestamps.queued`, which is the order of the store's Map) |
| `executions`, `idempotencyIndex` of the store | `store`, `index` |
| `activeExecutions` | `active`; `charged` is history, who was charged |
| `timeoutTimers`, `retryTimers`, `waitTimeoutTimers` | `timers` |
| `executionTimeoutRemaining` | `remaining`: `left`, `spent` or `none`, either of the first two at a wait |
| `flowHandlerMap`, registry, status | `flowHandlerMap`, `flowRegistry`, `status` |
| awaits in `executeFlow`, `runExecution`, `resume`, the retry timer | `fiber[e]` |
| awaits in `trigger`, `resume`, `replay` | `calls[c]` |
| `dispatchQueued` between its list and its dispatch | `wakes`, the heads chosen |

Things a reader may stumble over:

* `ResumeCommits` needs `fiber[e] = "none"` and `wakes = {}`. The store's
  methods are async functions over a Map, so their continuations are microtasks
  and run before the answer of the policy engine or any timer or caller.
* `Complete` joins the `set` of the store to the step before it, since no other
  task can come between them; for the same reason a dispatched head is one step.
* `wakes` is a set. Two suspended `dispatchQueued` with the same head are one:
  the second finds the head running and returns.
* Registering a flow again under its name keeps its configuration in the model.
* `shutting_down` is split into `draining` and `cleanup`, before and after the
  end of the drain.
* A call the engine rejects changes nothing and is left out.
* `resumeData`, `waitContext`, `replayOf`, inputs, the map of trigger options
  and its clean-up are left out: no guard reads them.
* Definitions whose comment starts with "mutant of" are faulty variants of the
  one named, used to see that the properties notice.

### CronScheduler

An entry is `next`, `timerHandle` and `activeId` of a flow in `schedules`; the
timers themselves are `timers`, so that a timer no entry refers to can be seen.
A tick is suspended while the overlap check lists executions (`checking`), while
the trigger asks the policy engine (`policy`) and when its answer is under way
(`answered`). A cron expression is "every multiple of `Period`"; `MaxDelay` and
`RearmInterval` are the two constants by which far fire times are approached.
The fire time is part of the idempotency key the code gives to the trigger, so
an execution is named by flow and fire time. Simplifications: the overlap check
reads the three lists in one step (with the in-memory store nothing else can
run in between); two timers of one kind with one deadline count as one; a flow
is registered exactly as long as it is scheduled; triggers by hand are left
out, and so is what executions do (`Engine` has it) but for ending, waiting and
resuming.

`ReaddDuringTick = FALSE` leaves out one behaviour of the code: registering a
flow again while a tick of its old schedule is suspended. The properties do not
survive it (see the findings), and the theorems assume it away explicitly.

### ModelRouter

`breaker[p]` has the state, the count of failures and whether the cool-down
timer is armed; `request[r]` what a caller's request waits for and what it has
to fall back on. The order in which a strategy puts the providers may be any,
so the next provider is any untried one and the round-robin counter is covered.
The failure count is compared with the threshold by `>=` only, so it is counted
up to `Threshold`. Its specification is `RouterSpec`, since its proofs share a module
with those of the tracker. `streak` is history: failures of a provider in a row as
requests saw them. Providers are external: they answer, fail, or fail
transiently. `lastResolvedProvider` is left out (plan, 12).

### CostTracker

`spend`, `warned` and `ended` are the accumulators; a window may end at any
time and is reset when a check next visits it. `CheckBudgets` is the loop of
`checkBudgets`: per-request budget, then user, flow and global, ending at the
first that is exceeded. `Begin` is `wrapComplete` or `wrapStream` up to the call
of the router, `Answered`, `CompleteThrows`, `StreamEnds` and `StreamBreaks` what
follows. `lost` (what calls that threw left reserved) and `announced` are
history. The `request` accumulator, made on demand and never read, is left out,
as are the eviction of the ledger, a ledger that throws, and attribution to
providers.

### Policies and rate limits

`PolicyRules` has access control and rules as operators: `ByPriority` is the
stable sort, `Evaluate` one turn of the loop with its early exit. `RateLimiter`
has the operations of the limiter on `entries` (a log per key) and `queues`:
`CheckAll` records in limit after limit, and `Undo` takes back by popping when one
refuses. `PolicyEngine` composes both with the guardrails: `request[r].stage` is
where a request is suspended (`queued`, then `input` and `output` guardrails one by
one), and `Change` registers and removes each kind of policy. `lasting` and
`seen` are history: the guardrails that stayed since the request's guardrails
began, and those that let it through. What rules and guardrails answer is theirs:
every rule has a fixed answer, a guardrail any. Time is a clock of whole units,
which matters here since windows are what the limits are about. Limits whose keys are
equal share a log and evict from it each by its own window, so `LogExact` is about
the shortest window of a key.

### Adapters

`ManagedAdapter` is one connection as a record, with what the code does to it
between two awaits as operators; `intervals` and `timeouts` count timers that
exist, `health` and `reconnect` tell whether a field still refers to one, so that
a timer nobody can stop would be seen. `AdapterManager` has the map by name, the
tool index, the cache, callers and removers. The MCP client is external: connect,
list, ping and call answer, throw or hang. History: `late` (a disconnect met
something under way), `stuck` (no reconnection for an open breaker), and `late` of
a cache entry (its read began before a removal).

### Persistent engine

`DurableStore` is the table: `Put` is `INSERT OR REPLACE` with its unique key,
`Recovered` what opening the store does to orphans. In `DurableEngine` a *fiber* is
whatever holds a copy of an execution and will write it: a coroutine, or a timer
with its closure. `CopyState` is the state its copy has at each await, so that a
write after the row has moved is a write of something old; `stale` is history, the
executions of which that has happened. `Crash` may come at any step and takes
fibers, timers, callers and counts; `Restart` recovers and begins anew. Time-outs
of runs, guardrails and the retry count are in `Engine`, whose in-memory store has
no copies.

### Discernment

`Heuristics` is pure: signals of a flow, the trend of its scores, the profile and
the checks. `Objectives` has the registries, `Discernment` the cycle (`collecting` flow
by flow, `asking` the model, then the report), what operators decide, the enforcement timers,
pruning and the shutdown of the engine. What the stores hold of a flow and what the
model recommends is chosen from the constants `Stores` and `Answers`. Reports keep
their time and whether they are stored; their text is left out. `renewed` is
history: recommendations whose flow was registered again since.

### Agent and evaluation

`AgentLoop` is one execution with an agent for a handler: attempts, iterations,
model calls with the context's validation (asked again twice), tool calls one after
another, the time-out that rejects while the loop goes on, and the ledger that
charges each call and evicts. Texts are left out: an answer conforms or not, asks
for some tools or none; `messages` has roles, which `truncateHistory` needs.
`Evaluation` has evaluators, their runs, records and flags. `AgentReview` composes
them (as `ReviewSpec`): evaluations begin once the agent's execution is over. Nothing an evaluation
does reaches the loop, nor the other way, so that leaving the loop's time to the
loop hides nothing and saves a product of states.

### Servers

`ServedEngine` is the engine as its servers see it: `state[e]` moves along the life
cycle (this is `Executions`, which `Engine` is proved to implement), flows have
versions, shutdown drains, closes and stops; `deleted` is what was deleted from
the store. `McpServer` has servers that start and stop and tool calls: `seen` is
what a call's listener read, `checking` the immediate check under way.
`Copies = TRUE` is the SQLite store, whose rows are written after the event.
`HttpServer` has requests (`trigger`, `list`, `get`, `resume`, `replay`, `cancel`,
`delete`) that act and then read what they show, streams and the stop.
`CommandLine` has the commands, each an HTTP request or a temporary engine after
a probe, and `dev` with its watcher. `Servers` joins the steps of the engine with
what the servers hear in the same step, since events are emitted synchronously.

## The runs

| run | states | instance | shows |
|---|---|---|---|
| `engine_safety` | 303 884 | 2 executions, 1 slot, 1 caller, everything a caller and a handler can do | slots, coroutines, timers, store and results fit together; refinement of `Executions` |
| `engine_queue` | 99 876 | 3 executions, 1 slot, waits, resumes, retries, fairness | order of the queue; it drains; slots return |
| `cron_safety` | 92 023 | 2 flows, 4 units of time, period 2, maximal delay 1 | one timer, on time, no overlap, ticks go on |
| `router_safety` | 227 306 | 2 providers, one streaming, 2 requests, threshold 2, 1 fallback, 2 attempts | breakers and requests |
| `cost_safety` | 42 980 | 2 callers, 3 budgets (two hard, one windowed), 4 calls | accumulators and ledger, hard budgets, warnings |
| `policy_safety` | 149 802 | 4 requests of 2 users, 3 limits of which all share a log, 3 rules, 2 guardrails, 1 change | windows, logs, queues, order of rules, guardrails that change, answers |
| `adapter_safety` | 3 463 498 | 2 instances under 1 or 2 names, 1 caller, 2 removers, 2 attempts, threshold 2 | timers, reconnections, removal, cache |
| `durable_safety` | 1 367 492 | 2 executions, 1 key, 2 copies, 2 callers, a crash | one row of a key, no row left running, legal moves of rows |
| `discernment_safety` | 3 725 258 | 1 flow, 3 modes, 2 cycles, 2 recommendations | what is armed, executed and advised |
| `agent_safety` | 1 687 728 | 3 configurations, 2 attempts, then 2 executions under 2 evaluators | cost and budget, flags |
| `server_safety` | 1 209 294 | 1 tool call, 1 request, 1 command, 2 servers, 2 streams for 1 place, 3 inputs beside the call | answers, tools, events, exit codes; every call is answered |
| `server_durable` | | the same over the SQLite store | a [finding](#where-code-and-documents-disagree) |

**Bounds.** `engine_safety` has two executions: one slot and two executions are
enough for every race of an execution with its own timers, callers and another
execution waiting for its slot; a retry bound of 1 has the first and the last retry.
The order of the queue needs a third, since overtaking needs a running
execution and two queued. In `engine_queue` nobody cancels a queued or running execution or unregisters its flow (cancelled
runs keep their slot, see the findings), and each execution is resumed at most
once: `resume` takes a slot whatever the limit, so repeated resumes may starve
the queue, which no document rules out. In `cron_safety` the maximal
delay is less than the period, so every fire time is approached by a recheck;
`MaxTime` covers two fire times and `Slots` one beyond. In `router_safety` threshold 2 tells
counting from tripping, and a late report of one request finds a breaker that
the other opened. In `cost_safety` the estimates go beyond the request
budget and costs are at most the estimate (more than it would break `HardKept`
by design: the code charges what a call cost). In `policy_safety` the window is
2 units and the clock ends at 2, so entries leave a window while requests wait and
are undone; two limits reject and one queues one request, over one log, so that an
undo meets another limit's entry; with a bound of one change each policy goes or
comes at any moment. `adapter_safety` has two instances, which is what one name
can be given twice, and two removers, which is what an instance can be removed
twice by. In `durable_safety` two fibers are two copies of one row, or a copy of
each, and one restart has whatever the first process left behind; that there are
no more copies than `Fibers` keeps a coroutine from going on, never a row from being
wrong. `discernment_safety` has a recommendation of one cycle undecided in the
next, due (`Grace = 2 = MaxTime`) or not yet; of the events it hears it has policy violations only, since no
property looks at what a cycle finds. In `agent_safety` the budget is met
exactly, overshot and left by retries; the ledger of 4 entries evicts. In
`server_safety` clients, developer and program do three things in any order
(`MaxInputs`) beside the tool call: what one does, what another does meanwhile, and
a stop, or two changes of a file and a request; four exceed the time of a run.

**Deadlock** is not checked: the engine is idle with nothing to do, stops, or
has used up its bounds (`MaxExecs`, `MaxTime`, `MaxCalls`, `MaxInputs`).

**Fairness.** A suspended coroutine is eventually resumed and an armed timer
fires: that is the event loop. The engine's `Fairness` has this of the steps of
coroutines (handlers and policies answer in the end), of dispatches, of retry
timers, of calls under way and of the drain; it has no fairness for time-outs,
which an execution in time never meets, and none for callers: nobody has to
resume, cancel or delete, so a waiting execution may wait for ever, and the
liveness properties say nothing of it (it holds no slot). In the scheduler the
clock goes on, due timers fire and ticks proceed; in the router providers answer
and cool-down timers fire. In the policy engine each request that was made
proceeds: its guardrails answer, or its queue timer fires; the clock needs no
fairness of its own, since a queued request may always time out. In `Servers` a
tool call's trigger and its own steps go on, its time-out included; executions,
the engine and other clients need not do anything. The other components have no
liveness property: what they promise to do they promise to timers, which the
safety properties (`Driven`, `RowsDriven`) find armed.

**What the properties say** is in the comment above each, in the modules whose
names end in `Properties` and in `AgentReview`. `Trusted` is
restricted to providers that stream natively since `stream` reports a success
of any other when it hands the stream out. `SpendAccounted` and `HardKept` are
stated of budgets without window: a window that is reset between reservation
and reconciliation is credited with the old reservation.

## The proofs

TLAPS checks every leaf with Z3, Zenon and LS4. No constant is bounded in the
theorems: any number of executions, callers, flows, slots, providers, budgets,
adapters, restarts, cycles, servers and clients. They rest on the named `ASSUME`s of
the modules (types of the constants, positive thresholds, finitely many requests and
limits, a dearest call), which TLC evaluates in the runs, and on nothing else but the
hypotheses written in four places: `ReaddDuringTick = FALSE` (scheduler), `SoftLast`
and `Overestimated` (cost), `WindowsAgree` and `OneKeyPerQueue` (rate limits; `MCPolicy`
has TLC evaluate them of its instance), `~Copies` (servers).

Every safety property that a run checks is a theorem, the one `server_durable` refutes
excepted. Hardly one is inductive as it stands. Each proof has the same shape: the
invariant `IInv` names the parts it needs beside the property, lemmas say what the
operators of the model return, one step per action shows that it keeps `IInv`
(`Invariance`), and the properties follow. Action properties are shown of each step
from a state with `IInv`.

**Engine.** `EngineProofs!TypeCorrect` is the type invariant. `SlotAccounting`,
`Driven` and the rest are not inductive: that a coroutine which comes back
decrements the count once needs to know where coroutines can be in each state.
The inductive invariant `IInv` is `TypeOK`, that `active` is the number of
charged executions, and per execution that coroutine, timers and slot go with
its state (`EngineProperties!Consistent` and the conjuncts of `Sound`). It is
stated per execution, so each action needs an argument for the execution it
moves and one lemma for those it leaves alone. From it follow
`SlotsAccounted`, `AlwaysConsistent`, `AlwaysDriven`, `TimeoutsKept`,
`HandlersKept`, `ResultsFromRuns`, `LiveKept` and `LimitKept`.

*Refinement.* Every action writes each execution in one of a few ways (`Writes`):
it moves it along the table, ends it and announces that, creates, deletes or reports
it. Each is a step of `Executions` or a stutter. That the store has no id which
no trigger has used (`StoreBorn`) is needed for the drain, which fails whatever the
store has.

*Queue.* `QueueInOrder` says that only a new trigger may overtake. What makes it hold
is `QueueOrdered`: ids are born in order, and a suspended `dispatchQueued` holds an
execution that was the head of the queue when it looked and, nothing ever returning
to the queue (`NeverRequeued`), is its head for as long as it is in it.

**Scheduler.** Under `ReaddDuringTick = FALSE`: the invariant is `Shape` (types)
and per flow `Driver` (one timer, which is the one the entry refers to, or one
tick), `Punctual` (the tick timer is set to `next`, and ticks and executions are
of fire times that have come) and `Serial` (nothing is active while a tick asks
the policy engine, and at most one execution is active). It gives `OneTimer`, `OnTime`, `NoOverlap`.

**Router.** Per provider: an open breaker has its timer and no other has one
(`Armed`, with a conjunct of `Sound`); a healthy breaker has counted less than
the threshold, never more failures than callers saw in a row, and exactly as
many if the provider streams natively (`Sound`). Lemmas on `RecordSuccess` and
`RecordFailure` carry both through every action, including the streams in which
several providers fail at once. `HealthSteps` follows as an action property.

**Cost.** `Invariance` and `WarnsOnce` hold for any budgets: a warning that was made
known left its mark (`Marked`), and only a new window clears it.
`SpendAlwaysAccounted` needs `SoftLast`: of a call's budgets only the last is
soft. An exceeded soft budget ends the check (`budget.ts:139`), and the budgets
after it are never charged, so without it the books do not agree; this is the
hypothesis under which a call that is let through was charged to all of its budgets
(`AllVisited`, `Books`). `HardAlwaysKept` needs `Overestimated` too: the code
records what a call cost, and a call that costs more than its estimate may overshoot.
Both hold of the instance of the run. The sums over calls under way are by
`SumFunctionOnSet`, whose order of summation `CHOOSE` fixes; that adding or changing
one element changes the sum by it is proved by the smallest set of which it would
be false (`Smallest`), since the library's induction takes an operator.

**Policies.** The loops of the limiter are functions over the sequence of limits (`Run`),
so what `CheckAll` and `Undo` do is proved by taking a sequence apart at its end
(`BySequence`). `Typed` has the types, and that a log is ordered; `GuardsKept` that a
guardrail which stayed is either still ahead of a request or has let it through;
`InQueues` that a request which waits for a limit is in its queue once and in no other.
`Books` is what the undo rests on: no limit is registered twice, who is not admitted yet
is charged nothing, and the log of a key holds what was charged (`Exact`, for every span
that the shortest window of the key keeps: it holds whether windows agree or not).
`Accounted` follows. `WithinLimit` is about any window, also one that has passed:
`Bound` says that of the requests admitted against a limit no window ever held more than
its room, and each way in (`CheckAll`, the drain, the release by removal, which does
not count) adds one only where the log, exact and evicted by that very window, has
room. That is where `WindowsAgree` and `OneKeyPerQueue` are needed: without the one the log
lacks entries, without the other the drain counts another log. `RulesAsDocumented`
is a fact about `EvaluateRules`, for every sequence of rules and every operation
(`DecidedAsDocumented`): `Spec` contributes only that the registered rules are one.

**Agents.** As long as the ledger evicts nothing of the execution, it has all that was
charged (`Booked`); what the iterations cost adds up to what the agent knows
it was charged, which is all whenever it decides to go on or answers (`Known`); and an
iteration starts below the budget and makes one call, or three when answers are
validated (`Paced`). `Budgeted` follows for any prices, limits, retries and tools.
That the sum of a ledger without its oldest entry is the rest of the sum is
`SumTail`, by the same smallest counterexample as the sums of the tracker.
`FlagSteps` is shown step by step.

**Adapters.** What a step may do to one connection is stated once, on its record:
it keeps the timers in order (`Timed`), what drives it (`Ready`) and leaves quiet what
is quiet (`Evolves`); each operation of `ManagedAdapter` is shown to do no other.
`IInv` relates the records to the Map, to removals under way, to calls and to the
cache. It gives `OneTimer`, `Driven`, `Retired` and `CacheOfLiving`.

**Persistent engine.** `IInv` is: rows and their keys (`RowsSound`: a row has the key its
execution was made with, and no two rows have one key, which `INSERT OR REPLACE`
keeps because it drops the other); copies are of executions that were created, and
timers are fibers at the right place (`CopiesSound`); who has a slot is counted
(`SlotsSound`); a process that is down holds nothing (`DownSound`); whatever is
behind its row is in `stale` (`StaleSound`); `RowsDriven`. `RowsMoveAsAllowed`
is the action property: as long as no copy of an execution is behind, its row moves
along the table, also through crashes and recovery. Cancelling and draining clear
every timer of an execution, so the model drops all of their fibers
(`Dropped`).

**Discernment.** A timer is armed only for a recommendation that can still be called off
(it is in `pendingActions`, neither overridden nor executed), in enforce mode, due
exactly after its grace period, on a flow that opted in or was registered again
since (`ArmedSound`). With the books that reports, recommendations and timers refer
to each other by (`Booked`), this gives `Cancellable` and
`ExecutedDeliberately`. `AdviceDecided` is inductive with the same books: the gate of
the cycle reads what the last advice left undecided.

**Servers.** `IInv` has a part for each side: what an MCP server offers follows the
registry as long as it listens (`AdaptersSound`), a stream has heard the last state of
what it follows (`ClientsSound`), a request is answered for what it did, which stays so
(`RequestsSound`: ends are final and deletions too), a command exits by the answer it
got (`CommandsSound`), the file's newest version is registered or under way
(`DevSound`). Over any store these give `EitherStoreFaithful`. That every answer of a
tool call is true (`CallsSound`) is proved for a store that hands out the objects
themselves, the one in memory; over the SQLite store it is false, which
`server_durable` shows. `EngineAsPromised` ties the small engine these models are built around to the
others: its executions keep the promise of `Executions`, which `Engine` is proved to
keep, whatever requests, commands and shutdown do. (That it leaves out nothing the
engine may do to an execution is how `Moves` is written: any move of the table at
any moment before the engine has stopped.)

**Only model-checked:** what holds under fairness (`QueueDrains`, `SlotsReturn`,
`KeepsTicking`, `RequestsEnd`, `Recovers`, `Answered`, `CallsEnd`), which is beyond the
prover.

## Where code and documents disagree

`server_durable` ends in a counterexample: over the SQLite store the MCP server
answers a tool call whose execution ends while it waits from the row of before the
end, as an empty result, even when the execution failed. The event is emitted
before the row is written (`engine.ts:1804`), and the listener reads the row
(`mcp-server-adapter.ts:310`); its comment promises to wait for an execution "to
reach terminal (complete/failed) or waiting state" (line 283).

What follows was met while modelling. It is in the models, with no run of its own.
Where a property would not hold because of it, the property says what it excepts.

*Engine.* `cancel` of a running execution never frees its slot. `resume` takes a
slot beyond `concurrency`. Two triggers with one key, both awaiting the policy
engine, create two executions. A retried run's result is stored without the output
guardrails. `shutdown` returns at once if one is under way.

*Persistent engine.* After a restart wait time-outs are not armed again, trigger
options are gone, and a requeued execution waits until another one ends. Of two
concurrent resumes both may run the handler (`engine.ts:792` and `1430`: each reads
a copy). A wait that is resumed before its coroutine has parked leaves a time-out
that fails the resumed run. A replay writes back an old copy. Cancelled and drained
executions are overwritten by handlers that come back.

*Scheduler.* A flow registered again during a tick of its old schedule gets two
timers, and removal clears one.

*Cost.* An exceeded soft budget ends the check before the hard budgets after it.
The check for warnings after a call may throw, and the response that was paid for
is lost.

*Policies.* A queued request is let out only when a later request is allowed under
the same limit, and only while there is room for that request's key; otherwise it times
out with room to spare, or is let out though its own key has none
(`rate-limiter.ts:309`). Limits of one key with different windows drop each other's
entries (line 78), so that the longer one admits more than its limit.

*Adapters.* Two additions of one name store the second over the first, which keeps
running; a late removal deletes a newer adapter. A disconnect that meets a
connection, a reconnection or a health check does not stop it, and the adapter
comes back with timers. A read under way fills the cache after it was cleared. An
open breaker makes the reconnection give up for good. A reserved tool name makes
the addition throw and leaves the adapter behind, reconnecting.

*Discernment.* Every flow is reported as orphan: no profile is given its
objective (`OrphanFlows` compares with `"null"`). Tool calls are recorded under one
global flow, so that overlaps of adapters are never found; schedules of profiles
are always null, invocations by MCP never recorded, and the accumulator never
pruned. Acknowledging or dismissing leaves the timer armed, which then does
nothing. A flow that was registered again without opting in is still retired. A
cycle under way at shutdown arms timers after they were cleared. A trend from zero
is "stable".

*Agent and evaluation.* The engine never gives a context its tools (`README.md:160`
shows them). `iterationBudget` is compared with what the execution has cost so far
as well as with the iteration; without a cost tracker it never bites, and an
eviction of the ledger lowers it. A retry starts with a cost of 0. Truncating the
history may part tool calls from their results. The loop goes on after a time-out
of its execution. An evaluator that is removed and added again during a run is
judged by other thresholds.

*Servers.* A call whose execution waited and was resumed before the answer was made
is answered as an empty result. Two concurrent `startServer` both start, and the
first is orphaned; a stop during a start does nothing; overlapping stops may null
a newer server. The stop of HTTP waits its whole time-out for open streams, may be
followed by a new connection, and a client that aborts before its listener is set
counts against the limit until a write fails. Overlapping imports of `dev` may
register the older version last. `runcor resume` loses its data over HTTP (it sends
`data`, the route reads `resumeData`, `http/routes/executions.ts:82`), `trigger`
polls for ever on a waiting execution, `--no-wait` exits well whatever happened, and
a temporary engine knows no flow; over the SQLite file of a running engine it
treats that engine's executions as orphans.

## Not modelled

*Model providers* are network I/O and conversion. *Memory* is a map each operation
of which is one step, so nothing can come between. *Configuration*, *telemetry*,
`init` and the output of commands are parsing and formatting. Of the *engine*, the
wiring of its constructor is left out; of the *HTTP server*, the routes that only read
other components and the dashboard; of the *adapters*, the in-process transport,
which is a client like others; of *cost tracking*, the provider a cost is charged
to. The texts of prompts, reports and messages, and the wire protocols, are left
out everywhere.

Durations are abstract but for the scheduler's, the rate limiter's, discernment's
and the agent's. That the remaining time of a resumed execution is computed from
its trigger, not from the start of its run, cannot be seen. Two engines over one
SQLite file are not modelled. A trigger that awaits the policy engine when shutdown
starts is in the models, and so is the execution it starts after the drain, but no
document says what should become of it.
