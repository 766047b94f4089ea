------------------------------- MODULE McpServer -------------------------------
(***************************************************************************)
(* The MCP server (class MCPServerAdapter, startServer and stopServer):    *)
(* registered flows are tools, a tool call triggers one execution, its own *)
(* by a fresh key, and is answered when that ends or waits.  Transport and *)
(* protocol are left out, as is what extractIdentity makes of arguments.   *)
(***************************************************************************)
EXTENDS ServedEngine

CONSTANTS
  Calls,       \* tool calls, named by the executions they trigger
  Adapters,    \* 1 .. bound on the servers started
  Copies       \* the store hands out copies (SQLite), not the objects (in memory)

ASSUME McpAssumption == Calls \subseteq Ids /\ Copies \in BOOLEAN

VARIABLES
  current,     \* engine.mcpServerAdapter, 0 for null
  adapters,    \* [at, listening, tools, stoppers] of each
  calls        \* [at, seen, checking, on, answer] of each

mcpVars == <<current, adapters, calls>>

Unstarted == [at |-> "none", listening |-> FALSE, tools |-> {}, stoppers |-> 0]
NoCall == [at |-> "none", seen |-> "absent", checking |-> FALSE, on |-> "none", answer |-> "none"]

InitMcp ==
  /\ current = 0
  /\ adapters = [a \in Adapters |-> Unstarted]
  /\ calls = [c \in Calls |-> NoCall]

(***************************************************************************)
(* Start and stop                                                          *)
(***************************************************************************)
Running(a) == a # 0 /\ adapters[a].at \in {"running", "stopping"}

(* mutant of Starting: the events of flows are listened to once connected *)
StartingDeaf == [at |-> "connecting", listening |-> FALSE, tools |-> Registered, stoppers |-> 0]

Starting == [at |-> "connecting", listening |-> TRUE, tools |-> Registered, stoppers |-> 0]

StartServer(a) ==
  /\ status = "ready" /\ ~Running(current)
  /\ adapters[a].at = "none" /\ (a > 1 => adapters[a - 1].at # "none")
  /\ adapters' = [adapters EXCEPT ![a] = Starting]
  /\ current' = a
  /\ UNCHANGED calls

(* connect returns or throws, which leaves the listeners of the events *)
Connects(a) ==
  /\ adapters[a].at = "connecting"
  /\ \/ adapters' = [adapters EXCEPT ![a].at = "running", ![a].listening = TRUE]
     \/ adapters' = [adapters EXCEPT ![a].at = "failed"]
  /\ UNCHANGED <<current, calls>>

(* stopServer: a second one is let in while the first awaits the close *)
StopServer(a) ==
  /\ a = current /\ Running(a) /\ adapters[a].stoppers < 2
  /\ adapters' = [adapters EXCEPT ![a].at = "stopping", ![a].listening = FALSE, ![a].stoppers = @ + 1]
  /\ UNCHANGED <<current, calls>>

(* The close returns; whatever server is current is forgotten *)
ServerStops(a) ==
  /\ adapters[a].stoppers > 0
  /\ adapters' = [adapters EXCEPT ![a].at = "stopped", ![a].tools = {}, ![a].stoppers = @ - 1]
  /\ current' = 0
  /\ UNCHANGED calls

(* flow:registered and flow:unregistered, which flows' tells of *)
FlowsChange ==
  /\ adapters' = [a \in Adapters |->
       IF adapters[a].listening THEN [adapters[a] EXCEPT !.tools = {n \in Names : flows'[n] > 0}]
       ELSE adapters[a]]
  /\ UNCHANGED <<current, calls>>

(***************************************************************************)
(* Tool calls                                                              *)
(***************************************************************************)
Call(c, new) ==
  /\ calls' = [calls EXCEPT ![c] = new]
  /\ UNCHANGED <<current, adapters>>

CallArrives(c) ==
  /\ calls[c].at = "none"
  /\ \E a \in Adapters : adapters[a].at = "running" /\ adapters[a].tools # {}
  /\ Call(c, [NoCall EXCEPT !.at = "triggering"])

CallTriggers(c) ==
  /\ calls[c].at = "triggering"
  /\ Create(c)
  /\ Call(c, [calls[c] EXCEPT !.at = "triggered"])

(* The flow is gone, a policy denies it, the engine shuts down *)
TriggerThrows(c) ==
  /\ calls[c].at = "triggering"
  /\ Call(c, [calls[c] EXCEPT !.at = "answered", !.answer = "error"])

(* waitForExecution: the safety timer, the listeners, and the immediate check, *)
(* which has its copy of the execution already.                            *)
Waits(c) ==
  /\ calls[c].at = "triggered"
  /\ Call(c, [calls[c] EXCEPT !.at = "waiting", !.checking = TRUE, !.seen = Stored(c)])

Settling == Terminal \cup {"waiting"}

Settled(call, seen, on) ==
  [call EXCEPT !.at = "settled", !.checking = FALSE, !.seen = seen, !.on = on]

(* What a copy or the object says now, if there was one to read *)
Seen(c) == IF Copies \/ calls[c].seen = "absent" THEN calls[c].seen ELSE state[c]

CheckReturns(c) ==
  /\ calls[c].at = "waiting" /\ calls[c].checking
  /\ Call(c, IF Seen(c) \in Settling THEN Settled(calls[c], Seen(c), Seen(c))
             ELSE [calls[c] EXCEPT !.checking = FALSE])

(* mutant of Heard: the timer and the listeners go at the first event *)
HeardFirst(call, from, to) ==
  IF to \in Settling THEN Settled(call, IF Copies THEN from ELSE to, to)
  ELSE [call EXCEPT !.at = "deaf"]

(* onStateChange: the engine announces a state before it stores the row, from  *)
(* which the listener makes its copy.                                      *)
Heard(call, from, to) ==
  IF to \in Settling THEN Settled(call, IF Copies THEN from ELSE to, to) ELSE call

Hears(e, to) ==
  /\ calls' = [c \in Calls |->
       IF c = e /\ calls[c].at = "waiting" THEN Heard(calls[c], state[c], to) ELSE calls[c]]
  /\ UNCHANGED <<current, adapters>>

SafetyTimer(c) ==
  /\ calls[c].at = "waiting"
  /\ Call(c, [calls[c] EXCEPT !.at = "answered", !.checking = FALSE, !.answer = "error"])

(* handleToolCall: anything but waiting and failed is taken for complete *)
AnswerFor(execution) ==
  CASE execution = "waiting" -> "waiting"
    [] execution = "failed"  -> "error"
    [] OTHER                 -> "result"

Answers(c) ==
  /\ calls[c].at = "settled"
  /\ Call(c, [calls[c] EXCEPT !.at = "answered", !.answer = AnswerFor(Seen(c))])
=============================================================================
