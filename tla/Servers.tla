--------------------------------- MODULE Servers -------------------------------
(***************************************************************************)
(* runcor dev with both servers: MCP clients, HTTP clients, commands and   *)
(* the developer share one engine, whose events the servers hear in the    *)
(* step that emits them.                                                   *)
(***************************************************************************)
EXTENDS McpServer, CommandLine

CONSTANT MaxInputs   \* bound on what others than the tool calls do

VARIABLE inputs      \* what they have done

vars == <<engineVars, mcpVars, httpVars, commands, devVars, inputs>>

Init == InitEngine /\ InitMcp /\ InitHttp /\ InitCommands /\ InitDev /\ inputs = 0

Input == inputs < MaxInputs /\ inputs' = inputs + 1

(* Executions run, wait, are resumed, cancelled, timed out *)
ExecutionMoves ==
  /\ \E e \in Ids, to \in States : Moves(e, to) /\ Hears(e, to) /\ Broadcast(e, to)
  /\ UNCHANGED <<commands, devVars, inputs>>

(* Flows that are not in files *)
FlowsRegister ==
  /\ \E n \in Names \ {Watched} : Register(n, 1) \/ Unregister(n)
  /\ FlowsChange /\ Input /\ UNCHANGED <<httpVars, commands, devVars>>

Reloads ==
  /\ \E v \in 1 .. MaxVersions : Reload(v)
  /\ FlowsChange /\ UNCHANGED <<httpVars, commands, inputs>>

Develops ==
  /\ \/ Edit /\ Input
     \/ (DebounceFires \/ \E v \in 1 .. MaxVersions : ImportFails(v)) /\ UNCHANGED inputs
  /\ UNCHANGED <<engineVars, mcpVars, httpVars, commands>>

ServerStarts ==
  /\ \E a \in Adapters :
       \/ (StartServer(a) \/ StopServer(a)) /\ Input
       \/ (Connects(a) \/ ServerStops(a)) /\ UNCHANGED inputs
  /\ UNCHANGED <<engineVars, httpVars, commands, devVars>>

Arrives(c) == CallArrives(c) /\ UNCHANGED <<engineVars, httpVars, commands, devVars, inputs>>

(* trigger returns or throws *)
Triggered(c) ==
  /\ \/ CallTriggers(c)
     \/ TriggerThrows(c) /\ UNCHANGED engineVars
  /\ UNCHANGED <<httpVars, commands, devVars, inputs>>

GoesOn(c) ==
  /\ Waits(c) \/ CheckReturns(c) \/ SafetyTimer(c) \/ Answers(c)
  /\ UNCHANGED <<engineVars, httpVars, commands, devVars, inputs>>

Targets(r, does) == IF does \in {"trigger", "list"} THEN {r} ELSE Ids \ {r}

Request ==
  /\ \/ \E r \in Requests \ Commands, does \in Operations :
          /\ \E e \in Targets(r, does) : RequestArrives(r, does, e)
          /\ Input
     \/ \E r \in Requests : (RequestFails(r) \/ RequestAnswers(r)) /\ UNCHANGED inputs
  /\ UNCHANGED <<engineVars, mcpVars, commands, devVars>>

(* The operations of requests on executions, whose moves are heard *)
RequestActs ==
  /\ \E r \in Requests :
       \/ (RequestCreates(r) \/ RequestDeletes(r)) /\ UNCHANGED mcpVars
       \/ \E to \in {"running", "failed"} :
            RequestMoves(r, to) /\ Hears(requests[r].of, to)
  /\ UNCHANGED <<commands, devVars, inputs>>

Commanding ==
  /\ \E k \in Commands :
       \/ \E does \in {"trigger", "list", "resume"} :
            \E e \in Targets(k, does) : CommandStarts(k, does, e) /\ Input
       \/ (Asks(k) \/ ReadsAnswer(k)) /\ UNCHANGED inputs
  /\ UNCHANGED <<engineVars, mcpVars, devVars>>

Streams ==
  /\ \E k \in Clients :
       \/ (ClientConnects(k) \/ ClientAborts(k)) /\ Input
       \/ (ClientAdded(k) \/ ClientRefused(k) \/ WriteFails(k)) /\ UNCHANGED inputs
  /\ UNCHANGED <<engineVars, mcpVars, commands, devVars>>

(* A signal: the command stops watching, then the HTTP server, then the engine *)
Stops == StopHttp /\ StopWatching /\ Input /\ UNCHANGED <<engineVars, mcpVars, commands>>

HttpStops ==
  /\ StopsEngine \/ (HttpStopped /\ UNCHANGED engineVars)
  /\ UNCHANGED <<mcpVars, commands, devVars, inputs>>

(* engine.shutdown goes on: the MCP server is stopped if it is running *)
EngineStops ==
  /\ \/ Drained /\ UNCHANGED mcpVars
     \/ status = "closing" /\ (\E a \in Adapters : StopServer(a)) /\ UNCHANGED engineVars
     \/ ~Running(current) /\ Stopped /\ UNCHANGED mcpVars
  /\ UNCHANGED <<httpVars, commands, devVars, inputs>>

Next ==
  \/ ExecutionMoves \/ FlowsRegister \/ Reloads \/ Develops \/ ServerStarts
  \/ (\E c \in Calls : Arrives(c) \/ Triggered(c) \/ GoesOn(c))
  \/ Request \/ RequestActs \/ Commanding \/ Streams \/ Stops \/ HttpStops \/ EngineStops

(* Promises settle, and the safety timer fires *)
Fairness == \A c \in Calls : WF_vars(Triggered(c)) /\ WF_vars(GoesOn(c))

Spec == Init /\ [][Next]_vars /\ Fairness
=============================================================================
