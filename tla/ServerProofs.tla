------------------------------ MODULE ServerProofs -----------------------------
(***************************************************************************)
(* Proofs, for every number of executions, calls, requests, commands,      *)
(* clients, servers and edits, of what the runs of ServerProperties check  *)
(* on small instances: answers, tools, events and exit codes agree with    *)
(* the engine.                                                             *)
(***************************************************************************)
EXTENDS ServerProperties, TLAPS

(* An execution is deleted once it has ended. *)
EngineSound ==
  /\ status \in {"ready", "draining", "closing", "stopped"}
  /\ DOMAIN flows = Names
  /\ state \in [Ids -> States \cup {"absent"}]
  /\ deleted \subseteq Ids
  /\ \A e \in deleted : state[e] \in Terminal

CallRecord ==
  [at       : {"none", "triggering", "triggered", "waiting", "settled", "answered"},
   seen     : States \cup {"absent"},
   checking : BOOLEAN,
   on       : States \cup {"none"},
   answer   : {"none", "result", "waiting", "error"}]

(* A call that has settled did so on a wait, or on the end its execution has; *)
(* it is answered once, by what has become of its execution by now.        *)
CallFits(call, now) ==
  /\ call \in CallRecord
  /\ call.at # "answered" => call.answer = "none"
  /\ call.at = "settled" =>
       /\ call.seen # "absent"
       /\ call.on = "waiting" \/ (call.on \in Terminal /\ now = call.on)
  /\ call.answer = "result" => now = "complete" \/ call.on = "waiting"
  /\ call.answer = "waiting" => call.on = "waiting"

CallsSound ==
  /\ calls \in [Calls -> CallRecord]
  /\ \A c \in Calls : CallFits(calls[c], state[c])

AdapterRecord ==
  [at        : {"none", "connecting", "running", "failed", "stopping", "stopped"},
   listening : BOOLEAN, tools : SUBSET Names, stoppers : Nat]

(* A server that connects or runs hears of flows. *)
AdaptersSound ==
  /\ adapters \in [Adapters -> AdapterRecord]
  /\ \A a \in Adapters : adapters[a].at \in {"connecting", "running"} => adapters[a].listening
  /\ ToolsServed

ClientRecord ==
  [at : {"none", "connecting", "streaming", "refused", "gone"}, aborted : BOOLEAN,
   heard : States \cup {"absent"}]

(* Only connections are sent events. *)
ClientsSound ==
  /\ clients \in [Clients -> ClientRecord]
  /\ connections \subseteq Clients
  /\ \A k \in Clients : clients[k].at \in {"none", "connecting"} => clients[k].heard = "absent"
  /\ \A k \in connections : clients[k].at = "streaming"
  /\ Followed

RequestRecord ==
  [at : {"none", "handling", "acted", "200", "201", "404", "409", "4xx", "503"},
   does : Operations \cup {"none"}, of : Ids \cup {"none"}, shown : States \cup {"absent"}]

(* What an operation has done is done when it is answered, and stays so: what  *)
(* is true of a request, given what the executions are now and which are     *)
(* gone.                                                                   *)
RequestFits(r, request, now, gone) ==
  LET about == IF request.does \in {"trigger", "replay"} THEN r ELSE request.of
  IN /\ request \in RequestRecord
     /\ request.at = "none" => request.shown = "absent"
     /\ request.at # "none" => request.of \in Ids /\ request.does \in Operations
     /\ request.at = "acted" => request.does \in {"trigger", "replay", "resume", "cancel"}
     /\ request.at = "acted" /\ request.does \in {"trigger", "replay"} => now[r] # "absent"
     /\ request.at \in {"acted", "200"} /\ request.does = "cancel" => now[request.of] = "failed"
     /\ request.at = "200" /\ request.does = "delete" => request.of \in gone
     /\ request.at = "201" => now[r] # "absent"
     /\ request.shown \in Terminal => now[about] = request.shown

RequestsSound ==
  /\ requests \in [Requests -> RequestRecord]
  /\ \A r \in Requests : RequestFits(r, requests[r], state, deleted)

CommandRecord ==
  [at : {"none", "asking", "asked", "alone", "exited"}, does : Operations \cup {"none"},
   of : Ids \cup {"none"}, exit : {"none", "ok", "error", "not found"}]

CommandSound(k) ==
  /\ commands[k].at = "asking" => commands[k].of \in Ids /\ commands[k].does \in Operations
  /\ commands[k].at = "exited" /\ commands[k].exit = "ok" => requests[k].at \in {"200", "201"}

CommandsSound ==
  /\ commands \in [Commands -> CommandRecord]
  /\ \A k \in Commands : CommandSound(k)

(* The version of the file is registered, being imported or waited for. *)
DevSound ==
  /\ debounce \in BOOLEAN /\ watching \in BOOLEAN /\ disturbed \in BOOLEAN
  /\ status = "ready" /\ watching /\ ~debounce /\ ~disturbed =>
       imports = {file} \/ (imports = {} /\ flows[Watched] = file)

(* Truthful is of a store that hands out the objects themselves. *)
IInv ==
  /\ EngineSound /\ AdaptersSound /\ ClientsSound
  /\ RequestsSound /\ CommandsSound /\ DevSound
  /\ Copies \/ CallsSound

-------------------------------------------------------------------------------
(* The engine *)

(* What a step does to the engine *)
LEMMA EngineStep ==
  ASSUME RequestsSound, [Next]_vars
  PROVE  \/ UNCHANGED engineVars
         \/ \E e \in Ids : Create(e) \/ Delete(e) \/ \E to \in States : Moves(e, to)
         \/ Shutdown \/ Drained \/ Stopped
         \/ \E n \in Names : Register(n, 1) \/ Unregister(n)
         \/ \E v \in 1 .. MaxVersions : Reload(v)
<1> DEFINE Goal == \/ UNCHANGED engineVars
                   \/ \E e \in Ids : Create(e) \/ Delete(e) \/ \E to \in States : Moves(e, to)
                   \/ Shutdown \/ Drained \/ Stopped
                   \/ \E n \in Names : Register(n, 1) \/ Unregister(n)
                   \/ \E v \in 1 .. MaxVersions : Reload(v)
<1>1. ASSUME UNCHANGED vars PROVE Goal
  BY <1>1 DEF vars
<1>2. ASSUME ExecutionMoves PROVE Goal
  BY <1>2 DEF ExecutionMoves
<1>3. ASSUME FlowsRegister PROVE Goal
  BY <1>3 DEF FlowsRegister
<1>4. ASSUME Reloads PROVE Goal
  BY <1>4 DEF Reloads
<1>5. ASSUME Develops \/ ServerStarts \/ Request \/ Commanding \/ Streams \/ Stops PROVE Goal
  BY <1>5 DEF Develops, ServerStarts, Request, Commanding, Streams, Stops
<1>6. ASSUME NEW c \in Calls, Arrives(c) \/ GoesOn(c) PROVE Goal
  BY <1>6 DEF Arrives, GoesOn
<1>7. ASSUME NEW c \in Calls, Triggered(c) PROVE Goal
  BY <1>7, McpAssumption DEF Triggered, CallTriggers
<1>8. ASSUME RequestActs PROVE Goal
  <2>1. PICK r \in Requests :
          \/ RequestCreates(r) \/ RequestDeletes(r)
          \/ \E to \in {"running", "failed"} : RequestMoves(r, to)
    BY <1>8 DEF RequestActs
  <2>2. r \in Ids
    BY HttpAssumption
  <2>3. CASE RequestCreates(r)
    BY <2>2, <2>3 DEF RequestCreates
  <2>4. CASE RequestDeletes(r)
    <3>1. requests[r].of \in Ids
      BY <2>4 DEF RequestDeletes, Handles, RequestsSound, RequestFits
    <3>2. QED
      BY <2>4, <3>1 DEF RequestDeletes
  <2>5. ASSUME NEW to \in {"running", "failed"}, RequestMoves(r, to) PROVE Goal
    <3>1. requests[r].of \in Ids
      BY <2>5 DEF RequestMoves, Handles, RequestsSound, RequestFits
    <3>2. Moves(requests[r].of, to) /\ to \in States
      BY <2>5 DEF RequestMoves, States
    <3>3. QED
      BY <3>1, <3>2
  <2>6. QED
    BY <2>1, <2>3, <2>4, <2>5
<1>9. ASSUME HttpStops \/ EngineStops PROVE Goal
  BY <1>9 DEF HttpStops, EngineStops, StopsEngine
<1> HIDE DEF Goal
<1>10. Goal
  BY <1>1, <1>2, <1>3, <1>4, <1>5, <1>6, <1>7, <1>8, <1>9 DEF Next
<1>11. QED
  BY <1>10 DEF Goal

(* Executions that have ended stay as they are, and none becomes unmade. *)
Onward ==
  /\ \A e \in Ids : /\ state[e] \in Terminal => state'[e] = state[e]
                    /\ state[e] # "absent" => state'[e] # "absent"
                    /\ state'[e] # state[e] => state[e] = "absent" \/ CanMove(state[e], state'[e])
  /\ deleted \subseteq deleted'
  /\ status' = "ready" => status = "ready"

LEMMA EngineNext ==
  ASSUME EngineSound, RequestsSound, [Next]_vars
  PROVE  EngineSound' /\ Onward
<1> USE DEF EngineSound, Onward
<1>1. CASE UNCHANGED engineVars
  BY <1>1 DEF engineVars
<1>2. ASSUME NEW e \in Ids, Create(e) PROVE EngineSound' /\ Onward
  <2>1. state[e] = "absent" /\ state' = [state EXCEPT ![e] = "queued"] /\ UNCHANGED <<status, flows, deleted>>
    BY <1>2 DEF Create, InitialState
  <2>2. QED
    BY <2>1 DEF Terminal, States
<1>3. ASSUME NEW e \in Ids, Delete(e) PROVE EngineSound' /\ Onward
  <2>1. state[e] \in Terminal /\ deleted' = deleted \cup {e} /\ UNCHANGED <<status, flows, state>>
    BY <1>3 DEF Delete, Stored, Terminal
  <2>2. QED
    BY <2>1
<1>4. ASSUME NEW e \in Ids, NEW to \in States, Moves(e, to) PROVE EngineSound' /\ Onward
  <2>1. /\ CanMove(state[e], to) /\ state' = [state EXCEPT ![e] = to]
        /\ UNCHANGED <<status, flows, deleted>>
    BY <1>4 DEF Moves
  <2>2. state[e] \notin Terminal /\ to # "absent"
    BY <2>1 DEF CanMove, Successors, Terminal, States
  <2>3. \A x \in Ids : state'[x] = IF x = e THEN to ELSE state[x]
    BY <2>1
  <2>4. QED
    BY <2>1, <2>2, <2>3 DEF Terminal
<1>5. CASE Shutdown \/ Drained \/ Stopped
  BY <1>5 DEF Shutdown, Drained, Stopped
<1>6. ASSUME NEW n \in Names, Register(n, 1) \/ Unregister(n) PROVE EngineSound' /\ Onward
  BY <1>6 DEF Register, Unregister
<1>7. ASSUME NEW v \in 1 .. MaxVersions, Reload(v) PROVE EngineSound' /\ Onward
  BY <1>7 DEF Reload
<1>8. QED
  BY <1>1, <1>2, <1>3, <1>4, <1>5, <1>6, <1>7, EngineStep

-------------------------------------------------------------------------------
(* Tool calls *)

(* What is true of a call stays true while its execution goes on. *)
LEMMA FitsOnward ==
  ASSUME NEW call, NEW old, NEW new, CallFits(call, old), old \in Terminal => new = old
  PROVE  CallFits(call, new)
BY DEF CallFits, Terminal

(* What a step does to the calls: one of them goes on, or one hears of a move. *)
LEMMA CallStep ==
  ASSUME ~Copies, CallsSound, EngineSound, [Next]_vars
  PROVE  \/ UNCHANGED calls
         \/ \E c \in Calls : \E new : /\ calls' = [calls EXCEPT ![c] = new]
                                      /\ CallFits(new, state'[c])
         \/ \E e, to : Hears(e, to) /\ Moves(e, to)
<1> DEFINE Goal == \/ UNCHANGED calls
                   \/ \E c \in Calls : \E new : /\ calls' = [calls EXCEPT ![c] = new]
                                                /\ CallFits(new, state'[c])
                   \/ \E e, to : Hears(e, to) /\ Moves(e, to)
<1>1. ASSUME NEW c \in Calls, Arrives(c) \/ Triggered(c) \/ GoesOn(c) PROVE Goal
  <2>1. calls[c] \in CallRecord /\ CallFits(calls[c], state[c])
    BY DEF CallsSound
  <2>2. state[c] \in States \cup {"absent"} /\ Stored(c) \in States \cup {"absent"}
    BY McpAssumption DEF EngineSound, Stored
  <2>3. CASE Arrives(c)
    <3>1. [NoCall EXCEPT !.at = "triggering"] \in CallRecord
      BY DEF NoCall, CallRecord
    <3>2. CallFits([NoCall EXCEPT !.at = "triggering"], state'[c])
      BY <3>1 DEF CallFits, NoCall
    <3>3. QED
      BY <2>3, <3>2 DEF Arrives, CallArrives, Call
  <2>4. CASE Triggered(c)
    <3>1. CASE CallTriggers(c)
      <4> DEFINE new == [calls[c] EXCEPT !.at = "triggered"]
      <4>1. CallFits(new, state'[c])
        BY <2>1, <3>1 DEF CallFits, CallRecord, CallTriggers
      <4>2. QED
        BY <3>1, <4>1 DEF CallTriggers, Call
    <3>2. CASE TriggerThrows(c)
      <4> DEFINE new == [calls[c] EXCEPT !.at = "answered", !.answer = "error"]
      <4>1. CallFits(new, state'[c])
        BY <2>1, <3>2 DEF CallFits, CallRecord, TriggerThrows
      <4>2. QED
        BY <3>2, <4>1 DEF TriggerThrows, Call
    <3>3. QED
      BY <2>4, <3>1, <3>2 DEF Triggered
  <2>5. CASE GoesOn(c)
    <3>1. state' = state
      BY <2>5 DEF GoesOn, engineVars
    <3>2. Seen(c) = IF calls[c].seen = "absent" THEN "absent" ELSE state[c]
      BY DEF Seen
    <3>3. CASE Waits(c)
      <4> DEFINE new == [calls[c] EXCEPT !.at = "waiting", !.checking = TRUE, !.seen = Stored(c)]
      <4>1. CallFits(new, state[c])
        BY <2>1, <2>2, <3>3 DEF CallFits, CallRecord, Waits
      <4>2. QED
        BY <3>1, <3>3, <4>1 DEF Waits, Call
    <3>4. CASE CheckReturns(c) /\ Seen(c) \in Settling
      <4> DEFINE new == [calls[c] EXCEPT !.at = "settled", !.checking = FALSE,
                                         !.seen = Seen(c), !.on = Seen(c)]
      <4>1. Seen(c) = state[c] /\ Seen(c) # "absent" /\ Seen(c) \in States
        BY <3>2, <3>4 DEF Settling, Terminal, States
      <4>2. CallFits(new, state[c])
        BY <2>1, <3>4, <4>1 DEF CallFits, CallRecord, CheckReturns, Settling
      <4>3. QED
        BY <3>1, <3>4, <4>2 DEF CheckReturns, Call, Settled
    <3>5. CASE CheckReturns(c) /\ Seen(c) \notin Settling
      <4> DEFINE new == [calls[c] EXCEPT !.checking = FALSE]
      <4>1. CallFits(new, state[c])
        BY <2>1, <3>5 DEF CallFits, CallRecord, CheckReturns
      <4>2. QED
        BY <3>1, <3>5, <4>1 DEF CheckReturns, Call
    <3>6. CASE SafetyTimer(c)
      <4> DEFINE new == [calls[c] EXCEPT !.at = "answered", !.checking = FALSE, !.answer = "error"]
      <4>1. CallFits(new, state[c])
        BY <2>1, <3>6 DEF CallFits, CallRecord, SafetyTimer
      <4>2. QED
        BY <3>1, <3>6, <4>1 DEF SafetyTimer, Call
    <3>7. CASE Answers(c)
      <4> DEFINE answer == AnswerFor(Seen(c))
                 new == [calls[c] EXCEPT !.at = "answered", !.answer = answer]
      <4>1. calls[c].at = "settled" /\ Seen(c) = state[c]
        BY <2>1, <3>2, <3>7 DEF CallFits, Answers
      <4>2. /\ answer \in {"result", "waiting", "error"}
            /\ answer = "result" => state[c] # "waiting" /\ state[c] # "failed"
            /\ answer = "waiting" => state[c] = "waiting"
        BY <4>1 DEF AnswerFor
      <4> HIDE DEF answer
      <4>3. CallFits(new, state[c])
        BY <2>1, <4>1, <4>2 DEF CallFits, CallRecord, Terminal
      <4>4. calls' = [calls EXCEPT ![c] = new]
        BY <3>7 DEF Answers, Call, answer
      <4>5. QED
        BY <3>1, <4>3, <4>4
    <3>8. QED
      BY <2>5, <3>3, <3>4, <3>5, <3>6, <3>7 DEF GoesOn
  <2>6. QED
    BY <1>1, <2>3, <2>4, <2>5
<1>2. ASSUME RequestActs \/ ExecutionMoves PROVE Goal
  BY <1>2 DEF RequestActs, ExecutionMoves, RequestMoves, mcpVars
<1>3. ASSUME FlowsRegister \/ Reloads \/ Develops \/ ServerStarts PROVE Goal
  BY <1>3 DEF FlowsRegister, Reloads, Develops, ServerStarts, FlowsChange, mcpVars,
              StartServer, StopServer, Connects, ServerStops
<1>4. ASSUME Request \/ Commanding \/ Streams \/ Stops \/ HttpStops \/ EngineStops PROVE Goal
  BY <1>4 DEF Request, Commanding, Streams, Stops, HttpStops, EngineStops, StopServer, mcpVars
<1>5. ASSUME UNCHANGED vars PROVE Goal
  BY <1>5 DEF vars, mcpVars
<1> HIDE DEF Goal
<1>6. Goal
  BY <1>1, <1>2, <1>3, <1>4, <1>5 DEF Next
<1>7. QED
  BY <1>6 DEF Goal

(* Over a store that hands out objects every answer is true when it is made,  *)
(* and stays true.                                                         *)
LEMMA CallsNext ==
  ASSUME ~Copies, CallsSound, EngineSound, RequestsSound, [Next]_vars
  PROVE  CallsSound'
<1>1. Onward /\ EngineSound'
  BY EngineNext
<1>2. \A c \in Calls : c \in Ids /\ (state[c] \in Terminal => state'[c] = state[c])
  BY <1>1, McpAssumption DEF Onward
<1>3. \A c \in Calls : CallFits(calls[c], state'[c])
  BY <1>2, FitsOnward DEF CallsSound
<1>4. CASE UNCHANGED calls
  BY <1>3, <1>4 DEF CallsSound
<1>5. ASSUME NEW c \in Calls, NEW new,
             calls' = [calls EXCEPT ![c] = new], CallFits(new, state'[c])
      PROVE  CallsSound'
  <2>1. new \in CallRecord
    BY <1>5 DEF CallFits
  <2>2. \A d \in Calls : calls'[d] = IF d = c THEN new ELSE calls[d]
    BY <1>5 DEF CallsSound
  <2>3. calls' \in [Calls -> CallRecord]
    BY <1>5, <2>1 DEF CallsSound
  <2>4. \A d \in Calls : CallFits(calls'[d], state'[d])
    BY <1>3, <1>5, <2>2
  <2>5. QED
    BY <2>3, <2>4 DEF CallsSound
<1>6. ASSUME NEW e, NEW to, Hears(e, to), Moves(e, to)
      PROVE  CallsSound'
  <2>1. \A c \in Calls : calls'[c] = IF c = e /\ calls[c].at = "waiting"
                                     THEN Heard(calls[c], state[c], to) ELSE calls[c]
    BY <1>6 DEF Hears
  <2>2. ASSUME NEW c \in Calls, c = e, calls[c].at = "waiting", to \in Settling
        PROVE  CallFits(calls'[c], state'[c])
    <3> DEFINE new == [calls[c] EXCEPT !.at = "settled", !.checking = FALSE, !.seen = to, !.on = to]
    <3>1. calls'[c] = new
      BY <2>1, <2>2 DEF Heard, Settled
    <3>2. state'[c] = to
      BY <1>2, <1>6, <2>2 DEF Moves, EngineSound
    <3>3. CallFits(calls[c], state[c]) /\ calls[c] \in CallRecord
      BY DEF CallsSound
    <3>4. CallFits(new, to)
      BY <2>2, <3>3 DEF CallFits, CallRecord, Settling, Terminal, States
    <3>5. QED
      BY <3>1, <3>2, <3>4
  <2>3. ASSUME NEW c \in Calls, ~(c = e /\ calls[c].at = "waiting" /\ to \in Settling)
        PROVE  CallFits(calls'[c], state'[c])
    <3>1. calls'[c] = calls[c]
      BY <2>1, <2>3 DEF Heard
    <3>2. QED
      BY <1>3, <3>1
  <2>4. \A c \in Calls : CallFits(calls'[c], state'[c])
    BY <2>2, <2>3
  <2>5. DOMAIN calls' = Calls /\ calls' = [c \in Calls |-> calls'[c]]
    BY <1>6 DEF Hears
  <2>6. calls' \in [Calls -> CallRecord]
    BY <2>4, <2>5 DEF CallFits
  <2>7. QED
    BY <2>4, <2>6 DEF CallsSound
<1>7. QED
  BY <1>4, <1>5, <1>6, CallStep

-------------------------------------------------------------------------------
(* Servers *)

(* Flows change in two ways only. *)
LEMMA FlowStep ==
  ASSUME [Next]_vars
  PROVE  UNCHANGED flows \/ FlowsRegister \/ Reloads
<1>1. ASSUME NEW c \in Calls, Arrives(c) \/ Triggered(c) \/ GoesOn(c) PROVE UNCHANGED flows
  BY <1>1 DEF Arrives, Triggered, GoesOn, CallTriggers, Create, engineVars
<1>2. ASSUME ExecutionMoves \/ RequestActs PROVE UNCHANGED flows
  BY <1>2 DEF ExecutionMoves, RequestActs, RequestCreates, RequestDeletes, RequestMoves,
              Create, Delete, Moves
<1>3. ASSUME \/ Develops \/ ServerStarts \/ Request \/ Commanding \/ Streams \/ Stops
             \/ UNCHANGED vars
      PROVE  UNCHANGED flows
  BY <1>3 DEF Develops, ServerStarts, Request, Commanding, Streams, Stops, vars, engineVars
<1>4. ASSUME HttpStops \/ EngineStops PROVE UNCHANGED flows
  BY <1>4 DEF HttpStops, EngineStops, StopsEngine, Shutdown, Drained, Stopped, engineVars
<1>5. QED
  BY <1>1, <1>2, <1>3, <1>4 DEF Next

(* What a step that is not about flows does to the servers *)
LEMMA AdapterStep ==
  ASSUME [Next]_vars
  PROVE  \/ UNCHANGED adapters
         \/ FlowsChange
         \/ UNCHANGED flows /\ \E a \in Adapters :
              StartServer(a) \/ Connects(a) \/ StopServer(a) \/ ServerStops(a)
<1> DEFINE Goal == \/ UNCHANGED adapters
                   \/ FlowsChange
                   \/ UNCHANGED flows /\ \E a \in Adapters :
                        StartServer(a) \/ Connects(a) \/ StopServer(a) \/ ServerStops(a)
<1>1. ASSUME FlowsRegister \/ Reloads PROVE Goal
  BY <1>1 DEF FlowsRegister, Reloads
<1>2. ASSUME NEW c \in Calls, Arrives(c) \/ Triggered(c) \/ GoesOn(c) PROVE Goal
  BY <1>2 DEF Arrives, Triggered, GoesOn, CallArrives, CallTriggers, TriggerThrows,
              Waits, CheckReturns, SafetyTimer, Answers, Call
<1>3. ASSUME ExecutionMoves \/ RequestActs PROVE Goal
  BY <1>3 DEF ExecutionMoves, RequestActs, Hears, mcpVars
<1>4. ASSUME Develops \/ Request \/ Commanding \/ Streams \/ Stops \/ UNCHANGED vars PROVE Goal
  BY <1>4 DEF Develops, Request, Commanding, Streams, Stops, vars, mcpVars
<1>5. ASSUME ServerStarts PROVE Goal
  BY <1>5 DEF ServerStarts, engineVars
<1>6. ASSUME HttpStops \/ EngineStops PROVE Goal
  BY <1>6 DEF HttpStops, EngineStops, mcpVars, engineVars
<1> HIDE DEF Goal
<1>7. Goal
  BY <1>1, <1>2, <1>3, <1>4, <1>5, <1>6 DEF Next
<1>8. QED
  BY <1>7 DEF Goal

LEMMA AdaptersNext ==
  ASSUME AdaptersSound, [Next]_vars
  PROVE  AdaptersSound'
<1> USE DEF AdaptersSound, ToolsServed
<1>1. CASE FlowsChange
  <2> DEFINE registered == {n \in Names : flows'[n] > 0}
             told(a) == [adapters[a] EXCEPT !.tools = registered]
  <2>1. registered \subseteq Names /\ Registered' = registered
    BY DEF Registered
  <2>2. \A a \in Adapters : adapters'[a] = IF adapters[a].listening THEN told(a) ELSE adapters[a]
    BY <1>1 DEF FlowsChange
  <2> HIDE DEF registered
  <2>3. \A a \in Adapters : /\ told(a) \in AdapterRecord /\ told(a).tools = registered
                            /\ told(a).at = adapters[a].at /\ told(a).listening = adapters[a].listening
    BY <2>1 DEF AdapterRecord
  <2> HIDE DEF told
  <2>4. adapters' = [a \in Adapters |-> IF adapters[a].listening THEN told(a) ELSE adapters[a]]
    BY <1>1 DEF FlowsChange, told, registered
  <2>5. adapters' \in [Adapters -> AdapterRecord]
    BY <2>3, <2>4
  <2>6. QED
    BY <2>1, <2>2, <2>3, <2>5
<1>2. CASE UNCHANGED flows /\ UNCHANGED adapters
  BY <1>2 DEF Registered
<1>3. ASSUME NEW a \in Adapters, UNCHANGED flows,
             StartServer(a) \/ Connects(a) \/ StopServer(a) \/ ServerStops(a)
      PROVE  AdaptersSound'
  <2>1. Registered' = Registered /\ Registered \subseteq Names
    BY <1>3 DEF Registered
  <2>2. adapters[a] \in AdapterRecord
    OBVIOUS
  <2>3. PICK new : /\ adapters' = [adapters EXCEPT ![a] = new]
                   /\ new \in AdapterRecord
                   /\ new.at \in {"connecting", "running"} => new.listening /\ new.tools = Registered
    <3>1. CASE StartServer(a)
      <4>1. /\ Starting \in AdapterRecord /\ Starting.listening
            /\ Starting.tools = Registered
        BY <2>1 DEF Starting, AdapterRecord
      <4>2. adapters' = [adapters EXCEPT ![a] = Starting]
        BY <3>1 DEF StartServer
      <4>3. QED
        BY <4>1, <4>2
    <3>2. CASE Connects(a)
      <4>1. [adapters[a] EXCEPT !.at = "running", !.listening = TRUE] \in AdapterRecord
            /\ [adapters[a] EXCEPT !.at = "failed"] \in AdapterRecord
        BY <2>2 DEF AdapterRecord
      <4>2. adapters[a].tools = Registered
        BY <3>2 DEF Connects
      <4>3. CASE adapters' = [adapters EXCEPT ![a].at = "running", ![a].listening = TRUE]
        <5> DEFINE new == [adapters[a] EXCEPT !.at = "running", !.listening = TRUE]
        <5>1. adapters' = [adapters EXCEPT ![a] = new]
          BY <4>3
        <5>2. new.listening /\ new.tools = Registered
          BY <2>2, <4>2 DEF AdapterRecord
        <5>3. QED
          BY <4>1, <5>1, <5>2
      <4>4. CASE adapters' = [adapters EXCEPT ![a].at = "failed"]
        <5> DEFINE new == [adapters[a] EXCEPT !.at = "failed"]
        <5>1. adapters' = [adapters EXCEPT ![a] = new] /\ new.at = "failed"
          BY <2>2, <4>4 DEF AdapterRecord
        <5>2. QED
          BY <4>1, <5>1
      <4>5. QED
        BY <3>2, <4>3, <4>4 DEF Connects
    <3>3. CASE StopServer(a)
      <4> DEFINE more == adapters[a].stoppers + 1
                 new == [adapters[a] EXCEPT !.at = "stopping", !.listening = FALSE, !.stoppers = more]
      <4>1. more \in Nat
        BY <2>2 DEF AdapterRecord
      <4>2. adapters' = [adapters EXCEPT ![a] = new]
        BY <3>3 DEF StopServer
      <4> HIDE DEF more
      <4>3. new \in AdapterRecord /\ new.at = "stopping"
        BY <2>2, <4>1 DEF AdapterRecord
      <4>4. QED
        BY <4>2, <4>3
    <3>4. CASE ServerStops(a)
      <4> DEFINE new == [adapters[a] EXCEPT !.at = "stopped", !.tools = {}, !.stoppers = @ - 1]
      <4>1. new \in AdapterRecord /\ new.at = "stopped"
        BY <2>2, <3>4 DEF AdapterRecord, ServerStops
      <4>2. adapters' = [adapters EXCEPT ![a] = new]
        BY <3>4 DEF ServerStops
      <4>3. QED
        BY <4>1, <4>2
    <3>5. QED
      BY <1>3, <3>1, <3>2, <3>3, <3>4
  <2>4. /\ adapters' \in [Adapters -> AdapterRecord]
        /\ \A b \in Adapters : adapters'[b] = IF b = a THEN new ELSE adapters[b]
    BY <2>3
  <2>5. QED
    BY <2>1, <2>3, <2>4
<1>4. QED
  BY <1>1, <1>2, <1>3, FlowStep, AdapterStep DEF FlowsRegister, Reloads

-------------------------------------------------------------------------------
(* Event streams *)

(* What a step does to the executions and their streams: every move is sent,  *)
(* only the first state of an execution is not.                            *)
LEMMA StreamStep ==
  ASSUME RequestsSound, [Next]_vars
  PROVE  \/ UNCHANGED <<clients, connections, stop, state>>
         \/ UNCHANGED <<clients, connections, stop>> /\ \E e \in Ids : Create(e)
         \/ UNCHANGED <<connections, stop>>
              /\ \E e \in Ids, to \in States : Moves(e, to) /\ Streamed(e, to)
         \/ UNCHANGED <<stop, state>> /\ \E k \in Clients :
              \/ ClientConnects(k) \/ ClientAborts(k) \/ ClientAdded(k) \/ ClientRefused(k)
              \/ WriteFails(k)
         \/ UNCHANGED <<clients, state>> /\ stop' # "none" /\ connections' \subseteq connections
<1> DEFINE Goal ==
         \/ UNCHANGED <<clients, connections, stop, state>>
         \/ UNCHANGED <<clients, connections, stop>> /\ \E e \in Ids : Create(e)
         \/ UNCHANGED <<connections, stop>>
              /\ \E e \in Ids, to \in States : Moves(e, to) /\ Streamed(e, to)
         \/ UNCHANGED <<stop, state>> /\ \E k \in Clients :
              \/ ClientConnects(k) \/ ClientAborts(k) \/ ClientAdded(k) \/ ClientRefused(k)
              \/ WriteFails(k)
         \/ UNCHANGED <<clients, state>> /\ stop' # "none" /\ connections' \subseteq connections
<1>1. ASSUME ExecutionMoves PROVE Goal
  BY <1>1 DEF ExecutionMoves, Broadcast
<1>2. ASSUME FlowsRegister \/ Reloads PROVE Goal
  BY <1>2 DEF FlowsRegister, Reloads, Register, Unregister, Reload, httpVars
<1>3. ASSUME Develops \/ ServerStarts \/ UNCHANGED vars PROVE Goal
  BY <1>3 DEF Develops, ServerStarts, vars, engineVars, httpVars
<1>4. ASSUME NEW c \in Calls, Arrives(c) \/ Triggered(c) \/ GoesOn(c) PROVE Goal
  <2>1. c \in Ids
    BY McpAssumption
  <2>2. QED
    BY <1>4, <2>1 DEF Arrives, Triggered, GoesOn, CallTriggers, engineVars, httpVars
<1>5. ASSUME Request \/ Commanding PROVE Goal
  <2>1. state' = state
    BY <1>5 DEF Request, Commanding, engineVars
  <2>2. UNCHANGED <<clients, connections, stop>>
    BY <1>5 DEF Request, Commanding, RequestArrives, RequestFails, RequestAnswers, Reaches,
                Requested, CommandStarts, Asks, ReadsAnswer, httpVars
  <2>3. QED
    BY <2>1, <2>2
<1>6. ASSUME RequestActs PROVE Goal
  <2>1. PICK r \in Requests :
          \/ RequestCreates(r) \/ RequestDeletes(r)
          \/ \E to \in {"running", "failed"} : RequestMoves(r, to)
    BY <1>6 DEF RequestActs
  <2>2. CASE RequestCreates(r)
    BY <2>2, HttpAssumption DEF RequestCreates, Reaches, Requested
  <2>3. CASE RequestDeletes(r)
    BY <2>3 DEF RequestDeletes, Delete, Reaches, Requested
  <2>4. ASSUME NEW to \in {"running", "failed"}, RequestMoves(r, to) PROVE Goal
    <3>1. requests[r].of \in Ids
      BY <2>4 DEF RequestMoves, Handles, RequestsSound, RequestFits
    <3>2. /\ Moves(requests[r].of, to) /\ Streamed(requests[r].of, to) /\ to \in States
          /\ UNCHANGED <<connections, stop>>
      BY <2>4 DEF RequestMoves, States
    <3>3. QED
      BY <3>1, <3>2
  <2>5. QED
    BY <2>1, <2>2, <2>3, <2>4
<1>7. ASSUME Streams PROVE Goal
  <2>1. state' = state
    BY <1>7 DEF Streams, engineVars
  <2>2. \E k \in Clients :
          /\ \/ ClientConnects(k) \/ ClientAborts(k) \/ ClientAdded(k) \/ ClientRefused(k)
             \/ WriteFails(k)
          /\ UNCHANGED stop
    BY <1>7 DEF Streams, ClientConnects, ClientAborts, ClientAdded, ClientRefused, WriteFails, Client
  <2>3. QED
    BY <2>1, <2>2
<1>8. ASSUME Stops PROVE Goal
  BY <1>8 DEF Stops, StopHttp, engineVars
<1>9. ASSUME HttpStops \/ EngineStops PROVE Goal
  BY <1>9 DEF HttpStops, EngineStops, StopsEngine, HttpStopped, Shutdown, Drained, Stopped,
              engineVars, httpVars
<1> HIDE DEF Goal
<1>10. Goal
  BY <1>1, <1>2, <1>3, <1>4, <1>5, <1>6, <1>7, <1>8, <1>9 DEF Next
<1>11. QED
  BY <1>10 DEF Goal

LEMMA ClientsNext ==
  ASSUME ClientsSound, EngineSound, RequestsSound, [Next]_vars
  PROVE  ClientsSound'
<1> USE DEF ClientsSound, Followed
<1>1. CASE UNCHANGED <<clients, connections, stop, state>>
  BY <1>1
<1>2. ASSUME UNCHANGED <<clients, connections, stop>>, NEW e \in Ids, Create(e)
      PROVE  ClientsSound'
  <2>1. /\ state[e] = "absent"
        /\ \A x \in Ids : state'[x] = IF x = e THEN InitialState ELSE state[x]
    BY <1>2 DEF Create, EngineSound
  <2>2. QED
    BY <1>2, <2>1
<1>3. ASSUME UNCHANGED <<connections, stop>>, NEW e \in Ids, NEW to \in States,
             Moves(e, to), Streamed(e, to)
      PROVE  ClientsSound'
  <2>1. \A x \in Ids : state'[x] = IF x = e THEN to ELSE state[x]
    BY <1>3 DEF Moves, EngineSound
  <2> DEFINE sent(k) == stop = "none" /\ k \in connections /\ e \in Follows(k)
             heard(k) == [clients[k] EXCEPT !.heard = to]
  <2>2. \A k \in Clients : clients'[k] = IF sent(k) THEN heard(k) ELSE clients[k]
    BY <1>3 DEF Streamed
  <2>3. clients' = [k \in Clients |-> IF sent(k) THEN heard(k) ELSE clients[k]]
    BY <1>3 DEF Streamed
  <2>4. \A k \in Clients : /\ heard(k) \in ClientRecord /\ heard(k).heard = to
                           /\ heard(k).at = clients[k].at
    BY DEF ClientRecord
  <2> HIDE DEF heard
  <2>5. clients' \in [Clients -> ClientRecord]
    BY <2>3, <2>4
  <2>6. \A k \in Clients : clients'[k].at = clients[k].at
    BY <2>2, <2>4
  <2>7. \A k \in Clients : clients'[k].at \in {"none", "connecting"} => clients'[k].heard = "absent"
    BY <2>2, <2>4
  <2>8. ASSUME NEW k \in Clients, NEW x \in Ids,
               stop = "none", k \in connections, Follows(k) = {x}
        PROVE  clients'[k].heard \in {"absent", state'[x]}
    BY <2>1, <2>2, <2>4, <2>8
  <2>9. QED
    BY <1>3, <2>5, <2>6, <2>7, <2>8
<1>4. ASSUME UNCHANGED <<stop, state>>, NEW k \in Clients,
             ClientConnects(k) \/ ClientAborts(k) \/ ClientAdded(k) \/ ClientRefused(k)
      PROVE  ClientsSound'
  <2>1. clients[k] \in ClientRecord
    OBVIOUS
  <2>2. PICK new : /\ clients' = [clients EXCEPT ![k] = new]
                   /\ new \in ClientRecord /\ new.heard = clients[k].heard
                   /\ new.at \in {"none", "connecting"} => clients[k].at \in {"none", "connecting"}
                   /\ \/ connections' = connections \ {k}
                      \/ connections' = connections /\ clients[k].at # "streaming"
                      \/ connections' = connections \cup {k} /\ new.at = "streaming"
                           /\ clients[k].heard = "absent"
    <3>1. CASE ClientConnects(k)
      <4> DEFINE new == [NoClient EXCEPT !.at = "connecting"]
      <4>1. /\ new \in ClientRecord /\ new.heard = "absent" /\ new.at = "connecting"
            /\ clients[k].at = "none" /\ clients[k].heard = "absent"
        BY <3>1 DEF ClientConnects, NoClient, ClientRecord
      <4>2. clients' = [clients EXCEPT ![k] = new] /\ connections' = connections
        BY <3>1 DEF ClientConnects, Client
      <4>3. QED
        BY <4>1, <4>2
    <3>2. CASE ClientAdded(k)
      <4> DEFINE new == [clients[k] EXCEPT !.at = "streaming"]
      <4>1. /\ new \in ClientRecord /\ new.heard = clients[k].heard /\ new.at = "streaming"
            /\ clients[k].heard = "absent"
        BY <2>1, <3>2 DEF ClientAdded, ClientRecord
      <4>2. clients' = [clients EXCEPT ![k] = new] /\ connections' = connections \cup {k}
        BY <3>2 DEF ClientAdded, Client
      <4>3. QED
        BY <4>1, <4>2
    <3>3. CASE ClientRefused(k)
      <4> DEFINE new == [clients[k] EXCEPT !.at = "refused"]
      <4>1. /\ new \in ClientRecord /\ new.heard = clients[k].heard /\ new.at = "refused"
            /\ clients[k].at = "connecting"
        BY <2>1, <3>3 DEF ClientRefused, ClientRecord
      <4>2. clients' = [clients EXCEPT ![k] = new] /\ connections' = connections
        BY <3>3 DEF ClientRefused, Client
      <4>3. QED
        BY <4>1, <4>2
    <3>4. CASE ClientAborts(k) /\ clients[k].at = "connecting"
      <4> DEFINE new == [clients[k] EXCEPT !.aborted = TRUE]
      <4>1. new \in ClientRecord /\ new.heard = clients[k].heard /\ new.at = "connecting"
        BY <2>1, <3>4 DEF ClientRecord
      <4>2. clients' = [clients EXCEPT ![k] = new] /\ connections' = connections
        BY <3>4 DEF ClientAborts, Client
      <4>3. QED
        BY <3>4, <4>1, <4>2
    <3>5. CASE ClientAborts(k) /\ clients[k].at = "streaming"
      <4> DEFINE new == [clients[k] EXCEPT !.at = "gone"]
      <4>1. new \in ClientRecord /\ new.heard = clients[k].heard /\ new.at = "gone"
        BY <2>1 DEF ClientRecord
      <4>2. clients' = [clients EXCEPT ![k] = new] /\ connections' = connections \ {k}
        BY <3>5 DEF ClientAborts, Client
      <4>3. QED
        BY <4>1, <4>2
    <3>6. QED
      BY <1>4, <3>1, <3>2, <3>3, <3>4, <3>5 DEF ClientAborts
  <2>3. /\ clients' \in [Clients -> ClientRecord]
        /\ \A j \in Clients : clients'[j] = IF j = k THEN new ELSE clients[j]
    BY <2>2
  <2>4. connections' \subseteq Clients
    BY <2>2
  <2>5. \A j \in Clients : clients'[j].at \in {"none", "connecting"} => clients'[j].heard = "absent"
    BY <2>2, <2>3
  <2>6. \A j \in connections' : clients'[j].at = "streaming"
    BY <2>2, <2>3
  <2>7. ASSUME NEW j \in Clients, NEW x \in Ids,
               stop = "none", j \in connections', Follows(j) = {x}
        PROVE  clients'[j].heard \in {"absent", state[x]}
    BY <2>2, <2>3, <2>7
  <2>8. QED
    BY <1>4, <2>3, <2>4, <2>5, <2>6, <2>7
<1>5. ASSUME UNCHANGED <<stop, state>>, NEW k \in Clients, WriteFails(k)
      PROVE  ClientsSound'
  BY <1>5 DEF WriteFails
<1>6. CASE UNCHANGED <<clients, state>> /\ stop' # "none" /\ connections' \subseteq connections
  BY <1>6
<1>7. QED
  BY <1>1, <1>2, <1>3, <1>4, <1>5, <1>6, StreamStep

-------------------------------------------------------------------------------
(* Requests and commands *)

(* What is true of a request stays true while executions go on. *)
LEMMA RequestOnward ==
  ASSUME Onward, NEW r \in Requests, NEW request, RequestFits(r, request, state, deleted)
  PROVE  RequestFits(r, request, state', deleted')
<1>1. r \in Ids
  BY HttpAssumption
<1>2. request.shown \in Terminal => request.of \in Ids
  BY DEF RequestFits, Terminal
<1>3. request.at = "200" => request.of \in Ids
  BY DEF RequestFits
<1>4. request.at = "acted" => request.of \in Ids
  BY DEF RequestFits
<1>5. "failed" \in Terminal
  BY DEF Terminal
<1>6. QED
  BY <1>1, <1>2, <1>3, <1>4, <1>5 DEF RequestFits, Onward

(* What a step does to the requests: it changes one, to what is true of it. *)
LEMMA RequestStep ==
  ASSUME RequestsSound, CommandsSound, EngineSound, Onward, [Next]_vars
  PROVE  \/ UNCHANGED requests
         \/ \E r \in Requests : \E new :
              /\ requests' = [requests EXCEPT ![r] = new]
              /\ RequestFits(r, new, state', deleted')
              /\ requests[r].at \notin {"200", "201"} /\ new.at # "none"
<1> DEFINE Goal == \/ UNCHANGED requests
                   \/ \E r \in Requests : \E new :
                        /\ requests' = [requests EXCEPT ![r] = new]
                        /\ RequestFits(r, new, state', deleted')
                        /\ requests[r].at \notin {"200", "201"} /\ new.at # "none"
<1>1. ASSUME NEW r \in Requests, NEW does \in Operations, NEW e \in Ids, RequestArrives(r, does, e)
      PROVE  Goal
  <2> DEFINE at == IF stop = "none" THEN "handling" ELSE "503"
             new == [NoRequest EXCEPT !.at = at, !.does = does, !.of = e]
  <2>1. at \in {"handling", "503"}
    OBVIOUS
  <2>2. requests' = [requests EXCEPT ![r] = new] /\ requests[r].at = "none"
    BY <1>1 DEF RequestArrives, Requested
  <2> HIDE DEF at
  <2>3. /\ new.at = at /\ new.does = does /\ new.of = e /\ new.shown = "absent"
        /\ new \in RequestRecord
    BY <2>1 DEF NoRequest, RequestRecord
  <2> HIDE DEF new
  <2>4. RequestFits(r, new, state', deleted')
    BY <2>1, <2>3 DEF RequestFits, Terminal
  <2>5. QED
    BY <2>1, <2>2, <2>3, <2>4 DEF new
<1>2. ASSUME NEW r \in Requests, NEW at, requests[r].at = "handling",
             requests' = [requests EXCEPT ![r] = [requests[r] EXCEPT !.at = at]],
             \/ at \in {"404", "409", "4xx", "503"}
             \/ at = "acted" /\ Creates(r) /\ state'[r] # "absent"
             \/ at = "acted" /\ requests[r].does = "resume"
             \/ at = "acted" /\ requests[r].does = "cancel" /\ state'[requests[r].of] = "failed"
             \/ at = "200" /\ requests[r].does = "delete" /\ requests[r].of \in deleted'
      PROVE  Goal
  <2> DEFINE new == [requests[r] EXCEPT !.at = at]
  <2>1. requests[r] \in RequestRecord /\ RequestFits(r, requests[r], state', deleted')
    BY RequestOnward DEF RequestsSound
  <2>2. /\ new.at = at /\ new.does = requests[r].does /\ new.of = requests[r].of
        /\ new.shown = requests[r].shown /\ new \in RequestRecord
    BY <1>2, <2>1 DEF RequestRecord
  <2> HIDE DEF new
  <2>3. requests[r].of \in Ids /\ requests[r].does \in Operations
    BY <1>2, <2>1 DEF RequestFits
  <2>4. RequestFits(r, new, state', deleted')
    BY <1>2, <2>1, <2>2, <2>3 DEF RequestFits, Creates
  <2>5. QED
    BY <1>2, <2>2, <2>4 DEF new
<1>3. ASSUME NEW r \in Requests, RequestFails(r) PROVE Goal
  BY <1>2, <1>3 DEF RequestFails, Reaches, Requested
<1>4. ASSUME NEW r \in Requests, RequestAnswers(r), UNCHANGED engineVars PROVE Goal
  <2> DEFINE now == Stored(About(r))
             at == IF Creates(r) THEN "201" ELSE "200"
             shown == IF requests[r].does = "list" THEN "absent" ELSE now
             new == [requests[r] EXCEPT !.at = at, !.shown = shown]
  <2>1. requests[r] \in RequestRecord /\ RequestFits(r, requests[r], state, deleted)
    BY DEF RequestsSound
  <2>2. state' = state /\ deleted' = deleted
    BY <1>4 DEF engineVars
  <2>3. /\ \/ requests[r].at = "acted"
           \/ requests[r].at = "handling" /\ requests[r].does \in {"list", "get", "resume"}
        /\ requests' = [requests EXCEPT ![r] = new]
    BY <1>4 DEF RequestAnswers, Handles, Requested
  <2>4. requests[r].of \in Ids /\ requests[r].does \in Operations /\ About(r) \in Ids
    BY <2>1, <2>3, HttpAssumption DEF RequestFits, About
  <2>5. now \in States \cup {"absent"} /\ (now \in Terminal => state[About(r)] = now)
    BY <2>4 DEF Stored, EngineSound, Terminal
  <2>6. at \in {"200", "201"}
    OBVIOUS
  <2>7. shown \in States \cup {"absent"} /\ (shown \in Terminal => state[About(r)] = shown)
    BY <2>5 DEF Terminal
  <2> HIDE DEF now, shown
  <2>8. /\ new.at = at /\ new.does = requests[r].does /\ new.of = requests[r].of
        /\ new.shown = shown /\ new \in RequestRecord
    BY <2>1, <2>6, <2>7 DEF RequestRecord
  <2> HIDE DEF new
  <2>9. at = "201" => requests[r].at = "acted" /\ requests[r].does \in {"trigger", "replay"}
    BY <2>3 DEF Creates
  <2>10. at = "200" => requests[r].does \notin {"trigger", "replay"}
    BY DEF Creates
  <2>11. requests[r].does = "delete" => requests[r].at # "acted"
    BY <2>1 DEF RequestFits
  <2> HIDE DEF at
  <2>12. RequestFits(r, new, state, deleted)
    BY <2>1, <2>3, <2>4, <2>6, <2>7, <2>8, <2>9, <2>10, <2>11 DEF RequestFits, About, Creates
  <2>13. QED
    BY <2>2, <2>3, <2>6, <2>8, <2>12
<1>5. ASSUME Request PROVE Goal
  <2>1. UNCHANGED engineVars
    BY <1>5 DEF Request
  <2>2. ASSUME NEW r \in Requests, NEW does \in Operations, NEW e \in Targets(r, does)
        PROVE  e \in Ids
    BY HttpAssumption DEF Targets
  <2>3. QED
    BY <1>1, <1>3, <1>4, <1>5, <2>1, <2>2 DEF Request
<1>6. ASSUME Commanding PROVE Goal
  <2>1. PICK k \in Commands :
          \/ \E does \in {"trigger", "list", "resume"} :
               \E e \in Targets(k, does) : CommandStarts(k, does, e)
          \/ Asks(k) \/ ReadsAnswer(k)
    BY <1>6 DEF Commanding
  <2>2. CASE Asks(k) /\ commands[k].at = "asking" /\ RequestArrives(k, commands[k].does, commands[k].of)
    <3>1. k \in Requests /\ commands[k].does \in Operations /\ commands[k].of \in Ids
      BY <2>2, CommandAssumption DEF CommandsSound, CommandSound
    <3>2. QED
      BY <1>1, <2>2, <3>1
  <2>3. QED
    BY <2>1, <2>2 DEF CommandStarts, Asks, ReadsAnswer, httpVars
<1>7. ASSUME RequestActs PROVE Goal
  <2>1. PICK r \in Requests :
          \/ RequestCreates(r) \/ RequestDeletes(r)
          \/ \E to \in {"running", "failed"} : RequestMoves(r, to)
    BY <1>7 DEF RequestActs
  <2>2. r \in Ids /\ requests[r] \in RequestRecord /\ RequestFits(r, requests[r], state, deleted)
    BY HttpAssumption DEF RequestsSound
  <2>3. CASE RequestCreates(r)
    <3>1. requests[r].at = "handling" /\ Creates(r)
      BY <2>3 DEF RequestCreates, Handles, Creates
    <3>2. state'[r] # "absent"
      BY <2>2, <2>3 DEF RequestCreates, Create, EngineSound, InitialState
    <3>3. requests' = [requests EXCEPT ![r] = [requests[r] EXCEPT !.at = "acted"]]
      BY <2>3 DEF RequestCreates, Reaches, Requested
    <3>4. QED
      BY <1>2, <3>1, <3>2, <3>3
  <2>4. CASE RequestDeletes(r)
    <3>1. /\ requests[r].at = "handling" /\ requests[r].does = "delete"
          /\ requests[r].of \in deleted'
          /\ requests' = [requests EXCEPT ![r] = [requests[r] EXCEPT !.at = "200"]]
      BY <2>4 DEF RequestDeletes, Handles, Delete, Reaches, Requested
    <3>2. QED
      BY <1>2, <3>1
  <2>5. ASSUME NEW to \in {"running", "failed"}, RequestMoves(r, to) PROVE Goal
    <3>1. /\ requests[r].at = "handling"
          /\ \/ requests[r].does = "resume"
             \/ requests[r].does = "cancel" /\ to = "failed"
          /\ Moves(requests[r].of, to)
          /\ requests' = [requests EXCEPT ![r] = [requests[r] EXCEPT !.at = "acted"]]
      BY <2>5 DEF RequestMoves, Handles
    <3>2. requests[r].of \in Ids
      BY <2>2, <3>1 DEF RequestFits
    <3>3. state'[requests[r].of] = to
      BY <3>1, <3>2 DEF Moves, EngineSound
    <3>4. QED
      BY <1>2, <3>1, <3>3
  <2>6. QED
    BY <2>1, <2>3, <2>4, <2>5
<1>8. ASSUME ExecutionMoves \/ FlowsRegister \/ Reloads \/ Develops \/ ServerStarts \/ UNCHANGED vars
      PROVE  Goal
  BY <1>8 DEF ExecutionMoves, Broadcast, FlowsRegister, Reloads, Develops, ServerStarts, vars, httpVars
<1>9. ASSUME NEW c \in Calls, Arrives(c) \/ Triggered(c) \/ GoesOn(c) PROVE Goal
  BY <1>9 DEF Arrives, Triggered, GoesOn, httpVars
<1>10. ASSUME Streams \/ Stops \/ HttpStops \/ EngineStops PROVE Goal
  BY <1>10 DEF Streams, ClientConnects, ClientAborts, ClientAdded, ClientRefused, WriteFails, Client,
               Stops, StopHttp, HttpStops, StopsEngine, HttpStopped, EngineStops, httpVars
<1> HIDE DEF Goal
<1>11. Goal
  BY <1>5, <1>6, <1>7, <1>8, <1>9, <1>10 DEF Next
<1>12. QED
  BY <1>11 DEF Goal

LEMMA RequestsNext ==
  ASSUME RequestsSound, CommandsSound, EngineSound, [Next]_vars
  PROVE  /\ RequestsSound'
         /\ \A r \in Requests : requests[r].at \in {"200", "201"} => requests'[r].at = requests[r].at
<1>1. Onward
  BY EngineNext
<1>2. \A r \in Requests : RequestFits(r, requests[r], state', deleted')
  BY <1>1, RequestOnward DEF RequestsSound
<1>3. CASE UNCHANGED requests
  BY <1>2, <1>3 DEF RequestsSound
<1>4. ASSUME NEW r \in Requests, NEW new,
             requests' = [requests EXCEPT ![r] = new],
             RequestFits(r, new, state', deleted'),
             requests[r].at \notin {"200", "201"}
      PROVE  /\ RequestsSound'
             /\ \A q \in Requests :
                  requests[q].at \in {"200", "201"} => requests'[q].at = requests[q].at
  <2>1. new \in RequestRecord
    BY <1>4 DEF RequestFits
  <2>2. \A q \in Requests : requests'[q] = IF q = r THEN new ELSE requests[q]
    BY <1>4 DEF RequestsSound
  <2>3. requests' \in [Requests -> RequestRecord]
    BY <1>4, <2>1 DEF RequestsSound
  <2>4. \A q \in Requests : RequestFits(q, requests'[q], state', deleted')
    BY <1>2, <1>4, <2>2
  <2>5. QED
    BY <1>4, <2>2, <2>3, <2>4 DEF RequestsSound
<1>5. QED
  BY <1>1, <1>3, <1>4, RequestStep

(* What a step does to the commands: one exits well only on a good answer. *)
LEMMA CommandsNext ==
  ASSUME RequestsSound, CommandsSound, EngineSound, [Next]_vars
  PROVE  CommandsSound'
<1>1. \A r \in Requests : requests[r].at \in {"200", "201"} => requests'[r].at = requests[r].at
  BY RequestsNext
<1>2. CASE UNCHANGED commands
  BY <1>1, <1>2, CommandAssumption DEF CommandsSound, CommandSound
<1>3. ASSUME NEW k \in Commands, NEW new \in CommandRecord,
             commands' = [commands EXCEPT ![k] = new],
             new.at = "asking" => new.of \in Ids /\ new.does \in Operations,
             new.at = "exited" /\ new.exit = "ok" => requests[k].at \in {"200", "201"}
      PROVE  CommandsSound'
  <2>1. \A j \in Commands : commands'[j] = IF j = k THEN new ELSE commands[j]
    BY <1>3 DEF CommandsSound
  <2>2. commands' \in [Commands -> CommandRecord]
    BY <1>3 DEF CommandsSound
  <2>3. \A j \in Commands : CommandSound(j)'
    BY <1>1, <1>3, <2>1, CommandAssumption DEF CommandsSound, CommandSound
  <2>4. QED
    BY <2>2, <2>3 DEF CommandsSound
<1>4. ASSUME Commanding PROVE CommandsSound'
  <2>1. PICK k \in Commands :
          \/ \E does \in {"trigger", "list", "resume"} :
               \E e \in Targets(k, does) : CommandStarts(k, does, e)
          \/ Asks(k) \/ ReadsAnswer(k)
    BY <1>4 DEF Commanding
  <2>2. commands[k] \in CommandRecord /\ k \in Ids
    BY CommandAssumption, HttpAssumption DEF CommandsSound
  <2>3. ASSUME NEW at \in {"asked", "alone", "exited"}, NEW code \in {"none", "ok", "error", "not found"},
               commands' = [commands EXCEPT ![k] = [commands[k] EXCEPT !.at = at, !.exit = code]],
               at = "exited" /\ code = "ok" => requests[k].at \in {"200", "201"}
        PROVE  CommandsSound'
    <3> DEFINE new == [commands[k] EXCEPT !.at = at, !.exit = code]
    <3>1. new \in CommandRecord /\ new.at = at /\ new.exit = code
      BY <2>2 DEF CommandRecord
    <3>2. QED
      BY <1>3, <2>3, <3>1
  <2>4. ASSUME NEW does \in {"trigger", "list", "resume"}, NEW e \in Targets(k, does),
               CommandStarts(k, does, e)
        PROVE  CommandsSound'
    <3>1. CASE Commanded(k, [NoCommand EXCEPT !.at = "asking", !.does = does, !.of = e])
      <4> DEFINE new == [NoCommand EXCEPT !.at = "asking", !.does = does, !.of = e]
      <4>1. e \in Ids /\ does \in Operations
        BY <2>2 DEF Targets, Operations
      <4>2. /\ new \in CommandRecord /\ new.at = "asking"
            /\ new.of = e /\ new.does = does
        BY <4>1 DEF NoCommand, CommandRecord
      <4>3. commands' = [commands EXCEPT ![k] = new]
        BY <3>1 DEF Commanded
      <4> HIDE DEF new
      <4>4. QED
        BY <1>3, <4>1, <4>2, <4>3
    <3>2. CASE Exits(k, "alone", ExitInEngine(does))
      <4>1. ExitInEngine(does) \in {"ok", "error", "not found"}
        BY DEF ExitInEngine
      <4>2. QED
        BY <2>3, <3>2, <4>1 DEF Exits, Commanded
    <3>3. QED
      BY <2>4, <3>1, <3>2 DEF CommandStarts
  <2>5. CASE Asks(k)
    <3>1. CASE Commanded(k, [commands[k] EXCEPT !.at = "asked"])
      <4> DEFINE new == [commands[k] EXCEPT !.at = "asked"]
      <4>1. new \in CommandRecord /\ new.at = "asked"
        BY <2>2 DEF CommandRecord
      <4>2. QED
        BY <1>3, <3>1, <4>1 DEF Commanded
    <3>2. CASE Exits(k, "exited", "error")
      BY <2>3, <3>2 DEF Exits, Commanded
    <3>3. QED
      BY <2>5, <3>1, <3>2 DEF Asks
  <2>6. CASE ReadsAnswer(k)
    <3>1. /\ ExitFor(requests[k]) \in {"ok", "error", "not found"}
          /\ ExitFor(requests[k]) = "ok" => requests[k].at \in {"200", "201"}
      BY DEF ExitFor
    <3>2. QED
      BY <2>3, <2>6, <3>1 DEF ReadsAnswer, Exits, Commanded
  <2>7. QED
    BY <2>1, <2>4, <2>5, <2>6
<1>5. ASSUME \/ ExecutionMoves \/ FlowsRegister \/ Reloads \/ Develops \/ ServerStarts
             \/ Request \/ RequestActs \/ Streams \/ Stops \/ HttpStops \/ EngineStops
             \/ UNCHANGED vars
      PROVE  UNCHANGED commands
  BY <1>5 DEF ExecutionMoves, FlowsRegister, Reloads, Develops, ServerStarts, Request, RequestActs,
              Streams, Stops, HttpStops, EngineStops, vars
<1>6. ASSUME NEW c \in Calls, Arrives(c) \/ Triggered(c) \/ GoesOn(c) PROVE UNCHANGED commands
  BY <1>6 DEF Arrives, Triggered, GoesOn
<1>7. QED
  BY <1>2, <1>4, <1>5, <1>6 DEF Next

-------------------------------------------------------------------------------
(* Flows in files *)

LEMMA DevNext ==
  ASSUME DevSound, EngineSound, RequestsSound, [Next]_vars
  PROVE  DevSound'
<1> USE DEF DevSound
<1>1. status' = "ready" => status = "ready"
  BY EngineNext DEF Onward
<1>2. CASE UNCHANGED devVars /\ flows'[Watched] = flows[Watched]
  BY <1>1, <1>2 DEF devVars
<1>3. ASSUME FlowsRegister PROVE UNCHANGED devVars /\ flows'[Watched] = flows[Watched]
  <2>1. PICK n \in Names \ {Watched} : Register(n, 1) \/ Unregister(n)
    BY <1>3 DEF FlowsRegister
  <2>2. flows'[Watched] = flows[Watched]
    BY <2>1, DevAssumption DEF Register, Unregister, EngineSound
  <2>3. QED
    BY <1>3, <2>2 DEF FlowsRegister
<1>4. ASSUME Reloads PROVE DevSound'
  <2>1. PICK v \in 1 .. MaxVersions : Reload(v)
    BY <1>4 DEF Reloads
  <2>2. status = "ready" => flows'[Watched] = v
    BY <2>1, DevAssumption DEF Reload, EngineSound
  <2>3. QED
    BY <2>1, <2>2 DEF Reload
<1>5. ASSUME Develops PROVE DevSound'
  <2>1. status' = status /\ flows' = flows
    BY <1>5 DEF Develops, engineVars
  <2>2. CASE Edit
    BY <2>1, <2>2 DEF Edit
  <2>3. CASE DebounceFires
    <3>1. /\ debounce' = FALSE /\ imports' = imports \cup {file} /\ UNCHANGED <<file, watching>>
          /\ disturbed' = (disturbed \/ imports # {})
      BY <2>3 DEF DebounceFires
    <3>2. disturbed' \in BOOLEAN /\ (~disturbed' => imports = {})
      BY <3>1
    <3>3. QED
      BY <3>1, <3>2
  <2>4. ASSUME NEW v \in 1 .. MaxVersions, ImportFails(v) PROVE DevSound'
    BY <2>4 DEF ImportFails
  <2>5. QED
    BY <1>5, <2>2, <2>3, <2>4 DEF Develops
<1>6. ASSUME Stops PROVE DevSound'
  BY <1>6 DEF Stops, StopWatching
<1>7. ASSUME ExecutionMoves \/ ServerStarts \/ Request \/ RequestActs \/ Commanding \/ Streams
             \/ HttpStops \/ EngineStops \/ UNCHANGED vars
      PROVE  UNCHANGED devVars
  BY <1>7 DEF ExecutionMoves, ServerStarts, Request, RequestActs, Commanding, Streams, HttpStops,
              EngineStops, vars
<1>8. ASSUME NEW c \in Calls, Arrives(c) \/ Triggered(c) \/ GoesOn(c) PROVE UNCHANGED devVars
  BY <1>8 DEF Arrives, Triggered, GoesOn
<1>9. QED
  BY <1>2, <1>3, <1>4, <1>5, <1>6, <1>7, <1>8, FlowStep DEF Next

-------------------------------------------------------------------------------
(* What follows *)

LEMMA Initially == Init => IInv
<1> SUFFICES ASSUME Init PROVE IInv
  OBVIOUS
<1> USE DEF Init
<1>1. EngineSound
  BY DEF InitEngine, EngineSound
<1>2. AdaptersSound
  <2>1. Unstarted \in AdapterRecord /\ Unstarted.at = "none"
    BY DEF Unstarted, AdapterRecord
  <2>2. QED
    BY <2>1 DEF InitMcp, AdaptersSound, ToolsServed
<1>3. ClientsSound
  <2>1. NoClient \in ClientRecord /\ NoClient.heard = "absent"
    BY DEF NoClient, ClientRecord
  <2>2. QED
    BY <2>1 DEF InitHttp, ClientsSound, Followed
<1>4. RequestsSound
  <2>1. \A r \in Requests : RequestFits(r, NoRequest, state, deleted)
    BY DEF NoRequest, RequestFits, RequestRecord, Terminal
  <2>2. NoRequest \in RequestRecord
    BY DEF NoRequest, RequestRecord
  <2>3. QED
    BY <2>1, <2>2 DEF InitHttp, RequestsSound
<1>5. CommandsSound
  <2>1. NoCommand \in CommandRecord /\ NoCommand.at = "none"
    BY DEF NoCommand, CommandRecord
  <2>2. QED
    BY <2>1 DEF InitCommands, CommandsSound, CommandSound
<1>6. DevSound
  BY DevAssumption DEF InitEngine, InitDev, DevSound
<1>7. CallsSound
  <2>1. \A c \in Calls : CallFits(NoCall, state[c])
    BY DEF NoCall, CallFits, CallRecord
  <2>2. NoCall \in CallRecord
    BY DEF NoCall, CallRecord
  <2>3. QED
    BY <2>1, <2>2 DEF InitMcp, CallsSound
<1>8. QED
  BY <1>1, <1>2, <1>3, <1>4, <1>5, <1>6, <1>7 DEF IInv

(* The inductive invariant, of every behaviour of the servers over either       *)
(* store.                                                                  *)
THEOREM Invariance == Spec => []IInv
<1>1. Init => IInv
  BY Initially
<1>2. IInv /\ [Next]_vars => IInv'
  <2> SUFFICES ASSUME IInv, [Next]_vars PROVE IInv'
    OBVIOUS
  <2> USE DEF IInv
  <2>1. EngineSound' /\ AdaptersSound' /\ ClientsSound'
    BY EngineNext, AdaptersNext, ClientsNext
  <2>2. RequestsSound' /\ CommandsSound' /\ DevSound'
    BY RequestsNext, CommandsNext, DevNext
  <2>3. Copies \/ CallsSound'
    BY CallsNext
  <2>4. QED
    BY <2>1, <2>2, <2>3
<1>3. QED
  BY <1>1, <1>2, PTL DEF Spec

(* Over either store: a server that listens offers the registered flows, a       *)
(* follower has last heard of the state its execution is in, requests and     *)
(* commands are answered for what they did, and a quiet file is registered.  *)
THEOREM EitherStoreFaithful == Spec => [](ToolsServed /\ Followed /\ Answered /\ Fresh)
<1>1. IInv => ToolsServed /\ Followed /\ Answered /\ Fresh
  <2> SUFFICES ASSUME IInv PROVE ToolsServed /\ Followed /\ Answered /\ Fresh
    OBVIOUS
  <2>1. ToolsServed /\ Followed
    BY DEF IInv, AdaptersSound, ClientsSound
  <2>2. Answered
    <3>1. ASSUME NEW r \in Requests
          PROVE  LET request == requests[r]
                 IN /\ request.shown \in Terminal => state[About(r)] = request.shown
                    /\ request.at = "200" /\ request.does = "cancel" => state[request.of] = "failed"
                    /\ request.at = "200" /\ request.does = "delete" => request.of \in deleted
                    /\ request.at = "201" => state[r] # "absent"
      BY DEF IInv, RequestsSound, RequestFits, About, Creates
    <3>2. \A r \in Requests :
            r \in Commands /\ commands[r].at = "exited" /\ commands[r].exit = "ok" =>
              requests[r].at \in {"200", "201"}
      BY DEF IInv, CommandsSound, CommandSound
    <3>3. QED
      BY <3>1, <3>2 DEF Answered
  <2>3. Fresh
    BY DEF IInv, DevSound, Fresh
  <2>4. QED
    BY <2>1, <2>2, <2>3
<1>2. QED
  BY <1>1, Invariance, PTL

(* Over a store that hands out the objects themselves, as the one in memory      *)
(* does, every answer is true as well (server/mcp-server-adapter.ts:283); over *)
(* the SQLite store it need not be, as the run server_durable shows.         *)
THEOREM AlwaysFaithful ==
  ASSUME ~Copies
  PROVE  Spec => []Faithful
<1>1. IInv => Truthful
  BY DEF IInv, CallsSound, CallFits, Truthful
<1>2. Spec => []Truthful
  BY <1>1, Invariance, PTL
<1>3. QED
  BY <1>2, EitherStoreFaithful, PTL DEF Faithful

-------------------------------------------------------------------------------
(* The engine the servers see *)

(* A listener of execution:complete counts each end once. *)
Ended == [e \in Ids |-> IF state[e] \in Terminal THEN 1 ELSE 0]

Life == INSTANCE Executions WITH state <- state, announced <- Ended

LEMMA EngineLives ==
  ASSUME EngineSound, RequestsSound, [Next]_vars
  PROVE  [Life!Next]_(Life!vars)
<1> USE DEF Life!vars
<1>1. ASSUME UNCHANGED state PROVE Life!vars' = Life!vars
  BY <1>1 DEF Ended
<1>2. ASSUME NEW e \in Ids, Create(e) PROVE Life!Create(e)
  <2>1. state[e] = "absent" /\ state' = [state EXCEPT ![e] = InitialState]
    BY <1>2 DEF Create
  <2>2. \A d \in Ids : (state[d] \in Terminal <=> state'[d] \in Terminal)
    BY <2>1 DEF EngineSound, InitialState, Terminal
  <2>3. Ended' = Ended
    BY <2>2 DEF Ended
  <2>4. QED
    BY <2>1, <2>3 DEF Life!Create, Life!InitialState, InitialState
<1>3. ASSUME NEW e \in Ids, NEW to \in States, Moves(e, to)
      PROVE  Life!Advance(e, to) \/ Life!Finish(e, to)
  <2>1. CanMove(state[e], to) /\ state' = [state EXCEPT ![e] = to]
    BY <1>3 DEF Moves
  <2>2. state[e] \notin Terminal
    BY <2>1 DEF CanMove, Successors, Terminal, States
  <2>3. \A d \in Ids : state'[d] = IF d = e THEN to ELSE state[d]
    BY <2>1 DEF EngineSound
  <2>4. CASE to \notin Terminal
    <3>1. Ended' = Ended
      BY <2>2, <2>3, <2>4 DEF Ended
    <3>2. QED
      BY <2>1, <2>4, <3>1 DEF Life!Advance, Life!CanMove, Life!Terminal, CanMove, Terminal,
                              Life!Successors, Successors, Life!States, States
  <2>5. CASE to \in Terminal
    <3>1. Ended' = [d \in Ids |-> IF d = e THEN 1 ELSE Ended[d]]
      BY <2>3, <2>5 DEF Ended
    <3>2. Ended[e] = 0
      BY <2>2 DEF Ended
    <3>3. Ended' = [Ended EXCEPT ![e] = @ + 1]
      <4>1. [Ended EXCEPT ![e] = @ + 1] = [d \in Ids |-> IF d = e THEN 1 ELSE Ended[d]]
        <5>1. DOMAIN Ended = Ids
          BY DEF Ended
        <5>2. Ended = [d \in Ids |-> Ended[d]]
          BY DEF Ended
        <5>3. QED
          BY <3>2, <5>1, <5>2
      <4>2. QED
        BY <3>1, <4>1
    <3>4. QED
      BY <2>1, <2>5, <3>3 DEF Life!Finish, Life!CanMove, Life!Terminal, CanMove, Terminal,
                              Life!Successors, Successors, Life!States, States
  <2>6. QED
    BY <2>4, <2>5
<1>4. ASSUME \/ UNCHANGED engineVars \/ Shutdown \/ Drained \/ Stopped
             \/ \E e \in Ids : Delete(e)
             \/ \E n \in Names : Register(n, 1) \/ Unregister(n)
             \/ \E v \in 1 .. MaxVersions : Reload(v)
      PROVE  UNCHANGED state
  BY <1>4 DEF engineVars, Shutdown, Drained, Stopped, Delete, Register, Unregister, Reload
<1>5. QED
  BY <1>1, <1>2, <1>3, <1>4, EngineStep DEF Life!Next, Life!States, States

(* The executions the servers see keep the promise of Executions, which the     *)
(* engine keeps as well (EngineProofs!Refinement): they follow the transition *)
(* table, whatever requests, commands and shutdown do to them, and a listener *)
(* of execution:complete counts each end once (engine.ts:1804-1832).        *)
THEOREM EngineAsPromised == Spec => Life!Spec
<1>1. Init => Life!Init
  BY DEF Init, InitEngine, Life!Init, Ended, Terminal
<1>2. IInv /\ [Next]_vars => [Life!Next]_(Life!vars)
  BY EngineLives DEF IInv
<1>3. QED
  BY <1>1, <1>2, Invariance, PTL DEF Spec, Life!Spec
=============================================================================
