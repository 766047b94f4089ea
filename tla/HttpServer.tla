------------------------------- MODULE HttpServer ------------------------------
(***************************************************************************)
(* The HTTP server (createServer): requests that trigger flows and operate *)
(* on executions, event streams (createSSEManager and the route of the     *)
(* events) and the stop.  The other routes only read; bodies and their     *)
(* validation are left out.                                                *)
(***************************************************************************)
EXTENDS ServedEngine, FiniteSets

CONSTANTS
  Requests,        \* named by the executions they trigger, if they do
  Clients,         \* of event streams
  Follows(_),      \* executions whose events pass the filters of a client
  MaxConnections   \* MAX_SSE_CONNECTIONS

ASSUME HttpAssumption == Requests \subseteq Ids /\ MaxConnections \in Nat

VARIABLES
  requests,        \* [at, does, of, shown]: at is "none", "handling", "acted", then the status
  clients,         \* [at, aborted, heard] of each
  connections,     \* of the SSE manager
  stop             \* "none", "closing", "engine", "done"

httpVars == <<requests, clients, connections, stop>>

Operations == {"trigger", "list", "get", "resume", "replay", "cancel", "delete"}

NoClient  == [at |-> "none", aborted |-> FALSE, heard |-> "absent"]
NoRequest == [at |-> "none", does |-> "none", of |-> "none", shown |-> "absent"]

InitHttp ==
  /\ requests = [r \in Requests |-> NoRequest]
  /\ clients = [k \in Clients |-> NoClient]
  /\ connections = {}
  /\ stop = "none"

(* broadcast, until shutdown has taken the listeners off *)
Streamed(e, to) ==
  clients' = [k \in Clients |->
    IF stop = "none" /\ k \in connections /\ e \in Follows(k)
    THEN [clients[k] EXCEPT !.heard = to] ELSE clients[k]]

Broadcast(e, to) == Streamed(e, to) /\ UNCHANGED <<requests, connections, stop>>

(***************************************************************************)
(* Requests                                                                *)
(***************************************************************************)
Requested(r, new) ==
  /\ requests' = [requests EXCEPT ![r] = new]
  /\ UNCHANGED <<clients, connections, stop>>

Reaches(r, at) == Requested(r, [requests[r] EXCEPT !.at = at])

(* New requests are turned away once the stop has begun *)
RequestArrives(r, does, e) ==
  /\ requests[r].at = "none" /\ stop # "done"
  /\ Requested(r, [NoRequest EXCEPT !.at = IF stop = "none" THEN "handling" ELSE "503",
                                    !.does = does, !.of = e])

Handles(r, operation) == requests[r].at = "handling" /\ requests[r].does = operation

(* The states of an execution the engine performs an operation on *)
Allowed(operation) ==
  CASE operation = "resume"  -> {"waiting"}
    [] operation = "cancel"  -> States \ Terminal
    [] operation \in {"replay", "delete"} -> Terminal
    [] operation = "get"     -> States
    [] OTHER                 -> States \cup {"absent"}

(* replay triggers anew: the new execution is named after the request *)
RequestCreates(r) ==
  /\ \/ Handles(r, "trigger")
     \/ Handles(r, "replay") /\ Stored(requests[r].of) \in Allowed("replay")
  /\ Create(r)
  /\ Reaches(r, "acted")

RequestMoves(r, to) ==
  /\ \/ Handles(r, "resume") /\ to = "running"
     \/ Handles(r, "cancel") /\ to = "failed"
  /\ Stored(requests[r].of) \in Allowed(requests[r].does)
  /\ Moves(requests[r].of, to) /\ Streamed(requests[r].of, to)
  /\ requests' = [requests EXCEPT ![r].at = "acted"]
  /\ UNCHANGED <<connections, stop>>

RequestDeletes(r) ==
  /\ Handles(r, "delete")
  /\ Delete(requests[r].of)
  /\ Reaches(r, "200")

(* mapEngineError: what is not there, what is in the wrong state, what any      *)
(* operation may throw otherwise; reads throw nothing else.                *)
RequestFails(r) ==
  LET request == requests[r]
      now == Stored(request.of)
  IN /\ request.at = "handling"
     /\ \/ now = "absent" /\ request.does \notin {"trigger", "list"} /\ Reaches(r, "404")
        \/ request.does = "trigger" /\ status = "ready" /\ Registered # Names /\ Reaches(r, "404")
        \/ now \in States \ Allowed(request.does) /\ Reaches(r, "409")
        \/ request.does \notin {"list", "get"} /\ now \in Allowed(request.does)
             /\ Reaches(r, IF status = "ready" THEN "4xx" ELSE "503")

(* The execution that an answer shows; a resume with the data of the last one   *)
(* is answered without acting.                                             *)
Creates(r) == requests[r].does \in {"trigger", "replay"}
About(r)   == IF Creates(r) THEN r ELSE requests[r].of

RequestAnswers(r) ==
  LET request == requests[r]
      now == Stored(About(r))
  IN /\ \/ request.at = "acted"
        \/ Handles(r, "list")
        \/ Handles(r, "get") /\ now # "absent"
        \/ Handles(r, "resume") /\ now \in {"running"} \cup Terminal
     /\ Requested(r, [request EXCEPT !.at = IF Creates(r) THEN "201" ELSE "200",
                                     !.shown = IF request.does = "list" THEN "absent" ELSE now])

(***************************************************************************)
(* Event streams                                                           *)
(***************************************************************************)
Client(k, new) ==
  /\ clients' = [clients EXCEPT ![k] = new]
  /\ UNCHANGED <<requests, stop>>

ClientConnects(k) ==
  /\ clients[k].at = "none" /\ stop = "none"
  /\ Client(k, [NoClient EXCEPT !.at = "connecting"])
  /\ UNCHANGED connections

(* The greeting is written, the connection added, and onAbort listened to;     *)
(* neither an abort nor a stop that came before is noticed.                *)
ClientAdded(k) ==
  /\ clients[k].at = "connecting" /\ Cardinality(connections) < MaxConnections
  /\ connections' = connections \cup {k}
  /\ Client(k, [clients[k] EXCEPT !.at = "streaming"])

ClientRefused(k) ==
  /\ clients[k].at = "connecting" /\ Cardinality(connections) >= MaxConnections
  /\ Client(k, [clients[k] EXCEPT !.at = "refused"])
  /\ UNCHANGED connections

ClientAborts(k) ==
  /\ ~clients[k].aborted
  /\ \/ /\ clients[k].at = "connecting"
        /\ Client(k, [clients[k] EXCEPT !.aborted = TRUE])
        /\ UNCHANGED connections
     \/ /\ clients[k].at = "streaming"
        /\ Client(k, [clients[k] EXCEPT !.at = "gone"])
        /\ connections' = connections \ {k}

(* A ping or an event cannot be written *)
WriteFails(k) ==
  /\ k \in connections
  /\ connections' = connections \ {k}
  /\ UNCHANGED <<requests, clients, stop>>

(***************************************************************************)
(* Stop                                                                    *)
(***************************************************************************)

(* sseManager.shutdown: a streaming response is not ended by it *)
StopHttp ==
  /\ stop = "none"
  /\ stop' = "closing" /\ connections' = {}
  /\ UNCHANGED <<requests, clients>>

(* The listener has closed, which open streams and requests prevent, or        *)
(* shutdownTimeout is over, which may be at any time; then the engine's      *)
(* shutdown, which returns at once when one is under way.                  *)
StopsEngine ==
  /\ stop = "closing"
  /\ \/ status = "ready" /\ Shutdown /\ stop' = "engine"
     \/ status # "ready" /\ stop' = "done" /\ UNCHANGED engineVars
  /\ UNCHANGED <<requests, clients, connections>>

HttpStopped ==
  /\ stop = "engine" /\ status = "stopped"
  /\ stop' = "done"
  /\ UNCHANGED <<requests, clients, connections>>
=============================================================================
