---------------------------- MODULE ServerProperties ---------------------------
(***************************************************************************)
(* What the clients of the servers may rely on.                            *)
(***************************************************************************)
EXTENDS Servers

(* server/mcp-server-adapter.ts:283: the answer of a tool call says what has   *)
(* become of its execution: a result only when it completed, that it waits   *)
(* only when it did.  One that waited and was resumed before the answer was  *)
(* made is left out.                                                       *)
Truthful ==
  \A c \in Calls :
    /\ calls[c].answer = "result" => state[c] = "complete" \/ calls[c].on = "waiting"
    /\ calls[c].answer = "waiting" => calls[c].on = "waiting"

(* server/mcp-server-adapter.ts:74: a server that listens offers the flows     *)
(* that are registered, whatever is registered, unregistered or reloaded     *)
(* while it connects and while other servers start and stop.               *)
ToolsServed ==
  \A a \in Adapters :
    adapters[a].at \in {"connecting", "running"} => adapters[a].tools = Registered

(* http/sse.ts:119: a client that follows one execution has last heard of the  *)
(* state it is in, until the stop of the server.                           *)
Followed ==
  \A k \in Clients, e \in Ids :
    stop = "none" /\ k \in connections /\ Follows(k) = {e} =>
      clients[k].heard \in {"absent", state[e]}

(* http/routes/executions.ts:90: an execution that a request was told to have  *)
(* cancelled has failed, one it was shown as ended has ended so, what it     *)
(* deleted is deleted, and a command that exits well has done what it asked, *)
(* or listed what a temporary engine has.                                  *)
Answered ==
  \A r \in Requests :
    LET request == requests[r]
    IN /\ request.shown \in Terminal => state[About(r)] = request.shown
       /\ request.at = "200" /\ request.does = "cancel" => state[request.of] = "failed"
       /\ request.at = "200" /\ request.does = "delete" => request.of \in deleted
       /\ request.at = "201" => state[r] # "absent"
       /\ r \in Commands /\ commands[r].at = "exited" /\ commands[r].exit = "ok" =>
            request.at \in {"200", "201"}

(* cli/commands/dev.ts:122: when the developer has been quiet the flow is the  *)
(* version of its file, unless imports overlapped or failed.               *)
Fresh ==
  status = "ready" /\ watching /\ ~debounce /\ imports = {} /\ ~disturbed =>
    flows[Watched] = file

Faithful == Truthful /\ ToolsServed /\ Followed /\ Answered /\ Fresh

(* server/mcp-server-adapter.ts:290: every tool call that arrives is answered,  *)
(* whatever becomes of its execution, of the engine and of the server.     *)
CallsEnd ==
  \A c \in Calls : <>[](calls[c].at \in {"none", "answered"})

(* server/mcp-server-adapter.ts:283: "Wait for an execution to reach terminal  *)
(* (complete/failed) or waiting state": a call is not answered with a result *)
(* while its execution has none.                                           *)
ResultsAreResults ==
  \A c \in Calls : calls[c].answer = "result" => state[c] = "complete"
=============================================================================
