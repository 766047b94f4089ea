------------------------------- MODULE CommandLine -----------------------------
(***************************************************************************)
(* The command line.  runcor trigger, status and resume talk to a running  *)
(* server: a probe of its health decides between a request and a temporary *)
(* engine, in which no flow is registered and whose memory holds no        *)
(* execution.  Arguments and output are left out but for the exit code,    *)
(* which --no-wait makes "ok" whatever the state.  runcor dev watches the  *)
(* file of a flow, and once a change has been quiet for a while imports it *)
(* and registers it in the place of the old handler; imports are awaited,  *)
(* and several may be under way.                                           *)
(***************************************************************************)
EXTENDS HttpServer

CONSTANTS
  Commands,      \* requests that a command makes
  Watched,       \* the flow whose file is watched
  MaxVersions    \* bound on the changes of the file

ASSUME CommandAssumption == Commands \subseteq Requests
ASSUME DevAssumption     == Watched \in Names

VARIABLES
  commands,      \* [at, does, of, exit] of each: exit is "ok" (0), "error" (1), "not found" (2)
  file,          \* version of the file
  debounce,      \* the timer is set
  imports,       \* versions being imported
  watching,
  disturbed      \* history: an import failed, or came back with others under way

devVars == <<file, debounce, imports, watching, disturbed>>

(***************************************************************************)
(* trigger, status, resume                                                 *)
(***************************************************************************)

NoCommand == [at |-> "none", does |-> "none", of |-> "none", exit |-> "none"]

InitCommands == commands = [k \in Commands |-> NoCommand]

Commanded(k, new) == commands' = [commands EXCEPT ![k] = new]

Exits(k, at, code) == Commanded(k, [commands[k] EXCEPT !.at = at, !.exit = code])

(* FLOW_NOT_FOUND, EXECUTION_NOT_FOUND, and an empty list; the process exits   *)
(* before the temporary engine is shut down.                               *)
ExitInEngine(does) ==
  CASE does = "trigger" -> "not found" [] does = "resume" -> "error" [] does = "list" -> "ok"

(* Health is answered in time, or the probe fails or takes too long *)
CommandStarts(k, does, e) ==
  /\ commands[k].at = "none"
  /\ \/ /\ stop = "none"
        /\ Commanded(k, [NoCommand EXCEPT !.at = "asking", !.does = does, !.of = e])
     \/ Exits(k, "alone", ExitInEngine(does))
  /\ UNCHANGED httpVars

(* A server that has stopped since refuses the connection *)
Asks(k) ==
  /\ commands[k].at = "asking"
  /\ \/ /\ RequestArrives(k, commands[k].does, commands[k].of)
        /\ Commanded(k, [commands[k] EXCEPT !.at = "asked"])
     \/ stop = "done" /\ Exits(k, "exited", "error") /\ UNCHANGED httpVars

ExitFor(request) ==
  CASE request.at \in {"200", "201"} -> IF request.shown = "failed" THEN "error" ELSE "ok"
    [] request.does = "trigger" /\ request.at = "404" -> "not found"
    [] OTHER -> "error"

ReadsAnswer(k) ==
  /\ commands[k].at = "asked" /\ requests[k].at \notin {"handling", "acted"}
  /\ Exits(k, "exited", ExitFor(requests[k]))
  /\ UNCHANGED httpVars

(***************************************************************************)
(* dev                                                                     *)
(***************************************************************************)
InitDev ==
  /\ file = 1 /\ debounce = FALSE /\ imports = {} /\ watching = TRUE /\ disturbed = FALSE

(* The file changes, and the timer is set again *)
Edit ==
  /\ file < MaxVersions
  /\ file' = file + 1
  /\ debounce' = watching
  /\ UNCHANGED <<imports, watching, disturbed>>

DebounceFires ==
  /\ debounce
  /\ debounce' = FALSE
  /\ imports' = imports \cup {file}
  /\ disturbed' = (disturbed \/ imports # {})
  /\ UNCHANGED <<file, watching>>

ImportFails(version) ==
  /\ version \in imports
  /\ imports' = imports \ {version}
  /\ disturbed' = TRUE
  /\ UNCHANGED <<file, debounce, watching>>

(* The old handler is unregistered if there is one, and the new one registered, *)
(* both of which an engine that is not ready refuses.                      *)
Reload(version) ==
  /\ version \in imports
  /\ imports' = imports \ {version}
  /\ flows' = IF status = "ready" THEN [flows EXCEPT ![Watched] = version] ELSE flows
  /\ UNCHANGED <<status, state, deleted, file, debounce, watching, disturbed>>

StopWatching ==
  /\ watching' = FALSE /\ debounce' = FALSE
  /\ UNCHANGED <<file, imports, disturbed>>
=============================================================================
