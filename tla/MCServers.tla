-------------------------------- MODULE MCServers ------------------------------
EXTENDS ServerProperties

CONSTANTS c1, h1, k1, f1

(* k1 follows the execution of a tool call, other clients that of a request *)
FollowsOne(k) == IF k = k1 THEN {c1} ELSE {h1}
TwoAdapters == 1 .. 2
=============================================================================
