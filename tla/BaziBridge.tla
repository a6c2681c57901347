------------------------------ MODULE BaziBridge ------------------------------
(***************************************************************************)
(* The calls one run makes of the chart calculator, a Node child process   *)
(* per call (runtime/bazi_bridge.py, tools/builtins/bazi_tool.py).         *)
(*                                                                         *)
(* A request for true solar time needs its place resolved: the child asks  *)
(* a paid provider with a key that the runtime hands it only then, and     *)
(* the run keeps the answer.  The model may repeat a request.              *)
(***************************************************************************)
EXTENDS Integers, FiniteSets

CONSTANTS
  Requests,  \* requests the run may make: action, arguments, detail
  Places,
  PlaceOf,   \* request -> its place, or "none" for clock time and pillars
  MaxCalls

ASSUME BridgeAssumption ==
  /\ MaxCalls \in Nat
  /\ PlaceOf \in [Requests -> Places \union {"none"}]
  /\ "none" \notin Requests \union Places

VARIABLES
  calls,     \* calls made so far
  stage,     \* step of the call
  request,   \* its request, or "none"
  key,       \* whether the child has the key of the provider
  node,      \* "none", "runs", "exited" or "killed"
  output,    \* what the child has written
  verdict,   \* how the call is to end
  places,    \* place -> "unknown", "resolved" or "refused"
  kept,      \* requests whose results the run keeps
  answered   \* place -> the answers of the provider a call accepted

bridgeVars ==
  <<calls, stage, request, key, node, output, verdict, places, kept, answered>>

\* "wrong": a line of JSON that does not belong to the request.
Outputs == {"good", "place error", "other error", "wrong", "garbled", "too long"}
Verdicts == {"ok", "error", "failed", "repeated"}
\* Only a chart in true solar time has a place the provider may refuse.
Possible == IF request # "none" /\ PlaceOf[request] = "none"
            THEN Outputs \ {"place error"} ELSE Outputs

BridgeTypeOK ==
  /\ calls \in 0 .. MaxCalls
  /\ stage \in {"idle", "lookup", "spawn", "poll", "kill", "reap", "decode", "keep"}
  /\ request \in Requests \union {"none"}
  /\ node \in {"none", "runs", "exited", "killed"}
  /\ output \in Outputs \union {"nothing"}
  /\ verdict \in Verdicts \union {"none"}
  /\ places \in [Places -> {"unknown", "resolved", "refused"}]
  /\ kept \subseteq Requests

BridgeInit ==
  /\ calls = 0 /\ stage = "idle" /\ request = "none"
  /\ key = FALSE /\ node = "none" /\ output = "nothing" /\ verdict = "none"
  /\ places = [p \in Places |-> "unknown"]
  /\ kept = {}
  /\ answered = [p \in Places |-> 0]

Place == PlaceOf[request]
HasPlace == Place # "none"

EndCall(how) == stage' = "idle" /\ verdict' = how

\* The tool suppresses a request that has succeeded in this run.
Call(r) ==
  /\ stage = "idle" /\ calls < MaxCalls
  /\ calls' = calls + 1 /\ request' = r
  /\ IF r \in kept THEN EndCall("repeated") ELSE stage' = "lookup" /\ verdict' = "none"
  /\ UNCHANGED <<key, node, output, places, kept, answered>>

\* A resolved place goes into the request instead of the key; a refused one
\* is refused again without a child.
Lookup ==
  /\ stage = "lookup"
  /\ IF HasPlace /\ places[Place] = "refused"
     THEN EndCall("error") /\ UNCHANGED key
     ELSE /\ stage' = "spawn" /\ UNCHANGED verdict
          /\ key' = (HasPlace /\ places[Place] = "unknown")
  /\ UNCHANGED <<calls, request, node, output, places, kept, answered>>

\* No Node, no bridge or no process.
Spawn ==
  /\ stage = "spawn"
  /\ \/ EndCall("failed") /\ UNCHANGED <<node, output>>
     \/ stage' = "poll" /\ node' = "runs" /\ output' = "nothing" /\ UNCHANGED verdict
  /\ UNCHANGED <<calls, request, key, places, kept, answered>>

\* The child writes and exits, or writes without end, or hangs.
NodeWrites ==
  /\ node = "runs" /\ output = "nothing"
  /\ output' \in Possible
  /\ UNCHANGED <<calls, stage, request, key, node, verdict, places, kept, answered>>

NodeExits ==
  /\ node = "runs"
  /\ node' = "exited"
  /\ UNCHANGED <<calls, stage, request, key, output, verdict, places, kept, answered>>

\* Too much output, a stop or the deadline ends the call; a child that
\* exits in that moment has worked for nothing.
StopWaiting ==
  /\ stage = "poll" /\ node = "runs"
  /\ stage' = "kill"
  /\ UNCHANGED <<calls, request, key, node, output, verdict, places, kept, answered>>

SeeExit ==
  /\ stage = "poll" /\ node = "exited"
  /\ stage' = "decode"
  /\ UNCHANGED <<calls, request, key, node, output, verdict, places, kept, answered>>

KillNode ==
  /\ stage = "kill"
  /\ node' = IF node = "runs" THEN "killed" ELSE node
  /\ stage' = "reap"
  /\ UNCHANGED <<calls, request, key, output, verdict, places, kept, answered>>

\* Waits for the process without a limit.
Reap ==
  /\ stage = "reap" /\ node # "runs"
  /\ node' = "none"
  /\ EndCall("failed")
  /\ UNCHANGED <<calls, request, key, output, places, kept, answered>>

\* The exit code, the limits, one line of JSON, and every field of it.
Decode ==
  /\ stage = "decode"
  /\ node' = "none"
  /\ \/ output \in {"good", "place error", "other error"} /\ stage' = "keep" /\ UNCHANGED verdict
     \/ EndCall("failed")
  /\ UNCHANGED <<calls, request, key, output, places, kept, answered>>

Fresh == HasPlace /\ places[Place] = "unknown"
KeptPlace ==
  CASE output = "good" -> "resolved"
    [] output = "place error" -> "refused"
    [] OTHER -> "unknown"

KeepSuccess ==
  /\ stage = "keep"
  /\ places' = IF Fresh /\ output = "good" THEN [places EXCEPT ![Place] = "resolved"]
               ELSE places
  /\ answered' = IF key /\ output # "other error"
                 THEN [answered EXCEPT ![Place] = @ + 1] ELSE answered
  /\ kept' = IF output = "good" THEN kept \union {request} ELSE kept
  /\ EndCall(IF output = "good" THEN "ok" ELSE "error")
  /\ UNCHANGED <<calls, request, key, node, output>>

\* The place, and the result of a request that succeeded.
Keep ==
  /\ stage = "keep"
  /\ places' = IF Fresh THEN [places EXCEPT ![Place] = KeptPlace] ELSE places
  /\ answered' = IF key /\ output # "other error"
                 THEN [answered EXCEPT ![Place] = @ + 1] ELSE answered
  /\ kept' = IF output = "good" THEN kept \union {request} ELSE kept
  /\ EndCall(IF output = "good" THEN "ok" ELSE "error")
  /\ UNCHANGED <<calls, request, key, node, output>>

BridgeNext ==
  \/ \E r \in Requests : Call(r)
  \/ Lookup
  \/ Spawn
  \/ NodeWrites
  \/ NodeExits
  \/ StopWaiting
  \/ SeeExit
  \/ KillNode
  \/ Reap
  \/ Decode
  \/ Keep

BridgeSpec == BridgeInit /\ [][BridgeNext]_bridgeVars

(***************************************************************************)
(* Requirements.                                                           *)
(***************************************************************************)
\* Within a run the provider's answer about a place is wanted once, whatever
\* charts are drawn for the place and whether the answer was good
\* (the place cache of invoke).
PlaceResolvedOnce == \A p \in Places : answered[p] <= 1
=============================================================================
