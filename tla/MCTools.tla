------------------------------- MODULE MCTools -------------------------------
(***************************************************************************)
(* Instances of the three kinds of tools that are outside of the process   *)
(* for TLC: a behaviour uses one of them.                                  *)
(***************************************************************************)
EXTENDS McpClient, BaziBridge

VARIABLES
  part,
  nested, known, caller, told, worker

H == INSTANCE OneOffCall

\* Two charts of one place, and one without a place.
PlaceOfRequest == [r \in Requests |-> IF r = "pillars" THEN "none" ELSE "here"]

Attempts == [c \in Callers |-> IF c = "c1" THEN 2 ELSE 1]

httpVars == <<nested, known, caller, told, worker>>
allVars == <<part, mcpVars, bridgeVars, httpVars>>

InitEither ==
  /\ McpInit
  /\ BridgeInit
  /\ H!Init
  /\ part \in {"mcp", "bridge", "http"}
  /\ nested \/ part = "http"

Mcp == part = "mcp" /\ UNCHANGED <<part, bridgeVars, httpVars>>
Bridge == part = "bridge" /\ UNCHANGED <<part, mcpVars, httpVars>>
Http == part = "http" /\ UNCHANGED <<part, mcpVars, bridgeVars>>

NextEither ==
  \/ \E c \in Callers : Mcp /\ CallerStep(c)
  \/ \E c \in Callers : Mcp /\ CloserStep(c)
  \/ \E s \in Sessions : Mcp /\ ThreadStep(s)
  \/ \E s \in Sessions : Mcp /\ Break(s)
  \/ \E c \in Callers : Mcp /\ Tell(c)
  \/ \E c \in Callers : Mcp /\ Answer(c)
  \/ \E c \in Callers : Mcp /\ Shutdown(c)
  \/ \E r \in Requests : Bridge /\ Call(r)
  \/ Bridge /\ Lookup
  \/ Bridge /\ Spawn
  \/ Bridge /\ NodeWrites
  \/ Bridge /\ NodeExits
  \/ Bridge /\ StopWaiting
  \/ Bridge /\ SeeExit
  \/ Bridge /\ KillNode
  \/ Bridge /\ Reap
  \/ Bridge /\ Decode
  \/ Bridge /\ Keep
  \/ Http /\ H!Begin
  \/ Http /\ H!Tell
  \/ Http /\ H!Take
  \/ Http /\ H!Cancel
  \/ \E s \in H!Stages : Http /\ H!MakeLoop(s)
  \/ \E s \in H!Stages : Http /\ H!OpenSession(s)
  \/ \E s \in H!Stages : Http /\ H!Request(s)
  \/ \E s \in H!Stages : Http /\ H!Answer(s)
  \/ \E s \in H!Stages : Http /\ H!Close(s)

Fair == WF_allVars(Mcp /\ Runs) /\ WF_allVars(Http /\ H!Runs)

SpecEither == InitEither /\ [][NextEither]_allVars /\ Fair

\* Every call comes back, whichever way the server is reached, and every session
\* that is closed ends.
NothingHangs ==
  /\ part = "mcp" => CallsReturn /\ ClosedSessionsEnd
  /\ part = "http" => H!ThreadsEnd
=============================================================================
