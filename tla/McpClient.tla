------------------------------- MODULE McpClient -------------------------------
(***************************************************************************)
(* Calls of the tools of one MCP server that is a child process            *)
(* (mcp/client.py, tools/builtins/mcp_tool.py).                            *)
(*                                                                         *)
(* All callers share one session with the server: a thread with an event   *)
(* loop of its own.  Each caller makes one call of a tool, retried while   *)
(* its failures look transient, and then lists the server's tools.  A      *)
(* caller whose call fails for whatever reason closes the session the      *)
(* others may be using, and the next call starts a new one.                *)
(***************************************************************************)
EXTENDS Integers, FiniteSets

CONSTANTS
  Callers,
  Sessions,     \* bounds the sessions started
  MaxAttempts,  \* caller -> attempts of its call: the retry delays and one
  Patient,      \* callers with neither a deadline nor a stop event
  MayQuit       \* callers that may shut the client down instead

ASSUME McpAssumption ==
  Patient \subseteq Callers /\ MaxAttempts \in [Callers -> Nat] /\ "none" \notin Sessions

VARIABLES
  current,  \* the session the client keeps for the server, or "none"
  session,  \* session -> [thread, ready, closed, failed, stop, loop]
  opLock,   \* session -> the caller that uses it, or "free"
  call,     \* caller -> [at, op, session, attempt, told, sawStop]
  future    \* caller -> "none", "pending", "ok" or "error"

mcpVars == <<current, session, opLock, call, future>>

Unused ==
  [thread |-> "none", ready |-> FALSE, closed |-> FALSE, failed |-> FALSE,
   stop |-> "none", loop |-> "open"]

McpTypeOK ==
  /\ current \in Sessions \union {"none"}
  /\ session \in [Sessions ->
       [thread : {"none", "starting", "ready", "serving", "ending", "dead"},
        ready : BOOLEAN, closed : BOOLEAN, failed : BOOLEAN,
        stop : {"none", "unset", "set"}, loop : {"open", "closed"}]]
  /\ opLock \in [Sessions -> Callers \union {"free"}]
  /\ future \in [Callers -> {"none", "pending", "ok", "error"}]

NoCall ==
  [at |-> "idle", op |-> "call", session |-> "none", attempt |-> 1,
   told |-> FALSE, sawStop |-> FALSE]

McpInit ==
  /\ current = "none"
  /\ session = [s \in Sessions |-> Unused]
  /\ opLock = [s \in Sessions |-> "free"]
  /\ call = [c \in Callers |-> NoCall]
  /\ future = [c \in Callers |-> "none"]

CallAt(c, step) == call[c].at = step
GoTo(c, step) == call' = [call EXCEPT ![c].at = step]
Mine(c) == session[call[c].session]
\* While it does, what is submitted to the loop is run.
LoopRuns(s) == session[s].thread \in {"starting", "ready", "serving", "ending"}

(***************************************************************************)
(* The callers.                                                            *)
(***************************************************************************)
\* A deadline passes or a stop event is set, at a step that looks at it or
\* waits.
Tell(c) ==
  /\ c \notin Patient /\ ~call[c].told
  /\ call[c].at \in {"idle", "ready", "wait"}
  /\ call' = [call EXCEPT ![c].told = TRUE]
  /\ UNCHANGED <<current, session, opLock, future>>

\* The map keeps the session until it is discarded; one that was closed is
\* replaced.
Join(c, s) ==
  call' = [call EXCEPT ![c].session = s, ![c].at = "ready"]

KeepSession(c) ==
  /\ CallAt(c, "idle") /\ ~call[c].told
  /\ current # "none" /\ ~session[current].closed
  /\ Join(c, current)
  /\ UNCHANGED <<current, session, opLock, future>>

StartSession(c, s) ==
  /\ CallAt(c, "idle") /\ ~call[c].told
  /\ session[s].thread = "none"
  /\ current # "none" => session[current].closed
  /\ current' = s
  /\ session' = [session EXCEPT ![s].thread = "starting"]
  /\ Join(c, s)
  /\ UNCHANGED <<opLock, future>>

Retried(c) == [call[c] EXCEPT !.at = "idle", !.session = "none", !.attempt = @ + 1]
Listing(c) == [NoCall EXCEPT !.op = "list", !.told = call[c].told]
Finished(c) == [NoCall EXCEPT !.at = "done"]

Interrupted(c) ==
  /\ CallAt(c, "idle") /\ call[c].told
  /\ call' = [call EXCEPT ![c] = Finished(c)]
  /\ UNCHANGED <<current, session, opLock, future>>

\* Not in time, or the session could not be started.
GiveUpSession(c) ==
  /\ CallAt(c, "ready")
  /\ IF Mine(c).ready THEN Mine(c).failed ELSE call[c].told
  /\ GoTo(c, "discard")
  /\ UNCHANGED <<current, session, opLock, future>>

\* What the session failed of is looked at before its lock is waited for.
EnterSession(c) ==
  /\ CallAt(c, "ready") /\ Mine(c).ready /\ ~Mine(c).failed
  /\ GoTo(c, "lock")
  /\ UNCHANGED <<current, session, opLock, future>>

\* The lock of a ready session has no timeout.  A loop that ended and is not
\* closed takes the request and never runs it.
Submit(c) ==
  LET s == call[c].session IN
  /\ CallAt(c, "lock") /\ opLock[s] = "free"
  /\ IF session[s].loop = "closed"
     THEN GoTo(c, "discard") /\ UNCHANGED <<opLock, future>>
     ELSE /\ opLock' = [opLock EXCEPT ![s] = c]
          /\ future' = [future EXCEPT ![c] = "pending"]
          /\ GoTo(c, "wait")
  /\ UNCHANGED <<current, session>>

\* What follows a failure: another attempt, after a pause, or the caller's
\* exception.  The list of the tools is not worth a retry.
AfterFailure(c) ==
  {Finished(c)} \union
  (IF call[c].op = "call" /\ call[c].attempt < MaxAttempts[c] /\ ~call[c].told
   THEN {Retried(c)} ELSE {})

\* A result that tells of a transient error is a failed attempt too, though
\* the session stays.
AfterResult(c) ==
  IF call[c].op = "call" THEN {Listing(c)} \union AfterFailure(c) ELSE {Finished(c)}

EndRequest(c) ==
  /\ opLock' = [opLock EXCEPT ![call[c].session] = "free"]
  /\ future' = [future EXCEPT ![c] = "none"]
  /\ UNCHANGED <<current, session>>

\* The poll of a pending future looks at the stop event and the deadline.
PollResultOnly(c) ==
  /\ CallAt(c, "wait")
  /\ \/ future[c] = "ok" /\ call' \in {[call EXCEPT ![c] = next] : next \in AfterResult(c)}
     \/ future[c] = "error" /\ GoTo(c, "discard")
  /\ EndRequest(c)

PollResult(c) ==
  /\ CallAt(c, "wait")
  /\ \/ future[c] = "ok" /\ call' \in {[call EXCEPT ![c] = next] : next \in AfterResult(c)}
     \/ future[c] = "error" /\ GoTo(c, "discard")
     \/ future[c] = "pending" /\ call[c].told /\ GoTo(c, "discard")
  /\ EndRequest(c)

(***************************************************************************)
(* Closing a session.                                                      *)
(***************************************************************************)
Fails(c) == call' \in {[call EXCEPT ![c] = next] : next \in AfterFailure(c)}

\* Only the one that takes it from the map closes it.
DiscardAny(c) ==
  /\ CallAt(c, "discard")
  /\ current' = "none"
  /\ GoTo(c, "close")
  /\ UNCHANGED <<session, opLock, future>>

Discard(c) ==
  /\ CallAt(c, "discard")
  /\ IF current = call[c].session
     THEN current' = "none" /\ GoTo(c, "close")
     ELSE UNCHANGED current /\ Fails(c)
  /\ UNCHANGED <<session, opLock, future>>

\* By the thread of the application, which has called nothing.
Shutdown(c) ==
  /\ c \in MayQuit /\ CallAt(c, "idle") /\ call[c].attempt = 1 /\ call[c].op = "call"
  /\ current' = "none"
  /\ call' = [call EXCEPT ![c].session = current, ![c].op = "shutdown",
                          ![c].at = IF current = "none" THEN "done" ELSE "close"]
  /\ UNCHANGED <<session, opLock, future>>

\* The stop event of the session is read before it is known to be ready.
MarkClosed(c) ==
  /\ CallAt(c, "close")
  /\ session' = [session EXCEPT ![call[c].session].closed = TRUE]
  /\ IF Mine(c).closed
     THEN Fails(c)
     ELSE call' = [call EXCEPT ![c].at = "signal", ![c].sawStop = Mine(c).stop # "none"]
  /\ UNCHANGED <<current, opLock, future>>

SignalStop(c) ==
  LET s == call[c].session IN
  /\ CallAt(c, "signal")
  /\ session' = IF session[s].ready /\ ~session[s].failed /\ LoopRuns(s) /\ call[c].sawStop
                THEN [session EXCEPT ![s].stop = IF @ = "none" THEN @ ELSE "set"]
                ELSE session
  /\ call' = [call EXCEPT ![c].at = "join", ![c].sawStop = FALSE]
  /\ UNCHANGED <<current, opLock, future>>

\* Two seconds; a thread that takes longer keeps its loop.
JoinThread(c) ==
  LET s == call[c].session IN
  /\ CallAt(c, "join")
  /\ session' = IF session[s].thread = "dead"
                THEN [session EXCEPT ![s].loop = "closed"] ELSE session
  /\ Fails(c)
  /\ UNCHANGED <<current, opLock, future>>

(***************************************************************************)
(* The thread of a session.                                                *)
(***************************************************************************)
Move(s, step) == session' = [session EXCEPT ![s].thread = step]

Started(s) ==
  /\ session[s].thread = "starting"
  /\ session' = [session EXCEPT ![s].thread = "ready", ![s].ready = TRUE,
                                ![s].stop = "unset"]
  /\ UNCHANGED <<current, opLock, call, future>>

StartFails(s) ==
  /\ session[s].thread = "starting"
  /\ session' = [session EXCEPT ![s].thread = "ending", ![s].ready = TRUE,
                                ![s].failed = TRUE]
  /\ UNCHANGED <<current, opLock, call, future>>

\* A close that came too early to send a signal is seen here.
ServeAnyway(s) ==
  /\ session[s].thread = "ready"
  /\ Move(s, "serving")
  /\ UNCHANGED <<current, opLock, call, future>>

Serve(s) ==
  /\ session[s].thread = "ready"
  /\ Move(s, IF session[s].closed THEN "ending" ELSE "serving")
  /\ UNCHANGED <<current, opLock, call, future>>

Stop(s) ==
  /\ session[s].thread = "serving" /\ session[s].stop = "set"
  /\ Move(s, "ending")
  /\ UNCHANGED <<current, opLock, call, future>>

\* The streams to the server break, or the server's process is gone: the thread
\* ends, and the session stays with the client, unclosed.
Break(s) ==
  /\ session[s].thread = "serving"
  /\ session' = [session EXCEPT ![s].thread = "ending", ![s].failed = TRUE]
  /\ UNCHANGED <<current, opLock, call, future>>

\* The rest of the requests is cancelled before the loop runs no more.
Requesting(s) == {c \in Callers : call[c].session = s /\ future[c] = "pending"}
EndLoop(s) ==
  /\ session[s].thread = "ending"
  /\ session' = [session EXCEPT ![s].thread = "dead", ![s].stop = "none"]
  /\ future' = [c \in Callers |-> IF c \in Requesting(s) THEN "error" ELSE future[c]]
  /\ UNCHANGED <<current, opLock, call>>

\* The server answers, refuses, dies or is late: each request has a time
\* limit of its own.
Answer(c) ==
  /\ future[c] = "pending"
  /\ session[call[c].session].thread \in {"ready", "serving", "ending"}
  /\ \E result \in {"ok", "error"} : future' = [future EXCEPT ![c] = result]
  /\ UNCHANGED <<current, session, opLock, call>>

CallerStep(c) ==
  \/ KeepSession(c)
  \/ \E s \in Sessions : StartSession(c, s)
  \/ Interrupted(c)
  \/ GiveUpSession(c)
  \/ EnterSession(c)
  \/ Submit(c)
  \/ PollResult(c)
  \/ Discard(c)

CloserStep(c) ==
  \/ MarkClosed(c)
  \/ SignalStop(c)
  \/ JoinThread(c)

ThreadStep(s) ==
  \/ Started(s)
  \/ StartFails(s)
  \/ Serve(s)
  \/ Stop(s)
  \/ EndLoop(s)

McpNext ==
  \/ \E c \in Callers : CallerStep(c)
  \/ \E c \in Callers : CloserStep(c)
  \/ \E s \in Sessions : ThreadStep(s)
  \/ \E s \in Sessions : Break(s)
  \/ \E c \in Callers : Tell(c)
  \/ \E c \in Callers : Answer(c)
  \/ \E c \in Callers : Shutdown(c)

\* Deadlines pass, a server starts or fails and answers within its timeout,
\* and threads run.  Attempts are counted and nothing else repeats, so it is
\* enough that somebody who can go on does.
Runs ==
  \/ \E c \in Callers : CallerStep(c) \/ CloserStep(c) \/ Tell(c) \/ Answer(c)
  \/ \E s \in Sessions : ThreadStep(s)

McpSpec == McpInit /\ [][McpNext]_mcpVars /\ WF_mcpVars(Runs)

(***************************************************************************)
(* Requirements.                                                           *)
(***************************************************************************)
\* A session whose thread works is the one the client keeps, or somebody is
\* to close it, or it is closed: no failure, replacement or shutdown loses a
\* server process (_discard_persistent_stdio_session, shutdown).
SessionHasOwner ==
  \A s \in Sessions :
    session[s].thread \in {"starting", "ready", "serving"} =>
      \/ current = s
      \/ session[s].closed
      \/ \E c \in Callers : CallAt(c, "close") /\ call[c].session = s

\* A closed session ends, also one that was closed while it was starting and
\* could not be signalled (_startup, close).
ClosedSessionsEnd ==
  <>[](\A s \in Sessions : session[s].closed => session[s].thread = "dead")

\* Every call comes back: no session that another caller closes and no loop
\* that ends under a request keeps a caller for good (_run_coroutine).
CallsReturn == <>(\A c \in Callers : CallAt(c, "done"))
=============================================================================
