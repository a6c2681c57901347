------------------------------ MODULE OneOffCall ------------------------------
(***************************************************************************)
(* Calls of an MCP server that is reached by HTTP (mcp/client.py,          *)
(* mcp/discovery.py): each opens a session of its own.  The application    *)
(* lists the server's tools when it starts, a run calls one of them, and   *)
(* after a success the tools are listed again.                             *)
(*                                                                         *)
(* Where an event loop is running already, a call is the work of a thread  *)
(* with a loop of its own; a caller that is told to stop cancels the       *)
(* thread's task and goes on without it.                                   *)
(***************************************************************************)
EXTENDS Integers

VARIABLES
  nested,   \* whether an event loop is running
  known,    \* the server's tools are known
  caller,   \* [stage, at]: which call it makes, and where it is in it
  told,     \* the run is stopped, or past its deadline
  worker    \* stage -> [at, cancelled, result]

vars == <<nested, known, caller, told, worker>>

Stages == {"discover", "call", "heal"}
NoWorker == [at |-> "none", cancelled |-> FALSE, result |-> "none"]

Init ==
  /\ nested \in BOOLEAN
  /\ known = FALSE /\ told = FALSE
  /\ caller = [stage |-> "discover", at |-> "idle"]
  /\ worker = [s \in Stages |-> NoWorker]

At(s, step) == worker[s].at = step
Go(s, step) == worker' = [worker EXCEPT ![s].at = step]

\* The calls of the application's start cannot be interrupted.
Interrupted(s) == s # "discover" /\ told

(***************************************************************************)
(* The caller.                                                             *)
(***************************************************************************)
Begin ==
  LET s == caller.stage IN
  /\ caller.at = "idle" /\ s # "done"
  /\ caller' = [caller EXCEPT !.at = "wait"]
  /\ Go(s, IF nested THEN "start" ELSE "task")
  /\ UNCHANGED <<nested, known, told>>

Tell ==
  /\ caller.stage \in {"call", "heal"} /\ ~told
  /\ told' = TRUE
  /\ UNCHANGED <<nested, known, caller, worker>>

Following(s) == CASE s = "discover" -> "call" [] s = "call" -> "heal" [] s = "heal" -> "done"
Returns(stage) == caller' = [stage |-> stage, at |-> "idle"]

\* What the start keeps of a discovery, and a success of its refreshed list;
\* a list that is empty or failed leaves the tool that was called.
Discovered(s, ok) == known' = (known \/ ok \/ s = "heal")

\* A call that failed is not followed by a list.
Take ==
  LET s == caller.stage
      ok == worker[s].result = "ok"
  IN /\ caller.at = "wait" /\ At(s, "ended")
     /\ IF s = "call" THEN UNCHANGED known ELSE Discovered(s, ok)
     /\ Returns(IF s = "call" /\ ~ok THEN "done" ELSE Following(s))
     /\ UNCHANGED <<nested, told, worker>>

\* The task is cancelled if the thread has made it; a loop that was closed
\* since it was looked at raises another error instead.
CancelTask(s) ==
  worker' = [worker EXCEPT ![s].cancelled =
               @ \/ worker[s].at \in {"loop", "task", "open", "session"}]

\* The caller waits another half second and leaves the thread behind.
Cancel ==
  LET s == caller.stage IN
  /\ caller.at = "wait" /\ nested /\ Interrupted(s)
  /\ CancelTask(s)
  /\ IF s = "heal" THEN Discovered(s, FALSE) ELSE UNCHANGED known
  /\ Returns("done")
  /\ UNCHANGED <<nested, told>>

(***************************************************************************)
(* The thread of a call, or the call itself.                               *)
(***************************************************************************)
MakeLoop(s) ==
  /\ \/ At(s, "start") /\ Go(s, "loop")
     \/ At(s, "loop") /\ Go(s, "task")
  /\ UNCHANGED <<nested, known, caller, told>>

Finishes(s, result) ==
  worker' = [worker EXCEPT ![s].at = "closing", ![s].result = result]

\* The session is opened: the server may refuse, or be late.
OpenSession(s) ==
  /\ At(s, "task")
  /\ IF worker[s].cancelled \/ Interrupted(s)
     THEN Finishes(s, "error")
     ELSE Go(s, "open") \/ Finishes(s, "error")
  /\ UNCHANGED <<nested, known, caller, told>>

Request(s) ==
  /\ At(s, "open")
  /\ (~worker[s].cancelled /\ Go(s, "session")) \/ Finishes(s, "error")
  /\ UNCHANGED <<nested, known, caller, told>>

\* An answer within the limit, an error, or the cancellation.
Answer(s) ==
  /\ At(s, "session")
  /\ \/ ~worker[s].cancelled /\ Finishes(s, "ok")
     \/ Finishes(s, "error")
  /\ UNCHANGED <<nested, known, caller, told>>

\* A session that breaks while it is closed does not undo the answer; any
\* other error does.
Close(s) ==
  /\ At(s, "closing")
  /\ \/ Go(s, "ended")
     \/ worker' = [worker EXCEPT ![s] = [@ EXCEPT !.at = "ended", !.result = "error"]]
  /\ UNCHANGED <<nested, known, caller, told>>

Step(s) == MakeLoop(s) \/ OpenSession(s) \/ Request(s) \/ Answer(s) \/ Close(s)

Next == Begin \/ Tell \/ Take \/ Cancel \/ \E s \in Stages : Step(s)

\* Threads run, and every wait for the server has a limit; nothing repeats.
Runs == Begin \/ Take \/ Cancel \/ \E s \in Stages : Step(s)

Spec == Init /\ [][Next]_vars /\ WF_vars(Runs)

(***************************************************************************)
(* Every call comes back, and so does the thread of a call that nobody     *)
(* waits for any more (_run_async, _cancel_async_worker).                  *)
(***************************************************************************)
ThreadsEnd ==
  <>(caller.stage = "done" /\ \A s \in Stages : worker[s].at \in {"none", "ended"})
=============================================================================
