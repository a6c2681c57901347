--------------------------------- MODULE Turns ---------------------------------
(***************************************************************************)
(* What one inbound message or one triggered automation does to sessions   *)
(* (interfaces/http/bootstrap_handlers.py and app.py, gateway, agents/,    *)
(* tools/builtins/session_tool.py, session/transition.py).                 *)
(*                                                                         *)
(* A message holds the lane of its conversation (ConversationLanes) from   *)
(* before its session is looked up until its response is ready; a trigger  *)
(* holds none.  A run (RuntimeLoop) is a series of tool calls and an end.  *)
(* A call of the session store is one step here; SessionStore splits it.   *)
(***************************************************************************)
EXTENDS Integers, Sequences, FiniteSets

CONSTANTS
  Messages, Triggers,  \* the turns
  Conversations, Of,   \* turn -> conversation
  User,                \* conversation -> user
  Requested,           \* turn -> the agent it asks for, or "none"
  Pinned,              \* conversation -> the agent bound to it, or "none"
  Handoffs,            \* agents the default agent may hand a turn to
  Main,                \* the default agent
  Sessions,
  MaxCalls,            \* turn -> calls of tools in its run
  Flaky                \* turns in which something may raise

VARIABLES
  lane,   \* conversation -> the message that holds it, or "free"
  bound,  \* conversation -> session, or "none"
  rows,   \* session -> [history, owner, agent, title]
  sent,   \* triggers whose answer or error went out to the channel
  turn    \* turn -> [at, session, active, agent, calls, outcome]

turnsVars == <<lane, bound, rows, sent, turn>>

AllTurns == Messages \union Triggers
Agents == Handoffs \union {Main}

\* An automation's conversation is its own: its name has the job and the day.
ASSUME TurnsAssumption ==
  /\ Messages \intersect Triggers = {}
  /\ Of \in [AllTurns -> Conversations]
  /\ \A m \in Messages, t \in Triggers : Of[m] # Of[t]
  /\ "none" \notin Sessions /\ "free" \notin Messages
  /\ \A c \in Conversations : User[c] # "none"

NoRow == [history |-> <<>>, owner |-> "none", agent |-> "none", title |-> "none"]
NewTurn ==
  [at |-> "new", session |-> "none", active |-> "none", agent |-> "none",
   calls |-> <<>>, outcome |-> "none"]
Absent(s) == rows[s].owner = "none"

Question(t) == [role |-> "user", turn |-> t]
Answer(t) == [role |-> "assistant", turn |-> t]

TurnsTypeOK ==
  /\ lane \in [Conversations -> Messages \union {"free"}]
  /\ bound \in [Conversations -> Sessions \union {"none"}]
  /\ \A s \in Sessions : \A e \in {rows[s].history[i] : i \in DOMAIN rows[s].history} :
       \E t \in AllTurns : e \in {Question(t), Answer(t)}
  /\ sent \subseteq Triggers
  /\ \A t \in AllTurns : turn[t].session \in Sessions \union {"none"}

TurnsInit ==
  /\ lane = [c \in Conversations |-> "free"]
  /\ bound = [c \in Conversations |-> "none"]
  /\ rows = [s \in Sessions |-> NoRow]
  /\ sent = {}
  /\ turn = [t \in AllTurns |-> NewTurn]

At(t, step) == turn[t].at = step
Go(t, step) == turn' = [turn EXCEPT ![t].at = step]

(***************************************************************************)
(* Sessions.                                                               *)
(***************************************************************************)
\* A row of a new name.
Fresh == CHOOSE s \in Sessions : Absent(s)
AnyFresh == \E s \in Sessions : Absent(s)

\* It takes the conversation over.
Created(s, c, agent, title) ==
  /\ rows' = [rows EXCEPT ![s] = [NoRow EXCEPT !.owner = User[c], !.agent = agent,
                                                !.title = title]]
  /\ bound' = [bound EXCEPT ![c] = s]

\* A session is bound to one conversation: another one loses it.
Rebound(c, s) ==
  bound' = [d \in Conversations |->
              IF d = c THEN s ELSE IF bound[d] = s THEN "none" ELSE bound[d]]

Appended(s, entry) == [rows EXCEPT ![s].history = Append(@, entry)]

Last(s) == rows[s].history[Len(rows[s].history)]

\* The question goes if it is still the last entry.
Removed(s, t) ==
  IF rows[s].history # <<>> /\ Last(s) = Question(t)
  THEN [rows EXCEPT ![s].history = SubSeq(@, 1, Len(@) - 1)]
  ELSE rows

Visible(s, c) == ~Absent(s) /\ rows[s].owner = User[c]

(***************************************************************************)
(* A turn begins.                                                          *)
(***************************************************************************)
EnterAnyway(t) ==
  /\ At(t, "new") /\ t \in Messages
  /\ lane' = [lane EXCEPT ![Of[t]] = t]
  /\ Go(t, "resolve")
  /\ UNCHANGED <<bound, rows, sent>>

Enter(t) ==
  /\ At(t, "new") /\ t \in Messages
  /\ lane[Of[t]] = "free"
  /\ lane' = [lane EXCEPT ![Of[t]] = t]
  /\ Go(t, "resolve")
  /\ UNCHANGED <<bound, rows, sent>>

TriggerAutomation(t) ==
  /\ At(t, "new") /\ t \in Triggers
  /\ Go(t, "resolve")
  /\ UNCHANGED <<lane, bound, rows, sent>>

\* The first of these that there is.
Routed(t, active) ==
  LET wanted == <<Requested[t], Pinned[Of[t]], active, Main>>
  IN wanted[CHOOSE i \in 1..4 : wanted[i] \in Agents
                                /\ \A j \in 1..i - 1 : wanted[j] \notin Agents]

Resolve(t) ==
  LET c == Of[t]
      Take(s, agent) ==
        turn' = [turn EXCEPT
          ![t].at = IF t \in Messages THEN "ask" ELSE "prepare",
          ![t].session = s, ![t].agent = Routed(t, agent)]
  IN /\ At(t, "resolve")
     /\ \/ bound[c] # "none" /\ Take(bound[c], rows[bound[c]].agent)
             /\ UNCHANGED <<bound, rows>>
        \/ bound[c] = "none" /\ AnyFresh
             /\ Created(Fresh, c, Main, "none") /\ Take(Fresh, Main)
     /\ UNCHANGED <<lane, sent>>

Ask(t) ==
  /\ At(t, "ask") /\ t \in Messages
  /\ rows' = Appended(turn[t].session, Question(t))
  /\ Go(t, "route")
  /\ UNCHANGED <<lane, bound, sent>>

(***************************************************************************)
(* The default agent may hand the turn to another one; the session keeps   *)
(* its own.                                                                *)
(***************************************************************************)
MayHandOff(t) ==
  turn[t].agent = Main /\ Requested[t] = "none" /\ Pinned[Of[t]] = "none"

\* What the session's agent becomes: the entry agent, whoever has the turn.
ActiveAgent(t, target) == turn[t].agent

\* A session without a title gets the default one.
Titled(title) == IF title = "none" THEN "default" ELSE title

Prepared(t, agent) ==
  [rows EXCEPT ![turn[t].session].agent = agent,
               ![turn[t].session].owner = User[Of[t]],
               ![turn[t].session].title = Titled(@)]

\* What the model that routes may decide.
Targets == Agents

Route(t) ==
  /\ At(t, "route")
  /\ \/ /\ MayHandOff(t)
        /\ \E target \in Targets : rows' = Prepared(t, ActiveAgent(t, target))
        /\ Go(t, "running")
     \/ /\ ~MayHandOff(t)
        /\ rows' = Prepared(t, turn[t].agent)
        /\ Go(t, "running")
  /\ UNCHANGED <<lane, bound, sent>>

\* No decision: the error is the answer.
RoutingFails(t) ==
  /\ At(t, "route") /\ MayHandOff(t)
  /\ turn' = [turn EXCEPT ![t].at = "persist", ![t].active = turn[t].session,
                          ![t].outcome = "error"]
  /\ UNCHANGED <<lane, bound, rows, sent>>

PrepareTrigger(t) ==
  /\ At(t, "prepare")
  /\ rows' = Prepared(t, turn[t].agent)
  /\ Go(t, "ask")
  /\ UNCHANGED <<lane, bound, sent>>

\* A trigger asks with the agent it names, whatever the router says.
AskTrigger(t) ==
  /\ At(t, "ask") /\ t \in Triggers
  /\ rows' = Appended(turn[t].session, Question(t))
  /\ Go(t, "running")
  /\ UNCHANGED <<lane, bound, sent>>

(***************************************************************************)
(* The run.                                                                *)
(***************************************************************************)
\* The session tool needs a conversation, which a trigger's run has not.
Calls(t, call) ==
  /\ At(t, "running") /\ Len(turn[t].calls) < MaxCalls[t]
  /\ turn' = [turn EXCEPT ![t].calls = Append(@, call)]
  /\ UNCHANGED <<lane, sent>>

\* The session tool has moved the conversation.
Switches(t) == Calls(t, "switch")

NewSession(t) ==
  /\ At(t, "running") /\ t \in Messages
  /\ Switches(t)
  /\ AnyFresh /\ Created(Fresh, Of[t], rows[turn[t].session].agent, "none")

Resume(t) ==
  /\ At(t, "running") /\ t \in Messages
  /\ \E s \in Sessions \ {turn[t].session} :
       Visible(s, Of[t]) /\ Rebound(Of[t], s)
  /\ Switches(t)
  /\ UNCHANGED rows

\* Nothing to do: the question is a mere command.
ResumeSame(t) ==
  /\ At(t, "running") /\ t \in Messages
  /\ Visible(turn[t].session, Of[t])
  /\ Calls(t, "same")
  /\ UNCHANGED <<bound, rows>>

UseTool(t) ==
  /\ At(t, "running")
  /\ Calls(t, "tool")
  /\ UNCHANGED <<bound, rows>>

\* The answer only says that the conversation has moved.
Announced(t) == IF turn[t].calls = <<"switch">> THEN {"announcement"} ELSE {}

EndRun(t) ==
  /\ At(t, "running")
  /\ \E outcome \in {"answer", "error"} \union Announced(t) :
       turn' = [turn EXCEPT ![t].at = "settle", ![t].outcome = outcome]
  /\ UNCHANGED <<lane, bound, rows, sent>>

(***************************************************************************)
(* After the run.                                                          *)
(***************************************************************************)
Command(t) == \E i \in DOMAIN turn[t].calls : turn[t].calls[i] = "same"

Settle(t) ==
  LET now == IF bound[Of[t]] = "none" THEN turn[t].session ELSE bound[Of[t]]
  IN /\ At(t, "settle") /\ t \in Messages
     /\ turn' = [turn EXCEPT ![t].at = "persist", ![t].active = now]
     /\ rows' = IF now # turn[t].session \/ Command(t)
                THEN Removed(turn[t].session, t) ELSE rows
     /\ UNCHANGED <<lane, bound, sent>>

\* An answer has the key of its target and day, and goes out once.
Sends(t) ==
  IF turn[t].outcome = "answer" /\ \E u \in sent : Of[u] = Of[t] /\ turn[u].outcome = "answer"
  THEN sent ELSE sent \union {t}

\* A trigger's answer is delivered before it is stored.
Deliver(t) ==
  /\ At(t, "settle") /\ t \in Triggers
  /\ sent' = Sends(t)
  /\ turn' = [turn EXCEPT ![t].at = "persist", ![t].active = turn[t].session]
  /\ UNCHANGED <<lane, bound, rows>>

Moved(t) == turn[t].active # turn[t].session
Kept(t) == ~Command(t) /\ (Moved(t) => turn[t].outcome = "answer")

\* Where the answer goes.
Source(t) == turn[t].session
Target(t) == turn[t].active

Persist(t) ==
  /\ At(t, "persist")
  /\ rows' = IF Kept(t) THEN Appended(Target(t), Answer(t)) ELSE rows
  /\ Go(t, "title")
  /\ UNCHANGED <<lane, bound, sent>>

Questions(s) ==
  {i \in DOMAIN rows[s].history : rows[s].history[i].role = "user"}

\* A model is asked for a title once there are two questions.
NeedsTitle(s) == rows[s].title # "summary" /\ Cardinality(Questions(s)) >= 2

Title(t) ==
  /\ At(t, "title")
  /\ Go(t, IF NeedsTitle(turn[t].active) THEN "summarise" ELSE "leave")
  /\ UNCHANGED <<lane, bound, rows, sent>>

Summarise(t) ==
  /\ At(t, "summarise")
  /\ rows' = [rows EXCEPT ![turn[t].active].title = "summary"]
  /\ Go(t, "leave")
  /\ UNCHANGED <<lane, bound, sent>>

Released(t) == IF t \in Messages THEN [lane EXCEPT ![Of[t]] = "free"] ELSE lane

Leave(t) ==
  /\ At(t, "leave")
  /\ lane' = Released(t)
  /\ Go(t, "done")
  /\ UNCHANGED <<bound, rows, sent>>

\* Anything after the session was found may raise.
RaiseAndKeep(t) ==
  /\ t \in Flaky /\ turn[t].at \notin {"new", "resolve", "done", "raised"}
  /\ Go(t, "raised")
  /\ UNCHANGED <<lane, bound, rows, sent>>

Raise(t) ==
  /\ t \in Flaky /\ turn[t].at \notin {"new", "resolve", "done", "raised"}
  /\ lane' = Released(t)
  /\ Go(t, "raised")
  /\ UNCHANGED <<bound, rows, sent>>

Begin(t) == Enter(t) \/ TriggerAutomation(t)

Work(t) ==
  \/ Resolve(t) \/ Ask(t) \/ Route(t) \/ RoutingFails(t) \/ PrepareTrigger(t) \/ AskTrigger(t)
  \/ NewSession(t) \/ Resume(t) \/ ResumeSame(t) \/ UseTool(t) \/ EndRun(t)
  \/ Settle(t) \/ Deliver(t) \/ Persist(t) \/ Title(t) \/ Summarise(t) \/ Leave(t)

TurnsNext == \E t \in AllTurns : Begin(t) \/ Work(t) \/ Raise(t)

\* Threads go on, and a lane that is free is handed to one that waits.
Fairness == \A t \in AllTurns : WF_turnsVars(Work(t)) /\ WF_turnsVars(Enter(t))

TurnsSpec == TurnsInit /\ [][TurnsNext]_turnsVars /\ Fairness

-----------------------------------------------------------------------------
(***************************************************************************)
(* What turns leave in the sessions.                                       *)
(***************************************************************************)

Entries(s) == DOMAIN rows[s].history

(***************************************************************************)
(* The messages of one conversation do not mix: between a question and its *)
(* answer in a session there is nothing of the same conversation, whatever *)
(* sessions it moves to and whoever else writes there (the lane that       *)
(* post_message holds around _process_inbound_envelope).                   *)
(***************************************************************************)
ConversationsDoNotMix ==
  \A s \in Sessions : \A i, j, k \in Entries(s) :
    LET h == rows[s].history
    IN \A t \in Messages :
         /\ i < k /\ k < j /\ h[i] = Question(t) /\ h[j] = Answer(t)
         => Of[h[k].turn] # Of[t]

(***************************************************************************)
(* When a turn is over, its exchange is where the user is: the answer is   *)
(* kept in the session the conversation has moved to, and the question is  *)
(* gone from the one it left, unless another conversation wrote there      *)
(* (_process_inbound_envelope's removal, _finalize_session_turn).          *)
(***************************************************************************)
Shared(t) ==
  \E u \in AllTurns \ {t} :
    Of[u] # Of[t] /\ turn[t].session \in {turn[u].session, turn[u].active}

ExchangeFollowsUser ==
  \A t \in Messages : At(t, "done") =>
    /\ Kept(t) => \E i \in Entries(turn[t].active) : rows[turn[t].active].history[i] = Answer(t)
    /\ Moved(t) /\ ~Shared(t) =>
         \A i \in Entries(turn[t].session) : rows[turn[t].session].history[i].turn # t

(***************************************************************************)
(* Every message that arrives gets through, even when an earlier one of    *)
(* its conversation raised (post_message's finally).                       *)
(***************************************************************************)
EveryMessageEnds ==
  \A t \in Messages : turn[t].at \in {"new", "resolve"} ~> turn[t].at \in {"done", "raised"}
=============================================================================
