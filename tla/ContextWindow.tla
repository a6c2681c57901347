---------------------------- MODULE ContextWindow ----------------------------
(***************************************************************************)
(* What a model is shown of a session (runtime/context.py,                 *)
(* session/replay.py): the last user turns, and a checkpoint that stands   *)
(* for the messages before it.  The checkpoint is made under pressure by   *)
(* the turn itself (compaction_trigger.py, compaction_runner.py), in the   *)
(* background after the session was left (compaction_worker.py), or        *)
(* carried over into a new session (session/transition.py).                *)
(*                                                                         *)
(* One conversation and its sessions; the rows of the jobs are the subject *)
(* of module CompactionJobs.  A request's size is its number of messages.  *)
(***************************************************************************)
EXTENDS Integers, Sequences, FiniteSets

CONSTANTS
  Places,       \* sessions, numbered in the order they are created
  Texts,        \* what a user may say
  TurnCounts,   \* values of session_replay_user_turns
  Advisory, Proactive,  \* thresholds, in messages
  MaxQuestions, MaxNotes, MaxConfigs,
  MaxWaiting    \* jobs that may wait

\* Sessions are numbered from 1; session_replay_user_turns is positive.
ASSUME WindowAssumption ==
  /\ Places \subseteq Nat \ {0} /\ 1 \in Places
  /\ TurnCounts \subseteq Nat \ {0}

VARIABLES
  story,   \* session -> its messages
  summary, \* session -> its latest compacted context
  here,    \* the session of the conversation
  turns,   \* session_replay_user_turns
  sight,   \* what the turn at work has read and shows
  queue,   \* the compaction jobs; the worker is at the first
  result,  \* the checkpoint it has made and not yet written
  fits,    \* it has found that it reaches further than the session's
  count    \* questions, notes and changes of configuration so far

windowVars == <<story, summary, here, turns, sight, queue, result, fits, count>>

NoContext == [end |-> 0, tail |-> 0, kind |-> "none", covers |-> {}]
NoView == [session |-> 0, of |-> <<>>, ctx |-> NoContext, text |-> "", shown |-> {}, from |-> 0]

Created == [role |-> "created", id |-> 0, text |-> ""]
Assistant == [role |-> "assistant", id |-> count.questions, text |-> ""]
Note == [role |-> "note", id |-> count.notes + 1, text |-> ""]

(***************************************************************************)
(* The window: sets of positions in a history.                             *)
(***************************************************************************)
Of(h, roles, from) == {i \in from + 1..Len(h) : h[i].role \in roles}
Latest(I) == CHOOSE i \in I : \A j \in I : j <= i

\* The current message is shown apart.
WithoutCurrent(I, h, text) ==
  IF I # {} /\ h[Latest(I)].role = "user" /\ h[Latest(I)].text = text
  THEN I \ {Latest(I)} ELSE I

Replayable(h, from, text) ==
  WithoutCurrent(Of(h, {"user", "assistant", "note"}, from), h, text)

Asked(I, h) == {i \in I : h[i].role = "user"}

\* From the k-th last question on, or from the first one.
LastTurns(I, h, k) ==
  {i \in I : \E u \in Asked(I, h) : u <= i
                /\ Cardinality({v \in Asked(I, h) : v >= u}) <= k}

UnderPressure(c) == c.kind = "pressure"
Larger(a, b) == IF a > b THEN a ELSE b

\* Mutant: the checkpoint's number, also for a summary of the past.
TailOnly(c, k) == IF c = NoContext THEN k ELSE c.tail

Window(c, k) ==
  IF c = NoContext THEN k ELSE IF UnderPressure(c) THEN c.tail ELSE Larger(k, c.tail)

\* A summary of the past steps back when more turns are shown than it left;
\* a checkpoint made under pressure never does.
Shown(h, c, k, text) ==
  LET all == LastTurns(Replayable(h, 0, text), h, Window(c, k))
      rest == LastTurns(Replayable(h, c.end, text), h, Window(c, k))
      widened == c = NoContext \/ (~UnderPressure(c) /\ k > c.tail /\ all # {})
  IN IF widened THEN all ELSE rest

(***************************************************************************)
(* Compaction.                                                             *)
(***************************************************************************)
Talk(h, text) == WithoutCurrent(Of(h, {"user", "assistant"}, 0), h, text)

Prefix(h, text, keep) ==
  LET said == Talk(h, text)
  IN IF Cardinality(Asked(said, h)) > keep THEN said \ LastTurns(said, h, keep) ELSE {}

\* Mutant: the end is counted among what was said, not among all messages.
EndAmongTalk(h, text, keep) == Cardinality(Prefix(h, text, keep))

\* Everything before the last turns, when there are more of them.
PrefixEndIndex(h, text, keep) ==
  LET tail == Talk(h, text) \ Prefix(h, text, keep)
  IN IF Prefix(h, text, keep) = {} THEN 0
     ELSE (CHOOSE i \in tail : \A j \in tail : i <= j) - 1

Checkpoint(h, text, keep, kind) ==
  [end |-> PrefixEndIndex(h, text, keep), tail |-> keep, kind |-> kind,
   covers |-> {h[i] : i \in Prefix(h, text, keep)}]

\* decide_compaction: a first message has nothing to go on with.
FollowsUp(h) == Cardinality(Of(h, {"user", "assistant"}, 0)) > 1
Decision(h) ==
  LET size == Cardinality(Of(h, {"user", "assistant"}, 0))
  IN IF size < Advisory THEN "none"
     ELSE IF size < Proactive \/ ~FollowsUp(h) THEN "advisory" ELSE "proactive"

(***************************************************************************)
(* A turn.                                                                 *)
(***************************************************************************)
WindowInit ==
  /\ story = [s \in Places |-> IF s = 1 THEN <<Created>> ELSE <<>>]
  /\ summary = [s \in Places |-> NoContext]
  /\ here = 1
  /\ turns \in TurnCounts
  /\ sight = NoView
  /\ queue = <<>>
  /\ result = NoContext
  /\ fits = FALSE
  /\ count = [questions |-> 0, notes |-> 0, configs |-> 0]

Idle == sight = NoView

\* What the turn now shows, of a session's history and checkpoint.
Assembled(from, s, h, c, text) ==
  [session |-> s, of |-> h, ctx |-> c, text |-> text, from |-> from,
   shown |-> Shown(h, c, turns, text)]

Question(n, text) == [role |-> "user", id |-> n, text |-> text]

\* Without a checkpoint a large session gets one first, unless the model has
\* nothing to say.
Checkpoints(h, c, text) ==
  {c} \cup {m \in {Checkpoint(h, text, turns, "pressure")} :
              c = NoContext /\ Decision(h) = "proactive" /\ m.end > 0}

\* A question is asked.
Ask(text) ==
  LET h == Append(story[here], Question(count.questions + 1, text))
  IN /\ Idle /\ count.questions < MaxQuestions
     /\ count' = [count EXCEPT !.questions = @ + 1]
     /\ story' = [story EXCEPT ![here] = h]
     /\ \E c \in Checkpoints(h, summary[here], text) :
          /\ summary' = [summary EXCEPT ![here] = c]
          /\ sight' = Assembled(here, here, h, c, text)
     /\ UNCHANGED <<here, turns, queue, result, fits>>

\* The provider finds the prompt too long: the turn compacts what it has read
\* and asks again.
TooLong ==
  LET s == sight.session
      made == Checkpoint(sight.of, sight.text, turns, "pressure")
  IN /\ ~Idle
     /\ sight.ctx = NoContext /\ made.end > 0
     /\ summary' = [summary EXCEPT ![s] = made]
     /\ sight' = Assembled(sight.from, s, sight.of, made, sight.text)
     /\ UNCHANGED <<story, here, turns, queue, result, fits, count>>

\* The session that is left gets a job if it has more to compact.
WaitingAfter(s, text) ==
  IF PrefixEndIndex(story[s], text, turns) > summary[s].end
  THEN Append(queue, [session |-> s, snap |-> Len(story[s]), keep |-> turns, text |-> text])
  ELSE queue

\* The checkpoint a new session starts with stands for its first row.  There
\* is none if neither a summary nor anything worth carrying was there.
CarriedOver(c) ==
  {[end |-> 1, tail |-> IF c = NoContext THEN 1 ELSE c.tail, kind |-> "carryover",
    covers |-> {}]}
    \cup {d \in {NoContext} : c = NoContext}

\* A turn leaves the session it began in, and once.
MayLeave ==
  /\ ~Idle /\ sight.session = sight.from
  /\ Len(WaitingAfter(sight.session, sight.text)) <= MaxWaiting

\* session.new.
NewSession ==
  /\ MayLeave
  /\ \E s \in Places :
       /\ story[s] = <<>> /\ \A r \in Places : r < s => story[r] # <<>>
       /\ queue' = WaitingAfter(sight.session, sight.text)
       /\ story' = [story EXCEPT ![s] = <<Created>>]
       /\ here' = s
       /\ \E c \in CarriedOver(summary[sight.session]) :
            /\ summary' = [summary EXCEPT ![s] = c]
            /\ sight' = Assembled(sight.from, s, <<Created>>, c, sight.text)
  /\ UNCHANGED <<turns, result, fits, count>>

\* session.resume.
Resume ==
  /\ MayLeave
  /\ \E s \in Places \ {sight.session} :
       /\ story[s] # <<>>
       /\ queue' = WaitingAfter(sight.session, sight.text)
       /\ here' = s
       /\ sight' = Assembled(sight.from, s, story[s], summary[s], sight.text)
  /\ UNCHANGED <<story, summary, turns, result, fits, count>>

\* remove_last_message_if_match.
WithoutQuestion(h, text) ==
  IF h # <<>> /\ h[Len(h)] = Question(count.questions, text) THEN SubSeq(h, 1, Len(h) - 1) ELSE h

\* A turn takes its question back when it has left its session, or when all it
\* did was to resume the session it is in. Its answer, unless it only announces
\* such a change, goes where it is now.
AfterTurn(answered) ==
  [story EXCEPT ![sight.from] =
     IF sight.session # sight.from \/ ~answered THEN WithoutQuestion(@, sight.text) ELSE @]

Answer ==
  /\ ~Idle
  /\ \/ story' = [AfterTurn(TRUE) EXCEPT ![sight.session] = Append(@, Assistant)]
     \/ story' = AfterTurn(FALSE)
  /\ sight' = NoView
  /\ UNCHANGED <<summary, here, turns, queue, result, fits, count>>

\* A turn that raises leaves its question.
Raise ==
  /\ ~Idle
  /\ sight' = NoView
  /\ UNCHANGED <<story, summary, here, turns, queue, result, fits, count>>

(***************************************************************************)
(* Beside it.                                                              *)
(***************************************************************************)
\* A subagent ends and says so in its parent's session.
Notify(s) ==
  /\ story[s] # <<>> /\ count.notes < MaxNotes
  /\ count' = [count EXCEPT !.notes = @ + 1]
  /\ story' = [story EXCEPT ![s] = Append(@, Note)]
  /\ UNCHANGED <<summary, here, turns, sight, queue, result, fits>>

\* _snapshot_session_history: a session as long as it was, whatever it is now.
AsItWas(h, n) == IF n < Len(h) THEN SubSeq(h, 1, n) ELSE h

\* The worker summarises the session of the oldest job.
Summarise ==
  LET job == Head(queue)
      made == Checkpoint(AsItWas(story[job.session], job.snap), job.text, job.keep, "history")
  IN /\ queue # <<>> /\ result = NoContext
     /\ made.end > 0
     /\ result' = made
     /\ UNCHANGED <<story, summary, here, turns, sight, queue, fits, count>>

NextJob == queue' = Tail(queue) /\ result' = NoContext /\ fits' = FALSE

\* The summary is to go in if it reaches further than what is there; of two
\* that reach as far, the one made later.
FindNewer ==
  LET s == Head(queue).session
  IN /\ result # NoContext /\ ~fits
     /\ \/ result.end >= summary[s].end /\ fits' = TRUE /\ UNCHANGED <<queue, result>>
        \/ result.end <= summary[s].end /\ NextJob
     /\ UNCHANGED <<story, summary, here, turns, sight, count>>

\* It goes in, over whatever the turn has written there since.
Compact ==
  /\ result # NoContext /\ fits
  /\ summary' = [summary EXCEPT ![Head(queue).session] = result]
  /\ NextJob
  /\ UNCHANGED <<story, here, turns, sight, count>>

\* There is nothing to summarise, or the model or the database fails.
CompactFails ==
  /\ queue # <<>>
  /\ NextJob
  /\ UNCHANGED <<story, summary, here, turns, sight, count>>

\* A restart with another session_replay_user_turns: the turn at work is gone,
\* the job at work is queued again.
Reconfigure ==
  /\ count.configs < MaxConfigs
  /\ count' = [count EXCEPT !.configs = @ + 1]
  /\ turns' \in TurnCounts \ {turns}
  /\ sight' = NoView
  /\ result' = NoContext /\ fits' = FALSE
  /\ UNCHANGED <<story, summary, here, queue>>

WindowNext ==
  \/ \E text \in Texts : Ask(text)
  \/ TooLong \/ NewSession \/ Resume \/ Answer \/ Raise
  \/ \E s \in Places : Notify(s)
  \/ Summarise \/ FindNewer \/ Compact \/ CompactFails \/ Reconfigure

WindowSpec == WindowInit /\ [][WindowNext]_windowVars

(***************************************************************************)
(* Properties.                                                             *)
(***************************************************************************)
\* A note, or the answer to a question that was asked elsewhere.
Stray(h, i) ==
  \/ h[i].role = "note"
  \/ h[i].role = "assistant" /\ \A j \in 1..Len(h) : h[j].role = "user" => h[j].id # h[i].id

\* What was promised: session_replay_user_turns, or what the checkpoint kept.
TurnsToSee == IF UnderPressure(sight.ctx) THEN sight.ctx.tail ELSE turns

\* Of the last `turns` questions, or under pressure of as many as the
\* checkpoint was to keep, and of what was said since, nothing is withheld: it
\* is shown or summarised, however late the checkpoint was made, from whatever
\* snapshot, and whatever session_replay_user_turns was then. Only what answers
\* nothing in this session may be missed, until something is asked after the
\* checkpoint.
LastTurnsAreSeen ==
  \A i \in LastTurns(Replayable(sight.of, 0, sight.text), sight.of, TurnsToSee) :
    \/ i \in sight.shown
    \/ sight.of[i] \in sight.ctx.covers
    \/ Stray(sight.of, i) /\ \A j \in sight.ctx.end + 1..i : sight.of[j].role # "user"

\* What was said before a checkpoint's end is what it summarises, and nothing
\* after it is: turns that took their questions back since then have not
\* moved the end.
CutIsWhatIsSummarised ==
  \A s \in Places :
    summary[s].covers = {story[s][i] : i \in {j \in Of(story[s], {"user", "assistant"}, 0) :
                                            j <= summary[s].end}}

\* A turn sees all it needs (the two promises above): what is left out of its
\* prompt is old and in the summary.
ContextIsWhole == LastTurnsAreSeen /\ CutIsWhatIsSummarised
=============================================================================
