# marten-runtime in TLA+

A verification project kept beside `src/marten_runtime`. It models the parts of
the runtime whose correctness depends on the order in which threads, requests,
timers, restarts and other processes act. TLC checks the models on small
instances; TLAPS proves the central facts for every instance.

Paths below are relative to `src/src/marten_runtime/` unless they start with
`docs/` or `tests/`.

## 1. The system

marten-runtime is one long-running agent process. A message arrives over HTTP
(`/messages`) or over a Feishu websocket, waits for its conversation's *lane*,
runs a *turn* (the model is called, tools are run, the session is rebound or
compacted), and its answer is delivered. Beside the turns run child agents
(*subagents*) on threads of their own, a *compaction worker* thread, a ping and
a reconnect task of the websocket, knowledge ingest threads, evaluation jobs,
review subagents, child processes (MCP servers, the chart calculator, evaluated
cases) and, against the same SQLite files, maintenance command lines.

| component | state it keeps | what is hard | module |
|---|---|---|---|
| Subagents `subagents/service.py` | tasks, running slots, pending starts, execution controls, threads | four ways to end a task, three places that release a slot, checks made before a lock is taken | `Subagents` (3) |
| Conversation lanes `runtime/lanes.py` | a queue of runs per conversation | hand-over to the next waiter | `ConversationLanes`, `FifoLock` (4) |
| Turn handling `interfaces/http/bootstrap_handlers.py`, `app.py`, gateway, agents | none of its own: a turn reads and writes the session store between model calls | two conversations of one user may be in one session, through different lanes | `Turns` (4) |
| Session store `session/sqlite_store.py`, `maintenance.py` | session rows, messages, bindings, compaction jobs | every mutator reads a record and writes it back whole in a later transaction | `SessionStore` (5) |
| Memory `memory/` | items, a text index, an exported file | chains of transactions that may end anywhere | `Memory` (5) |
| Automations `automation/` | scheduled jobs with fingerprints | whole-row updates of rows read earlier, tables of older versions | `Automation` (5) |
| Compaction `session/compaction_worker.py`, `transition.py`, `compaction_runner.py` | job rows, the compacted range of a session | stale results, jobs deleted while they run, a worker that dies | `CompactionJobs`, `JobQueue` (6) |
| Context assembly `runtime/context.py`, `session/replay.py` | the latest checkpoint of a session | what is cut off the prompt must be in the summary | `ContextWindow` (6) |
| Feishu `channels/feishu/`, `channels/receipts.py`, `delivery_retry.py`, `dead_letter.py` | receipts, replay window, fragments, delivered keys, dead letters | acknowledge before work, redelivery, lost answers, stop | `FeishuIngress`, `FeishuDelivery` (7) |
| Knowledge `knowledge/`, `interfaces/http/knowledge_routes.py` | previews, ingest jobs, staged files, sources, chunks, vectors, source locks | cancel against commit, restart against a thread, reads between writes | `KnowledgeJobs`, `KnowledgeIndex`, `KnowledgeSearch` (8) |
| Runtime loop `runtime/loop.py`, `recovery_flow.py`, `finalization_flow.py`, `run_outcome_flow.py`; provider `provider_retry.py`, `provider_flow.py`, `llm_failover.py` | one run's history, repairs, sessions, providers, attempts | bounded repairs, stops that look like timeouts, claims not borne out | `RuntimeLoop`, `Finalization`, `ProviderCall` (9) |
| Self-improvement `self_improve/` | failures and recoveries, triggers, reviews, candidates, lessons, skill files | callback against reconciliation, edits against promotions | `ReviewTriggers`, `ReviewEvidence`, `Learning` (10) |
| Tools outside of the process `mcp/`, `runtime/bazi_bridge.py` | a shared session per MCP server, results and places of a run | one caller's failure closes what another waits for | `McpClient`, `OneOffCall`, `BaziBridge` (11) |
| Evaluations `evals/`, corpus `knowledge/corpus.py` | jobs, runs, results, baselines; a published corpus | children that hang, stores that fail, publications cut short | `Evals`, `CorpusRelease` (12) |
| The rest | see section 15 | | |

How they meet: a turn holds its lane while it changes its session, may spawn
subagents, and at its end releases their pending starts. A subagent's child run
is a turn of its own child session but takes no lane; its end writes a message
into the parent session and calls back the review dispatcher. A transition
enqueues a compaction job that the worker applies to the same session row while
later turns append to it. The Feishu service waits for the lane inside a dispatch
thread and delivers before it gives the lane up. A turn's run is the runtime loop,
which calls providers and tools; the end of any run dispatches pending reviews.

### What makes each component correct

- *Subagents*: never more children than slots; a freed slot goes to the next
  task; a child waits for its parent's turn; an end of a task that nobody is about
  to overwrite stands, and the parent is told of it.
- *Lanes and turns*: one active run per conversation, in order of arrival, none
  forgotten; an exchange ends up in the session where the user is.
- *Stores*: a bound session exists and has one binding, a parent exists; what
  every client at work has seen is kept; a job is found by what it does.
- *Compaction*: what a job said to be done has summarised stays summarised, every job
  ends; the model misses nothing recent.
- *Feishu*: an event is answered once; an answer is delivered or dead-lettered.
- *Knowledge*: a job ends in one state and the index agrees with it; what is
  published is found whole, what is deleted is not found.
- *Runtime loop*: little work after a stop; one session; failover exhausted before
  giving up; results reach the user; accepted claims are borne out.
- *Self-improvement*: a trigger is reviewed once, what was decided stands.
- *Tools*: no server process is lost, every call comes back.
- *Evaluations*: a finished run is whole, a baseline has passed; what a release
  reports is searchable.

## 2. Plan

All modules of the plan exist; the sections below describe them. Every component
is a module; a component's requirements stand at its end or in a module of their
own, its proofs in `*Proofs`, its instance for TLC in `MC*`; proofs about services
that share nothing share a module. Components that share
an instance's run do so because a behaviour works on one of them (`part`), so that
their states add up and do not multiply; a component is composed with another
where the two touch the same state: `FeishuIngress` with `FeishuDelivery` and the
lane, `RuntimeLoop` with `ProviderCall` and `Finalization`, `ReviewEvidence` with
`ReviewTriggers`.

Left for later: the two halves of `ContextWindow` and `CompactionJobs` share the
checkpoint and could be one module; `Turns` takes calls of the session store for
one step each, `SessionStore` splits them, and nothing relates the two yet.

## 3. Subagents

`Subagents.tla` is the state machine, `SubagentRequirements.tla` states what is
required of it and is what the runs check, `SubagentProofs.tla` proves.

Tasks are `1..NumTasks` in order of creation, which is the order in which
`list_tasks` returns them. For every task the model has the place of its
supervisor thread (`run_task_by_id`), the place of its worker thread
(`_execute_task`), its status and result, its execution control and whether the
control is current (`_invalidate_execution`). Callers are the threads inside
`cancel_task` (`Cancellers`) and `shutdown` (`Closers`). A section under
`self._lock` is one action; the reads and calls between sections are actions of
their own, which is where the interleavings come from. The task store has no lock:
each mark is two steps, the look at the status (`MarkTerminal`, `SupMark`) and the
assignment (`Assign`), and others may assign in between.

| model | code |
|---|---|
| `running`, `pending`, `decided` | `_running_tasks`, `_pending_background_starts`, starts decided under the lock and made after it |
| `background`, `executing`, `tokens`, `controls`, `stopped` | the thread, token and control dictionaries, the stop events that are set |
| `status`, `started`, `payload`, `posted`, `reported` | the task record, the messages in the parent session, the callbacks |
| `Spawn`, `ReleaseDeferred`, `Launch` | `spawn`, `release_deferred_background_starts`, `_start_background_task` |
| `Sup*` | `run_task_by_id` and `complete_task_timeout`, in the order of its statements |
| `Wrk*` | `_execute_task`, `complete_task_success`, `complete_task_failure`, the `finally` |
| `Cancel*`, `Caller*`, `Shutdown*` | `cancel_task`, `shutdown` and the calls they make |
| `*Fault` | a store or delivery call on the way that raises, at most `MaxFaults` times |
| `ReleaseSlot`, `StartNext` | `_release_task_slot`, `_start_next_queued_background_task` |

A local is forgotten after its last use (`was_running`, the stop event of a child
that has ended), which makes fewer states and no other behaviour. After `shutdown`
has cleared its dictionaries the process exits, so the model takes no further step
(`~Cleared`).

| run | instance | what it asks |
|---|---|---|
| `subagents_cancel` | 2 tasks, 1 slot, a queue of 1, 1 canceller; no child posts to its parent (`Silent`), which the properties do not read | a slot in use has an owner; a queued task waits only for room; a child runs in its slot unless a call set out to end it |
| `subagents_turns` | 2 tasks, 1 slot, a queue of 2, fair | every accepted task ends |
| `subagents_shutdown` | 1 task, 1 canceller, 1 closer, 1 fault | an outcome stands once nobody is between look and assignment |

What the code does and no property asks for: a cancel that saw *queued* frees the
slot of a child that has begun meanwhile; a cancel that completes before the
supervisor takes the lock leaves a slot that nobody returns (the last disjunct of
`SlotHasOwner` names these tasks: cancelled before they were marked running); of
two threads that look at a status in time the later one overwrites the outcome of
the earlier one, and a child started over its cancellation has no current execution
and stays *running* for good (both findings; `Settled` says when it is over); a
success that checked the status before a timeout or a cancel marked the task
writes its result onto the stopped task (`service.py:325`); a stop signalled
between a child's start and the creation of its control reaches nobody
(`service.py:640`).

Bounds. Two tasks are enough for every hand-over (one holds the slot, the other
waits for it); one slot is the tightest pool; one caller may act at every moment
of both threads of a task. The proofs, which do not depend on the bounds, cover
more tasks, slots and callers.

Fairness. `FairSpec` gives weak fairness to each started thread and to each
caller: a model request has a timeout, `join` has one, and a lock section
terminates. It also gives weak fairness to `ReleaseDeferred`: a turn ends and
releases pending starts; when a turn raises, `/messages` skips the release
(`app.py:322`) and the next turn of any conversation makes it.

Proofs. `IInv` in `SubagentProofs.tla` is the inductive invariant: the type
invariant, *a caller at work has a task*, *Life* (a task's status against the
places of its threads, its pending or decided start), *a thread past its
reservation has had a slot* and what callers know of the task they are at
(`CallersKnow`: past their mark it has left the queue; if they have seen it run, it
has ended, as its start was assigned before). The
requirements alone are not inductive: that no child starts twice needs to know
that a pending task has no thread, which needs to know that a start decided under
the lock left `pending`. From it follow, for every number of tasks, slots and
callers, `TypeOK`, `CapacityRespected`, `SettledOutcomeStands`,
`WaitsForParentTurn`, `CancelledInQueueNeverRuns`, `StartedExactlyOnce`,
`CallEndsTask` and `ParentToldFirst`, and with further invariants on top of it:

- `SlotHasOwner` from *HeldFor*, which names for each slot the place of the thread
  that holds it;
- `WaitsOnlyForRoom` from *SeekersMatchRoom*, a counting argument: as long as a
  task could start, free slots never outnumber the threads that are about to look
  for a task. A release makes a slot and a seeker at once, a seeker that finds a
  task takes its slot, and one that finds none leaves nothing startable;
- `RunHoldsSlot` from *ChildIsKnown* (what the supervisor of a running child knows
  about it while no call has set out to end it; `called` is a history variable).

Only model-checked: `EveryTaskEnds`.

## 4. Conversation lanes and turns

`ConversationLanes.tla` models `ConversationLaneManager`, `FifoLock.tla` the
lock it promises: requests arrive in a queue, the first of a lane enters, and
leaves. `ConversationLanesProofs.tla` proves, for the lanes and for the turns below.

A deque is an object on the heap named by the run that created it
(`setdefault`), because `acquire` keeps a reference to it across waits while
`release` takes emptied deques out of the dictionary. A thread that waits on
the condition variable is *asleep*, after a notification *woken* and on its way
back to the lock; `Acquire`, `Wake` and `Release` are the locked sections.

| model | code |
|---|---|
| `table`, `deque`, `mine` | `_queues`, the deques, the `queue` local of a waiting `acquire` |
| `maxDepth`, `lastQueued` | `_max_queue_depth`, `_last_enqueued_lane` |
| `Acquire`, `Wake`, `Release` | `acquire` up to its first wait, its loop after a wait, `release` |

`Turns.tla` models what a message does once it holds its lane, and what a
triggered automation does without one. A call of the session store is one step
here. The lane of a conversation is the variable `lane`, one message at a time,
which is what `FifoLock` says.

| model | code |
|---|---|
| `rows`, `bound`, `sent` | sessions with history, owner, agent and title; bindings; deduplication keys of delivered answers |
| `turn` | the locals of `_process_inbound_envelope` and `_process_automation_dispatch` |
| `Enter`, `Resolve`, `Ask`, `Route`, `RoutingFails` | the lane, the session lookup, `append_message`, the router and the hand-off |
| `NewSession`, `Resume`, `ResumeSame`, `UseTool` | the session tool's actions within a run, other tools |
| `EndRun`, `Command`, `Settle`, `Persist`, `Title`, `Summarise`, `Leave` | the run's end or a `/` command, the question taken back after a switch, where the answer is written, the title, the end of the turn |
| `Raise` | an exception out of the turn; the lane is released in a `finally` |
| `TriggerAutomation`, `PrepareTrigger`, `AskTrigger`, `Deliver` | an automation turn |

| run | instance | what it asks |
|---|---|---|
| `turns` | five requests of two conversations in the lanes; or three messages of two conversations of one user with a session tool call, a hand-off and an exception; or two triggers of an automation on a day; fair | the lanes are a fair first-in first-out lock; conversations do not mix; an exchange ends up in the session where the user is; every message ends |

`ConversationsDoNotMix` and `ExchangeFollowsUser` except what the code does not
exclude: a session that another conversation resumed while a turn was at work in
it is written from two lanes, and triggers of one day interleave without a lane.
Two automations for one chat on one day share a deduplication key, which is a
finding of its own.

Bounds. Three requests of one lane meet every order of arrival, wake-up and
release around a deque that is emptied and made again; a second lane shares the
condition variable. Two messages of one conversation are one that waits and one
that works; the third is in the other conversation. Fairness: a woken thread gets
the lock, and an active run is released, as both callers release in a `finally`
and their turns have timeouts.

Proofs. The refinement `LanesAreFifo` needs, for every step, that the head of
the table's deque is the oldest request inside, hence the invariant: deques hold
requests of one lane that know them, a waiter's deque is the one in the table, a
deque in the table is not empty, a deque is untouched before its creator
arrives, the active run is the head. With it `MutualExclusion`,
`WaitersReachable` and `NoLostWakeUp` hold for any requests and lanes.
`ImplementsFairLock` adds the fairness, and is model-checked only.

`ConversationsStayApart` and `ExchangesFollow` prove both invariants of `turns` for
any messages, triggers, conversations, agents, sessions and numbers of tool calls, from
one inductive invariant, `TurnsInv`. A message at work holds its lane (`LanesHeld`).
An entry of a history was written by a turn that had this session, after that turn
asked or answered (`Written`), and no entry is there twice (`Once`). While a message
is at work, nothing of its own conversation follows its question (`Followed`): the
lane keeps other messages out, and an automation's conversation is its own
(`TurnsAssumption`, from the session id `automation:<id>:<date>` that
`automation/dispatch.py` makes; an HTTP client could give its conversation such a name,
and the assumption says that none does). `Followed` is what makes both
properties inductive: at the answer it is `NotMixed`, and at the switch it says that a
question which is no longer the last entry has one of another conversation behind it,
the exception in `ExchangeFollowsUser`. Each step is one of three forms, which is how
the lemmas are laid out: it leaves the histories alone (`QuietStep`), writes one
entry (`EntryStep`), or takes the question back (`SettleSound`).

## 5. Stores: sessions, memory, automations

### Sessions

`SessionStore.tla` models `SQLiteSessionStore` as its clients see it: turns,
subagents, the compaction worker and the maintenance command line.
`SessionRequirements.tla` states what is required, `SessionStoreProofs.tla` proves.

Python's `sqlite3` opens a transaction at the first write, so every `SELECT` is
a transaction of its own. A mutator is therefore four steps: the row is read
(`Begin`), the messages are read (`ReadMessages`), row and messages are written
back whole (`WriteRecord`), and for `set_catalog_metadata` and `create` the
conversation is bound (`BindNew`). `bind_conversation`, `delete_session` and
`prune_sessions` are one transaction each, and one action.

| model | code |
|---|---|
| `row`, `msgs`, `bind` | `sessions`, `session_messages`, `session_bindings` |
| `created` | ids and creation times handed out: sessions are numbered in order of creation |
| `at`, `job`, `rec`, `log` | a client's place in a call, its arguments, the record it holds |
| `saved` | history: messages acknowledged and not withdrawn |
| `Begin`, `BeginTurn`, `BeginCatalog` | `get` at the start of a mutator; a turn resolves its session first and sets the catalog later |
| `NothingToRemove`, `WriteRefused`, `SessionGone` | the early return, the triggers, `KeyError` |
| `BeginCreate`, `BeginChild`, `WriteNew` | `create`, `create_child_session` |
| `Resume` | `session.resume`: the visibility check and `bind_conversation` |
| `BeginIfNewer`, `UpdateContext` | `set_compacted_context_if_newer`: its `SELECT`, its `UPDATE` |
| `Delete`, `Prune` | `delete_session`, `prune_sessions` |

Kept of a row are its conversation, user, parent and the end of its compacted
range; mutators of other fields are one operation, `touch`.
Activity is abstract: pruning may take any set of sessions for inactive.

With two clients at once the read-modify-write of whole records loses an append,
restores an older context or the conversation of before a resume, and may insert a
deleted row again (a finding in `PROJECT.json`). Lanes serialize the turns of one
conversation; nothing serializes a subagent's terminal message, an automation, the
compaction worker, the command line, or two conversations in one session. So what is
required holds of clients that overlap in any way, and says from when on a write is
safe. `MessagesSettle`: an append is stored when it returns, and once every client
that read the messages before it has ended its call, no call removes it but its
withdrawal or a deletion. `BindingsSettle`: a new binding has a row that says the
same, and as soon as no client is at work that read another row or serves another
user, it stays so until the binding itself changes. `ContextSettles`: a compacted
range that every client at work knows is replaced by newer ones only, although the
worker compares and writes in two transactions; `set_compacted_context` alone puts a
turn's own range in its place. That an append survives a client that read *before*
it, or a range one that compared before it, is not promised: the code does not.

Proofs. What the stale writes cannot break is proved for any number of sessions
and clients: `StoreTypeCorrect`, `BindingsLeadSomewhere`, `BindingsExclusive`,
`ParentsStay`. The invariant adds what a client holds: a record names a session
that was handed out, and a parent older than it, so that a session written
back, however late, still has an older parent, whose existence the trigger
checks. Deletion keeps the invariant because a lineage contains the children of
its members, pruning because the protected ancestors contain the parents of
every session kept; both are proved from the least-fixed-point definitions.

What every client at work has seen stands: `MessagesStay`, `BindingsMatchRows` and
`ContextMovesForward` prove the three properties of the run for any number of
clients and all operations, with no assumption on how their calls meet. Each says
of a thing known (`Seen`, `Agreed`, `Kept`: it is in the tables, and every record a
client is about to write back holds it too) that a step keeps it known or is one of
the steps that may change it. One lemma per kind of step: `Quiet` is what a step may
make of a client's own variables when it leaves the tables alone (it reads what is
there, or gives up), and `WriteRecord`, `WriteNew`, `bind_conversation`, the worker's
`UPDATE` and a deletion each write only what is known. The proofs need two more
facts: a record still to be written has a session that nobody else is at work on and
that does not exist (`Private`), so its insertion replaces nothing; and the session
a turn resolves is bound to no other identified user whose row says so
(`ResolvedIsMine`, which needs the newest anonymous session to exist, hence the
well-founded induction of the library).

### Memory

`Memory.tla` models `MemoryService`, its SQLite store, the exported file and
`MemoryLoader`, as calls of the memory tool drive them. A call is a chain of
transactions (`WriteEntry`, `WriteTarget`), a read and a write of the export
(`ReadDocument`, `WriteExport`), and the selection of the prompt memory under its
budget (`ListScopes`, `Search`). A statement may fail and the process may end
between any two (`End`). `PlaceKeepsText`: a text that was saved is in its place as
long as nobody deleted it, however replacements meet. `PromptIsFull`: the prompt
memory keeps to its budget and leaves out no line that would fit. What is not
promised: two replacements of one text leave two texts, and the export may be older
than the rows (a finding).

`SessionStoreProofs.tla`, in its last part, proves both for any users, places, types,
lengths, priorities, lines of a replacement and callers at a time (`MemoryStays`).
`PlaceKeepsText` is not inductive: a text may be superseded while its successor is
superseded or deleted in its turn. `EachSucceeded` is: whatever is superseded has a newer
text of its user, place and type. A replacement keeps it because its first entry replaces
a text of its own place and type in one transaction and so succeeds all of those it has
still to supersede (`CallSound`); a delete supersedes nothing. Then the newest text of
a place, which there is because the numbers of texts are well founded, was not superseded.

`PromptIsFull` is about a loop over the ordered candidates. The model states what the
loop leaves, the lines that fit behind those taken before them (`Selections`), and measures a
text by the set of its characters, so that sums over lines are cardinalities. The
proof needs that the candidates are in a total order whatever was found
(`AheadIsOrder`), that such a finite order has a first and a last (`FirstAndLast`), and that
what is counted line by line, with a separator before each but the first, is the length
of the text (`LinesAreText`).

### Automations

`Automation.tla` models the table of jobs: its migration and the configured and
internal jobs at a start (`Start`), and the tool's register, update, pause, resume
and delete, each a read of the job and a later write of its whole row.
`FingerprintTells`: every job is found by the fingerprint of what it does.
`SessionStoreProofs.tla` proves it for any turns, contents and old tables
(`JobsAreFoundByWhatTheyDo`): every row has no fingerprint or that of its own
content, rows that calls have read have the current agent name, and every write
makes the fingerprint anew.

| run | instance | what it asks |
|---|---|---|
| `store` | sessions: 2 clients with any of the calls, ranges to 2, a user and nobody; on the messages of one session in one conversation (2 messages), on the context of one session, or on the bindings and lineage of 2 sessions in 2 conversations. Memory: two calls at once that replace and delete lines of one kind, or one that fills the prompt (3 items, budget 4). Automations: starts over a table of an older version, one turn that does anything, one that deletes | what every client at work has seen stands: messages, rows that agree with bindings, compacted ranges; memory is kept and shown; jobs are found by what they do |

Deadlock is not checked: with every session created and deleted nothing is left to
do. Bounds. Two sessions suffice for a parent and its child, for a resume that takes
a session out of another conversation and for a deletion beside a creation; two
conversations, one with and one without a channel, and a user and nobody make every
case of the resolution and the rebinding. Two clients make every overlap of a read
and a write; a third could only be stale in the same way. Messages and ranges are
columns and rows of one session, so one session is enough for them, and they are
taken apart because no step relates them. Clients and messages are symmetric.

## 6. Compaction

`CompactionJobs.tla` models the jobs a turn queues when it leaves its session
and the worker that runs them, `JobQueue.tla` the queue the job table promises,
`CompactionRequirements.tla` what is required, `CompactionProofs.tla` proves.

A history is the sequence of its user turns; a summary is the number of turns it
stands for. The turns of one session follow one another (its lane), so a session
has at most one turn at work; that writes of whole records overtake one another
is the subject of section 5 and is left out here. The checkpoint `session.new`
carries over into a new session, `[0, 1]` whatever its history, stands for none of
its turns; the model starts sessions without one, which lets a turn compact that
would find the checkpoint.

| model | code |
|---|---|
| `live`, `hist`, `ctx` | session rows, their messages, the end of `latest_compacted_context` |
| `turn`, `view`, `viewCtx` | a turn of `_process_inbound_envelope`, the history and context it has read |
| `status`, `source`, `snap`, `current`, `planned` | a row of `session_compaction_jobs` |
| `at`, `job`, `range` | the worker thread in `run_once`, its job, the summary it has made |
| `BeginTurn`, `TurnCompacts`, `EndTurn` | an inbound turn, the compaction it makes itself under pressure |
| `Switch`, `Enqueue`, `Withdraw` | `execute_session_transition`, its job, the inbound message taken back |
| `Claim`, `Take` | the `SELECT` and the `UPDATE` of `claim_next_compaction_job` |
| `Load`, `Generate`, `Compare`, `Update`, `Mark` | `run_once`; `set_compacted_context_if_newer` in its two statements |
| `Dies` | an exception that leaves `_run_loop` |
| `Delete`, `Restart` | `_delete_sessions`; a new process with `reset_running_compaction_jobs` |

`ContextWindow.tla` models what a model is shown of one conversation's sessions:
which of the last user turns (`Window`), cut off by which checkpoint (`Prefix`,
`Checkpoint`), while questions are asked, sessions are left and resumed, notes of
subagents arrive, checkpoints are made under pressure, in the background or carried
over, and `session_replay_user_turns` is changed. Here the content of the summaries
matters and the rows of the jobs do not: the jobs are a queue, the worker reads a
session as it was by number (`Summarise`), compares what it made with what is there
(`FindNewer`) and writes it (`Compact`), three steps, and in between sessions are
resumed, grow, take questions back, and turns store checkpoints of their own.

`CutIsWhatIsSummarised`: what is before a checkpoint's end is what it summarises.
`LastTurnsAreSeen`: of the last turns nothing is withheld, it is shown or summarised.
One case is exempt (`Stray`), because there the code does withhold something: a job's
snapshot, a number of messages, may take in a later question that its turn then takes
back, so that the checkpoint ends where the history ends. Replay after the checkpoint
begins at a question, so a note, or the answer of a turn that began in another
session, is not shown until something is asked after it. The exemption covers just
that: messages that answer nothing in this session, with no question between the
checkpoint's end and them.

| run | instance | what it asks |
|---|---|---|
| `compaction` | jobs: 2 sessions, 2 jobs, 1 turn kept, 1 restart, fair. Window: 4 questions in 2 sessions, 2 waiting jobs, a note or a change of configuration | the jobs are a queue; a job ends unless the worker has died; the model is shown all it needs |

The snapshot of a job is a *number* of messages, its current message included
(`transition.py`). The turn then withdraws that message, a later one takes its
place, and the worker, which looks for the current message at the end of the
snapshot (`compaction_runner.py`), keeps it as past: the summary covers one turn
more than was planned, and one turn less than `preserved_tail_user_turns` stays
out of it. It never covers less, which is `DoneIsCompacted`.

Bounds. One job is at the worker while another waits, of the same or of another
session; five turns are two that leave a session and three that make it long
enough to compact; one restart may fall between any two steps. Fairness: the
worker thread polls, and the model request it waits for has a timeout. Turns,
deletions and restarts are not fair.

A session deleted during its job ends the worker's thread (a finding); the property
says so.

Proofs. `JobsAreAQueue` and `NoneLeftRunning` rest on what the worker knows of a
job it has selected: only a deletion takes it away, and no older one is queued.
`DoneStaysCompacted` is the argument that the two writers of a compacted context
do not harm each other although one of them does not compare: (1) a session's
history still holds, in place, all turns that were past when a job was queued,
since only the last message is ever withdrawn and a turn's own message is; (2)
hence what a turn compacts of the history it has read covers every job queued
before, and what the worker cuts out of its snapshot covers its own; (3) between
`Compare` and `Update` no job is marked, so the summary that is written still
covers all that are done. `PrefixCovers` and `SnapshotIsPrefix` are the lemmas
about sequences. All for any sessions, jobs, turns and number of kept turns;
liveness is model-checked only.

`ContextStaysWhole` states `ContextIsWhole` for any sessions, texts, thresholds and
bounds, under `WindowAssumption` (sessions are numbered from 1, and
`session_replay_user_turns` is positive: `gt=0` in `platform_loader.py`). The
inductive invariant is `WindowInv`. Its core is `Chronicle` and `Cut`: in a history the
turns never go back and each begins with its only question, and a checkpoint covers
just what stands before its end, which belongs to turns older than the current one,
while what stands after it belongs to later turns. A question taken back is of the
current turn and the last of its history, so it takes nothing away before a cut
(`WithdrawalFollows`); what is appended is of the current turn, so it falls after
every cut (`AppendFollows`). A checkpoint made of a snapshot cuts the snapshot
(`CheckpointCuts`, from `TailBeginsWithQuestion`), and the two lemmas carry the cut
over to the session as it is when the worker writes (`ResultCuts`). That nothing is
withheld is then a matter of one assembled prompt (`NothingIsWithheld`), which both
the widened window and the one after the checkpoint satisfy. The attempt to prove the
property without `Stray` is how the case above was found; it takes seven questions,
more than the run's four, so only the theorem speaks of it.

## 7. Feishu

`FeishuIngress.tla` models `FeishuWebsocketService` together with the pool of
threads it shares with its own reconnects; it extends `FeishuDelivery.tla`, the
delivery client.

| model | code |
|---|---|
| `conn`, `failures`, `Fetch`, `Connect`, `Drop`, `Reconnect` | `_run_forever`: the endpoint is fetched in the pool, reconnects are counted |
| `sent`, `fragments`, `Receive` | `_process_payload`: frames, their fragments, acknowledged before the work |
| `pool`, `Dispatch` | `asyncio.to_thread` and the executor's threads |
| `receipts`, `recent`, `scanned`, `FindReceipt`, `SetReceipt`, `ScanRecent`, `SwapRecent`, `SetRecent` | `InMemoryReceiptStore.claim` and the semantic window: a lookup and the assignment after it are two steps |
| `lane`, `JoinLane`, `EnterLane`, `TurnReturns`, `Fail`, `Finish` | the chat's lane, the turn, its delivery, the `finally` |
| `place`, `kind`, `tries`, `delivered`, `dead`, `shown`, `lost` | a delivery, its retries, `_delivered_keys`, the dead letters, what the chat shows and what was shown without an answer |
| `Stop`, `Stopped`, `stop` | `stop`: the event is set, the tasks are cancelled, the event is dropped |

| run | instance | what it asks |
|---|---|---|
| `feishu` | a user's message sent twice, or once with an ignored app message in two frames; 2 pool threads, 1 retry, 1 reconnect; fair | a message is answered once; no answer vanishes; every event ends and the connection returns or is given up |

A second copy may pass the receipt and the window at the same time as the first:
the lane and the delivered keys then hide its answer, unless the answer to a send
was lost (`AnsweredOnce` says so). A `RuntimeError` of a dictionary that changes
under an iteration loses a copy. A response that cannot be read (*broken*) ends a
delivery in no dead letter. Fairness: threads run, turns and requests have timeouts.
Not modelled: updates of a sent message (no session records a progress message),
the token cache, a crash of the process after the acknowledgement.

Proofs. `FeishuProofs.tla` proves `AnsweredOnce` and `NoAnswerVanishes` for any
messages, copies, frames, chats, threads and retries. The invariant `IInv` needs
five parts beside `AnsweredOnce`. `InOrder`: copies are dispatched in order, each
completed by a frame of every part, so that a complete event always has a copy left
to dispatch. `Iterations`: a dictionary that changes fails only dispatches that
iterate over it, never one with a lane. `Lanes`: a dispatch is in the lane of its
chat from the moment it joins until it ends, once, and only the first of a lane
handles its event. Two dispatches of one message are in one lane, so their
deliveries are never under way together (`OneFinal`). `Deliveries` says what each
place of a delivery has shown and recorded; `KeyKept`, its core, is what the check of
`_delivered_keys` at the top of `deliver` is worth at the later send: while a final is
being sent, no other of its key is recorded. A second final that is shown would need
the first to be neither recorded nor under way, hence broken, failed or given up, and
such an answer is shown only when its request was lost. The proof does not use the
receipts or the replay window: they save turns, the lane and the keys save answers.

## 8. Knowledge

`KnowledgeJobs.tla` models an upload from its preview to the end of its ingest job:
staging, previews and their expiry, publishing, the job's thread with its checks,
cancelling, cleaning up, and a process that stops between any two steps.
`KnowledgeIndex.tla` models the index under threads that ingest texts and files,
delete, approve and reindex, with the per-source lock objects that are made and
thrown away with their users, and the lock of the embedding model.
`KnowledgeSearch.tla` models one search by words and by vectors between writes, a
read being one statement, and the answer made of it.

| run | instance | what it asks |
|---|---|---|
| `knowledge` | jobs: 1 upload of 2 batches, 2 stops. Index: 2 threads, 2 sources, a draft namespace and a target, 2 profiles, 2 chunks, 3 calls, embedding enabled or not. Search: 3 passages of 2 sources, 2 results, 1 piece of evidence; fair where threads are | the index has a source exactly when its job's row says completed; the staged file is there as long as needed; the index settles (below); a search shows what there is and uses it; jobs and calls end |

All calls overlap in the index: texts and reindexing, which take no lock, with files,
deletions and approvals, which take their source's. That loses things, and the
findings say so: a deletion amid a text leaves chunks without a source, a reindex
takes away the vectors of what came after it read, and two files validated with two
profiles leave one without vectors that a query finds. What holds all the same is
`IndexSettles`. A call *disputes* a source when what it has still to write was decided
without the source's present chunks or for another profile (`Disputes`). A text that
returns as embedded and a file that is published are found whole; once no call
disputes it, a source found whole is *settled* and stays so until it is itself
replaced or deleted, for the profile checks refuse every later call that would
dispute it, or it gets another profile with the rest of the namespace; a source
loses its row before its chunks only where a text was half written. And one thread
is inside a source's lock.

To keep the run within minutes `MCKnowledge` narrows the calls (`Begins`): the second
thread calls only beside the first, which is no loss as idle threads are alike; the
first call writes the first source in the draft namespace with its own profile; the
target has that source only; the second source is written and deleted in the draft
namespace; without embedding there are texts, deletions and approvals. The proofs
have none of these bounds.

Left out: the second job of one upload after a failed `rmtree`, sqlite-vec's own rows
and the unloading of an idle model. Fairness: threads run and a process that stopped
is started again.

Proofs. `KnowledgeProofs.tla` proves for any uploads, batches and stops that the
index follows the rows (`IndexFollowsRows`) and that the staging directory is kept
and removed (`StagingIsKeptAndRemoved`). The invariant relates a thread's place to
its row, its preview and its directory: a live job whose preview is still *ready*
is being published or the process has stopped; whoever is to remove the directory
of a job that is over is named (its thread, a cancel, the next start).

Of the index it proves, first, that no two threads are inside the lock of one source
(`SourcesAreLocked`), for any threads and whatever calls overlap. `LockInv` counts:
the users of an entry are the threads that wait for its lock or hold it, all of them
have the entry's lock object, and a lock object has one holder; so the object that
the last user throws away is nobody else's, and a new one is new.

Then that the index settles (`IndexStaysWhole`), for any threads, namespaces, sources,
profiles and chunks, whatever calls overlap. `IndexInv` adds to the locks what the
threads know. A generation is of one source and, until it is written, of one thread
(`Generations`); so no write of another source removes a source's vectors
(`VectorsStay`). Who embeds holds the model (`ModelHeld`), and the reindex that could
remove its vectors waits for it: as long as the chunks are the source's, the batches
a thread has embedded are there (`BatchesThere`), all of them when it returns. The
target of an approval is not deleted between its row and its chunks
(`TargetIsThere`), by the lock. A settled source then stays: the profile of its
namespace changes only with a reindex (`ProfileStays`), which has read its chunks or
would dispute it (`WholeStays`), and no call begins to dispute it (`NobodyBegins`), as
`Allowed` and `Approvable` refuse another profile where there are active chunks.

Of searches it proves `SearchIsTrue` (`SearchesAreTrue`), for any chunks, lists of notes
and limits. `SearchInv` says why: a chunk that was deleted before the search began stays
dead, for its id is made once; whatever the search holds was live when it was read, or
was looked up again, but for what the vectors name; and an unanswered question has
no result with its terms, for of the places in the list that have them the first is
always shown (`FirstIsShown`, from the well-foundedness of the order), if it is no note,
and the console's results are none. Lists are sets of injective sequences here and what is
shown is a set of places, so that no induction over data is needed.

## 9. The runtime loop

`RuntimeLoop.tla` models one run of `RuntimeLoop.run`: its requests and tool calls,
its sessions after a session switch, compactions, repairs of final texts, failover
and ends. It extends `ProviderCall.tla` (the attempts of one call, a stop or a
deadline seen between them) and `Finalization.tla` (operators: how a final text is
judged against the tool results, and what the runtime says itself).

A text is what it shows and claims, a tool result the tool and its success; which
text or tool the model answers with is a free choice. Wording, the layout of the
chart report and the self-improvement recorder are left out.

| run | instance | what it asks |
|---|---|---|
| `runtime` | tool limit 2, 9 tools, 2 attempts per call, 3 profiles of which one cannot be built, 2 sessions | at most two calls begin after a stop; the run stays on one session; failover is exhausted before the run gives up; a result the runtime can put in words is told; an accepted claim is borne out |

What the code does besides: a stop before the first request leaves `run` by an
`UnboundLocalError` (*raised*, a finding); a failing reactive compaction leaves it
too; a repaired text that is neither accepted nor lacking evidence is delivered as
it is (a finding), and `AcceptedIsBorneOut` speaks of accepted texts only.

Proofs. `RuntimeLoopProofs.tla` proves the five invariants of the run and the types
for any tools, contracts, profiles, fallbacks, faults, sessions and limits. `IInv`
has five parts. `Shape` counts: each pass of the loop makes one request and leaves
one result at most (`Tally`), which bounds both, and makes the limit of tool rounds
meet a turn that has moved its conversation but not itself. `LateBound` says how
many calls can have been begun after the signal at each place of the turn: none
before a call is sent or while a tool is pending, one when the answer is thrown
away, two only after the compaction that a refusal asks for. `WorksOnOneSession` is
inductive with it. `Registered` says that the fallbacks of every profile tried are
candidates; when none is usable (`Exhausted`), the profiles tried or broken are
closed under fallback, and so hold all that can be reached from the first
(`Reachable` is the least closed set). `Ending` asks of the current outcome what
the requirements ask of an ended turn. The lemmas `Verdicts`, `RecoverNothing` and
`InferredClaims` say what the operators of `Finalization` promise; `EndsKeep`,
`ContinuesKeep`, `AtWorkKeeps` and `AfterResult` are the four forms of a step, and
each action is shown to be one of them. The only assumption beyond the types of the
constants is that no contract is the value that stands for its absence (`None` in
the code). That a turn ends is not
asked: its passes, requests and results are bounded by `TypeOK`, its steps are fair.

## 10. Self-improvement

`ReviewEvidence.tla` models what leaves a trigger: runs side by side record failures
of their tools and models, the successes after them and long episodes; it extends
`ReviewTriggers.tla`, the triggers' rows and the dispatcher: dispatches at the end
of runs, review subagents, their callbacks, the reconciliation by later dispatches,
failures of the store and restarts. `Learning.tla` models what becomes of the
candidates that reviews leave: skill candidates that several users edit, accept,
reject and promote to files, and lesson candidates that automations judge.

| run | instance | what it asks |
|---|---|---|
| `self_improve` | reviews: 2 triggers of 1 fingerprint, 2 tasks, 1 dispatcher, 1 fault, 1 restart. Evidence: 2 runs, 2 requests, a burst of 2 among the last 2. Skills: 2 users, 2 candidates of 1 slug, 3 texts. Lessons: 2 candidates of 1 topic, 2 processors; fair dispatches and callbacks | a burst is reviewed; a trigger is reviewed once; the end of a review settles its trigger; what was decided stands |

The bounds on faults and restarts are named constants; a failing store may cost one
repetition of a review, which `ReviewedOnce` counts. Fairness: threads go on and the
dispatcher's lock is handed to those who wait (strong fairness of `EnterCallback`);
nothing makes a run end. Left out: the limits of 20 and 100 rows, notifications, the
payload of a review, reviews of reviews.

Proofs. `ServiceProofs.tla` proves `DecisionsStand` for any users, candidates and
processors: whoever is about to write a skill's file has made its folder and is
alone with it, which two promotions that read the same row cannot both be; a lesson
takes over its topic whatever the processor's list said.

`ServiceProofs.tla` also proves `EachTriggerOnce` for any triggers, tasks, threads,
failures and restarts. The inductive invariant `ReviewInv` says that whoever works on
rows holds the dispatcher's lock (`ThreadKnows`), that what it has read of them still
holds (its list is inflight or pending, its trigger is open while proposals are
saved), that no two active rows are about the same and no two rows have one task
(`TriggersSound`), and it counts: a pending trigger has had at most as many reviews
as the store has failed, unless the next one has just been spawned and its row is not
written yet (`OneReview`); an inflight trigger's review has been saved at most as
often, unless its thread is about to settle it (`OneSaving`). The invariant is needed
because the promise alone says nothing of a trigger that is open: it is the row's
status and task together that keep a second thread away.

`BurstsAreReviewed` proves `BurstIsReviewed` for any runs and any window and burst of
at least one. Its invariant adds types and that the burst's row is one that is
there (an absent row can be taken by another trigger). The step that matters
is a failure of another request: it moves the window, and `OthersAreNotMore` shows
that the count does not grow by it (the places counted after it are among those
counted before).

## 11. Tools outside of the process

`McpClient.tla` models the session with an MCP server that is a child process: a
thread with an event loop, shared by all callers, closed by any caller that fails,
and ended by itself, unclosed, when its streams break (`Break`).
`OneOffCall.tla` models a server reached by HTTP, a session per call and, where an
event loop runs already, a thread per call. `BaziBridge.tla` models the calls of the
chart calculator within a run: the child process, its limits, the results and the
places that the run keeps.

| run | instance | what it asks |
|---|---|---|
| `tools` | 2 callers with 2 and 1 attempts, 2 sessions, one caller that may quit; one call over HTTP per stage; 3 requests of 1 place and none, 3 calls; fair threads | no session is lost; a place is resolved once; every call comes back and every closed session ends |

No caller is without stop and deadline (`Patient = {}`): one that is may hang, which
is a finding. A server that is down at the start is left out of the catalog and of
the model.

Proofs. `ServiceProofs.tla` proves `SessionHasOwner` for any callers, sessions and
attempts. The inductive part, `Owned`, asks more and of less: a session that was ever
started is the client's, or closed, or in the hands of a caller that is about to close
it. It does not mention the thread, so that no step of a thread can disturb it, and a
caller disturbs it only when it takes the session from the map, which makes it the
one that closes (`CallerMoves`). A caller in the middle of a request has a session
(`CallersSound`), which is what its next step closes.

It proves `PlaceResolvedOnce` for any requests, places and number of calls. `BridgeInv`
says when the key may be at the child: from the lookup to the end of a call, and only
for a place of which nothing is known. A result that is kept was written by a child that
is gone, so nothing changes it between decoding and keeping, and every result for which
the provider was asked with success makes its place known.

## 12. Evaluations and corpus releases

`Evals.tla` models evaluation jobs: their registry, the baseline, cases executed in
a child process or in the thread with every way they end, grading, storing and
comparing, failures of the store and a stop of the process. `CorpusRelease.tla`
models the publication of a corpus, cut short anywhere and repeated.

| run | instance | what it asks |
|---|---|---|
| `evals` | 2 jobs of 3 cases, the second disabled, 1 finished job kept, 1 stop; corpus: 2 sources, 4 publications; fair threads and deadlines | what other jobs read of a run is sound; what a release reports is searchable; every job ends |

Cases of different jobs share nothing but the store, so the second job starts when
the cases of the first are over and everything after overlaps. The suite has a
disabled case in the middle. It leaves no observation, and cases and observations are
paired by their order, so that every case from it on is graded with the observation
of the next enabled one (a finding). `FinishedRunIsWhole` says exactly that and no
more: there is one result from the observation of every enabled case, it is that of
the case at the observation's place (`Rank`, the case itself while no disabled one
comes before it), there is no other, and the status is that of the results. That a
case is graded from its own observation, for suites with disabled cases too, fails.
`ReleasedIsSearchable` asks for chunks and vectors and cannot ask for the new text
(a finding).

Proofs. `ServiceProofs.tla` proves `HistoryIsSound` for any jobs, requests, answers,
stops and suites. `EvalsInv` follows a job's thread. `Observes`: while cases are
executed, there are as many observations as enabled cases before the current one,
each enabled case has its observation at its `Rank` and each observation is of such
a case, so that a child that hangs, dies or answers late shifts nothing. `Ranks`
says how the place grows from case to case. `Stores`: the results stored so far are the graded ones before the
current case, all of them when the run is finished, and a run that is over is whole
(`Whole`) and stays so, as its job never comes back to it. `Untouched`: a job that
was not asked for has stored nothing. `BaselinesPassed` and `Based`: what is named or
compared with has passed, from the moment it was resolved, since a run that has
passed never changes. Before the theorem was tried, `EvalsInv` and the `ClientInv`
of section 11 were model-checked on the instances of their runs.

`ServiceProofs.tla` also proves `ReleasedIsSearchable` for any number of sources and
publications. `Progress` is what a publication leaves behind it: sources before the
one it is at are finished, the one it is at has its row and, when it is to be embedded,
chunks. A plan may be old, but the rows it calls unchanged were written by a publication
and stay; vectors are dropped between publications only.

## 13. Findings

Each entry of "findings" in `PROJECT.json` quotes the document or test the code
disagrees with and the line of the code. The models do what the code does; where a
property would fail because of it, the property or the instance says what is left
out, and the sections above name it.

## 14. What is proved and what is only model-checked

The theorems listed in `PROJECT.json` hold for every value of the constants under
the assumptions the modules name. Each rests on an inductive invariant described in
its section. Besides properties that runs check, the proofs state some that no run
repeats: `CapacityRespected`, `WaitsForParentTurn`, `CancelledInQueueNeverRuns`,
`StartedExactlyOnce`, `CallEndsTask`, `ParentToldFirst`, `OneActivePerLane`,
`HeadIsAwake`, `WaiterIsReachable`, `ImplementsFifoLock`, `RunningIsWorkedOn`,
`OneBindingPerSession`, `BoundSessionExists`, `ParentExists` and the type invariants.

Only model-checked: liveness under fairness (`EveryTaskEnds`, `ImplementsFairLock`,
`EveryMessageEnds`, `ServiceGoesOn`, `JobEndsUnlessWorkerDied`, `EndSettlesTrigger`,
`EverythingEnds`, `NothingHangs`, `JobEnds`), which the provers here cannot reach.
Every invariant and every safety property of steps that a run checks is stated by a
theorem.

## 15. Not modelled

`PROJECT.json` lists every component with the reason. Prompt building, rendering and
provider adapters compute text and keep no state; what the loop decides from their
answers is a free choice in `Finalization` and `ProviderCall`. Run history is a
record in memory with one writer per run. Configuration is read once at startup,
skills at startup and after a promotion. The builtin tools and their registry are
thin adapters to the services. The Langfuse exporter is pure output. Graders,
reports and the scripted client of the evaluations are functions of observations or
test doubles. Pages, routes and serialisation turn what the services return into
HTML and JSON. Tool profiles of subagents and the repository context are functions
of configuration.
