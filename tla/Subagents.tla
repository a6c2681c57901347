------------------------------ MODULE Subagents ------------------------------
(****************************************************************************)
(* SubagentService: a parent turn spawns child tasks; a bounded number of   *)
(* slots, one supervisor thread and one worker thread per started task, any *)
(* number of threads that cancel, and the service's shutdown.               *)
(*                                                                          *)
(* A section under the service's lock is one action.  The task store has no *)
(* lock: each read of a status and each change of one is an action of its   *)
(* own, so what one thread read may be stale when it acts on it.            *)
(*                                                                          *)
(* A task is the rank of its creation, so < is the order of the store's     *)
(* dict.  The service runs as the product configures it: with a runtime     *)
(* loop, background starts on, and a positive timeout.                      *)
(****************************************************************************)
EXTENDS Naturals, FiniteSets

CONSTANTS NumTasks,       \* bound on the tasks ever spawned
          MaxConcurrent,  \* max_concurrent_subagents
          MaxQueued,      \* max_queued_subagents
          Silent,         \* tasks spawned with include_parent_session_message=False
          Cancellers,     \* threads that call cancel_task, once each
          Closers,        \* threads that call shutdown, once each
          MaxFaults       \* bound on the calls to the session store or the
                          \* channel that raise

ASSUME BoundsAssumption == /\ NumTasks \in Nat
                           /\ MaxConcurrent \in Nat \ {0}
                           /\ MaxQueued \in Nat
                           /\ MaxFaults \in Nat
ASSUME NamesAssumption == /\ Cancellers \cap Closers = {}
                          /\ (Cancellers \cup Closers) \cap {"no", "go", "recheck"} = {}
ASSUME ThreadsAssumption == IsFiniteSet(Cancellers) /\ IsFiniteSet(Closers)

Tasks    == 1..NumTasks
Callers  == Cancellers \cup Closers
Terminal == {"succeeded", "failed", "cancelled", "timed_out"}

VARIABLES
    status, started, payload,  \* the task store: status, started_at, and which
                               \* of result_summary / error_text is set
    posted, reported,          \* parent-session messages; terminal callbacks
    running,                   \* _running_tasks: the slots
    background, executing,     \* _background_tasks, _execution_threads
    tokens, controls,          \* _execution_tokens, _execution_controls
    pending,                   \* _pending_background_starts
    stopped,                   \* tasks whose stop event is set
    decided,                   \* who is to start the thread of a task it chose
                               \* under the lock: "recheck" the release of a
                               \* parent turn, "go" a service thread, or a caller
    sup, supWas,               \* supervisors (run_task_by_id): place, was_running
    wrk, deaf,                 \* workers (_execute_task): place; those that found
                               \* no control, hence no stop event
    at, todo, callerWas,       \* callers: place, tasks left, was_running
    called,                    \* history: the tasks a call set out to end
    faults                     \* failures so far

taskVars   == <<status, started, payload>>
parentVars == <<posted, reported>>
dictVars   == <<background, executing, tokens, controls, pending>>
slotVars   == <<running, decided>>
serviceVars == <<dictVars, slotVars, stopped>>
supVars    == <<sup, supWas>>
wrkVars    == <<wrk, deaf>>
callerVars == <<at, todo, callerWas, called>>
vars == <<taskVars, parentVars, serviceVars, supVars, wrkVars, callerVars, faults>>

\* What a thread leaves alone when it only moves on.
supOnly    == <<taskVars, parentVars, serviceVars, supWas, wrkVars, callerVars, faults>>
wrkOnly    == <<taskVars, parentVars, serviceVars, supVars, deaf, callerVars, faults>>
callerOnly == <<taskVars, parentVars, serviceVars, supVars, wrkVars, callerWas, called,
                faults>>

-----------------------------------------------------------------------------
Queued      == {t \in Tasks : status[t] = "queued"}
Outstanding == {t \in Tasks : status[t] \in {"queued", "running"}}
Earliest(S) == CHOOSE t \in S : \A u \in S : t <= u
Full        == Cardinality(running) >= MaxConcurrent

\* Mutant: the last outcome wins.
MarkTerminalAgain(t, set, past) == set

\* _mark_terminal looks at the status, and only then assigns it: the place a thread
\* goes to, to assign its outcome or past that when another one is there.
MarkTerminal(t, set, past) == IF status[t] \in Terminal THEN past ELSE set

\* The assignment, whatever has been assigned since the look.
Assign(t, s) == status' = [status EXCEPT ![t] = s]

\* append_message to the parent session, where the task wants it.
Post(t, kind) ==
    posted' = IF t \in Silent THEN posted
              ELSE [posted EXCEPT ![t] = @ \cup {kind}]

\* The session store or the channel raises.
Fault == faults < MaxFaults /\ faults' = faults + 1

\* The locked section of _release_task_slot.
ReleaseSlot(t) ==
    /\ running'    = running \ {t}
    /\ background' = background \ {t}
    /\ executing'  = executing \ {t}
    /\ tokens'     = tokens \ {t}
    /\ controls'   = controls \ {t}
    /\ pending'    = pending \ {t}

RoomAfterRelease == Cardinality(running') < MaxConcurrent

\* The locked section of _start_next_queued_background_task.
Startable == (Queued \ running) \ pending
StartNext(who) ==
    IF Full \/ Startable = {}
    THEN UNCHANGED slotVars
    ELSE /\ running' = running \cup {Earliest(Startable)}
         /\ decided' = [decided EXCEPT ![Earliest(Startable)] = who]

-----------------------------------------------------------------------------
Init ==
    /\ status = [t \in Tasks |-> "absent"] /\ started = {}
    /\ payload = [t \in Tasks |-> "none"]
    /\ posted = [t \in Tasks |-> {}] /\ reported = {}
    /\ running = {} /\ background = {} /\ executing = {}
    /\ tokens = {} /\ controls = {} /\ pending = {} /\ stopped = {}
    /\ decided = [t \in Tasks |-> "no"]
    /\ sup = [t \in Tasks |-> "none"] /\ supWas = [t \in Tasks |-> FALSE]
    /\ wrk = [t \in Tasks |-> "none"] /\ deaf = {}
    /\ at = [c \in Callers |-> "idle"] /\ todo = [c \in Callers |-> {}]
    /\ callerWas = [c \in Callers |-> FALSE] /\ called = {}
    /\ faults = 0

\* spawn, in a parent turn: refused when the queue is full; otherwise the start
\* waits for the turn's end, and a free slot is reserved at once.
Spawn(t) ==
    /\ status[t] = "absent" /\ \A u \in Tasks : u < t => status[u] # "absent"
    /\ Cardinality(Queued) < MaxQueued
    /\ status'  = [status EXCEPT ![t] = "queued"]
    /\ pending' = pending \cup {t}
    /\ running' = IF Full THEN running ELSE running \cup {t}
    /\ UNCHANGED <<started, payload, parentVars, background, executing, tokens,
                   controls, decided, supVars, wrkVars, callerVars, stopped, faults>>

\* release_deferred_background_starts, locked section: every pending start of
\* every parent is taken; those with a slot start, the others get the slots that
\* are free, in order of creation.
ReleaseDeferred ==
    LET ready   == pending \cap Queued
        waiting == ready \ running
    IN  /\ pending # {}
        /\ pending' = {}
        /\ \E admitted \in SUBSET waiting :
              /\ \A t \in admitted, u \in waiting \ admitted : t < u
              /\ admitted # {} => Cardinality(running \cup admitted) <= MaxConcurrent
              /\ (admitted = waiting \/ Cardinality(running \cup admitted) >= MaxConcurrent)
              /\ running' = running \cup admitted
              /\ decided' = [t \in Tasks |-> IF t \in (ready \cap running) \cup admitted
                                             THEN "recheck" ELSE decided[t]]
        /\ UNCHANGED <<taskVars, parentVars, background, executing, tokens, controls,
                   supVars, wrkVars, callerVars, stopped, faults>>

\* The start decided under the lock, outside it: only the release looks at the
\* status again, and _start_background_task starts no second thread.
Launch(t) ==
    /\ decided[t] # "no"
    /\ decided' = [decided EXCEPT ![t] = "no"]
    /\ IF \/ (decided[t] = "recheck" /\ status[t] # "queued")
          \/ t \in background \cup executing
       THEN UNCHANGED <<background, sup>>
       ELSE background' = background \cup {t} /\ sup' = [sup EXCEPT ![t] = "check"]
    /\ UNCHANGED <<taskVars, parentVars, executing, tokens, controls, pending,
                   running, supWas, wrkVars, callerVars, stopped, faults>>

-----------------------------------------------------------------------------
(* The supervisor of a task: run_task_by_id, then complete_task_timeout.    *)

Sup(t, from, to) == sup[t] = from /\ sup' = [sup EXCEPT ![t] = to]

SupCheck(t) ==
    /\ Sup(t, "check", IF status[t] = "queued" THEN "reserve" ELSE "done")
    /\ UNCHANGED supOnly

SupRefused(t) ==
    /\ Sup(t, "reserve", "done")
    /\ (t \in executing \/ (t \notin running /\ Full))
    /\ UNCHANGED supOnly

SupReserve(t) ==
    /\ Sup(t, "reserve", "mark")
    /\ t \notin executing /\ (t \in running \/ ~Full)
    /\ running'  = running \cup {t}
    /\ tokens'   = tokens \cup {t}
    /\ controls' = controls \cup {t}
    /\ UNCHANGED <<taskVars, parentVars, background, executing, pending, decided,
                   supWas, wrkVars, callerVars, stopped, faults>>

\* mark_running: the look, then the assignment.
SupMark(t) ==
    /\ status[t] = "queued"
    /\ Sup(t, "mark", "set")
    /\ UNCHANGED supOnly

SupSet(t) ==
    /\ Sup(t, "set", "fork")
    /\ Assign(t, "running")
    /\ started' = started \cup {t}
    /\ UNCHANGED <<payload, parentVars, serviceVars, supWas, wrkVars, callerVars,
                   faults>>

\* mark_running raises: the thread dies with what it took under the lock.
SupMarkRaises(t) ==
    /\ status[t] # "queued"
    /\ Sup(t, "mark", "done")
    /\ UNCHANGED supOnly

SupFork(t) ==
    /\ Sup(t, "fork", "join")
    /\ executing' = executing \cup {t}
    /\ wrk' = [wrk EXCEPT ![t] = "start"]
    /\ UNCHANGED <<taskVars, parentVars, background, tokens, controls, pending,
                   slotVars, supWas, deaf, callerVars, stopped, faults>>

\* join returns: the worker has ended, or the timeout has passed and it has not.
SupJoin(t) ==
    /\ Sup(t, "join", IF wrk[t] = "done" THEN "done" ELSE "late")
    /\ UNCHANGED supOnly

SupLate(t) ==
    /\ Sup(t, "late", IF status[t] = "running" /\ t \in tokens THEN "expire" ELSE "done")
    /\ UNCHANGED supOnly

\* was_running reads the live record again; then _signal_stop.
SupExpire(t) ==
    /\ Sup(t, "expire", "revoke")
    /\ supWas'  = [supWas EXCEPT ![t] = (status[t] = "running")]
    /\ stopped' = stopped \cup ({t} \cap controls)
    /\ UNCHANGED <<taskVars, parentVars, dictVars, slotVars, wrkVars, callerVars,
                   faults>>

SupRevoke(t) ==
    /\ Sup(t, "revoke", "post")
    /\ tokens' = tokens \ {t}
    /\ UNCHANGED <<taskVars, parentVars, background, executing, controls, pending,
                   slotVars, supWas, wrkVars, callerVars, stopped, faults>>

SupPost(t) ==
    /\ Sup(t, "post", "markTimedOut")
    /\ Post(t, "timed_out")
    /\ UNCHANGED <<taskVars, reported, serviceVars, supWas, wrkVars, callerVars,
                   faults>>

SupMarkTimedOut(t) ==
    /\ Sup(t, "markTimedOut", MarkTerminal(t, "setTimedOut", "report"))
    /\ UNCHANGED supOnly

SupSetTimedOut(t) ==
    /\ Sup(t, "setTimedOut", "report")
    /\ Assign(t, "timed_out")
    /\ UNCHANGED <<started, payload, parentVars, serviceVars, supWas, wrkVars,
                   callerVars, faults>>

\* Mutant: a timeout gives the slot back at once.
SupReportReleases(t) ==
    /\ Sup(t, "report", "release")
    /\ reported' = reported \cup {t}
    /\ supWas' = [supWas EXCEPT ![t] = FALSE]
    /\ UNCHANGED <<taskVars, posted, serviceVars, wrkVars, callerVars, faults>>

\* The outcome summary, the channel notification, the terminal callback; with
\* it was_running is forgotten.
SupReport(t) ==
    /\ Sup(t, "report", IF supWas[t] THEN "done" ELSE "release")
    /\ reported' = reported \cup {t}
    /\ supWas' = [supWas EXCEPT ![t] = FALSE]
    /\ UNCHANGED <<taskVars, posted, serviceVars, wrkVars, callerVars, faults>>

\* The message, the summary or the notification raises out of the thread.
SupFault(t) ==
    /\ t \notin Silent
    /\ sup[t] \in {"post", "report"} /\ sup' = [sup EXCEPT ![t] = "done"]
    /\ Fault
    /\ UNCHANGED <<taskVars, parentVars, serviceVars, supWas, wrkVars, callerVars>>

SupRelease(t) ==
    /\ ReleaseSlot(t)
    /\ Sup(t, "release", IF RoomAfterRelease THEN "next" ELSE "done")
    /\ UNCHANGED <<taskVars, parentVars, decided, supWas, wrkVars, callerVars,
                   stopped, faults>>

SupNext(t) ==
    /\ Sup(t, "next", "done")
    /\ StartNext("go")
    /\ UNCHANGED <<taskVars, parentVars, dictVars, supWas, wrkVars, callerVars,
                   stopped, faults>>

SupStep(t) ==
    \/ SupCheck(t) \/ SupRefused(t) \/ SupReserve(t) \/ SupMark(t) \/ SupMarkRaises(t)
    \/ SupSet(t) \/ SupFork(t) \/ SupJoin(t) \/ SupLate(t) \/ SupExpire(t)
    \/ SupRevoke(t) \/ SupPost(t) \/ SupMarkTimedOut(t) \/ SupSetTimedOut(t) \/ SupReport(t)
    \/ SupFault(t) \/ SupRelease(t) \/ SupNext(t)

-----------------------------------------------------------------------------
(* The worker of a task: _execute_task, then complete_task_success or       *)
(* complete_task_failure, and _release_task_slot in the end.                *)

Wrk(t, from, to) == wrk[t] = from /\ wrk' = [wrk EXCEPT ![t] = to]

\* The control is read without the lock: it may be gone already.
WrkStart(t) ==
    /\ Wrk(t, "start", "run")
    /\ deaf' = deaf \cup ({t} \ controls)
    /\ UNCHANGED <<taskVars, parentVars, serviceVars, supVars, callerVars, faults>>

\* The run ends with a final event, or with an error, no event or an exception
\* (of the run itself or of the bookkeeping after it); its outcome counts only
\* while the execution is current.
WrkRunEnds(t) ==
    /\ \E outcome \in {"winCheck", "failCheck"} :
          Wrk(t, "run", IF t \in tokens THEN outcome ELSE "finish")
    /\ UNCHANGED wrkOnly

WrkWinCheck(t) ==
    /\ Wrk(t, "winCheck", IF status[t] = "running" THEN "winPost" ELSE "finish")
    /\ UNCHANGED wrkOnly

WrkWinPost(t) ==
    /\ Wrk(t, "winPost", "winMark")
    /\ Post(t, "succeeded")
    /\ UNCHANGED <<taskVars, reported, serviceVars, supVars, deaf, callerVars, faults>>

WrkWinMark(t) ==
    /\ Wrk(t, "winMark", MarkTerminal(t, "winSet", "winPay"))
    /\ UNCHANGED wrkOnly

WrkWinSet(t) ==
    /\ Wrk(t, "winSet", "winPay")
    /\ Assign(t, "succeeded")
    /\ UNCHANGED <<started, payload, parentVars, serviceVars, supVars, deaf, callerVars,
                   faults>>

\* set_terminal_payload, whatever the mark found: the task has ended by then.
WrkPay(t) ==
    /\ \/ Wrk(t, "winPay", "winReport") /\ payload' = [payload EXCEPT ![t] = "result"]
       \/ Wrk(t, "failPay", "failPost") /\ payload' = [payload EXCEPT ![t] = "error"]
    /\ UNCHANGED <<status, started, parentVars, serviceVars, supVars, deaf, callerVars,
                   faults>>

WrkFailCheck(t) ==
    /\ Wrk(t, "failCheck", IF status[t] = "running" THEN "failMark" ELSE "finish")
    /\ UNCHANGED wrkOnly

WrkFailMark(t) ==
    /\ Wrk(t, "failMark", MarkTerminal(t, "failSet", "failPay"))
    /\ UNCHANGED wrkOnly

WrkFailSet(t) ==
    /\ Wrk(t, "failSet", "failPay")
    /\ Assign(t, "failed")
    /\ UNCHANGED <<started, payload, parentVars, serviceVars, supVars, deaf, callerVars,
                   faults>>

WrkFailPost(t) ==
    /\ Wrk(t, "failPost", "failReport")
    /\ Post(t, "failed")
    /\ UNCHANGED <<taskVars, reported, serviceVars, supVars, deaf, callerVars, faults>>

\* The notification and the terminal callback, of either outcome.
WrkReport(t) ==
    /\ (Wrk(t, "winReport", "finish") \/ Wrk(t, "failReport", "finish"))
    /\ reported' = reported \cup {t}
    /\ UNCHANGED <<taskVars, posted, serviceVars, supVars, deaf, callerVars, faults>>

\* A message, a summary or a notification raises into the except clause.
WrkFault(t) ==
    /\ t \notin Silent
    /\ wrk[t] \in {"winPost", "winReport", "failPost", "failReport"}
    /\ wrk' = [wrk EXCEPT ![t] = "except"]
    /\ Fault
    /\ UNCHANGED <<taskVars, parentVars, serviceVars, supVars, deaf, callerVars>>

\* Raising again from the failure it reports leads to the same end: the task is
\* terminal then, so a second failCheck only goes to finish.
WrkExcept(t) ==
    /\ Wrk(t, "except", IF t \in tokens THEN "failCheck" ELSE "finish")
    /\ UNCHANGED wrkOnly

\* Mutant: only the current execution releases its slot.
WrkFinishCurrent(t) ==
    /\ IF t \in tokens THEN ReleaseSlot(t) ELSE UNCHANGED <<dictVars, running>>
    /\ Wrk(t, "finish", IF RoomAfterRelease THEN "next" ELSE "done")
    /\ stopped' = stopped \ {t} /\ deaf' = deaf \ {t}
    /\ UNCHANGED <<taskVars, parentVars, decided, supVars, callerVars, faults>>

\* Mutant: nobody looks for the next task.
WrkFinishAlone(t) ==
    /\ ReleaseSlot(t)
    /\ Wrk(t, "finish", "done")
    /\ stopped' = stopped \ {t} /\ deaf' = deaf \ {t}
    /\ UNCHANGED <<taskVars, parentVars, decided, supVars, callerVars, faults>>

\* The stop event is forgotten with the last thread that looks at it.
WrkFinish(t) ==
    /\ ReleaseSlot(t)
    /\ Wrk(t, "finish", IF RoomAfterRelease THEN "next" ELSE "done")
    /\ stopped' = stopped \ {t} /\ deaf' = deaf \ {t}
    /\ UNCHANGED <<taskVars, parentVars, decided, supVars, callerVars, faults>>

WrkNext(t) ==
    /\ Wrk(t, "next", "done")
    /\ StartNext("go")
    /\ UNCHANGED <<taskVars, parentVars, dictVars, supVars, deaf, callerVars,
                   stopped, faults>>

WrkStep(t) ==
    \/ WrkStart(t) \/ WrkRunEnds(t) \/ WrkWinCheck(t) \/ WrkWinPost(t) \/ WrkWinMark(t)
    \/ WrkWinSet(t) \/ WrkPay(t) \/ WrkFailCheck(t) \/ WrkFailMark(t) \/ WrkFailSet(t)
    \/ WrkFailPost(t) \/ WrkReport(t)
    \/ WrkFault(t) \/ WrkExcept(t) \/ WrkFinish(t) \/ WrkNext(t)

-----------------------------------------------------------------------------
(* Callers: cancel_task on one task, or shutdown, which calls it on every   *)
(* outstanding task in turn and then clears the service.                    *)

Call(c, from, to) == at[c] = from /\ at' = [at EXCEPT ![c] = to]
Victim(c)         == Earliest(todo[c])
Dismiss(c)        == todo' = [todo EXCEPT ![c] = @ \ {Victim(c)}]

CancelBegin(c) ==
    /\ c \in Cancellers
    /\ Call(c, "idle", "check")
    /\ \E t \in Tasks : status[t] # "absent" /\ todo' = [todo EXCEPT ![c] = {t}]
    /\ UNCHANGED callerOnly

ShutdownBegin(c) ==
    /\ c \in Closers
    /\ Call(c, "idle", "check")
    /\ todo' = [todo EXCEPT ![c] = Outstanding]
    /\ UNCHANGED callerOnly

\* A task already terminal is left alone.
CallerSkip(c) ==
    /\ todo[c] # {} /\ status[Victim(c)] \in Terminal
    /\ Call(c, "check", "check")
    /\ Dismiss(c)
    /\ UNCHANGED callerOnly

\* The next task, once the start the last one led to is made.
CallerCheck(c) ==
    /\ todo[c] # {} /\ status[Victim(c)] \notin Terminal
    /\ \A t \in Tasks : decided[t] # c
    /\ Call(c, "check", "look")
    /\ called' = called \cup {Victim(c)}
    /\ UNCHANGED <<taskVars, parentVars, serviceVars, supVars, wrkVars, todo, callerWas,
                   faults>>

\* was_running reads the live record again.
CallerLook(c) ==
    /\ Call(c, "look", "signal")
    /\ callerWas' = [callerWas EXCEPT ![c] = (status[Victim(c)] = "running")]
    /\ UNCHANGED <<taskVars, parentVars, serviceVars, supVars, wrkVars, todo, called,
                   faults>>

CallerSignal(c) ==
    /\ Call(c, "signal", "revoke")
    /\ stopped' = stopped \cup ({Victim(c)} \cap controls)
    /\ UNCHANGED <<taskVars, parentVars, dictVars, slotVars, supVars, wrkVars, todo,
                   callerWas, called, faults>>

CallerRevoke(c) ==
    /\ Call(c, "revoke", "mark")
    /\ tokens' = tokens \ {Victim(c)}
    /\ UNCHANGED <<taskVars, parentVars, background, executing, controls, pending,
                   slotVars, supVars, wrkVars, todo, callerWas, called, stopped, faults>>

CallerMark(c) ==
    /\ Call(c, "mark", MarkTerminal(Victim(c), "set", "post"))
    /\ UNCHANGED <<callerOnly, todo>>

CallerSet(c) ==
    /\ Call(c, "set", "post")
    /\ Assign(Victim(c), "cancelled")
    /\ UNCHANGED <<started, payload, parentVars, serviceVars, supVars, wrkVars, todo,
                   callerWas, called, faults>>

\* The outcome summary and the message.
CallerPost(c) ==
    /\ Call(c, "post", "report")
    /\ Post(Victim(c), "cancelled")
    /\ UNCHANGED <<taskVars, reported, serviceVars, supVars, wrkVars, todo,
                   callerWas, called, faults>>

\* The notification and the terminal callback; a task that was running keeps its
\* slot for its worker to release.
CallerReport(c) ==
    /\ Call(c, "report", IF callerWas[c] THEN "check" ELSE "release")
    /\ reported' = reported \cup {Victim(c)}
    /\ IF callerWas[c] THEN Dismiss(c) ELSE UNCHANGED todo
    /\ callerWas' = [callerWas EXCEPT ![c] = FALSE]
    /\ UNCHANGED <<taskVars, posted, serviceVars, supVars, wrkVars, called, faults>>

\* A message, a summary or a notification raises out of cancel_task, and out of
\* shutdown.
CallerFault(c) ==
    /\ at[c] \in {"post", "report"} /\ at' = [at EXCEPT ![c] = "done"]
    /\ Victim(c) \notin Silent
    /\ Fault
    /\ UNCHANGED <<taskVars, parentVars, serviceVars, supVars, wrkVars, todo,
                   callerWas, called>>

CallerRelease(c) ==
    /\ at[c] = "release"
    /\ ReleaseSlot(Victim(c))
    /\ Call(c, "release", IF RoomAfterRelease THEN "next" ELSE "check")
    /\ IF RoomAfterRelease THEN UNCHANGED todo ELSE Dismiss(c)
    /\ UNCHANGED <<taskVars, parentVars, decided, supVars, wrkVars, callerWas,
                   called, stopped, faults>>

CallerNext(c) ==
    /\ Call(c, "next", "check")
    /\ StartNext(c)
    /\ Dismiss(c)
    /\ UNCHANGED <<taskVars, parentVars, dictVars, supVars, wrkVars, callerWas,
                   called, stopped, faults>>

CancelReturns(c) ==
    /\ c \in Cancellers
    /\ todo[c] = {} /\ \A t \in Tasks : decided[t] # c
    /\ Call(c, "check", "done")
    /\ UNCHANGED <<callerOnly, todo>>

\* After joining each thread for at most a second.
ShutdownClears(c) ==
    /\ c \in Closers
    /\ todo[c] = {} /\ \A t \in Tasks : decided[t] # c
    /\ Call(c, "check", "cleared")
    /\ running' = {} /\ background' = {} /\ executing' = {}
    /\ tokens' = {} /\ controls' = {} /\ pending' = {}
    /\ UNCHANGED <<taskVars, parentVars, decided, supVars, wrkVars, todo, callerWas,
                   called, stopped, faults>>

CallerStep(c) ==
    \/ CallerSkip(c) \/ CallerCheck(c) \/ CallerLook(c) \/ CallerSignal(c)
    \/ CallerRevoke(c) \/ CallerMark(c) \/ CallerSet(c) \/ CallerPost(c)
    \/ CallerReport(c) \/ CallerFault(c) \/ CallerRelease(c) \/ CallerNext(c)
    \/ CancelReturns(c) \/ ShutdownClears(c)

-----------------------------------------------------------------------------
\* The shutdown is over; the process ends, and with it every thread left.
Cleared == \E c \in Callers : at[c] = "cleared"

Next ==
    /\ ~Cleared
    /\ \/ \E t \in Tasks : Spawn(t) \/ Launch(t) \/ SupStep(t) \/ WrkStep(t)
       \/ ReleaseDeferred
       \/ \E c \in Callers : CancelBegin(c) \/ ShutdownBegin(c) \/ CallerStep(c)

Spec == Init /\ [][Next]_vars

(* Every thread that can take a step takes one in the end: a worker's run   *)
(* ends, because each model request has a timeout; a supervisor's join      *)
(* returns.  Some later turn of some parent ends and releases the starts    *)
(* that wait.  Nothing makes anyone spawn, cancel or shut down.             *)
Fairness ==
    /\ \A t \in Tasks : WF_vars(Launch(t)) /\ WF_vars(SupStep(t)) /\ WF_vars(WrkStep(t))
    /\ WF_vars(ReleaseDeferred)
    /\ \A c \in Callers : WF_vars(CallerStep(c))

FairSpec == Spec /\ Fairness
=============================================================================
