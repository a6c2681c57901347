------------------------ MODULE SubagentRequirements ------------------------
(****************************************************************************)
(* What the subagent service must do, as formulas over the state machine of *)
(* module Subagents.                                                        *)
(****************************************************************************)
EXTENDS Subagents

Statuses   == {"absent", "queued", "running"} \cup Terminal
SupPlaces  == {"none", "check", "reserve", "mark", "set", "fork", "join", "late",
               "expire", "revoke", "post", "markTimedOut", "setTimedOut", "report", "release",
               "next", "done"}
WrkPlaces  == {"none", "start", "run", "winCheck", "winPost", "winMark", "winSet", "winPay",
               "winReport", "failCheck", "failMark", "failSet", "failPay", "failPost",
               "failReport", "except", "finish", "next", "done"}
CallPlaces == {"idle", "check", "look", "signal", "revoke", "mark", "set", "post",
               "report", "release", "next", "done", "cleared"}

\* Every variable of the service keeps its type.
TypeOK ==
    /\ status \in [Tasks -> Statuses]
    /\ started \subseteq Tasks
    /\ payload \in [Tasks -> {"none", "result", "error"}]
    /\ posted \in [Tasks -> SUBSET Terminal]
    /\ reported \subseteq Tasks
    /\ running \subseteq Tasks /\ background \subseteq Tasks /\ executing \subseteq Tasks
    /\ tokens \subseteq Tasks /\ controls \subseteq Tasks /\ pending \subseteq Tasks
    /\ stopped \subseteq Tasks
    /\ decided \in [Tasks -> {"no", "go", "recheck"} \cup Callers]
    /\ sup \in [Tasks -> SupPlaces] /\ supWas \in [Tasks -> BOOLEAN]
    /\ wrk \in [Tasks -> WrkPlaces] /\ deaf \subseteq Tasks
    /\ at \in [Callers -> CallPlaces] /\ todo \in [Callers -> SUBSET Tasks]
    /\ callerWas \in [Callers -> BOOLEAN] /\ called \subseteq Tasks
    /\ faults \in 0..MaxFaults

WorkerAlive(t)  == wrk[t] \notin {"none", "done"}
CancelledBy(c, t) == at[c] \notin {"idle", "done", "cleared"} /\ todo[c] # {} /\ Victim(c) = t

\* Some thread has looked at the task's status and is about to assign another.
Marking(t) == \/ sup[t] \in {"set", "setTimedOut"}
              \/ wrk[t] \in {"winSet", "failSet"}
              \/ \E c \in Callers : at[c] = "set" /\ Victim(c) = t
Settled(t) == status[t] \in Terminal /\ ~Marking(t)
SomeoneSeeks    == \/ \E t \in Tasks : sup[t] = "next" \/ wrk[t] = "next"
                   \/ \E c \in Callers : at[c] = "next"

\* The reservations made in spawn, in the release, in the start of the next task
\* and in run_task_by_id never exceed max_concurrent_subagents together.
CapacityRespected == Cardinality(running) <= MaxConcurrent

\* Success, failure, timeout, cancellation and the start itself race for a task's
\* status.  Those that have looked at it before the first outcome was assigned may
\* still overwrite that; once none of them is left, the outcome stands for good,
\* and no thread that comes later gets as far as the assignment.
SettledOutcomeStands ==
    [][\A t \in Tasks : Settled(t) => status'[t] = status[t] /\ ~Marking(t)']_vars

\* A task cancelled before it was marked running never gets a worker, however
\* far the thread that was to start it has come: only one that has found the task
\* queued before the cancellation was assigned starts it all the same.
CancelledInQueueNeverRuns ==
    [][\A t \in Tasks : Settled(t) /\ t \notin started
                        => t \notin started' /\ wrk'[t] = "none"]_vars

\* A child's thread does not start before its parent's turn has ended.
WaitsForParentTurn == \A t \in pending : status[t] = "queued" => sup[t] = "none"

\* Four places decide to start a task's thread; none starts a second one, and a
\* start decided for a queued task is not dropped by the guard against that.
StartedExactlyOnce ==
    [][\A t \in Tasks :
          /\ sup[t] # sup'[t] /\ sup'[t] = "check" => sup[t] = "none"
          /\ decided[t] # "no" /\ decided'[t] = "no" /\ status[t] = "queued"
                => sup'[t] = "check"]_vars

\* A slot is held for a task that waits for its start, for a thread at work on
\* it or for a call that is cancelling it; otherwise it is lost for good.  The
\* only tasks that lose one are cancelled before they were marked running.
SlotHasOwner ==
    ~Cleared => \A t \in running :
        \/ (status[t] = "queued" /\ (t \in pending \/ decided[t] # "no"))
        \/ sup[t] \notin {"none", "join", "done"}
        \/ WorkerAlive(t)
        \/ \E c \in Callers : CancelledBy(c, t)
        \/ (status[t] = "cancelled" /\ t \notin started)

\* A task whose parent turn has ended waits only while every slot is taken, or
\* while some thread is on its way to choose the next task.
WaitsOnlyForRoom == (~Cleared /\ Startable # {}) => (Full \/ SomeoneSeeks)

\* The parent session hears of a success or of a timeout before the status says
\* so, and a failure is not made a success by the message that could not be sent.
ParentToldFirst ==
    \A t \in Tasks \ Silent :
        status[t] \in {"succeeded", "timed_out"} => status[t] \in posted[t]

\* While the child runs its slot is taken, whatever its timeout does: no more than
\* max_concurrent_subagents children run.  Only a call that set out to end the task
\* can have given the slot away under the child, by what it read before the start.
RunHoldsSlot ==
    ~Cleared => \A t \in Tasks : wrk[t] \in {"start", "run"} => t \in running \cup called

\* cancel_task returns, and shutdown passes on to its next task, only when the
\* task at hand is settled or about to be, if the call has seen it run; a task it
\* has seen in the queue has left the queue, though it may have been started over
\* the cancellation.
CallEndsTask ==
    [][\A c \in Callers : \A t \in todo[c] \ todo'[c] :
          /\ status'[t] \in {"running"} \cup Terminal
          /\ callerWas[c] => status'[t] \in Terminal]_vars

\* Every accepted task ends, and the outcome that stands reaches the parent
\* session and the terminal callback, though other outcomes may have been
\* announced too.
EveryTaskEnds ==
    \A t \in Tasks : status[t] = "queued"
        ~> /\ status[t] \in Terminal /\ t \in reported
           /\ t \in Silent \/ status[t] \in posted[t]
=============================================================================
