--------------------------- MODULE CompactionJobs ---------------------------
(* The compaction of sessions in the background: a turn that leaves its     *)
(* session queues a job (session/transition.py); the worker thread claims   *)
(* jobs, summarises what the session was when the job was queued, and       *)
(* writes the summary unless a newer one is there                           *)
(* (session/compaction_worker.py). Turns, deletions by the command line and *)
(* restarts go on meanwhile.                                                *)
(*                                                                          *)
(* A history is the sequence of its user turns, an answer being part of its *)
(* turn; a summary is the number of turns it stands for. That the turns of  *)
(* a session follow one another is the work of its lane; that a mutator     *)
(* writes back a whole record is the subject of module SessionStore.        *)
EXTENDS Naturals, Sequences

CONSTANTS Sessions,
          NumJobs,      \* jobs that may be queued
          Keep,         \* preserved_tail_user_turns
          MaxTurns,     \* user turns in all
          MaxRestarts

ASSUME SomeSession == Sessions # {}
ASSUME JobsAreCounted == NumJobs \in Nat
ASSUME KeepIsNat == Keep \in Nat
ASSUME BoundsAreNat == MaxTurns \in Nat /\ MaxRestarts \in Nat

Jobs == 1..NumJobs
TurnIds == 1..MaxTurns

VARIABLES live,     \* sessions with a row
          hist,     \* the user turns in a session's history
          ctx,      \* the end of its latest compacted context, 0 without one
          turn,     \* where the turn at work in a session is
          view,     \* the history it has read
          viewCtx,  \* the compacted context it has read
          arrived,  \* user turns so far
          status,   \* of a job
          source,   \* its source_session_id
          snap,     \* its snapshot_message_count, in turns
          current,  \* its current_message
          planned,  \* its source_message_range
          at,       \* where the worker is
          job,      \* the job it works on
          range,    \* the range of the summary it has made
          restarts

sessionVars == <<live, hist, ctx>>
turnVars == <<turn, view, viewCtx, arrived>>
jobVars == <<source, snap, current, planned>>
workerVars == <<at, job, range>>
vars == <<sessionVars, turnVars, status, jobVars, workerVars, restarts>>

Init ==
    /\ live = Sessions
    /\ hist = [s \in Sessions |-> <<>>]
    /\ ctx = [s \in Sessions |-> 0]
    /\ turn = [s \in Sessions |-> "none"]
    /\ view = [s \in Sessions |-> <<>>]
    /\ viewCtx = [s \in Sessions |-> 0]
    /\ arrived = 0
    /\ status = [j \in Jobs |-> "absent"]
    /\ source = [j \in Jobs |-> CHOOSE s \in Sessions : TRUE]
    /\ snap = [j \in Jobs |-> 0]
    /\ current = [j \in Jobs |-> 0]
    /\ planned = [j \in Jobs |-> 0]
    /\ at = "idle"
    /\ job = 0
    /\ range = 0
    /\ restarts = 0

Last(h) == h[Len(h)]
WithoutLast(h) == SubSeq(h, 1, Len(h) - 1)

\* build_compactable_prefix: all but the last Keep turns, the current message
\* not counted. Nothing is compacted when no turn is to be kept.
PrefixEnd(h, message) ==
    LET past == IF h # <<>> /\ Last(h) = message THEN WithoutLast(h) ELSE h
    IN  IF Keep > 0 /\ Len(past) > Keep THEN Len(past) - Keep ELSE 0

-----------------------------------------------------------------------------
(* A turn.                                                                  *)

\* The inbound message is appended, history and compacted context are read.
BeginTurn(s) ==
    /\ turn[s] = "none"
    /\ s \in live
    /\ arrived < MaxTurns
    /\ arrived' = arrived + 1
    /\ hist' = [hist EXCEPT ![s] = Append(@, arrived + 1)]
    /\ view' = [view EXCEPT ![s] = hist'[s]]
    /\ viewCtx' = [viewCtx EXCEPT ![s] = ctx[s]]
    /\ turn' = [turn EXCEPT ![s] = "running"]
    /\ UNCHANGED <<live, ctx, status, jobVars, workerVars, restarts>>

\* Under context pressure a turn that has found no compacted context compacts
\* what it has read, and sets the result whatever is there by now.
TurnCompacts(s) ==
    LET end == PrefixEnd(view[s], Last(view[s]))
    IN  /\ turn[s] = "running"
        /\ s \in live
        /\ viewCtx[s] = 0
        /\ end > 0
        /\ ctx' = [ctx EXCEPT ![s] = end]
        /\ viewCtx' = [viewCtx EXCEPT ![s] = end]
        /\ UNCHANGED <<live, hist, turn, view, arrived, status, jobVars, workerVars, restarts>>

\* session.new or session.resume: the session is read and, when there is more
\* to compact than has been, a job is to be queued.
Switch(s) ==
    /\ turn[s] = "running"
    /\ s \in live
    /\ view' = [view EXCEPT ![s] = hist[s]]
    /\ turn' = [turn EXCEPT ![s] =
                    IF PrefixEnd(hist[s], Last(view[s])) > ctx[s] THEN "leaving" ELSE "switched"]
    /\ UNCHANGED <<sessionVars, viewCtx, arrived, status, jobVars, workerVars, restarts>>

\* enqueue_compaction_job, of the session as it was read.
Enqueue(s, j) ==
    /\ turn[s] = "leaving"
    /\ status[j] = "absent"
    /\ \A i \in Jobs : i < j => status[i] # "absent"
    /\ status' = [status EXCEPT ![j] = "queued"]
    /\ source' = [source EXCEPT ![j] = s]
    /\ snap' = [snap EXCEPT ![j] = Len(view[s])]
    /\ current' = [current EXCEPT ![j] = Last(view[s])]
    /\ planned' = [planned EXCEPT ![j] = PrefixEnd(view[s], Last(view[s]))]
    /\ turn' = [turn EXCEPT ![s] = "switched"]
    /\ UNCHANGED <<sessionVars, view, viewCtx, arrived, workerVars, restarts>>

\* A turn that stayed in its session, or whose session is gone.
EndTurn(s) ==
    /\ turn[s] = "running" \/ (turn[s] # "none" /\ s \notin live)
    /\ turn' = [turn EXCEPT ![s] = "none"]
    /\ UNCHANGED <<sessionVars, view, viewCtx, arrived, status, jobVars, workerVars, restarts>>

\* A turn that left takes its message out of the session it left.
Withdraw(s) ==
    /\ turn[s] = "switched"
    /\ s \in live
    /\ hist' = [hist EXCEPT ![s] = IF @ # <<>> /\ Last(@) = Last(view[s]) THEN WithoutLast(@) ELSE @]
    /\ turn' = [turn EXCEPT ![s] = "none"]
    /\ UNCHANGED <<live, ctx, view, viewCtx, arrived, status, jobVars, workerVars, restarts>>

-----------------------------------------------------------------------------
(* The worker.                                                              *)

Queued == {j \in Jobs : status[j] = "queued"}

\* Mutant: ORDER BY enqueued_at DESC.
ClaimNewest ==
    /\ at = "idle"
    /\ \E j \in Queued : job' = j /\ \A i \in Queued : i <= j
    /\ at' = "claimed"
    /\ UNCHANGED <<sessionVars, turnVars, status, jobVars, range, restarts>>

\* claim_next_compaction_job: the oldest queued job is selected.
Claim ==
    /\ at = "idle"
    /\ \E j \in Queued : job' = j /\ \A i \in Queued : j <= i
    /\ at' = "claimed"
    /\ UNCHANGED <<sessionVars, turnVars, status, jobVars, range, restarts>>

\* claim_next_compaction_job: the job is updated.
Take ==
    /\ at = "claimed"
    /\ status[job] = "queued"
    /\ status' = [status EXCEPT ![job] = "running"]
    /\ at' = "taken"
    /\ UNCHANGED <<sessionVars, turnVars, jobVars, job, range, restarts>>

\* get_compaction_job finds no job, or set_compacted_context_if_newer no
\* session: the exception ends the thread.
Dies ==
    /\ \/ (at \in {"claimed", "taken", "mark", "fail"} /\ status[job] = "deleted")
       \/ (at = "compare" /\ source[job] \notin live)
    /\ at' = "dead"
    /\ UNCHANGED <<sessionVars, turnVars, status, jobVars, job, range, restarts>>

\* _snapshot_session_history: the first messages of the session, by number.
Snapshot ==
    LET h == hist[source[job]]
    IN  IF snap[job] < Len(h) THEN SubSeq(h, 1, snap[job]) ELSE h

\* The session is read and the prefix to summarise is cut out of its snapshot.
Load ==
    LET end == PrefixEnd(Snapshot, current[job])
    IN  /\ at = "taken"
        /\ status[job] = "running"
        /\ \/ (source[job] \notin live /\ at' = "fail" /\ range' = range)
           \/ (source[job] \in live /\ range' = end
                /\ at' = IF end = 0 THEN "fail" ELSE "ask")
        /\ UNCHANGED <<sessionVars, turnVars, status, jobVars, job, restarts>>

\* The model answers, or fails, or answers nothing.
Generate ==
    /\ at = "ask"
    /\ at' \in {"compare", "fail"}
    /\ UNCHANGED <<sessionVars, turnVars, status, jobVars, job, range, restarts>>

\* set_compacted_context_if_newer: the SELECT. Of equal ranges the later made
\* one counts as newer.
Compare ==
    LET s == source[job]
    IN  /\ at = "compare"
        /\ s \in live
        /\ \/ (range >= ctx[s] /\ at' = "update")
           \/ (range <= ctx[s] /\ at' = "mark")
        /\ UNCHANGED <<sessionVars, turnVars, status, jobVars, job, range, restarts>>

\* set_compacted_context_if_newer: the UPDATE, of the row if it is there.
Update ==
    LET s == source[job]
    IN  /\ at = "update"
        /\ ctx' = IF s \in live THEN [ctx EXCEPT ![s] = range] ELSE ctx
        /\ at' = "mark"
        /\ UNCHANGED <<live, hist, turnVars, status, jobVars, job, range, restarts>>

\* Mutant: a failed job is queued for another attempt, without a limit.
MarkRequeues ==
    /\ at \in {"mark", "fail"}
    /\ status[job] # "deleted"
    /\ status' = [status EXCEPT ![job] = IF at = "mark" THEN "succeeded" ELSE "queued"]
    /\ at' = "idle"
    /\ job' = 0
    /\ range' = 0
    /\ UNCHANGED <<sessionVars, turnVars, jobVars, restarts>>

\* mark_compaction_job_succeeded, mark_compaction_job_failed.
Mark ==
    /\ at \in {"mark", "fail"}
    /\ status[job] # "deleted"
    /\ status' = [status EXCEPT ![job] = IF at = "mark" THEN "succeeded" ELSE "failed"]
    /\ at' = "idle"
    /\ job' = 0
    /\ range' = 0
    /\ UNCHANGED <<sessionVars, turnVars, jobVars, restarts>>

-----------------------------------------------------------------------------
(* Deletion and restart.                                                    *)

\* delete_session and prune_sessions remove the jobs with their session.
Delete(s) ==
    /\ s \in live
    /\ live' = live \ {s}
    /\ hist' = [hist EXCEPT ![s] = <<>>]
    /\ ctx' = [ctx EXCEPT ![s] = 0]
    /\ status' = [j \in Jobs |-> IF status[j] # "absent" /\ source[j] = s
                                 THEN "deleted" ELSE status[j]]
    /\ UNCHANGED <<turnVars, jobVars, workerVars, restarts>>

\* The process stops anywhere and starts again: reset_running_compaction_jobs.
Restart ==
    /\ restarts < MaxRestarts
    /\ restarts' = restarts + 1
    /\ status' = [j \in Jobs |-> IF status[j] = "running" THEN "queued" ELSE status[j]]
    /\ turn' = [s \in Sessions |-> "none"]
    /\ at' = "idle"
    /\ job' = 0
    /\ range' = 0
    /\ UNCHANGED <<sessionVars, view, viewCtx, arrived, jobVars>>

-----------------------------------------------------------------------------
Worker == Claim \/ Take \/ Dies \/ Load \/ Generate \/ Compare \/ Update \/ Mark

Next ==
    \/ \E s \in Sessions :
        \/ BeginTurn(s) \/ TurnCompacts(s) \/ Switch(s)
        \/ EndTurn(s) \/ Withdraw(s) \/ Delete(s)
        \/ \E j \in Jobs : Enqueue(s, j)
    \/ Worker
    \/ Restart

Spec == Init /\ [][Next]_vars

\* The thread polls for jobs, and the model's answer has a timeout.
FairSpec == Spec /\ WF_vars(Worker)

=============================================================================
