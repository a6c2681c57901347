---------------------------- MODULE ReviewTriggers ----------------------------
(***************************************************************************)
(* Self-improvement reviews (self_improve/review_dispatcher.py, recorder,  *)
(* trigger_evaluator, sqlite_store): runs leave triggers, the end of any   *)
(* run dispatches the pending ones to review subagents, and the end of a   *)
(* review, or the next dispatch, turns its result into candidates.         *)
(*                                                                         *)
(* Triggers are rows of SQLite and outlive the process; tasks and run      *)
(* records are in memory.  The dispatcher's lock is reentrant.             *)
(***************************************************************************)
EXTENDS Integers, FiniteSets

CONSTANTS
  Triggers,      \* rows that may be made
  Fingerprints,  \* what a trigger is about
  Tasks,         \* review subagents that may be spawned
  Dispatchers,   \* threads on which a run ends
  MaxFaults,     \* failures of the store
  MaxRestarts

ASSUME ReviewAssumption ==
  /\ MaxFaults \in Nat /\ MaxRestarts \in Nat
  /\ Dispatchers \intersect Tasks = {}
  /\ "none" \notin Triggers \union Tasks /\ "free" \notin Dispatchers \union Tasks

VARIABLES
  rows,      \* trigger -> [about, status, task]
  tasks,     \* task -> [of, status, told, result]
  lock,      \* the thread that holds the dispatcher's lock, or "free"
  thread,    \* thread -> [at, todo, on, task]
  lost,      \* triggers whose source run is gone
  applied,   \* task -> how often its proposals were saved
  faults, restarts

reviewVars == <<rows, tasks, lock, thread, lost, applied, faults, restarts>>

Threads == Dispatchers \union Tasks
Active == {"pending", "queued", "running"}
Inflight == {"queued", "running"}
SettledRow == {"processed", "discarded", "failed"}
EndedTask == {"succeeded", "failed"}
Results == {"proposals", "nothing", "unreadable"}

NoRow == [about |-> "none", status |-> "absent", task |-> "none"]
NoTask == [of |-> "none", status |-> "absent", told |-> FALSE, result |-> "nothing"]
Idle == [at |-> "idle", todo |-> {}, on |-> "none", task |-> "none"]

ReviewTypeOK ==
  /\ rows \in [Triggers -> [about : Fingerprints \union {"none"},
                            status : Active \union SettledRow \union {"absent"},
                            task : Tasks \union {"none"}]]
  /\ tasks \in [Tasks -> [of : Triggers \union {"none"},
                          status : Inflight \union EndedTask \union {"absent", "gone"},
                          told : BOOLEAN, result : Results]]
  /\ lock \in Threads \union {"free"}
  /\ thread \in [Threads ->
       [at : {"idle", "waiting", "reconciling", "judging", "saving", "settling",
              "listing", "dispatching", "spawned"},
        todo : SUBSET Triggers, on : Triggers \union {"none"},
        task : Tasks \union {"none"}]]
  /\ lost \subseteq Triggers
  /\ applied \in [Tasks -> Nat]
  /\ faults \in 0..MaxFaults /\ restarts \in 0..MaxRestarts

ReviewInit ==
  /\ rows = [t \in Triggers |-> NoRow]
  /\ tasks = [k \in Tasks |-> NoTask]
  /\ lock = "free" /\ thread = [p \in Threads |-> Idle]
  /\ lost = {} /\ applied = [k \in Tasks |-> 0]
  /\ faults = 0 /\ restarts = 0

(***************************************************************************)
(* The store.                                                              *)
(***************************************************************************)
\* One active row per fingerprint.
Clash(t, about) ==
  {u \in Triggers \ {t} : rows[u].about = about /\ rows[u].status \in Active}

\* INSERT OR REPLACE removes the rows that the unique index forbids.
Saved(t, row) ==
  [u \in Triggers |->
     IF u = t THEN row
     ELSE IF row.status \in Active /\ u \in Clash(t, row.about) THEN NoRow
     ELSE rows[u]]

Save(t, row) == rows' = Saved(t, row)
Mark(t, status) == Save(t, [rows[t] EXCEPT !.status = status])

\* A failure, a recovery or a long episode leaves a trigger, unless there is
\* an active one about the same (ReviewEvidence tells when).
Inserts(t, about) ==
  /\ Clash(t, about) = {}
  /\ Save(t, [about |-> about, status |-> "pending", task |-> "none"])

Trigger(t, about) ==
  /\ rows[t].status = "absent"
  /\ Inserts(t, about)
  /\ UNCHANGED <<tasks, lock, thread, lost, applied, faults, restarts>>

(***************************************************************************)
(* Threads.                                                                *)
(***************************************************************************)
In(p, step) == thread[p].at = step
GoesTo(p, step) == thread' = [thread EXCEPT ![p].at = step]
Leave(p) == lock' = "free" /\ thread' = [thread EXCEPT ![p] = Idle]

Enter(p, step, todo) ==
  /\ In(p, "waiting") /\ lock = "free"
  /\ lock' = p
  /\ thread' = [thread EXCEPT ![p].at = step, ![p].todo = todo]
  /\ UNCHANGED <<rows, tasks, lost, applied, faults, restarts>>

\* A statement of the store raises: the dispatch or the callback is over.
Fault(p) ==
  /\ lock = p
  /\ faults < MaxFaults
  /\ faults' = faults + 1
  /\ Leave(p)
  /\ UNCHANGED <<rows, tasks, lost, applied, restarts>>

\* The next trigger of a dispatcher's list, with its task.
Takes(d, step, t, k) ==
  thread' = [thread EXCEPT ![d] =
               [at |-> step, todo |-> @.todo \ {t}, task |-> k,
                on |-> IF k = "none" THEN "none" ELSE t]]

(***************************************************************************)
(* Judging the end of a review, for p's trigger and task.                  *)
(***************************************************************************)
\* A dispatcher goes on with its list, a callback is over.
Done(p) ==
  IF p \in Dispatchers
  THEN Takes(p, "reconciling", "none", "none") /\ UNCHANGED lock
  ELSE Leave(p)

Expected(t, k) == rows[t].task = k

HandlesAny(t, k) == Expected(t, k)
HandlesRunning(t, k) == rows[t].status = "running" /\ Expected(t, k)
Handles(t, k) == rows[t].status \notin SettledRow /\ Expected(t, k)

\* The task's status and its summary are read from the live record.
JudgeReview(p) ==
  LET t == thread[p].on
      k == thread[p].task
      task == tasks[k]
      good == task.status = "succeeded" /\ task.told /\ task.result # "unreadable"
  IN /\ In(p, "judging")
     /\ \/ ~Handles(t, k) /\ Done(p) /\ UNCHANGED rows
        \/ Handles(t, k) /\ ~good /\ Mark(t, "failed") /\ Done(p)
        \/ Handles(t, k) /\ good /\ GoesTo(p, "saving") /\ UNCHANGED <<rows, lock>>
     /\ UNCHANGED <<tasks, lost, applied, faults, restarts>>

SaveProposals(p) ==
  LET k == thread[p].task
  IN /\ In(p, "saving")
     /\ applied' = IF tasks[k].result = "proposals"
                   THEN [applied EXCEPT ![k] = @ + 1] ELSE applied
     /\ GoesTo(p, "settling")
     /\ UNCHANGED <<rows, tasks, lock, lost, faults, restarts>>

\* The notification about a new skill candidate cannot fail the trigger.
Settle(p) ==
  /\ In(p, "settling")
  /\ Mark(thread[p].on, IF tasks[thread[p].task].result = "proposals"
                        THEN "processed" ELSE "discarded")
  /\ Done(p)
  /\ UNCHANGED <<tasks, lost, applied, faults, restarts>>

(***************************************************************************)
(* The dispatch at the end of a run.                                       *)
(***************************************************************************)
RunEnds(d) ==
  /\ In(d, "idle")
  /\ GoesTo(d, "waiting")
  /\ UNCHANGED <<rows, tasks, lock, lost, applied, faults, restarts>>

PendingOrFailed == {t \in Triggers : rows[t].status \in {"pending", "failed"}}
Pending == {t \in Triggers : rows[t].status = "pending"}

EnterDispatch(d) ==
  Enter(d, "reconciling", {t \in Triggers : rows[t].status \in Inflight})

\* An inflight trigger whose task is unknown has failed; one whose task has
\* ended is judged; otherwise the row follows the task.
Reconcile(d) ==
  /\ In(d, "reconciling")
  /\ \E t \in thread[d].todo :
       LET k == rows[t].task
           ended == k # "none" /\ tasks[k].status \in EndedTask
           known == k # "none" /\ tasks[k].status \in Inflight
       IN \/ ended /\ Takes(d, "judging", t, k) /\ UNCHANGED rows
          \/ ~ended /\ Takes(d, "reconciling", t, "none")
               /\ Mark(t, IF known THEN tasks[k].status ELSE "failed")
  /\ UNCHANGED <<tasks, lock, lost, applied, faults, restarts>>

List(d) ==
  /\ In(d, "reconciling") /\ thread[d].todo = {}
  /\ thread' = [thread EXCEPT ![d] =
                  [Idle EXCEPT !.at = "dispatching", !.todo = Pending]]
  /\ UNCHANGED <<rows, tasks, lock, lost, applied, faults, restarts>>

\* The source run, its session or the review skill is missing, or the
\* subagent service refuses.
Refuse(d) ==
  /\ In(d, "dispatching")
  /\ \E t \in thread[d].todo :
       /\ Mark(t, "failed")
       /\ Takes(d, "dispatching", t, "none")
  /\ UNCHANGED <<tasks, lock, lost, applied, faults, restarts>>

SpawnReview(d) ==
  /\ In(d, "dispatching")
  /\ \E t \in thread[d].todo \ lost, k \in Tasks :
       /\ tasks[k].status = "absent"
       /\ tasks' = [tasks EXCEPT ![k] = [NoTask EXCEPT !.of = t, !.status = "queued"]]
       /\ Takes(d, "spawned", t, k)
  /\ UNCHANGED <<rows, lock, lost, applied, faults, restarts>>

\* The spawn answered whether there was room to run at once.
SaveSpawned(d) ==
  /\ In(d, "spawned")
  /\ \E state \in Inflight :
       Save(thread[d].on,
            [rows[thread[d].on] EXCEPT !.status = state, !.task = thread[d].task])
  /\ Takes(d, "dispatching", thread[d].on, "none")
  /\ UNCHANGED <<tasks, lock, lost, applied, faults, restarts>>

LeaveDispatch(d) ==
  /\ In(d, "dispatching") /\ thread[d].todo = {}
  /\ Leave(d)
  /\ UNCHANGED <<rows, tasks, lost, applied, faults, restarts>>

(***************************************************************************)
(* A review subagent (see Subagents): its record shows that it has         *)
(* succeeded before it shows the summary.                                  *)
(***************************************************************************)
Becomes(k, status, result, told) ==
  /\ tasks' = [tasks EXCEPT ![k].status = status, ![k].result = result,
                            ![k].told = told]
  /\ UNCHANGED <<rows, lock, lost, applied, faults, restarts>>

StartTask(k) ==
  tasks[k].status = "queued" /\ Becomes(k, "running", "nothing", FALSE)
             /\ UNCHANGED thread

Succeed(k) ==
  /\ tasks[k].status = "running"
  /\ \E result \in Results : Becomes(k, "succeeded", result, FALSE)
  /\ UNCHANGED thread

CallsBack(k) == thread' = [thread EXCEPT ![k] =
                         [Idle EXCEPT !.at = "waiting", !.on = tasks[k].of, !.task = k]]

TellEnd(k) ==
  /\ tasks[k].status = "succeeded" /\ ~tasks[k].told
  /\ Becomes(k, "succeeded", tasks[k].result, TRUE)
  /\ CallsBack(k)

\* An error, a timeout or a cancel, of a running or a queued task.
FailTask(k) ==
  /\ tasks[k].status \in Inflight
  /\ Becomes(k, "failed", "nothing", TRUE)
  /\ CallsBack(k)

EnterCallback(k) == Enter(k, "judging", {})

(***************************************************************************)
(* The process stops: tasks and run records are gone.                      *)
(***************************************************************************)
RestartReviews ==
  /\ restarts < MaxRestarts
  /\ restarts' = restarts + 1
  /\ tasks' = [k \in Tasks |-> IF tasks[k].status = "absent" THEN NoTask
                               ELSE [NoTask EXCEPT !.status = "gone"]]
  /\ lost' = {t \in Triggers : rows[t].status # "absent"}
  /\ lock' = "free" /\ thread' = [p \in Threads |-> Idle]
  /\ UNCHANGED <<rows, applied, faults>>

Handle(p) == JudgeReview(p) \/ SaveProposals(p) \/ Settle(p)

Dispatch(d) ==
  EnterDispatch(d) \/ Reconcile(d) \/ List(d) \/ Refuse(d) \/ SpawnReview(d)
    \/ SaveSpawned(d) \/ LeaveDispatch(d) \/ Handle(d)

Review(k) == StartTask(k) \/ Succeed(k) \/ FailTask(k)
Completion(k) == TellEnd(k) \/ EnterCallback(k) \/ Handle(k)

ReviewNext ==
  \/ \E t \in Triggers, about \in Fingerprints : Trigger(t, about)
  \/ \E d \in Dispatchers : RunEnds(d) \/ Dispatch(d)
  \/ \E k \in Tasks : Review(k) \/ Completion(k)
  \/ \E p \in Threads : Fault(p)
  \/ RestartReviews

\* Threads go on and the lock is handed to those who wait; nothing makes a
\* run end, or a queued review start.
ReviewFairness ==
  /\ \A d \in Dispatchers : WF_reviewVars(Dispatch(d))
  /\ \A k \in Tasks : WF_reviewVars(Completion(k)) /\ SF_reviewVars(EnterCallback(k))

ReviewSpec == ReviewInit /\ [][ReviewNext]_reviewVars /\ ReviewFairness

-----------------------------------------------------------------------------
(***************************************************************************)
(* What becomes of a review trigger.                                       *)
(***************************************************************************)

(***************************************************************************)
(* A trigger, once made, stays: saving one never replaces another          *)
(* (save_review_trigger's INSERT OR REPLACE under the unique index of      *)
(* active fingerprints, written by dispatches and callbacks alike).        *)
(***************************************************************************)
NoTriggerVanishes ==
  \A t \in Triggers : rows[t].status # "absent" => rows'[t].status # "absent"

(***************************************************************************)
(* A trigger is reviewed once and the review's proposals are saved once,   *)
(* however dispatches, the callback and reconciliations of other runs      *)
(* meet; a failing store may cost one repetition (dispatch_pending_        *)
(* triggers, handle_terminal_task).                                        *)
(***************************************************************************)
ReviewedOnce ==
  /\ \A t \in Triggers :
       Cardinality({k \in Tasks : tasks[k].of = t}) <= 1 + faults
  /\ \A k \in Tasks : applied[k] <= 1 + faults

(***************************************************************************)
(* The end of a review settles its trigger, at once or in the dispatch     *)
(* that holds the lock, unless the store fails or the process stops        *)
(* (handle_terminal_task).                                                 *)
(***************************************************************************)
OpenReview(k) ==
  /\ tasks[k].status \in EndedTask /\ tasks[k].told
  /\ \E t \in Triggers : rows[t].task = k /\ rows[t].status \in Inflight

EndSettlesTrigger ==
  \A k \in Tasks : OpenReview(k) ~> ~OpenReview(k) \/ faults > 0

\* A trigger comes to its review and to no second one (the two promises above).
EachTriggerOnce == [][NoTriggerVanishes /\ ReviewedOnce']_reviewVars
=============================================================================
