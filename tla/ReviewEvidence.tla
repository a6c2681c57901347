---------------------------- MODULE ReviewEvidence ----------------------------
(***************************************************************************)
(* What leaves the triggers of ReviewTriggers (self_improve/recorder.py,   *)
(* trigger_evaluator.py): runs of one agent, side by side, record the      *)
(* failures of their tools and models, the successes that follow, long     *)
(* episodes of tools and compactions.  A request is the normalised message *)
(* of the user, the agent's half of a fingerprint is left out.             *)
(***************************************************************************)
EXTENDS ReviewTriggers, Sequences

CONSTANTS
  AgentRuns, Questions,
  Newest,      \* failures that are looked at
  Burst,       \* failures about one request that make a trigger
  MaxFailures

ASSUME EvidenceAssumption == Newest \in Nat \ {0} /\ Burst \in Nat \ {0} /\ MaxFailures \in Nat

VARIABLES
  failures,    \* requests of the recorded failures, newest last
  recoveries,  \* requests of the recorded recoveries
  run          \* run -> [at, request, kind, next]

evidence == <<failures, recoveries, run>>

FreshRun == [at |-> "idle", request |-> "none", kind |-> "none", next |-> "ended"]

InitEvidence ==
  /\ failures = <<>> /\ recoveries = {}
  /\ run = [p \in AgentRuns |-> FreshRun]

\* agent|kind|message
Fingerprint(kind, request) == kind \o "|" \o request

\* list_recent_failures: the newest ones of the agent, of any request.
RecentFailures ==
  SubSeq(failures, IF Len(failures) > Newest THEN Len(failures) - Newest + 1 ELSE 1,
         Len(failures))

Count(request) ==
  Cardinality({i \in DOMAIN RecentFailures : RecentFailures[i] = request})

MoreThan(request) == Count(request) > Burst
Enough(request) == Count(request) >= Burst

Moves(p, step) == run' = [run EXCEPT ![p].at = step]
Evaluates(p, kind, next) ==
  run' = [run EXCEPT ![p].at = "making", ![p].kind = kind, ![p].next = next]

Begins(p, request, step) ==
  run' = [run EXCEPT ![p] = [at |-> step, request |-> request, kind |-> "flush",
                             next |-> "working"]]

\* A run that was compacted before its first call always leaves a trigger.
Flush(p, request) == Begins(p, request, "making")

BeginRun(p) ==
  /\ run[p].at = "idle"
  /\ \E request \in Questions :
       Flush(p, request) \/ Begins(p, request, "working")
  /\ UNCHANGED <<rows, failures, recoveries>>

Failed(request) == failures' = Append(failures, request)
Recovered(request) == recoveries' = recoveries \union {request}

\* The failure is stored before it is counted.  A tool's failure is told to
\* the model, which goes on; the others end the run.
RecordFailure(p) ==
  /\ run[p].at = "working"
  /\ Len(failures) < MaxFailures
  /\ Failed(run[p].request)
  /\ \E next \in {"working", "ended"} :
       run' = [run EXCEPT ![p].at = "counting", ![p].next = next]
  /\ UNCHANGED <<rows, recoveries>>

EvaluateFailureBurst(p) ==
  /\ run[p].at = "counting"
  /\ \/ Enough(run[p].request) /\ Evaluates(p, "failure_burst", run[p].next)
     \/ ~Enough(run[p].request) /\ Moves(p, run[p].next)
  /\ UNCHANGED <<rows, failures, recoveries>>

\* The final text is there: an episode of several tools is evaluated first.
FinishRun(p) ==
  /\ run[p].at = "working"
  /\ \/ Evaluates(p, "episode", "recovering")
     \/ Moves(p, "recovering")
  /\ UNCHANGED <<rows, failures, recoveries>>

\* A success about a request that failed recently, in this run or before.
RecordRecovery(p) ==
  LET request == run[p].request
  IN /\ run[p].at = "recovering"
     /\ \/ Count(request) > 0 /\ Recovered(request)
             /\ Moves(p, "weighing")
        \/ Count(request) = 0 /\ Moves(p, "ended") /\ UNCHANGED recoveries
     /\ UNCHANGED <<rows, failures>>

EvaluateRecovery(p) ==
  /\ run[p].at = "weighing"
  /\ \/ Enough(run[p].request) /\ Evaluates(p, "recovery", "ended")
     \/ ~Enough(run[p].request) /\ Moves(p, "ended")
  /\ UNCHANGED <<rows, failures, recoveries>>

\* The index of active fingerprints refuses a second trigger about the same.
Make(p) ==
  LET about == Fingerprint(run[p].kind, run[p].request)
      active == {t \in Triggers : rows[t].about = about /\ rows[t].status \in Active}
  IN /\ run[p].at = "making"
     /\ \/ active # {} /\ UNCHANGED rows
        \/ \E t \in Triggers : rows[t].status = "absent" /\ Inserts(t, about)
     /\ Moves(p, run[p].next)
     /\ UNCHANGED <<failures, recoveries>>

\* ReviewTriggers tells how a trigger comes to its end; here it just does.
Reviewed(t) ==
  /\ rows[t].status = "pending"
  /\ Mark(t, "processed")
  /\ UNCHANGED <<failures, recoveries, run>>

Record(p) ==
  BeginRun(p) \/ RecordFailure(p) \/ EvaluateFailureBurst(p) \/ FinishRun(p)
    \/ RecordRecovery(p) \/ EvaluateRecovery(p) \/ Make(p)

EvidenceStep ==
  /\ \/ \E p \in AgentRuns : Record(p)
     \/ \E t \in Triggers : Reviewed(t)
  /\ UNCHANGED <<tasks, lock, thread, lost, applied, faults, restarts>>

EvidenceSpec == ReviewInit /\ InitEvidence /\ [][EvidenceStep]_<<reviewVars, evidence>>

(***************************************************************************)
(* A burst of failures about one request leaves a trigger, whichever runs  *)
(* record them and in whatever order their writes and counts meet          *)
(* (record_failure stores the event before evaluate_failure_burst counts). *)
(* The triggers that a run is about to make are the exception.             *)
(***************************************************************************)
BurstIsReviewed ==
  \A request \in Questions :
    Count(request) >= Burst =>
      \/ \E t \in Triggers : rows[t].about = Fingerprint("failure_burst", request)
      \/ \E p \in AgentRuns :
           /\ run[p].request = request
           /\ \/ run[p].at = "counting"
              \/ run[p].at = "making" /\ run[p].kind = "failure_burst"
=============================================================================
