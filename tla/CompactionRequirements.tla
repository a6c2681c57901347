----------------------- MODULE CompactionRequirements -----------------------
(* What is required of background compaction.                               *)
EXTENDS CompactionJobs

\* The types, and a session without a row has neither messages nor a summary.
TypeOK ==
    /\ \A s \in Sessions \ live : hist[s] = <<>> /\ ctx[s] = 0
    /\ live \subseteq Sessions
    /\ hist \in [Sessions -> Seq(TurnIds)]
    /\ ctx \in [Sessions -> 0..MaxTurns]
    /\ turn \in [Sessions -> {"none", "running", "leaving", "switched"}]
    /\ view \in [Sessions -> Seq(TurnIds)]
    /\ viewCtx \in [Sessions -> 0..MaxTurns]
    /\ arrived \in 0..MaxTurns
    /\ status \in [Jobs -> {"absent", "queued", "running", "succeeded", "failed", "deleted"}]
    /\ source \in [Jobs -> Sessions]
    /\ snap \in [Jobs -> 0..MaxTurns]
    /\ current \in [Jobs -> 0..MaxTurns]
    /\ planned \in [Jobs -> 0..MaxTurns]
    /\ at \in {"idle", "claimed", "taken", "ask", "compare", "update", "mark", "fail", "dead"}
    /\ job \in Jobs \cup {0} /\ (at # "idle" => job \in Jobs)
    /\ range \in 0..MaxTurns
    /\ restarts \in 0..MaxRestarts

\* A job that is running is the one the worker is at, or was at when it died:
\* no restart, failure or deletion leaves one behind.
RunningIsWorkedOn ==
    \A j \in Jobs : status[j] = "running" =>
        job = j /\ at \notin {"idle", "claimed"}

\* A job that is done has been: what it was to compact is compacted, by it or
\* by something newer, as long as the session is there.
DoneIsCompacted ==
    \A j \in Jobs : status[j] = "succeeded" => ctx[source[j]] >= planned[j]

\* The jobs are a queue, whatever is deleted and whenever it is restarted.
Queue == INSTANCE JobQueue
ImplementsJobQueue == Queue!QueueSpec

\* A job ends, is deleted, or waits for a restart because the worker has died.
JobEndsUnlessWorkerDied ==
    \A j \in Jobs : status[j] = "queued" ~>
        status[j] \in {"succeeded", "failed", "deleted"} \/ at = "dead"

\* A job ends or is deleted.
JobEnds ==
    \A j \in Jobs : status[j] = "queued" ~> status[j] \in {"succeeded", "failed", "deleted"}
=============================================================================
