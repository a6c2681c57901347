------------------------------ MODULE JobQueue ------------------------------
(* What the table of compaction jobs promises: jobs are taken in the order   *)
(* in which they were put, one at a time, and end once. Work that was        *)
(* interrupted is queued again; a job whose session is deleted is gone.      *)
EXTENDS Naturals

CONSTANT NumJobs   \* jobs that may be put, numbered in order

VARIABLE status    \* absent, queued, running, succeeded, failed or deleted

Jobs == 1..NumJobs
Ended == {"succeeded", "failed"}

QueueInit == status = [j \in Jobs |-> "absent"]

Put(j) ==
    /\ status[j] = "absent"
    /\ \A i \in Jobs : i < j => status[i] # "absent"
    /\ status' = [status EXCEPT ![j] = "queued"]

Take(j) ==
    /\ status[j] = "queued"
    /\ \A i \in Jobs : status[i] # "running"
    /\ \A i \in Jobs : i < j => status[i] # "queued"
    /\ status' = [status EXCEPT ![j] = "running"]

End(j) ==
    /\ status[j] = "running"
    /\ \E s \in Ended : status' = [status EXCEPT ![j] = s]

Requeue == status' = [j \in Jobs |-> IF status[j] = "running" THEN "queued" ELSE status[j]]

Remove(d) ==
    /\ \A j \in d : status[j] # "absent"
    /\ status' = [j \in Jobs |-> IF j \in d THEN "deleted" ELSE status[j]]

QueueNext ==
    \/ \E j \in Jobs : Put(j) \/ Take(j) \/ End(j)
    \/ Requeue
    \/ \E d \in SUBSET Jobs : Remove(d)

QueueSpec == QueueInit /\ [][QueueNext]_status
=============================================================================
