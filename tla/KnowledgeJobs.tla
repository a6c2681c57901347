---------------------------- MODULE KnowledgeJobs ----------------------------
(* Uploads to the knowledge base: interfaces/http/knowledge_routes.py stages *)
(* a file and records a preview (knowledge/previews.py), publishing the      *)
(* preview creates an ingest job (knowledge/jobs.py), and a thread of its    *)
(* own reads, chunks, embeds and publishes the file                          *)
(* (KnowledgeService._run_file_ingest_job). Any request may cancel the job,  *)
(* and the process may stop between any two steps: the job row and the files *)
(* remain, reconcile_startup puts them in order.                             *)
(*                                                                           *)
(* An upload and the job made of it share a name here. What the job writes   *)
(* into the index is one transaction (KnowledgeIndex has its parts).         *)
EXTENDS Naturals, FiniteSets

CONSTANTS Uploads,   \* uploads, each published at most once
          Batches,   \* batches of chunks a file is embedded in, at least one
          MaxCrashes \* bound: how often the process stops

VARIABLES up,        \* the process runs
          crashes,   \* how often it has stopped
          preview,   \* the record in preview.json
          status,    \* the job's row
          inIndex,   \* jobs whose source is in the index
          staged,    \* uploads whose staging directory exists
          old,       \* uploads past the preview's and the orphans' age limit
          unremoved, \* uploads whose directory could not be removed
          at,        \* where the job's thread is
          batch,     \* batches embedded by it
          publisher, \* an upload whose publish is under way, in the preview store's lock
          canceller  \* where a request that cancels the job is

vars == <<up, crashes, preview, status, inIndex, staged, old, unremoved,
          at, batch, publisher, canceller>>

None == "none"
Live == {"queued", "reading", "chunking", "embedding"}
Terminal == {"completed", "failed", "cancelled"}
Previews == {None, "staging", "ready", "published", "gone"}
ThreadSteps == {None, "begin", "to read", "read", "to chunk", "lock", "to embed", "embedding",
                "embed", "counted", "publish", "cleanup", "fail", "failed", "ended", "died"}

Init ==
    /\ up = TRUE
    /\ crashes = 0
    /\ preview = [u \in Uploads |-> None]
    /\ status = [u \in Uploads |-> None]
    /\ inIndex = {}
    /\ staged = {}
    /\ old = {}
    /\ unremoved = {}
    /\ at = [u \in Uploads |-> None]
    /\ batch = [u \in Uploads |-> 0]
    /\ publisher = None
    /\ canceller = [u \in Uploads |-> None]

-----------------------------------------------------------------------------
(* Staging directories.                                                     *)

\* _cleanup_job_staging: rmtree, or a recorded failure. A directory that is
\* not there is not an error.
RemoveDirectory(u) ==
    \/ staged' = staged \ {u} /\ UNCHANGED unremoved
    \/ u \in staged /\ unremoved' = unremoved \cup {u} /\ UNCHANGED staged

\* KnowledgeIngestJobStore.update writes a row that is not terminal.
Write(u, s) == status' = [status EXCEPT ![u] = IF @ \in Terminal THEN @ ELSE s]

\* The record and the staging directory of an expired or deleted preview.
\* rmtree(ignore_errors=True).
Forget(u) ==
    /\ preview' = [preview EXCEPT ![u] = "gone"]
    /\ staged' = staged \ {u}

-----------------------------------------------------------------------------
(* Previews. The store's lock is held through each operation; only publish  *)
(* has a step that others see: the job exists before the record says so.    *)

\* stage_preview up to the upload: a directory of its own.
Stage(u) ==
    /\ up /\ preview[u] = None
    /\ preview' = [preview EXCEPT ![u] = "staging"]
    /\ staged' = staged \cup {u}
    /\ UNCHANGED <<up, crashes, status, inIndex, old, unremoved, at, batch, publisher, canceller>>

\* The file is uploaded, valid and previewed: the record is written. Or it is
\* not, and the directory is removed.
Staged(u) ==
    /\ up /\ preview[u] = "staging"
    /\ \/ preview' = [preview EXCEPT ![u] = "ready"] /\ UNCHANGED staged
       \/ Forget(u)
    /\ UNCHANGED <<up, crashes, status, inIndex, old, unremoved, at, batch, publisher, canceller>>

\* publish: a fresh preview that is not published, its file unchanged; the
\* publisher creates the job and starts its thread. A second job, of an upload
\* whose publication a crash cut off and whose directory could not be removed,
\* is left out.
Publish(u) ==
    /\ up /\ publisher = None
    /\ preview[u] = "ready" /\ u \notin old /\ u \in staged /\ status[u] = None
    /\ publisher' = u
    /\ status' = [status EXCEPT ![u] = "queued"]
    /\ at' = [at EXCEPT ![u] = "begin"]
    /\ batch' = [batch EXCEPT ![u] = 0]
    /\ UNCHANGED <<up, crashes, preview, inIndex, staged, old, unremoved, canceller>>

\* The record is rewritten as published, with the job's id.
RecordPublished ==
    /\ up /\ publisher # None
    /\ preview' = [preview EXCEPT ![publisher] = "published"]
    /\ publisher' = None
    /\ UNCHANGED <<up, crashes, status, inIndex, staged, old, unremoved, at, batch, canceller>>

\* Mutant: any preview can be deleted.
DeleteAny(u) ==
    /\ up /\ publisher = None
    /\ preview[u] \in {"ready", "published"} /\ u \notin old
    /\ Forget(u)
    /\ UNCHANGED <<up, crashes, status, inIndex, old, unremoved, at, batch, publisher, canceller>>

\* delete of a preview that is not published.
Delete(u) ==
    /\ up /\ publisher = None
    /\ preview[u] = "ready" /\ u \notin old
    /\ Forget(u)
    /\ UNCHANGED <<up, crashes, status, inIndex, old, unremoved, at, batch, publisher, canceller>>

\* _ensure_fresh: whoever asks for an expired preview removes it, published
\* or not.
Expire(u) ==
    /\ up /\ publisher = None
    /\ preview[u] \in {"ready", "published"} /\ u \in old
    /\ Forget(u)
    /\ UNCHANGED <<up, crashes, status, inIndex, old, unremoved, at, batch, publisher, canceller>>

\* 24 hours pass.
Age(u) ==
    /\ preview[u] \notin {None, "gone"} /\ u \notin old
    /\ old' = old \cup {u}
    /\ UNCHANGED <<up, crashes, preview, status, inIndex, staged, unremoved, at, batch, publisher, canceller>>

-----------------------------------------------------------------------------
(* The thread of a job.                                                     *)

Thread(u, from, to) ==
    /\ up /\ at[u] = from
    /\ at' = [at EXCEPT ![u] = to]
    /\ UNCHANGED <<up, crashes, preview, old, publisher, canceller>>

\* is_cancelled, between two statements: the thread returns or goes on.
Check(u, from, to) ==
    /\ Thread(u, from, IF status[u] = "cancelled" THEN "ended" ELSE to)
    /\ UNCHANGED <<status, inIndex, staged, unremoved, batch>>

\* jobs.update: the row, then the directory of a row that is terminal.
Report(u, from, to, s) ==
    /\ Thread(u, from, to)
    /\ Write(u, s)
    /\ IF status[u] \in Terminal \/ s \in Terminal
       THEN RemoveDirectory(u)
       ELSE UNCHANGED <<staged, unremoved>>
    /\ UNCHANGED <<inIndex, batch>>

Begin(u) == Check(u, "begin", "to read")
Reading(u) == Report(u, "to read", "read", "reading")

\* Between two checks the file is read: a file that is gone raises.
Read(u) ==
    \/ u \in staged /\ Check(u, "read", "to chunk")
    \/ u \notin staged /\ status[u] = "cancelled" /\ Check(u, "read", "ended")

\* The file is chunked, then its source is locked.
Chunk(u) == Report(u, "to chunk", "lock", "chunking")
Lock(u) == Check(u, "lock", "to embed")
Embedding(u) == Report(u, "to embed", "embedding", "embedding")

\* The check before the profile is looked up, and the one before each batch:
\* there a cancelled job is reported failed, which a terminal row ignores.
Profile(u) == Check(u, "embedding", "embed")
Embed(u) ==
    /\ batch[u] < Batches
    /\ Thread(u, "embed", IF status[u] = "cancelled" THEN "fail" ELSE "counted")
    /\ batch' = [batch EXCEPT ![u] = IF status[u] = "cancelled" THEN @ ELSE @ + 1]
    /\ UNCHANGED <<status, inIndex, staged, unremoved>>
Count(u) == Report(u, "counted", "embed", "embedding")

Embedded(u) == batch[u] = Batches /\ Check(u, "embed", "publish")

\* Mutant: the status is not looked at in the transaction.
PublishAnyway(u) ==
    /\ Thread(u, "publish", "cleanup")
    /\ inIndex' = inIndex \cup {u}
    /\ status' = [status EXCEPT ![u] = IF @ \in Live THEN "completed" ELSE @]
    /\ UNCHANGED <<staged, unremoved, batch>>

\* complete_ingest_job_with_source_bundle: one transaction, unless the row is
\* terminal.
PublishSource(u) ==
    /\ Thread(u, "publish", IF status[u] \in Live THEN "cleanup" ELSE "ended")
    /\ inIndex' = IF status[u] \in Live THEN inIndex \cup {u} ELSE inIndex
    /\ Write(u, "completed")
    /\ UNCHANGED <<staged, unremoved, batch>>

\* Mutant: the directory is left.
CleanupNothing(u) ==
    /\ Thread(u, "cleanup", "ended")
    /\ UNCHANGED <<status, inIndex, staged, unremoved, batch>>

\* cleanup_terminal after a publication.
Cleanup(u) ==
    /\ Thread(u, "cleanup", "ended")
    /\ RemoveDirectory(u)
    /\ UNCHANGED <<status, inIndex, batch>>

\* Any statement before the publication may raise, or the embedding is
\* unavailable.
Raise(u) ==
    /\ at[u] \in {"to read", "read", "to chunk", "lock", "to embed", "embedding", "embed",
                  "counted", "publish"}
    /\ Thread(u, at[u], "fail")
    /\ UNCHANGED <<status, inIndex, staged, unremoved, batch>>

\* Mutant: the thread ends without a word.
FailQuietly(u) ==
    /\ Thread(u, "fail", "ended")
    /\ UNCHANGED <<status, inIndex, staged, unremoved, batch>>

\* The job is reported failed.
Fail(u) == Report(u, "fail", "ended", "failed")

\* The report raises as well (the database stays locked): the thread is gone.
Die(u) ==
    /\ Thread(u, "fail", "died")
    /\ UNCHANGED <<status, inIndex, staged, unremoved, batch>>

-----------------------------------------------------------------------------
(* Cancelling: the job is read, its row written, its directory removed.     *)

Cancel(u) ==
    /\ up /\ canceller[u] = None /\ status[u] # None
    /\ canceller' = [canceller EXCEPT ![u] = "write"]
    /\ UNCHANGED <<up, crashes, preview, status, inIndex, staged, old, unremoved, at, batch, publisher>>

WriteCancelled(u) ==
    /\ up /\ canceller[u] = "write"
    /\ Write(u, "cancelled")
    /\ canceller' = [canceller EXCEPT ![u] = "cleanup"]
    /\ UNCHANGED <<up, crashes, preview, inIndex, staged, old, unremoved, at, batch, publisher>>

CancelCleanup(u) ==
    /\ up /\ canceller[u] = "cleanup"
    /\ RemoveDirectory(u)
    /\ canceller' = [canceller EXCEPT ![u] = "done"]
    /\ UNCHANGED <<up, crashes, preview, status, inIndex, old, at, batch, publisher>>

-----------------------------------------------------------------------------
(* The process stops and starts.                                            *)

Crash ==
    /\ up /\ crashes < MaxCrashes
    /\ up' = FALSE
    /\ crashes' = crashes + 1
    /\ at' = [u \in Uploads |-> IF at[u] = None THEN None ELSE "ended"]
    /\ publisher' = None
    /\ canceller' = [u \in Uploads |-> IF canceller[u] = None THEN None ELSE "done"]
    /\ UNCHANGED <<preview, status, inIndex, staged, old, unremoved, batch>>

\* Directories reconcile_startup and cleanup_expired remove: those of
\* terminal jobs (every job is, after the recovery), old ones that belong to
\* no job, those of expired previews.
Swept == {u \in Uploads : status[u] # None \/ u \in old}

\* reconcile_startup when the service is built, then the preview store's
\* cleanup_expired.
Restart ==
    /\ ~up
    /\ up' = TRUE
    /\ status' = [u \in Uploads |-> IF status[u] \in Live THEN "failed" ELSE status[u]]
    /\ \E kept \in SUBSET (staged \cap Swept) :
          /\ staged' = (staged \ Swept) \cup kept
          /\ unremoved' = unremoved \cup kept
    /\ preview' = [u \in Uploads |-> IF u \in old /\ preview[u] \in {"ready", "published"}
                                     THEN "gone" ELSE preview[u]]
    /\ UNCHANGED <<crashes, inIndex, old, at, batch, publisher, canceller>>

-----------------------------------------------------------------------------
ThreadStep(u) ==
    \/ Begin(u) \/ Reading(u) \/ Read(u) \/ Chunk(u) \/ Lock(u) \/ Embedding(u)
    \/ Profile(u) \/ Embed(u) \/ Count(u) \/ Embedded(u) \/ PublishSource(u) \/ Cleanup(u)
    \/ Raise(u) \/ Fail(u) \/ Die(u)

Request(u) ==
    \/ Stage(u) \/ Staged(u) \/ Publish(u) \/ Delete(u) \/ Expire(u) \/ Age(u)
    \/ Cancel(u) \/ WriteCancelled(u) \/ CancelCleanup(u)

Next ==
    \/ \E u \in Uploads : ThreadStep(u) \/ Request(u)
    \/ RecordPublished
    \/ Crash
    \/ Restart

Runs == Restart \/ \E u \in Uploads : ThreadStep(u)

\* Threads run, a process that stopped is started again.
Spec == Init /\ [][Next]_vars /\ WF_vars(Runs)

-----------------------------------------------------------------------------
(* What an ingest job and its staged file promise.                          *)

TypeOK ==
    /\ up \in BOOLEAN
    /\ crashes \in 0..MaxCrashes
    /\ preview \in [Uploads -> Previews]
    /\ status \in [Uploads -> Live \cup Terminal \cup {None}]
    /\ inIndex \subseteq Uploads
    /\ staged \subseteq Uploads
    /\ old \subseteq Uploads
    /\ unremoved \subseteq Uploads
    /\ at \in [Uploads -> ThreadSteps]
    /\ batch \in [Uploads -> 0..Batches]
    /\ publisher \in Uploads \cup {None}
    /\ canceller \in [Uploads -> {None, "write", "cleanup", "done"}]

\* A job's source is in the index exactly when its row says completed: a job
\* that was cancelled, failed or was interrupted has published nothing,
\* whatever its thread was doing when that was written, and no restart loses
\* or repeats a publication. complete_ingest_job_with_source_bundle.
PublishedExactlyIfCompleted == \A u \in Uploads : u \in inIndex <=> status[u] = "completed"

\* A staging directory is there as long as it is needed: by a preview that may
\* be published, and by a thread that has not read the file; unless a day has
\* passed, or the job was cancelled. The routes, the preview store, the job
\* store and the recovery all remove directories.
FileIsThereWhileNeeded ==
    \A u \in Uploads :
        \/ u \in old \/ u \in staged
        \/ ~(preview[u] = "ready" /\ status[u] = None)
           /\ ~(status[u] \in Live /\ at[u] \in {"begin", "to read", "read"})

\* The directory of a job that is over is removed or somebody still has to:
\* its thread, a cancel, the next start. Nothing is kept for ever but what
\* could not be removed.
SomebodyRemovesFile ==
    \A u \in staged :
        status[u] \in Terminal =>
            \/ u \in unremoved
            \/ ~up
            \/ at[u] \in ThreadSteps \ {None, "ended", "died"}
            \/ canceller[u] \in {"write", "cleanup"}

\* Every job that is queued ends, through its thread or through a restart,
\* unless the thread could not even report its failure.
JobEndsUnlessThreadDied ==
    \A u \in Uploads : status[u] = "queued" ~> status[u] \in Terminal \/ at[u] = "died"

\* A directory is there as long as it is needed, and not much longer (the two
\* promises above).
StagedAsLongAsNeeded == FileIsThereWhileNeeded /\ SomebodyRemovesFile
=============================================================================
