--------------------------- MODULE KnowledgeProofs ---------------------------
(* Proofs about uploads and their ingest jobs, for any number of them, of    *)
(* batches and of crashes: what is in the index is what the rows say, and a  *)
(* staged file is there as long as somebody needs it. And about the index,   *)
(* for any threads, namespaces, sources, profiles and calls: one thread at a *)
(* time works on a source, and a source found whole stays so once nobody     *)
(* disputes it. And about searches, however long their lists: what was       *)
(* deleted is not found, and what was found is used.                         *)
EXTENDS KnowledgeJobs, KnowledgeIndex, KnowledgeSearch, FiniteSetTheorems,
        WellFoundedInduction, TLAPS

Shapes ==
    /\ preview \in [Uploads -> Previews]
    /\ status \in [Uploads -> Live \cup Terminal \cup {None}]
    /\ at \in [Uploads -> ThreadSteps]
    /\ canceller \in [Uploads -> {None, "write", "cleanup", "done"}]
    /\ publisher \in Uploads \cup {None}

\* What has to be done for a job is done for one that exists.
JobsExist ==
    \A u \in Uploads :
        /\ preview[u] \in {None, "staging"} => status[u] = None
        /\ at[u] # None => status[u] # None
        /\ canceller[u] # None => status[u] # None
        /\ canceller[u] = "cleanup" => status[u] \in Terminal

\* A live job whose preview is still "ready" is being published, or the
\* process has stopped meanwhile.
NobodyElsePublishes ==
    \A u \in Uploads :
        preview[u] = "ready" /\ status[u] \in Live => publisher = u \/ ~up

\* FileIsThereWhileNeeded, from the upload on.
FileThere ==
    \A u \in Uploads :
        \/ u \in old \/ u \in staged
        \/ /\ ~(preview[u] \in {"staging", "ready"} /\ status[u] = None)
           /\ ~(status[u] \in Live /\ at[u] \in {"begin", "to read", "read"})

\* SomebodyRemovesFile, with who it is: of the threads, only the one that has
\* just published.
RemoverThere ==
    \A u \in staged :
        status[u] \in Terminal =>
            u \in unremoved \/ ~up \/ at[u] = "cleanup" \/ canceller[u] \in {"write", "cleanup"}

IInv ==
    /\ Shapes /\ JobsExist /\ NobodyElsePublishes /\ FileThere /\ RemoverThere
    /\ staged \subseteq Uploads
    /\ PublishedExactlyIfCompleted

USE DEF Live, Terminal, None

-----------------------------------------------------------------------------
(* The steps of a thread, by their kind.                                    *)

\* A thread goes on, or ends, and does nothing else.
LEMMA MoveSound ==
    ASSUME IInv, NEW u \in Uploads, NEW from, from \notin {None, "cleanup"},
           NEW to \in ThreadSteps, to # None,
           to \in {"begin", "to read", "read"} => from \in {"begin", "to read", "read"},
           Thread(u, from, to), UNCHANGED <<status, inIndex, staged, unremoved>>
    PROVE  IInv'
<1> USE DEF IInv, Thread
<1>1. Shapes' /\ (staged \subseteq Uploads)'
    BY DEF Shapes
<1>2. JobsExist' /\ NobodyElsePublishes' /\ PublishedExactlyIfCompleted'
    BY DEF Shapes, JobsExist, NobodyElsePublishes, PublishedExactlyIfCompleted
<1>3. FileThere'
    BY DEF Shapes, FileThere
<1>4. RemoverThere'
    BY DEF Shapes, RemoverThere
<1> QED
    BY <1>1, <1>2, <1>3, <1>4

\* A thread reports: a row that is terminal stays, and its directory goes.
LEMMA ReportSound ==
    ASSUME IInv, NEW u \in Uploads, NEW from, from \notin {None, "cleanup"},
           NEW to \in ThreadSteps, to # None, NEW s \in (Live \ {"queued"}) \cup {"failed"},
           to \in {"begin", "to read", "read"} =>
               from \in {"begin", "to read", "read"} /\ s \in Live,
           Report(u, from, to, s)
    PROVE  IInv'
<1> USE DEF IInv, Report, Thread, Write
<1>0. status[u] # None /\ at[u] = from
    BY DEF JobsExist
<1>1. Shapes' /\ (staged \subseteq Uploads)'
    BY DEF Shapes, RemoveDirectory
<1>2. JobsExist' /\ NobodyElsePublishes' /\ PublishedExactlyIfCompleted'
    BY <1>0 DEF Shapes, JobsExist, NobodyElsePublishes, PublishedExactlyIfCompleted
<1>3. FileThere'
    BY <1>0 DEF Shapes, FileThere, RemoveDirectory
<1>4. RemoverThere'
    BY <1>0 DEF Shapes, RemoverThere, RemoveDirectory
<1> QED
    BY <1>1, <1>2, <1>3, <1>4

\* The publication writes the row and the index in one transaction.
LEMMA PublishSourceSound ==
    ASSUME IInv, NEW u \in Uploads, PublishSource(u)
    PROVE  IInv'
<1> USE DEF IInv, PublishSource, Thread, Write
<1>0. status[u] # None /\ at[u] = "publish"
    BY DEF JobsExist
<1>1. Shapes' /\ (staged \subseteq Uploads)'
    BY DEF Shapes, ThreadSteps
<1>2. JobsExist' /\ NobodyElsePublishes'
    BY <1>0 DEF Shapes, JobsExist, NobodyElsePublishes
<1>3. PublishedExactlyIfCompleted'
    BY <1>0 DEF Shapes, PublishedExactlyIfCompleted
<1>4. FileThere'
    BY <1>0 DEF Shapes, FileThere
<1>5. RemoverThere'
    BY <1>0 DEF Shapes, RemoverThere
<1> QED
    BY <1>1, <1>2, <1>3, <1>4, <1>5

LEMMA CleanupSound ==
    ASSUME IInv, NEW u \in Uploads, Cleanup(u)
    PROVE  IInv'
<1> USE DEF IInv, Cleanup, Thread
<1>1. Shapes' /\ (staged \subseteq Uploads)'
    BY DEF Shapes, RemoveDirectory, ThreadSteps
<1>2. JobsExist' /\ NobodyElsePublishes' /\ PublishedExactlyIfCompleted'
    BY DEF Shapes, JobsExist, NobodyElsePublishes, PublishedExactlyIfCompleted
<1>3. FileThere'
    BY DEF Shapes, JobsExist, FileThere, RemoveDirectory
<1>4. RemoverThere'
    BY DEF Shapes, RemoverThere, RemoveDirectory
<1> QED
    BY <1>1, <1>2, <1>3, <1>4

LEMMA ThreadSound ==
    ASSUME IInv, NEW u \in Uploads, ThreadStep(u)
    PROVE  IInv'
<1>1. CASE Begin(u) \/ Lock(u) \/ Profile(u) \/ Embedded(u)
    BY <1>1, MoveSound DEF Begin, Lock, Profile, Embedded, Check, ThreadSteps
<1>2. CASE Read(u)
    BY <1>2, MoveSound DEF Read, Check, ThreadSteps
<1>3. CASE Reading(u) \/ Chunk(u) \/ Embedding(u) \/ Count(u) \/ Fail(u)
    BY <1>3, ReportSound DEF Reading, Chunk, Embedding, Count, Fail, ThreadSteps
<1>4. CASE Embed(u) \/ Raise(u) \/ Die(u)
    BY <1>4, MoveSound DEF Embed, Raise, Die, ThreadSteps
<1> QED
    BY <1>1, <1>2, <1>3, <1>4, PublishSourceSound, CleanupSound DEF ThreadStep


-----------------------------------------------------------------------------
(* Requests and the life of the process.                                    *)

\* What a request leaves alone.
Elsewhere == <<up, crashes, inIndex, old, unremoved, at, batch, publisher>>

\* A preview is staged, then it is ready or forgotten.
LEMMA StageSound ==
    ASSUME IInv, NEW u \in Uploads, Stage(u) \/ Staged(u)
    PROVE  IInv'
<1> USE DEF IInv, Stage, Staged, Forget
<1>1. Shapes' /\ (staged \subseteq Uploads)'
    BY DEF Shapes, Previews
<1>2. JobsExist' /\ NobodyElsePublishes' /\ PublishedExactlyIfCompleted'
    BY DEF Shapes, JobsExist, NobodyElsePublishes, PublishedExactlyIfCompleted
<1>3. FileThere'
    BY DEF Shapes, JobsExist, FileThere
<1>4. RemoverThere'
    BY DEF Shapes, JobsExist, RemoverThere
<1> QED
    BY <1>1, <1>2, <1>3, <1>4

LEMMA PublishSound ==
    ASSUME None \notin Uploads, IInv, NEW u \in Uploads, Publish(u)
    PROVE  IInv'
<1> USE DEF IInv, Publish
<1>1. Shapes' /\ (staged \subseteq Uploads)'
    BY DEF Shapes, ThreadSteps
<1>2. JobsExist'
    <2>1. preview[u] = "ready" /\ status[u] = None /\ canceller[u] = None
        BY DEF JobsExist
    <2> QED
        BY <2>1 DEF Shapes, JobsExist
<1>3. NobodyElsePublishes' /\ PublishedExactlyIfCompleted'
    BY DEF Shapes, NobodyElsePublishes, PublishedExactlyIfCompleted
<1>4. FileThere'
    BY DEF Shapes, FileThere
<1>5. RemoverThere'
    BY DEF Shapes, RemoverThere
<1> QED
    BY <1>1, <1>2, <1>3, <1>4, <1>5

\* A preview that nobody publishes is deleted, or one that is a day old.
LEMMA ForgetSound ==
    ASSUME None \notin Uploads, IInv, NEW u \in Uploads, Delete(u) \/ Expire(u)
    PROVE  IInv'
<1> USE DEF IInv, Delete, Expire, Forget
<1>0. u \in old \/ status[u] \notin Live
    BY DEF NobodyElsePublishes
<1>1. Shapes' /\ (staged \subseteq Uploads)'
    BY DEF Shapes, Previews
<1>2. JobsExist' /\ NobodyElsePublishes' /\ PublishedExactlyIfCompleted'
    BY DEF Shapes, JobsExist, NobodyElsePublishes, PublishedExactlyIfCompleted
<1>3. FileThere'
    BY <1>0 DEF Shapes, FileThere
<1>4. RemoverThere'
    BY DEF Shapes, RemoverThere
<1> QED
    BY <1>1, <1>2, <1>3, <1>4

LEMMA RecordPublishedSound ==
    ASSUME IInv, RecordPublished
    PROVE  IInv'
<1> USE DEF IInv, RecordPublished
<1>1. Shapes' /\ (staged \subseteq Uploads)'
    BY DEF Shapes, Previews
<1>2. JobsExist' /\ NobodyElsePublishes' /\ PublishedExactlyIfCompleted'
    BY DEF Shapes, JobsExist, NobodyElsePublishes, PublishedExactlyIfCompleted
<1>3. FileThere' /\ RemoverThere'
    BY DEF Shapes, FileThere, RemoverThere
<1> QED
    BY <1>1, <1>2, <1>3

LEMMA AgeSound ==
    ASSUME IInv, NEW u \in Uploads, Age(u)
    PROVE  IInv'
BY DEF IInv, Age, Shapes, JobsExist, NobodyElsePublishes, FileThere, RemoverThere,
       PublishedExactlyIfCompleted

\* A cancel reads the job, writes the row unless it is terminal, and removes the
\* directory.
LEMMA CancelSound ==
    ASSUME IInv, NEW u \in Uploads, Cancel(u) \/ WriteCancelled(u)
    PROVE  IInv'
<1> USE DEF IInv, Cancel, WriteCancelled, Write
<1>1. Shapes' /\ (staged \subseteq Uploads)'
    BY DEF Shapes
<1>2. JobsExist' /\ NobodyElsePublishes' /\ PublishedExactlyIfCompleted'
    BY DEF Shapes, JobsExist, NobodyElsePublishes, PublishedExactlyIfCompleted
<1>3. FileThere'
    BY DEF Shapes, FileThere
<1>4. RemoverThere'
    BY DEF Shapes, RemoverThere
<1> QED
    BY <1>1, <1>2, <1>3, <1>4

LEMMA CancelCleanupSound ==
    ASSUME IInv, NEW u \in Uploads, CancelCleanup(u)
    PROVE  IInv'
<1> USE DEF IInv, CancelCleanup
<1>0. status[u] \in Terminal
    BY DEF JobsExist
<1>1. Shapes' /\ (staged \subseteq Uploads)'
    BY DEF Shapes, RemoveDirectory
<1>2. JobsExist' /\ NobodyElsePublishes' /\ PublishedExactlyIfCompleted'
    BY DEF Shapes, JobsExist, NobodyElsePublishes, PublishedExactlyIfCompleted
<1>3. FileThere'
    BY <1>0 DEF Shapes, FileThere, RemoveDirectory
<1>4. RemoverThere'
    BY <1>0 DEF Shapes, RemoverThere, RemoveDirectory
<1> QED
    BY <1>1, <1>2, <1>3, <1>4

LEMMA CrashSound ==
    ASSUME IInv, Crash
    PROVE  IInv'
<1> USE DEF IInv, Crash
<1>1. Shapes' /\ (staged \subseteq Uploads)'
    BY DEF Shapes, ThreadSteps
<1>2. JobsExist' /\ NobodyElsePublishes' /\ PublishedExactlyIfCompleted'
    BY DEF Shapes, JobsExist, NobodyElsePublishes, PublishedExactlyIfCompleted
<1>3. FileThere' /\ RemoverThere'
    BY DEF Shapes, FileThere, RemoverThere
<1> QED
    BY <1>1, <1>2, <1>3

\* The start marks what was live as failed, and sweeps the directories.
LEMMA RestartSound ==
    ASSUME IInv, Restart
    PROVE  IInv'
<1> USE DEF IInv, Restart
<1>0. \A u \in Uploads : status'[u] \in Terminal <=> status[u] # None
    BY DEF Shapes
<1>1. Shapes' /\ (staged \subseteq Uploads)'
    BY DEF Shapes, Previews
<1>2. JobsExist'
    BY DEF Shapes, JobsExist
<1>3. NobodyElsePublishes' /\ PublishedExactlyIfCompleted'
    BY DEF Shapes, NobodyElsePublishes, PublishedExactlyIfCompleted
<1>4. FileThere'
    BY DEF Shapes, FileThere, Swept
<1>5. RemoverThere'
    BY <1>0 DEF RemoverThere, Swept
<1> QED
    BY <1>1, <1>2, <1>3, <1>4, <1>5

-----------------------------------------------------------------------------
LEMMA StepSound == None \notin Uploads /\ IInv /\ [Next]_vars => IInv'
<1> SUFFICES ASSUME None \notin Uploads, IInv, [Next]_vars PROVE IInv'
    OBVIOUS
<1>1. ASSUME NEW u \in Uploads, Request(u) PROVE IInv'
    BY <1>1, StageSound, PublishSound, ForgetSound, AgeSound, CancelSound, CancelCleanupSound
       DEF Request
<1>2. CASE UNCHANGED vars
    BY <1>2 DEF vars, IInv, Shapes, JobsExist, NobodyElsePublishes, FileThere, RemoverThere,
                PublishedExactlyIfCompleted
<1> QED
    BY <1>1, <1>2, ThreadSound, RecordPublishedSound, CrashSound, RestartSound DEF Next

LEMMA InitSound == Init => IInv
BY DEF Init, IInv, Shapes, Previews, ThreadSteps, JobsExist, NobodyElsePublishes, FileThere,
       RemoverThere, PublishedExactlyIfCompleted

\* A source is in the index exactly when its job's row says completed, for any
\* uploads whose threads, cancels and crashes meet
\* (complete_ingest_job_with_source_bundle, reconcile_startup).
THEOREM IndexFollowsRows ==
    ASSUME None \notin Uploads
    PROVE  Init /\ [][Next]_vars => []PublishedExactlyIfCompleted
<1>1. IInv => PublishedExactlyIfCompleted
    BY DEF IInv
<1>2. IInv /\ [Next]_vars => IInv'
    BY StepSound
<1> QED
    BY InitSound, <1>1, <1>2, PTL

\* The staging directory is there while a preview or a thread needs it, and
\* whoever is to remove it then is still there (_cleanup_job_staging,
\* KnowledgeIngestJobStore.update, cleanup_expired).
THEOREM StagingIsKeptAndRemoved ==
    ASSUME None \notin Uploads
    PROVE  Init /\ [][Next]_vars => []StagedAsLongAsNeeded
<1>1. IInv => StagedAsLongAsNeeded
    BY DEF IInv, Shapes, FileThere, RemoverThere, StagedAsLongAsNeeded, FileIsThereWhileNeeded,
           SomebodyRemovesFile, ThreadSteps
<1>2. IInv /\ [Next]_vars => IInv'
    BY StepSound
<1> QED
    BY InitSound, <1>1, <1>2, PTL

-----------------------------------------------------------------------------
(* The index. Threads that wait for or hold the lock of a source are the     *)
(* users its entry counts, and all of them have the entry's lock object.     *)

WithLock == {"wait", "wait draft"} \cup Inside
LockUsers(k) == {t \in Threads : place[t] \in WithLock /\ key[t] = k}

\* Where the thread of a call can be.
PlacesOf(kind) ==
    CASE kind = "text" -> {"text", "text source", "text chunks", "model", "embed"}
      [] kind = "file" -> {"file", "enter", "wait", "locked", "file model", "file embed", "publish", "leave"}
      [] kind = "delete" -> {"enter", "wait", "locked", "leave"}
      [] kind = "approve" -> {"approve", "enter", "wait", "locked", "draft chunks",
                              "enter draft", "wait draft", "locked draft", "leave"}
      [] kind = "reindex" -> {"reindex", "reindex model", "reindex embed"}
      [] kind = "reindex source" -> {"reindex source", "model", "embed"}
      [] OTHER -> {}

CallShapes ==
    /\ place = [t \in Threads |-> place[t]]
    /\ call = [t \in Threads |-> call[t]]
    /\ \A t \in Threads :
          \/ place[t] = "idle"
          \/ /\ call[t] \in [kind : Kinds, ns : Namespaces, source : Sources, profile : Profiles \cup {Unset}]
             /\ place[t] \in PlacesOf(call[t].kind)
             /\ call[t].kind = "approve" => call[t].ns = Draft

LockShapes ==
    /\ lock \in [Threads -> Locks \cup {0}]
    /\ key = [t \in Threads |-> key[t]]
    /\ entry \in [Keys -> [lock : Locks \cup {0}, users : Nat]]
    /\ \A t \in Threads : lock[t] = 0 <=> place[t] \notin WithLock
    /\ \A k \in Keys : entry[k].users = Cardinality(LockUsers(k))

\* A thread that waits for or holds a lock is a user of the entry it entered.
UsersShareLock ==
    \A t \in Threads :
        place[t] \in WithLock => key[t] \in Keys /\ lock[t] = entry[key[t]].lock

\* A lock object has one holder.
OneHolder ==
    \A t, o \in Threads :
        t # o /\ place[t] \in Inside /\ place[o] \in Inside => lock[t] # lock[o]

\* What a call writes to.
Goal(t) == IF call[t].kind = "approve" THEN <<Target, call[t].source>> ELSE KeyOf(t)

\* Before it leaves, a thread is in the lock of what its call is about.
LockOfGoal ==
    \A t \in Threads :
        place[t] \in {"wait", "locked", "file model", "file embed", "publish"} => key[t] = Goal(t)

LockInv == CallShapes /\ LockShapes /\ UsersShareLock /\ OneHolder /\ LockOfGoal

LocalShapes ==
    /\ gen \in [Threads -> Nat]
    /\ uses \in [Threads -> Profiles \cup {Unset}]
    /\ seen = [t \in Threads |-> seen[t]]
    /\ done \in [Threads -> Nat]

StoreShapes ==
    /\ rows \in [Keys -> [gen : Nat, active : BOOLEAN]]
    /\ source \in [Keys -> {Unset, "active", "deleted"}]
    /\ profile \in [Namespaces -> Profiles \cup {Unset}]
    /\ made \in Nat

\* A generation is of one source, and until it is written of one thread.
Unwritten(t) ==
    \/ call[t].kind = "text" /\ place[t] \in {"text source", "text chunks"}
    \/ call[t].kind = "file"
       /\ place[t] \in {"enter", "wait", "locked", "file model", "file embed", "publish"}
Generations ==
    /\ \A k \in Keys : rows[k].gen <= made /\ (rows[k].active => rows[k].gen # 0)
    /\ \A t \in Threads : gen[t] <= made
    /\ \A k, j \in Keys : k # j /\ rows[k].gen = rows[j].gen => rows[k].gen = 0
    /\ \A t \in Threads :
          Unwritten(t) =>
             /\ gen[t] # 0
             /\ \A k \in Keys : rows[k].gen # gen[t]
             /\ \A o \in Threads : t # o => gen[o] # gen[t]

\* Who embeds holds the model.
AtModel == {"embed", "file embed", "reindex embed"}
ModelHeld == \A t \in Threads : place[t] \in AtModel => model = t

\* What is embedded has a profile; and nothing is counted before.
WithProfile == {"text source", "text chunks", "model", "embed", "file model", "file embed",
                "publish", "reindex model", "reindex embed"}
Resolved ==
    \A t \in Threads :
        /\ place[t] \in WithProfile => uses[t] \in Profiles
        /\ call[t].kind = "approve" /\ place[t] \in {"enter", "wait", "locked"} => uses[t] \in Profiles
        /\ place[t] # "embed" => done[t] = 0

\* As long as the chunks are the source's, what a thread has embedded is there:
\* who could remove it waits for the model.
BatchesThere ==
    \A t \in Threads :
        place[t] = "embed" /\ rows[KeyOf(t)] = [gen |-> gen[t], active |-> TRUE] =>
            \A i \in 1..done[t] : <<call[t].ns, gen[t], i, uses[t]>> \in embedded

\* The target of an approval is not deleted between its row and its chunks.
TargetIsThere == \A t \in Threads : place[t] = "draft chunks" => source[key[t]] = "active"

IndexInv ==
    /\ LockInv /\ LocalShapes /\ StoreShapes /\ Generations
    /\ ModelHeld /\ Resolved /\ BatchesThere /\ TargetIsThere

-----------------------------------------------------------------------------
(* Locks, whatever calls overlap.                                           *)

LEMMA LockUsersFinite == \A k : IsFiniteSet(LockUsers(k))
BY IndexAssumption, FS_Subset DEF LockUsers

LEMMA Decrement == (\A n \in Nat \ {0} : n - 1 \in Nat) /\ (\A n : n = 1 => n - 1 = 0)
OBVIOUS

LEMMA OneUserLess ==
    ASSUME NEW S, IsFiniteSet(S), NEW x \in S
    PROVE  Cardinality(S \ {x}) = Cardinality(S) - 1 /\ Cardinality(S) \in Nat
BY FS_RemoveElement, FS_CardinalityType

\* A thread that is not at a lock leaves one of the lock objects unused.
LEMMA NewLockIsNew ==
    ASSUME LockInv, NEW t \in Threads, place[t] \notin WithLock
    PROVE  NewLock \in Locks /\ \A o \in Threads : lock[o] # NewLock
<1> DEFINE others == Threads \ {t}
           taken == {lock[o] : o \in others}
           held == [o \in others |-> lock[o]]
<1>1. IsFiniteSet(others) /\ Cardinality(others) = Cardinality(Threads) - 1
      /\ Cardinality(Threads) \in Nat
  BY IndexAssumption, FS_RemoveElement, FS_CardinalityType
<1>2. IsFiniteSet(taken) /\ Cardinality(taken) <= Cardinality(others)
  <2>1. held \in Surjection(others, taken)
    BY DEF Surjection
  <2> QED
    BY <1>1, <2>1, FS_Surjection
<1>3. IsFiniteSet(Locks) /\ Cardinality(Locks) = Cardinality(Threads)
  BY <1>1, FS_Interval DEF Locks
<1>4. ~(Locks \subseteq taken)
  BY <1>1, <1>2, <1>3, FS_Subset, FS_CardinalityType
<1>5. lock[t] = 0 /\ 0 \notin Locks
  BY DEF LockInv, LockShapes, Locks
<1>6. \E l \in Locks : \A o \in Threads : lock[o] # l
  BY <1>4, <1>5
<1> QED
  BY <1>6 DEF NewLock

\* An entry with users has a lock object.
LEMMA UsedEntryHasLock ==
    ASSUME LockInv, NEW k \in Keys, entry[k].users # 0
    PROVE  entry[k].lock \in Locks
<1>1. LockUsers(k) # {}
  BY FS_EmptySet DEF LockInv, LockShapes
<1>2. PICK o \in Threads : place[o] \in WithLock /\ key[o] = k
  BY <1>1 DEF LockUsers
<1> QED
  BY <1>2 DEF LockInv, UsersShareLock, LockShapes

\* A thread goes on without coming to a lock or leaving one.
LEMMA MoveKeepsLocks ==
    ASSUME LockInv, NEW t \in Threads, NEW q, NEW c,
           place' = [place EXCEPT ![t] = q], call' = [call EXCEPT ![t] = c],
           q = "idle"
             \/ /\ c \in [kind : Kinds, ns : Namespaces, source : Sources, profile : Profiles \cup {Unset}]
                /\ q \in PlacesOf(c.kind)
                /\ c.kind = "approve" => c.ns = Draft,
           q \in WithLock <=> place[t] \in WithLock,
           q \in Inside <=> place[t] \in Inside,
           q \in {"wait", "locked", "file model", "file embed", "publish"} =>
             c = call[t] /\ place[t] \in {"wait", "locked", "file model", "file embed", "publish"},
           UNCHANGED locks
    PROVE  LockInv'
<1>1. CallShapes'
  BY DEF LockInv, CallShapes
<1>2. UNCHANGED <<lock, key, entry>>
  BY DEF locks
<1>3. \A o \in Threads : (place[o] \in WithLock)' <=> place[o] \in WithLock
  BY DEF LockInv, CallShapes
<1>4. LockShapes'
  <2>1. \A k : LockUsers(k)' = LockUsers(k)
    BY <1>2, <1>3 DEF LockUsers
  <2> QED
    BY <1>2, <1>3, <2>1 DEF LockInv, LockShapes
<1>5. UsersShareLock'
  BY <1>2, <1>3 DEF LockInv, UsersShareLock
<1>6. OneHolder'
  BY <1>2 DEF LockInv, OneHolder, CallShapes
<1>7. LockOfGoal'
  BY <1>2 DEF LockInv, LockOfGoal, CallShapes, Goal, KeyOf
<1> QED
  BY <1>1, <1>4, <1>5, <1>6, <1>7 DEF LockInv

\* EnterLock: the thread becomes one more user of the entry's lock.
LEMMA EnterLockSound ==
    ASSUME LockInv, NEW t \in Threads, EnterLock(t)
    PROVE  LockInv'
<1> PICK k : k = LockKey(t)
  OBVIOUS
<1> PICK l : l = IF entry[k].users = 0 THEN NewLock ELSE entry[k].lock
  OBVIOUS
<1> PICK q : q = IF place[t] = "enter" THEN "wait" ELSE "wait draft"
  OBVIOUS
<1>1. /\ place[t] \in {"enter", "enter draft"} /\ place' = [place EXCEPT ![t] = q]
      /\ key' = [key EXCEPT ![t] = k] /\ lock' = [lock EXCEPT ![t] = l]
      /\ entry' = [entry EXCEPT ![k] = [lock |-> l, users |-> entry[k].users + 1]]
      /\ call' = call
  BY DEF EnterLock, Step, Go, local
<1>2. /\ k \in Keys
      /\ call[t] \in [kind : Kinds, ns : Namespaces, source : Sources, profile : Profiles \cup {Unset}]
      /\ place[t] \in PlacesOf(call[t].kind)
      /\ place[t] = "enter" => k = Goal(t)
  <2>1. /\ call[t] \in [kind : Kinds, ns : Namespaces, source : Sources, profile : Profiles \cup {Unset}]
        /\ place[t] \in PlacesOf(call[t].kind)
    BY <1>1 DEF LockInv, CallShapes
  <2>2. KeyOf(t) \in Keys /\ <<Target, call[t].source>> \in Keys
    BY <2>1, IndexAssumption DEF KeyOf, Keys
  <2> QED
    BY <2>1, <2>2 DEF LockKey, Goal
<1>3. place[t] \notin WithLock /\ q \in WithLock /\ q \notin Inside /\ q \in PlacesOf(call[t].kind)
  BY <1>1, <1>2 DEF WithLock, Inside, PlacesOf, Kinds
<1>l. l \in Locks /\ l # 0
  <2>1. l \in Locks
    BY <1>2, <1>3, NewLockIsNew, UsedEntryHasLock
  <2> QED
    BY ONLY <2>1 DEF Locks
<1>4. CallShapes'
  <2>1. place' = [o \in Threads |-> place'[o]] /\ place'[t] = q
        /\ \A o \in Threads \ {t} : place'[o] = place[o]
    BY <1>1 DEF LockInv, CallShapes
  <2> QED
    BY <1>1, <1>2, <1>3, <2>1 DEF LockInv, CallShapes
<1>5. LockUsers(k)' = LockUsers(k) \cup {t} /\ t \notin LockUsers(k)
      /\ \A j : j # k => LockUsers(j)' = LockUsers(j)
  BY <1>1, <1>3 DEF LockInv, CallShapes, LockShapes, LockUsers
<1>6. LockShapes'
  <2>1. Cardinality(LockUsers(k)') = Cardinality(LockUsers(k)) + 1
    BY <1>5, LockUsersFinite, FS_AddElement
  <2>2. \A j \in Keys : entry'[j].users = Cardinality(LockUsers(j)')
    BY <1>1, <1>2, <1>5, <2>1 DEF LockInv, LockShapes
  <2>3. entry' \in [Keys -> [lock : Locks \cup {0}, users : Nat]]
    <3>1. entry[k].users + 1 \in Nat
      <4>1. entry[k].users \in Nat
        BY <1>2 DEF LockInv, LockShapes
      <4> QED
        BY ONLY <4>1
    <3> QED
      BY <1>1, <1>2, <1>l, <3>1 DEF LockInv, LockShapes
  <2>4. lock' \in [Threads -> Locks \cup {0}] /\ key' = [o \in Threads |-> key'[o]]
        /\ \A o \in Threads : lock'[o] = 0 <=> place'[o] \notin WithLock
    BY <1>1, <1>3, <1>l DEF LockInv, LockShapes, CallShapes
  <2> QED
    BY <2>2, <2>3, <2>4 DEF LockShapes
<1>7. UsersShareLock'
  <2>1. ASSUME NEW o \in Threads, place'[o] \in WithLock
        PROVE  key'[o] \in Keys /\ lock'[o] = entry'[key'[o]].lock
    <3>1. CASE o = t
      BY <1>1, <1>2, <3>1 DEF LockInv, LockShapes
    <3>2. CASE o # t
      <4>1. /\ place[o] \in WithLock /\ key'[o] = key[o] /\ lock'[o] = lock[o]
            /\ key[o] \in Keys /\ lock[o] = entry[key[o]].lock
        BY <1>1, <2>1, <3>2 DEF LockInv, LockShapes, CallShapes, UsersShareLock
      <4>2. CASE key[o] = k
        <5>1. o \in LockUsers(k)
          BY <4>1, <4>2 DEF LockUsers
        <5>2. entry[k].users # 0
          BY <1>2, <5>1, LockUsersFinite, FS_EmptySet DEF LockInv, LockShapes
        <5> QED
          BY <1>1, <1>2, <4>1, <4>2, <5>2 DEF LockInv, LockShapes
      <4>3. CASE key[o] # k
        BY <1>1, <1>2, <4>1, <4>3 DEF LockInv, LockShapes
      <4> QED
        BY <4>2, <4>3
    <3> QED
      BY <3>1, <3>2
  <2> QED
    BY <2>1 DEF UsersShareLock
<1>8. OneHolder'
  BY <1>1, <1>3 DEF LockInv, OneHolder, CallShapes, LockShapes
<1>9. LockOfGoal'
  BY <1>1, <1>2, <1>3 DEF LockInv, LockOfGoal, CallShapes, LockShapes, Goal, KeyOf
<1> QED
  BY <1>4, <1>6, <1>7, <1>8, <1>9 DEF LockInv

\* TakeLock: nobody else is inside with the lock object.
LEMMA TakeLockSound ==
    ASSUME LockInv, NEW t \in Threads, TakeLock(t)
    PROVE  LockInv'
<1> PICK q : q = IF place[t] = "wait" THEN "locked" ELSE "locked draft"
  OBVIOUS
<1>1. /\ place[t] \in {"wait", "wait draft"} /\ place' = [place EXCEPT ![t] = q]
      /\ UNCHANGED <<call, lock, key, entry>>
      /\ \A o \in Threads : lock[o] = lock[t] => place[o] \notin Inside
  BY DEF TakeLock, Step, Go, local, locks
<1>2. q \in Inside /\ place[t] \in WithLock /\ q \in WithLock
  BY <1>1 DEF WithLock, Inside
<1>3. CallShapes'
  <2>1. q \in PlacesOf(call[t].kind)
    BY <1>1 DEF LockInv, CallShapes, PlacesOf, Kinds
  <2>3. place' = [o \in Threads |-> place'[o]] /\ place'[t] = q
        /\ \A o \in Threads \ {t} : place'[o] = place[o]
    BY <1>1 DEF LockInv, CallShapes
  <2> QED
    BY <1>1, <2>1, <2>3 DEF LockInv, CallShapes
<1>4. \A o \in Threads : (place[o] \in WithLock)' <=> place[o] \in WithLock
  BY <1>1, <1>2 DEF LockInv, CallShapes
<1>5. LockShapes'
  <2>1. \A k : LockUsers(k)' = LockUsers(k)
    BY <1>1, <1>4 DEF LockUsers
  <2> QED
    BY <1>1, <1>4, <2>1 DEF LockInv, LockShapes
<1>6. UsersShareLock'
  BY <1>1, <1>4 DEF LockInv, UsersShareLock
<1>7. OneHolder'
  BY <1>1 DEF LockInv, OneHolder, CallShapes
<1>8. LockOfGoal'
  BY <1>1 DEF LockInv, LockOfGoal, CallShapes, Goal, KeyOf
<1> QED
  BY <1>3, <1>5, <1>6, <1>7, <1>8 DEF LockInv

LEMMA LeaveLockWrites ==
    ASSUME NEW t, LeaveLock(t), entry[key[t]].users # 1
    PROVE  entry' = [entry EXCEPT ![key[t]] =
                        [lock |-> entry[key[t]].lock, users |-> entry[key[t]].users - 1]]
BY DEF LeaveLock

\* LeaveLock: the last user takes the entry away, and nobody else has it.
LEMMA LeaveLockSound ==
    ASSUME LockInv, NEW t \in Threads, LeaveLock(t), place[t] \in Inside,
           NEW q \in {"idle", "enter draft"}, place' = [place EXCEPT ![t] = q],
           q = "idle" \/ (call[t].kind = "approve" /\ place[t] # "idle"),
           NEW c, call' = [call EXCEPT ![t] = c], q = "idle" \/ c = call[t]
    PROVE  LockInv'
<1> PICK k : k = key[t]
  OBVIOUS
<1>1. k \in Keys /\ t \in LockUsers(k) /\ place[t] \in WithLock /\ q \notin WithLock /\ q \notin Inside
  BY DEF LockInv, UsersShareLock, WithLock, Inside, LockUsers
<1> PICK n : n = Cardinality(LockUsers(k))
  OBVIOUS
<1>2. n \in Nat \ {0} /\ entry[k].users = n /\ entry[k] \in [lock : Locks \cup {0}, users : Nat]
  BY <1>1, LockUsersFinite, FS_EmptySet, FS_CardinalityType DEF LockInv, LockShapes
<1>3. n - 1 \in Nat
  BY <1>2, Decrement
<1>4. PICK e \in [lock : Locks \cup {0}, users : Nat] :
        /\ e.users = n - 1
        /\ n # 1 => e.lock = entry[k].lock
        /\ entry' = [entry EXCEPT ![k] = e]
        /\ lock' = [lock EXCEPT ![t] = 0] /\ key' = [key EXCEPT ![t] = <<Unset, Unset>>]
  <2>1. CASE n = 1
    <3> DEFINE e == [lock |-> 0, users |-> 0]
    <3>1. entry' = [entry EXCEPT ![k] = e]
      BY <1>2, <2>1 DEF LeaveLock
    <3>2. e \in [lock : Locks \cup {0}, users : Nat] /\ e.users = 0
      OBVIOUS
    <3>3. n - 1 = 0
      BY <2>1, Decrement
    <3> QED
      BY <2>1, <3>1, <3>2, <3>3 DEF LeaveLock
  <2>2. CASE n # 1
    <3> DEFINE e == [lock |-> entry[k].lock, users |-> n - 1]
    <3>1. entry' = [entry EXCEPT ![k] = e]
      BY <1>2, <2>2, LeaveLockWrites, Zenon
    <3>2. e \in [lock : Locks \cup {0}, users : Nat] /\ e.users = n - 1 /\ e.lock = entry[k].lock
      BY <1>2, <1>3
    <3> QED
      BY <3>1, <3>2 DEF LeaveLock
  <2> QED
    BY <2>1, <2>2
<1>5. CallShapes'
  <2>1. q = "enter draft" => q \in PlacesOf("approve")
    BY DEF PlacesOf
  <2>3. place' = [o \in Threads |-> place'[o]] /\ place'[t] = q
        /\ \A o \in Threads \ {t} : place'[o] = place[o]
    BY DEF LockInv, CallShapes
  <2> QED
    BY <2>1, <2>3 DEF LockInv, CallShapes
<1>6. LockUsers(k)' = LockUsers(k) \ {t} /\ \A j \in Keys : j # k => LockUsers(j)' = LockUsers(j)
  BY <1>1, <1>4 DEF LockInv, CallShapes, LockShapes, LockUsers, Keys
<1>7. LockShapes'
  <2>1. Cardinality(LockUsers(k)') = Cardinality(LockUsers(k)) - 1 /\ Cardinality(LockUsers(k)) \in Nat
    BY <1>1, <1>6, LockUsersFinite, OneUserLess
  <2>2. e.users = Cardinality(LockUsers(k)')
    BY <1>4, <2>1
  <2>3. \A j \in Keys : entry'[j].users = Cardinality(LockUsers(j)')
    BY <1>1, <1>4, <1>6, <2>2 DEF LockInv, LockShapes
  <2>4. entry' \in [Keys -> [lock : Locks \cup {0}, users : Nat]]
    BY <1>1, <1>3, <1>4 DEF LockInv, LockShapes
  <2>5. lock' \in [Threads -> Locks \cup {0}] /\ key' = [o \in Threads |-> key'[o]]
        /\ \A o \in Threads : lock'[o] = 0 <=> place'[o] \notin WithLock
    BY <1>1, <1>4 DEF LockInv, LockShapes, CallShapes
  <2> QED
    BY <2>3, <2>4, <2>5 DEF LockShapes
<1>8. UsersShareLock'
  <2>1. ASSUME NEW o \in Threads, place'[o] \in WithLock
        PROVE  key'[o] \in Keys /\ lock'[o] = entry'[key'[o]].lock
    <3>1. o # t /\ place[o] \in WithLock /\ key'[o] = key[o] /\ lock'[o] = lock[o]
          /\ key[o] \in Keys /\ lock[o] = entry[key[o]].lock
      BY <1>1, <1>4, <2>1 DEF LockInv, LockShapes, CallShapes, UsersShareLock
    <3>2. CASE key[o] = k
      <4>1. o \in LockUsers(k)
        BY <3>1, <3>2 DEF LockUsers
      <4>2. n # 1
        <5>1. \A x : LockUsers(k) # {x}
          BY <1>1, <3>1, <4>1
        <5> QED
          BY <5>1, LockUsersFinite, FS_Singleton
      <4> QED
        BY <1>1, <1>4, <3>1, <3>2, <4>2 DEF LockInv, LockShapes
    <3>3. CASE key[o] # k
      BY <1>1, <1>4, <3>1, <3>3 DEF LockInv, LockShapes
    <3> QED
      BY <3>2, <3>3
  <2> QED
    BY <2>1 DEF UsersShareLock
<1>9. OneHolder'
  BY <1>1, <1>4 DEF LockInv, OneHolder, CallShapes, LockShapes
<1>10. LockOfGoal'
  BY <1>1, <1>4 DEF LockInv, LockOfGoal, CallShapes, LockShapes, Goal, KeyOf, WithLock, Inside
<1> QED
  BY <1>5, <1>7, <1>8, <1>9, <1>10 DEF LockInv

LEMMA GoKeepsLocks ==
    ASSUME LockInv, NEW t \in Threads, NEW q, Go(t, q), UNCHANGED <<locks, call>>,
           place[t] # "idle", q \in PlacesOf(call[t].kind),
           q \in WithLock <=> place[t] \in WithLock,
           q \in Inside <=> place[t] \in Inside,
           q \in {"wait", "locked", "file model", "file embed", "publish"} =>
             place[t] \in {"wait", "locked", "file model", "file embed", "publish"}
    PROVE  LockInv'
<1>1. call' = [call EXCEPT ![t] = call[t]]
  BY DEF LockInv, CallShapes
<1>2. /\ call[t] \in [kind : Kinds, ns : Namespaces, source : Sources, profile : Profiles \cup {Unset}]
      /\ call[t].kind = "approve" => call[t].ns = Draft
  BY DEF LockInv, CallShapes
<1> QED
  BY <1>1, <1>2, MoveKeepsLocks DEF Go

LEMMA ReturnKeepsLocks ==
    ASSUME LockInv, NEW t \in Threads, Return(t), UNCHANGED locks, place[t] \notin WithLock
    PROVE  LockInv'
<1>1. place' = [place EXCEPT ![t] = "idle"] /\ call' = [call EXCEPT ![t] = NoCall]
  BY DEF Return, Go
<1>2. "idle" \notin WithLock /\ "idle" \notin Inside /\ place[t] \notin Inside
  BY DEF WithLock, Inside
<1> QED
  BY <1>1, <1>2, MoveKeepsLocks

LEMMA StayKeepsLocks ==
    ASSUME LockInv, UNCHANGED <<place, call, locks>>
    PROVE  LockInv'
<1>1. UNCHANGED <<place, call, lock, key, entry>>
  BY DEF locks
<1>2. \A k : LockUsers(k)' = LockUsers(k)
  BY <1>1 DEF LockUsers
<1>3. CallShapes'
  BY <1>1 DEF LockInv, CallShapes
<1>4. LockShapes'
  BY <1>1, <1>2 DEF LockInv, LockShapes
<1>5. UsersShareLock' /\ OneHolder' /\ LockOfGoal'
  BY <1>1 DEF LockInv, UsersShareLock, OneHolder, LockOfGoal, Goal, KeyOf
<1> QED
  BY <1>3, <1>4, <1>5 DEF LockInv

\* What the places of a call leave to a thread.
LEMMA PlacesOfCall ==
    ASSUME LockInv, NEW t \in Threads, place[t] # "idle"
    PROVE  /\ call[t].kind \in Kinds /\ place[t] \in PlacesOf(call[t].kind)
           /\ call[t].ns \in Namespaces /\ call[t].source \in Sources
           /\ call[t].profile \in Profiles \cup {Unset}
           /\ call[t].kind = "approve" => call[t].ns = Draft
           /\ KeyOf(t) \in Keys /\ Goal(t) \in Keys
<1>1. /\ call[t] \in [kind : Kinds, ns : Namespaces, source : Sources, profile : Profiles \cup {Unset}]
      /\ place[t] \in PlacesOf(call[t].kind)
      /\ call[t].kind = "approve" => call[t].ns = Draft
  BY DEF LockInv, CallShapes
<1>2. KeyOf(t) \in Keys /\ <<Target, call[t].source>> \in Keys
  BY <1>1, IndexAssumption DEF KeyOf, Keys
<1> QED
  BY <1>1, <1>2 DEF Goal

LEMMA CallKeepsLocks ==
    ASSUME LockInv, NEW t \in Threads, NEW kind \in Kinds, NEW n \in Namespaces, NEW s \in Sources,
           NEW p \in Profiles \cup {Unset}, Call(t, kind, n, s, p)
    PROVE  LockInv'
<1> DEFINE c == [kind |-> kind, ns |-> n, source |-> s, profile |-> p]
           q == IF kind = "delete" THEN "enter" ELSE kind
<1>1. /\ place[t] = "idle" /\ place' = [place EXCEPT ![t] = q] /\ call' = [call EXCEPT ![t] = c]
      /\ UNCHANGED locks /\ (kind = "approve" => n = Draft)
  BY DEF Call, Go
<1>2. c \in [kind : Kinds, ns : Namespaces, source : Sources, profile : Profiles \cup {Unset}]
      /\ c.kind = kind /\ c.ns = n
  OBVIOUS
<1>3. q \in PlacesOf(kind) /\ q \in {"enter"} \cup Kinds
  BY DEF PlacesOf, Kinds
<1>4. /\ q \notin WithLock /\ q \notin Inside
      /\ q \notin {"wait", "locked", "file model", "file embed", "publish"}
      /\ "idle" \notin WithLock /\ "idle" \notin Inside
  BY <1>3 DEF Kinds, WithLock, Inside
<1> HIDE DEF c, q
<1> QED
  BY <1>1, <1>2, <1>3, <1>4, MoveKeepsLocks

\* The steps on the way to a lock, inside it and without one.
LEMMA WorkKeepsLocks ==
    ASSUME LockInv, NEW t \in Threads, Work(t)
    PROVE  LockInv'
<1> USE DEF WithLock, Inside
<1>1. CASE EnterLock(t)
  BY <1>1, EnterLockSound
<1>2. CASE TakeLock(t)
  BY <1>2, TakeLockSound
<1>3. CASE Leave(t)
  <2>1. /\ place[t] = "leave" /\ LeaveLock(t)
        /\ place' = [place EXCEPT ![t] = "idle"] /\ call' = [call EXCEPT ![t] = NoCall]
    BY <1>3 DEF Leave, Return, Go
  <2> QED
    BY <2>1, LeaveLockSound
<1>4. CASE TakeModel(t)
  <2>1. place[t] # "idle" /\ UNCHANGED <<locks, call>>
    BY <1>4 DEF TakeModel, Step, local
  <2>2. PICK q : Go(t, q) /\ <<place[t], q>> \in {<<"model", "embed">>, <<"file model", "file embed">>,
                                                <<"reindex model", "reindex embed">>}
    BY <1>4 DEF TakeModel, Step
  <2>3. q \in PlacesOf(call[t].kind)
    BY <2>1, <2>2, PlacesOfCall DEF PlacesOf, Kinds
  <2> QED
    BY <2>1, <2>2, <2>3, GoKeepsLocks
<1>5. CASE Refuse(t) \/ EmbedAll(t) \/ EmbedFails(t) \/ ReplaceEmbeddings(t)
  <2>1. Return(t) /\ UNCHANGED locks
        /\ place[t] \in {"text", "approve", "reindex source", "embed", "reindex embed"}
    BY <1>5 DEF Refuse, Refused, EmbedAll, EmbedFails, ReplaceEmbeddings
  <2> QED
    BY <2>1, ReturnKeepsLocks
<1>6. CASE PrepareText(t) \/ WriteSource(t) \/ WriteChunks(t) \/ PrepareFile(t) \/ ReadDraft(t) \/ ReadSource(t)
  <2>1. UNCHANGED <<locks, call>>
    BY <1>6 DEF PrepareText, WriteSource, WriteChunks, PrepareFile, ReadDraft, ReadSource, local
  <2>2. PICK q : Go(t, q) /\ <<place[t], q>> \in {<<"text", "text source">>, <<"text source", "text chunks">>,
                     <<"text chunks", "model">>, <<"file", "enter">>, <<"approve", "enter">>,
                     <<"reindex source", "model">>}
    BY <1>6 DEF PrepareText, WriteSource, WriteChunks, PrepareFile, ReadDraft, ReadSource, Step
  <2>3. place[t] # "idle" /\ q \in PlacesOf(call[t].kind)
    BY <2>2, PlacesOfCall DEF PlacesOf, Kinds
  <2> QED
    BY <2>1, <2>2, <2>3, GoKeepsLocks
<1>7. CASE EmbedChunk(t)
  <2>1. UNCHANGED <<place, call, locks>>
    BY <1>7 DEF EmbedChunk
  <2> QED
    BY <2>1, StayKeepsLocks
<1>8. CASE ValidateFile(t) \/ EmbedFile(t)
  <2>1. UNCHANGED <<locks, call>>
    BY <1>8 DEF ValidateFile, EmbedFile, local
  <2>2. PICK q : Go(t, q)
          /\ \/ place[t] = "locked" /\ call[t].kind = "file" /\ q \in {"file model", "leave"}
             \/ place[t] = "file embed" /\ q \in {"publish", "leave"}
    BY <1>8 DEF ValidateFile, EmbedFile
  <2>3. place[t] # "idle" /\ q \in PlacesOf(call[t].kind)
    BY <2>2, PlacesOfCall DEF PlacesOf, Kinds
  <2> QED
    BY <2>1, <2>2, <2>3, GoKeepsLocks
<1>12. CASE WriteTarget(t)
  <2>1. UNCHANGED <<locks, call>> /\ Go(t, "draft chunks") /\ place[t] = "locked" /\ call[t].kind = "approve"
    BY <1>12 DEF WriteTarget, Step, local
  <2>2. "draft chunks" \in PlacesOf(call[t].kind)
    BY <2>1 DEF PlacesOf
  <2> QED
    BY <2>1, <2>2, GoKeepsLocks
<1>13. CASE CopyChunks(t)
  <2>1. /\ place[t] = "draft chunks" /\ LeaveLock(t) /\ call' = call
        /\ place' = [place EXCEPT ![t] = "enter draft"]
    BY <1>13 DEF CopyChunks, Step, Go, local
  <2>2. call[t].kind = "approve"
    BY <2>1, PlacesOfCall DEF PlacesOf, Kinds
  <2>3. call' = [call EXCEPT ![t] = call[t]]
    BY <2>1 DEF LockInv, CallShapes
  <2> QED
    BY <2>1, <2>2, <2>3, LeaveLockSound
<1>9. CASE PublishFile(t) \/ DeleteSource(t) \/ DeleteDraft(t)
  <2>1. UNCHANGED <<locks, call>>
    BY <1>9 DEF PublishFile, DeleteSource, DeleteDraft, local
  <2>2. Go(t, "leave") /\ place[t] \in {"publish", "locked", "locked draft"}
    BY <1>9 DEF PublishFile, DeleteSource, DeleteDraft, Step
  <2>3. place[t] # "idle" /\ "leave" \in PlacesOf(call[t].kind)
    BY <2>2, PlacesOfCall DEF PlacesOf, Kinds
  <2> QED
    BY <2>1, <2>2, <2>3, GoKeepsLocks
<1>10. CASE PublishDraft(t)
  <2>1. place[t] = "locked" /\ call[t].kind = "approve" /\ LeaveLock(t)
    BY <1>10 DEF PublishDraft
  <2>2. CASE Embeddings(Draft, {gen[t]}, uses[t]) \subseteq embedded
    <3>1. place' = [place EXCEPT ![t] = "enter draft"] /\ call' = call
      BY <1>10, <2>2 DEF PublishDraft, Go, local
    <3>2. call' = [call EXCEPT ![t] = call[t]]
      BY <3>1 DEF LockInv, CallShapes
    <3> QED
      BY <2>1, <3>1, <3>2, LeaveLockSound
  <2>3. CASE ~(Embeddings(Draft, {gen[t]}, uses[t]) \subseteq embedded)
    <3>1. place' = [place EXCEPT ![t] = "idle"] /\ call' = [call EXCEPT ![t] = NoCall]
      BY <1>10, <2>3 DEF PublishDraft, Return, Go
    <3> QED
      BY <2>1, <3>1, LeaveLockSound
  <2> QED
    BY <2>2, <2>3
<1>11. CASE ReadNamespace(t)
  <2>1. place[t] = "reindex" /\ UNCHANGED locks
    BY <1>11 DEF ReadNamespace
  <2>2. CASE Return(t)
    BY <2>1, <2>2, ReturnKeepsLocks
  <2>3. CASE Go(t, "reindex model") /\ UNCHANGED call
    <3>1. "reindex model" \in PlacesOf(call[t].kind)
      BY <2>1, PlacesOfCall DEF PlacesOf, Kinds
    <3> QED
      BY <2>1, <2>3, <3>1, GoKeepsLocks
  <2> QED
    BY <1>11, <2>2, <2>3 DEF ReadNamespace
<1> QED
  BY <1>1, <1>2, <1>3, <1>4, <1>5, <1>6, <1>7, <1>8, <1>9, <1>10, <1>11, <1>12, <1>13 DEF Work

LEMMA LocksKept == LockInv /\ [IndexNext]_indexVars => LockInv'
<1> SUFFICES ASSUME LockInv, [IndexNext]_indexVars PROVE LockInv'
  OBVIOUS
<1>1. CASE IndexNext
  BY <1>1, WorkKeepsLocks, CallKeepsLocks DEF IndexNext
<1>2. CASE UNCHANGED indexVars
  BY <1>2, StayKeepsLocks DEF indexVars, local
<1> QED
  BY <1>1, <1>2

LEMMA LocksAtFirst == IndexInit => LockInv
<1> SUFFICES ASSUME IndexInit PROVE LockInv
  OBVIOUS
<1>1. \A t \in Threads : place[t] = "idle" /\ place[t] \notin WithLock /\ place[t] \notin Inside /\ lock[t] = 0
  BY DEF IndexInit, WithLock, Inside
<1>2. \A k : LockUsers(k) = {}
  BY <1>1 DEF LockUsers
<1>3. LockShapes
  BY <1>1, <1>2, FS_EmptySet DEF IndexInit, LockShapes
<1>4. CallShapes
  BY <1>1 DEF IndexInit, CallShapes
<1> QED
  BY <1>1, <1>3, <1>4 DEF LockInv, UsersShareLock, OneHolder, LockOfGoal

\* Never two threads inside the lock of one source, whatever calls overlap:
\* its lock object, which is made with its first user and thrown away with its
\* last, is the same for all that meet at it (_source_lock).
THEOREM SourcesAreLocked == IndexSpec => []OneInsideSource
<1>1. LockInv => OneInsideSource
  BY DEF LockInv, UsersShareLock, OneHolder, OneInsideSource, WithLock
<1> QED
  BY <1>1, LocksKept, LocksAtFirst, PTL DEF IndexSpec

-----------------------------------------------------------------------------
(* What is in the index, whatever calls overlap.                            *)

OthersStay(t) ==
    \A o \in Threads \ {t} :
        /\ place'[o] = place[o] /\ call'[o] = call[o] /\ key'[o] = key[o]
        /\ gen'[o] = gen[o] /\ uses'[o] = uses[o] /\ seen'[o] = seen[o] /\ done'[o] = done[o]

LEMMA ProfilesResolve ==
    ASSUME LockInv, StoreShapes, NEW t \in Threads, place[t] # "idle"
    PROVE  Wanted(t) \in Profiles /\ Current(call[t].ns) \in Profiles /\ Current(Draft) \in Profiles
<1>1. call[t].ns \in Namespaces /\ call[t].profile \in Profiles \cup {Unset}
  BY PlacesOfCall
<1>2. \A n \in Namespaces : Current(n) \in Profiles
  BY IndexAssumption DEF Current, StoreShapes
<1> QED
  BY <1>1, <1>2, IndexAssumption DEF Wanted

\* A step of a thread leaves what the others know alone, and its call as it is
\* until it returns.
LEMMA WorkIsLocal ==
    ASSUME LockInv, LocalShapes, StoreShapes, NEW t \in Threads, Work(t)
    PROVE  /\ OthersStay(t) /\ LocalShapes'
           /\ place'[t] = "idle" \/ (place[t] # "idle" /\ call'[t] = call[t])
<1> USE DEF OthersStay, LocalShapes
<1>1. place = [o \in Threads |-> place[o]] /\ call = [o \in Threads |-> call[o]]
      /\ key = [o \in Threads |-> key[o]]
  BY DEF LockInv, CallShapes, LockShapes
<1>2. ASSUME Return(t), UNCHANGED locks \/ LeaveLock(t)
      PROVE  OthersStay(t) /\ LocalShapes' /\ place'[t] = "idle"
  BY <1>1, <1>2 DEF Return, Go, locks, LeaveLock
<1>3. ASSUME NEW q, Go(t, q), place[t] # "idle", UNCHANGED call,
             UNCHANGED locks \/ LeaveLock(t) \/ \E k : key' = [key EXCEPT ![t] = k], LocalShapes',
             \A o \in Threads \ {t} : gen'[o] = gen[o] /\ uses'[o] = uses[o] /\ seen'[o] = seen[o]
                                      /\ done'[o] = done[o]
      PROVE  OthersStay(t) /\ LocalShapes' /\ place[t] # "idle" /\ call'[t] = call[t]
  BY <1>1, <1>3 DEF Go, locks, LeaveLock
<1>4. CASE Leave(t) \/ Refuse(t) \/ EmbedAll(t) \/ EmbedFails(t) \/ ReplaceEmbeddings(t)
  BY <1>2, <1>4 DEF Leave, Refuse, EmbedAll, EmbedFails, ReplaceEmbeddings
<1>5. CASE EnterLock(t) \/ TakeLock(t) \/ TakeModel(t) \/ WriteSource(t) \/ WriteChunks(t) \/ EmbedFile(t)
           \/ PublishFile(t) \/ DeleteSource(t) \/ DeleteDraft(t) \/ WriteTarget(t) \/ CopyChunks(t)
  <2>1. UNCHANGED local
    BY <1>5 DEF EnterLock, TakeLock, TakeModel, WriteSource, WriteChunks, EmbedFile,
                PublishFile, DeleteSource, DeleteDraft, WriteTarget, CopyChunks
  <2>2. \E q : Go(t, q) /\ place[t] # "idle"
    BY <1>5 DEF EnterLock, TakeLock, TakeModel, WriteSource, WriteChunks, EmbedFile,
                PublishFile, DeleteSource, DeleteDraft, WriteTarget, CopyChunks, Step
  <2>3. UNCHANGED locks \/ LeaveLock(t) \/ \E k : key' = [key EXCEPT ![t] = k]
    BY <1>5 DEF EnterLock, TakeLock, TakeModel, WriteSource, WriteChunks, EmbedFile,
                PublishFile, DeleteSource, DeleteDraft, WriteTarget, CopyChunks
  <2>4. UNCHANGED <<call, gen, uses, seen, done>>
    BY <2>1 DEF local
  <2>5. LocalShapes'
    BY <2>4
  <2> QED
    BY <1>3, <2>2, <2>3, <2>4, <2>5
<1>6. CASE PrepareText(t) \/ PrepareFile(t) \/ ReadDraft(t) \/ ReadSource(t) \/ ValidateFile(t)
  <2>1. /\ \E q : Go(t, q) /\ place[t] # "idle"
        /\ UNCHANGED <<call, seen, done, locks>>
        /\ \E g : gen' = [gen EXCEPT ![t] = g] /\ (g = gen[t] \/ g = made + 1 \/ g = rows[KeyOf(t)].gen)
        /\ \E p : uses' = [uses EXCEPT ![t] = p]
                  /\ (p = uses[t] \/ p = Wanted(t) \/ p = Current(call[t].ns) \/ p = Current(Draft))
    <3>1. gen = [gen EXCEPT ![t] = gen[t]] /\ uses = [uses EXCEPT ![t] = uses[t]]
      OBVIOUS
    <3> QED
      BY <1>6, <3>1 DEF PrepareText, PrepareFile, ReadDraft, ReadSource, ValidateFile, Step
  <2>2. KeyOf(t) \in Keys
    BY <2>1, PlacesOfCall
  <2>4. Wanted(t) \in Profiles /\ Current(call[t].ns) \in Profiles /\ Current(Draft) \in Profiles
    BY <2>1, ProfilesResolve
  <2>5. rows[KeyOf(t)].gen \in Nat /\ made + 1 \in Nat
    BY <2>2 DEF StoreShapes
  <2>6. LocalShapes'
    BY <2>1, <2>4, <2>5
  <2> QED
    BY <1>3, <2>1, <2>6
<1>7. CASE EmbedChunk(t)
  <2>1. /\ UNCHANGED <<place, call, gen, uses, seen, locks>> /\ place[t] = "embed"
        /\ done' = [done EXCEPT ![t] = done[t] + 1]
    BY <1>7 DEF EmbedChunk
  <2>2. done[t] + 1 \in Nat
    OBVIOUS
  <2> QED
    BY <2>1, <2>2 DEF locks
<1>8. CASE PublishDraft(t)
  <2>1. /\ LeaveLock(t)
        /\ Return(t) \/ (Go(t, "enter draft") /\ place[t] # "idle" /\ UNCHANGED local)
    BY <1>8 DEF PublishDraft
  <2>2. CASE Return(t)
    BY <1>2, <2>1, <2>2
  <2>3. CASE Go(t, "enter draft") /\ place[t] # "idle" /\ UNCHANGED local
    <3>1. UNCHANGED <<call, gen, uses, seen, done>>
      BY <2>3 DEF local
    <3>2. LocalShapes'
      BY <3>1
    <3> QED
      BY <1>3, <2>1, <2>3, <3>1, <3>2
  <2> QED
    BY <2>1, <2>2, <2>3
<1>9. CASE ReadNamespace(t)
  <2>1. CASE Return(t)
    BY <1>2, <1>9, <2>1 DEF ReadNamespace
  <2>2. CASE ~Return(t)
    <3>1. /\ Go(t, "reindex model") /\ place[t] = "reindex" /\ UNCHANGED <<call, gen, done, locks>>
          /\ seen' = [seen EXCEPT ![t] = Active(call[t].ns)]
          /\ uses' = [uses EXCEPT ![t] = Wanted(t)]
      BY <1>9, <2>2 DEF ReadNamespace
    <3>2. Wanted(t) \in Profiles
      BY <3>1, ProfilesResolve
    <3>3. LocalShapes'
      BY <3>1, <3>2
    <3> QED
      BY <1>3, <3>1, <3>3
  <2> QED
    BY <2>1, <2>2
<1> QED
  BY <1>4, <1>5, <1>6, <1>7, <1>8, <1>9 DEF Work

\* The moves of a thread, with the kinds of call that make them.
Moves ==
    { <<"enter", "wait">>, <<"enter draft", "wait draft">>, <<"wait", "locked">>,
      <<"wait draft", "locked draft">>, <<"leave", "idle">>, <<"model", "embed">>,
      <<"file model", "file embed">>, <<"reindex model", "reindex embed">>,
      <<"text", "idle">>, <<"approve", "idle">>, <<"reindex source", "idle">>,
      <<"text", "text source">>, <<"text source", "text chunks">>, <<"text chunks", "model">>,
      <<"embed", "embed">>, <<"embed", "idle">>, <<"reindex embed", "idle">>, <<"file", "enter">>,
      <<"locked", "file model">>, <<"locked", "leave">>, <<"file embed", "publish">>,
      <<"file embed", "leave">>, <<"publish", "leave">>, <<"approve", "enter">>,
      <<"locked", "enter draft">>, <<"locked", "idle">>, <<"locked", "draft chunks">>,
      <<"draft chunks", "enter draft">>, <<"locked draft", "leave">>, <<"reindex source", "model">>,
      <<"reindex", "idle">>, <<"reindex", "reindex model">> }

LEMMA WorkMoves ==
    ASSUME LockInv, NEW t \in Threads, Work(t)
    PROVE  <<place[t], place'[t]>> \in Moves
<1>1. place = [o \in Threads |-> place[o]]
  BY DEF LockInv, CallShapes
<1>2. \A q : Go(t, q) => place'[t] = q
  BY <1>1 DEF Go
<1>3. Return(t) => place'[t] = "idle"
  BY <1>2 DEF Return
<1> USE DEF Moves
<1>4. CASE EnterLock(t) \/ TakeLock(t) \/ TakeModel(t)
  BY <1>2, <1>4 DEF EnterLock, TakeLock, TakeModel, Step
<1>5. CASE Leave(t) \/ Refuse(t) \/ EmbedAll(t) \/ EmbedFails(t) \/ ReplaceEmbeddings(t)
  BY <1>3, <1>5 DEF Leave, Refuse, Refused, EmbedAll, EmbedFails, ReplaceEmbeddings
<1>6. CASE PrepareText(t) \/ WriteSource(t) \/ WriteChunks(t) \/ PrepareFile(t) \/ ReadDraft(t) \/ ReadSource(t)
  BY <1>2, <1>6 DEF PrepareText, WriteSource, WriteChunks, PrepareFile, ReadDraft, ReadSource, Step
<1>7. CASE EmbedChunk(t)
  BY <1>7 DEF EmbedChunk
<1>8. CASE ValidateFile(t) \/ EmbedFile(t) \/ PublishFile(t) \/ DeleteSource(t) \/ DeleteDraft(t)
           \/ WriteTarget(t) \/ CopyChunks(t)
  BY <1>2, <1>8 DEF ValidateFile, EmbedFile, PublishFile, DeleteSource, DeleteDraft, WriteTarget,
                    CopyChunks, Step
<1>9. CASE PublishDraft(t)
  BY <1>2, <1>3, <1>9 DEF PublishDraft
<1>10. CASE ReadNamespace(t)
  BY <1>2, <1>3, <1>10 DEF ReadNamespace
<1> QED
  BY <1>4, <1>5, <1>6, <1>7, <1>8, <1>9, <1>10 DEF Work

\* A generation that no source and no other thread has.
Fresh(t, g) ==
    /\ \/ Unwritten(t) /\ g = gen[t] /\ made' = made
       \/ made' = made + 1 /\ g = made'
    /\ ~Unwritten(t)' /\ gen'[t] \in {gen[t], 0}

\* What a step does to rows and vectors: it leaves the rows, writes a fresh
\* generation to one or deletes one.
LEMMA StoreChanges ==
    ASSUME IndexInv, NEW t \in Threads, Work(t)
    PROVE  \/ UNCHANGED rows /\ (embedded \subseteq embedded' \/ ReplaceEmbeddings(t))
           \/ \E k \in Keys : \E g : /\ Fresh(t, g) /\ ReplaceChunks(k, g)
                                     /\ \E n : Remaining(n, k) \subseteq embedded'
           \/ \E k \in Keys : RemoveSource(k) /\ UNCHANGED made /\ gen'[t] = gen[t]
<1>1. LockInv /\ StoreShapes /\ LocalShapes
  BY DEF IndexInv
<1>2. OthersStay(t) /\ (place'[t] = "idle" \/ (place[t] # "idle" /\ call'[t] = call[t]))
  BY <1>1, WorkIsLocal
<1>3. place = [o \in Threads |-> place[o]]
  BY <1>1 DEF LockInv, CallShapes
<1>4. \A q : Go(t, q) => place'[t] = q
  BY <1>3 DEF Go
<1>5. place[t] \in WithLock => key[t] \in Keys
  BY <1>1 DEF LockInv, UsersShareLock
<1>6. CASE WriteChunks(t)
  <2>1. /\ place[t] = "text chunks" /\ place'[t] = "model" /\ UNCHANGED <<made, gen>>
        /\ ReplaceChunks(KeyOf(t), gen[t]) /\ embedded' = Remaining(call[t].ns, KeyOf(t))
    BY <1>4, <1>6 DEF WriteChunks, Step, local
  <2>2. KeyOf(t) \in Keys /\ Unwritten(t)
    BY <1>1, <2>1, PlacesOfCall DEF Unwritten, PlacesOf, Kinds
  <2>3. ~Unwritten(t)'
    BY <2>1 DEF Unwritten
  <2> QED
    BY <2>1, <2>2, <2>3 DEF Fresh
<1>7. CASE PublishFile(t)
  <2>1. /\ place[t] = "publish" /\ place'[t] = "leave" /\ UNCHANGED <<made, gen>>
        /\ Bundle(key[t], gen[t], uses[t]) \/ UNCHANGED <<rows, embedded>>
    BY <1>4, <1>7 DEF PublishFile, Step, local
  <2>2. key[t] \in Keys /\ Unwritten(t)
    BY <1>1, <1>5, <2>1, PlacesOfCall DEF Unwritten, PlacesOf, Kinds, WithLock, Inside
  <2>3. ~Unwritten(t)'
    BY <2>1 DEF Unwritten
  <2>4. CASE UNCHANGED <<rows, embedded>>
    BY <2>4
  <2>5. CASE Bundle(key[t], gen[t], uses[t])
    BY <2>1, <2>2, <2>3, <2>5 DEF Fresh, Bundle
  <2> QED
    BY <2>1, <2>4, <2>5
<1>8. CASE PublishDraft(t)
  <2>1. CASE Embeddings(Draft, {gen[t]}, uses[t]) \subseteq embedded
    <3>1. /\ place[t] = "locked" /\ place'[t] = "enter draft" /\ made' = made + 1 /\ UNCHANGED gen
          /\ Bundle(key[t], made', uses[t]) /\ call[t].kind = "approve"
      BY <1>4, <1>8, <2>1 DEF PublishDraft, local
    <3>2. key[t] \in Keys /\ ~Unwritten(t)'
      BY <1>5, <3>1 DEF Unwritten, WithLock, Inside
    <3> QED
      BY <3>1, <3>2 DEF Fresh, Bundle
  <2>2. CASE ~(Embeddings(Draft, {gen[t]}, uses[t]) \subseteq embedded)
    BY <1>8, <2>2 DEF PublishDraft, store
  <2> QED
    BY <2>1, <2>2
<1>9. CASE CopyChunks(t)
  <2>1. /\ place[t] = "draft chunks" /\ place'[t] = "enter draft" /\ made' = made + 1 /\ UNCHANGED <<gen, call>>
        /\ ReplaceChunks(key[t], made') /\ embedded' = Remaining(Target, key[t])
    BY <1>4, <1>9 DEF CopyChunks, Step, local
  <2>2. key[t] \in Keys /\ call'[t].kind = "approve"
    BY <1>1, <1>5, <2>1, PlacesOfCall DEF PlacesOf, Kinds, WithLock, Inside
  <2>3. ~Unwritten(t)'
    BY <2>1, <2>2 DEF Unwritten
  <2> QED
    BY <2>1, <2>2, <2>3 DEF Fresh
<1>10. CASE DeleteSource(t) \/ DeleteDraft(t)
  <2>1. RemoveSource(key[t]) /\ UNCHANGED <<made, gen>> /\ place[t] \in {"locked", "locked draft"}
    BY <1>10 DEF DeleteSource, DeleteDraft, Step, local
  <2> QED
    BY <1>5, <2>1 DEF WithLock, Inside
<1>11. CASE EmbedChunk(t) \/ ReplaceEmbeddings(t)
  BY <1>11 DEF EmbedChunk, ReplaceEmbeddings
<1>12. CASE EnterLock(t) \/ TakeLock(t) \/ Leave(t) \/ TakeModel(t) \/ Refuse(t) \/ PrepareText(t)
            \/ WriteSource(t) \/ EmbedAll(t) \/ EmbedFails(t) \/ PrepareFile(t) \/ ValidateFile(t)
            \/ EmbedFile(t) \/ ReadDraft(t) \/ WriteTarget(t) \/ ReadSource(t) \/ ReadNamespace(t)
  <2>1. UNCHANGED <<rows, embedded>>
    BY <1>12 DEF EnterLock, TakeLock, Leave, TakeModel, Refuse, PrepareText, WriteSource, EmbedAll,
                 EmbedFails, PrepareFile, ValidateFile, EmbedFile, ReadDraft, WriteTarget, ReadSource,
                 ReadNamespace, store
  <2> QED
    BY <2>1
<1> QED
  BY <1>6, <1>7, <1>8, <1>9, <1>10, <1>11, <1>12 DEF Work

\* A fresh generation is nobody's.
LEMMA FreshIsNew ==
    ASSUME IndexInv, NEW t \in Threads, NEW g, Fresh(t, g)
    PROVE  /\ g \in Nat \ {0} /\ g <= made' /\ made \in Nat /\ made' \in Nat /\ made <= made'
           /\ \A k \in Keys : rows[k].gen # g
           /\ \A o \in Threads \ {t} : gen[o] # g
<1>1. /\ made \in Nat /\ \A k \in Keys : rows[k].gen \in Nat /\ rows[k].gen <= made
      /\ \A o \in Threads : gen[o] \in Nat /\ gen[o] <= made
  BY DEF IndexInv, Generations, StoreShapes, LocalShapes
<1>2. CASE Unwritten(t) /\ g = gen[t] /\ made' = made
  <2>1. gen[t] # 0 /\ (\A k \in Keys : rows[k].gen # gen[t]) /\ \A o \in Threads \ {t} : gen[o] # gen[t]
    BY <1>2 DEF IndexInv, Generations
  <2>2. gen[t] \in Nat \ {0} /\ gen[t] <= made
    BY <1>1, <2>1
  <2> QED
    BY <1>1, <1>2, <2>1, <2>2
<1>3. CASE made' = made + 1 /\ g = made'
  <2>1. g \in Nat \ {0} /\ g <= made' /\ made' \in Nat /\ made <= made'
    BY ONLY <1>1, <1>3
  <2>2. ASSUME NEW k \in Keys PROVE rows[k].gen # g
    <3>1. rows[k].gen \in Nat /\ rows[k].gen <= made
      BY <1>1
    <3> QED
      BY ONLY <1>1, <1>3, <3>1
  <2>3. ASSUME NEW o \in Threads PROVE gen[o] # g
    <3>1. gen[o] \in Nat /\ gen[o] <= made
      BY <1>1
    <3> QED
      BY ONLY <1>1, <1>3, <3>1
  <2> QED
    BY <1>1, <2>1, <2>2, <2>3
<1> QED
  BY <1>2, <1>3 DEF Fresh

\* Vectors of a source that is not itself written or deleted stay, unless a
\* reindex replaces them.
LEMMA VectorsStay ==
    ASSUME IndexInv, NEW t \in Threads, Work(t), ~ReplaceEmbeddings(t),
           NEW k \in Keys, rows[k].active, rows'[k] = rows[k],
           NEW i, NEW p, <<k[1], rows[k].gen, i, p>> \in embedded
    PROVE  <<k[1], rows[k].gen, i, p>> \in embedded'
<1> PICK e : e = <<k[1], rows[k].gen, i, p>>
  OBVIOUS
<1>1. e[1] = k[1] /\ e[2] = rows[k].gen /\ e \in embedded
  OBVIOUS
<1>2. ASSUME NEW j \in Keys, NEW g, Fresh(t, g), ReplaceChunks(j, g), NEW n, Remaining(n, j) \subseteq embedded'
      PROVE  e \in embedded'
  <2>1. rows'[j] = [gen |-> g, active |-> TRUE]
    BY <1>2 DEF ReplaceChunks, IndexInv, StoreShapes
  <2>2. rows[k].gen # g
    BY <1>2, FreshIsNew
  <2>3. k \in Keys \ {j}
    BY <2>1, <2>2
  <2>4. e \in Remaining(n, j)
    BY <1>1, <2>3 DEF Remaining
  <2> QED
    BY <1>2, <2>4
<1>3. ASSUME NEW j \in Keys, RemoveSource(j)
      PROVE  e \in embedded'
  <2>1. rows'[j].active = FALSE
    BY <1>3 DEF RemoveSource, IndexInv, StoreShapes
  <2>2. k # j
    BY <2>1
  <2>3. rows[k].gen # rows[j].gen
    BY <2>2 DEF IndexInv, Generations
  <2> QED
    BY <1>1, <1>3, <2>3 DEF RemoveSource
<1> QED
  BY <1>1, <1>2, <1>3, StoreChanges

\* A row that is active after a step was so before it, or is written by it.
LEMMA RowIsNewOrSame ==
    ASSUME IndexInv, NEW t \in Threads, Work(t), NEW k \in Keys, rows'[k].active
    PROVE  rows'[k] = rows[k] \/ Fresh(t, rows'[k].gen)
<1>1. ASSUME NEW j \in Keys, NEW g, Fresh(t, g), ReplaceChunks(j, g)
      PROVE  rows'[k] = rows[k] \/ Fresh(t, rows'[k].gen)
  <2>1. rows'[k] = IF k = j THEN [gen |-> g, active |-> TRUE] ELSE rows[k]
    BY <1>1 DEF ReplaceChunks, IndexInv, StoreShapes
  <2> QED
    BY <1>1, <2>1
<1>2. ASSUME NEW j \in Keys, RemoveSource(j)
      PROVE  rows'[k] = rows[k]
  <2>1. rows \in [Keys -> [gen : Nat, active : BOOLEAN]] /\ rows' = [rows EXCEPT ![j].active = FALSE]
    BY <1>2 DEF RemoveSource, IndexInv, StoreShapes
  <2>2. k # j
    BY <2>1
  <2> QED
    BY <2>1, <2>2
<1> QED
  BY <1>1, <1>2, StoreChanges

\* Where a thread has its generation from.
LEMMA OwnGeneration ==
    ASSUME IndexInv, NEW t \in Threads, Work(t)
    PROVE  /\ made' \in {made, made + 1}
           /\ \/ /\ gen'[t] \in {gen[t], 0}
                 /\ Unwritten(t)' => Unwritten(t) /\ gen'[t] = gen[t] /\ made' = made
              \/ UNCHANGED rows /\ made' = made + 1 /\ gen'[t] = made'
              \/ /\ UNCHANGED <<rows, made>> /\ ~Unwritten(t)'
                 /\ \E k \in Keys : gen'[t] = rows[k].gen
<1>1. LockInv /\ LocalShapes /\ StoreShapes
  BY DEF IndexInv
<1>2. place'[t] = "idle" \/ (place[t] # "idle" /\ call'[t] = call[t])
  BY <1>1, WorkIsLocal
<1>3. <<place[t], place'[t]>> \in Moves
  BY <1>1, WorkMoves
<1>4. place[t] # "idle" => /\ place[t] \in PlacesOf(call[t].kind) /\ call[t].kind \in Kinds
                           /\ KeyOf(t) \in Keys
  BY <1>1, PlacesOfCall
<1>5. CASE PrepareText(t) \/ PrepareFile(t)
  BY <1>1, <1>5 DEF PrepareText, PrepareFile, LocalShapes
<1>6. CASE ReadDraft(t) \/ ReadSource(t)
  <2>1. /\ place[t] \in {"approve", "reindex source"} /\ UNCHANGED <<rows, made>>
        /\ gen'[t] = rows[KeyOf(t)].gen
    BY <1>1, <1>6 DEF ReadDraft, ReadSource, Step, store, LocalShapes
  <2>2. ~Unwritten(t)' /\ KeyOf(t) \in Keys
    BY <1>2, <1>4, <2>1 DEF Unwritten, PlacesOf, Kinds
  <2> QED
    BY <2>1, <2>2
<1>7. CASE ~(PrepareText(t) \/ PrepareFile(t) \/ ReadDraft(t) \/ ReadSource(t))
  <2>1. gen'[t] = gen[t] \/ (gen'[t] = 0 /\ place'[t] = "idle")
    <3>1. \A q : Go(t, q) => place'[t] = q
      BY <1>1 DEF Go, LockInv, CallShapes
    <3>2. Return(t) => gen'[t] = 0 /\ place'[t] = "idle"
      BY <1>1, <3>1 DEF Return, LocalShapes
    <3>3. UNCHANGED gen \/ Return(t)
      BY <1>7 DEF Work, EnterLock, TakeLock, Leave, TakeModel, Refuse, WriteSource, WriteChunks, EmbedChunk,
                  EmbedAll, EmbedFails, ValidateFile, EmbedFile, PublishFile, DeleteSource, PublishDraft,
                  WriteTarget, CopyChunks, DeleteDraft, ReadNamespace, ReplaceEmbeddings, local
    <3> QED
      BY <3>2, <3>3
  <2>2. UNCHANGED made \/ (made' = made + 1 /\ place'[t] = "enter draft")
    <3>1. \A q : Go(t, q) => place'[t] = q
      BY <1>1 DEF Go, LockInv, CallShapes
    <3>2. CASE PublishDraft(t)
      BY <3>1, <3>2 DEF PublishDraft, store
    <3>3. CASE CopyChunks(t)
      BY <3>1, <3>3 DEF CopyChunks, Step
    <3> QED
      BY <1>7, <3>2, <3>3 DEF Work, EnterLock, TakeLock, Leave, TakeModel, Refuse, WriteSource, WriteChunks,
                  EmbedChunk, EmbedAll, EmbedFails, ValidateFile, EmbedFile, PublishFile, DeleteSource,
                  WriteTarget, DeleteDraft, ReadNamespace, ReplaceEmbeddings, store
  <2>3. Unwritten(t)' => Unwritten(t)
    <3>1. ASSUME Unwritten(t)' PROVE Unwritten(t)
      <4>1. /\ place'[t] \in {"text source", "text chunks", "enter", "wait", "locked", "file model",
                              "file embed", "publish"}
            /\ call'[t] = call[t] /\ place[t] # "idle"
        BY <1>2, <3>1 DEF Unwritten
      <4>2. \/ place[t] \in {"text source", "enter", "wait", "locked", "file model", "file embed"}
            \/ place[t] \in {"text", "file", "approve"}
        BY <1>3, <4>1 DEF Moves
      <4>3. place[t] # "approve"
        BY <1>4, <3>1, <4>1 DEF Unwritten, PlacesOf, Kinds
      <4>4. place[t] \notin {"text", "file"}
        <5>1. \A q : Go(t, q) => place'[t] = q
          BY <1>1 DEF Go, LockInv, CallShapes
        <5>2. ASSUME place[t] \in {"text", "file"} PROVE FALSE
          <6>1. Refuse(t)
            BY <1>7, <5>2 DEF Work, EnterLock, TakeLock, Leave, TakeModel, WriteSource,
                 WriteChunks, EmbedChunk, EmbedAll, EmbedFails, ValidateFile, EmbedFile, PublishFile,
                 DeleteSource, PublishDraft, WriteTarget, CopyChunks, DeleteDraft, ReadNamespace,
                 ReplaceEmbeddings, Step
          <6> QED
            BY <4>1, <5>1, <6>1 DEF Refuse, Return
        <5> QED
          BY <5>2
      <4> QED
        BY <1>4, <3>1, <4>1, <4>2, <4>3, <4>4 DEF Unwritten, PlacesOf, Kinds
    <3> QED
      BY <3>1
  <2>4. place'[t] \in {"idle", "enter draft"} => ~Unwritten(t)'
    BY DEF Unwritten
  <2> QED
    BY <2>1, <2>2, <2>3, <2>4
<1>8. UNCHANGED <<rows, made>> \/ made' \in {made, made + 1}
  BY <1>5, <1>6, <1>7 DEF PrepareText, PrepareFile
<1> QED
  BY <1>5, <1>6, <1>7 DEF PrepareText, PrepareFile

LEMMA GenerationsKept ==
    ASSUME IndexInv, NEW t \in Threads, Work(t)
    PROVE  Generations' /\ made' \in Nat
<1>1. /\ Generations /\ made \in Nat
      /\ \A k \in Keys : rows[k] \in [gen : Nat, active : BOOLEAN]
      /\ \A o \in Threads : gen[o] \in Nat
  BY DEF IndexInv, StoreShapes, LocalShapes
<1>2. OthersStay(t)
  BY WorkIsLocal DEF IndexInv
<1>3. \A o \in Threads \ {t} : (Unwritten(o)' <=> Unwritten(o)) /\ gen'[o] = gen[o]
  BY <1>2 DEF OthersStay, Unwritten
<1>m. made' \in {made, made + 1}
  BY OwnGeneration
<1>4. made' \in Nat /\ made <= made'
  BY ONLY <1>1, <1>m
<1>5. ASSUME NEW k \in Keys
      PROVE  /\ rows'[k].gen \in Nat /\ rows'[k].gen <= made' /\ (rows'[k].active => rows'[k].gen # 0)
             /\ rows'[k].gen = rows[k].gen \/ Fresh(t, rows'[k].gen)
  <2>1. rows'[k].gen = rows[k].gen \/ Fresh(t, rows'[k].gen)
    <3>1. ASSUME NEW j \in Keys, NEW g, Fresh(t, g), ReplaceChunks(j, g)
          PROVE  rows'[k].gen = rows[k].gen \/ Fresh(t, rows'[k].gen)
      BY <3>1 DEF ReplaceChunks, IndexInv, StoreShapes
    <3>2. ASSUME NEW j \in Keys, RemoveSource(j)
          PROVE  rows'[k].gen = rows[k].gen
      BY <3>2 DEF RemoveSource, IndexInv, StoreShapes
    <3> QED
      BY <3>1, <3>2, StoreChanges
  <2>2. rows[k].gen \in Nat /\ rows[k].gen <= made
    BY <1>1 DEF Generations
  <2>3. CASE rows'[k].gen = rows[k].gen
    <3>1. rows'[k].active => rows[k].active \/ Fresh(t, rows'[k].gen)
      BY RowIsNewOrSame
    <3>2. rows'[k].active => rows'[k].gen # 0
      BY <1>1, <2>3, <3>1, FreshIsNew DEF Generations
    <3>3. rows'[k].gen <= made'
      BY ONLY <1>1, <1>4, <2>2, <2>3
    <3> QED
      BY <2>1, <2>2, <2>3, <3>2, <3>3
  <2>4. CASE Fresh(t, rows'[k].gen)
    BY <2>1, <2>4, FreshIsNew
  <2> QED
    BY <2>1, <2>3, <2>4
<1>6. ASSUME NEW k \in Keys, NEW j \in Keys, k # j, rows'[k].gen = rows'[j].gen
      PROVE  rows'[k].gen = 0
  <2>1. ASSUME NEW i \in Keys, NEW g, Fresh(t, g), ReplaceChunks(i, g)
        PROVE  rows'[k].gen = 0
    <3>1. \A l \in Keys : rows'[l].gen = IF l = i THEN g ELSE rows[l].gen
      BY <2>1 DEF ReplaceChunks, IndexInv, StoreShapes
    <3>2. \A l \in Keys : rows[l].gen # g
      BY <2>1, FreshIsNew
    <3> QED
      BY <1>1, <1>6, <3>1, <3>2 DEF Generations
  <2>2. ASSUME NEW i \in Keys, RemoveSource(i)
        PROVE  rows'[k].gen = 0
    <3>1. \A l \in Keys : rows'[l].gen = rows[l].gen
      BY <2>2 DEF RemoveSource, IndexInv, StoreShapes
    <3> QED
      BY <1>1, <1>6, <3>1 DEF Generations
  <2>3. CASE UNCHANGED rows
    BY <1>1, <1>6, <2>3 DEF Generations
  <2> QED
    BY <2>1, <2>2, <2>3, StoreChanges
<1>7. ASSUME NEW o \in Threads PROVE gen'[o] \in Nat /\ gen'[o] <= made'
  <2>1. gen'[o] = gen[o] \/ gen'[o] = 0 \/ gen'[o] = made' \/ \E k \in Keys : gen'[o] = rows[k].gen
    BY <1>3, OwnGeneration
  <2>2. gen[o] \in Nat /\ gen[o] <= made /\ \A k \in Keys : rows[k].gen \in Nat /\ rows[k].gen <= made
    BY <1>1 DEF Generations
  <2> QED
    BY ONLY <1>1, <1>4, <2>1, <2>2
<1>8. ASSUME NEW o \in Threads \ {t}, Unwritten(o)'
      PROVE  /\ gen'[o] # 0
             /\ \A k \in Keys : rows'[k].gen # gen'[o]
             /\ \A r \in Threads : r # o => gen'[r] # gen'[o]
  <2>1. /\ gen'[o] = gen[o] /\ gen[o] # 0 /\ \A k \in Keys : rows[k].gen # gen[o]
        /\ \A r \in Threads : r # o => gen[r] # gen[o]
    BY <1>1, <1>3, <1>8 DEF Generations
  <2>2. ASSUME NEW k \in Keys PROVE rows'[k].gen # gen'[o]
    BY <1>5, <2>1, FreshIsNew
  <2>3. gen'[t] # gen[o]
    <3>1. made' = made + 1 /\ gen'[t] = made' => gen'[t] # gen[o]
      <4>1. gen[o] \in Nat /\ gen[o] <= made
        BY <1>1 DEF Generations
      <4> QED
        BY ONLY <1>1, <4>1
    <3> QED
      BY <2>1, <3>1, OwnGeneration
  <2>4. ASSUME NEW r \in Threads, r # o PROVE gen'[r] # gen'[o]
    BY <1>3, <2>1, <2>3, <2>4
  <2> QED
    BY <2>1, <2>2, <2>4
<1>9. ASSUME Unwritten(t)'
      PROVE  /\ gen'[t] # 0
             /\ \A k \in Keys : rows'[k].gen # gen'[t]
             /\ \A r \in Threads : r # t => gen'[r] # gen'[t]
  <2>1. \A k \in Keys : rows'[k].gen = rows[k].gen
    <3>1. \A j \in Keys : RemoveSource(j) => \A k \in Keys : rows'[k].gen = rows[k].gen
      BY DEF RemoveSource, IndexInv, StoreShapes
    <3> QED
      BY <1>9, <3>1, StoreChanges DEF Fresh
  <2>2. CASE Unwritten(t) /\ gen'[t] = gen[t]
    BY <1>1, <1>3, <2>1, <2>2 DEF Generations
  <2>3. CASE made' = made + 1 /\ gen'[t] = made'
    <3>1. made' # 0
      BY ONLY <1>1, <2>3
    <3>2. ASSUME NEW k \in Keys PROVE rows'[k].gen # gen'[t]
      <4>1. rows'[k].gen = rows[k].gen /\ rows[k].gen \in Nat /\ rows[k].gen <= made
        BY <1>1, <2>1 DEF Generations
      <4> QED
        BY ONLY <1>1, <2>3, <4>1
    <3>3. ASSUME NEW r \in Threads, r # t PROVE gen'[r] # gen'[t]
      <4>1. gen'[r] = gen[r] /\ gen[r] \in Nat /\ gen[r] <= made
        BY <1>1, <1>3, <3>3 DEF Generations
      <4> QED
        BY ONLY <1>1, <2>3, <4>1
    <3> QED
      BY <2>3, <3>1, <3>2, <3>3
  <2> QED
    BY <1>9, <2>2, <2>3, OwnGeneration
<1> QED
  BY <1>4, <1>5, <1>6, <1>7, <1>8, <1>9 DEF Generations

LEMMA ShapesKept ==
    ASSUME IndexInv, NEW t \in Threads, Work(t)
    PROVE  StoreShapes'
<1>1. LockInv /\ StoreShapes /\ Resolved
  BY DEF IndexInv
<1>2. made' \in Nat
  BY GenerationsKept
<1>3. rows' \in [Keys -> [gen : Nat, active : BOOLEAN]]
  <2>1. ASSUME NEW k \in Keys, NEW g, Fresh(t, g), ReplaceChunks(k, g)
        PROVE  rows' \in [Keys -> [gen : Nat, active : BOOLEAN]]
    <3>1. g \in Nat
      BY <2>1, FreshIsNew
    <3> QED
      BY <1>1, <2>1, <3>1 DEF ReplaceChunks, StoreShapes
  <2>2. ASSUME NEW k \in Keys, RemoveSource(k)
        PROVE  rows' \in [Keys -> [gen : Nat, active : BOOLEAN]]
    BY <1>1, <2>2 DEF RemoveSource, StoreShapes
  <2> QED
    BY <1>1, <2>1, <2>2, StoreChanges DEF StoreShapes
<1>4. place[t] # "idle" => call[t].ns \in Namespaces /\ Wanted(t) \in Profiles
  BY <1>1, PlacesOfCall, ProfilesResolve
<1>5. place[t] \in Inside => key[t] \in Keys /\ key[t][1] \in Namespaces
  BY <1>1 DEF LockInv, UsersShareLock, WithLock, Keys
<1>6. source' \in [Keys -> {Unset, "active", "deleted"}]
  BY <1>1, <1>5 DEF Work, EnterLock, TakeLock, Leave, TakeModel, Refuse, PrepareText, WriteSource, WriteChunks,
       EmbedChunk, EmbedAll, EmbedFails, PrepareFile, ValidateFile, EmbedFile, PublishFile, DeleteSource,
       ReadDraft, PublishDraft, WriteTarget, CopyChunks, DeleteDraft, ReadSource, ReadNamespace,
       ReplaceEmbeddings, Step, Bundle, RemoveSource, store, StoreShapes, Inside
<1>7. profile' \in [Namespaces -> Profiles \cup {Unset}]
  <2>1. CASE EmbedAll(t) \/ ReplaceEmbeddings(t)
    BY <1>1, <2>1 DEF EmbedAll, ReplaceEmbeddings, StoreShapes, Resolved, WithProfile
  <2>2. CASE PublishFile(t) \/ PublishDraft(t)
    <3>1. UNCHANGED profile \/ (uses[t] \in Profiles /\ profile' = [profile EXCEPT ![key[t][1]] = uses[t]])
      BY <1>1, <2>2 DEF PublishFile, PublishDraft, Step, Bundle, store, Resolved, WithProfile
    <3> QED
      BY <1>1, <3>1 DEF StoreShapes
  <2>3. CASE ReadNamespace(t)
    BY <1>1, <1>4, <2>3 DEF ReadNamespace, StoreShapes
  <2>4. CASE ~(EmbedAll(t) \/ ReplaceEmbeddings(t) \/ PublishFile(t) \/ PublishDraft(t) \/ ReadNamespace(t))
    BY <1>1, <2>4 DEF Work, EnterLock, TakeLock, Leave, TakeModel, Refuse, PrepareText, WriteSource, WriteChunks,
       EmbedChunk, EmbedFails, PrepareFile, ValidateFile, EmbedFile, DeleteSource, ReadDraft, WriteTarget,
       CopyChunks, DeleteDraft, ReadSource, store, StoreShapes
  <2> QED
    BY <2>1, <2>2, <2>3, <2>4
<1> QED
  BY <1>2, <1>3, <1>6, <1>7 DEF StoreShapes

LEMMA ModelKept ==
    ASSUME IndexInv, NEW t \in Threads, Work(t)
    PROVE  ModelHeld'
<1>1. LockInv /\ LocalShapes /\ StoreShapes /\ ModelHeld
  BY DEF IndexInv
<1>2. OthersStay(t)
  BY <1>1, WorkIsLocal
<1>3. <<place[t], place'[t]>> \in Moves
  BY <1>1, WorkMoves
<1>4. \A q : Go(t, q) => place'[t] = q
  BY <1>1 DEF Go, LockInv, CallShapes
<1>5. CASE TakeModel(t)
  <2>1. model = Unset /\ model' = t /\ \A o \in Threads : place[o] \notin AtModel
    BY <1>1, <1>5, IndexAssumption DEF TakeModel, ModelHeld
  <2> QED
    BY <1>2, <2>1 DEF ModelHeld, OthersStay
<1>6. CASE EmbedAll(t) \/ EmbedFails(t) \/ EmbedFile(t) \/ ReplaceEmbeddings(t)
  <2>1. place[t] \in AtModel /\ place'[t] \notin AtModel
    BY <1>4, <1>6 DEF EmbedAll, EmbedFails, EmbedFile, ReplaceEmbeddings, Return, AtModel
  <2>2. \A o \in Threads \ {t} : place[o] \notin AtModel
    BY <1>1, <2>1 DEF ModelHeld
  <2> QED
    BY <1>2, <2>1, <2>2 DEF ModelHeld, OthersStay
<1>7. CASE ~(TakeModel(t) \/ EmbedAll(t) \/ EmbedFails(t) \/ EmbedFile(t) \/ ReplaceEmbeddings(t))
  <2>1. UNCHANGED model
    BY <1>7 DEF Work, EnterLock, TakeLock, Leave, Refuse, PrepareText, WriteSource, WriteChunks,
       EmbedChunk, PrepareFile, ValidateFile, PublishFile, DeleteSource, ReadDraft, PublishDraft,
       WriteTarget, CopyChunks, DeleteDraft, ReadSource, ReadNamespace
  <2>2. place'[t] \in AtModel => place[t] \in AtModel
    <3>1. ASSUME <<place[t], place'[t]>> \in {<<"model", "embed">>, <<"file model", "file embed">>,
                                              <<"reindex model", "reindex embed">>}
          PROVE  FALSE
      <4>1. place[t] \in {"model", "file model", "reindex model"}
        BY <3>1
      <4> QED
        BY <1>7, <4>1 DEF Work, EnterLock, TakeLock, Leave, Refuse, Refused, PrepareText, WriteSource,
           WriteChunks, EmbedChunk, PrepareFile, ValidateFile, PublishFile, DeleteSource, ReadDraft,
           PublishDraft, WriteTarget, CopyChunks, DeleteDraft, ReadSource, ReadNamespace, Step
    <3> QED
      BY <1>3, <3>1 DEF Moves, AtModel
  <2> QED
    BY <1>1, <1>2, <2>1, <2>2 DEF ModelHeld, OthersStay
<1> QED
  BY <1>5, <1>6, <1>7

LEMMA ResolvedKept ==
    ASSUME IndexInv, NEW t \in Threads, Work(t)
    PROVE  Resolved'
<1>1. LockInv /\ LocalShapes /\ StoreShapes /\ Resolved
  BY DEF IndexInv
<1>2. OthersStay(t) /\ (place'[t] = "idle" \/ (place[t] # "idle" /\ call'[t] = call[t]))
  BY <1>1, WorkIsLocal
<1>3. <<place[t], place'[t]>> \in Moves
  BY <1>1, WorkMoves
<1>4. \A q : Go(t, q) => place'[t] = q
  BY <1>1 DEF Go, LockInv, CallShapes
<1>5. place[t] # "idle" => /\ Wanted(t) \in Profiles /\ Current(call[t].ns) \in Profiles
                           /\ Current(Draft) \in Profiles
                           /\ call[t].kind \in Kinds /\ place[t] \in PlacesOf(call[t].kind)
  BY <1>1, ProfilesResolve, PlacesOfCall
<1>6. ASSUME NEW o \in Threads \ {t}
      PROVE  /\ place'[o] \in WithProfile => uses'[o] \in Profiles
             /\ call'[o].kind = "approve" /\ place'[o] \in {"enter", "wait", "locked"} => uses'[o] \in Profiles
             /\ place'[o] # "embed" => done'[o] = 0
  BY <1>1, <1>2 DEF OthersStay, Resolved
<1>7. CASE Return(t)
  <2>1. place'[t] = "idle" /\ done'[t] = 0
    BY <1>1, <1>4, <1>7 DEF Return, LocalShapes
  <2> QED
    BY <1>6, <2>1 DEF Resolved, WithProfile
<1>8. CASE PrepareText(t) \/ ValidateFile(t) \/ ReadDraft(t) \/ ReadSource(t)
  <2>1. uses'[t] \in Profiles /\ done'[t] = done[t] /\ place[t] # "embed"
    BY <1>1, <1>5, <1>8 DEF PrepareText, ValidateFile, ReadDraft, ReadSource, Step, LocalShapes
  <2> QED
    BY <1>1, <1>6, <2>1 DEF Resolved
<1>9. CASE ReadNamespace(t) /\ ~Return(t)
  <2>1. uses'[t] \in Profiles /\ done'[t] = done[t] /\ place[t] # "embed"
    BY <1>1, <1>5, <1>9 DEF ReadNamespace, LocalShapes
  <2> QED
    BY <1>1, <1>6, <2>1 DEF Resolved
<1>10. CASE EmbedChunk(t)
  <2>1. place'[t] = "embed" /\ place[t] = "embed" /\ uses'[t] = uses[t]
    BY <1>10 DEF EmbedChunk
  <2> QED
    BY <1>1, <1>6, <2>1 DEF Resolved, WithProfile
<1>11. CASE ~(Return(t) \/ PrepareText(t) \/ ValidateFile(t) \/ ReadDraft(t) \/ ReadSource(t)
              \/ ReadNamespace(t) \/ EmbedChunk(t))
  <2>1. UNCHANGED <<uses, done, call>>
    BY <1>11 DEF Work, EnterLock, TakeLock, Leave, TakeModel, Refuse, WriteSource, WriteChunks,
       EmbedAll, EmbedFails, PrepareFile, EmbedFile, PublishFile, DeleteSource, PublishDraft,
       WriteTarget, CopyChunks, DeleteDraft, ReplaceEmbeddings, local
  <2>2. place[t] \notin {"text", "approve", "reindex source", "reindex", "embed"}
    <3>1. ~Refuse(t) /\ ~EmbedAll(t) /\ ~EmbedFails(t) /\ ~ReplaceEmbeddings(t)
      BY <1>11 DEF Refuse, EmbedAll, EmbedFails, ReplaceEmbeddings
    <3> QED
      BY <1>11, <3>1 DEF Work, EnterLock, TakeLock, Leave, TakeModel, WriteSource, WriteChunks,
         PrepareFile, EmbedFile, PublishFile, DeleteSource, PublishDraft,
         WriteTarget, CopyChunks, DeleteDraft, Step
  <2>3. ~(<<place[t], place'[t]>> = <<"locked", "file model">>)
    <3>1. ASSUME place[t] = "locked", place'[t] = "file model" PROVE FALSE
      BY <1>4, <1>11, <3>1 DEF Work, EnterLock, TakeLock, Leave, TakeModel, Refuse, Refused, WriteSource, WriteChunks,
         EmbedAll, EmbedFails, PrepareFile, EmbedFile, PublishFile, DeleteSource, PublishDraft,
         WriteTarget, CopyChunks, DeleteDraft, ReplaceEmbeddings, Step
    <3> QED
      BY <3>1
  <2>4. place'[t] \in WithProfile => place[t] \in WithProfile
    BY <1>3, <2>2, <2>3 DEF Moves, WithProfile
  <2>5. place[t] # "idle"
    BY <1>3 DEF Moves
  <2>6. call[t].kind = "approve" /\ place'[t] \in {"enter", "wait", "locked"} =>
            place[t] \in {"enter", "wait", "locked"}
    BY <1>3, <1>5, <2>2, <2>5 DEF Moves, PlacesOf, Kinds
  <2>7. done'[t] = 0
    BY <1>1, <2>1, <2>2 DEF Resolved
  <2> QED
    BY <1>1, <1>6, <2>1, <2>4, <2>6, <2>7 DEF Resolved
<1> QED
  BY <1>7, <1>8, <1>9, <1>10, <1>11

LEMMA BatchesKept ==
    ASSUME IndexInv, NEW t \in Threads, Work(t)
    PROVE  BatchesThere'
<1>1. LockInv /\ LocalShapes /\ StoreShapes /\ ModelHeld /\ Resolved /\ BatchesThere
  BY DEF IndexInv
<1>2. OthersStay(t)
  BY <1>1, WorkIsLocal
<1>3. ASSUME NEW o \in Threads, o # t, place'[o] = "embed",
             rows'[KeyOf(o)'] = [gen |-> gen'[o], active |-> TRUE], NEW i \in 1..done'[o]
      PROVE  <<call'[o].ns, gen'[o], i, uses'[o]>> \in embedded'
  <2>1. /\ place[o] = "embed" /\ call'[o] = call[o] /\ gen'[o] = gen[o] /\ uses'[o] = uses[o]
        /\ done'[o] = done[o]
    BY <1>2, <1>3 DEF OthersStay
  <2> PICK k : k = KeyOf(o)
    OBVIOUS
  <2>2. k \in Keys /\ k[1] = call[o].ns /\ KeyOf(o)' = k
    BY <1>1, <2>1, PlacesOfCall DEF KeyOf
  <2>3. ~ReplaceEmbeddings(t)
    BY <1>1, <1>3, <2>1 DEF ModelHeld, AtModel, ReplaceEmbeddings
  <2>4. rows'[k].active /\ rows'[k].gen = gen[o]
    BY <1>3, <2>1, <2>2
  <2>5. rows'[k] = rows[k]
    BY <1>3, <2>2, <2>4, RowIsNewOrSame, FreshIsNew
  <2>6. <<k[1], rows[k].gen, i, uses[o]>> \in embedded
    BY <1>1, <1>3, <2>1, <2>2, <2>4, <2>5 DEF BatchesThere
  <2>7. <<k[1], rows[k].gen, i, uses[o]>> \in embedded'
    BY <2>2, <2>3, <2>4, <2>5, <2>6, VectorsStay
  <2> QED
    BY <2>1, <2>2, <2>4, <2>5, <2>7
<1>4. ASSUME place'[t] = "embed", rows'[KeyOf(t)'] = [gen |-> gen'[t], active |-> TRUE], NEW i \in 1..done'[t]
      PROVE  <<call'[t].ns, gen'[t], i, uses'[t]>> \in embedded'
  <2>1. <<place[t], place'[t]>> \in Moves
    BY <1>1, WorkMoves
  <2>2. place[t] \in {"model", "embed"}
    BY <1>4, <2>1 DEF Moves
  <2>3. CASE EmbedChunk(t)
    <3>1. /\ UNCHANGED <<call, gen, uses, rows>> /\ place[t] = "embed"
          /\ embedded' = embedded \cup {<<call[t].ns, gen[t], done[t] + 1, uses[t]>>}
          /\ done'[t] = done[t] + 1 /\ done[t] \in Nat
      BY <1>1, <2>3 DEF EmbedChunk, LocalShapes
    <3>2. i \in 1..done[t] \/ i = done[t] + 1
      BY ONLY <1>4, <3>1
    <3>3. KeyOf(t)' = KeyOf(t)
      BY <3>1 DEF KeyOf
    <3> QED
      BY <1>1, <1>4, <3>1, <3>2, <3>3 DEF BatchesThere
  <2>4. CASE ~EmbedChunk(t)
    <3>1. TakeModel(t) \/ Return(t)
      BY <2>2, <2>4 DEF Work, EnterLock, TakeLock, Leave, Refuse, PrepareText, WriteSource, WriteChunks, EmbedAll,
         EmbedFails, PrepareFile, ValidateFile, EmbedFile, PublishFile, DeleteSource, ReadDraft, PublishDraft,
         WriteTarget, CopyChunks, DeleteDraft, ReadSource, ReadNamespace, ReplaceEmbeddings, Step
    <3>2. Return(t) => place'[t] = "idle"
      BY <1>1 DEF Return, Go, LockInv, CallShapes
    <3>3. TakeModel(t) /\ done'[t] = done[t]
      BY <1>4, <3>1, <3>2 DEF TakeModel, local
    <3>4. done[t] = 0
      BY <1>1, <3>3 DEF TakeModel, Step, Resolved
    <3> QED
      BY <1>4, <3>3, <3>4
  <2> QED
    BY <2>3, <2>4
<1> QED
  BY <1>3, <1>4 DEF BatchesThere

\* A source's row is written as active, or deleted by a thread inside its lock.
LEMMA SourceChanges ==
    ASSUME IndexInv, NEW t \in Threads, Work(t), NEW k \in Keys
    PROVE  \/ source'[k] \in {source[k], "active"}
           \/ RemoveSource(k) /\ place[t] \in {"locked", "locked draft"} /\ key[t] = k
<1>1. source \in [Keys -> {Unset, "active", "deleted"}] /\ LockInv
  BY DEF IndexInv, StoreShapes
<1>2. CASE DeleteSource(t) \/ DeleteDraft(t)
  BY <1>1, <1>2 DEF DeleteSource, DeleteDraft, Step, RemoveSource
<1>3. CASE WriteSource(t) \/ PublishFile(t) \/ PublishDraft(t) \/ WriteTarget(t)
  BY <1>1, <1>3 DEF WriteSource, PublishFile, PublishDraft, WriteTarget, Bundle, store
<1>4. CASE ~(DeleteSource(t) \/ DeleteDraft(t) \/ WriteSource(t) \/ PublishFile(t) \/ PublishDraft(t)
             \/ WriteTarget(t))
  BY <1>4 DEF Work, EnterLock, TakeLock, Leave, TakeModel, Refuse, PrepareText, WriteChunks,
     EmbedChunk, EmbedAll, EmbedFails, PrepareFile, ValidateFile, EmbedFile, ReadDraft,
     CopyChunks, ReadSource, ReadNamespace, ReplaceEmbeddings, store
<1> QED
  BY <1>2, <1>3, <1>4

LEMMA TargetKept ==
    ASSUME IndexInv, NEW t \in Threads, Work(t)
    PROVE  TargetIsThere'
<1>1. LockInv /\ LocalShapes /\ StoreShapes /\ TargetIsThere
  BY DEF IndexInv
<1>2. OthersStay(t)
  BY <1>1, WorkIsLocal
<1>3. ASSUME NEW o \in Threads, o # t, place'[o] = "draft chunks"
      PROVE  source'[key'[o]] = "active"
  <2>1. place[o] = "draft chunks" /\ key'[o] = key[o] /\ source[key[o]] = "active"
    BY <1>1, <1>2, <1>3 DEF OthersStay, TargetIsThere
  <2>2. place[o] \in Inside /\ key[o] \in Keys
    BY <1>1, <2>1 DEF Inside, WithLock, LockInv, UsersShareLock
  <2>3. place[t] \in Inside => key[t] # key[o]
    BY <1>1, <1>3, <2>2 DEF LockInv, UsersShareLock, OneHolder, WithLock
  <2> QED
    BY <2>1, <2>2, <2>3, SourceChanges DEF Inside
<1>4. ASSUME place'[t] = "draft chunks" PROVE source'[key'[t]] = "active"
  <2>1. <<place[t], place'[t]>> \in Moves
    BY <1>1, WorkMoves
  <2>2. place[t] = "locked"
    BY <1>4, <2>1 DEF Moves
  <2>3. \A q : Go(t, q) => place'[t] = q
    BY <1>1 DEF Go, LockInv, CallShapes
  <2>4. WriteTarget(t)
    BY <1>4, <2>2, <2>3 DEF Work, EnterLock, TakeLock, Leave, TakeModel, Refuse, Refused, PrepareText,
       WriteSource, WriteChunks, EmbedChunk, EmbedAll, EmbedFails, PrepareFile, ValidateFile, EmbedFile,
       PublishFile, DeleteSource, ReadDraft, PublishDraft, Return, CopyChunks, DeleteDraft, ReadSource,
       ReadNamespace, ReplaceEmbeddings, Step
  <2>5. key[t] \in Keys /\ key' = key /\ source' = [source EXCEPT ![key[t]] = "active"]
    BY <1>1, <2>2, <2>4 DEF WriteTarget, locks, LockInv, UsersShareLock, WithLock, Inside
  <2> QED
    BY <1>1, <2>5 DEF StoreShapes
<1> QED
  BY <1>3, <1>4 DEF TargetIsThere

\* A call begins: nothing is written, and nothing asked of its place.
LEMMA CallKeepsIndex ==
    ASSUME IndexInv, NEW t \in Threads, NEW kind \in Kinds, NEW n \in Namespaces, NEW s \in Sources,
           NEW p \in Profiles \cup {Unset}, Call(t, kind, n, s, p)
    PROVE  /\ IndexInv'
           /\ UNCHANGED store
           /\ \A o \in Threads \ {t} : /\ place'[o] = place[o] /\ call'[o] = call[o] /\ uses'[o] = uses[o]
                                       /\ seen'[o] = seen[o]
           /\ place'[t] \in {"text", "file", "enter", "approve", "reindex", "reindex source"}
           /\ call'[t].kind = "approve" => place'[t] = "approve"
<1>1. /\ LockInv /\ LocalShapes /\ StoreShapes /\ Generations /\ ModelHeld /\ Resolved
      /\ BatchesThere /\ TargetIsThere
  BY DEF IndexInv
<1>2. LockInv'
  BY <1>1, CallKeepsLocks
<1>3. /\ UNCHANGED <<source, rows, embedded, profile, made, model, key, gen, seen, uses, done>>
      /\ place[t] = "idle" /\ call'[t].kind = kind
      /\ place'[t] = IF kind = "delete" THEN "enter" ELSE kind
      /\ \A o \in Threads \ {t} : place'[o] = place[o] /\ call'[o] = call[o]
  BY <1>1 DEF Call, Go, LockInv, CallShapes, store, locks
<1>4. /\ place'[t] \in {"text", "file", "enter", "approve", "reindex", "reindex source"}
      /\ call'[t].kind = "approve" => place'[t] = "approve"
      /\ place'[t] = "enter" => call'[t].kind = "delete"
  BY <1>3 DEF Kinds
<1>5. LocalShapes' /\ StoreShapes'
  BY <1>1, <1>3 DEF LocalShapes, StoreShapes
<1>6. Generations'
  <2>1. ~Unwritten(t)'
    BY <1>4 DEF Unwritten
  <2>2. \A o \in Threads \ {t} : Unwritten(o)' <=> Unwritten(o)
    BY <1>3 DEF Unwritten
  <2> QED
    BY <1>1, <1>3, <2>1, <2>2 DEF Generations
<1>7. ModelHeld' /\ Resolved' /\ TargetIsThere'
  BY <1>1, <1>3, <1>4 DEF ModelHeld, Resolved, TargetIsThere, AtModel, WithProfile
<1>8. BatchesThere'
  <2>1. \A o \in Threads \ {t} : KeyOf(o)' = KeyOf(o)
    BY <1>3 DEF KeyOf
  <2> QED
    BY <1>1, <1>3, <1>4, <2>1 DEF BatchesThere
<1> QED
  BY <1>2, <1>3, <1>4, <1>5, <1>6, <1>7, <1>8 DEF IndexInv, store

LEMMA IndexKept == IndexInv /\ [IndexNext]_indexVars => IndexInv'
<1> SUFFICES ASSUME IndexInv, [IndexNext]_indexVars PROVE IndexInv'
  OBVIOUS
<1>1. LockInv'
  BY LocksKept DEF IndexInv
<1>2. ASSUME NEW t \in Threads, Work(t) PROVE IndexInv'
  <2>1. LocalShapes'
    BY <1>2, WorkIsLocal DEF IndexInv
  <2> QED
    BY <1>1, <1>2, <2>1, ShapesKept, GenerationsKept, ModelKept, ResolvedKept, BatchesKept, TargetKept
       DEF IndexInv
<1>3. CASE UNCHANGED indexVars
  <2>1. UNCHANGED <<source, rows, embedded, profile, made, model, key, place, call, gen, seen, uses, done>>
    BY <1>3 DEF indexVars, store, locks, local
  <2>2. Generations'
    BY <2>1 DEF IndexInv, Generations, Unwritten
  <2>3. BatchesThere'
    BY <2>1 DEF IndexInv, BatchesThere, KeyOf
  <2> QED
    BY <1>1, <2>1, <2>2, <2>3 DEF IndexInv, LocalShapes, StoreShapes, ModelHeld, Resolved, TargetIsThere
<1> QED
  BY <1>2, <1>3, CallKeepsIndex DEF IndexNext

LEMMA IndexAtFirst == IndexInit => IndexInv
<1> SUFFICES ASSUME IndexInit PROVE IndexInv
  OBVIOUS
<1>1. LockInv
  BY LocksAtFirst
<1>2. /\ source = [k \in Keys |-> Unset] /\ rows = [k \in Keys |-> [gen |-> 0, active |-> FALSE]]
      /\ profile = [n \in Namespaces |-> Unset] /\ made = 0
      /\ \A t \in Threads : place[t] = "idle" /\ call[t].kind = Unset
      /\ gen = [t \in Threads |-> 0] /\ uses = [t \in Threads |-> Unset] /\ seen = [t \in Threads |-> {}]
      /\ done = [t \in Threads |-> 0]
  BY DEF IndexInit, NoCall
<1>3. LocalShapes /\ StoreShapes
  BY <1>2 DEF LocalShapes, StoreShapes
<1>4. Generations
  <2>1. \A t \in Threads : ~Unwritten(t) /\ gen[t] = 0
    BY <1>2 DEF Unwritten
  <2>2. \A k \in Keys : rows[k].gen = 0 /\ ~rows[k].active
    BY <1>2
  <2>3. 0 <= made
    BY <1>2
  <2> QED
    BY <2>1, <2>2, <2>3 DEF Generations
<1>5. ModelHeld /\ Resolved /\ BatchesThere /\ TargetIsThere
  BY <1>2 DEF ModelHeld, Resolved, BatchesThere, TargetIsThere, AtModel, WithProfile
<1> QED
  BY <1>1, <1>3, <1>4, <1>5 DEF IndexInv

\* All chunks of a source's generation under the namespace's profile.
AllVectors(k) ==
    /\ rows[k].active /\ profile[k[1]] # Unset
    /\ \A i \in 1..Chunks : <<k[1], rows[k].gen, i, profile[k[1]]>> \in embedded

LEMMA WholeHasVectors ==
    ASSUME NEW k \in Keys, Whole(k)
    PROVE  AllVectors(k)
<1>1. \A i \in 1..Chunks : <<k[1], rows[k].gen, i, profile[k[1]]>> \in Embeddings(k[1], {rows[k].gen}, profile[k[1]])
  BY DEF Embeddings
<1> QED
  BY <1>1 DEF Whole, AllVectors, Found

LEMMA VectorsMakeWhole ==
    ASSUME NEW k \in Keys, AllVectors(k)'
    PROVE  Whole(k)'
<1>1. ASSUME NEW e \in Embeddings(k[1], {rows[k].gen}, profile[k[1]])'
      PROVE  e \in Found(k[1])'
  <2>1. PICK i \in 1..Chunks : e = <<k[1], rows'[k].gen, i, profile'[k[1]]>>
    BY <1>1 DEF Embeddings
  <2>2. e \in embedded'
    BY <2>1 DEF AllVectors
  <2>3. e[1] = k[1] /\ e[2] = rows'[k].gen /\ e[4] = profile'[k[1]]
    BY <2>1
  <2>4. Current(k[1])' = profile'[k[1]] /\ rows'[k].gen \in Active(k[1])'
    BY DEF AllVectors, Current, Active
  <2> QED
    BY <2>2, <2>3, <2>4 DEF Found
<1> QED
  BY <1>1 DEF AllVectors, Whole

LEMMA KeysArePairs == \A k \in Keys : k[1] \in Namespaces /\ k = <<k[1], k[2]>>
BY DEF Keys

\* The profile of the namespace of a source that no call disputes changes with
\* a reindex of the namespace only.
LEMMA ProfileStays ==
    ASSUME IndexInv, NEW t \in Threads, Work(t), ~ReplaceEmbeddings(t), NEW k \in Keys, Settled(k)
    PROVE  profile'[k[1]] = profile[k[1]]
<1>1. LockInv /\ LocalShapes /\ StoreShapes /\ ~Disputes(t, k) /\ rows[k].active
  BY DEF IndexInv, Settled, Whole
<1>2. CASE EmbedAll(t)
  <2>1. place[t] = "embed" /\ profile' = [profile EXCEPT ![call[t].ns] = uses[t]]
    BY <1>2 DEF EmbedAll
  <2>2. call[t].ns = k[1] => uses[t] = profile[k[1]]
    BY <1>1, <2>1 DEF Disputes
  <2> QED
    BY <1>1, <2>1, <2>2, KeysArePairs DEF StoreShapes
<1>3. CASE PublishFile(t)
  <2>1. /\ place[t] = "publish"
        /\ UNCHANGED profile \/ profile' = [profile EXCEPT ![key[t][1]] = uses[t]]
    BY <1>3 DEF PublishFile, Step, Bundle
  <2>2. key[t] = KeyOf(t)
    BY <1>1, <2>1, PlacesOfCall DEF LockInv, LockOfGoal, Goal, PlacesOf, Kinds
  <2>3. key[t][1] = k[1] => uses[t] = profile[k[1]]
    BY <1>1, <2>1, <2>2 DEF Disputes, KeyOf
  <2> QED
    BY <1>1, <2>1, <2>3, KeysArePairs DEF StoreShapes
<1>4. CASE PublishDraft(t)
  <2>1. /\ place[t] = "locked" /\ call[t].kind = "approve"
        /\ UNCHANGED profile \/ profile' = [profile EXCEPT ![key[t][1]] = uses[t]]
    BY <1>4 DEF PublishDraft, Bundle, store
  <2>2. key[t][1] = Target
    <3>1. key[t] = Goal(t)
      BY <1>1, <2>1 DEF LockInv, LockOfGoal
    <3>2. Goal(t) = <<Target, call[t].source>>
      BY <2>1 DEF Goal
    <3> QED
      BY ONLY <3>1, <3>2
  <2>3. key[t][1] = k[1] => uses[t] = profile[k[1]]
    BY <1>1, <2>1, <2>2 DEF Disputes
  <2> QED
    BY <1>1, <2>1, <2>3, KeysArePairs DEF StoreShapes
<1>5. CASE ReadNamespace(t)
  <2>1. UNCHANGED profile
        \/ (Active(call[t].ns) = {} /\ profile' = [profile EXCEPT ![call[t].ns] = Wanted(t)])
    BY <1>5 DEF ReadNamespace
  <2>2. k[1] = call[t].ns => Active(call[t].ns) # {}
    BY <1>1 DEF Active
  <2> QED
    BY <1>1, <2>1, <2>2, KeysArePairs DEF StoreShapes
<1>6. CASE ~(EmbedAll(t) \/ PublishFile(t) \/ PublishDraft(t) \/ ReadNamespace(t))
  <2>1. UNCHANGED profile
    BY <1>6 DEF Work, EnterLock, TakeLock, Leave, TakeModel, Refuse, PrepareText, WriteSource, WriteChunks,
       EmbedChunk, EmbedFails, PrepareFile, ValidateFile, EmbedFile, DeleteSource, ReadDraft, WriteTarget,
       CopyChunks, DeleteDraft, ReadSource, store
  <2> QED
    BY <2>1
<1> QED
  BY <1>2, <1>3, <1>4, <1>5, <1>6

\* A source found whole that no call disputes stays found whole.
LEMMA WholeStays ==
    ASSUME IndexInv, NEW t \in Threads, Work(t), NEW k \in Keys, Settled(k), rows'[k] = rows[k]
    PROVE  Whole(k)'
<1>1. /\ LockInv /\ LocalShapes /\ StoreShapes /\ Resolved
      /\ Whole(k) /\ ~Disputes(t, k)
  BY DEF IndexInv, Settled
<1>2. AllVectors(k)
  BY <1>1, WholeHasVectors
<1>3. CASE ReplaceEmbeddings(t)
  <2>1. /\ place[t] = "reindex embed"
        /\ embedded' = {e \in embedded : e[1] # call[t].ns} \cup Embeddings(call[t].ns, seen[t], uses[t])
        /\ profile' = [profile EXCEPT ![call[t].ns] = uses[t]]
    BY <1>3 DEF ReplaceEmbeddings
  <2>2. CASE k[1] = call[t].ns
    <3>1. rows[k].gen \in seen[t]
      BY <1>1, <2>1, <2>2 DEF Disputes
    <3>2. profile'[k[1]] = uses[t] /\ uses[t] # Unset
      BY <1>1, <2>1, <2>2, KeysArePairs, IndexAssumption DEF StoreShapes, Resolved, WithProfile
    <3>3. ASSUME NEW i \in 1..Chunks
          PROVE  <<k[1], rows[k].gen, i, uses[t]>> \in Embeddings(call[t].ns, seen[t], uses[t])
      BY <2>2, <3>1, <3>3 DEF Embeddings
    <3>4. rows'[k] = rows[k] /\ rows[k].active
      BY <1>2 DEF AllVectors
    <3>5. ASSUME NEW i \in 1..Chunks
          PROVE  <<k[1], rows'[k].gen, i, profile'[k[1]]>> \in embedded'
      <4>1. <<k[1], rows[k].gen, i, uses[t]>> \in embedded'
        BY <2>1, <3>3
      <4> QED
        BY <3>2, <3>4, <4>1
    <3>6. AllVectors(k)'
      BY <3>2, <3>4, <3>5 DEF AllVectors
    <3> QED
      BY <3>6, VectorsMakeWhole
  <2>3. CASE k[1] # call[t].ns
    <3>1. profile'[k[1]] = profile[k[1]]
      BY <1>1, <2>1, <2>3, KeysArePairs DEF StoreShapes
    <3>2. ASSUME NEW i \in 1..Chunks
          PROVE  <<k[1], rows[k].gen, i, profile[k[1]]>> \in {e \in embedded : e[1] # call[t].ns}
      BY <1>2, <2>3, <3>2 DEF AllVectors
    <3>3. rows'[k] = rows[k] /\ rows[k].active /\ profile[k[1]] # Unset
      BY <1>2 DEF AllVectors
    <3>4. ASSUME NEW i \in 1..Chunks
          PROVE  <<k[1], rows'[k].gen, i, profile'[k[1]]>> \in embedded'
      <4>1. <<k[1], rows[k].gen, i, profile[k[1]]>> \in embedded'
        BY <2>1, <3>2
      <4> QED
        BY <3>1, <3>3, <4>1
    <3>5. AllVectors(k)'
      BY <3>1, <3>3, <3>4 DEF AllVectors
    <3> QED
      BY <3>5, VectorsMakeWhole
  <2> QED
    BY <2>2, <2>3
<1>4. CASE ~ReplaceEmbeddings(t)
  <2>1. profile'[k[1]] = profile[k[1]]
    BY <1>4, ProfileStays
  <2>2. ASSUME NEW i \in 1..Chunks
        PROVE  <<k[1], rows[k].gen, i, profile[k[1]]>> \in embedded'
    BY <1>2, <1>4, <2>2, VectorsStay DEF AllVectors
  <2>3. AllVectors(k)'
    BY <1>2, <2>1, <2>2 DEF AllVectors
  <2> QED
    BY <2>3, VectorsMakeWhole
<1> QED
  BY <1>3, <1>4

\* What a call goes on to do it has decided before, but where it reads.
Decides(t) ==
    \/ PrepareText(t) \/ ValidateFile(t) \/ ReadDraft(t) \/ ReadSource(t) \/ ReadNamespace(t)

LEMMA DecidedBefore ==
    ASSUME LockInv, NEW t \in Threads, Work(t), ~Decides(t), place'[t] # "idle"
    PROVE  /\ UNCHANGED <<call, uses, seen>>
           /\ place[t] \notin {"text", "approve", "reindex source", "reindex"}
           /\ ~(place[t] = "locked" /\ place'[t] = "file model")
<1>1. \A q : Go(t, q) => place'[t] = q
  BY DEF Go, LockInv, CallShapes
<1>2. ~Return(t)
  BY <1>1 DEF Return
<1> QED
  BY <1>1, <1>2 DEF Decides, Work, EnterLock, TakeLock, Leave, TakeModel, Refuse, WriteSource, WriteChunks,
     EmbedChunk, EmbedAll, EmbedFails, PrepareFile, EmbedFile, PublishFile, DeleteSource, PublishDraft,
     WriteTarget, CopyChunks, DeleteDraft, ReplaceEmbeddings, Step, local

\* No call begins to dispute a source found whole: the checks of the profile
\* refuse it, and a reindex reads the chunks it has.
LEMMA NobodyBegins ==
    ASSUME IndexInv, NEW t \in Threads, Work(t), NEW k \in Keys, Whole(k), ~Disputes(t, k),
           rows'[k] = rows[k], profile'[k[1]] = profile[k[1]]
    PROVE  ~Disputes(t, k)'
<1> SUFFICES ASSUME Disputes(t, k)' PROVE FALSE
  OBVIOUS
<1>1. LockInv /\ LocalShapes /\ StoreShapes
  BY DEF IndexInv
<1>2. place'[t] # "idle" /\ place[t] # "idle" /\ call'[t] = call[t]
  BY <1>1, WorkIsLocal DEF Disputes
<1>3. <<place[t], place'[t]>> \in Moves
  BY <1>1, WorkMoves
<1>4. /\ call[t].kind \in Kinds /\ place[t] \in PlacesOf(call[t].kind)
      /\ call[t].kind = "approve" => call[t].ns = Draft
  BY <1>1, <1>2, PlacesOfCall
<1>5. rows[k].active /\ profile[k[1]] # Unset /\ rows[k].gen \in Active(k[1]) /\ Current(k[1]) = profile[k[1]]
  BY DEF Whole, Active, Current
<1>6. CASE ~Decides(t)
  <2>1. /\ UNCHANGED <<uses, seen>>
        /\ place[t] \notin {"text", "approve", "reindex source", "reindex"}
        /\ ~(place[t] = "locked" /\ place'[t] = "file model")
    BY <1>1, <1>2, <1>6, DecidedBefore
  <2>2. CASE /\ place'[t] \in {"reindex model", "reindex embed"}
             /\ call'[t].ns = k[1] /\ rows'[k].gen \notin seen'[t]
    <3>1. place[t] = "reindex model"
      BY <1>3, <2>1, <2>2 DEF Moves
    <3> QED
      BY <1>2, <2>1, <2>2, <3>1 DEF Disputes
  <2>3. CASE /\ place'[t] \in {"text source", "text chunks", "model", "embed", "file model", "file embed", "publish"}
             /\ call'[t].ns = k[1] /\ uses'[t] # profile'[k[1]]
    <3>1. place[t] \in {"text source", "text chunks", "model", "embed", "file model", "file embed"}
      BY <1>3, <2>1, <2>3 DEF Moves
    <3> QED
      BY <1>2, <2>1, <2>3, <3>1 DEF Disputes
  <2>4. CASE /\ call'[t].kind = "approve" /\ place'[t] \in {"enter", "wait", "locked"}
             /\ k[1] = Target /\ uses'[t] # profile'[Target]
    <3>1. place[t] \in {"file", "enter", "wait"}
      BY <1>3, <2>1, <2>4 DEF Moves
    <3>2. place[t] # "file"
      BY <1>2, <1>4, <2>4 DEF PlacesOf, Kinds
    <3> QED
      BY <1>2, <2>1, <2>4, <3>1, <3>2 DEF Disputes
  <2> QED
    BY <2>2, <2>3, <2>4 DEF Disputes
<1>7. CASE PrepareText(t) \/ ValidateFile(t)
  <2>1. /\ uses'[t] = Wanted(t) /\ place[t] \in {"text", "locked"} /\ (Allowed(t) \/ place'[t] = "leave")
        /\ place'[t] \in {"text source", "file model", "leave"}
    BY <1>1, <1>7 DEF PrepareText, ValidateFile, Step, Go, LocalShapes, LockInv, CallShapes
  <2>2. call[t].ns = k[1] /\ uses'[t] # profile[k[1]] /\ Allowed(t)
    BY <1>2, <2>1 DEF Disputes
  <2> QED
    BY <1>5, <2>1, <2>2 DEF Allowed
<1>8. CASE ReadDraft(t)
  <2>1. /\ uses'[t] = Current(Draft) /\ Approvable(t) /\ place'[t] = "enter"
    BY <1>1, <1>8 DEF ReadDraft, Step, Go, LocalShapes, LockInv, CallShapes
  <2>2. k[1] = Target /\ uses'[t] # profile[Target]
    BY <2>1 DEF Disputes
  <2> QED
    BY <1>5, <2>1, <2>2 DEF Approvable
<1>9. CASE ReadSource(t)
  <2>1. uses'[t] = Current(call[t].ns) /\ place'[t] = "model"
    BY <1>1, <1>9 DEF ReadSource, Step, Go, LocalShapes, LockInv, CallShapes
  <2> QED
    BY <1>2, <1>5, <2>1 DEF Disputes
<1>10. CASE ReadNamespace(t)
  <2>1. seen'[t] = Active(call[t].ns) /\ place'[t] = "reindex model"
    <3>1. Return(t) => place'[t] = "idle"
      BY <1>1 DEF Return, Go, LockInv, CallShapes
    <3> QED
      BY <1>1, <1>2, <1>10, <3>1 DEF ReadNamespace, Go, LocalShapes, LockInv, CallShapes
  <2> QED
    BY <1>2, <1>5, <2>1 DEF Disputes
<1> QED
  BY <1>6, <1>7, <1>8, <1>9, <1>10 DEF Decides


\* What another call has still to write is as it was.
LEMMA OthersDisputeAlike ==
    ASSUME LockInv, LocalShapes, NEW t \in Threads, OthersStay(t), NEW o \in Threads \ {t}, NEW k \in Keys,
           rows'[k] = rows[k], profile'[k[1]] = profile[k[1]], ~Disputes(o, k)
    PROVE  ~Disputes(o, k)'
<1>1. /\ place'[o] = place[o] /\ call'[o] = call[o] /\ uses'[o] = uses[o] /\ seen'[o] = seen[o]
  BY DEF OthersStay
<1>2. k[1] = Target => profile'[Target] = profile[Target]
  OBVIOUS
<1> QED
  BY <1>1, <1>2 DEF Disputes

LEMMA SettledStays ==
    ASSUME IndexInv, NEW t \in Threads, Work(t), NEW k \in Keys, Settled(k), rows'[k] = rows[k]
    PROVE  IF profile'[k[1]] = profile[k[1]] THEN Settled(k)' ELSE Whole(k)'
<1>1. Whole(k)'
  BY WholeStays
<1>2. ASSUME profile'[k[1]] = profile[k[1]], NEW o \in Threads
      PROVE  ~Disputes(o, k)'
  <2>1. CASE o = t
    BY <1>2, <2>1, NobodyBegins DEF Settled
  <2>2. CASE o # t
    <3>1. OthersStay(t)
      BY WorkIsLocal DEF IndexInv
    <3>2. LockInv /\ LocalShapes /\ ~Disputes(o, k)
      BY DEF IndexInv, Settled
    <3> QED
      BY <1>2, <2>2, <3>1, <3>2, OthersDisputeAlike
  <2> QED
    BY <2>1, <2>2
<1> QED
  BY <1>1, <1>2 DEF Settled

\* Who returns as embedded has embedded them all, and nobody has removed one.
LEMMA EndsWhole ==
    ASSUME IndexInv, NEW t \in Threads, Work(t), NEW o \in Threads, NEW k \in Keys, Ends(o, k)
    PROVE  Whole(k)'
<1>1. /\ LockInv /\ LocalShapes /\ StoreShapes /\ Resolved /\ BatchesThere
      /\ OthersStay(t)
  BY WorkIsLocal DEF IndexInv
<1>2. /\ place[o] = "embed" /\ done[o] = Chunks /\ place'[o] = "idle"
      /\ KeyOf(o) = k /\ rows[k] = [gen |-> gen[o], active |-> TRUE]
  BY DEF Ends
<1>3. o = t
  BY <1>1, <1>2 DEF OthersStay
<1>4. EmbedAll(t)
  <2>1. ~EmbedFails(t) /\ ~EmbedChunk(t)
    <3>1. done[t] = Chunks /\ Chunks \in Nat
      BY <1>2, <1>3, IndexAssumption
    <3>2. ~(done[t] < Chunks)
      BY ONLY <3>1
    <3> QED
      BY <3>2 DEF EmbedFails, EmbedChunk
  <2> QED
    BY <1>2, <1>3, <2>1 DEF Work, EnterLock, TakeLock, Leave, TakeModel, Refuse, Refused, PrepareText, WriteSource,
       WriteChunks, PrepareFile, ValidateFile, EmbedFile, PublishFile, DeleteSource, ReadDraft, PublishDraft,
       WriteTarget, CopyChunks, DeleteDraft, ReadSource, ReadNamespace, ReplaceEmbeddings, Step
<1>5. profile' = [profile EXCEPT ![call[t].ns] = uses[t]] /\ UNCHANGED <<rows, embedded>>
  BY <1>4 DEF EmbedAll
<1>6. k[1] = call[t].ns /\ uses[t] \in Profiles
  BY <1>1, <1>2, <1>3 DEF KeyOf, Resolved, WithProfile
<1>7. profile'[k[1]] = uses[t] /\ uses[t] # Unset
  BY <1>1, <1>5, <1>6, KeysArePairs, IndexAssumption DEF StoreShapes
<1>8. \A i \in 1..Chunks : <<k[1], gen[t], i, uses[t]>> \in embedded
  BY <1>1, <1>2, <1>3, <1>6 DEF BatchesThere
<1>9. rows'[k].gen = gen[t] /\ rows'[k].active
  BY <1>2, <1>3, <1>5
<1>10. AllVectors(k)'
  BY <1>5, <1>7, <1>8, <1>9 DEF AllVectors
<1> QED
  BY <1>10, VectorsMakeWhole

LEMMA PublishedWhole ==
    ASSUME IndexInv, NEW t \in Threads, Work(t), NEW o \in Threads, NEW k \in Keys, Publishes(o, k)
    PROVE  Whole(k)'
<1>1. LockInv /\ LocalShapes /\ StoreShapes /\ Resolved /\ OthersStay(t)
  BY WorkIsLocal DEF IndexInv
<1>2. place[o] = "publish" /\ place'[o] = "leave" /\ key[o] = k /\ rows'[k] # rows[k]
  BY DEF Publishes
<1>3. o = t
  BY <1>1, <1>2 DEF OthersStay
<1>4. PublishFile(t)
  BY <1>2, <1>3 DEF Work, EnterLock, TakeLock, Leave, TakeModel, Refuse, Refused, PrepareText, WriteSource,
     WriteChunks, EmbedChunk, EmbedAll, EmbedFails, PrepareFile, ValidateFile, EmbedFile, DeleteSource, ReadDraft,
     PublishDraft, WriteTarget, CopyChunks, DeleteDraft, ReadSource, ReadNamespace, ReplaceEmbeddings, Step
<1>5. Bundle(k, gen[t], uses[t])
  BY <1>2, <1>3, <1>4 DEF PublishFile
<1>6. uses[t] \in Profiles /\ uses[t] # Unset
  BY <1>1, <1>2, <1>3, IndexAssumption DEF Resolved, WithProfile
<1>7. rows'[k] = [gen |-> gen[t], active |-> TRUE] /\ profile'[k[1]] = uses[t]
  BY <1>1, <1>5, KeysArePairs DEF Bundle, ReplaceChunks, StoreShapes
<1>8. \A i \in 1..Chunks : <<k[1], gen[t], i, uses[t]>> \in Embeddings(k[1], {gen[t]}, uses[t])
  BY DEF Embeddings
<1>9. \A i \in 1..Chunks : <<k[1], gen[t], i, uses[t]>> \in embedded'
  BY <1>5, <1>8 DEF Bundle
<1>10. AllVectors(k)'
  BY <1>6, <1>7, <1>9 DEF AllVectors
<1> QED
  BY <1>10, VectorsMakeWhole

\* Chunks come with their source's row, but those of a text.
LEMMA HasSourceStays ==
    ASSUME IndexInv, NEW t \in Threads, Work(t), NEW k \in Keys, HasSource(k), ~HalfWritten(k)
    PROVE  HasSource(k)'
<1>1. LockInv /\ StoreShapes /\ TargetIsThere
  BY DEF IndexInv
<1>2. \/ source'[k] \in {source[k], "active"}
      \/ RemoveSource(k)
  BY SourceChanges
<1>3. CASE RemoveSource(k)
  <2>1. rows'[k].active = FALSE
    BY <1>1, <1>3 DEF RemoveSource, StoreShapes
  <2> QED
    BY <2>1 DEF HasSource
<1>4. CASE source'[k] \in {source[k], "active"} /\ rows'[k] = rows[k]
  BY <1>4 DEF HasSource
<1>5. ASSUME rows'[k] # rows[k], rows'[k].active
      PROVE  source'[k] = "active"
  <2>1. ASSUME NEW j \in Keys, NEW g, ReplaceChunks(j, g) PROVE j = k
    BY <1>1, <1>5, <2>1 DEF ReplaceChunks, StoreShapes
  <2>2. ~\E j \in Keys : RemoveSource(j)
    <3>1. ASSUME NEW j \in Keys, RemoveSource(j) PROVE FALSE
      <4>1. rows \in [Keys -> [gen : Nat, active : BOOLEAN]] /\ rows' = [rows EXCEPT ![j].active = FALSE]
        BY <1>1, <3>1 DEF RemoveSource, StoreShapes
      <4>2. j # k
        BY <1>5, <4>1
      <4> QED
        BY <1>5, <4>1, <4>2
    <3> QED
      BY <3>1
  <2>3. place[t] \in Inside => key[t] \in Keys
    BY <1>1 DEF LockInv, UsersShareLock, WithLock
  <2>4. CASE WriteChunks(t)
    <3>1. place[t] = "text chunks" /\ ReplaceChunks(KeyOf(t), gen[t])
      BY <2>4 DEF WriteChunks, Step
    <3>2. KeyOf(t) \in Keys
      BY <1>1, <3>1, PlacesOfCall
    <3>3. KeyOf(t) = k
      BY <2>1, <3>1, <3>2
    <3> QED
      BY <3>1, <3>3 DEF HalfWritten
  <2>5. CASE PublishFile(t) \/ PublishDraft(t)
    <3>1. \E g : Bundle(key[t], g, uses[t])
      BY <1>5, <2>5 DEF PublishFile, PublishDraft, store
    <3>2. key[t] \in Keys
      BY <2>3, <2>5 DEF PublishFile, PublishDraft, Step, Inside
    <3>3. key[t] = k
      BY <2>1, <3>1, <3>2 DEF Bundle
    <3> QED
      BY <1>1, <3>1, <3>3 DEF Bundle, StoreShapes
  <2>6. CASE CopyChunks(t)
    <3>1. place[t] = "draft chunks" /\ ReplaceChunks(key[t], made') /\ UNCHANGED source
      BY <2>6 DEF CopyChunks, Step
    <3>2. key[t] \in Keys
      BY <2>3, <3>1 DEF Inside
    <3>3. key[t] = k
      BY <2>1, <3>1, <3>2
    <3> QED
      BY <1>1, <3>1, <3>3 DEF TargetIsThere
  <2>7. CASE DeleteSource(t) \/ DeleteDraft(t)
    <3>1. RemoveSource(key[t]) /\ key[t] \in Keys
      BY <2>3, <2>7 DEF DeleteSource, DeleteDraft, Step, Inside
    <3> QED
      BY <2>2, <3>1
  <2>8. CASE ~(WriteChunks(t) \/ PublishFile(t) \/ PublishDraft(t) \/ CopyChunks(t) \/ DeleteSource(t)
               \/ DeleteDraft(t))
    <3>1. UNCHANGED rows
      BY <2>8 DEF Work, EnterLock, TakeLock, Leave, TakeModel, Refuse, PrepareText, WriteSource,
         EmbedChunk, EmbedAll, EmbedFails, PrepareFile, ValidateFile, EmbedFile, ReadDraft,
         WriteTarget, ReadSource, ReadNamespace, ReplaceEmbeddings, store
    <3> QED
      BY <1>5, <3>1
  <2> QED
    BY <2>4, <2>5, <2>6, <2>7, <2>8
<1> QED
  BY <1>2, <1>3, <1>4, <1>5 DEF HasSource

\* What IndexKeeps says of a step and a source.
Keeps(k) ==
    /\ \A t \in Threads : Ends(t, k) \/ Publishes(t, k) => Whole(k)'
    /\ Settled(k) /\ rows'[k] = rows[k] =>
           IF profile'[k[1]] = profile[k[1]] THEN Settled(k)' ELSE Whole(k)'
    /\ HasSource(k) /\ ~HalfWritten(k) => HasSource(k)'

\* Where nothing is written nothing ends, and nobody new disputes.
LEMMA NothingWritten ==
    ASSUME NEW k \in Keys, UNCHANGED store,
           \A o \in Threads : (place'[o] = place[o] \/ place[o] \notin {"embed", "publish"})
                              /\ (Disputes(o, k)' => Disputes(o, k))
    PROVE  Keeps(k)
<1>1. UNCHANGED <<source, rows, embedded, profile>>
  BY DEF store
<1>2. Whole(k)' <=> Whole(k)
  BY <1>1 DEF Whole, Found, Active, Current
<1>3. HasSource(k)' <=> HasSource(k)
  BY <1>1 DEF HasSource
<1>4. \A t \in Threads : ~Ends(t, k) /\ ~Publishes(t, k)
  BY <1>1 DEF Ends, Publishes
<1> QED
  BY <1>1, <1>2, <1>3, <1>4 DEF Keeps, Settled

LEMMA StepKeeps ==
    ASSUME IndexInv, [IndexNext]_indexVars, NEW k \in Keys
    PROVE  Keeps(k)
<1>1. ASSUME NEW t \in Threads, Work(t) PROVE Keeps(k)
  <2>1. ASSUME NEW o \in Threads, Ends(o, k) \/ Publishes(o, k) PROVE Whole(k)'
    BY <1>1, <2>1, EndsWhole, PublishedWhole
  <2> QED
    BY <1>1, <2>1, SettledStays, HasSourceStays DEF Keeps
<1>2. ASSUME NEW t \in Threads, NEW kind \in Kinds, NEW n \in Namespaces, NEW s \in Sources,
             NEW p \in Profiles \cup {Unset}, Call(t, kind, n, s, p)
      PROVE  Keeps(k)
  <2>1. /\ UNCHANGED store
        /\ \A o \in Threads \ {t} : /\ place'[o] = place[o] /\ call'[o] = call[o] /\ uses'[o] = uses[o]
                                    /\ seen'[o] = seen[o]
        /\ place'[t] \in {"text", "file", "enter", "approve", "reindex", "reindex source"}
        /\ call'[t].kind = "approve" => place'[t] = "approve"
    BY <1>2, CallKeepsIndex
  <2>2. UNCHANGED <<rows, profile>> /\ place[t] = "idle"
    BY <1>2, <2>1 DEF store, Call
  <2>3. ~Disputes(t, k)'
    BY <2>1 DEF Disputes
  <2>4. ASSUME NEW o \in Threads, o # t, Disputes(o, k)' PROVE Disputes(o, k)
    BY <2>1, <2>2, <2>4 DEF Disputes
  <2> QED
    BY <2>1, <2>2, <2>3, <2>4, NothingWritten
<1>3. CASE UNCHANGED indexVars
  <2>1. UNCHANGED store /\ UNCHANGED <<rows, profile, place, call, uses, seen>>
    BY <1>3 DEF indexVars, store, local
  <2>2. ASSUME NEW o \in Threads, Disputes(o, k)' PROVE Disputes(o, k)
    BY <2>1, <2>2 DEF Disputes
  <2> QED
    BY <2>1, <2>2, NothingWritten
<1> QED
  BY <1>1, <1>2, <1>3 DEF IndexNext

\* Whatever calls overlap, of any threads, about any sources and with any
\* profiles: a text that returns as embedded and a file published are found
\* whole; a source found whole that no call disputes stays so until it is itself
\* replaced or deleted, and no later call disputes it; and chunks have an active
\* source, unless a text was half written (ingest_text, _embed_chunks,
\* _replace_source_bundle, validate_embedding_profile,
\* _replace_namespace_embedding_profile, delete_source).
THEOREM IndexStaysWhole == IndexSpec => IndexSettles
<1>1. IndexInv => OneInsideSource
  BY DEF IndexInv, LockInv, UsersShareLock, OneHolder, OneInsideSource, WithLock
<1>2. IndexInv /\ [IndexNext]_indexVars =>
          [\A k \in Keys :
             /\ \A t \in Threads : Ends(t, k) \/ Publishes(t, k) => Whole(k)'
             /\ Settled(k) /\ rows'[k] = rows[k] =>
                    IF profile'[k[1]] = profile[k[1]] THEN Settled(k)' ELSE Whole(k)'
             /\ HasSource(k) /\ ~HalfWritten(k) => HasSource(k)']_indexVars
  BY StepKeeps DEF Keeps
<1> QED
  BY <1>1, <1>2, IndexAtFirst, IndexKept, PTL DEF IndexSpec, IndexSettles, IndexKeeps

-----------------------------------------------------------------------------
(* The search.                                                              *)

\* What is gone was written and is not live, and no chunk of a written source
\* is written again: it stays gone while the search runs.
GoneIsDead ==
    \A c \in gone : c \in Passages /\ SourceOf[c] \in written /\ c \notin live

\* Whatever the search holds was live when it was taken over. The vector query
\* alone may name what is gone; near is not among it.
HeldIsNotGone ==
    /\ hits \cap gone = {} /\ found \cap gone = {}
    /\ \A i \in DOMAIN results : results[i] \notin gone

\* A list of results is numbered from one on.
ResultsAreNumbered == \A i \in DOMAIN results : i \in Nat

\* Notes are found by nobody but a tool that asks for them, and it is the
\* console that goes on to answer: of its results each may be shown.
NoNotesForConsole ==
    /\ asker # "tool that filters" =>
          /\ found \cap Notes = {}
          /\ \A i \in DOMAIN results : results[i] \notin Notes
    /\ stage \in {"select", "ask"} => asker = "console"

UnansweredHasNoSupport ==
    outcome = "insufficient" =>
        stage = "done" /\ \A i \in DOMAIN results : results[i] \notin Supports

SearchInv ==
    /\ GoneIsDead /\ HeldIsNotGone /\ ResultsAreNumbered
    /\ NoNotesForConsole /\ UnansweredHasNoSupport

\* The order of the places in a list is well founded.
PlaceLess == {ij \in Nat \X Nat : ij[1] < ij[2]}

\* However few are shown, the first place of a set of places is among them.
LEMMA FirstIsShown ==
    ASSUME NEW I \in SUBSET Nat, I # {}, NEW n \in Nat \ {0}
    PROVE  Upto(I, n) # {}
<1>1. IsWellFoundedOn(PlaceLess, Nat)
  BY NatLessThanWellFounded DEF OpToRel, PlaceLess
<1>2. PICK i \in I : \A j \in I : <<j, i>> \notin PlaceLess
  BY <1>1, WFMin
<1>3. ASSUME NEW j \in I PROVE ~(j < i)
  <2>1. j \in Nat /\ i \in Nat
    OBVIOUS
  <2>2. j < i => <<j, i>> \in PlaceLess
    BY <2>1 DEF PlaceLess
  <2> QED
    BY <1>2, <2>2
<1>4. {j \in I : j < i} = {}
  BY <1>3
<1>5. Cardinality({j \in I : j < i}) = 0
  BY <1>4, FS_EmptySet
<1> QED
  BY <1>2, <1>5 DEF Upto

\* What is ranked was found, each at a place of the list.
LEMMA RankedWasFound ==
    ASSUME NEW set, NEW list \in Best(set)
    PROVE  \A i \in DOMAIN list : i \in Nat /\ list[i] \in set
<1>1. PICK S \in SUBSET set : list \in SetToSeqs(S)
  BY DEF Best
<1>2. list \in [1..Cardinality(S) -> S]
  BY <1>1 DEF SetToSeqs
<1>3. DOMAIN list = 1..Cardinality(S) /\ \A i \in DOMAIN list : list[i] \in S
  BY <1>2
<1> QED
  BY <1>3

\* If a result that may be shown has the terms, so has the evidence.
LEMMA SupportIsSelected ==
    ASSUME ResultsAreNumbered, \A i \in DOMAIN results : results[i] \notin Notes,
           SelectEvidence \cap Supports = {}
    PROVE  \A i \in DOMAIN results : results[i] \notin Supports
<1> SUFFICES ASSUME NEW k \in DOMAIN results, results[k] \in Supports
             PROVE  FALSE
  OBVIOUS
<1> DEFINE supported == {i \in DOMAIN results : results[i] \in Supports}
           shown == {i \in supported : results[i] \notin Notes}
<1>1. k \in supported /\ supported # {}
  OBVIOUS
<1>2. shown \in SUBSET Nat /\ shown # {}
  BY <1>1 DEF ResultsAreNumbered
<1>3. PICK i \in Upto(shown, MaxEvidence) : TRUE
  <2> HIDE DEF shown
  <2> QED
    BY <1>2, FirstIsShown, SearchAssumption
<1>4. i \in shown
  BY <1>3 DEF Upto
<1>5. SelectEvidence = Shown(supported)
  BY <1>1 DEF SelectEvidence
<1>6. results[i] \in Shown(supported)
  BY <1>3 DEF Shown
<1> QED
  BY <1>4, <1>5, <1>6

\* A search that has not ranked anything has no result.
LEMMA EmptyList ==
    ASSUME NEW list, list = <<>> PROVE \A i \in DOMAIN list : FALSE
  OBVIOUS

\* No search has been made.
LEMMA SearchAtFirst == SearchInit => SearchInv
  BY DEF SearchInit, SearchInv, GoneIsDead, HeldIsNotGone, ResultsAreNumbered,
         NoNotesForConsole, UnansweredHasNoSupport

\* Others write what is not written yet, and delete.
LEMMA OthersKeepSearch ==
    ASSUME SearchInv,
           \/ \E s \in SourceIds : WritePassages(s) \/ DeletePassages(s)
           \/ \E c \in Passages : EmbedPassage(c)
    PROVE  SearchInv'
<1>1. UNCHANGED search
  BY DEF WritePassages, DeletePassages, EmbedPassage
<1>2. GoneIsDead'
  <2>1. CASE \E s \in SourceIds : WritePassages(s)
    BY <2>1, <1>1 DEF SearchInv, GoneIsDead, WritePassages, Of, search
  <2>2. CASE \E s \in SourceIds : DeletePassages(s)
    BY <2>2, <1>1 DEF SearchInv, GoneIsDead, DeletePassages, search
  <2>3. CASE \E c \in Passages : EmbedPassage(c)
    BY <2>3, <1>1 DEF SearchInv, GoneIsDead, EmbedPassage, search
  <2> QED
    BY <2>1, <2>2, <2>3
<1> QED
  BY <1>1, <1>2 DEF SearchInv, HeldIsNotGone, ResultsAreNumbered, NoNotesForConsole,
                    UnansweredHasNoSupport, search

\* Before the results: what is found by its words is live, and what the vectors
\* name is looked up.
LEMMA FindingKeepsSearch ==
    ASSUME SearchInv,
           \/ BeginSearch \/ SearchWords \/ SearchSubstring \/ QueryVectors
           \/ QuerySqliteVec \/ FilterHits \/ \E c \in Passages : Fetch(c)
    PROVE  SearchInv'
<1> USE DEF SearchInv, GoneIsDead, HeldIsNotGone, ResultsAreNumbered, NoNotesForConsole,
            UnansweredHasNoSupport
<1>1. CASE BeginSearch
  <2>1. \A i \in DOMAIN results' : FALSE
    <3>1. results' = <<>>
      BY <1>1 DEF BeginSearch
    <3> QED
      BY ONLY <3>1, EmptyList
  <2>2. GoneIsDead'
    <3>1. gone' = {c \in Passages : SourceOf[c] \in written} \ live
      BY <1>1 DEF BeginSearch
    <3>2. written' = written /\ live' = live
      BY <1>1 DEF BeginSearch, index
    <3> QED
      BY <3>1, <3>2
  <2>3. hits' = {} /\ found' = {} /\ stage' \notin {"select", "ask"} /\ outcome' = "none"
    BY <1>1 DEF BeginSearch
  <2> QED
    BY <2>1, <2>2, <2>3
<1>2. CASE SearchWords
  <2>1. hits' \subseteq live
    BY <1>2 DEF SearchWords, Firsts, Some
  <2> QED
    BY <1>2, <2>1 DEF SearchWords, index
<1>3. CASE SearchSubstring
  <2>1. hits' \subseteq live
    BY <1>3 DEF SearchSubstring, Firsts, Some
  <2> QED
    BY <1>3, <2>1 DEF SearchSubstring, index
<1>4. CASE QueryVectors
  BY <1>4 DEF QueryVectors, index
<1>5. CASE QuerySqliteVec
  BY <1>5 DEF QuerySqliteVec, index
<1>6. CASE FilterHits
  BY <1>6 DEF FilterHits, Matches, index
<1>7. CASE \E c \in Passages : Fetch(c)
  <2>1. PICK c \in Passages : Fetch(c)
    BY <1>7
  <2>2. GetChunk(c) \subseteq live
    BY DEF GetChunk
  <2> QED
    BY <2>1, <2>2 DEF Fetch, Matches, index
<1> QED
  BY <1>1, <1>2, <1>3, <1>4, <1>5, <1>6, <1>7

\* From the results on.
LEMMA AnsweringKeepsSearch ==
    ASSUME SearchInv, Rank \/ Select \/ Ask
    PROVE  SearchInv'
<1>1. CASE Rank
  <2>1. \A i \in DOMAIN results' : i \in Nat /\ results'[i] \in found
    BY <1>1, RankedWasFound DEF Rank
  <2> QED
    BY <1>1, <2>1 DEF Rank, SearchInv, GoneIsDead, HeldIsNotGone, ResultsAreNumbered,
                      NoNotesForConsole, UnansweredHasNoSupport, index
<1>2. CASE Select
  <2>1. \A i \in DOMAIN results : results[i] \notin Notes
    BY <1>2 DEF Select, SearchInv, NoNotesForConsole
  <2>2. evidence' \cap Supports = {} => \A i \in DOMAIN results : results[i] \notin Supports
    BY <1>2, <2>1, SupportIsSelected DEF Select, SearchInv
  <2> QED
    BY <1>2, <2>2 DEF Select, SearchInv, GoneIsDead, HeldIsNotGone, ResultsAreNumbered,
                      NoNotesForConsole, UnansweredHasNoSupport, index
<1>3. CASE Ask
  BY <1>3 DEF Ask, SearchInv, GoneIsDead, HeldIsNotGone, ResultsAreNumbered,
              NoNotesForConsole, UnansweredHasNoSupport, index
<1> QED
  BY <1>1, <1>2, <1>3

\* A search of a namespace shows nothing that was deleted before it began,
\* whatever is embedded and deleted meanwhile, and the console does not refuse a
\* question for want of evidence that one of its results holds: for any texts,
\* limits and lists of notes.
THEOREM SearchesAreTrue == SearchSpec => []SearchIsTrue
<1>1. SearchInit => SearchInv
  BY SearchAtFirst
<1>2. SearchInv /\ [SearchNext]_searchVars => SearchInv'
  <2> SUFFICES ASSUME SearchInv, [SearchNext]_searchVars PROVE SearchInv'
    OBVIOUS
  <2>1. CASE UNCHANGED searchVars
    BY <2>1 DEF searchVars, search, index, SearchInv, GoneIsDead, HeldIsNotGone,
                ResultsAreNumbered, NoNotesForConsole, UnansweredHasNoSupport
  <2> QED
    BY <2>1, OthersKeepSearch, FindingKeepsSearch, AnsweringKeepsSearch DEF SearchNext, Search
<1>3. SearchInv => SearchIsTrue
  BY DEF SearchInv, HeldIsNotGone, UnansweredHasNoSupport, SearchIsTrue, DeletedIsNotFound,
         AnsweredIfFound, ToSet
<1> QED
  BY <1>1, <1>2, <1>3, PTL DEF SearchSpec
=============================================================================
