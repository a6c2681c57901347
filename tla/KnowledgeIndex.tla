--------------------------- MODULE KnowledgeIndex ---------------------------
(* The knowledge index: KnowledgeService of knowledge/service.py over        *)
(* knowledge/sqlite_store.py. Threads ingest texts and files, delete, approve*)
(* and reindex sources. Each statement or transaction of the store is a      *)
(* step; a text is written in several, a file and an approved draft in one.  *)
(* A source has a lock of its own while it is needed (_source_lock), which   *)
(* files, deletions and approvals take; texts and reindexing do not. The     *)
(* embedding model has one lock, which everything that embeds takes.         *)
(*                                                                           *)
(* A generation is the list of chunks that one preparation of a source makes,*)
(* with chunk ids of their own. An embedding row is a generation, the number *)
(* of a chunk and a profile; rows marked deleted are no rows here. sqlite-vec*)
(* rows are written and deleted with them and left out.                      *)
EXTENDS Naturals, FiniteSets

CONSTANTS Threads,
          Namespaces, Draft, Target, \* where drafts are, where they are approved to
          Sources,                   \* source ids
          Profiles, Default,         \* embedding profiles
          Chunks,                    \* chunks of a generation, a batch each
          MaxCalls                   \* bound: calls made

Unset == "none"

ASSUME IndexAssumption ==
    /\ IsFiniteSet(Threads) /\ Unset \notin Threads
    /\ {Draft, Target} \subseteq Namespaces /\ Draft # Target
    /\ Default \in Profiles /\ Unset \notin Profiles
    /\ Chunks \in Nat \ {0} /\ MaxCalls \in Nat

VARIABLES enabled,  \* embedding.enabled of the configuration
          source,   \* knowledge_sources: none, active or deleted
          rows,     \* knowledge_chunks of a source: their generation, and whether they are active
          embedded, \* active knowledge_embeddings
          profile,  \* knowledge_namespaces
          made,     \* generations made
          entry,    \* _source_locks: lock and users
          lock,     \* the lock object a thread waits for or holds, 0 for none
          key,      \* its source
          model,    \* holder of _model_runtime_lock
          place, call, \* where a thread is in which call
          gen,      \* generation it prepared or read
          seen,     \* generations a reindex read
          uses,     \* profile it embeds with
          done,     \* chunks it has embedded
          calls

store == <<source, rows, embedded, profile, made>>
locks == <<entry, lock, key>>
local == <<call, gen, seen, uses, done>>
indexVars == <<enabled, store, locks, model, place, local, calls>>

Kinds == {"text", "file", "delete", "approve", "reindex", "reindex source"}
Keys == Namespaces \X Sources
Locks == 1..Cardinality(Threads)
NoCall == [kind |-> Unset, ns |-> Unset, source |-> Unset, profile |-> Unset]

IndexInit ==
    /\ enabled \in BOOLEAN
    /\ source = [k \in Keys |-> Unset]
    /\ rows = [k \in Keys |-> [gen |-> 0, active |-> FALSE]]
    /\ embedded = {}
    /\ profile = [n \in Namespaces |-> Unset]
    /\ made = 0
    /\ entry = [k \in Keys |-> [lock |-> 0, users |-> 0]]
    /\ lock = [t \in Threads |-> 0]
    /\ key = [t \in Threads |-> <<Unset, Unset>>]
    /\ model = Unset
    /\ place = [t \in Threads |-> "idle"]
    /\ call = [t \in Threads |-> NoCall]
    /\ gen = [t \in Threads |-> 0]
    /\ seen = [t \in Threads |-> {}]
    /\ uses = [t \in Threads |-> Unset]
    /\ done = [t \in Threads |-> 0]
    /\ calls = 0

Go(t, p) == place' = [place EXCEPT ![t] = p]
Step(t, from, to) == place[t] = from /\ Go(t, to)

\* The call ends, and with it what it read.
Return(t) ==
    /\ Go(t, "idle")
    /\ call' = [call EXCEPT ![t] = NoCall]
    /\ gen' = [gen EXCEPT ![t] = 0]
    /\ seen' = [seen EXCEPT ![t] = {}]
    /\ uses' = [uses EXCEPT ![t] = Unset]
    /\ done' = [done EXCEPT ![t] = 0]

KeyOf(t) == <<call[t].ns, call[t].source>>

-----------------------------------------------------------------------------
(* What the store's statements do.                                          *)

Active(n) == {rows[k].gen : k \in {k \in Keys : k[1] = n /\ rows[k].active}}

\* _replace_chunks: the source's rows are replaced, and embeddings of chunks
\* that no source of the namespace has are removed before the new rows come.
Remaining(n, k) ==
    {e \in embedded : e[1] = n => \E j \in Keys \ {k} : j[1] = n /\ rows[j].gen = e[2]}
ReplaceChunks(k, g) == rows' = [rows EXCEPT ![k] = [gen |-> g, active |-> TRUE]]

Embeddings(n, gs, p) == {n} \X gs \X (1..Chunks) \X {p}

\* _replace_source_bundle.
Bundle(k, g, p) ==
    /\ source' = [source EXCEPT ![k] = "active"]
    /\ ReplaceChunks(k, g)
    /\ embedded' = Remaining(k[1], k) \cup Embeddings(k[1], {g}, p)
    /\ profile' = [profile EXCEPT ![k[1]] = p]

\* Mutant: the chunks stay active.
RemoveSourceOnly(k) ==
    /\ source' = [source EXCEPT ![k] = IF @ = Unset THEN Unset ELSE "deleted"]
    /\ embedded' = {e \in embedded : ~(e[1] = k[1] /\ e[2] = rows[k].gen)}
    /\ UNCHANGED rows

\* delete_source.
RemoveSource(k) ==
    /\ source' = [source EXCEPT ![k] = IF @ = Unset THEN Unset ELSE "deleted"]
    /\ rows' = [rows EXCEPT ![k].active = FALSE]
    /\ embedded' = {e \in embedded : ~(e[1] = k[1] /\ e[2] = rows[k].gen)}

\* _namespace_embedding_profile_id.
Current(n) == IF profile[n] = Unset THEN Default ELSE profile[n]

\* Mutant: any profile is accepted, also for a namespace with chunks.
AllowedAny(t) == call[t].ns \in Namespaces

\* _source_embedding_profile_id, validate_embedding_profile.
Wanted(t) == IF call[t].profile = Unset THEN Current(call[t].ns) ELSE call[t].profile
Allowed(t) == profile[call[t].ns] \in {Unset, Wanted(t)} \/ Active(call[t].ns) = {}

\* The checks of approve_source.
Approvable(t) ==
    /\ source[KeyOf(t)] = "active" /\ rows[KeyOf(t)].active
    /\ Active(Target) = {} \/ Current(Target) = Current(Draft)

-----------------------------------------------------------------------------
(* Locks.                                                                   *)

\* A lock object nobody refers to stands for a new one.
NewLock == CHOOSE l \in Locks : \A t \in Threads : lock[t] # l

\* Where a thread holds its source's lock.
Inside == {"locked", "file model", "file embed", "publish", "leave", "draft chunks", "locked draft"}
LockKey(t) == IF call[t].kind = "approve" /\ place[t] = "enter" THEN <<Target, call[t].source>> ELSE KeyOf(t)

\* _source_lock: the entry is made or shared under the guard, then its lock is
\* taken.
EnterLock(t) ==
    /\ \/ Step(t, "enter", "wait")
       \/ Step(t, "enter draft", "wait draft")
    /\ LET k == LockKey(t)
           l == IF entry[k].users = 0 THEN NewLock ELSE entry[k].lock
       IN  /\ key' = [key EXCEPT ![t] = k]
           /\ lock' = [lock EXCEPT ![t] = l]
           /\ entry' = [entry EXCEPT ![k] = [lock |-> l, users |-> @.users + 1]]
    /\ UNCHANGED <<store, model, local, calls>>

TakeLock(t) ==
    /\ \A o \in Threads : ~(lock[o] = lock[t] /\ place[o] \in Inside)
    /\ \/ Step(t, "wait", "locked")
       \/ Step(t, "wait draft", "locked draft")
    /\ UNCHANGED <<store, locks, model, local, calls>>

\* The end of _source_lock: the last user removes the entry.
LeaveLock(t) ==
    /\ entry' = [entry EXCEPT ![key[t]] =
                    IF @.users = 1 THEN [lock |-> 0, users |-> 0]
                    ELSE [lock |-> @.lock, users |-> @.users - 1]]
    /\ lock' = [lock EXCEPT ![t] = 0]
    /\ key' = [key EXCEPT ![t] = <<Unset, Unset>>]

Leave(t) ==
    /\ place[t] = "leave"
    /\ LeaveLock(t)
    /\ Return(t)
    /\ UNCHANGED <<store, model, calls>>

\* Whoever embeds takes the model's lock with the profile it resolved.
TakeModel(t) ==
    /\ model = Unset /\ model' = t
    /\ \/ Step(t, "model", "embed")
       \/ Step(t, "file model", "file embed")
       \/ Step(t, "reindex model", "reindex embed")
    /\ UNCHANGED <<store, locks, local, calls>>

-----------------------------------------------------------------------------
(* Calls.                                                                   *)

\* Approving takes a draft; the other calls take any namespace. A profile is
\* asked for by an upload, a text or a reindex of a namespace.
Call(t, kind, n, s, p) ==
    /\ place[t] = "idle" /\ calls < MaxCalls
    /\ kind = "approve" => n = Draft
    /\ kind \in {"delete", "approve", "reindex source"} => p = Unset
    /\ call' = [call EXCEPT ![t] = [kind |-> kind, ns |-> n, source |-> s, profile |-> p]]
    /\ Go(t, IF kind = "delete" THEN "enter" ELSE kind)
    /\ calls' = calls + 1
    /\ UNCHANGED <<store, locks, model, gen, seen, uses, done>>

\* A check of the call fails and it returns: the profile of a text, a draft
\* that is not there, another profile in the target, a source without chunks,
\* a profile change for one source only.
Refused(t) ==
    \/ place[t] = "text" /\ ~Allowed(t)
    \/ place[t] = "approve" /\ ~Approvable(t)
    \/ place[t] = "reindex source" /\ ~rows[KeyOf(t)].active
Refuse(t) ==
    /\ Refused(t)
    /\ Return(t)
    /\ UNCHANGED <<store, locks, model, calls>>

\* ingest_text: the profile is resolved, the text chunked; the row of the
\* source and its chunks are written.
PrepareText(t) ==
    /\ Step(t, "text", "text source")
    /\ Allowed(t)
    /\ made' = made + 1
    /\ gen' = [gen EXCEPT ![t] = made']
    /\ uses' = [uses EXCEPT ![t] = Wanted(t)]
    /\ UNCHANGED <<source, rows, embedded, profile, locks, model, call, seen, done, calls>>

WriteSource(t) ==
    /\ Step(t, "text source", "text chunks")
    /\ source' = [source EXCEPT ![KeyOf(t)] = "active"]
    /\ UNCHANGED <<rows, embedded, profile, made, locks, model, local, calls>>

WriteChunks(t) ==
    /\ Step(t, "text chunks", "model")
    /\ ReplaceChunks(KeyOf(t), gen[t])
    /\ embedded' = Remaining(call[t].ns, KeyOf(t))
    /\ UNCHANGED <<source, profile, made, locks, model, local, calls>>

\* _embed_chunks: a batch is embedded and its vector written.
EmbedChunk(t) ==
    /\ enabled
    /\ place[t] = "embed" /\ done[t] < Chunks
    /\ embedded' = embedded \cup {<<call[t].ns, gen[t], done[t] + 1, uses[t]>>}
    /\ done' = [done EXCEPT ![t] = @ + 1]
    /\ UNCHANGED <<source, rows, profile, made, locks, model, place, call, gen, seen, uses, calls>>

\* All are embedded: the namespace's profile is written.
EmbedAll(t) ==
    /\ place[t] = "embed" /\ done[t] = Chunks
    /\ profile' = [profile EXCEPT ![call[t].ns] = uses[t]]
    /\ model' = Unset
    /\ Return(t)
    /\ UNCHANGED <<source, rows, embedded, made, locks, calls>>

\* Mutant: the model's lock is kept.
EmbedFailsLocked(t) ==
    /\ place[t] \in {"embed", "reindex embed"} /\ done[t] < Chunks
    /\ Return(t)
    /\ UNCHANGED <<store, locks, model, calls>>

\* The model is not available or embedding disabled: the call returns, what it has written stays.
EmbedFails(t) ==
    /\ place[t] \in {"embed", "reindex embed"} /\ done[t] < Chunks
    /\ model' = Unset
    /\ Return(t)
    /\ UNCHANGED <<store, locks, calls>>

\* _run_file_ingest_job: chunks, the source's lock, the profile, the model,
\* one transaction. The job may be cancelled or fail on the way.
PrepareFile(t) ==
    /\ Step(t, "file", "enter")
    /\ made' = made + 1
    /\ gen' = [gen EXCEPT ![t] = made']
    /\ UNCHANGED <<source, rows, embedded, profile, locks, model, call, seen, uses, done, calls>>

ValidateFile(t) ==
    /\ place[t] = "locked" /\ call[t].kind = "file"
    /\ Go(t, IF Allowed(t) THEN "file model" ELSE "leave")
    /\ uses' = [uses EXCEPT ![t] = Wanted(t)]
    /\ UNCHANGED <<store, locks, model, call, gen, seen, done, calls>>

EmbedFile(t) ==
    /\ place[t] = "file embed"
    /\ \/ enabled /\ Go(t, "publish")
       \/ Go(t, "leave")
    /\ model' = Unset
    /\ UNCHANGED <<store, locks, local, calls>>

PublishFile(t) ==
    /\ Step(t, "publish", "leave")
    /\ \/ Bundle(key[t], gen[t], uses[t])
       \/ UNCHANGED <<source, rows, embedded, profile>>
    /\ UNCHANGED <<made, locks, model, local, calls>>

\* delete_source of the service.
DeleteSource(t) ==
    /\ Step(t, "locked", "leave") /\ call[t].kind = "delete"
    /\ RemoveSource(key[t])
    /\ UNCHANGED <<profile, made, locks, model, local, calls>>

\* approve_source: the draft's chunks and the profiles are read without a lock.
ReadDraft(t) ==
    /\ Step(t, "approve", "enter")
    /\ Approvable(t)
    /\ gen' = [gen EXCEPT ![t] = rows[KeyOf(t)].gen]
    /\ uses' = [uses EXCEPT ![t] = Current(Draft)]
    /\ UNCHANGED <<store, locks, model, call, seen, done, calls>>

\* Under the target's lock: the draft's embeddings are complete and are
\* published with a copy of its chunks, or the call returns.
PublishDraft(t) ==
    /\ enabled
    /\ place[t] = "locked" /\ call[t].kind = "approve"
    /\ IF Embeddings(Draft, {gen[t]}, uses[t]) \subseteq embedded
       THEN /\ made' = made + 1
            /\ Bundle(key[t], made', uses[t])
            /\ Go(t, "enter draft")
            /\ LeaveLock(t)
            /\ UNCHANGED local
       ELSE /\ LeaveLock(t)
            /\ Return(t)
            /\ UNCHANGED store
    /\ UNCHANGED <<model, calls>>

\* Without embedding, the target's row and its chunks are written in two
\* transactions.
WriteTarget(t) ==
    /\ ~enabled
    /\ Step(t, "locked", "draft chunks") /\ call[t].kind = "approve"
    /\ source' = [source EXCEPT ![key[t]] = "active"]
    /\ UNCHANGED <<rows, embedded, profile, made, locks, model, local, calls>>

CopyChunks(t) ==
    /\ Step(t, "draft chunks", "enter draft")
    /\ made' = made + 1
    /\ ReplaceChunks(key[t], made')
    /\ embedded' = Remaining(Target, key[t])
    /\ LeaveLock(t)
    /\ UNCHANGED <<source, profile, model, local, calls>>

\* Then the draft is deleted, under its lock.
DeleteDraft(t) ==
    /\ Step(t, "locked draft", "leave")
    /\ RemoveSource(key[t])
    /\ UNCHANGED <<profile, made, locks, model, local, calls>>

\* reindex of a source: its chunks are read and embedded like a text's.
ReadSource(t) ==
    /\ Step(t, "reindex source", "model")
    /\ rows[KeyOf(t)].active
    /\ gen' = [gen EXCEPT ![t] = rows[KeyOf(t)].gen]
    /\ uses' = [uses EXCEPT ![t] = Current(call[t].ns)]
    /\ UNCHANGED <<store, locks, model, call, seen, done, calls>>

\* reindex of a namespace: its chunks are read; if there are none only the
\* profile is written.
ReadNamespace(t) ==
    /\ place[t] = "reindex"
    /\ IF Active(call[t].ns) = {}
       THEN /\ profile' = [profile EXCEPT ![call[t].ns] = Wanted(t)]
            /\ Return(t)
       ELSE /\ seen' = [seen EXCEPT ![t] = Active(call[t].ns)]
            /\ uses' = [uses EXCEPT ![t] = Wanted(t)]
            /\ Go(t, "reindex model")
            /\ UNCHANGED <<profile, call, gen, done>>
    /\ UNCHANGED <<source, rows, embedded, made, locks, model, calls>>

\* Mutant: the profile is written by somebody else.
ReplaceVectorsOnly(t) ==
    /\ enabled
    /\ place[t] = "reindex embed"
    /\ embedded' = {e \in embedded : e[1] # call[t].ns} \cup Embeddings(call[t].ns, seen[t], uses[t])
    /\ model' = Unset
    /\ Return(t)
    /\ UNCHANGED <<profile, source, rows, made, locks, calls>>

\* _replace_namespace_embedding_profile: when all chunks that were read are
\* embedded, their vectors replace all of the namespace in one transaction.
ReplaceEmbeddings(t) ==
    /\ enabled
    /\ place[t] = "reindex embed"
    /\ embedded' = {e \in embedded : e[1] # call[t].ns} \cup Embeddings(call[t].ns, seen[t], uses[t])
    /\ profile' = [profile EXCEPT ![call[t].ns] = uses[t]]
    /\ model' = Unset
    /\ Return(t)
    /\ UNCHANGED <<source, rows, made, locks, calls>>

Work(t) ==
    \/ EnterLock(t) \/ TakeLock(t) \/ Leave(t) \/ TakeModel(t) \/ Refuse(t)
    \/ PrepareText(t) \/ WriteSource(t) \/ WriteChunks(t)
    \/ EmbedChunk(t) \/ EmbedAll(t) \/ EmbedFails(t)
    \/ PrepareFile(t) \/ ValidateFile(t) \/ EmbedFile(t) \/ PublishFile(t)
    \/ DeleteSource(t)
    \/ ReadDraft(t) \/ PublishDraft(t) \/ WriteTarget(t) \/ CopyChunks(t) \/ DeleteDraft(t)
    \/ ReadSource(t) \/ ReadNamespace(t) \/ ReplaceEmbeddings(t)

IndexNext ==
    /\ UNCHANGED enabled
    /\ \E t \in Threads :
        \/ Work(t)
        \/ \E k \in Kinds, n \in Namespaces, s \in Sources, p \in Profiles \cup {Unset} : Call(t, k, n, s, p)

IndexRuns == UNCHANGED enabled /\ \E t \in Threads : Work(t)

\* Threads run, whichever comes next; nobody has to call.
IndexSpec == IndexInit /\ [][IndexNext]_indexVars /\ WF_indexVars(IndexRuns)

-----------------------------------------------------------------------------
(* KnowledgeRetriever.search with query_vectors: the chunks a vector query  *)
(* of a namespace returns.                                                  *)
Found(n) == {e \in embedded : e[1] = n /\ e[4] = Current(n) /\ e[2] \in Active(n)}

-----------------------------------------------------------------------------
(* What the knowledge index promises its readers.                           *)

IndexTypeOK ==
    /\ source \in [Keys -> {Unset, "active", "deleted"}]
    /\ rows \in [Keys -> [gen : 0..made, active : BOOLEAN]]
    /\ embedded \subseteq Namespaces \X (1..made) \X (1..Chunks) \X Profiles
    /\ profile \in [Namespaces -> Profiles \cup {Unset}]
    /\ made \in 0..MaxCalls
    /\ entry \in [Keys -> [lock : Locks \cup {0}, users : 0..Cardinality(Threads)]]
    /\ lock \in [Threads -> Locks \cup {0}]
    /\ model \in Threads \cup {Unset}
    /\ gen \in [Threads -> 0..made]
    /\ done \in [Threads -> 0..Chunks]
    /\ calls \in 0..MaxCalls

\* Never two threads inside the lock of one source, although its lock object
\* is made and thrown away with its users. _source_lock.
OneInsideSource ==
    \A t, o \in Threads :
        t # o /\ place[t] \in Inside /\ place[o] \in Inside => key[t] # key[o]

\* A vector query of the source's namespace finds all its chunks, under the
\* profile that the namespace has.
Whole(k) ==
    /\ rows[k].active /\ profile[k[1]] # Unset
    /\ Embeddings(k[1], {rows[k].gen}, profile[k[1]]) \subseteq Found(k[1])

\* What a call has still to write was decided without the source's present
\* chunks or for another profile: a reindex that read the namespace before, a
\* text, a file or a draft whose profile was checked before.
Disputes(t, k) ==
    \/ /\ place[t] \in {"reindex model", "reindex embed"}
       /\ call[t].ns = k[1] /\ rows[k].gen \notin seen[t]
    \/ /\ place[t] \in {"text source", "text chunks", "model", "embed",
                        "file model", "file embed", "publish"}
       /\ call[t].ns = k[1] /\ uses[t] # profile[k[1]]
    \/ /\ call[t].kind = "approve" /\ place[t] \in {"enter", "wait", "locked"}
       /\ k[1] = Target /\ uses[t] # profile[Target]

Settled(k) == Whole(k) /\ \A t \in Threads : ~Disputes(t, k)

\* A text's or a source's chunks are all embedded, and still the source's.
Ends(t, k) ==
    /\ place[t] = "embed" /\ done[t] = Chunks /\ place'[t] = "idle"
    /\ KeyOf(t) = k /\ rows[k] = [gen |-> gen[t], active |-> TRUE]

Publishes(t, k) ==
    /\ place[t] = "publish" /\ place'[t] = "leave"
    /\ key[t] = k /\ rows'[k] # rows[k]

\* Chunks that can be found belong to a source that is active.
HasSource(k) == rows[k].active => source[k] = "active"
HalfWritten(k) == \E t \in Threads : place[t] = "text chunks" /\ KeyOf(t) = k

\* What the index keeps, while texts, files, deletions, approvals and reindexing
\* of all sources overlap. A text that returns as embedded and a file published
\* are found whole. Once no call disputes it, a source found whole stays so until
\* it is itself replaced or deleted, and no call begins to dispute it: the
\* profile checks refuse it, or a reindex gives it another profile with the rest
\* of the namespace. A source deleted has no chunks, unless a text was half
\* written. And one thread at a time is inside the lock of a source.
IndexKeeps ==
    [][\A k \in Keys :
         /\ \A t \in Threads : Ends(t, k) \/ Publishes(t, k) => Whole(k)'
         /\ Settled(k) /\ rows'[k] = rows[k] =>
                IF profile'[k[1]] = profile[k[1]] THEN Settled(k)' ELSE Whole(k)'
         /\ HasSource(k) /\ ~HalfWritten(k) => HasSource(k)']_indexVars

\* Every call returns: no thread waits for a source or for the model for
\* ever. There are MaxCalls calls at most, so all threads are idle in the end.
CallsReturn == []<>(\A t \in Threads : place[t] = "idle")

IndexSettles == []OneInsideSource /\ IndexKeeps
=============================================================================
