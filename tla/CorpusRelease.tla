----------------------------- MODULE CorpusRelease -----------------------------
(***************************************************************************)
(* Publishing a release of a corpus: the sources of a manifest, one after  *)
(* the other (knowledge/corpus.py).  Each is a row, its chunks and their   *)
(* embeddings, written by a statement each.  A publication may fail or be  *)
(* killed anywhere and is then repeated; between its steps an operator may *)
(* change the namespace's embedding profile, which drops the vectors.      *)
(***************************************************************************)
EXTENDS Integers

CONSTANTS
  Sources,      \* number of sources of the manifest
  MaxReleases   \* bound: publications

ASSUME CorpusAssumption == Sources \in Nat

Source == 1 .. Sources

VARIABLES
  row,       \* source -> "none", "old" or "new": what its row describes
  chunks,    \* source -> "none", "old" or "new": whose text its chunks are
  embedded,  \* sources whose chunks all have vectors of the current profile
  plan,      \* source -> what the publication means to do
  next,      \* source it is at
  step,      \* "idle", "source", "chunks" or "embed"
  reported,  \* the last publication said it is done
  tries

corpusVars == <<row, chunks, embedded, plan, next, step, reported, tries>>

CorpusInit ==
  /\ row \in [Source -> {"none", "old"}]
  /\ chunks = row
  /\ embedded \in SUBSET {s \in Source : row[s] = "old"}
  /\ plan = [s \in Source |-> "none"]
  /\ next = 0 /\ step = "idle" /\ reported = FALSE /\ tries = 0

\* plan_corpus_release compares the rows with the manifest; the manifest has
\* been checked against the files before.
Action(s) == CASE row[s] = "none" -> "create" [] row[s] = "new" -> "unchanged" [] OTHER -> "update"

Plan ==
  /\ step = "idle" /\ tries < MaxReleases
  /\ plan' = [s \in Source |-> Action(s)]
  /\ next' = 1 /\ step' = "source" /\ reported' = FALSE /\ tries' = tries + 1
  /\ UNCHANGED <<row, chunks, embedded>>

\* Mutant: a row that is up to date is enough.
CurrentIfRow(s) == row[s] = "new"

\* _source_embeddings_are_current.
EmbeddingsCurrent(s) == chunks[s] # "none" /\ s \in embedded

Skip ==
  /\ step = "source" /\ next \in Source
  /\ plan[next] = "unchanged" /\ EmbeddingsCurrent(next)
  /\ next' = next + 1
  /\ UNCHANGED <<row, chunks, embedded, plan, step, reported, tries>>

\* Its chunks are embedded again; a source without chunks is refused.
Reindex ==
  /\ step = "source" /\ next \in Source
  /\ plan[next] = "unchanged" /\ ~EmbeddingsCurrent(next)
  /\ step' = IF chunks[next] = "none" THEN "idle" ELSE "embed"
  /\ UNCHANGED <<row, chunks, embedded, plan, next, reported, tries>>

WriteSource ==
  /\ step = "source" /\ next \in Source
  /\ plan[next] \in {"create", "update"}
  /\ row' = [row EXCEPT ![next] = "new"]
  /\ step' = "chunks"
  /\ UNCHANGED <<chunks, embedded, plan, next, reported, tries>>

WriteChunks ==
  /\ step = "chunks"
  /\ chunks' = [chunks EXCEPT ![next] = "new"]
  /\ embedded' = embedded \ {next}
  /\ step' = "embed"
  /\ UNCHANGED <<row, plan, next, reported, tries>>

EmbedSource ==
  /\ step = "embed"
  /\ embedded' = embedded \union {next}
  /\ next' = next + 1 /\ step' = "source"
  /\ UNCHANGED <<row, chunks, plan, reported, tries>>

\* The model is not there, a statement fails or the process is killed.
Abort ==
  /\ step # "idle"
  /\ step' = "idle"
  /\ UNCHANGED <<row, chunks, embedded, plan, next, reported, tries>>

ReportRelease ==
  /\ step = "source" /\ next > Sources
  /\ reported' = TRUE /\ step' = "idle"
  /\ UNCHANGED <<row, chunks, embedded, plan, next, tries>>

\* Between publications.
DropVectors ==
  /\ step = "idle" /\ embedded # {}
  /\ embedded' = {} /\ reported' = FALSE
  /\ UNCHANGED <<row, chunks, plan, next, step, tries>>

CorpusNext ==
  \/ Plan \/ Skip \/ Reindex \/ WriteSource \/ WriteChunks \/ EmbedSource
  \/ Abort \/ ReportRelease \/ DropVectors

CorpusSpec == CorpusInit /\ [][CorpusNext]_corpusVars

(***************************************************************************)
(* Requirements.                                                           *)
(***************************************************************************)
\* When a publication says it is done, every source of the manifest has
\* chunks, and all of them can be found by their vectors, however many
\* publications were cut short before.
ReleasedIsSearchable ==
  reported => \A s \in Source : row[s] = "new" /\ chunks[s] # "none" /\ s \in embedded
=============================================================================
