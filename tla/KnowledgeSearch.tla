--------------------------- MODULE KnowledgeSearch ---------------------------
(* A search of one knowledge namespace (KnowledgeService.search,             *)
(* knowledge/retrieval.py, vector_store.py) and the answer the console gives *)
(* from it (knowledge/answering.py). The model's lock admits one search at a *)
(* time; texts are written, embedded and deleted between its reads, a read   *)
(* being one statement of the store.                                         *)
(*                                                                           *)
(* Scores are any order: what is weighted, reranked or left to its place is  *)
(* one choice. A chunk's id is made anew with each preparation of its source,*)
(* so that a source here is written once.                                    *)
EXTENDS Naturals, FiniteSets, SequencesExt

CONSTANTS Passages,              \* chunks that may be written
          SourceOf, Ordinal,     \* of a chunk
          Notes,                 \* course notes and case records
          Words,                 \* chunks whose text has the words of the query
          Supports,              \* chunks whose text has one of its terms
          Limit,                 \* candidate pool
          TopK, PerSource,       \* results, and those of one source
          MaxEvidence,           \* passages the answer rests on
          MaxSearches            \* bound: searches made

ASSUME SearchAssumption == MaxEvidence \in Nat \ {0}

VARIABLES written,  \* sources written so far
          live,     \* active chunks
          vectors,  \* chunks with an active embedding
          stage,    \* where the search is
          asker,    \* a tool, which may ask for a kind of evidence, or the console
          gone,     \* chunks deleted before the search began
          hits,     \* chunks the words found
          counted,  \* embeddings of active chunks counted by sqlite-vec
          near,     \* chunks the vector query named
          found,    \* candidates
          results,  \* the search's results, best first
          evidence, \* what the answer rests on
          outcome,  \* of a question
          searches

index == <<written, live, vectors>>
search == <<stage, asker, gone, hits, counted, near, found, results, evidence, outcome, searches>>
searchVars == <<index, search>>

SourceIds == {SourceOf[c] : c \in Passages}
Of(s) == {c \in Passages : SourceOf[c] = s}

SearchInit ==
    /\ written = {} /\ live = {} /\ vectors = {}
    /\ stage = "idle" /\ asker = "tool" /\ gone = {}
    /\ hits = {} /\ counted = 0 /\ near = {} /\ found = {}
    /\ results = <<>> /\ evidence = {} /\ outcome = "none"
    /\ searches = 0

-----------------------------------------------------------------------------
(* Others write and delete (see KnowledgeIndex).                            *)

WritePassages(s) ==
    /\ s \notin written
    /\ written' = written \cup {s}
    /\ live' = live \cup Of(s)
    /\ UNCHANGED <<vectors, search>>

\* A text is embedded after its chunks were written, and without the lock of
\* its source: it may have been deleted by then.
EmbedPassage(c) ==
    /\ SourceOf[c] \in written /\ c \notin vectors
    /\ vectors' = vectors \cup {c}
    /\ UNCHANGED <<written, live, search>>

DeletePassages(s) ==
    /\ Of(s) \cap live # {}
    /\ live' = live \ Of(s)
    /\ vectors' = vectors \ Of(s)
    /\ UNCHANGED <<written, search>>

-----------------------------------------------------------------------------
(* The search.                                                              *)

Smaller(m, n) == IF m < n THEN m ELSE n

\* LIMIT n.
Some(set, n) == {f \in SUBSET set : Cardinality(f) = Smaller(Cardinality(set), n)}
\* ORDER BY ordinal LIMIT n: with equal ordinals any.
Firsts(set, n) ==
    {f \in Some(set, n) : \A c \in f, d \in set \ f : Ordinal[c] <= Ordinal[d]}

\* _matches_filters: notes are for those who ask for a kind of evidence.
Matches(c) == asker = "tool that filters" \/ c \notin Notes

\* The query is embedded with the namespace's profile, or the search refused.
BeginSearch ==
    /\ stage \in {"idle", "done"} /\ searches < MaxSearches
    /\ searches' = searches + 1
    /\ asker' \in {"tool", "tool that filters", "console"}
    /\ gone' = {c \in Passages : SourceOf[c] \in written} \ live
    /\ stage' \in {"words", "done"}
    /\ hits' = {} /\ counted' = 0 /\ near' = {} /\ found' = {}
    /\ results' = <<>> /\ evidence' = {} /\ outcome' = "none"
    /\ UNCHANGED index

\* search_fts. The words of a query are not always tokens of the text.
SearchWords ==
    /\ stage = "words"
    /\ \/ hits' \in Firsts(live \cap Words, Limit)
       \/ hits' = {}
    /\ stage' = IF hits' = {} THEN "substring" ELSE "vectors"
    /\ UNCHANGED <<index, asker, gone, counted, near, found, results, evidence, outcome, searches>>

\* find_chunks_containing.
SearchSubstring ==
    /\ stage = "substring"
    /\ hits' \in Firsts(live \cap Words, Limit)
    /\ stage' = "vectors"
    /\ UNCHANGED <<index, asker, gone, counted, near, found, results, evidence, outcome, searches>>

\* query_vectors: there is no query vector or no backend, or the vectors in
\* the tables are compared with it, deleted chunks or not.
QueryVectors ==
    /\ stage = "vectors"
    /\ \/ near' = {} /\ UNCHANGED counted /\ stage' = "collect"
       \/ near' \in Some(vectors, Limit) /\ UNCHANGED counted /\ stage' = "collect"
       \/ counted' = Cardinality(vectors \cap live) /\ stage' = "sqlite-vec" /\ UNCHANGED near
    /\ UNCHANGED <<index, asker, gone, hits, found, results, evidence, outcome, searches>>

\* query_sqlite_vec: its counts and its query are statements of their own; a
\* count that fell in between leaves the search to the words.
QuerySqliteVec ==
    /\ stage = "sqlite-vec"
    /\ IF counted = 0 \/ Cardinality(vectors \cap live) < counted
       THEN near' = {}
       ELSE near' \in Some(vectors \cap live, Limit)
    /\ stage' = "collect"
    /\ UNCHANGED <<index, asker, gone, hits, counted, found, results, evidence, outcome, searches>>

\* Mutant: a chunk is taken whatever its status.
AnyChunk(c) == {c}

\* get_chunk: a chunk deleted since, or before its vector was written, is no
\* candidate.
GetChunk(c) == {c} \cap live

FilterHits ==
    /\ stage = "collect"
    /\ found' = {c \in hits : Matches(c)}
    /\ stage' = "fetch"
    /\ UNCHANGED <<index, asker, gone, hits, counted, near, results, evidence, outcome, searches>>

Fetch(c) ==
    /\ stage = "fetch" /\ c \in near
    /\ near' = near \ {c}
    /\ found' = found \cup {d \in GetChunk(c) : Matches(d)}
    /\ UNCHANGED <<index, stage, asker, gone, hits, counted, results, evidence, outcome, searches>>

\* _diverse_top_items: of a list in any order the best, until there are enough
\* of them, but for those whose source has its share already.
Alike(list, c) == Cardinality({d \in ToSet(list) : SourceOf[d] = SourceOf[c]})
Best(set) ==
    {list \in UNION {SetToSeqs(S) : S \in SUBSET set} :
       /\ Len(list) <= TopK /\ \A c \in set : Alike(list, c) <= PerSource
       /\ Len(list) = TopK \/ \A c \in set \ ToSet(list) : Alike(list, c) = PerSource}

Rank ==
    /\ stage = "fetch" /\ near = {}
    /\ results' \in Best(found)
    /\ stage' = IF asker = "console" THEN "select" ELSE "done"
    /\ hits' = {} /\ counted' = 0 /\ found' = {}
    /\ UNCHANGED <<index, asker, gone, near, evidence, outcome, searches>>

-----------------------------------------------------------------------------
(* The console's answer.                                                    *)

\* Of places in the results the first ones, and what is there. (Results of one
\* heading are shown once: the first of them in any case.)
Upto(I, n) == {i \in I : Cardinality({j \in I : j < i}) < n}
Shown(I) == {results[i] : i \in Upto({i \in I : results[i] \notin Notes}, MaxEvidence)}

\* Mutant: the best results, whether they support the answer or not.
SelectBest == Shown(DOMAIN results)

\* _select_evidence: the results that have a term of the query, if any do.
SelectEvidence ==
    LET supported == {i \in DOMAIN results : results[i] \in Supports}
    IN  Shown(IF supported = {} THEN DOMAIN results ELSE supported)

\* _has_direct_support: otherwise no model is asked. A passage is cut at more
\* than the length of a chunk.
Select ==
    /\ stage = "select"
    /\ evidence' = SelectEvidence
    /\ \/ evidence' \cap Supports # {} /\ stage' = "ask" /\ UNCHANGED outcome
       \/ evidence' \cap Supports = {} /\ stage' = "done" /\ outcome' = "insufficient"
    /\ UNCHANGED <<index, asker, gone, hits, counted, near, found, results, searches>>

\* The model answers, or with a tool call or nothing.
Ask ==
    /\ stage = "ask" /\ stage' = "done"
    /\ outcome' \in {"answered", "invalid"}
    /\ UNCHANGED <<index, asker, gone, hits, counted, near, found, results, evidence, searches>>

Search ==
    \/ BeginSearch \/ SearchWords \/ SearchSubstring \/ QueryVectors \/ QuerySqliteVec
    \/ FilterHits \/ (\E c \in Passages : Fetch(c)) \/ Rank \/ Select \/ Ask

SearchNext ==
    \/ Search
    \/ \E s \in SourceIds : WritePassages(s) \/ DeletePassages(s)
    \/ \E c \in Passages : EmbedPassage(c)

SearchSpec == SearchInit /\ [][SearchNext]_searchVars

-----------------------------------------------------------------------------
(* What was deleted before the search began is not found, although texts    *)
(* are embedded after their deletion and the vector query does not look at  *)
(* chunks (ingest_text, list_embeddings, get_chunk).                        *)
DeletedIsNotFound == ToSet(results) \cap gone = {}

\* A question is left without an answer for want of evidence only if no result
\* of its search has the terms, wherever it was ranked (_select_evidence takes
\* three of the six results).
AnsweredIfFound ==
    outcome = "insufficient" => ToSet(results) \cap Supports = {}

\* A search shows what there is and uses what it shows (the two promises above).
SearchIsTrue == DeletedIsNotFound /\ AnsweredIfFound
=============================================================================
