----------------------------- MODULE MCKnowledge -----------------------------
(* Instances of the knowledge base for TLC: ingest jobs, the index, searches.*)
(* A behaviour works on one of them. They meet in transactions: a job's end  *)
(* is one step of the index, and the index as a search sees it is written by *)
(* anybody at any time.                                                      *)
EXTENDS KnowledgeJobs, KnowledgeIndex, KnowledgeSearch, TLC

CONSTANTS
    upload, t1, t2, draft, book, s1, s2, p1, p2

VARIABLE part

OneUpload == {upload}
TwoThreads == {t1, t2}
TwoNamespaces == {draft, book}
TwoSources == {s1, s2}
TwoProfiles == {p1, p2}

\* Two chunks of one source, one of another.
SourceIs == "a1" :> "a" @@ "a2" :> "a" @@ "b1" :> "b"
OrdinalIs == "a1" :> 1 @@ "a2" :> 2 @@ "b1" :> 1

\* Two uploads share nothing but the preview store's lock and the process.
InitAny == Init /\ IndexInit /\ SearchInit /\ part \in {"jobs", "index", "search"}

InJobs == part = "jobs" /\ UNCHANGED <<part, indexVars, searchVars>>
InIndex == part = "index" /\ UNCHANGED <<part, vars, searchVars, enabled>>
InSearch == part = "search" /\ UNCHANGED <<part, vars, indexVars>>

Begins(t, k, n, s, p) ==
    /\ t = t2 => place[t1] # "idle"
    /\ calls = 0 => n = draft /\ s = s1 /\ k \in {"text", "file"} /\ p = None
    /\ n = book => s = s1 /\ k \in {"text", "delete", "reindex"}
    /\ s = s2 => k \in {"text", "file", "delete"}
    /\ ~enabled => k \in {"text", "delete", "approve"} /\ p = None

\* Nobody asks for the default profile by name.
NextAny ==
    \/ InJobs /\ ThreadStep(upload)
    \/ InJobs /\ Request(upload)
    \/ InJobs /\ RecordPublished
    \/ InJobs /\ Crash
    \/ InJobs /\ Restart
    \/ \E t \in Threads : InIndex /\ Work(t)
    \/ \E t \in Threads, k \in Kinds, n \in Namespaces, s \in Sources,
          p \in {None, p2} : InIndex /\ Begins(t, k, n, s, p) /\ Call(t, k, n, s, p)
    \/ InSearch /\ Search
    \/ InSearch /\ \E s \in SourceIds : WritePassages(s)
    \/ InSearch /\ \E s \in SourceIds : DeletePassages(s)
    \/ InSearch /\ \E c \in Passages : EmbedPassage(c)

\* The fairness of the parts: each is the only one that runs.
AnyRuns == (InJobs /\ Runs) \/ (InIndex /\ IndexRuns)

SpecAny ==
    InitAny /\ [][NextAny]_<<part, vars, indexVars, searchVars>>
            /\ WF_<<part, vars, indexVars, searchVars>>(AnyRuns)

\* What was begun ends: a queued job, and a call that writes to the index, which
\* may wait for the lock of its source and for the model.
EverythingEnds == JobEndsUnlessThreadDied /\ CallsReturn
=============================================================================
