-------------------------------- MODULE MCEvals --------------------------------
(***************************************************************************)
(* Instances of the evaluations and of the publication of a corpus for     *)
(* TLC: a behaviour is one of the two.                                     *)
(***************************************************************************)
EXTENDS Evals, CorpusRelease

VARIABLE part

\* A plain case that is always solved, unless it breaks, one that is disabled,
\* and one that delegates.
ThreeCases ==
  <<[enabled |-> TRUE, required |-> TRUE, delegates |-> FALSE, answers |-> {"right"}],
    [enabled |-> FALSE, required |-> TRUE, delegates |-> FALSE, answers |-> {"right"}],
    [enabled |-> TRUE, required |-> FALSE, delegates |-> TRUE, answers |-> Answers]>>

\* A live job with a limit that is compared with the run of the other, there or
\* not, and may become the release; and a scripted one, or one without a limit,
\* that is compared with the latest passed run or with the release.
Requests == [j \in Jobs |->
  IF j = "j1" THEN {[live |-> TRUE, limited |-> TRUE, against |-> "j2", write |-> "release"]}
  ELSE {[live |-> FALSE, limited |-> TRUE, against |-> "none", write |-> "none"],
        [live |-> TRUE, limited |-> FALSE, against |-> "release", write |-> "none"]}]

\* Cases of different jobs share nothing: the second job starts when those of
\* the first are over, while everything after them overlaps.
Executing == {j \in Jobs : at[j] \in {"start", "baseline", "cases", "case", "poll", "kill"}}
InOrder(j) == Executing = {} /\ (j = "j2" => job["j1"] # "none")

InitEither == EvalsInit /\ CorpusInit /\ part \in {"evals", "corpus"}

InEvals == part = "evals" /\ UNCHANGED <<part, corpusVars>>
InCorpus == part = "corpus" /\ UNCHANGED <<part, evalsVars>>

NextEither ==
  \/ \E j \in Jobs : \E a \in Asked[j] : InEvals /\ InOrder(j) /\ Create(j, a)
  \/ \E j \in Jobs : InEvals /\ Advance(j)
  \/ \E j \in Jobs : InEvals /\ Execute(j)
  \/ \E j \in Jobs : InEvals /\ ChildExits(j)
  \/ \E j \in Jobs : InEvals /\ DeadlinePasses(j)
  \/ \E j \in Jobs : InEvals /\ Fail(j)
  \/ InEvals /\ Crash
  \/ InEvals /\ RestartProcess
  \/ InCorpus /\ Plan
  \/ InCorpus /\ Skip
  \/ InCorpus /\ Reindex
  \/ InCorpus /\ WriteSource
  \/ InCorpus /\ WriteChunks
  \/ InCorpus /\ EmbedSource
  \/ InCorpus /\ Abort
  \/ InCorpus /\ ReportRelease
  \/ InCorpus /\ DropVectors

SpecEither == InitEither /\ [][NextEither]_<<part, evalsVars, corpusVars>> /\ Fairness
=============================================================================
