---------------------------- MODULE MCSelfImprove ----------------------------
(***************************************************************************)
(* Instances of the reviews and of the learning from their candidates for  *)
(* TLC.  A behaviour works on one of them: reviews and learning meet in    *)
(* rows that reviews only add and that Learning adds at any time, and the  *)
(* triggers that runs leave may come at any time in a review's behaviour.  *)
(***************************************************************************)
EXTENDS Learning, ReviewEvidence

VARIABLE part

SameTopic == [l \in Lessons |-> "topic"]

InitEither ==
  /\ Init /\ ReviewInit /\ InitEvidence
  /\ part \in {"reviews", "evidence", "skills", "lessons"}

Reviews == part = "reviews" /\ UNCHANGED <<part, evidence, vars>>
Evidence == part = "evidence" /\ UNCHANGED <<part, vars>>
Skills == part = "skills" /\ UNCHANGED <<part, reviewVars, evidence>>
LessonsOnly == part = "lessons" /\ UNCHANGED <<part, reviewVars, evidence>>

NextEither ==
  \/ \E t \in Triggers, about \in Fingerprints : Reviews /\ Trigger(t, about)
  \/ \E d \in Dispatchers : Reviews /\ RunEnds(d)
  \/ \E d \in Dispatchers : Reviews /\ Dispatch(d)
  \/ \E k \in Tasks : Reviews /\ Review(k)
  \/ \E k \in Tasks : Reviews /\ Completion(k)
  \/ \E p \in Threads : Reviews /\ Fault(p)
  \/ Reviews /\ RestartReviews
  \/ Evidence /\ EvidenceStep
  \/ Skills /\ SkillStep
  \/ Skills /\ Restart
  \/ LessonsOnly /\ LessonStep
  \/ LessonsOnly /\ Restart

SpecEither ==
  InitEither /\ [][NextEither]_<<part, reviewVars, evidence, vars>> /\ ReviewFairness
=============================================================================
