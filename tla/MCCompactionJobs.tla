-------------------------- MODULE MCCompactionJobs --------------------------
(* Instances of background compaction, and of what a model is shown of      *)
(* compacted sessions, for TLC: a behaviour is one of the two.              *)
EXTENDS CompactionRequirements, ContextWindow

CONSTANTS left, other   \* sessions

VARIABLE part

Both == {left, other}

InitAny == Init /\ WindowInit /\ part \in {"jobs", "window"} /\ (part = "window" \/ turns = 1)

InJobs == part = "jobs" /\ UNCHANGED <<part, windowVars>>
InWindow == part = "window" /\ UNCHANGED <<part, vars>>

\* A note or a change of configuration; the texts differ by name only.
OneDisturbance == count'.notes + count'.configs <= 1
FirstWord == count'.questions = 1 => sight'.text \in {"go", ""}

NextAny ==
  \/ InJobs /\ Next
  \/ InWindow /\ WindowNext /\ OneDisturbance /\ FirstWord

allVars == <<part, vars, windowVars>>
SpecAny == InitAny /\ [][NextAny]_allVars /\ WF_allVars(InJobs /\ Worker)
=============================================================================
