--------------------------------- MODULE Evals ---------------------------------
(***************************************************************************)
(* Evaluations: jobs started over HTTP, a thread each, that execute the    *)
(* cases of a suite, grade them and store the run (interfaces/http/        *)
(* eval_routes.py, evals/service.py, evals/executor.py, evals/store.py,    *)
(* evals/compare.py).                                                      *)
(*                                                                         *)
(* A live case with a time limit is executed by a child process, which may *)
(* hang, die or answer late; a scripted one, and one without a limit, by   *)
(* the thread itself.  A case is a conversation with an application of its *)
(* own, so that jobs meet in the store only.  A run has the name of the    *)
(* job that made it.  The process may stop between any two steps.          *)
(***************************************************************************)
EXTENDS Integers, Sequences, FiniteSets

CONSTANTS
  Jobs,
  Suite,      \* sequence of [enabled, required, delegates, answers]: the cases
  Asked,      \* job -> the requests that may start it
  Kept,       \* jobs the registry keeps (100)
  MaxCrashes  \* bound: stops of the process

VARIABLES
  up, crashes,
  job,        \* status in the registry
  at,         \* step of the job's thread
  ask,        \* request of the job
  base,       \* run it is compared with
  case,       \* case being executed, graded or stored
  observed,   \* observations, in order
  work,       \* step of the case's execution
  outcome,    \* what came of it
  child,      \* process of the case
  late,       \* its deadline has passed
  runs,       \* eval_runs: status by run
  results,    \* eval_case_results
  named       \* eval_baselines of the suite

execution == <<case, observed, work, outcome, child, late>>
store == <<runs, results, named>>
evalsVars == <<up, crashes, job, at, ask, base, execution, store>>

Cases == 1 .. Len(Suite)
Ended == {"passed", "failed", "blocked"}
Names == {"latest_passed", "release"}
NoAsk == [live |-> FALSE, limited |-> FALSE, against |-> "none", write |-> "none"]

\* "wrong": an answer that the graders do not accept.
Answers == {"right", "wrong"}

ASSUME EvalsAssumption ==
  /\ Suite \in Seq([enabled : BOOLEAN, required : BOOLEAN, delegates : BOOLEAN,
                    answers : SUBSET Answers])
  /\ "none" \notin Jobs

TypeOK ==
  /\ job \in [Jobs -> {"none", "queued", "running", "lost", "gone"} \union Ended]
  /\ case \in [Jobs -> 0 .. Len(Suite) + 1]
  /\ work \in [Jobs -> {"none", "seed", "turn", "diagnose", "judge", "again", "over"}]
  /\ outcome \in [Jobs -> {"none", "http error", "error"} \union Answers]
  /\ child \in [Jobs -> {"none", "runs", "exited"}]
  /\ runs \in [Jobs -> {"none", "running"} \union Ended]
  /\ named \in [Names -> Jobs \union {"none"}]

EvalsInit ==
  /\ up = TRUE /\ crashes = 0
  /\ job = [j \in Jobs |-> "none"]
  /\ at = [j \in Jobs |-> "none"]
  /\ ask = [j \in Jobs |-> NoAsk]
  /\ base = [j \in Jobs |-> "none"]
  /\ case = [j \in Jobs |-> 0]
  /\ observed = [j \in Jobs |-> <<>>]
  /\ work = [j \in Jobs |-> "none"]
  /\ outcome = [j \in Jobs |-> "none"]
  /\ child = [j \in Jobs |-> "none"]
  /\ late = [j \in Jobs |-> FALSE]
  /\ runs = [j \in Jobs |-> "none"]
  /\ results = {}
  /\ named = [n \in Names |-> "none"]

Go(j, step) == at' = [at EXCEPT ![j] = step]
Step(j, from, to) == up /\ at[j] = from /\ Go(j, to)
End(j, status) == job' = [job EXCEPT ![j] = status]
\* What a thread knows is gone with its request.
Forget(j) ==
  /\ ask' = [ask EXCEPT ![j] = NoAsk]
  /\ base' = [base EXCEPT ![j] = "none"]
  /\ case' = [case EXCEPT ![j] = 0]
  /\ observed' = [observed EXCEPT ![j] = <<>>]

---------------------------------------------------------------------------
(* The registry of jobs.                                                   *)

Known == {j \in Jobs : job[j] \notin {"none", "gone"}}
\* Jobs that are over make room, the first to end first; order left open.
Pruned == {P \in SUBSET {j \in Known : job[j] \in Ended} :
  Cardinality(P) =
    LET over == Cardinality(Known) + 1 - Kept
        ended == Cardinality({j \in Known : job[j] \in Ended})
    IN  IF over <= 0 THEN 0 ELSE IF over < ended THEN over ELSE ended}

Create(j, a) ==
  /\ up /\ job[j] = "none"
  /\ \E P \in Pruned :
       job' = [i \in Jobs |-> IF i = j THEN "queued" ELSE IF i \in P THEN "gone" ELSE job[i]]
  /\ ask' = [ask EXCEPT ![j] = a]
  /\ Go(j, "start")
  /\ UNCHANGED <<up, crashes, base, execution, store>>

Start(j) ==
  /\ Step(j, "start", "baseline")
  /\ End(j, "running")
  /\ UNCHANGED <<up, crashes, ask, base, execution, store>>

---------------------------------------------------------------------------
(* Before the cases: the run to compare with, and what the suite needs.    *)

\* A run that is named is taken as it is, a baseline that is not there is
\* none, and without either the latest passed run is it.
Resolved(j) ==
  CASE ask[j].against \in Jobs -> ask[j].against
    [] ask[j].against \in Names -> named[ask[j].against]
    [] OTHER -> named["latest_passed"]

ResolveBaseline(j) ==
  /\ up /\ at[j] = "baseline"
  /\ base' = [base EXCEPT ![j] = Resolved(j)]
  /\ \/ Go(j, "cases")
     \/ ask[j].live /\ Go(j, "needs")
  /\ case' = [case EXCEPT ![j] = 1]
  /\ UNCHANGED <<up, crashes, job, ask, observed, work, outcome, child, late, store>>

\* A server, an agent's tools or a provider is missing: a run without cases.
\* Its start and its end are stored with the same status.
RecordBlocked(j) ==
  /\ Step(j, "needs", "report")
  /\ runs' = [runs EXCEPT ![j] = "blocked"]
  /\ UNCHANGED <<up, crashes, job, ask, base, execution, results, named>>

---------------------------------------------------------------------------
(* The execution of a case.                                                *)

Current(j) == Suite[case[j]]
OfChild(j) == ask[j].live /\ ask[j].limited

\* The child, or the job's thread, begins.
BeginCase(j) ==
  /\ Go(j, IF OfChild(j) THEN "poll" ELSE "case")
  /\ child' = [child EXCEPT ![j] = IF OfChild(j) THEN "runs" ELSE "none"]
  /\ work' = [work EXCEPT ![j] = "seed"]

NextCase(j) ==
  /\ up /\ at[j] = "cases"
  /\ IF case[j] > Len(Suite)
     THEN Go(j, "record") /\ UNCHANGED execution
     ELSE IF ~Current(j).enabled
     THEN case' = [case EXCEPT ![j] = @ + 1] /\ UNCHANGED <<at, observed, work, outcome, child, late>>
     ELSE BeginCase(j) /\ UNCHANGED <<case, observed, outcome, late>>
  /\ UNCHANGED <<up, crashes, job, ask, base, store>>

Works(j, from) == up /\ work[j] = from /\ (OfChild(j) => child[j] = "runs")
Do(j, to) == work' = [work EXCEPT ![j] = to]
Over(j, how) == Do(j, "over") /\ outcome' = [outcome EXCEPT ![j] = how]
InCase(j) == UNCHANGED <<up, crashes, job, at, ask, base, case, observed, child, late, store>>

\* The workspace, the application, the profile and the state the case wants.
Seed(j) ==
  /\ Works(j, "seed")
  /\ \/ Do(j, "turn") /\ UNCHANGED outcome
     \/ Over(j, "error")
  /\ InCase(j)

\* The turns: each checks the child's own deadline, which ends as any error.
Turn(j) ==
  /\ Works(j, "turn")
  /\ \/ \E a \in Current(j).answers :
          /\ Do(j, IF Current(j).delegates THEN "diagnose" ELSE "over")
          /\ outcome' = [outcome EXCEPT ![j] = a]
     \/ Over(j, "http error")
     \/ Over(j, "error")
  /\ InCase(j)

\* Subagents are waited for, up to a time of their own; what is asked of them
\* may fail.
Diagnose(j) ==
  /\ Works(j, "diagnose")
  /\ \/ Do(j, IF ask[j].live THEN "judge" ELSE "over") /\ UNCHANGED outcome
     \/ Over(j, "error")
  /\ InCase(j)

\* A subagent that timed out for its provider has the case done once more.
JudgeCase(j) ==
  /\ Works(j, "judge")
  /\ \/ Do(j, "over")
     \/ outcome[j] = "wrong" /\ Do(j, "again")
  /\ UNCHANGED outcome
  /\ InCase(j)

Again(j) ==
  /\ Works(j, "again")
  /\ \E how \in Current(j).answers \union {"http error", "error"} : Over(j, how)
  /\ InCase(j)

Execute(j) == Seed(j) \/ Turn(j) \/ Diagnose(j) \/ JudgeCase(j) \/ Again(j)

\* An execution that is over has put its result before it exits; one that is
\* not has died.
ChildExits(j) ==
  /\ up /\ child[j] = "runs"
  /\ child' = [child EXCEPT ![j] = "exited"]
  /\ UNCHANGED <<up, crashes, job, at, ask, base, case, observed, work, outcome, late, store>>

DeadlinePasses(j) ==
  /\ up /\ at[j] = "poll" /\ ~late[j]
  /\ late' = [late EXCEPT ![j] = TRUE]
  /\ UNCHANGED <<up, crashes, job, at, ask, base, case, observed, work, outcome, child, store>>

NoCase(j) ==
  /\ work' = [work EXCEPT ![j] = "none"]
  /\ outcome' = [outcome EXCEPT ![j] = "none"]
  /\ child' = [child EXCEPT ![j] = "none"]
  /\ late' = [late EXCEPT ![j] = FALSE]

Observation(j, what) == [of |-> case[j], is |-> what]
Fate(j) == IF outcome[j] \in Answers THEN outcome[j] ELSE "blocked"

\* Mutant: a case that has no answer leaves no observation.
ObserveAnswers(j, what) ==
  /\ observed' = IF what = "blocked" THEN observed
                 ELSE [observed EXCEPT ![j] = Append(@, Observation(j, what))]
  /\ NoCase(j)
  /\ case' = [case EXCEPT ![j] = @ + 1]
  /\ Go(j, "cases")
  /\ UNCHANGED <<up, crashes, job, ask, base, store>>

Observe(j, what) ==
  /\ observed' = [observed EXCEPT ![j] = Append(@, Observation(j, what))]
  /\ NoCase(j)
  /\ case' = [case EXCEPT ![j] = @ + 1]
  /\ Go(j, "cases")
  /\ UNCHANGED <<up, crashes, job, ask, base, store>>

\* A scripted case that raises ends the job; a live one is blocked.
InThread(j) ==
  /\ up /\ at[j] = "case" /\ work[j] = "over"
  /\ IF ~ask[j].live /\ outcome[j] = "error"
     THEN /\ End(j, "failed") /\ Go(j, "end") /\ NoCase(j) /\ Forget(j)
          /\ UNCHANGED <<up, crashes, store>>
     ELSE Observe(j, Fate(j))

\* The result is in the queue: the child is given time to exit, then
\* terminated, then killed.
TakeResult(j) ==
  /\ up /\ at[j] = "poll" /\ work[j] = "over"
  /\ Observe(j, Fate(j))

\* The child has exited between two looks; its result is waited for once more.
Drain(j) ==
  /\ up /\ at[j] = "poll" /\ child[j] = "exited" /\ work[j] # "over"
  /\ Observe(j, "blocked")

\* Mutant: the limit is not looked at.
NeverGiveUp(j) ==
  /\ Step(j, "poll", "kill") /\ late[j] /\ child[j] = "exited"
  /\ UNCHANGED <<up, crashes, job, ask, base, execution, store>>

\* The queue was empty, the child alive and the deadline over.
GiveUp(j) ==
  /\ Step(j, "poll", "kill") /\ late[j]
  /\ UNCHANGED <<up, crashes, job, ask, base, execution, store>>

\* A child that has exited since is asked for its result; any other is killed,
\* with the result it may have put since.
Kill(j) ==
  /\ up /\ at[j] = "kill"
  /\ Observe(j, IF child[j] = "exited" /\ work[j] = "over" THEN Fate(j) ELSE "blocked")

---------------------------------------------------------------------------
(* Grading and storing the run.                                            *)

RecordStart(j) ==
  /\ Step(j, "record", "grade")
  /\ runs' = [runs EXCEPT ![j] = "running"]
  /\ UNCHANGED <<up, crashes, job, ask, base, execution, results, named>>

\* What the graders make of an observation; a case that is not required and
\* fails its gate is a warning.
Grade(c, o) ==
  CASE o.is = "blocked" -> "blocked"
    [] o.is = "right" -> "passed"
    [] OTHER -> IF Suite[c].required THEN "failed" ELSE "warning"

\* Cases and observations are paired by their order.
Paired(j) == IF Len(observed[j]) < Len(Suite) THEN Len(observed[j]) ELSE Len(Suite)
Graded(j) == {[run |-> j, case |-> c, of |-> observed[j][c].of, status |-> Grade(c, observed[j][c])] :
              c \in 1 .. Paired(j)}

GradeCases(j) ==
  /\ Step(j, "grade", "store")
  /\ case' = [case EXCEPT ![j] = 1]
  /\ UNCHANGED <<up, crashes, job, ask, base, observed, work, outcome, child, late, store>>

StoreResult(j) ==
  /\ up /\ at[j] = "store"
  /\ IF case[j] > Paired(j)
     THEN Go(j, "finish") /\ UNCHANGED <<case, results>>
     ELSE /\ results' = results \union {r \in Graded(j) : r.case = case[j]}
          /\ case' = [case EXCEPT ![j] = @ + 1]
          /\ UNCHANGED at
  /\ UNCHANGED <<up, crashes, job, ask, base, observed, work, outcome, child, late, runs, named>>

Final(j) ==
  CASE \E r \in Graded(j) : r.status = "blocked" -> "blocked"
    [] \A r \in Graded(j) : r.status = "passed" -> "passed"
    [] OTHER -> "failed"

Finish(j) ==
  /\ Step(j, "finish", "compare")
  /\ runs' = [runs EXCEPT ![j] = Final(j)]
  /\ case' = [case EXCEPT ![j] = 0] /\ observed' = [observed EXCEPT ![j] = <<>>]
  /\ UNCHANGED <<up, crashes, job, ask, base, work, outcome, child, late, results, named>>

\* Reading a run that is not there raises, and the job fails after its run has
\* ended.
Compare(j) ==
  /\ up /\ at[j] = "compare"
  /\ base[j] # "none" => runs[base[j]] # "none"
  /\ Go(j, "latest")
  /\ UNCHANGED <<up, crashes, job, ask, base, execution, store>>

CompareWithNothing(j) ==
  /\ up /\ at[j] = "compare"
  /\ base[j] # "none" /\ runs[base[j]] = "none"
  /\ Go(j, "end") /\ End(j, "failed") /\ Forget(j)
  /\ UNCHANGED <<up, crashes, work, outcome, child, late, store>>

\* Mutant: whatever came of the run.
WriteAny(j, name) == named' = [named EXCEPT ![name] = j]

WriteBaseline(j, name) ==
  named' = IF runs[j] = "passed" THEN [named EXCEPT ![name] = j] ELSE named

WriteLatest(j) ==
  /\ Step(j, "latest", "named")
  /\ WriteBaseline(j, "latest_passed")
  /\ UNCHANGED <<up, crashes, job, ask, base, execution, runs, results>>

WriteNamed(j) ==
  /\ Step(j, "named", "report")
  /\ IF ask[j].write = "none" THEN UNCHANGED named ELSE WriteBaseline(j, ask[j].write)
  /\ UNCHANGED <<up, crashes, job, ask, base, execution, runs, results>>

\* The files of the report are left out, but may not be written (Fail).
EndJob(j) ==
  /\ Step(j, "report", "end")
  /\ End(j, runs[j]) /\ Forget(j)
  /\ UNCHANGED <<up, crashes, work, outcome, child, late, store>>

\* The database, a grader, a comparison or the disk fails.
Fail(j) ==
  /\ up /\ at[j] \in {"baseline", "needs", "record", "grade", "store", "finish", "compare",
                      "latest", "named", "report"}
  /\ Go(j, "end") /\ End(j, "failed") /\ Forget(j)
  /\ UNCHANGED <<up, crashes, work, outcome, child, late, store>>

\* Jobs are in memory, and their threads and children are daemons.
Crash ==
  /\ up /\ crashes < MaxCrashes
  /\ up' = FALSE /\ crashes' = crashes + 1
  /\ job' = [j \in Jobs |-> IF job[j] = "none" THEN "none" ELSE "lost"]
  /\ at' = [j \in Jobs |-> "none"]
  /\ case' = [j \in Jobs |-> 0]
  /\ observed' = [j \in Jobs |-> <<>>]
  /\ work' = [j \in Jobs |-> "none"]
  /\ outcome' = [j \in Jobs |-> "none"]
  /\ child' = [j \in Jobs |-> "none"]
  /\ late' = [j \in Jobs |-> FALSE]
  /\ ask' = [j \in Jobs |-> NoAsk] /\ base' = [j \in Jobs |-> "none"]
  /\ UNCHANGED store

RestartProcess ==
  /\ ~up /\ up' = TRUE
  /\ UNCHANGED <<crashes, job, at, ask, base, execution, store>>

---------------------------------------------------------------------------
Advance(j) ==
  \/ Start(j) \/ ResolveBaseline(j) \/ RecordBlocked(j)
  \/ NextCase(j) \/ InThread(j) \/ TakeResult(j) \/ Drain(j) \/ GiveUp(j) \/ Kill(j)
  \/ RecordStart(j) \/ GradeCases(j) \/ StoreResult(j) \/ Finish(j) \/ Compare(j) \/ CompareWithNothing(j)
  \/ WriteLatest(j) \/ WriteNamed(j) \/ EndJob(j)

EvalsNext ==
  \/ \E j \in Jobs : \E a \in Asked[j] : Create(j, a)
  \/ \E j \in Jobs : Advance(j)
  \/ \E j \in Jobs : Execute(j)
  \/ \E j \in Jobs : ChildExits(j)
  \/ \E j \in Jobs : DeadlinePasses(j)
  \/ \E j \in Jobs : Fail(j)
  \/ Crash
  \/ RestartProcess

\* Threads run and time passes; a case in the job's thread ends, a child need
\* not.
Fairness ==
  \A j \in Jobs :
    /\ WF_evalsVars(Advance(j))
    /\ WF_evalsVars(DeadlinePasses(j))
    /\ WF_evalsVars(~OfChild(j) /\ Execute(j))

EvalsSpec == EvalsInit /\ [][EvalsNext]_evalsVars /\ Fairness

(***************************************************************************)
(* Requirements.                                                           *)
(***************************************************************************)
\* Runs another job may take for its history, and the results it reads.
Recent == {j \in Jobs : runs[j] \in {"passed", "failed"}}
Stored(j) == {r \in results : r.run = j}

\* The place of a case among the observations, which disabled cases leave none
\* of.
Rank(c) == Cardinality({d \in 1 .. c : Suite[d].enabled})

\* A run that is stored as over has one result from the observation of every
\* enabled case and no other, and its status is that of its results: whichever
\* child hung, died or was late, and whichever step failed.  The result is
\* that of the case at the place of the observation: the case itself, until a
\* disabled one comes before it.  Other jobs read such runs as their history
\* while they go on.
FinishedRunIsWhole ==
  \A j \in Recent :
    /\ \A c \in Cases : Suite[c].enabled => \E r \in Stored(j) : r.of = c /\ r.case = Rank(c)
    /\ \A r \in Stored(j) : r.of \in Cases /\ Suite[r.of].enabled /\ r.case = Rank(r.of)
    /\ runs[j] = "passed" <=> \A r \in Stored(j) : r.status = "passed"

\* A baseline is a run that passed all its cases, after failures, stops and
\* other jobs' runs too; so is what a later run is compared with, unless the
\* request named it.
BaselineHasPassed ==
  /\ \A n \in Names : named[n] # "none" => runs[named[n]] = "passed"
  /\ \A j \in Jobs :
       at[j] \in {"compare", "latest"} /\ base[j] # "none" /\ ask[j].against \notin Jobs =>
         runs[base[j]] = "passed"

\* Every job ends or is lost with the process: a child that hangs cannot hold
\* its job.
JobEnds == \A j \in Jobs : job[j] = "queued" ~> job[j] \notin {"queued", "running"}

\* What other jobs read of a run, as their history or their baseline, can be
\* relied on (the two promises above).
HistoryIsSound == FinishedRunIsWhole /\ BaselineHasPassed
=============================================================================
