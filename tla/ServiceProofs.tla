---------------------------- MODULE ServiceProofs -----------------------------
(***************************************************************************)
(* Proofs about six services beside the turns, which share nothing:        *)
(* candidates and lessons (what was decided stands, for any number of      *)
(* users and processors whose steps meet), the client of the MCP servers   *)
(* (no session is left without an owner, whatever callers and threads do), *)
(* the evaluations (what is read of a run that is over can be relied on),  *)
(* the corpus releases (what is reported is searchable), the chart         *)
(* calculator (a place is resolved once) and the reviews (a burst of       *)
(* failures leaves a trigger, a trigger is reviewed once).                 *)
(***************************************************************************)
EXTENDS Learning, McpClient, BaziBridge, Evals, CorpusRelease, ReviewEvidence, FiniteSetTheorems,
        FunctionTheorems, SequenceTheorems, TLAPS

(* Candidates and lessons.                                                   *)
Rows == [status : {"pending", "accepted", "rejected", "promoted"}, slug : Slugs, text : Int]
Calls ==
  [at : {"accept", "reject", "edit", "promote", "read", "write", "folder"}, op : Ops,
   on : Int, row : Rows \union {NoOp.row}, slug : Slugs]

SkillsSound ==
  /\ texts \in Int
  /\ skills \in Seq(Rows)
  /\ folders \in [Slugs -> Int]
  /\ proposing \in Slugs \union {"none"}

\* A call that has begun is about a candidate, and has read it when it writes.
CallsSound ==
  /\ user \in [Users -> Calls \union {NoOp}]
  /\ \A u \in Users : user[u] # NoOp =>
       /\ user[u].on \in DOMAIN skills
       /\ user[u].at \in {"promote", "folder", "write"} => user[u].row \in Rows

\* Who is about to write a skill's file has made its folder, and is alone.
FoldersOwned ==
  /\ \A u \in Users : At(u, "folder") => folders[user[u].slug] = NoFile
  /\ \A u, w \in Users :
       At(u, "folder") /\ At(w, "folder") /\ user[u].slug = user[w].slug => u = w

LearningInv == SkillsSound /\ CallsSound /\ FoldersOwned /\ OneLessonPerTopic

-----------------------------------------------------------------------------
\* Nobody calls at first, and no call is in a step.
LEMMA NoOpIsIdle == NoOp.at = "idle" /\ NoOp \notin Calls
BY DEF NoOp, Calls

LEMMA InitSound == Init => LearningInv
<1> SUFFICES ASSUME Init PROVE LearningInv
  OBVIOUS
<1>1. SkillsSound
  BY DEF Init, SkillsSound, NoFolder
<1>2. CallsSound
  BY DEF Init, CallsSound
<1>3. FoldersOwned
  BY NoOpIsIdle DEF Init, FoldersOwned, At
<1> QED
  BY <1>1, <1>2, <1>3 DEF LearningInv, Init, OneLessonPerTopic

-----------------------------------------------------------------------------
(* The tool's steps: each one is another value of the call.                  *)

\* A call that takes a step other than to the file leaves the folders' owners.
LEMMA StepKeepsOwners ==
  ASSUME LearningInv, NEW u \in Users, NEW c \in Calls \union {NoOp}, c.at # "folder",
         user' = [user EXCEPT ![u] = c], UNCHANGED folders
  PROVE  FoldersOwned'
BY DEF LearningInv, CallsSound, FoldersOwned, At

\* A call that is sound after its step keeps all calls sound.
LEMMA StepKeepsCalls ==
  ASSUME LearningInv, NEW u \in Users, NEW c \in Calls \union {NoOp},
         c # NoOp => c.on \in DOMAIN skills
                     /\ (c.at \in {"promote", "folder", "write"} => c.row \in Rows),
         user' = [user EXCEPT ![u] = c], DOMAIN skills \subseteq DOMAIN skills'
  PROVE  CallsSound'
BY DEF LearningInv, CallsSound

LEMMA BeginSound ==
  ASSUME LearningInv, NEW u \in Users, NEW op \in Ops, NEW c \in DOMAIN skills, Begin(u, op, c)
  PROVE  LearningInv'
<1>1. PICK slug \in Slugs :
        user' = [user EXCEPT ![u] = [at |-> op, op |-> op, on |-> c, slug |-> slug,
                   row |-> IF op = "promote" THEN skills[c] ELSE NoOp.row]]
  <2>1. skills[c].slug \in Slugs
    <3>1. skills[c] \in Rows
      BY DEF LearningInv, SkillsSound
    <3> QED
      BY <3>1 DEF Rows
  <2>2. (IF op = "edit" THEN Slugs ELSE {skills[c].slug}) \subseteq Slugs
    BY <2>1
  <2> QED
    BY <2>2 DEF Begin
<1> DEFINE begun == [at |-> op, op |-> op, on |-> c, slug |-> slug,
                     row |-> IF op = "promote" THEN skills[c] ELSE NoOp.row]
<1>2. skills[c] \in Rows /\ c \in Int
  BY DEF LearningInv, SkillsSound
<1>3. begun \in Calls /\ begun.at # "folder" /\ begun.on = c
      /\ (begun.at \in {"promote", "folder", "write"} => begun.row \in Rows)
  BY <1>2 DEF Calls, Ops
<1>4. user' = [user EXCEPT ![u] = begun] /\ UNCHANGED <<skills, folders, texts, proposing, active>>
  BY <1>1 DEF Begin, lessonVars
<1> HIDE DEF begun
<1> QED
  BY <1>3, <1>4, StepKeepsOwners, StepKeepsCalls
     DEF LearningInv, SkillsSound, OneLessonPerTopic


\* Whoever is in a step has a call.
LEMMA InStepHasCall ==
  ASSUME LearningInv, NEW u \in Users, user[u].at # "idle"
  PROVE  user[u] \in Calls /\ user[u] # NoOp
BY NoOpIsIdle DEF LearningInv, CallsSound

\* A call ends.
LEMMA EndSound ==
  ASSUME LearningInv, NEW u \in Users, Ends(u), UNCHANGED folders, DOMAIN skills \subseteq DOMAIN skills'
  PROVE  CallsSound' /\ FoldersOwned'
BY NoOpIsIdle, StepKeepsOwners, StepKeepsCalls DEF Ends

\* A call goes on, not to the folder, and its row has been read if it is to write.
LEMMA GoOnSound ==
  ASSUME LearningInv, NEW u \in Users, user[u].at # "idle", NEW to \in {"read", "write"},
         NEW text \in Rows \union {NoOp.row}, to = "write" => text \in Rows,
         user' = [user EXCEPT ![u] = [user[u] EXCEPT !.at = to, !.row = text]],
         UNCHANGED <<folders, skills>>
  PROVE  CallsSound' /\ FoldersOwned'
<1> DEFINE c == [user[u] EXCEPT !.at = to, !.row = text]
<1>1. user[u] \in Calls /\ user[u].on \in DOMAIN skills
  BY InStepHasCall DEF LearningInv, CallsSound
<1>2. c \in Calls /\ c.at = to /\ c.row = text /\ c.on = user[u].on
  BY <1>1 DEF Calls
<1> HIDE DEF c
<1>3. user' = [user EXCEPT ![u] = c]
  BY DEF c
<1> QED
  BY <1>1, <1>2, <1>3, StepKeepsOwners, StepKeepsCalls

LEMMA CheckSlugSound ==
  ASSUME LearningInv, NEW u \in Users, CheckSlug(u)
  PROVE  LearningInv'
<1>1. At(u, "edit") /\ (Ends(u) \/ Steps(u, "read"))
      /\ UNCHANGED <<skills, folders, texts, proposing, active>>
  BY DEF CheckSlug, lessonVars
<1>2. CallsSound' /\ FoldersOwned'
  <2>1. CASE Ends(u)
    BY <1>1, <2>1, EndSound
  <2>2. CASE Steps(u, "read")
    <3>1. user[u] \in Calls
      BY <1>1, InStepHasCall DEF At
    <3>2. user' = [user EXCEPT ![u] = [user[u] EXCEPT !.at = "read", !.row = user[u].row]]
      BY <2>2, <3>1 DEF Steps, Calls, LearningInv, CallsSound
    <3> QED
      BY <1>1, <3>1, <3>2, GoOnSound DEF At, Calls
  <2> QED
    BY <1>1, <2>1, <2>2
<1> QED
  BY <1>1, <1>2 DEF LearningInv, SkillsSound, OneLessonPerTopic

LEMMA ReadAgainSound ==
  ASSUME LearningInv, NEW u \in Users, ReadAgain(u)
  PROVE  LearningInv'
<1>1. user[u].at \in {"accept", "reject", "read"}
      /\ UNCHANGED <<skills, folders, texts, proposing, active>>
  BY DEF ReadAgain, lessonVars
<1>2. user[u] \in Calls /\ user[u].on \in DOMAIN skills
  BY <1>1, InStepHasCall DEF LearningInv, CallsSound
<1>3. skills[user[u].on] \in Rows
  BY <1>2 DEF LearningInv, SkillsSound
<1>4. user' = [user EXCEPT ![u] = [user[u] EXCEPT !.at = "write", !.row = skills[user[u].on]]]
  BY <1>2 DEF ReadAgain, LearningInv, CallsSound, Calls
<1>5. CallsSound' /\ FoldersOwned'
  BY <1>1, <1>3, <1>4, GoOnSound
<1> QED
  BY <1>1, <1>5 DEF LearningInv, SkillsSound, OneLessonPerTopic

LEMMA WriteBackSound ==
  ASSUME LearningInv, NEW u \in Users, WriteBack(u)
  PROVE  LearningInv'
<1>1. /\ user[u].at = "write" /\ Ends(u) /\ UNCHANGED <<folders, proposing, active>>
      /\ skills' = [skills EXCEPT ![user[u].on] = Changed(u)]
      /\ texts' = IF user[u].op = "edit" THEN texts + 1 ELSE texts
  BY DEF WriteBack, At, lessonVars
<1>2. user[u] \in Calls /\ user[u].row \in Rows /\ user[u].on \in DOMAIN skills
  BY <1>1, InStepHasCall DEF LearningInv, CallsSound
<1>3. Changed(u) \in Rows
  BY <1>2 DEF Changed, Row, Rows, Calls, Ops, LearningInv, SkillsSound
<1>4. skills' \in Seq(Rows) /\ DOMAIN skills' = DOMAIN skills
  BY <1>1, <1>2, <1>3 DEF LearningInv, SkillsSound
<1>5. SkillsSound'
  BY <1>1, <1>4 DEF LearningInv, SkillsSound
<1> QED
  BY <1>1, <1>4, <1>5, EndSound DEF LearningInv, OneLessonPerTopic

\* The folder is new: nobody else can be about to write its file.
LEMMA MakeFolderSound ==
  ASSUME LearningInv, NEW u \in Users, MakeFolder(u)
  PROVE  LearningInv'
<1>1. At(u, "promote") /\ UNCHANGED <<skills, texts, proposing, active>>
  BY DEF MakeFolder, lessonVars
<1>2. user[u] \in Calls /\ user[u] # NoOp
  BY <1>1, InStepHasCall DEF At
<1>3. CASE Ends(u) /\ UNCHANGED folders
  BY <1>1, <1>3, EndSound DEF LearningInv, SkillsSound, OneLessonPerTopic
<1>4. CASE /\ folders[user[u].slug] = NoFolder /\ Steps(u, "folder")
           /\ folders' = [folders EXCEPT ![user[u].slug] = NoFile]
  <2> DEFINE c == [user[u] EXCEPT !.at = "folder"]
  <2>1. c \in Calls /\ c.at = "folder" /\ c.slug = user[u].slug /\ c.on = user[u].on
        /\ c.row = user[u].row /\ user[u].slug \in Slugs
    BY <1>2 DEF Calls
  <2>2. user' = [user EXCEPT ![u] = c]
    BY <1>4 DEF Steps
  <2> HIDE DEF c
  <2>3. CallsSound'
    BY <1>1, <1>2, <2>1, <2>2, StepKeepsCalls DEF At, LearningInv, CallsSound
  <2>4. \A w \in Users : At(w, "folder") => user[w].slug # user[u].slug
    BY <1>4 DEF LearningInv, FoldersOwned, NoFile, NoFolder
  <2>5. FoldersOwned'
    BY <1>4, <2>1, <2>2, <2>4 DEF LearningInv, FoldersOwned, At, CallsSound, SkillsSound
  <2>6. SkillsSound'
    BY <1>1, <1>4, <2>1 DEF LearningInv, SkillsSound, NoFile
  <2> QED
    BY <1>1, <2>3, <2>5, <2>6 DEF LearningInv, OneLessonPerTopic
<1> QED
  BY <1>3, <1>4 DEF MakeFolder

LEMMA WriteSkillSound ==
  ASSUME LearningInv, NEW u \in Users, WriteSkill(u)
  PROVE  LearningInv'
<1>1. At(u, "folder") /\ UNCHANGED <<skills, texts, proposing, active>>
  BY DEF WriteSkill, lessonVars
<1>2. user[u] \in Calls /\ user[u].row \in Rows /\ user[u].on \in DOMAIN skills
  BY <1>1, InStepHasCall DEF At, LearningInv, CallsSound
<1>3. CASE UNCHANGED folders /\ Ends(u)
  BY <1>1, <1>3, EndSound DEF LearningInv, SkillsSound, OneLessonPerTopic
<1>4. CASE folders' = [folders EXCEPT ![user[u].slug] = user[u].row.text] /\ Steps(u, "read")
  <2> DEFINE c == [user[u] EXCEPT !.at = "read"]
  <2>1. c \in Calls /\ c.at = "read" /\ c.on = user[u].on
    BY <1>2 DEF Calls
  <2>2. user' = [user EXCEPT ![u] = c]
    BY <1>4 DEF Steps
  <2> HIDE DEF c
  <2>3. CallsSound'
    BY <1>1, <1>2, <2>1, <2>2, StepKeepsCalls
  <2>4. FoldersOwned'
    BY <1>1, <1>4, <2>1, <2>2 DEF LearningInv, FoldersOwned, At, CallsSound, SkillsSound
  <2>5. SkillsSound'
    BY <1>1, <1>2, <1>4 DEF LearningInv, SkillsSound, Rows
  <2> QED
    BY <1>1, <2>3, <2>4, <2>5 DEF LearningInv, OneLessonPerTopic
<1> QED
  BY <1>3, <1>4 DEF WriteSkill

-----------------------------------------------------------------------------
(* Proposals, processors and restarts.                                       *)

LEMMA ProposalSound ==
  ASSUME LearningInv, SaveProposal \/ \E slug \in Slugs : CheckProposal(slug)
  PROVE  LearningInv'
<1>1. CASE \E slug \in Slugs : CheckProposal(slug)
  BY <1>1 DEF CheckProposal, lessonVars, LearningInv, SkillsSound, CallsSound, FoldersOwned, At,
              OneLessonPerTopic
<1>2. CASE SaveProposal
  <2>1. Row("pending", proposing, texts + 1) \in Rows
    BY <1>2 DEF SaveProposal, Row, Rows, LearningInv, SkillsSound
  <2>2. skills' = Append(skills, Row("pending", proposing, texts + 1))
        /\ texts' = texts + 1 /\ proposing' = "none" /\ UNCHANGED <<folders, user, active>>
    BY <1>2 DEF SaveProposal, lessonVars
  <2>3. skills' \in Seq(Rows) /\ DOMAIN skills \subseteq DOMAIN skills'
    BY <2>1, <2>2 DEF LearningInv, SkillsSound
  <2>4. SkillsSound' /\ CallsSound'
    BY <2>2, <2>3 DEF LearningInv, SkillsSound, CallsSound
  <2> QED
    BY <2>2, <2>4 DEF LearningInv, FoldersOwned, At, OneLessonPerTopic
<1> QED
  BY <1>1, <1>2

\* A lesson takes its topic over, whatever the processor's list said.
LEMMA LessonSound ==
  ASSUME LearningInv, LessonStep
  PROVE  LearningInv'
<1>1. UNCHANGED skillVars
  BY DEF LessonStep, SaveCandidate, DeleteCandidate, Process, BeginPass, Consider, Judge,
         FindCandidate, SaveVerdict, ReadLessons, Export
<1>2. UNCHANGED active \/ \E l : ReplaceLesson(l)
  BY DEF LessonStep, SaveCandidate, DeleteCandidate, Process, BeginPass, Consider, Judge,
         FindCandidate, SaveVerdict, ReadLessons, Export
<1>3. OneLessonPerTopic'
  BY <1>2 DEF LearningInv, OneLessonPerTopic, ReplaceLesson
<1> QED
  BY <1>1, <1>3 DEF LearningInv, skillVars, SkillsSound, CallsSound, FoldersOwned, At

LEMMA RestartSound ==
  ASSUME LearningInv, Restart
  PROVE  LearningInv'
<1>1. CallsSound' /\ FoldersOwned'
  BY NoOpIsIdle DEF Restart, CallsSound, FoldersOwned, At
<1> QED
  BY <1>1 DEF Restart, LearningInv, SkillsSound, OneLessonPerTopic

LEMMA StepSound == LearningInv /\ [Next]_vars => LearningInv'
<1> SUFFICES ASSUME LearningInv, [Next]_vars PROVE LearningInv'
  OBVIOUS
<1>1. ASSUME NEW u \in Users, Tool(u) PROVE LearningInv'
  BY <1>1, BeginSound, CheckSlugSound, ReadAgainSound, WriteBackSound, MakeFolderSound,
     WriteSkillSound DEF Tool
<1>2. CASE UNCHANGED vars
  BY <1>2 DEF vars, skillVars, lessonVars, LearningInv, SkillsSound, CallsSound, FoldersOwned, At,
              OneLessonPerTopic
<1> QED
  BY <1>1, <1>2, ProposalSound, LessonSound, RestartSound DEF Next, SkillStep

-----------------------------------------------------------------------------
\* Only the owner of an empty folder writes a skill's file.
LEMMA FileStands == LearningInv /\ [Next]_vars => SkillFileStands
<1> SUFFICES ASSUME LearningInv, [Next]_vars, NEW s \in Slugs, Written(s)
             PROVE  folders'[s] = folders[s]
  BY DEF SkillFileStands
<1>1. CASE UNCHANGED folders
  BY <1>1
<1>2. ASSUME NEW u \in Users, MakeFolder(u) PROVE folders'[s] = folders[s]
  BY <1>2 DEF MakeFolder, Written, LearningInv, SkillsSound
<1>3. ASSUME NEW u \in Users, WriteSkill(u) PROVE folders'[s] = folders[s]
  BY <1>3 DEF WriteSkill, Written, LearningInv, FoldersOwned, SkillsSound
<1>4. ASSUME NEW u \in Users, Tool(u) PROVE folders'[s] = folders[s]
  BY <1>2, <1>3, <1>4 DEF Tool, Begin, CheckSlug, ReadAgain, WriteBack
<1>5. CASE LessonStep \/ Restart \/ SaveProposal \/ \E slug \in Slugs : CheckProposal(slug)
  BY <1>5 DEF LessonStep, SaveCandidate, DeleteCandidate, Process, BeginPass, Consider, Judge,
              FindCandidate, SaveVerdict, ReadLessons, Export, Restart, SaveProposal,
              CheckProposal, skillVars
<1> QED
  BY <1>1, <1>4, <1>5 DEF Next, SkillStep, vars, skillVars

\* A skill's file is never written over, and no topic gets a second lesson, for
\* any number of users, candidates and processors (promote_skill_candidate,
\* save_lesson).
THEOREM DecisionsAreFinal == Spec => DecisionsStand
<1>1. LearningInv /\ [Next]_vars => [SkillFileStands /\ OneLessonPerTopic']_vars
  BY FileStands, StepSound DEF LearningInv
<1> QED
  BY InitSound, StepSound, <1>1, PTL DEF Spec, DecisionsStand

-----------------------------------------------------------------------------
(* The client of the MCP servers.                                           *)

States ==
  [thread : {"none", "starting", "ready", "serving", "ending", "dead"},
   ready : BOOLEAN, closed : BOOLEAN, failed : BOOLEAN,
   stop : {"none", "unset", "set"}, loop : {"open", "closed"}]
CallStates ==
  [at : {"idle", "ready", "lock", "wait", "discard", "close", "signal", "join", "done"},
   op : {"call", "list", "shutdown"}, session : Sessions \union {"none"}, attempt : Nat,
   told : BOOLEAN, sawStop : BOOLEAN]

\* A caller in the middle of a request has a session.
CallersSound ==
  /\ call \in [Callers -> CallStates]
  /\ \A c \in Callers : call[c].at \notin {"idle", "done"} => call[c].session \in Sessions

Closes(c, s) == call[c].at = "close" /\ call[c].session = s

\* What was started and is not closed is kept by the client, or somebody has
\* taken it to close it: whatever its thread does, so that no step of a thread
\* needs to know of the client.
Owned ==
  \A s \in Sessions :
    session[s].thread # "none" =>
      current = s \/ session[s].closed \/ \E c \in Callers : Closes(c, s)

ClientInv == McpTypeOK /\ CallersSound /\ Owned

-----------------------------------------------------------------------------
\* A step of a caller that is not about to close a session: what it closes
\* afterwards is what it has taken from the map.
LEMMA CallerMoves ==
  ASSUME ClientInv, NEW c \in Callers, NEW becomes \in CallStates, call' = [call EXCEPT ![c] = becomes],
         becomes.at \notin {"idle", "done"} => becomes.session \in Sessions,
         call[c].at = "close" => session[call[c].session].closed,
         \/ current' = current
         \/ current' = "none" /\ (current # "none" => becomes.at = "close" /\ becomes.session = current),
         \A s \in Sessions :
           /\ session'[s].thread # "none" => session[s].thread # "none"
           /\ session[s].closed => session'[s].closed,
         session' \in [Sessions -> States],
         opLock' \in [Sessions -> Callers \union {"free"}],
         future' \in [Callers -> {"none", "pending", "ok", "error"}]
  PROVE  ClientInv'
<1>1. call' \in [Callers -> CallStates] /\ \A d \in Callers : call'[d] = IF d = c THEN becomes ELSE call[d]
  BY DEF ClientInv, CallersSound
<1>2. CallersSound'
  BY <1>1 DEF ClientInv, CallersSound
<1>3. ASSUME NEW s \in Sessions, session'[s].thread # "none"
      PROVE  current' = s \/ session'[s].closed \/ \E d \in Callers : Closes(d, s)'
  <2>1. current = s \/ session[s].closed \/ \E d \in Callers : Closes(d, s)
    BY <1>3 DEF ClientInv, Owned
  <2>2. CASE current = s
    <3>1. current' = s \/ Closes(c, s)'
      BY <1>1, <2>2, McpAssumption DEF Closes
    <3> QED
      BY <3>1
  <2>3. ASSUME NEW d \in Callers, Closes(d, s)
        PROVE  session'[s].closed \/ \E e \in Callers : Closes(e, s)'
    BY <1>1, <2>3 DEF Closes
  <2> QED
    BY <2>1, <2>2, <2>3
<1>4. Owned'
  BY <1>3 DEF Owned
<1>5. McpTypeOK'
  BY DEF ClientInv, McpTypeOK, States
<1> QED
  BY <1>2, <1>4, <1>5 DEF ClientInv

\* A step of a thread.
LEMMA ThreadMoves ==
  ASSUME ClientInv, UNCHANGED <<current, opLock, call>>,
         session' \in [Sessions -> States],
         \A s \in Sessions :
           /\ session'[s].thread # "none" => session[s].thread # "none"
           /\ session[s].closed => session'[s].closed,
         future' \in [Callers -> {"none", "pending", "ok", "error"}]
  PROVE  ClientInv'
<1>1. CallersSound'
  BY DEF ClientInv, CallersSound
<1>2. Owned'
  BY DEF ClientInv, Owned, Closes
<1>3. McpTypeOK'
  BY DEF ClientInv, McpTypeOK, States
<1> QED
  BY <1>1, <1>2, <1>3 DEF ClientInv

LEMMA ClientInit == McpInit => ClientInv
<1> SUFFICES ASSUME McpInit PROVE ClientInv
  OBVIOUS
<1>1. McpTypeOK
  BY DEF McpInit, McpTypeOK, Unused
<1>2. CallersSound
  BY DEF McpInit, NoCall, CallersSound, CallStates
<1>3. Owned
  BY DEF McpInit, Owned, Unused
<1> QED
  BY <1>1, <1>2, <1>3 DEF ClientInv

\* What follows a failure or a result leaves no session to be closed.
LEMMA Followed ==
  ASSUME ClientInv, NEW c \in Callers, NEW becomes \in AfterFailure(c) \union AfterResult(c)
  PROVE  becomes \in CallStates /\ becomes.at \in {"idle", "done"}
<1>1. call[c] \in CallStates
  BY DEF ClientInv, CallersSound
<1>2. becomes \in {Finished(c), Retried(c), Listing(c)}
  BY DEF AfterFailure, AfterResult
<1>3. Finished(c) \in CallStates /\ Finished(c).at = "done"
  BY <1>1 DEF Finished, NoCall, CallStates
<1>4. Retried(c) \in CallStates /\ Retried(c).at = "idle"
  <2> DEFINE n == call[c].attempt + 1
  <2>1. n \in Nat
    BY <1>1 DEF CallStates
  <2>2. Retried(c) = [call[c] EXCEPT !.at = "idle", !.session = "none", !.attempt = n]
    BY <1>1 DEF Retried, CallStates
  <2> HIDE DEF n
  <2> QED
    BY <1>1, <2>1, <2>2 DEF CallStates
<1>5. Listing(c) \in CallStates /\ Listing(c).at = "idle"
  BY <1>1 DEF Listing, NoCall, CallStates
<1> QED
  BY <1>2, <1>3, <1>4, <1>5

LEMMA CallerSound ==
  ASSUME ClientInv, NEW c \in Callers, CallerStep(c)
  PROVE  ClientInv'
<1>t. /\ call[c] \in CallStates /\ current \in Sessions \union {"none"}
      /\ session \in [Sessions -> States] /\ opLock \in [Sessions -> Callers \union {"free"}]
      /\ future \in [Callers -> {"none", "pending", "ok", "error"}]
      /\ call[c].at \notin {"idle", "done"} => call[c].session \in Sessions
  BY DEF ClientInv, McpTypeOK, CallersSound, States
<1>1. CASE KeepSession(c)
  <2>1. [call[c] EXCEPT !.session = current, !.at = "ready"] \in CallStates
        /\ call' = [call EXCEPT ![c] = [call[c] EXCEPT !.session = current, !.at = "ready"]]
    BY <1>t, <1>1 DEF KeepSession, Join, CallStates
  <2>2. current \in Sessions /\ call[c].at = "idle" /\ UNCHANGED <<current, session, opLock, future>>
    BY <1>t, <1>1 DEF KeepSession, CallAt
  <2> QED
    BY <1>t, <2>1, <2>2, CallerMoves DEF CallStates
<1>2. ASSUME NEW s \in Sessions, StartSession(c, s)
      PROVE  ClientInv'
  <2> DEFINE becomes == [call[c] EXCEPT !.session = s, !.at = "ready"]
  <2>1. becomes \in CallStates /\ call' = [call EXCEPT ![c] = becomes] /\ call[c].at = "idle"
    BY <1>t, <1>2 DEF StartSession, Join, CallStates, CallAt
  <2>2. /\ current' = s /\ (current # "none" => session[current].closed)
        /\ session' = [session EXCEPT ![s].thread = "starting"]
        /\ UNCHANGED <<opLock, future>>
    BY <1>2 DEF StartSession
  <2>3. session' \in [Sessions -> States] /\ \A r \in Sessions :
          session'[r] = IF r = s THEN [session[s] EXCEPT !.thread = "starting"] ELSE session[r]
    BY <1>t, <2>2 DEF States
  <2>4. call' \in [Callers -> CallStates] /\ \A d \in Callers : call'[d] = IF d = c THEN becomes ELSE call[d]
    BY <2>1 DEF ClientInv, CallersSound
  <2>5. CallersSound'
    BY <2>1, <2>4 DEF ClientInv, CallersSound, CallStates
  <2>6. ASSUME NEW r \in Sessions, session'[r].thread # "none", r # s
        PROVE  session'[r].closed \/ \E d \in Callers : Closes(d, r)'
    <3>1. session[r].thread # "none" /\ session'[r].closed = session[r].closed
      BY <2>3, <2>6
    <3>2. current = r \/ session[r].closed \/ \E d \in Callers : Closes(d, r)
      BY <3>1 DEF ClientInv, Owned
    <3>3. current = r => session[r].closed
      BY <2>2, McpAssumption
    <3>4. \A d \in Callers : Closes(d, r) => Closes(d, r)'
      BY <2>1, <2>4 DEF Closes
    <3> QED
      BY <3>1, <3>2, <3>3, <3>4
  <2>7. Owned'
    BY <2>2, <2>6 DEF Owned
  <2>8. McpTypeOK'
    BY <1>t, <2>2, <2>3 DEF McpTypeOK, States
  <2> QED
    BY <2>5, <2>7, <2>8 DEF ClientInv
<1>3. CASE Interrupted(c)
  <2>1. Finished(c) \in CallStates /\ Finished(c).at = "done"
    BY DEF Finished, NoCall, CallStates
  <2> QED
    BY <1>t, <1>3, <2>1, CallerMoves DEF Interrupted, CallAt, CallStates
<1>4. CASE GiveUpSession(c)
  <2>1. [call[c] EXCEPT !.at = "discard"] \in CallStates
        /\ call' = [call EXCEPT ![c] = [call[c] EXCEPT !.at = "discard"]]
    BY <1>t, <1>4 DEF GiveUpSession, GoTo, CallStates
  <2> QED
    BY <1>t, <1>4, <2>1, CallerMoves DEF GiveUpSession, CallAt, CallStates
<1>8. CASE EnterSession(c)
  <2>1. [call[c] EXCEPT !.at = "lock"] \in CallStates
        /\ call' = [call EXCEPT ![c] = [call[c] EXCEPT !.at = "lock"]]
    BY <1>t, <1>8 DEF EnterSession, GoTo, CallStates
  <2> QED
    BY <1>t, <1>8, <2>1, CallerMoves DEF EnterSession, CallAt, CallStates
<1>5. CASE Submit(c)
  <2>1. call[c].at = "lock" /\ call[c].session \in Sessions /\ UNCHANGED <<current, session>>
    BY <1>t, <1>5 DEF Submit, CallAt
  <2>2. opLock' \in [Sessions -> Callers \union {"free"}]
        /\ future' \in [Callers -> {"none", "pending", "ok", "error"}]
    BY <1>t, <1>5 DEF Submit
  <2>3. PICK p \in {"discard", "wait"} : call' = [call EXCEPT ![c].at = p]
    BY <1>5 DEF Submit, GoTo
  <2>4. [call[c] EXCEPT !.at = p] \in CallStates
        /\ call' = [call EXCEPT ![c] = [call[c] EXCEPT !.at = p]]
    BY <1>t, <2>3 DEF CallStates
  <2> QED
    BY <1>t, <2>1, <2>2, <2>4, CallerMoves DEF CallStates
<1>6. CASE PollResult(c)
  <2>1. call[c].at = "wait" /\ call[c].session \in Sessions /\ UNCHANGED <<current, session>>
    BY <1>t, <1>6 DEF PollResult, CallAt, EndRequest
  <2>2. opLock' \in [Sessions -> Callers \union {"free"}]
        /\ future' \in [Callers -> {"none", "pending", "ok", "error"}]
    BY <1>t, <1>6 DEF PollResult, EndRequest
  <2>3. CASE call' \in {[call EXCEPT ![c] = becomes] : becomes \in AfterResult(c)}
    <3>1. PICK becomes \in AfterResult(c) : call' = [call EXCEPT ![c] = becomes]
      BY <2>3
    <3> QED
      BY <1>t, <2>1, <2>2, <3>1, Followed, CallerMoves
  <2>4. CASE GoTo(c, "discard")
    <3>1. [call[c] EXCEPT !.at = "discard"] \in CallStates
          /\ call' = [call EXCEPT ![c] = [call[c] EXCEPT !.at = "discard"]]
      BY <1>t, <2>4 DEF GoTo, CallStates
    <3> QED
      BY <1>t, <2>1, <2>2, <3>1, CallerMoves DEF CallStates
  <2> QED
    BY <1>6, <2>3, <2>4 DEF PollResult
<1>7. CASE Discard(c)
  <2>1. call[c].at = "discard" /\ call[c].session \in Sessions /\ UNCHANGED <<session, opLock, future>>
    BY <1>t, <1>7 DEF Discard, CallAt
  <2>2. CASE current = call[c].session
    <3>1. [call[c] EXCEPT !.at = "close"] \in CallStates
          /\ call' = [call EXCEPT ![c] = [call[c] EXCEPT !.at = "close"]] /\ current' = "none"
      BY <1>t, <1>7, <2>2 DEF Discard, GoTo, CallStates
    <3> QED
      BY <1>t, <2>1, <2>2, <3>1, CallerMoves DEF CallStates
  <2>3. CASE current # call[c].session
    <3>1. PICK becomes \in AfterFailure(c) : call' = [call EXCEPT ![c] = becomes]
      BY <1>7, <2>3 DEF Discard, Fails
    <3>2. current' = current
      BY <1>7, <2>3 DEF Discard
    <3> QED
      BY <1>t, <2>1, <3>1, <3>2, Followed, CallerMoves
  <2> QED
    BY <2>2, <2>3
<1> QED
  BY <1>1, <1>2, <1>3, <1>4, <1>5, <1>6, <1>7, <1>8 DEF CallerStep

\* Closing a session, and ending the client.
LEMMA CloserSound ==
  ASSUME ClientInv, NEW c \in Callers, CloserStep(c) \/ Shutdown(c)
  PROVE  ClientInv'
<1>t. /\ call[c] \in CallStates /\ current \in Sessions \union {"none"}
      /\ session \in [Sessions -> States] /\ opLock \in [Sessions -> Callers \union {"free"}]
      /\ future \in [Callers -> {"none", "pending", "ok", "error"}]
      /\ call[c].at \notin {"idle", "done"} => call[c].session \in Sessions
  BY DEF ClientInv, McpTypeOK, CallersSound, States
<1>1. CASE MarkClosed(c)
  <2> DEFINE s == call[c].session
  <2>1. s \in Sessions /\ call[c].at = "close" /\ UNCHANGED <<current, opLock, future>>
        /\ session' = [session EXCEPT ![s].closed = TRUE]
    BY <1>t, <1>1 DEF MarkClosed, CallAt
  <2>2. session' \in [Sessions -> States] /\ \A r \in Sessions :
          session'[r] = IF r = s THEN [session[s] EXCEPT !.closed = TRUE] ELSE session[r]
    <3> HIDE DEF s
    <3> session[s] \in States
      BY <1>t, <2>1
    <3>1. [session[s] EXCEPT !.closed = TRUE] \in States
      BY DEF States
    <3>2. session' = [session EXCEPT ![s] = [session[s] EXCEPT !.closed = TRUE]]
      BY <2>1
    <3> QED
      BY <1>t, <2>1, <3>1, <3>2
  <2>3. /\ session'[s].closed
        /\ \A r \in Sessions : /\ session'[r].thread = session[r].thread
                               /\ session[r].closed => session'[r].closed
    BY <1>t, <2>1, <2>2 DEF States
  <2>4. PICK becomes : call' = [call EXCEPT ![c] = becomes] /\ becomes \in CallStates
                    /\ (becomes.at \notin {"idle", "done"} => becomes.session \in Sessions)
    <3>1. CASE Mine(c).closed
      <4>1. PICK becomes \in AfterFailure(c) : call' = [call EXCEPT ![c] = becomes]
        BY <1>1, <3>1 DEF MarkClosed, Fails
      <4> QED
        BY <4>1, Followed
    <3>2. CASE ~Mine(c).closed
      <4> DEFINE saw == Mine(c).stop # "none"
                 becomes == [call[c] EXCEPT !.at = "signal", !.sawStop = saw]
      <4>1. call' = [call EXCEPT ![c].at = "signal", ![c].sawStop = saw]
        BY <1>1, <3>2 DEF MarkClosed
      <4>2. call' = [call EXCEPT ![c] = becomes]
        BY <4>1
      <4>3. becomes \in CallStates /\ becomes.session = s
        BY <1>t DEF CallStates
      <4> QED
        BY <2>1, <4>2, <4>3
    <3> QED
      BY <3>1, <3>2
  <2>5. call' \in [Callers -> CallStates] /\ \A d \in Callers : call'[d] = IF d = c THEN becomes ELSE call[d]
    BY <2>4 DEF ClientInv, CallersSound
  <2>6. CallersSound'
    BY <2>4, <2>5 DEF ClientInv, CallersSound
  <2>7. ASSUME NEW r \in Sessions, session'[r].thread # "none"
        PROVE  current' = r \/ session'[r].closed \/ \E d \in Callers : Closes(d, r)'
    <3>1. current = r \/ session[r].closed \/ \E d \in Callers : Closes(d, r)
      BY <2>3, <2>7 DEF ClientInv, Owned
    <3>2. ASSUME NEW d \in Callers, Closes(d, r)
          PROVE  session'[r].closed \/ Closes(d, r)'
      BY <2>3, <2>5, <3>2 DEF Closes
    <3> QED
      BY <2>1, <2>3, <3>1, <3>2
  <2>8. Owned'
    BY <2>7 DEF Owned
  <2>9. McpTypeOK'
    BY <1>t, <2>1, <2>2 DEF McpTypeOK, States
  <2> QED
    BY <2>6, <2>8, <2>9 DEF ClientInv
<1>2. CASE SignalStop(c)
  <2> DEFINE s == call[c].session
             becomes == [call[c] EXCEPT !.at = "join", !.sawStop = FALSE]
  <2>1. s \in Sessions /\ call[c].at = "signal" /\ UNCHANGED <<current, opLock, future>>
        /\ call' = [call EXCEPT ![c] = becomes]
    BY <1>t, <1>2 DEF SignalStop, CallAt
  <2>2. becomes \in CallStates /\ becomes.session = s
    BY <1>t DEF CallStates
  <2>3. session' = session \/ session' = [session EXCEPT ![s].stop = IF @ = "none" THEN @ ELSE "set"]
    BY <1>2 DEF SignalStop
  <2>4. session' \in [Sessions -> States] /\ \A r \in Sessions :
          session'[r].thread = session[r].thread /\ session'[r].closed = session[r].closed
    BY <1>t, <2>1, <2>3 DEF States
  <2> QED
    BY <1>t, <2>1, <2>2, <2>4, CallerMoves
<1>3. CASE JoinThread(c)
  <2> DEFINE s == call[c].session
  <2>1. s \in Sessions /\ call[c].at = "join" /\ UNCHANGED <<current, opLock, future>>
    BY <1>t, <1>3 DEF JoinThread, CallAt
  <2>2. PICK becomes \in AfterFailure(c) : call' = [call EXCEPT ![c] = becomes]
    BY <1>3 DEF JoinThread, Fails
  <2>3. session' = session \/ session' = [session EXCEPT ![s].loop = "closed"]
    BY <1>3 DEF JoinThread
  <2>4. session' \in [Sessions -> States] /\ \A r \in Sessions :
          session'[r].thread = session[r].thread /\ session'[r].closed = session[r].closed
    BY <1>t, <2>1, <2>3 DEF States
  <2> QED
    BY <1>t, <2>1, <2>2, <2>4, Followed, CallerMoves
<1>4. CASE Shutdown(c)
  <2> DEFINE becomes == [call[c] EXCEPT !.session = current, !.op = "shutdown",
                                     !.at = IF current = "none" THEN "done" ELSE "close"]
  <2>1. call' = [call EXCEPT ![c] = becomes] /\ becomes \in CallStates /\ becomes.session = current
        /\ becomes.at = IF current = "none" THEN "done" ELSE "close"
    BY <1>t, <1>4 DEF Shutdown, CallStates
  <2>2. call[c].at = "idle" /\ current' = "none" /\ UNCHANGED <<session, opLock, future>>
    BY <1>4 DEF Shutdown, CallAt
  <2> QED
    BY <1>t, <2>1, <2>2, CallerMoves
<1> QED
  BY <1>1, <1>2, <1>3, <1>4 DEF CloserStep

LEMMA ThreadSound ==
  ASSUME ClientInv, NEW s \in Sessions, ThreadStep(s) \/ Break(s)
  PROVE  ClientInv'
<1>t. /\ session \in [Sessions -> States] /\ opLock \in [Sessions -> Callers \union {"free"}]
      /\ future \in [Callers -> {"none", "pending", "ok", "error"}]
  BY DEF ClientInv, McpTypeOK, States
<1>1. UNCHANGED <<current, opLock, call>> /\ session[s].thread # "none"
  BY DEF ThreadStep, Started, StartFails, Serve, Stop, Break, EndLoop
<1>2. future' \in [Callers -> {"none", "pending", "ok", "error"}]
  BY <1>t DEF ThreadStep, Started, StartFails, Serve, Stop, Break, EndLoop
<1>3. PICK new \in States : session' = [session EXCEPT ![s] = new] /\ new.closed = session[s].closed
  <2>1. CASE Started(s)
    <3> DEFINE new == [session[s] EXCEPT !.thread = "ready", !.ready = TRUE, !.stop = "unset"]
    <3>1. new \in States /\ session' = [session EXCEPT ![s] = new] /\ new.closed = session[s].closed
      BY <1>t, <2>1 DEF Started, States
    <3> QED
      BY <3>1
  <2>2. CASE StartFails(s)
    <3> DEFINE new == [session[s] EXCEPT !.thread = "ending", !.ready = TRUE, !.failed = TRUE]
    <3>1. new \in States /\ session' = [session EXCEPT ![s] = new] /\ new.closed = session[s].closed
      BY <1>t, <2>2 DEF StartFails, States
    <3> QED
      BY <3>1
  <2>3. CASE Serve(s) \/ Stop(s)
    <3>1. PICK p \in {"ending", "serving"} : session' = [session EXCEPT ![s].thread = p]
      BY <2>3 DEF Serve, Stop, Move
    <3> DEFINE new == [session[s] EXCEPT !.thread = p]
    <3>2. new \in States /\ session' = [session EXCEPT ![s] = new] /\ new.closed = session[s].closed
      BY <1>t, <3>1 DEF States
    <3> QED
      BY <3>2
  <2>4. CASE EndLoop(s)
    <3> DEFINE new == [session[s] EXCEPT !.thread = "dead", !.stop = "none"]
    <3>1. new \in States /\ session' = [session EXCEPT ![s] = new] /\ new.closed = session[s].closed
      BY <1>t, <2>4 DEF EndLoop, States
    <3> QED
      BY <3>1
  <2>5. CASE Break(s)
    <3> DEFINE new == [session[s] EXCEPT !.thread = "ending", !.failed = TRUE]
    <3>1. new \in States /\ session' = [session EXCEPT ![s] = new] /\ new.closed = session[s].closed
      BY <1>t, <2>5 DEF Break, States
    <3> QED
      BY <3>1
  <2> QED
    BY <2>1, <2>2, <2>3, <2>4, <2>5 DEF ThreadStep
<1>4. session' \in [Sessions -> States] /\ \A r \in Sessions : session'[r] = IF r = s THEN new ELSE session[r]
  BY <1>t, <1>3
<1>5. \A r \in Sessions :
        /\ session'[r].thread # "none" => session[r].thread # "none"
        /\ session[r].closed => session'[r].closed
  BY <1>1, <1>3, <1>4
<1> QED
  BY <1>1, <1>2, <1>4, <1>5, ThreadMoves

LEMMA ClientNext == ClientInv /\ [McpNext]_mcpVars => ClientInv'
<1> SUFFICES ASSUME ClientInv, [McpNext]_mcpVars
             PROVE  ClientInv'
  OBVIOUS
<1>t. /\ session \in [Sessions -> States] /\ opLock \in [Sessions -> Callers \union {"free"}]
      /\ future \in [Callers -> {"none", "pending", "ok", "error"}]
  BY DEF ClientInv, McpTypeOK, States
<1>1. ASSUME NEW c \in Callers, CallerStep(c)
      PROVE  ClientInv'
  BY <1>1, CallerSound
<1>2. ASSUME NEW c \in Callers, CloserStep(c) \/ Shutdown(c)
      PROVE  ClientInv'
  BY <1>2, CloserSound
<1>3. ASSUME NEW s \in Sessions, ThreadStep(s) \/ Break(s)
      PROVE  ClientInv'
  BY <1>3, ThreadSound
<1>4. ASSUME NEW c \in Callers, Tell(c)
      PROVE  ClientInv'
  <2> DEFINE becomes == [call[c] EXCEPT !.told = TRUE]
  <2>1. /\ call[c] \in CallStates
        /\ call[c].at \notin {"idle", "done"} => call[c].session \in Sessions
    BY DEF ClientInv, CallersSound
  <2>2. becomes \in CallStates /\ becomes.at = call[c].at /\ becomes.session = call[c].session
        /\ call' = [call EXCEPT ![c] = becomes]
    BY <1>4, <2>1 DEF Tell, CallStates
  <2>3. call[c].at # "close" /\ UNCHANGED <<current, session, opLock, future>>
    BY <1>4 DEF Tell
  <2> QED
    BY <1>t, <2>1, <2>2, <2>3, CallerMoves
<1>5. ASSUME NEW c \in Callers, Answer(c)
      PROVE  ClientInv'
  <2>1. future' \in [Callers -> {"none", "pending", "ok", "error"}] /\ UNCHANGED <<current, session, opLock, call>>
    BY <1>t, <1>5 DEF Answer
  <2> QED
    BY <1>t, <2>1, ThreadMoves
<1>6. CASE UNCHANGED mcpVars
  BY <1>t, <1>6, ThreadMoves DEF mcpVars
<1> QED
  BY <1>1, <1>2, <1>3, <1>4, <1>5, <1>6 DEF McpNext

\* _discard_persistent_stdio_session, shutdown: a server process is never left
\* without the client or a closer, whichever callers fail, close and restart
\* the session they share.
THEOREM SessionsHaveOwners == McpSpec => []SessionHasOwner
<1>1. ClientInv => SessionHasOwner
  BY DEF ClientInv, Owned, Closes, SessionHasOwner, CallAt
<1> QED
  BY <1>1, ClientInit, ClientNext, PTL DEF McpSpec

-----------------------------------------------------------------------------
(* Evaluations.                                                              *)

Early == {"start", "baseline", "needs"}
Executing == {"cases", "case", "poll", "kill"}
Grading == {"record", "grade", "store", "finish"}
Settled == {"compare", "latest", "named", "report"}
EvalSteps == {"none", "end"} \union Early \union Executing \union Grading \union Settled

EvalTypes ==
  /\ TypeOK
  /\ at \in [Jobs -> EvalSteps]
  /\ ask = [j \in Jobs |-> ask[j]]
  /\ base \in [Jobs -> Jobs \union {"none"}]
  /\ observed \in [Jobs -> Seq([of : Nat, is : Answers \union {"blocked"}])]

\* A job that was never asked for has left nothing.
Untouched(j) ==
  job[j] = "none" => at[j] = "none" /\ runs[j] = "none" /\ Stored(j) = {} /\ observed[j] = <<>>

\* A case has its observation, at its place.
Observed(j, c) == Rank(c) \in 1 .. Len(observed[j]) /\ observed[j][Rank(c)].of = c

\* Observations are those of the enabled cases, in their order, and none is
\* left out.
Observes(j) ==
  /\ at[j] \in Early => observed[j] = <<>>
  /\ at[j] \in Executing =>
       /\ case[j] >= 1 /\ Len(observed[j]) = Rank(case[j] - 1)
       /\ \A c \in Cases : c < case[j] /\ Suite[c].enabled => Observed(j, c)
  /\ at[j] \in {"case", "poll", "kill"} => case[j] <= Len(Suite) /\ Suite[case[j]].enabled
  /\ at[j] \in Grading =>
       /\ Len(observed[j]) <= Len(Suite)
       /\ \A c \in Cases : Suite[c].enabled => Observed(j, c)
  /\ \A i \in 1 .. Len(observed[j]) :
       LET c == observed[j][i].of IN c \in Cases /\ Suite[c].enabled /\ Rank(c) = i

Whole(j) ==
  /\ \A c \in Cases : Suite[c].enabled => \E r \in Stored(j) : r.of = c /\ r.case = Rank(c)
  /\ \A r \in Stored(j) : r.of \in Cases /\ Suite[r.of].enabled /\ r.case = Rank(r.of)
  /\ runs[j] = "passed" <=> \A r \in Stored(j) : r.status = "passed"

\* A run is over when all its results are stored.
Stores(j) ==
  /\ at[j] \in Early \union Executing \union Grading => runs[j] \in {"none", "running"}
  /\ at[j] \in Settled => runs[j] \in Ended
  /\ at[j] \in Early \union Executing \union {"record", "grade"} => Stored(j) = {}
  /\ at[j] = "store" => case[j] >= 1 /\ Stored(j) = {r \in Graded(j) : r.case < case[j]}
  /\ at[j] = "finish" => Stored(j) = Graded(j)
  /\ runs[j] \in {"passed", "failed"} => Whole(j)

\* A case is executed between its beginning and its observation.
Executes(j) == at[j] \notin {"case", "poll", "kill"} => work[j] = "none"

JobSound(j) == Untouched(j) /\ Observes(j) /\ Executes(j) /\ Stores(j)

BaselinesPassed == \A n \in Names : named[n] # "none" => runs[named[n]] = "passed"

\* From the moment a job has found what to compare with.
Based(j) ==
  at[j] \in {"needs", "compare", "latest"} \union Executing \union Grading
      /\ base[j] # "none" /\ ask[j].against \notin Jobs =>
    runs[base[j]] = "passed"

EvalsInv ==
  EvalTypes /\ (\A j \in Jobs : JobSound(j)) /\ BaselinesPassed /\ (\A j \in Jobs : Based(j))

-----------------------------------------------------------------------------
\* The place of a case: every enabled case takes one.
LEMMA Ranks ==
  ASSUME NEW c \in Nat
  PROVE  /\ Rank(c) \in Nat /\ Rank(c) <= c /\ Rank(0) = 0
         /\ Rank(c + 1) = IF Suite[c + 1].enabled THEN Rank(c) + 1 ELSE Rank(c)
<1> DEFINE S(n) == {d \in 1 .. n : Suite[d].enabled}
<1>1. \A n \in Nat : Rank(n) = Cardinality(S(n))
  BY DEF Rank
<1>2. IsFiniteSet(1 .. c) /\ Cardinality(1 .. c) = c
  BY FS_Interval
<1>3. IsFiniteSet(S(c)) /\ Cardinality(S(c)) <= c
  <2>1. S(c) \in SUBSET (1 .. c)
    OBVIOUS
  <2> QED
    BY <1>2, <2>1, FS_Subset
<1>4. Cardinality(S(c)) \in Nat
  BY <1>3, FS_CardinalityType
<1>5. S(0) = {} /\ Cardinality({}) = 0
  BY FS_EmptySet
<1>6. CASE Suite[c + 1].enabled
  <2>1. S(c + 1) = S(c) \union {c + 1} /\ c + 1 \notin S(c)
    BY <1>6
  <2>2. Cardinality(S(c) \union {c + 1}) = Cardinality(S(c)) + 1
    BY <1>3, <2>1, FS_AddElement
  <2> HIDE DEF S
  <2> QED
    BY <1>1, <1>3, <1>4, <1>5, <1>6, <2>1, <2>2
<1>7. CASE ~Suite[c + 1].enabled
  <2>1. S(c + 1) = S(c)
    BY <1>7
  <2> HIDE DEF S
  <2> QED
    BY <1>1, <1>3, <1>4, <1>5, <1>7, <2>1
<1> QED
  BY <1>6, <1>7

\* A job that nothing happens to.
LEMMA OtherKept ==
  ASSUME NEW i \in Jobs, JobSound(i), job'[i] = "none" => job[i] = "none",
         at'[i] = at[i], case'[i] = case[i], observed'[i] = observed[i], runs'[i] = runs[i],
         Stored(i)' = Stored(i), work[i] = "none" => work'[i] = "none"
  PROVE  JobSound(i)'
<1>1. Graded(i)' = Graded(i)
  BY DEF Graded, Paired, Grade
<1>2. Untouched(i)'
  BY DEF JobSound, Untouched
<1>3. Observes(i)'
  BY DEF JobSound, Observes, Observed
<1>4. (Whole(i)' <=> Whole(i)) /\ Executes(i)'
  BY DEF Whole, JobSound, Executes
<1>5. Stores(i)'
  BY <1>1, <1>4 DEF JobSound, Stores
<1> QED
  BY <1>2, <1>3, <1>4, <1>5 DEF JobSound

\* A step of one job.
LEMMA StepOf ==
  ASSUME EvalsInv, NEW j \in Jobs, EvalTypes', JobSound(j)', Based(j)',
         \A i \in Jobs \ {j} :
           /\ job'[i] = "none" => job[i] = "none"
           /\ at'[i] = at[i] /\ case'[i] = case[i] /\ observed'[i] = observed[i]
           /\ runs'[i] = runs[i] /\ base'[i] = base[i] /\ ask'[i] = ask[i]
           /\ Stored(i)' = Stored(i) /\ (work[i] = "none" => work'[i] = "none"),
         runs[j] = "passed" => runs'[j] = "passed",
         \A n \in Names : named'[n] = named[n] \/ (named'[n] = j /\ runs'[j] = "passed")
  PROVE  EvalsInv'
<1>1. \A i \in Jobs : JobSound(i)'
  BY OtherKept DEF EvalsInv
<1>2. \A i \in Jobs : runs[i] = "passed" => runs'[i] = "passed"
  OBVIOUS
<1>3. BaselinesPassed'
  <2> SUFFICES ASSUME NEW n \in Names, named'[n] # "none" PROVE runs'[named'[n]] = "passed"
    BY DEF BaselinesPassed
  <2>1. CASE named'[n] = named[n]
    <3>1. named[n] \in Jobs /\ runs[named[n]] = "passed"
      BY <2>1 DEF EvalsInv, BaselinesPassed, EvalTypes, TypeOK
    <3> QED
      BY <1>2, <2>1, <3>1
  <2>2. CASE named'[n] = j /\ runs'[j] = "passed"
    BY <2>2
  <2> QED
    BY <2>1, <2>2
<1>4. \A i \in Jobs : Based(i)'
  <2> SUFFICES ASSUME NEW i \in Jobs PROVE Based(i)'
    OBVIOUS
  <2>1. CASE i = j
    BY <2>1
  <2>2. CASE i # j
    <3>1. Based(i) /\ base[i] \in Jobs \union {"none"}
      BY DEF EvalsInv, EvalTypes
    <3>2. at'[i] = at[i] /\ base'[i] = base[i] /\ ask'[i] = ask[i]
      BY <2>2
    <3> QED
      BY <1>2, <3>1, <3>2 DEF Based
  <2> QED
    BY <2>1, <2>2
<1> QED
  BY <1>1, <1>3, <1>4 DEF EvalsInv

\* The execution of a case goes on, or nothing happens.
LEMMA Unmoved ==
  ASSUME EvalsInv, UNCHANGED <<job, at, ask, base, case, observed, store>>,
         work' \in [Jobs -> {"none", "seed", "turn", "diagnose", "judge", "again", "over"}],
         outcome' \in [Jobs -> {"none", "http error", "error"} \union Answers],
         child' \in [Jobs -> {"none", "runs", "exited"}],
         \A i \in Jobs : work[i] = "none" => work'[i] = "none"
  PROVE  EvalsInv'
<1>1. UNCHANGED <<job, at, ask, base, case, observed, runs, results, named>>
  BY DEF store
<1>2. \A i \in Jobs : Stored(i)' = Stored(i)
  BY <1>1 DEF Stored
<1>3. EvalTypes'
  BY <1>1 DEF EvalsInv, EvalTypes, TypeOK
<1>4. \A i \in Jobs : JobSound(i)'
  BY <1>1, <1>2, OtherKept DEF EvalsInv
<1> QED
  BY <1>1, <1>3, <1>4 DEF EvalsInv, BaselinesPassed, Based

\* The types, in the form in which the steps use them.
LEMMA TypesOf ==
  ASSUME EvalsInv
  PROVE  /\ job \in [Jobs -> {"none", "queued", "running", "lost", "gone"} \union Ended]
         /\ at \in [Jobs -> EvalSteps]
         /\ case \in [Jobs -> 0 .. Len(Suite) + 1]
         /\ work \in [Jobs -> {"none", "seed", "turn", "diagnose", "judge", "again", "over"}]
         /\ outcome \in [Jobs -> {"none", "http error", "error"} \union Answers]
         /\ child \in [Jobs -> {"none", "runs", "exited"}]
         /\ runs \in [Jobs -> {"none", "running"} \union Ended]
         /\ named \in [Names -> Jobs \union {"none"}]
         /\ ask = [j \in Jobs |-> ask[j]]
         /\ base \in [Jobs -> Jobs \union {"none"}]
         /\ observed \in [Jobs -> Seq([of : Nat, is : Answers \union {"blocked"}])]
         /\ Len(Suite) \in Nat
<1>1. Len(Suite) \in Nat
  BY EvalsAssumption
<1>2. EvalTypes /\ TypeOK
  BY DEF EvalsInv, EvalTypes
<1> QED
  BY <1>1, <1>2 DEF EvalTypes, TypeOK

LEMMA LengthsOf ==
  ASSUME EvalsInv, NEW j \in Jobs
  PROVE  /\ observed[j] \in Seq([of : Nat, is : Answers \union {"blocked"}])
         /\ Len(observed[j]) \in Nat /\ Len(Suite) \in Nat /\ case[j] \in 0 .. Len(Suite) + 1
<1>1. observed[j] \in Seq([of : Nat, is : Answers \union {"blocked"}])
  BY TypesOf
<1>2. Len(Suite) \in Nat /\ case[j] \in 0 .. Len(Suite) + 1
  BY TypesOf
<1> QED
  BY <1>1, <1>2

LEMMA StartEvals == EvalsInit => EvalsInv
<1> SUFFICES ASSUME EvalsInit PROVE EvalsInv
  OBVIOUS
<1>1. EvalTypes
  BY EvalsAssumption DEF EvalsInit, EvalTypes, TypeOK, EvalSteps
<1>2. \A j \in Jobs : Stored(j) = {}
  BY DEF EvalsInit, Stored
<1>3. \A j \in Jobs : JobSound(j) /\ Based(j)
  BY <1>2 DEF EvalsInit, JobSound, Untouched, Observes, Stores, Based,
              Executes, Early, Executing, Grading, Settled
<1>4. BaselinesPassed
  BY DEF EvalsInit, BaselinesPassed
<1> QED
  BY <1>1, <1>3, <1>4 DEF EvalsInv

-----------------------------------------------------------------------------
(* The registry and the time before the cases.                               *)

LEMMA CreateSound ==
  ASSUME EvalsInv, NEW j \in Jobs, NEW a, Create(j, a)
  PROVE  EvalsInv'
<1>1. /\ job[j] = "none" /\ at' = [at EXCEPT ![j] = "start"] /\ ask' = [ask EXCEPT ![j] = a]
      /\ UNCHANGED <<base, case, observed, work, outcome, child, runs, results, named>>
  BY DEF Create, Go, execution, store
<1>2. PICK P : job' = [i \in Jobs |-> IF i = j THEN "queued" ELSE IF i \in P THEN "gone" ELSE job[i]]
  BY DEF Create
<1>3. /\ job' \in [Jobs -> {"none", "queued", "running", "lost", "gone"} \union Ended]
      /\ job'[j] # "none" /\ \A i \in Jobs : job'[i] = "none" => job[i] = "none"
  BY <1>2, TypesOf
<1>4. /\ at' \in [Jobs -> EvalSteps]
      /\ at'[j] = "start" /\ \A i \in Jobs \ {j} : at'[i] = at[i] /\ ask'[i] = ask[i]
      /\ ask' = [i \in Jobs |-> ask'[i]]
  BY <1>1, TypesOf DEF EvalSteps, Early
<1>5. EvalTypes'
  BY <1>1, <1>3, <1>4 DEF EvalsInv, EvalTypes, TypeOK
<1>6. \A i \in Jobs : Stored(i)' = Stored(i)
  BY <1>1 DEF Stored
<1>7. Untouched(j) /\ Executes(j)
  BY DEF EvalsInv, JobSound
<1>8. JobSound(j)'
  BY <1>1, <1>3, <1>4, <1>6, <1>7 DEF Untouched, JobSound, Observes, Stores,
              Executes, Early, Executing, Grading, Settled
<1>9. Based(j)'
  BY <1>4 DEF Based, Executing, Grading
<1> QED
  BY <1>1, <1>3, <1>4, <1>5, <1>6, <1>8, <1>9, StepOf

LEMMA BeforeSound ==
  ASSUME EvalsInv, NEW j \in Jobs, Start(j) \/ ResolveBaseline(j)
  PROVE  EvalsInv'
<1>1. UNCHANGED <<ask, observed, work, outcome, child, runs, results, named>>
  BY DEF Start, ResolveBaseline, execution, store
<1>2. \A i \in Jobs : Stored(i)' = Stored(i)
  BY <1>1 DEF Stored
<1>3. JobSound(j)
  BY DEF EvalsInv
<1>4. CASE Start(j)
  <2>1. at[j] = "start" /\ at' = [at EXCEPT ![j] = "baseline"] /\ job' = [job EXCEPT ![j] = "running"]
        /\ UNCHANGED <<base, case>>
    BY <1>4 DEF Start, Step, Go, End, execution
  <2>2. /\ at' \in [Jobs -> EvalSteps]
        /\ job' \in [Jobs -> {"none", "queued", "running", "lost", "gone"} \union Ended]
        /\ at'[j] = "baseline" /\ job'[j] = "running"
        /\ \A i \in Jobs \ {j} : at'[i] = at[i] /\ job'[i] = job[i]
    BY <2>1, TypesOf DEF EvalSteps, Early
  <2>3. EvalTypes'
    BY <1>1, <2>1, <2>2 DEF EvalsInv, EvalTypes, TypeOK
  <2>4. JobSound(j)'
    BY <1>1, <1>2, <1>3, <2>1, <2>2 DEF JobSound, Untouched, Observes, Stores,
              Executes, Early, Executing, Grading, Settled
  <2>5. Based(j)'
    BY <2>2 DEF Based, Executing, Grading
  <2> QED
    BY <1>1, <1>2, <2>1, <2>2, <2>3, <2>4, <2>5, StepOf
<1>5. CASE ResolveBaseline(j)
  <2>1. /\ at[j] = "baseline" /\ base' = [base EXCEPT ![j] = Resolved(j)] /\ case' = [case EXCEPT ![j] = 1]
        /\ job' = job
    BY <1>5 DEF ResolveBaseline
  <2>2. PICK p \in {"cases", "needs"} : at' = [at EXCEPT ![j] = p]
    BY <1>5 DEF ResolveBaseline, Go
  <2>3. /\ Resolved(j) \in Jobs \union {"none"}
        /\ ask[j].against \notin Jobs /\ Resolved(j) # "none" => runs[Resolved(j)] = "passed"
    <3>1. \A n \in Names : named[n] \in Jobs \union {"none"} /\ (named[n] # "none" => runs[named[n]] = "passed")
      BY TypesOf DEF EvalsInv, BaselinesPassed
    <3>2. "latest_passed" \in Names
      BY DEF Names
    <3> QED
      BY <3>1, <3>2 DEF Resolved
  <2>4. /\ at' \in [Jobs -> EvalSteps]
        /\ base' \in [Jobs -> Jobs \union {"none"}]
        /\ case' \in [Jobs -> 0 .. Len(Suite) + 1]
        /\ at'[j] = p /\ base'[j] = Resolved(j) /\ case'[j] = 1
        /\ \A i \in Jobs \ {j} : at'[i] = at[i] /\ base'[i] = base[i] /\ case'[i] = case[i]
    <3>0. Len(Suite) \in Nat
      BY TypesOf
    <3>1. 1 \in 0 .. Len(Suite) + 1
      BY <3>0
    <3>2. p \in EvalSteps
      BY <2>2 DEF EvalSteps, Early, Executing
    <3>3. at \in [Jobs -> EvalSteps]
          /\ base \in [Jobs -> Jobs \union {"none"}] /\ case \in [Jobs -> 0 .. Len(Suite) + 1]
      BY TypesOf
    <3> QED
      BY <2>1, <2>2, <2>3, <3>1, <3>2, <3>3
  <2>5. EvalTypes'
    BY <1>1, <2>1, <2>4 DEF EvalsInv, EvalTypes, TypeOK
  <2>6. observed[j] = <<>> /\ observed'[j] = <<>> /\ Len(observed'[j]) = 0
    BY <1>1, <1>3, <2>1 DEF JobSound, Observes, Early
  <2>7. JobSound(j)'
    <3>0. Len(Suite) \in Nat /\ 0 \in Nat
      BY TypesOf
    <3>1. 1 - 1 = 0 /\ Rank(0) = 0 /\ \A c \in Cases : ~(c < 1)
      BY <3>0, Ranks DEF Cases
    <3>2. Observes(j)'
      BY <1>1, <2>2, <2>4, <2>6, <3>1 DEF Observes, Early, Executing, Grading
    <3> QED
      BY <1>1, <1>2, <1>3, <2>1, <2>4, <3>2 DEF JobSound, Untouched, Stores,
              Executes, Early, Executing, Grading, Settled
  <2>8. Based(j)'
    BY <1>1, <2>3, <2>4 DEF Based
  <2> QED
    BY <1>1, <1>2, <2>1, <2>4, <2>5, <2>7, <2>8, StepOf
<1> QED
  BY <1>4, <1>5

\* A step of one job's thread.
LEMMA Goes ==
  ASSUME EvalsInv, NEW j \in Jobs, NEW p \in EvalSteps, at' = [at EXCEPT ![j] = p]
  PROVE  at' \in [Jobs -> EvalSteps] /\ at'[j] = p /\ \A i \in Jobs \ {j} : at'[i] = at[i]
BY TypesOf

LEMMA RecordBlockedSound ==
  ASSUME EvalsInv, NEW j \in Jobs, RecordBlocked(j)
  PROVE  EvalsInv'
<1>1. /\ at[j] = "needs" /\ at' = [at EXCEPT ![j] = "report"] /\ runs' = [runs EXCEPT ![j] = "blocked"]
      /\ UNCHANGED <<job, ask, base, case, observed, work, outcome, child, results, named>>
  BY DEF RecordBlocked, Step, Go, execution
<1>2. "report" \in EvalSteps
  BY DEF EvalSteps, Settled
<1>3. at' \in [Jobs -> EvalSteps] /\ at'[j] = "report" /\ \A i \in Jobs \ {j} : at'[i] = at[i]
  BY <1>1, <1>2, Goes
<1>4. /\ runs' \in [Jobs -> {"none", "running"} \union Ended]
      /\ runs'[j] = "blocked" /\ \A i \in Jobs \ {j} : runs'[i] = runs[i]
  BY <1>1, TypesOf DEF Ended
<1>5. EvalTypes'
  BY <1>1, <1>3, <1>4 DEF EvalsInv, EvalTypes, TypeOK
<1>6. \A i \in Jobs : Stored(i)' = Stored(i)
  BY <1>1 DEF Stored
<1>7. JobSound(j)
  BY DEF EvalsInv
<1>8. JobSound(j)'
  BY <1>1, <1>3, <1>4, <1>6, <1>7 DEF JobSound, Untouched, Observes, Stores, Ended,
              Executes, Early, Executing, Grading, Settled
<1>9. Based(j)' /\ runs[j] # "passed"
  BY <1>1, <1>3, <1>7 DEF Based, Executing, Grading, JobSound, Stores, Early
<1> QED
  BY <1>1, <1>3, <1>4, <1>5, <1>6, <1>8, <1>9, StepOf

-----------------------------------------------------------------------------
(* The cases, executed one after the other.                                  *)

LEMMA NextCaseSound ==
  ASSUME EvalsInv, NEW j \in Jobs, NextCase(j)
  PROVE  EvalsInv'
<1>1. at[j] = "cases" /\ UNCHANGED <<job, ask, base, observed, outcome, runs, results, named>>
  BY DEF NextCase, execution, store
<1>2. JobSound(j) /\ Based(j)
  BY DEF EvalsInv
<1>3. /\ case[j] \in 1 .. Len(Suite) + 1 /\ Len(Suite) \in Nat
      /\ Len(observed[j]) = Rank(case[j] - 1)
      /\ \A c \in Cases : c < case[j] /\ Suite[c].enabled => Observed(j, c)
  BY <1>1, <1>2, LengthsOf DEF JobSound, Observes, Executing
<1>4. \A i \in Jobs : Stored(i)' = Stored(i)
  BY <1>1 DEF Stored
<1>5. CASE case[j] > Len(Suite)
  <2>1. at' = [at EXCEPT ![j] = "record"] /\ UNCHANGED <<case, work, child>>
    BY <1>5 DEF NextCase, Go, execution
  <2>2. "record" \in EvalSteps
    BY DEF EvalSteps, Grading
  <2>3. at' \in [Jobs -> EvalSteps] /\ at'[j] = "record" /\ \A i \in Jobs \ {j} : at'[i] = at[i]
    BY <2>1, <2>2, Goes
  <2>4. EvalTypes'
    BY <1>1, <2>1, <2>3 DEF EvalsInv, EvalTypes, TypeOK
  <2>5. Len(observed[j]) <= Len(Suite) /\ \A c \in Cases : Suite[c].enabled => Observed(j, c)
    <3>1. case[j] - 1 = Len(Suite) /\ \A c \in Cases : c < case[j]
      BY <1>3, <1>5 DEF Cases
    <3> QED
      BY <1>3, <3>1, Ranks
  <2>6. Observes(j)'
    BY <1>1, <1>2, <2>3, <2>5 DEF JobSound, Observes, Observed, Early, Executing, Grading
  <2>7. JobSound(j)'
    BY <1>1, <1>2, <1>4, <2>1, <2>3, <2>6 DEF JobSound, Untouched, Stores, Whole,
                Executes, Early, Executing, Grading, Settled
  <2>8. Based(j)'
    BY <1>1, <1>2, <2>3 DEF Based, Executing, Grading
  <2> QED
    BY <1>1, <1>4, <2>1, <2>3, <2>4, <2>7, <2>8, StepOf
<1>6. CASE case[j] <= Len(Suite) /\ ~Suite[case[j]].enabled
  <2>1. case' = [case EXCEPT ![j] = case[j] + 1] /\ UNCHANGED <<at, work, child>>
    BY <1>3, <1>6 DEF NextCase, Current
  <2>2. /\ case' \in [Jobs -> 0 .. Len(Suite) + 1] /\ case'[j] = case[j] + 1
        /\ \A i \in Jobs \ {j} : case'[i] = case[i]
    <3>1. case[j] + 1 \in 0 .. Len(Suite) + 1
      BY <1>3, <1>6
    <3> QED
      BY <2>1, <3>1, TypesOf
  <2>3. EvalTypes'
    BY <1>1, <2>1, <2>2 DEF EvalsInv, EvalTypes, TypeOK
  <2>4. /\ case[j] + 1 >= 1 /\ (case[j] + 1) - 1 = case[j]
        /\ Len(observed[j]) = Rank(case[j])
    <3>1. case[j] - 1 \in Nat /\ (case[j] - 1) + 1 = case[j]
      BY <1>3
    <3>2. Rank(case[j]) = Rank(case[j] - 1)
      BY <1>6, <3>1, Ranks
    <3> QED
      BY <1>3, <3>2
  <2>5. \A c \in Cases : c < case[j] + 1 /\ Suite[c].enabled => Observed(j, c)
    <3> SUFFICES ASSUME NEW c \in Cases, c < case[j] + 1, Suite[c].enabled PROVE Observed(j, c)
      OBVIOUS
    <3>1. c < case[j] \/ c = case[j]
      BY <1>3 DEF Cases
    <3> QED
      BY <1>3, <1>6, <3>1
  <2>6. Observes(j)'
    BY <1>1, <1>2, <2>1, <2>2, <2>4, <2>5 DEF JobSound, Observes, Observed, Early, Executing, Grading
  <2>7. JobSound(j)'
    BY <1>1, <1>2, <1>4, <2>1, <2>6 DEF JobSound, Untouched, Stores, Whole,
                Executes, Early, Executing, Grading, Settled
  <2>8. Based(j)'
    BY <1>1, <1>2, <2>1 DEF Based, Executing, Grading
  <2> QED
    BY <1>1, <1>4, <2>1, <2>2, <2>3, <2>7, <2>8, StepOf
<1>7. CASE case[j] <= Len(Suite) /\ Suite[case[j]].enabled
  <2>1. BeginCase(j) /\ case' = case
    BY <1>3, <1>7 DEF NextCase, Current
  <2>2. PICK p \in {"poll", "case"} : at' = [at EXCEPT ![j] = p]
    BY <2>1 DEF BeginCase, Go
  <2>3. p \in EvalSteps
    BY <2>2 DEF EvalSteps, Executing
  <2>4. at' \in [Jobs -> EvalSteps] /\ at'[j] = p /\ \A i \in Jobs \ {j} : at'[i] = at[i]
    BY <2>2, <2>3, Goes
  <2>5. /\ work' = [work EXCEPT ![j] = "seed"]
        /\ work' \in [Jobs -> {"none", "seed", "turn", "diagnose", "judge", "again", "over"}]
        /\ \A i \in Jobs \ {j} : work'[i] = work[i]
    BY <2>1, TypesOf DEF BeginCase
  <2>6. child' \in [Jobs -> {"none", "runs", "exited"}]
    BY <2>1, TypesOf DEF BeginCase
  <2>7. EvalTypes'
    BY <1>1, <2>1, <2>4, <2>5, <2>6 DEF EvalsInv, EvalTypes, TypeOK
  <2>8. Observes(j)'
    BY <1>1, <1>2, <1>7, <2>1, <2>2, <2>4 DEF JobSound, Observes, Observed, Early, Executing, Grading
  <2>9. JobSound(j)'
    BY <1>1, <1>2, <1>4, <2>2, <2>4, <2>8 DEF JobSound, Untouched, Stores, Whole,
                Executes, Early, Executing, Grading, Settled
  <2>10. Based(j)'
    BY <1>1, <1>2, <2>4 DEF Based, Executing, Grading
  <2> QED
    BY <1>1, <1>4, <2>1, <2>4, <2>5, <2>7, <2>9, <2>10, StepOf
<1> QED
  BY <1>3, <1>5, <1>6, <1>7

LEMMA ObserveSound ==
  ASSUME EvalsInv, NEW j \in Jobs, at[j] \in {"case", "poll", "kill"},
         NEW what \in Answers \union {"blocked"}, Observe(j, what)
  PROVE  EvalsInv'
<1> DEFINE o == Observation(j, what)
<1>1. /\ observed' = [observed EXCEPT ![j] = Append(observed[j], o)]
      /\ case' = [case EXCEPT ![j] = case[j] + 1] /\ at' = [at EXCEPT ![j] = "cases"]
      /\ work' = [work EXCEPT ![j] = "none"] /\ outcome' = [outcome EXCEPT ![j] = "none"]
      /\ child' = [child EXCEPT ![j] = "none"]
      /\ UNCHANGED <<job, ask, base, runs, results, named>>
  BY DEF Observe, NoCase, Go, store
<1>2. "cases" \in EvalSteps
  BY DEF EvalSteps, Executing
<1>3. at' \in [Jobs -> EvalSteps] /\ at'[j] = "cases" /\ \A i \in Jobs \ {j} : at'[i] = at[i]
  BY <1>1, <1>2, Goes
<1>4. JobSound(j) /\ Based(j)
  BY DEF EvalsInv
<1>5. /\ case[j] \in 1 .. Len(Suite) /\ Suite[case[j]].enabled
      /\ Len(observed[j]) = Rank(case[j] - 1)
      /\ observed[j] \in Seq([of : Nat, is : Answers \union {"blocked"}])
      /\ Len(observed[j]) \in Nat /\ Len(Suite) \in Nat
  <2>1. /\ case[j] \in 0 .. Len(Suite) + 1 /\ Len(observed[j]) \in Nat /\ Len(Suite) \in Nat
        /\ observed[j] \in Seq([of : Nat, is : Answers \union {"blocked"}])
    BY LengthsOf
  <2>2. /\ case[j] >= 1 /\ Len(observed[j]) = Rank(case[j] - 1)
        /\ case[j] <= Len(Suite) /\ Suite[case[j]].enabled
    BY <1>4 DEF JobSound, Observes, Executing
  <2> QED
    BY <2>1, <2>2
<1>6. o \in [of : Nat, is : Answers \union {"blocked"}] /\ o.of = case[j]
  BY <1>5 DEF Observation
<1>7. /\ case' \in [Jobs -> 0 .. Len(Suite) + 1] /\ case'[j] = case[j] + 1
      /\ \A i \in Jobs \ {j} : case'[i] = case[i]
  <2>1. case[j] + 1 \in 0 .. Len(Suite) + 1
    BY <1>5
  <2>2. case \in [Jobs -> 0 .. Len(Suite) + 1]
    BY TypesOf
  <2> QED
    BY <1>1, <2>1, <2>2
<1>8. /\ observed' \in [Jobs -> Seq([of : Nat, is : Answers \union {"blocked"}])]
      /\ observed'[j] = Append(observed[j], o) /\ \A i \in Jobs \ {j} : observed'[i] = observed[i]
  <2>1. Append(observed[j], o) \in Seq([of : Nat, is : Answers \union {"blocked"}])
    BY <1>5, <1>6
  <2>2. observed \in [Jobs -> Seq([of : Nat, is : Answers \union {"blocked"}])]
    BY TypesOf
  <2> QED
    BY <1>1, <2>1, <2>2
<1>9. /\ work' \in [Jobs -> {"none", "seed", "turn", "diagnose", "judge", "again", "over"}]
      /\ work'[j] = "none" /\ \A i \in Jobs \ {j} : work'[i] = work[i]
      /\ outcome' \in [Jobs -> {"none", "http error", "error"} \union Answers]
      /\ child' \in [Jobs -> {"none", "runs", "exited"}]
  BY <1>1, TypesOf
<1>10. EvalTypes'
  BY <1>1, <1>3, <1>7, <1>8, <1>9 DEF EvalsInv, EvalTypes, TypeOK
<1>11. \A i \in Jobs : Stored(i)' = Stored(i)
  BY <1>1 DEF Stored
<1>12. /\ Len(observed'[j]) = Rank(case[j])
       /\ \A c \in Cases : c < case[j] + 1 /\ Suite[c].enabled => Observed(j, c)'
       /\ \A i \in 1 .. Len(observed'[j]) :
            LET c == observed'[j][i].of IN c \in Cases /\ Suite[c].enabled /\ Rank(c) = i
  <2>1. /\ Len(observed'[j]) = Len(observed[j]) + 1
        /\ \A i \in 1 .. Len(observed[j]) : observed'[j][i] = observed[j][i]
        /\ observed'[j][Len(observed[j]) + 1] = o
    <3> DEFINE S == [of : Nat, is : Answers \union {"blocked"}]
    <3>1. observed[j] \in Seq(S) /\ o \in S /\ observed'[j] = Append(observed[j], o)
      BY <1>5, <1>6, <1>8
    <3> HIDE DEF S, o
    <3> QED
      BY <3>1
  <2>2. Rank(case[j]) = Len(observed[j]) + 1
    <3>1. case[j] - 1 \in Nat /\ (case[j] - 1) + 1 = case[j]
      BY <1>5
    <3> QED
      BY <1>5, <3>1, Ranks
  <2>3. ASSUME NEW c \in Cases, c < case[j] + 1, Suite[c].enabled PROVE Observed(j, c)'
    <3>1. CASE c = case[j]
      BY <1>5, <1>6, <2>1, <2>2, <3>1 DEF Observed
    <3>2. CASE c < case[j]
      <4>1. Observed(j, c)
        BY <1>4, <2>3, <3>2 DEF JobSound, Observes, Executing
      <4>2. Rank(c) \in 1 .. Len(observed[j]) /\ Rank(c) \in 1 .. Len(observed'[j])
        BY <1>5, <2>1, <4>1 DEF Observed
      <4> QED
        BY <2>1, <4>1, <4>2 DEF Observed
    <3> QED
      BY <1>5, <2>3, <3>1, <3>2 DEF Cases
  <2>4. ASSUME NEW i \in 1 .. Len(observed'[j])
        PROVE  LET c == observed'[j][i].of IN c \in Cases /\ Suite[c].enabled /\ Rank(c) = i
    <3>1. i \in 1 .. Len(observed[j]) \/ i = Len(observed[j]) + 1
      BY <1>5, <2>1
    <3>2. CASE i = Len(observed[j]) + 1
      BY <1>5, <1>6, <2>1, <2>2, <3>2 DEF Cases
    <3>3. CASE i \in 1 .. Len(observed[j])
      <4>1. LET c == observed[j][i].of IN c \in Cases /\ Suite[c].enabled /\ Rank(c) = i
        BY <1>4, <3>3 DEF JobSound, Observes
      <4> QED
        BY <2>1, <3>3, <4>1
    <3> QED
      BY <3>1, <3>2, <3>3
  <2> QED
    BY <2>1, <2>2, <2>3, <2>4
<1>13. Observes(j)'
  <2>1. case'[j] >= 1 /\ case'[j] - 1 = case[j]
    BY <1>5, <1>7
  <2> QED
    BY <1>3, <1>7, <1>12, <2>1 DEF Observes, Early, Executing, Grading
<1>14. Untouched(j)'
  BY <1>1, <1>4 DEF JobSound, Untouched
<1>15. Stores(j)'
  BY <1>1, <1>3, <1>4, <1>11 DEF JobSound, Stores, Whole, Early, Executing, Grading, Settled
<1>16. JobSound(j)'
  BY <1>9, <1>13, <1>14, <1>15 DEF JobSound, Executes
<1>17. Based(j)'
  BY <1>1, <1>3, <1>4 DEF Based, Executing, Grading
<1> QED
  BY <1>1, <1>3, <1>7, <1>8, <1>9, <1>10, <1>11, <1>16, <1>17, StepOf

\* A job is over: what its thread knew is gone, its run stays.
LEMMA JobEndSound ==
  ASSUME EvalsInv, NEW j \in Jobs, NEW status \in {"running"} \union Ended, job[j] # "none",
         End(j, status), Go(j, "end"), Forget(j), UNCHANGED store,
         \/ NoCase(j)
         \/ UNCHANGED <<work, outcome, child>> /\ work[j] = "none"
  PROVE  EvalsInv'
<1>1. /\ job' = [job EXCEPT ![j] = status] /\ at' = [at EXCEPT ![j] = "end"]
      /\ ask' = [ask EXCEPT ![j] = NoAsk] /\ base' = [base EXCEPT ![j] = "none"]
      /\ case' = [case EXCEPT ![j] = 0] /\ observed' = [observed EXCEPT ![j] = <<>>]
      /\ UNCHANGED <<runs, results, named>>
  BY DEF End, Go, Forget, store
<1>2. "end" \in EvalSteps
  BY DEF EvalSteps
<1>3. at' \in [Jobs -> EvalSteps] /\ at'[j] = "end" /\ \A i \in Jobs \ {j} : at'[i] = at[i]
  BY <1>1, <1>2, Goes
<1>4. /\ work' \in [Jobs -> {"none", "seed", "turn", "diagnose", "judge", "again", "over"}]
      /\ work'[j] = "none" /\ \A i \in Jobs \ {j} : work'[i] = work[i]
      /\ outcome' \in [Jobs -> {"none", "http error", "error"} \union Answers]
      /\ child' \in [Jobs -> {"none", "runs", "exited"}]
  BY TypesOf DEF NoCase
<1>5. /\ job' \in [Jobs -> {"none", "queued", "running", "lost", "gone"} \union Ended]
      /\ job'[j] = status /\ \A i \in Jobs \ {j} : job'[i] = job[i]
  BY <1>1, TypesOf
<1>6. /\ case' \in [Jobs -> 0 .. Len(Suite) + 1] /\ case'[j] = 0
      /\ \A i \in Jobs \ {j} : case'[i] = case[i]
  <2>1. Len(Suite) \in Nat
    BY TypesOf
  <2>2. 0 \in 0 .. Len(Suite) + 1
    BY <2>1
  <2>3. case \in [Jobs -> 0 .. Len(Suite) + 1]
    BY TypesOf
  <2> QED
    BY <1>1, <2>2, <2>3
<1>7. /\ observed' \in [Jobs -> Seq([of : Nat, is : Answers \union {"blocked"}])]
      /\ observed'[j] = <<>> /\ \A i \in Jobs \ {j} : observed'[i] = observed[i]
  <2> DEFINE S == Seq([of : Nat, is : Answers \union {"blocked"}])
  <2>1. observed \in [Jobs -> S]
    BY TypesOf
  <2>2. <<>> \in S
    OBVIOUS
  <2> HIDE DEF S
  <2>3. /\ observed' \in [Jobs -> S]
        /\ observed'[j] = <<>> /\ \A i \in Jobs \ {j} : observed'[i] = observed[i]
    BY <1>1, <2>1, <2>2
  <2> QED
    BY <2>3 DEF S
<1>8. /\ base' \in [Jobs -> Jobs \union {"none"}] /\ \A i \in Jobs \ {j} : base'[i] = base[i]
      /\ ask' = [i \in Jobs |-> ask'[i]] /\ \A i \in Jobs \ {j} : ask'[i] = ask[i]
  BY <1>1, TypesOf
<1>9. EvalTypes'
  BY <1>1, <1>3, <1>4, <1>5, <1>6, <1>7, <1>8 DEF EvalsInv, EvalTypes, TypeOK
<1>10. \A i \in Jobs : Stored(i)' = Stored(i)
  BY <1>1 DEF Stored
<1>11. JobSound(j)
  BY DEF EvalsInv
<1>12. Untouched(j)' /\ Observes(j)' /\ Executes(j)'
  <2>1. Untouched(j)'
    BY <1>5 DEF Untouched, Ended
  <2>2. 1 .. Len(observed'[j]) = {}
    BY <1>7
  <2>3. Observes(j)'
    BY <1>3, <2>2 DEF Observes, Early, Executing, Grading
  <2> QED
    BY <1>4, <2>1, <2>3 DEF Executes
<1>13. Stores(j)'
  BY <1>1, <1>3, <1>10, <1>11 DEF JobSound, Stores, Whole, Early, Executing, Grading, Settled
<1>14. JobSound(j)' /\ Based(j)'
  BY <1>3, <1>12, <1>13 DEF JobSound, Based, Executing, Grading
<1> QED
  BY <1>1, <1>3, <1>4, <1>5, <1>6, <1>7, <1>8, <1>9, <1>10, <1>14, StepOf

\* The end of a case's execution, as the job's thread finds it.
LEMMA CaseOverSound ==
  ASSUME EvalsInv, NEW j \in Jobs, InThread(j) \/ TakeResult(j) \/ Drain(j) \/ Kill(j)
  PROVE  EvalsInv'
<1>1. Fate(j) \in Answers \union {"blocked"} /\ "blocked" \in Answers \union {"blocked"}
  BY DEF Fate
<1>2. at[j] \in {"case", "poll", "kill"}
  BY DEF InThread, TakeResult, Drain, Kill
<1>3. CASE \E what \in Answers \union {"blocked"} : Observe(j, what)
  BY <1>2, <1>3, ObserveSound
<1>4. CASE InThread(j) /\ ~\E what \in Answers \union {"blocked"} : Observe(j, what)
  <2>1. End(j, "failed") /\ Go(j, "end") /\ NoCase(j) /\ Forget(j) /\ UNCHANGED store
    BY <1>1, <1>4 DEF InThread
  <2>2. job[j] # "none"
    BY <1>2 DEF EvalsInv, JobSound, Untouched
  <2> QED
    BY <2>1, <2>2, JobEndSound DEF Ended
<1>5. InThread(j) \/ \E what \in Answers \union {"blocked"} : Observe(j, what)
  BY <1>1 DEF TakeResult, Drain, Kill
<1> QED
  BY <1>3, <1>4, <1>5

LEMMA GiveUpSound ==
  ASSUME EvalsInv, NEW j \in Jobs, GiveUp(j)
  PROVE  EvalsInv'
<1>1. /\ at[j] = "poll" /\ at' = [at EXCEPT ![j] = "kill"]
      /\ UNCHANGED <<job, ask, base, case, observed, work, outcome, child, runs, results, named>>
  BY DEF GiveUp, Step, Go, execution, store
<1>2. "kill" \in EvalSteps
  BY DEF EvalSteps, Executing
<1>3. at' \in [Jobs -> EvalSteps] /\ at'[j] = "kill" /\ \A i \in Jobs \ {j} : at'[i] = at[i]
  BY <1>1, <1>2, Goes
<1>4. EvalTypes'
  BY <1>1, <1>3 DEF EvalsInv, EvalTypes, TypeOK
<1>5. \A i \in Jobs : Stored(i)' = Stored(i)
  BY <1>1 DEF Stored
<1>6. JobSound(j) /\ Based(j)
  BY DEF EvalsInv
<1>7. JobSound(j)'
  BY <1>1, <1>3, <1>5, <1>6 DEF JobSound, Untouched, Observes, Observed, Stores, Whole,
              Executes, Early, Executing, Grading, Settled
<1>8. Based(j)'
  BY <1>1, <1>3, <1>6 DEF Based, Executing, Grading
<1> QED
  BY <1>1, <1>3, <1>4, <1>5, <1>7, <1>8, StepOf

-----------------------------------------------------------------------------
(* Grading and storing the run.                                              *)

LEMMA RecordStartSound ==
  ASSUME EvalsInv, NEW j \in Jobs, RecordStart(j)
  PROVE  EvalsInv'
<1>1. /\ at[j] = "record" /\ at' = [at EXCEPT ![j] = "grade"] /\ runs' = [runs EXCEPT ![j] = "running"]
      /\ UNCHANGED <<job, ask, base, case, observed, work, outcome, child, results, named>>
  BY DEF RecordStart, Step, Go, execution
<1>2. "grade" \in EvalSteps
  BY DEF EvalSteps, Grading
<1>3. at' \in [Jobs -> EvalSteps] /\ at'[j] = "grade" /\ \A i \in Jobs \ {j} : at'[i] = at[i]
  BY <1>1, <1>2, Goes
<1>4. /\ runs' \in [Jobs -> {"none", "running"} \union Ended]
      /\ runs'[j] = "running" /\ \A i \in Jobs \ {j} : runs'[i] = runs[i]
  BY <1>1, TypesOf
<1>5. EvalTypes'
  BY <1>1, <1>3, <1>4 DEF EvalsInv, EvalTypes, TypeOK
<1>6. \A i \in Jobs : Stored(i)' = Stored(i)
  BY <1>1 DEF Stored
<1>7. JobSound(j) /\ Based(j)
  BY DEF EvalsInv
<1>8. JobSound(j)'
  BY <1>1, <1>3, <1>4, <1>6, <1>7 DEF JobSound, Untouched, Observes, Observed, Stores,
              Executes, Early, Executing, Grading, Settled
<1>9. runs[j] # "passed"
  BY <1>1, <1>7 DEF JobSound, Stores, Grading
<1>10. \A i \in Jobs : runs[i] = "passed" => runs'[i] = "passed"
  BY <1>4, <1>9
<1>11. Based(j)'
  BY <1>1, <1>3, <1>7, <1>10, TypesOf DEF Based, Executing, Grading
<1> QED
  BY <1>1, <1>3, <1>4, <1>5, <1>6, <1>8, <1>9, <1>11, StepOf

\* The results that are graded are one for every enabled case.
LEMMA GradedOnes ==
  ASSUME EvalsInv, NEW j \in Jobs, at[j] \in Grading
  PROVE  /\ Paired(j) \in Nat /\ Paired(j) <= Len(Suite) /\ Len(Suite) \in Nat
         /\ \A r \in Graded(j) :
              /\ r.run = j /\ r.case \in 1 .. Paired(j)
              /\ r.of \in Cases /\ Suite[r.of].enabled /\ r.case = Rank(r.of)
         /\ \A c \in Cases : Suite[c].enabled => \E r \in Graded(j) : r.of = c /\ r.case = Rank(c)
<1>1. JobSound(j) /\ Len(observed[j]) \in Nat /\ Len(Suite) \in Nat
  BY LengthsOf DEF EvalsInv
<1>2. /\ Len(observed[j]) <= Len(Suite) /\ \A c \in Cases : Suite[c].enabled => Observed(j, c)
      /\ \A i \in 1 .. Len(observed[j]) :
           LET c == observed[j][i].of IN c \in Cases /\ Suite[c].enabled /\ Rank(c) = i
  BY <1>1 DEF JobSound, Observes
<1>3. Paired(j) = Len(observed[j])
  BY <1>1, <1>2 DEF Paired
<1>4. ASSUME NEW r \in Graded(j)
      PROVE  /\ r.run = j /\ r.case \in 1 .. Paired(j)
             /\ r.of \in Cases /\ Suite[r.of].enabled /\ r.case = Rank(r.of)
  <2>1. PICK i \in 1 .. Paired(j) :
          r = [run |-> j, case |-> i, of |-> observed[j][i].of, status |-> Grade(i, observed[j][i])]
    BY DEF Graded
  <2>2. r.run = j /\ r.case = i /\ r.of = observed[j][i].of
    BY <2>1
  <2> QED
    BY <1>2, <1>3, <2>2
<1>5. ASSUME NEW c \in Cases, Suite[c].enabled
      PROVE  \E r \in Graded(j) : r.of = c /\ r.case = Rank(c)
  <2> DEFINE i == Rank(c)
             r == [run |-> j, case |-> i, of |-> observed[j][i].of, status |-> Grade(i, observed[j][i])]
  <2>1. i \in 1 .. Paired(j) /\ observed[j][i].of = c
    BY <1>2, <1>3, <1>5 DEF Observed
  <2>2. r \in Graded(j)
    BY <2>1 DEF Graded
  <2>3. r.case = i /\ r.of = c
    BY <2>1
  <2> QED
    BY <2>2, <2>3
<1> QED
  BY <1>1, <1>2, <1>3, <1>4, <1>5

LEMMA GradeCasesSound ==
  ASSUME EvalsInv, NEW j \in Jobs, GradeCases(j)
  PROVE  EvalsInv'
<1>1. /\ at[j] = "grade" /\ at' = [at EXCEPT ![j] = "store"] /\ case' = [case EXCEPT ![j] = 1]
      /\ UNCHANGED <<job, ask, base, observed, work, outcome, child, runs, results, named>>
  BY DEF GradeCases, Step, Go, store
<1>2. "store" \in EvalSteps
  BY DEF EvalSteps, Grading
<1>3. at' \in [Jobs -> EvalSteps] /\ at'[j] = "store" /\ \A i \in Jobs \ {j} : at'[i] = at[i]
  BY <1>1, <1>2, Goes
<1>4. /\ case' \in [Jobs -> 0 .. Len(Suite) + 1] /\ case'[j] = 1
      /\ \A i \in Jobs \ {j} : case'[i] = case[i]
  <2>1. Len(Suite) \in Nat
    BY TypesOf
  <2>2. 1 \in 0 .. Len(Suite) + 1
    BY <2>1
  <2>3. case \in [Jobs -> 0 .. Len(Suite) + 1]
    BY TypesOf
  <2> QED
    BY <1>1, <2>2, <2>3
<1>5. EvalTypes'
  BY <1>1, <1>3, <1>4 DEF EvalsInv, EvalTypes, TypeOK
<1>6. \A i \in Jobs : Stored(i)' = Stored(i)
  BY <1>1 DEF Stored
<1>7. JobSound(j) /\ Based(j)
  BY DEF EvalsInv
<1>8. Stored(j) = {} /\ {r \in Graded(j)' : r.case < 1} = {}
  <2>0. Graded(j)' = Graded(j)
    BY <1>1 DEF Graded, Paired, Grade
  <2>1. Paired(j) \in Nat /\ \A r \in Graded(j) : r.case \in 1 .. Paired(j)
    BY <1>1, GradedOnes DEF Grading
  <2>2. ASSUME NEW r \in Graded(j)' PROVE ~(r.case < 1)
    <3>1. r.case \in 1 .. Paired(j) /\ Paired(j) \in Nat
      BY <2>0, <2>1
    <3> QED
      BY <3>1
  <2>3. Stored(j) = {}
    BY <1>1, <1>7 DEF JobSound, Stores
  <2> QED
    BY <2>2, <2>3
<1>9. Observes(j)' /\ Untouched(j)' /\ Executes(j)'
  BY <1>1, <1>3, <1>6, <1>7 DEF JobSound, Observes, Observed, Untouched, Executes, Early, Executing, Grading
<1>10. Stores(j)'
  BY <1>1, <1>3, <1>4, <1>6, <1>7, <1>8 DEF JobSound, Stores, Whole, Early, Executing, Grading, Settled
<1>11. JobSound(j)'
  BY <1>9, <1>10 DEF JobSound
<1>12. Based(j)'
  BY <1>1, <1>3, <1>7 DEF Based, Executing, Grading
<1> QED
  BY <1>1, <1>3, <1>4, <1>5, <1>6, <1>11, <1>12, StepOf

LEMMA StoreResultSound ==
  ASSUME EvalsInv, NEW j \in Jobs, StoreResult(j)
  PROVE  EvalsInv'
<1>1. at[j] = "store" /\ UNCHANGED <<job, ask, base, observed, work, outcome, child, runs, named>>
  BY DEF StoreResult
<1>2. /\ Paired(j) \in Nat /\ Paired(j) <= Len(Suite) /\ Len(Suite) \in Nat
      /\ \A r \in Graded(j) : r.run = j /\ r.case \in 1 .. Paired(j)
  BY <1>1, GradedOnes DEF Grading
<1>3. JobSound(j) /\ Based(j) /\ case[j] \in 0 .. Len(Suite) + 1
  BY LengthsOf DEF EvalsInv
<1>4. case[j] >= 1 /\ Stored(j) = {r \in Graded(j) : r.case < case[j]}
  BY <1>1, <1>3 DEF JobSound, Stores
<1>5. Graded(j)' = Graded(j)
  BY <1>1 DEF Graded, Paired, Grade
<1>6. CASE case[j] > Paired(j)
  <2>1. at' = [at EXCEPT ![j] = "finish"] /\ UNCHANGED <<case, results>>
    BY <1>6 DEF StoreResult, Go
  <2>2. "finish" \in EvalSteps
    BY DEF EvalSteps, Grading
  <2>3. at' \in [Jobs -> EvalSteps] /\ at'[j] = "finish" /\ \A i \in Jobs \ {j} : at'[i] = at[i]
    BY <2>1, <2>2, Goes
  <2>4. EvalTypes'
    BY <1>1, <2>1, <2>3 DEF EvalsInv, EvalTypes, TypeOK
  <2>5. \A i \in Jobs : Stored(i)' = Stored(i)
    BY <2>1 DEF Stored
  <2>6. Stored(j) = Graded(j)
    BY <1>2, <1>3, <1>4, <1>6
  <2>7. Stores(j)'
    BY <1>1, <1>3, <1>5, <2>1, <2>3, <2>5, <2>6 DEF JobSound, Stores, Whole, Early, Executing, Grading, Settled
  <2>8. JobSound(j)'
    BY <1>1, <1>3, <2>1, <2>3, <2>5, <2>7 DEF JobSound, Untouched, Observes, Observed,
                Executes, Early, Executing, Grading
  <2>9. Based(j)'
    BY <1>1, <1>3, <2>3 DEF Based, Executing, Grading
  <2> QED
    BY <1>1, <2>1, <2>3, <2>4, <2>5, <2>8, <2>9, StepOf
<1>7. CASE case[j] <= Paired(j)
  <2>1. /\ results' = results \union {r \in Graded(j) : r.case = case[j]}
        /\ case' = [case EXCEPT ![j] = case[j] + 1] /\ at' = at
    BY <1>2, <1>3, <1>7 DEF StoreResult
  <2>2. /\ case' \in [Jobs -> 0 .. Len(Suite) + 1] /\ case'[j] = case[j] + 1
        /\ \A i \in Jobs \ {j} : case'[i] = case[i]
    <3>1. case[j] + 1 \in 0 .. Len(Suite) + 1
      BY <1>2, <1>3, <1>7
    <3>2. case \in [Jobs -> 0 .. Len(Suite) + 1]
      BY TypesOf
    <3> QED
      BY <2>1, <3>1, <3>2
  <2>3. EvalTypes'
    BY <1>1, <2>1, <2>2 DEF EvalsInv, EvalTypes, TypeOK
  <2>4. \A i \in Jobs \ {j} : Stored(i)' = Stored(i)
    BY <1>2, <2>1 DEF Stored
  <2>5. Stored(j)' = {r \in Graded(j) : r.case < case[j] + 1}
    <3>1. Stored(j)' = Stored(j) \union {r \in Graded(j) : r.case = case[j]}
      BY <1>2, <2>1 DEF Stored
    <3>2. \A r \in Graded(j) : r.case < case[j] + 1 <=> r.case < case[j] \/ r.case = case[j]
      BY <1>2, <1>3
    <3> QED
      BY <1>4, <3>1, <3>2
  <2>6. Stores(j)'
    BY <1>1, <1>3, <1>4, <1>5, <2>1, <2>2, <2>5 DEF JobSound, Stores, Early, Executing, Grading, Settled
  <2>7. Untouched(j)' /\ Observes(j)' /\ Executes(j)'
    BY <1>1, <1>3, <2>1 DEF JobSound, Untouched, Observes, Observed, Executes, Early, Executing, Grading
  <2>8. JobSound(j)' /\ Based(j)'
    BY <1>1, <1>3, <2>1, <2>6, <2>7 DEF JobSound, Based
  <2> QED
    BY <1>1, <2>1, <2>2, <2>3, <2>4, <2>8, StepOf
<1> QED
  BY <1>2, <1>3, <1>6, <1>7

LEMMA FinishSound ==
  ASSUME EvalsInv, NEW j \in Jobs, Finish(j)
  PROVE  EvalsInv'
<1>1. /\ at[j] = "finish" /\ at' = [at EXCEPT ![j] = "compare"] /\ runs' = [runs EXCEPT ![j] = Final(j)]
      /\ case' = [case EXCEPT ![j] = 0] /\ observed' = [observed EXCEPT ![j] = <<>>]
      /\ UNCHANGED <<job, ask, base, work, outcome, child, results, named>>
  BY DEF Finish, Step, Go
<1>2. "compare" \in EvalSteps
  BY DEF EvalSteps, Settled
<1>3. at' \in [Jobs -> EvalSteps] /\ at'[j] = "compare" /\ \A i \in Jobs \ {j} : at'[i] = at[i]
  BY <1>1, <1>2, Goes
<1>4. Final(j) \in Ended
  BY DEF Final, Ended
<1>5. /\ runs' \in [Jobs -> {"none", "running"} \union Ended]
      /\ runs'[j] = Final(j) /\ \A i \in Jobs \ {j} : runs'[i] = runs[i]
  BY <1>1, <1>4, TypesOf
<1>6. /\ case' \in [Jobs -> 0 .. Len(Suite) + 1] /\ \A i \in Jobs \ {j} : case'[i] = case[i]
  <2>1. Len(Suite) \in Nat
    BY TypesOf
  <2>2. 0 \in 0 .. Len(Suite) + 1
    BY <2>1
  <2>3. case \in [Jobs -> 0 .. Len(Suite) + 1]
    BY TypesOf
  <2> QED
    BY <1>1, <2>2, <2>3
<1>7. /\ observed' \in [Jobs -> Seq([of : Nat, is : Answers \union {"blocked"}])]
      /\ observed'[j] = <<>> /\ \A i \in Jobs \ {j} : observed'[i] = observed[i]
  <2> DEFINE S == Seq([of : Nat, is : Answers \union {"blocked"}])
  <2>1. observed \in [Jobs -> S]
    BY TypesOf
  <2>2. <<>> \in S
    OBVIOUS
  <2> HIDE DEF S
  <2>3. /\ observed' \in [Jobs -> S]
        /\ observed'[j] = <<>> /\ \A i \in Jobs \ {j} : observed'[i] = observed[i]
    BY <1>1, <2>1, <2>2
  <2> QED
    BY <2>3 DEF S
<1>8. EvalTypes'
  BY <1>1, <1>3, <1>5, <1>6, <1>7 DEF EvalsInv, EvalTypes, TypeOK
<1>9. \A i \in Jobs : Stored(i)' = Stored(i)
  BY <1>1 DEF Stored
<1>10. JobSound(j) /\ Based(j)
  BY DEF EvalsInv
<1>11. Stored(j) = Graded(j) /\ runs[j] \in {"none", "running"}
  BY <1>1, <1>10 DEF JobSound, Stores, Grading
<1>12. Whole(j)'
  <2>1. /\ \A c \in Cases : Suite[c].enabled => \E r \in Stored(j) : r.of = c /\ r.case = Rank(c)
        /\ \A r \in Stored(j) : r.of \in Cases /\ Suite[r.of].enabled /\ r.case = Rank(r.of)
    BY <1>1, <1>11, GradedOnes DEF Grading
  <2>2. Final(j) = "passed" <=> \A r \in Stored(j) : r.status = "passed"
    BY <1>11 DEF Final
  <2>3. Stored(j)' = Stored(j) /\ runs'[j] = Final(j)
    BY <1>5, <1>9
  <2> QED
    BY <2>1, <2>2, <2>3 DEF Whole
<1>13. Stores(j)'
  BY <1>3, <1>4, <1>5, <1>12 DEF Stores, Early, Executing, Grading, Settled
<1>14. 1 .. Len(observed'[j]) = {}
  BY <1>7
<1>15. Untouched(j)' /\ Observes(j)' /\ Executes(j)'
  BY <1>1, <1>3, <1>7, <1>10, <1>14 DEF JobSound, Untouched, Observes, Executes, Early, Executing, Grading
<1>16. JobSound(j)'
  BY <1>13, <1>15 DEF JobSound
<1>17. \A i \in Jobs : runs[i] = "passed" => runs'[i] = "passed"
  BY <1>5, <1>11
<1>18. Based(j)'
  BY <1>1, <1>3, <1>10, <1>17, TypesOf DEF Based, Executing, Grading
<1> QED
  BY <1>1, <1>3, <1>5, <1>6, <1>7, <1>8, <1>9, <1>11, <1>16, <1>18, StepOf

-----------------------------------------------------------------------------
(* The run is over: comparison, baselines and the end of the job.            *)

LEMMA CompareSound ==
  ASSUME EvalsInv, NEW j \in Jobs, Compare(j)
  PROVE  EvalsInv'
<1>1. /\ at[j] = "compare" /\ at' = [at EXCEPT ![j] = "latest"]
      /\ UNCHANGED <<job, ask, base, case, observed, work, outcome, child, runs, results, named>>
  BY DEF Compare, Go, execution, store
<1>2. "latest" \in EvalSteps
  BY DEF EvalSteps, Settled
<1>3. at' \in [Jobs -> EvalSteps] /\ at'[j] = "latest" /\ \A i \in Jobs \ {j} : at'[i] = at[i]
  BY <1>1, <1>2, Goes
<1>4. EvalTypes'
  BY <1>1, <1>3 DEF EvalsInv, EvalTypes, TypeOK
<1>5. \A i \in Jobs : Stored(i)' = Stored(i)
  BY <1>1 DEF Stored
<1>6. JobSound(j) /\ Based(j)
  BY DEF EvalsInv
<1>7. JobSound(j)'
  BY <1>1, <1>3, <1>5, <1>6 DEF JobSound, Untouched, Observes, Stores, Whole,
              Executes, Early, Executing, Grading, Settled
<1>8. Based(j)'
  BY <1>1, <1>3, <1>6 DEF Based, Executing, Grading
<1> QED
  BY <1>1, <1>3, <1>4, <1>5, <1>7, <1>8, StepOf

\* A job writes a baseline when its run is over.
LEMMA WriteSound ==
  ASSUME EvalsInv, NEW j \in Jobs, WriteLatest(j) \/ WriteNamed(j)
  PROVE  EvalsInv'
<1>1. PICK p \in {"named", "report"} :
        /\ at[j] \in {"latest", "named"} /\ at' = [at EXCEPT ![j] = p]
        /\ UNCHANGED <<job, ask, base, case, observed, work, outcome, child, runs, results>>
  BY DEF WriteLatest, WriteNamed, Step, Go, execution
<1>2. p \in EvalSteps
  BY <1>1 DEF EvalSteps, Settled
<1>3. at' \in [Jobs -> EvalSteps] /\ at'[j] = p /\ \A i \in Jobs \ {j} : at'[i] = at[i]
  BY <1>1, <1>2, Goes
<1>4. named' = named \/ \E name : runs[j] = "passed" /\ named' = [named EXCEPT ![name] = j]
  BY DEF WriteLatest, WriteNamed, WriteBaseline
<1>5. /\ named' \in [Names -> Jobs \union {"none"}]
      /\ \A n \in Names : named'[n] = named[n] \/ (named'[n] = j /\ runs[j] = "passed")
  BY <1>4, TypesOf
<1>6. EvalTypes'
  BY <1>1, <1>3, <1>5 DEF EvalsInv, EvalTypes, TypeOK
<1>7. \A i \in Jobs : Stored(i)' = Stored(i)
  BY <1>1 DEF Stored
<1>8. JobSound(j)
  BY DEF EvalsInv
<1>9. JobSound(j)'
  BY <1>1, <1>3, <1>7, <1>8 DEF JobSound, Untouched, Observes, Stores, Whole,
              Executes, Early, Executing, Grading, Settled
<1>10. Based(j)'
  BY <1>1, <1>3 DEF Based, Executing, Grading
<1> QED
  BY <1>1, <1>3, <1>5, <1>6, <1>7, <1>9, <1>10, StepOf

LEMMA OverSound ==
  ASSUME EvalsInv, NEW j \in Jobs, CompareWithNothing(j) \/ EndJob(j) \/ Fail(j)
  PROVE  EvalsInv'
<1>1. /\ at[j] \in Early \union {"record", "grade", "store", "finish"} \union Settled
      /\ Go(j, "end") /\ Forget(j)
      /\ UNCHANGED store /\ UNCHANGED <<work, outcome, child>>
  BY DEF CompareWithNothing, EndJob, Fail, Step, Early, Settled
<1>2. JobSound(j)
  BY DEF EvalsInv
<1>3. job[j] # "none" /\ work[j] = "none"
  BY <1>1, <1>2 DEF JobSound, Untouched, Executes, Early, Settled
<1>4. PICK status \in Ended : End(j, status)
  <2>1. CASE CompareWithNothing(j) \/ Fail(j)
    BY <2>1 DEF CompareWithNothing, Fail, Ended
  <2>2. CASE EndJob(j)
    <3>1. at[j] = "report" /\ End(j, runs[j])
      BY <2>2 DEF EndJob, Step
    <3>2. runs[j] \in Ended
      BY <1>2, <3>1 DEF JobSound, Stores, Settled
    <3> QED
      BY <3>1, <3>2
  <2> QED
    BY <2>1, <2>2
<1> QED
  BY <1>1, <1>3, <1>4, JobEndSound

-----------------------------------------------------------------------------
(* The execution of a case, the process, and the whole.                      *)

LEMMA ExecuteSound ==
  ASSUME EvalsInv, NEW j \in Jobs, Execute(j)
  PROVE  EvalsInv'
<1> DEFINE CaseSteps == {"none", "seed", "turn", "diagnose", "judge", "again", "over"}
           Outcomes == {"none", "http error", "error"} \union Answers
<1>1. UNCHANGED <<job, at, ask, base, case, observed, store>> /\ child' = child
  BY DEF Execute, Seed, Turn, Diagnose, JudgeCase, Again, InCase
<1>2. work[j] # "none"
  BY DEF Execute, Seed, Turn, Diagnose, JudgeCase, Again, Works
<1>3. PICK w \in CaseSteps : work' = [work EXCEPT ![j] = w]
  BY DEF Execute, Seed, Turn, Diagnose, JudgeCase, Again, Do, Over
<1>4. work' \in [Jobs -> CaseSteps] /\ \A i \in Jobs : work[i] = "none" => work'[i] = "none"
  BY <1>2, <1>3, TypesOf
<1>5. Current(j).answers \subseteq Answers
  <2>1. JobSound(j)
    BY DEF EvalsInv
  <2>2. at[j] \in {"case", "poll", "kill"}
    BY <1>2, <2>1 DEF JobSound, Executes
  <2>3. case[j] \in 1 .. Len(Suite)
    BY <2>1, <2>2, LengthsOf DEF JobSound, Observes, Executing
  <2> DEFINE S == [enabled : BOOLEAN, required : BOOLEAN, delegates : BOOLEAN, answers : SUBSET Answers]
  <2>4. Suite[case[j]] \in S
    <3>1. Suite \in Seq(S)
      BY EvalsAssumption
    <3> HIDE DEF S
    <3> QED
      BY <2>3, <3>1
  <2> QED
    BY <2>4 DEF Current
<1>6. outcome' = outcome \/ \E how \in Outcomes : outcome' = [outcome EXCEPT ![j] = how]
  BY <1>5 DEF Execute, Seed, Turn, Diagnose, JudgeCase, Again, Over
<1>7. outcome' \in [Jobs -> Outcomes]
  BY <1>6, TypesOf
<1>8. child' \in [Jobs -> {"none", "runs", "exited"}]
  BY <1>1, TypesOf
<1> QED
  BY <1>1, <1>4, <1>7, <1>8, Unmoved

LEMMA PassesSound ==
  ASSUME EvalsInv,
         \/ \E j \in Jobs : ChildExits(j) \/ DeadlinePasses(j)
         \/ RestartProcess
         \/ UNCHANGED evalsVars
  PROVE  EvalsInv'
<1>1. UNCHANGED <<job, at, ask, base, case, observed, work, outcome, store>>
  BY DEF ChildExits, DeadlinePasses, RestartProcess, evalsVars, execution, store
<1>2. child' = child \/ \E j \in Jobs : child' = [child EXCEPT ![j] = "exited"]
  BY DEF ChildExits, DeadlinePasses, RestartProcess, evalsVars, execution
<1>3. /\ child' \in [Jobs -> {"none", "runs", "exited"}]
      /\ work' \in [Jobs -> {"none", "seed", "turn", "diagnose", "judge", "again", "over"}]
      /\ outcome' \in [Jobs -> {"none", "http error", "error"} \union Answers]
  BY <1>1, <1>2, TypesOf
<1> QED
  BY <1>1, <1>3, Unmoved

\* The process stops: the threads are gone, what is stored stays.
LEMMA CrashSound ==
  ASSUME EvalsInv, Crash
  PROVE  EvalsInv'
<1>1. /\ job' = [i \in Jobs |-> IF job[i] = "none" THEN "none" ELSE "lost"]
      /\ at' = [i \in Jobs |-> "none"] /\ case' = [i \in Jobs |-> 0]
      /\ observed' = [i \in Jobs |-> <<>>] /\ work' = [i \in Jobs |-> "none"]
      /\ outcome' = [i \in Jobs |-> "none"] /\ child' = [i \in Jobs |-> "none"]
      /\ ask' = [i \in Jobs |-> NoAsk] /\ base' = [i \in Jobs |-> "none"]
      /\ UNCHANGED <<runs, results, named>>
  BY DEF Crash, store
<1>2. EvalTypes'
  <2>1. at' \in [Jobs -> EvalSteps] /\ job' \in [Jobs -> {"none", "queued", "running", "lost", "gone"} \union Ended]
    BY <1>1 DEF EvalSteps
  <2>2. Len(Suite) \in Nat
    BY TypesOf
  <2>3. case' \in [Jobs -> 0 .. Len(Suite) + 1]
    BY <1>1, <2>2
  <2>4. observed' \in [Jobs -> Seq([of : Nat, is : Answers \union {"blocked"}])]
    BY <1>1
  <2>5. ask' = [i \in Jobs |-> ask'[i]] /\ base' \in [Jobs -> Jobs \union {"none"}]
    BY <1>1
  <2>6. /\ work' \in [Jobs -> {"none", "seed", "turn", "diagnose", "judge", "again", "over"}]
        /\ outcome' \in [Jobs -> {"none", "http error", "error"} \union Answers]
        /\ child' \in [Jobs -> {"none", "runs", "exited"}]
    BY <1>1
  <2> QED
    BY <1>1, <2>1, <2>3, <2>4, <2>5, <2>6 DEF EvalsInv, EvalTypes, TypeOK
<1>3. \A i \in Jobs : Stored(i)' = Stored(i)
  BY <1>1 DEF Stored
<1>4. ASSUME NEW i \in Jobs PROVE JobSound(i)' /\ Based(i)'
  <2>1. JobSound(i)
    BY DEF EvalsInv
  <2>2. at'[i] = "none" /\ observed'[i] = <<>> /\ work'[i] = "none"
        /\ (job'[i] = "none" => job[i] = "none")
    BY <1>1
  <2>3. 1 .. Len(observed'[i]) = {}
    BY <2>2
  <2>4. Untouched(i)' /\ Observes(i)' /\ Executes(i)' /\ Based(i)'
    BY <1>1, <1>3, <2>1, <2>2, <2>3 DEF JobSound, Untouched, Observes, Executes, Based,
                Early, Executing, Grading
  <2>5. Stores(i)'
    BY <1>1, <1>3, <2>1, <2>2 DEF JobSound, Stores, Whole, Early, Executing, Grading, Settled
  <2> QED
    BY <2>4, <2>5 DEF JobSound
<1> QED
  BY <1>1, <1>2, <1>4 DEF EvalsInv, BaselinesPassed

LEMMA EvalsNextSound ==
  ASSUME EvalsInv, [EvalsNext]_evalsVars
  PROVE  EvalsInv'
<1>1. CASE \E j \in Jobs : \E a \in Asked[j] : Create(j, a)
  BY <1>1, CreateSound
<1>2. CASE \E j \in Jobs : Advance(j)
  <2> SUFFICES ASSUME NEW j \in Jobs, Advance(j) PROVE EvalsInv'
    BY <1>2
  <2>1. CASE Start(j) \/ ResolveBaseline(j) \/ RecordBlocked(j)
    BY <2>1, BeforeSound, RecordBlockedSound
  <2>2. CASE NextCase(j) \/ GiveUp(j)
    BY <2>2, NextCaseSound, GiveUpSound
  <2>3. CASE InThread(j) \/ TakeResult(j) \/ Drain(j) \/ Kill(j)
    BY <2>3, CaseOverSound
  <2>4. CASE RecordStart(j) \/ GradeCases(j) \/ StoreResult(j) \/ Finish(j)
    BY <2>4, RecordStartSound, GradeCasesSound, StoreResultSound, FinishSound
  <2>5. CASE Compare(j) \/ WriteLatest(j) \/ WriteNamed(j)
    BY <2>5, CompareSound, WriteSound
  <2>6. CASE CompareWithNothing(j) \/ EndJob(j)
    BY <2>6, OverSound
  <2> QED
    BY <2>1, <2>2, <2>3, <2>4, <2>5, <2>6 DEF Advance
<1>3. CASE \E j \in Jobs : Execute(j)
  BY <1>3, ExecuteSound
<1>4. CASE \E j \in Jobs : Fail(j)
  BY <1>4, OverSound
<1>5. CASE Crash
  BY <1>5, CrashSound
<1>6. CASE (\E j \in Jobs : ChildExits(j) \/ DeadlinePasses(j)) \/ RestartProcess \/ UNCHANGED evalsVars
  BY <1>6, PassesSound
<1> QED
  BY <1>1, <1>2, <1>3, <1>4, <1>5, <1>6 DEF EvalsNext

\* What other jobs read of a run that is over can be relied on, whichever
\* child hung, died or was late, whichever step failed and wherever the
\* process stopped: there is a result from the observation of every enabled
\* case and no other, graded as the case at the place of the observation, the
\* status is that of the results, and a baseline has passed (evals/service.py,
\* evals/store.py).
THEOREM HistoryCanBeRead == EvalsSpec => []HistoryIsSound
<1>1. EvalsInit => EvalsInv
  BY StartEvals
<1>2. EvalsInv /\ [EvalsNext]_evalsVars => EvalsInv'
  BY EvalsNextSound
<1>3. EvalsInv => HistoryIsSound
  <2> SUFFICES ASSUME EvalsInv PROVE HistoryIsSound
    OBVIOUS
  <2>1. \A j \in Recent : Whole(j)
    BY DEF EvalsInv, JobSound, Stores, Recent
  <2>2. BaselineHasPassed
    BY DEF EvalsInv, BaselinesPassed, Based, BaselineHasPassed
  <2> QED
    BY <2>1, <2>2 DEF HistoryIsSound, FinishedRunIsWhole, Whole
<1> QED
  BY <1>1, <1>2, <1>3, PTL DEF EvalsSpec

-----------------------------------------------------------------------------
(***************************************************************************)
(* The places of the chart calculator.                                     *)
(***************************************************************************)

UnderWay == {"spawn", "poll", "kill", "reap", "decode", "keep"}

BridgeShapes ==
  /\ stage \in UnderWay \union {"idle", "lookup"}
  /\ stage # "idle" => request \in Requests
  /\ key \in BOOLEAN
  /\ places \in [Places -> {"unknown", "resolved", "refused"}]
  /\ answered \in [Places -> {0, 1}]

\* The child has the key only for a place nothing is known of, what is kept
\* was written whole by a child that is gone, and a place that was answered
\* is known.
BridgeInv ==
  /\ BridgeShapes
  /\ stage \in UnderWay /\ key => PlaceOf[request] \in Places /\ places[PlaceOf[request]] = "unknown"
  /\ stage = "keep" => node = "none" /\ output \in {"good", "place error", "other error"}
  /\ \A p \in Places : places[p] = "unknown" => answered[p] = 0

LEMMA StartBridge == BridgeInit => BridgeInv
BY DEF BridgeInit, BridgeInv, BridgeShapes, UnderWay

LEMMA KeepPlaces ==
  ASSUME BridgeInv, Keep
  PROVE  BridgeInv'
<1>1. /\ stage = "keep" /\ stage' = "idle" /\ request \in Requests
      /\ output \in {"good", "place error", "other error"}
      /\ PlaceOf[request] \in Places \union {"none"} /\ UNCHANGED <<request, key>>
  BY BridgeAssumption DEF BridgeInv, BridgeShapes, Keep, EndCall
<1> DEFINE p == PlaceOf[request]
<1>2. CASE key /\ output # "other error"
  <2>1. p \in Places /\ places[p] = "unknown" /\ p # "none"
    BY <1>1, <1>2, BridgeAssumption DEF BridgeInv, UnderWay
  <2>2. /\ places' = [places EXCEPT ![p] = KeptPlace] /\ KeptPlace \in {"resolved", "refused"}
        /\ answered' = [answered EXCEPT ![p] = answered[p] + 1]
    BY <1>1, <1>2, <2>1 DEF Keep, Fresh, HasPlace, Place, KeptPlace
  <2>3. answered[p] + 1 = 1
    <3>1. answered[p] = 0
      BY <2>1 DEF BridgeInv
    <3> QED
      BY <3>1
  <2> HIDE DEF p
  <2>4. BridgeShapes' /\ \A q \in Places : places'[q] = "unknown" => answered'[q] = 0
    <3>1. answered' = [answered EXCEPT ![p] = 1]
      BY <2>2, <2>3
    <3> QED
      BY <1>1, <2>1, <2>2, <3>1 DEF BridgeInv, BridgeShapes
  <2> QED
    BY <1>1, <2>4 DEF BridgeInv, UnderWay
<1>3. CASE ~(key /\ output # "other error")
  <2>1. answered' = answered
    BY <1>3 DEF Keep
  <2>2. KeptPlace \in {"unknown", "resolved", "refused"}
    BY DEF KeptPlace
  <2>3. places' = places \/ (p \in Places /\ places[p] = "unknown" /\ places' = [places EXCEPT ![p] = KeptPlace])
    BY <1>1, BridgeAssumption DEF Keep, Fresh, HasPlace, Place
  <2> HIDE DEF p, KeptPlace
  <2>4. BridgeShapes' /\ \A q \in Places : places[q] # "unknown" => places'[q] # "unknown"
    BY <1>1, <2>1, <2>2, <2>3 DEF BridgeInv, BridgeShapes
  <2>5. \A q \in Places : places'[q] = "unknown" => answered'[q] = 0
    BY <2>1, <2>4 DEF BridgeInv, BridgeShapes
  <2> QED
    BY <1>1, <2>4, <2>5 DEF BridgeInv, UnderWay
<1> QED
  BY <1>2, <1>3

LEMMA BridgeStep == BridgeInv /\ [BridgeNext]_bridgeVars => BridgeInv'
<1> SUFFICES ASSUME BridgeInv, [BridgeNext]_bridgeVars PROVE BridgeInv'
  OBVIOUS
<1> USE DEF BridgeInv, BridgeShapes, UnderWay
<1>1. ASSUME NEW r \in Requests, Call(r) PROVE BridgeInv'
  BY <1>1 DEF Call, EndCall
<1>2. CASE Lookup
  BY <1>2, BridgeAssumption DEF Lookup, EndCall, HasPlace, Place
<1>3. CASE Spawn
  BY <1>3 DEF Spawn, EndCall
<1>4. CASE NodeWrites \/ NodeExits
  <2>1. stage' = stage /\ stage # "keep" /\ UNCHANGED <<request, key, places, answered>>
    BY <1>4 DEF NodeWrites, NodeExits
  <2> QED
    BY <2>1
<1>5. CASE StopWaiting \/ SeeExit \/ KillNode
  <2>1. /\ stage \in UnderWay /\ stage' \in UnderWay \ {"keep"}
        /\ UNCHANGED <<request, key, places, answered>>
    BY <1>5 DEF StopWaiting, SeeExit, KillNode
  <2> QED
    BY <2>1
<1>6. CASE Reap
  BY <1>6 DEF Reap, EndCall
<1>7. CASE Decode
  BY <1>7 DEF Decode, EndCall
<1>8. CASE UNCHANGED bridgeVars
  BY <1>8 DEF bridgeVars
<1> QED
  BY <1>1, <1>2, <1>3, <1>4, <1>5, <1>6, <1>7, <1>8, KeepPlaces DEF BridgeNext

\* Whatever charts a run draws, the provider's answer about a place is wanted
\* once (the place cache of invoke).
THEOREM PlacesResolvedOnce == BridgeSpec => []PlaceResolvedOnce
<1>1. BridgeInv => PlaceResolvedOnce
  <2>1. BridgeInv => \A p \in Places : answered[p] = 0 \/ answered[p] = 1
    BY DEF BridgeInv, BridgeShapes
  <2> QED
    BY <2>1 DEF PlaceResolvedOnce
<1> QED
  BY <1>1, StartBridge, BridgeStep, PTL DEF BridgeSpec
-----------------------------------------------------------------------------
(***************************************************************************)
(* Corpus releases.                                                        *)
(***************************************************************************)

\* A source a publication has behind it.
SourceDone(s) == row[s] = "new" /\ chunks[s] # "none" /\ s \in embedded

ReleaseShapes ==
    /\ row \in [Source -> {"none", "old", "new"}]
    /\ chunks \in [Source -> {"none", "old", "new"}]
    /\ embedded \subseteq Source
    /\ plan \in [Source -> {"none", "create", "update", "unchanged"}]
    /\ next \in Nat

\* Sources that are behind the publication are finished, the one it is at has
\* what the step needs, and nothing is done after the report.
Progress ==
    /\ reported => step = "idle" /\ \A s \in Source : SourceDone(s)
    /\ step # "idle" => \A s \in Source : s < next => SourceDone(s)
    /\ step \in {"chunks", "embed"} => next \in Source /\ row[next] = "new"
    /\ step = "embed" => chunks[next] # "none"
    /\ step # "idle" => \A s \in Source : plan[s] = "unchanged" => row[s] = "new"

ReleaseInv == ReleaseShapes /\ Progress

LEMMA StartRelease == CorpusInit => ReleaseInv
BY DEF CorpusInit, ReleaseInv, ReleaseShapes, Progress

\* Steps that write nothing.
LEMMA WalkSound ==
    ASSUME ReleaseInv, Plan \/ Skip \/ Reindex \/ Abort \/ ReportRelease \/ DropVectors
    PROVE  ReleaseInv'
<1>1. ReleaseShapes /\ Progress
  BY DEF ReleaseInv
<1>2. CASE Plan
  <2>1. /\ \A s \in Source : Action(s) \in {"create", "update", "unchanged"}
        /\ \A s \in Source : Action(s) = "unchanged" => row[s] = "new"
    BY DEF Action
  <2>2. ReleaseShapes'
    BY <1>1, <1>2, <2>1 DEF Plan, ReleaseShapes
  <2>3. Progress'
    BY <1>1, <1>2, <2>1 DEF Plan, Progress, ReleaseShapes, Source
  <2> QED
    BY <2>2, <2>3 DEF ReleaseInv
<1>3. CASE Skip
  <2>1. SourceDone(next) /\ next \in Source /\ step = "source" /\ ~reported
    BY <1>1, <1>3 DEF Skip, Progress, SourceDone, EmbeddingsCurrent
  <2>2. \A s \in Source : s < next + 1 => s < next \/ s = next
    BY <1>1 DEF Source, ReleaseShapes
  <2>3. ReleaseShapes'
    BY <1>1, <1>3 DEF Skip, ReleaseShapes
  <2>4. Progress'
    BY <1>1, <1>3, <2>1, <2>2 DEF Skip, Progress, SourceDone
  <2> QED
    BY <2>3, <2>4 DEF ReleaseInv
<1>4. CASE Reindex
  <2>1. ReleaseShapes'
    BY <1>1, <1>4 DEF Reindex, ReleaseShapes
  <2>2. Progress'
    BY <1>1, <1>4 DEF Reindex, Progress, SourceDone
  <2> QED
    BY <2>1, <2>2 DEF ReleaseInv
<1>5. CASE Abort
  BY <1>1, <1>5 DEF Abort, ReleaseInv, ReleaseShapes, Progress, SourceDone
<1>6. CASE ReportRelease
  <2>1. \A s \in Source : s < next
    BY <1>1, <1>6, CorpusAssumption DEF ReportRelease, Source, ReleaseShapes
  <2> QED
    BY <1>1, <1>6, <2>1 DEF ReportRelease, ReleaseInv, ReleaseShapes, Progress, SourceDone
<1>7. CASE DropVectors
  BY <1>1, <1>7 DEF DropVectors, ReleaseInv, ReleaseShapes, Progress
<1> QED
  BY <1>2, <1>3, <1>4, <1>5, <1>6, <1>7

\* Steps that write the source the publication is at: those behind it stay.
LEMMA CorpusWriteSound ==
    ASSUME ReleaseInv, WriteSource \/ WriteChunks \/ EmbedSource
    PROVE  ReleaseInv'
<1>1. ReleaseShapes /\ Progress /\ step # "idle" /\ ~reported /\ ~reported'
  BY DEF ReleaseInv, Progress, WriteSource, WriteChunks, EmbedSource
<1>2. next \in Source /\ next \in Int /\ \A s \in Source : s < next => s # next
  BY <1>1 DEF Progress, WriteSource, WriteChunks, EmbedSource, ReleaseShapes
<1>3. CASE WriteSource
  <2>1. ReleaseShapes'
    BY <1>1, <1>2, <1>3 DEF WriteSource, ReleaseShapes
  <2>2. \A s \in Source : s < next => SourceDone(s)'
    BY <1>1, <1>2, <1>3 DEF WriteSource, Progress, SourceDone, ReleaseShapes
  <2>3. row'[next] = "new" /\ \A s \in Source : row[s] = "new" => row'[s] = "new"
    BY <1>1, <1>2, <1>3 DEF WriteSource, ReleaseShapes
  <2>4. Progress'
    BY <1>1, <1>2, <1>3, <2>2, <2>3 DEF WriteSource, Progress
  <2> QED
    BY <2>1, <2>4 DEF ReleaseInv
<1>4. CASE WriteChunks
  <2>1. ReleaseShapes'
    BY <1>1, <1>2, <1>4 DEF WriteChunks, ReleaseShapes
  <2>2. \A s \in Source : s < next => SourceDone(s)'
    BY <1>1, <1>2, <1>4 DEF WriteChunks, Progress, SourceDone, ReleaseShapes
  <2>3. chunks'[next] = "new"
    BY <1>1, <1>2, <1>4 DEF WriteChunks, ReleaseShapes
  <2>4. Progress'
    BY <1>1, <1>2, <1>4, <2>2, <2>3 DEF WriteChunks, Progress
  <2> QED
    BY <2>1, <2>4 DEF ReleaseInv
<1>5. CASE EmbedSource
  <2>1. ReleaseShapes'
    BY <1>1, <1>2, <1>5 DEF EmbedSource, ReleaseShapes
  <2>2. \A s \in Source : s < next + 1 => s < next \/ s = next
    BY <1>1 DEF Source, ReleaseShapes
  <2>3. \A s \in Source : s < next + 1 => SourceDone(s)'
    BY <1>1, <1>2, <1>5, <2>2 DEF EmbedSource, Progress, SourceDone
  <2>4. Progress'
    BY <1>1, <1>5, <2>3 DEF EmbedSource, Progress
  <2> QED
    BY <2>1, <2>4 DEF ReleaseInv
<1> QED
  BY <1>3, <1>4, <1>5

\* A publication that says it is done leaves every source of its manifest
\* searchable, however many were cut short before (publish_corpus_release).
THEOREM ReleasesAreSearchable == CorpusSpec => []ReleasedIsSearchable
<1>1. ReleaseInv /\ [CorpusNext]_corpusVars => ReleaseInv'
  <2> SUFFICES ASSUME ReleaseInv, [CorpusNext]_corpusVars PROVE ReleaseInv'
    OBVIOUS
  <2>1. CASE CorpusNext
    BY <2>1, WalkSound, CorpusWriteSound DEF CorpusNext
  <2>2. CASE UNCHANGED corpusVars
    BY <2>2 DEF corpusVars, ReleaseInv, ReleaseShapes, Progress, SourceDone
  <2> QED
    BY <2>1, <2>2
<1>2. ReleaseInv => ReleasedIsSearchable
  BY DEF ReleaseInv, Progress, SourceDone, ReleasedIsSearchable
<1> QED
  BY <1>1, <1>2, StartRelease, PTL DEF CorpusSpec

-----------------------------------------------------------------------------
(* Reviews. Who works on triggers holds the dispatcher's lock, and only who  *)
(* holds it changes rows that are there.                                     *)
Holding == {"reconciling", "judging", "saving", "settling", "listing", "dispatching", "spawned"}
Judging == {"judging", "saving", "settling"}

\* No two active rows about the same, no two rows of one task.
TriggersSound ==
  /\ \A t, u \in Triggers :
       /\ t # u /\ rows[t].status \in Active /\ rows[u].status \in Active => rows[t].about # rows[u].about
       /\ t # u /\ rows[t].task = rows[u].task => rows[t].task = "none"
  /\ \A t \in Triggers : rows[t].status \in {"pending", "absent"} => rows[t].task = "none"

\* A task that was spawned is of a trigger; one that was not is nobody's.
TasksSound ==
  \A k \in Tasks :
    /\ tasks[k].status \in Inflight \union EndedTask => tasks[k].of \in Triggers
    /\ tasks[k].status \in Inflight \union {"absent"} => ~tasks[k].told
    /\ tasks[k].status = "absent" =>
         tasks[k].of = "none" /\ applied[k] = 0 /\ \A t \in Triggers : rows[t].task # k

\* What the thread in the lock has read of the rows still holds.
ThreadKnows(p) ==
  LET th == thread[p] IN
  /\ th.at \in Holding => lock = p
  /\ p \in Tasks =>
       /\ th.at \in {"idle", "waiting"} \union Judging /\ th.todo = {}
       /\ th.at # "idle" => tasks[p].told
  /\ th.at \in Judging \union {"reconciling"} => \A t \in th.todo : rows[t].status \in Inflight
  /\ th.at \in {"dispatching", "spawned"} => \A t \in th.todo : rows[t].status = "pending"
  /\ th.at \in Judging \union {"spawned"} \/ (p \in Tasks /\ th.at = "waiting") =>
       th.on \in Triggers /\ th.task \in Tasks /\ th.on \notin th.todo
  /\ th.at \in {"saving", "settling"} =>
       /\ rows[th.on].task = th.task /\ rows[th.on].status \in Inflight
       /\ tasks[th.task].status = "succeeded"
  /\ th.at = "spawned" =>
       /\ rows[th.on].status = "pending"
       /\ tasks[th.task].status # "absent" /\ applied[th.task] = 0
       /\ \A t \in Triggers : rows[t].task # th.task

TasksOf(t) == {k \in Tasks : tasks[k].of = t}
Spawning(t) == \E p \in Threads : thread[p].at = "spawned" /\ thread[p].on = t
Saving(k) == \E p \in Threads : thread[p].at = "settling" /\ thread[p].task = k

\* A pending trigger has one review less than it may have, unless the next one
\* is just being written down; and so have the savings of a review whose
\* trigger is not settled yet.
OneReview(t) ==
  /\ IsFiniteSet(TasksOf(t)) /\ Cardinality(TasksOf(t)) <= 1 + faults
  /\ rows[t].status = "absent" => TasksOf(t) = {}
  /\ rows[t].status = "pending" /\ ~Spawning(t) => Cardinality(TasksOf(t)) <= faults
OneSaving(k) ==
  /\ applied[k] <= 1 + faults
  /\ tasks[k].status # "gone" /\ ~Saving(k)
       /\ (\E t \in Triggers : rows[t].task = k /\ rows[t].status \in Inflight)
     => applied[k] <= faults

ReviewInv ==
  /\ ReviewTypeOK /\ TriggersSound /\ TasksSound
  /\ \A p \in Threads : ThreadKnows(p)
  /\ \A t \in Triggers : OneReview(t)
  /\ \A k \in Tasks : OneSaving(k)

\* Who does not hold the lock is idle or waiting for it, and what it has to know
\* for that does not change.
LEMMA OutsideSound ==
  ASSUME NEW p \in Threads, ThreadKnows(p), lock # p, thread'[p] = thread[p],
         p \in Tasks /\ tasks[p].told => tasks'[p].told
  PROVE  ThreadKnows(p)'
BY DEF ThreadKnows, Holding, Judging

\* A row that stays active, or is not active any more, removes no other.
LEMMA SaveOne ==
  ASSUME ReviewInv, NEW t \in Triggers, NEW rec, Save(t, rec),
         \/ rec.status \notin Active
         \/ Clash(t, rec.about) = {}
         \/ rec.about = rows[t].about /\ rows[t].status \in Active
  PROVE  rows' = [rows EXCEPT ![t] = rec]
<1>1. rec.status \in Active => Clash(t, rec.about) = {}
  BY DEF ReviewInv, TriggersSound, Clash
<1>2. rows = [u \in Triggers |-> rows[u]]
  BY DEF ReviewInv, ReviewTypeOK
<1> QED
  BY <1>1, <1>2 DEF Save, Saved

\* Most steps spawn nothing and leave no trigger.
LEMMA ReviewsCounted ==
  ASSUME ReviewInv, NEW t \in Triggers, faults' = faults,
         \A k \in Tasks : tasks'[k].of = tasks[k].of,
         rows'[t].status \in {"pending", "absent"} => rows'[t].status = rows[t].status,
         Spawning(t) => Spawning(t)' \/ rows'[t].status # "pending"
  PROVE  OneReview(t)'
<1>1. TasksOf(t)' = TasksOf(t)
  BY DEF TasksOf
<1>2. OneReview(t)
  BY DEF ReviewInv
<1> QED
  BY <1>1, <1>2 DEF OneReview

\* Most save nothing and give no task a trigger.
LEMMA SavingsCounted ==
  ASSUME ReviewInv, NEW k \in Tasks, faults' = faults, applied'[k] = applied[k],
         tasks[k].status = "gone" => tasks'[k].status = "gone",
         \A t \in Triggers : rows'[t].task = k /\ rows'[t].status \in Inflight =>
             rows[t].task = k /\ rows[t].status \in Inflight /\ (Saving(k) => Saving(k)')
  PROVE  OneSaving(k)'
<1>1. OneSaving(k)
  BY DEF ReviewInv
<1> QED
  BY <1>1 DEF OneSaving

\* A step of the thread in the lock, or one that enters it: the others are
\* outside.
LEMMA LockedSound ==
  ASSUME ReviewInv, NEW p \in Threads, lock \in {p, "free"},
         \A q \in Threads \ {p} : thread'[q] = thread[q],
         \A k \in Tasks : tasks[k].told => tasks'[k].told,
         ReviewTypeOK', TriggersSound', TasksSound', ThreadKnows(p)',
         \A t \in Triggers : OneReview(t)', \A k \in Tasks : OneSaving(k)'
  PROVE  ReviewInv'
<1>1. ASSUME NEW q \in Threads PROVE ThreadKnows(q)'
  <2>1. CASE q = p
    BY <2>1
  <2>2. CASE q # p
    <3>1. lock # q
      BY <2>2, ReviewAssumption DEF Threads
    <3> QED
      BY <2>2, <3>1, OutsideSound DEF ReviewInv
  <2> QED
    BY <2>1, <2>2
<1> QED
  BY <1>1 DEF ReviewInv

\* Of those steps, one that changes threads only.
LEMMA ThreadsOnlySound ==
  ASSUME ReviewInv, NEW p \in Threads, lock \in {p, "free"},
         \A q \in Threads \ {p} : thread'[q] = thread[q],
         UNCHANGED <<rows, tasks, lost, applied, faults, restarts>>,
         ReviewTypeOK', ThreadKnows(p)',
         thread[p].at \notin {"spawned", "settling"}
  PROVE  ReviewInv'
<1>1. TriggersSound' /\ TasksSound'
  BY DEF ReviewInv, TriggersSound, TasksSound
<1>2. ASSUME NEW t \in Triggers PROVE OneReview(t)'
  <2>1. Spawning(t) => Spawning(t)'
    BY DEF Spawning
  <2> QED
    BY <2>1, ReviewsCounted
<1>3. ASSUME NEW k \in Tasks PROVE OneSaving(k)'
  <2>1. Saving(k) => Saving(k)'
    BY DEF Saving
  <2> QED
    BY <2>1, SavingsCounted
<1> QED
  BY <1>1, <1>2, <1>3, LockedSound

-----------------------------------------------------------------------------
(* Steps outside of the lock.                                              *)

\* What a thread knows, when others only add rows and tell of tasks.
LEMMA StaysSound ==
  ASSUME ReviewTypeOK, NEW p \in Threads, ThreadKnows(p), thread'[p] = thread[p], UNCHANGED <<lock, applied>>,
         \A t \in Triggers : rows[t].status # "absent" => rows'[t] = rows[t],
         \A t \in Triggers : rows'[t].task \in {rows[t].task, "none"},
         \A k \in Tasks : /\ tasks[k].status = "succeeded" => tasks'[k].status = "succeeded"
                          /\ tasks[k].status # "absent" => tasks'[k].status # "absent"
                          /\ tasks[k].told => tasks'[k].told
  PROVE  ThreadKnows(p)'
<1>1. \A t \in Triggers : rows[t].status \in Active => rows'[t] = rows[t]
  BY DEF Active
<1>2. \A t \in Triggers, k \in Tasks : rows[t].task # k => rows'[t].task # k
  BY ReviewAssumption
<1> PICK th : th = thread[p]
  OBVIOUS
<1>3. /\ th.at \in Holding => lock = p
      /\ p \in Tasks =>
           /\ th.at \in {"idle", "waiting"} \union Judging /\ th.todo = {}
           /\ th.at # "idle" => tasks'[p].told
  BY DEF ThreadKnows
<1>4. \A t \in Triggers : rows[t].status \in Inflight \union {"pending"} =>
        rows'[t].status = rows[t].status /\ rows'[t].task = rows[t].task
  BY <1>1 DEF Active, Inflight
<1>5. th.todo \subseteq Triggers
  BY DEF ReviewTypeOK
<1>6. /\ th.at \in Judging \union {"reconciling"} => \A t \in th.todo : rows'[t].status \in Inflight
      /\ th.at \in {"dispatching", "spawned"} => \A t \in th.todo : rows'[t].status = "pending"
  <2>1. /\ th.at \in Judging \union {"reconciling"} => \A t \in th.todo : rows[t].status \in Inflight
        /\ th.at \in {"dispatching", "spawned"} => \A t \in th.todo : rows[t].status = "pending"
    BY DEF ThreadKnows
  <2>2. ASSUME NEW t \in th.todo, rows[t].status \in Inflight PROVE rows'[t].status \in Inflight
    BY <1>4, <1>5, <2>2
  <2>3. ASSUME NEW t \in th.todo, rows[t].status = "pending" PROVE rows'[t].status = "pending"
    BY <1>4, <1>5, <2>3
  <2> QED
    BY <2>1, <2>2, <2>3
<1>7. th.at \in Judging \union {"spawned"} \/ (p \in Tasks /\ th.at = "waiting") =>
        th.on \in Triggers /\ th.task \in Tasks /\ th.on \notin th.todo
  BY DEF ThreadKnows
<1>8. th.at \in {"saving", "settling"} =>
       /\ rows'[th.on].task = th.task /\ rows'[th.on].status \in Inflight
       /\ tasks'[th.task].status = "succeeded"
  <2>1. th.at \in {"saving", "settling"} =>
          /\ th.on \in Triggers /\ th.task \in Tasks
          /\ rows[th.on].task = th.task /\ rows[th.on].status \in Inflight
          /\ tasks[th.task].status = "succeeded"
    BY <1>7 DEF ThreadKnows, Judging
  <2>2. \A k \in Tasks : tasks[k].status = "succeeded" => tasks'[k].status = "succeeded"
    OBVIOUS
  <2>3. ASSUME th.at \in {"saving", "settling"} PROVE /\ rows'[th.on].status = rows[th.on].status /\ rows'[th.on].task = rows[th.on].task
            /\ tasks'[th.task].status = "succeeded"
    BY <1>4, <2>1, <2>2, <2>3
  <2> QED
    BY <2>1, <2>3
<1>9. th.at = "spawned" =>
       /\ rows'[th.on].status = "pending"
       /\ tasks'[th.task].status # "absent" /\ applied[th.task] = 0
       /\ \A t \in Triggers : rows'[t].task # th.task
  BY <1>2, <1>4, <1>7 DEF ThreadKnows
<1> QED
  BY <1>3, <1>6, <1>7, <1>8, <1>9 DEF ThreadKnows

LEMMA RunEndsSound ==
  ASSUME ReviewInv, NEW d \in Dispatchers, RunEnds(d)
  PROVE  ReviewInv'
<1>1. /\ d \in Threads /\ thread[d].at = "idle"
      /\ thread' = [thread EXCEPT ![d].at = "waiting"]
      /\ UNCHANGED <<rows, tasks, lock, lost, applied, faults, restarts>>
  BY DEF RunEnds, In, GoesTo, Threads
<1>2. /\ thread'[d].at = "waiting" /\ \A q \in Threads \ {d} : thread'[q] = thread[q]
      /\ ReviewTypeOK'
  BY <1>1 DEF ReviewInv, ReviewTypeOK
<1>3. TriggersSound' /\ TasksSound'
  BY <1>1 DEF ReviewInv, TriggersSound, TasksSound
<1>4. ASSUME NEW q \in Threads PROVE ThreadKnows(q)'
  <2>1. CASE q = d
    BY <1>2, <2>1, ReviewAssumption DEF ThreadKnows, Holding, Judging
  <2>2. CASE q # d
    BY <1>1, <1>2, <2>2, StaysSound DEF ReviewInv
  <2> QED
    BY <2>1, <2>2
<1>5. ASSUME NEW t \in Triggers PROVE OneReview(t)'
  <2>1. Spawning(t) => Spawning(t)'
    BY <1>1, <1>2 DEF Spawning
  <2> QED
    BY <1>1, <2>1, ReviewsCounted
<1>6. ASSUME NEW k \in Tasks PROVE OneSaving(k)'
  <2>1. Saving(k) => Saving(k)'
    BY <1>1, <1>2 DEF Saving
  <2> QED
    BY <1>1, <2>1, SavingsCounted
<1> QED
  BY <1>2, <1>3, <1>4, <1>5, <1>6 DEF ReviewInv

LEMMA TriggerSound ==
  ASSUME ReviewInv, NEW t \in Triggers, NEW about \in Fingerprints, Trigger(t, about)
  PROVE  ReviewInv'
<1> PICK rec : rec = [about |-> about, status |-> "pending", task |-> "none"]
  OBVIOUS
<1>1. /\ rows[t].status = "absent" /\ Clash(t, about) = {} /\ Save(t, rec)
      /\ UNCHANGED <<tasks, lock, thread, lost, applied, faults, restarts>>
  BY DEF Trigger, Inserts
<1>2. rows' = [rows EXCEPT ![t] = rec]
  BY <1>1, SaveOne
<1>3. ReviewTypeOK' /\ rows'[t] = rec /\ \A u \in Triggers \ {t} : rows'[u] = rows[u]
  BY <1>1, <1>2 DEF ReviewInv, ReviewTypeOK, Active
<1>4. TriggersSound'
  <2>1. \A u \in Triggers \ {t} : rows[u].status \in Active => rows[u].about # about
    BY <1>1 DEF Clash
  <2> QED
    BY <1>3, <2>1 DEF ReviewInv, TriggersSound
<1>5. \A u \in Triggers, k \in Tasks : rows'[u].task = k => rows[u].task = k
  BY <1>3, ReviewAssumption
<1>6. TasksSound'
  BY <1>1, <1>5 DEF ReviewInv, TasksSound
<1>7. ASSUME NEW q \in Threads PROVE ThreadKnows(q)'
  BY <1>1, <1>3, StaysSound DEF ReviewInv
<1>8. ASSUME NEW u \in Triggers PROVE OneReview(u)'
  <2>1. CASE u = t
    <3>1. TasksOf(t)' = {}
      BY <1>1 DEF ReviewInv, OneReview, TasksOf
    <3>2. IsFiniteSet({}) /\ Cardinality({}) = 0
      BY FS_EmptySet
    <3>3. faults' \in Nat
      BY <1>3, ReviewAssumption DEF ReviewTypeOK
    <3>4. Cardinality(TasksOf(t)') <= faults' /\ Cardinality(TasksOf(t)') <= 1 + faults'
      BY ONLY <3>1, <3>2, <3>3
    <3> QED
      BY <2>1, <3>1, <3>2, <3>4 DEF OneReview
  <2>2. CASE u # t
    <3>1. Spawning(u)' = Spawning(u)
      BY <1>1 DEF Spawning
    <3> QED
      BY <1>1, <1>3, <2>2, <3>1, ReviewsCounted
  <2> QED
    BY <2>1, <2>2
<1>9. ASSUME NEW k \in Tasks PROVE OneSaving(k)'
  <2>1. Saving(k)' = Saving(k)
    BY <1>1 DEF Saving
  <2> QED
    <3>1. ASSUME NEW u \in Triggers, rows'[u].task = k PROVE rows'[u] = rows[u]
      <4>1. rows'[t].task # k
        BY <1>3, ReviewAssumption
      <4> QED
        BY <1>3, <3>1, <4>1
    <3> QED
      BY <1>1, <2>1, <3>1, SavingsCounted
<1> QED
  BY <1>3, <1>4, <1>6, <1>7, <1>8, <1>9 DEF ReviewInv

\* A review goes on or ends, and its thread, which was idle, may call back.
LEMMA ReviewGoesOn ==
  ASSUME ReviewInv, NEW k \in Tasks, NEW status \in {"running", "succeeded", "failed"},
         NEW result \in Results, NEW told \in BOOLEAN, Becomes(k, status, result, told),
         \/ tasks[k].status \in Inflight
         \/ tasks[k].status = "succeeded" /\ ~tasks[k].told /\ status = "succeeded",
         status = "running" => ~told,
         UNCHANGED thread \/ (told /\ CallsBack(k))
  PROVE  ReviewInv'
<1> PICK new : new = [tasks[k] EXCEPT !.status = status, !.result = result, !.told = told]
  OBVIOUS
<1>1. /\ tasks[k].status \in Inflight \union EndedTask /\ tasks[k].status \in Inflight \union {"succeeded"}
      /\ tasks[k].of \in Triggers /\ ~tasks[k].told
  BY DEF ReviewInv, TasksSound, EndedTask, Inflight
<1>2. /\ tasks' = [tasks EXCEPT ![k].status = status, ![k].result = result, ![k].told = told]
      /\ UNCHANGED <<rows, lock, lost, applied, faults, restarts>>
  BY DEF Becomes
<1>3. /\ new.of = tasks[k].of /\ new.status = status /\ new.told = told
      /\ tasks'[k] = new /\ \A j \in Tasks \ {k} : tasks'[j] = tasks[j]
      /\ tasks' \in [Tasks -> [of : Triggers \union {"none"},
                               status : Inflight \union EndedTask \union {"absent", "gone"},
                               told : BOOLEAN, result : Results]]
  <2>1. tasks \in [Tasks -> [of : Triggers \union {"none"},
                           status : Inflight \union EndedTask \union {"absent", "gone"},
                           told : BOOLEAN, result : Results]]
    BY DEF ReviewInv, ReviewTypeOK
  <2>2. status \in Inflight \union EndedTask
    BY DEF Inflight, EndedTask
  <2>3. k \in Tasks /\ result \in Results /\ told \in BOOLEAN
    OBVIOUS
  <2>4. tasks' = [tasks EXCEPT ![k].status = status, ![k].result = result, ![k].told = told]
    BY <1>2
  <2>5. /\ tasks'[k] = [tasks[k] EXCEPT !.status = status, !.result = result, !.told = told]
        /\ \A j \in Tasks \ {k} : tasks'[j] = tasks[j]
    BY ONLY <2>1, <2>3, <2>4
  <2>6. tasks[k] \in [of : Triggers \union {"none"}, status : Inflight \union EndedTask \union {"absent", "gone"},
                     told : BOOLEAN, result : Results]
    BY ONLY <2>1, <2>3
  <2>8. new \in [of : Triggers \union {"none"}, status : Inflight \union EndedTask \union {"absent", "gone"},
                told : BOOLEAN, result : Results]
    BY ONLY <2>2, <2>3, <2>6, new = [tasks[k] EXCEPT !.status = status, !.result = result, !.told = told]
  <2>9. new.of = tasks[k].of /\ new.status = status /\ new.told = told
    BY ONLY <2>6, new = [tasks[k] EXCEPT !.status = status, !.result = result, !.told = told]
  <2>10. tasks' \in [Tasks -> [of : Triggers \union {"none"}, status : Inflight \union EndedTask \union {"absent", "gone"},
                             told : BOOLEAN, result : Results]]
    BY ONLY <2>1, <2>3, <2>4, <2>5, <2>8, new = [tasks[k] EXCEPT !.status = status, !.result = result, !.told = told]
  <2> QED
    BY <2>5, <2>9, <2>10
<1>4. k \in Threads /\ thread[k].at = "idle"
  BY <1>1 DEF ReviewInv, ThreadKnows, Threads
<1>5. /\ \A q \in Threads \ {k} : thread'[q] = thread[q]
      /\ \/ thread'[k] = thread[k]
         \/ told /\ thread'[k] = [Idle EXCEPT !.at = "waiting", !.on = tasks[k].of, !.task = k]
      /\ thread'[k].at \in {"idle", "waiting"}
      /\ ReviewTypeOK'
  <2>1. CASE UNCHANGED thread
    BY <1>2, <1>3, <1>4, <2>1 DEF ReviewInv, ReviewTypeOK
  <2>2. CASE told /\ CallsBack(k)
    BY <1>1, <1>2, <1>3, <1>4, <2>2 DEF ReviewInv, ReviewTypeOK, CallsBack, Idle
  <2> QED
    BY <2>1, <2>2
<1>6. TriggersSound'
  BY <1>2 DEF ReviewInv, TriggersSound
<1>7. TasksSound'
  <2>1. tasks'[k].status \in Inflight => ~tasks'[k].told
    BY <1>3 DEF Inflight
  <2> QED
    BY <1>1, <1>2, <1>3, <2>1 DEF ReviewInv, TasksSound
<1>8. ASSUME NEW q \in Threads PROVE ThreadKnows(q)'
  <2>1. CASE q # k \/ thread'[k] = thread[k]
    <3>1. \A j \in Tasks : /\ tasks[j].status = "succeeded" => tasks'[j].status = "succeeded"
                           /\ tasks[j].status # "absent" => tasks'[j].status # "absent"
                           /\ tasks[j].told => tasks'[j].told
      BY <1>1, <1>3 DEF Inflight
    <3> QED
      BY <1>2, <1>5, <2>1, <3>1, StaysSound DEF ReviewInv
  <2>2. CASE q = k /\ told /\ thread'[k] = [Idle EXCEPT !.at = "waiting", !.on = tasks[k].of, !.task = k]
    BY <1>1, <1>3, <2>2 DEF ThreadKnows, Holding, Judging, Idle
  <2> QED
    BY <1>5, <2>1, <2>2
<1>9. ASSUME NEW t \in Triggers PROVE OneReview(t)'
  <2>1. Spawning(t) => Spawning(t)'
    BY <1>4, <1>5 DEF Spawning
  <2> QED
    BY <1>2, <1>3, <2>1, ReviewsCounted
<1>10. ASSUME NEW j \in Tasks PROVE OneSaving(j)'
  <2>1. Saving(j) => Saving(j)'
    BY <1>4, <1>5 DEF Saving
  <2>2. tasks[j].status = "gone" => tasks'[j].status = "gone"
    BY <1>1, <1>3 DEF Inflight
  <2> QED
    BY <1>2, <2>1, <2>2, SavingsCounted
<1> QED
  BY <1>5, <1>6, <1>7, <1>8, <1>9, <1>10 DEF ReviewInv

-----------------------------------------------------------------------------
(* Steps of the thread in the lock that change no row and no task.         *)
ThreadRecords ==
  [at : {"idle", "waiting", "reconciling", "judging", "saving", "settling",
         "listing", "dispatching", "spawned"},
   todo : SUBSET Triggers, on : Triggers \union {"none"}, task : Tasks \union {"none"}]

LEMMA ThreadsSet ==
  ASSUME thread \in [Threads -> ThreadRecords], NEW p \in Threads,
         NEW r \in ThreadRecords, thread' = [thread EXCEPT ![p] = r]
  PROVE  /\ thread' \in [Threads -> ThreadRecords]
         /\ thread'[p] = r /\ \A q \in Threads \ {p} : thread'[q] = thread[q]
OBVIOUS

\* The judge is done: a dispatcher goes on with its list, a callback is over.
LEMMA DoneSound ==
  ASSUME ReviewInv, NEW p \in Threads, thread[p].at \in Judging, Done(p),
         \A t \in thread[p].todo : rows'[t].status \in Inflight
  PROVE  /\ thread' \in [Threads -> ThreadRecords]
         /\ \A q \in Threads \ {p} : thread'[q] = thread[q]
         /\ thread'[p].at \in {"idle", "reconciling"}
         /\ lock' \in Threads \union {"free"} /\ ThreadKnows(p)'
<1>1. /\ thread \in [Threads -> ThreadRecords] /\ lock = p /\ thread[p].todo \subseteq Triggers
      /\ "none" \notin Triggers
  BY ReviewAssumption DEF ReviewInv, ReviewTypeOK, ThreadRecords, ThreadKnows, Judging, Holding
<1>2. CASE p \in Dispatchers
  <2> PICK r : r = [at |-> "reconciling", todo |-> thread[p].todo \ {"none"}, task |-> "none", on |-> "none"]
    OBVIOUS
  <2>1. thread' = [thread EXCEPT ![p] = r] /\ lock' = p
    BY <1>1, <1>2 DEF Done, Takes
  <2>2. r \in ThreadRecords /\ r.todo = thread[p].todo /\ r.at = "reconciling"
    BY <1>1 DEF ThreadRecords
  <2>3. /\ thread' \in [Threads -> ThreadRecords]
        /\ thread'[p] = r /\ \A q \in Threads \ {p} : thread'[q] = thread[q]
    BY <1>1, <2>1, <2>2, ThreadsSet
  <2>4. ThreadKnows(p)'
    BY <1>2, <2>1, <2>2, <2>3, ReviewAssumption DEF ThreadKnows, Judging
  <2> QED
    BY <2>1, <2>2, <2>3, <2>4
<1>3. CASE p \notin Dispatchers
  <2>1. thread' = [thread EXCEPT ![p] = Idle] /\ lock' = "free"
    BY <1>3 DEF Done, Leave
  <2>2. Idle \in ThreadRecords /\ Idle.at = "idle" /\ Idle.todo = {}
    BY DEF ThreadRecords, Idle
  <2>3. /\ thread' \in [Threads -> ThreadRecords]
        /\ thread'[p] = Idle /\ \A q \in Threads \ {p} : thread'[q] = thread[q]
    BY <1>1, <2>1, <2>2, ThreadsSet
  <2>4. ThreadKnows(p)'
    BY <2>2, <2>3 DEF ThreadKnows, Judging, Holding
  <2> QED
    BY <2>1, <2>2, <2>3, <2>4
<1> QED
  BY <1>2, <1>3

LEMMA EnterSound ==
  ASSUME ReviewInv, NEW p \in Threads,
         (p \in Dispatchers /\ EnterDispatch(p)) \/ (p \in Tasks /\ EnterCallback(p))
  PROVE  ReviewInv'
<1>1. /\ thread \in [Threads -> ThreadRecords] /\ lock = "free" /\ thread[p].at = "waiting"
      /\ UNCHANGED <<rows, tasks, lost, applied, faults, restarts>>
  BY DEF ReviewInv, ReviewTypeOK, ThreadRecords, EnterDispatch, EnterCallback, Enter, In
<1>2. PICK place \in {"reconciling", "judging"}, todo \in SUBSET Triggers :
         /\ lock' = p /\ thread' = [thread EXCEPT ![p].at = place, ![p].todo = todo]
         /\ \/ p \in Dispatchers /\ place = "reconciling" /\ \A t \in todo : rows[t].status \in Inflight
            \/ p \in Tasks /\ place = "judging" /\ todo = {}
  <2>1. CASE p \in Dispatchers /\ EnterDispatch(p)
    <3>1. {t \in Triggers : rows[t].status \in Inflight} \in SUBSET Triggers
      OBVIOUS
    <3> QED
      BY <2>1, <3>1 DEF EnterDispatch, Enter
  <2>2. CASE p \in Tasks /\ EnterCallback(p)
    BY <2>2 DEF EnterCallback, Enter
  <2> QED
    BY <2>1, <2>2
<1> PICK r : r = [thread[p] EXCEPT !.at = place, !.todo = todo]
  OBVIOUS
<1>3. /\ r \in ThreadRecords /\ r.at = place /\ r.todo = todo /\ r.on = thread[p].on /\ r.task = thread[p].task
      /\ thread' = [thread EXCEPT ![p] = r]
  BY <1>1, <1>2 DEF ThreadRecords
<1>4. /\ thread' \in [Threads -> ThreadRecords]
      /\ thread'[p] = r /\ \A q \in Threads \ {p} : thread'[q] = thread[q]
  BY <1>1, <1>3, ThreadsSet
<1>5. ReviewTypeOK'
  BY <1>1, <1>2, <1>4 DEF ReviewInv, ReviewTypeOK, ThreadRecords
<1>6. ThreadKnows(p)
  BY DEF ReviewInv
<1>7. ThreadKnows(p)'
  BY <1>1, <1>2, <1>3, <1>4, <1>6, ReviewAssumption DEF ThreadKnows, Judging
<1> QED
  BY <1>1, <1>4, <1>5, <1>7, ThreadsOnlySound

LEMMA ListSound ==
  ASSUME ReviewInv, NEW d \in Dispatchers, List(d) \/ LeaveDispatch(d)
  PROVE  ReviewInv'
<1>1. /\ thread \in [Threads -> ThreadRecords] /\ thread[d].at \in {"reconciling", "dispatching"} /\ d \in Threads
      /\ UNCHANGED <<rows, tasks, lost, applied, faults, restarts>>
  BY DEF ReviewInv, ReviewTypeOK, ThreadRecords, List, LeaveDispatch, In, Threads
<1>2. lock = d
  BY <1>1 DEF ReviewInv, ThreadKnows, Holding
<1>3. PICK r \in ThreadRecords :
        /\ thread' = [thread EXCEPT ![d] = r]
        /\ \/ r.at = "dispatching" /\ r.todo = Pending /\ lock' = lock
           \/ r.at = "idle" /\ lock' = "free"
  <2>1. CASE List(d)
    <3>1. [Idle EXCEPT !.at = "dispatching", !.todo = Pending] \in ThreadRecords
      BY DEF Idle, Pending, ThreadRecords
    <3>2. [Idle EXCEPT !.at = "dispatching", !.todo = Pending].at = "dispatching"
          /\ [Idle EXCEPT !.at = "dispatching", !.todo = Pending].todo = Pending
      BY DEF Idle
    <3> QED
      BY <2>1, <3>1, <3>2 DEF List
  <2>2. CASE LeaveDispatch(d)
    <3>1. Idle \in ThreadRecords /\ Idle.at = "idle"
      BY DEF Idle, ThreadRecords
    <3> QED
      BY <2>2, <3>1 DEF LeaveDispatch, Leave
  <2> QED
    BY <2>1, <2>2
<1>4. /\ thread' \in [Threads -> ThreadRecords]
      /\ thread'[d] = r /\ \A q \in Threads \ {d} : thread'[q] = thread[q]
  BY <1>1, <1>3, ThreadsSet
<1>5. ReviewTypeOK'
  BY <1>1, <1>2, <1>3, <1>4 DEF ReviewInv, ReviewTypeOK, ThreadRecords
<1>6. ThreadKnows(d)'
  BY <1>1, <1>2, <1>3, <1>4, ReviewAssumption DEF ThreadKnows, Judging, Holding, Pending
<1> QED
  BY <1>1, <1>2, <1>4, <1>5, <1>6, ThreadsOnlySound

\* A list's next trigger whose task has ended is to be judged.
LEMMA ToJudgeSound ==
  ASSUME ReviewInv, NEW d \in Dispatchers, thread[d].at = "reconciling", NEW t \in thread[d].todo,
         NEW k \in Tasks, Takes(d, "judging", t, k),
         UNCHANGED <<rows, tasks, lock, lost, applied, faults, restarts>>
  PROVE  ReviewInv'
<1>1. /\ thread \in [Threads -> ThreadRecords] /\ d \in Threads /\ t \in Triggers /\ k # "none"
      /\ lock = d /\ \A u \in thread[d].todo : rows[u].status \in Inflight
  BY ReviewAssumption DEF ReviewInv, ReviewTypeOK, ThreadRecords, Threads, ThreadKnows, Holding
<1> PICK r : r = [at |-> "judging", todo |-> thread[d].todo \ {t}, task |-> k, on |-> t]
  OBVIOUS
<1>2. thread' = [thread EXCEPT ![d] = r] /\ r \in ThreadRecords
  BY <1>1 DEF Takes, ThreadRecords
<1>3. /\ thread' \in [Threads -> ThreadRecords]
      /\ thread'[d] = r /\ \A q \in Threads \ {d} : thread'[q] = thread[q]
  BY <1>1, <1>2, ThreadsSet
<1>4. ReviewTypeOK'
  BY <1>3 DEF ReviewInv, ReviewTypeOK, ThreadRecords
<1>5. ThreadKnows(d)'
  BY <1>1, <1>3, ReviewAssumption DEF ThreadKnows, Judging
<1> QED
  BY <1>1, <1>3, <1>4, <1>5, ThreadsOnlySound

-----------------------------------------------------------------------------
(* Steps of the thread in the lock that change a row.                      *)
RowRecords ==
  [about : Fingerprints \union {"none"}, status : Active \union SettledRow \union {"absent"},
   task : Tasks \union {"none"}]

LEMMA RowsSet ==
  ASSUME ReviewTypeOK, NEW t \in Triggers, NEW rec \in RowRecords, rows' = [rows EXCEPT ![t] = rec]
  PROVE  /\ rows' \in [Triggers -> RowRecords]
         /\ rows'[t].about = rec.about /\ rows'[t].status = rec.status /\ rows'[t].task = rec.task
         /\ \A u \in Triggers \ {t} :
              rows'[u].about = rows[u].about /\ rows'[u].status = rows[u].status /\ rows'[u].task = rows[u].task
<1>1. rows \in [Triggers -> RowRecords]
  BY DEF ReviewTypeOK, RowRecords
<1> QED
  BY ONLY <1>1, t \in Triggers, rec \in RowRecords, rows' = [rows EXCEPT ![t] = rec]

\* The status of an active row becomes another one than pending.
LEMMA MarkOne ==
  ASSUME ReviewInv, NEW t \in Triggers, rows[t].status \in Active,
         NEW status \in Inflight \union SettledRow, Mark(t, status)
  PROVE  /\ rows' \in [Triggers -> RowRecords]
         /\ rows'[t].about = rows[t].about /\ rows'[t].status = status /\ rows'[t].task = rows[t].task
         /\ \A u \in Triggers \ {t} :
              rows'[u].about = rows[u].about /\ rows'[u].status = rows[u].status /\ rows'[u].task = rows[u].task
<1> PICK rec : rec = [rows[t] EXCEPT !.status = status]
  OBVIOUS
<1>1. rows[t] \in RowRecords /\ status \in Active \union SettledRow
  BY DEF ReviewInv, ReviewTypeOK, RowRecords, Active, Inflight
<1>2. rec \in RowRecords /\ rec.about = rows[t].about /\ rec.status = status /\ rec.task = rows[t].task
  BY ONLY <1>1, rec = [rows[t] EXCEPT !.status = status] DEF RowRecords
<1>3. rows' = [rows EXCEPT ![t] = rec]
  BY <1>2, SaveOne DEF Mark
<1> QED
  BY <1>2, <1>3, RowsSet DEF ReviewInv

LEMMA MarkedSound ==
  ASSUME ReviewInv, NEW p \in Threads, lock = p, NEW t \in Triggers, rows[t].status \in Active,
         NEW status \in Inflight \union SettledRow, Mark(t, status),
         rows[t].status = "pending" => status \in SettledRow,
         thread[p].at # "spawned",
         thread[p].at = "settling" => t = thread[p].on /\ status \in SettledRow,
         UNCHANGED <<tasks, lost, applied, faults, restarts>>,
         thread' \in [Threads -> ThreadRecords], \A q \in Threads \ {p} : thread'[q] = thread[q],
         lock' \in Threads \union {"free"}, ThreadKnows(p)'
  PROVE  ReviewInv'
<1>1. /\ rows' \in [Triggers -> RowRecords]
      /\ rows'[t].about = rows[t].about /\ rows'[t].status = status /\ rows'[t].task = rows[t].task
      /\ \A u \in Triggers \ {t} :
           rows'[u].about = rows[u].about /\ rows'[u].status = rows[u].status /\ rows'[u].task = rows[u].task
  BY MarkOne
<1>2. ReviewTypeOK'
  BY <1>1 DEF ReviewInv, ReviewTypeOK, ThreadRecords, RowRecords
<1>3. status \notin {"pending", "absent"} /\ (status \in Active => status \in Inflight)
      /\ (status \in SettledRow => status \notin Inflight)
  BY DEF Inflight, SettledRow, Active
<1>4. \A u \in Triggers : /\ rows'[u].about = rows[u].about /\ rows'[u].task = rows[u].task
                          /\ rows'[u].status \in Active => rows[u].status \in Active
                          /\ rows'[u].status \in {"pending", "absent"} => rows'[u].status = rows[u].status
  BY <1>1, <1>3
<1>5. TriggersSound' /\ TasksSound'
  BY <1>4 DEF ReviewInv, TriggersSound, TasksSound
<1>6. \A q \in Threads : thread[q].at \in Holding => q = p
  BY DEF ReviewInv, ThreadKnows
<1>7. ASSUME NEW u \in Triggers PROVE OneReview(u)'
  <2>1. ~Spawning(u)
    BY <1>6 DEF Spawning, Holding
  <2> QED
    BY <1>4, <2>1, ReviewsCounted
<1>8. ASSUME NEW k \in Tasks PROVE OneSaving(k)'
  <2>1. ASSUME NEW u \in Triggers, rows'[u].task = k, rows'[u].status \in Inflight
        PROVE  rows[u].task = k /\ rows[u].status \in Inflight /\ ~Saving(k)
    <3>1. rows[u].task = k
      BY <1>4, <2>1
    <3>2. rows[u].status \in Inflight
      <4>1. rows[u].status \in Active
        BY <1>4, <2>1 DEF Active, Inflight
      <4>2. rows[u].status # "pending"
        BY <3>1, ReviewAssumption DEF ReviewInv, TriggersSound
      <4> QED
        BY <4>1, <4>2 DEF Active, Inflight
    <3>3. ASSUME Saving(k) PROVE FALSE
      <4>1. thread[p].at = "settling" /\ thread[p].task = k
        BY <1>6, <3>3 DEF Saving, Holding
      <4>2. t = thread[p].on /\ rows[t].task = k /\ status \in SettledRow
        BY <4>1 DEF ReviewInv, ThreadKnows
      <4>3. u = t
        BY <3>1, <4>2, ReviewAssumption DEF ReviewInv, TriggersSound
      <4> QED
        BY <1>1, <1>3, <2>1, <4>2, <4>3
    <3> QED
      BY <3>1, <3>2, <3>3
  <2> QED
    BY <2>1, SavingsCounted
<1> QED
  BY <1>2, <1>5, <1>7, <1>8, LockedSound

LEMMA ReconcileSound ==
  ASSUME ReviewInv, NEW d \in Dispatchers, Reconcile(d)
  PROVE  ReviewInv'
<1>1. /\ thread \in [Threads -> ThreadRecords] /\ thread[d].at = "reconciling" /\ d \in Threads
      /\ UNCHANGED <<tasks, lock, lost, applied, faults, restarts>>
  BY DEF ReviewInv, ReviewTypeOK, ThreadRecords, Reconcile, In, Threads
<1>2. lock = d /\ \A u \in thread[d].todo : rows[u].status \in Inflight
  BY <1>1 DEF ReviewInv, ThreadKnows, Holding
<1>3. PICK t \in thread[d].todo :
        \/ /\ rows[t].task # "none" /\ Takes(d, "judging", t, rows[t].task) /\ UNCHANGED rows
        \/ /\ Takes(d, "reconciling", t, "none")
           /\ \E status \in Inflight \union SettledRow : Mark(t, status)
  BY DEF Reconcile, SettledRow
<1>4. t \in Triggers /\ rows[t].status \in Inflight /\ rows[t].status # "pending" /\ rows[t].status \in Active
      /\ rows[t].task \in Tasks \union {"none"}
  BY <1>1, <1>2 DEF ReviewInv, ReviewTypeOK, ThreadRecords, Inflight, Active
<1>5. CASE rows[t].task # "none" /\ Takes(d, "judging", t, rows[t].task) /\ UNCHANGED rows
  BY <1>1, <1>4, <1>5, ToJudgeSound
<1>6. CASE Takes(d, "reconciling", t, "none") /\ \E status \in Inflight \union SettledRow : Mark(t, status)
  <2> PICK r : r = [at |-> "reconciling", todo |-> thread[d].todo \ {t}, task |-> "none", on |-> "none"]
    OBVIOUS
  <2>1. thread' = [thread EXCEPT ![d] = r] /\ r \in ThreadRecords
    BY <1>1, <1>6 DEF Takes, ThreadRecords
  <2>2. /\ thread' \in [Threads -> ThreadRecords]
        /\ thread'[d] = r /\ \A q \in Threads \ {d} : thread'[q] = thread[q]
    BY <1>1, <2>1, ThreadsSet
  <2>3. PICK status \in Inflight \union SettledRow : Mark(t, status)
    BY <1>6
  <2>4. \A u \in r.todo : rows'[u].status \in Inflight
    <3>1. \A u \in Triggers \ {t} : rows'[u].status = rows[u].status
      BY <1>4, <2>3, MarkOne
    <3>2. r.todo \subseteq thread[d].todo \ {t} /\ thread[d].todo \subseteq Triggers
      BY <1>1 DEF ThreadRecords
    <3> QED
      BY <1>2, <3>1, <3>2
  <2>5. ThreadKnows(d)'
    BY <1>1, <1>2, <2>2, <2>4, ReviewAssumption DEF ThreadKnows, Judging
  <2> QED
    BY <1>1, <1>2, <1>4, <2>2, <2>3, <2>5, MarkedSound
<1> QED
  BY <1>3, <1>5, <1>6

LEMMA RefuseSound ==
  ASSUME ReviewInv, NEW d \in Dispatchers, Refuse(d)
  PROVE  ReviewInv'
<1>1. /\ thread \in [Threads -> ThreadRecords] /\ thread[d].at = "dispatching" /\ d \in Threads
      /\ UNCHANGED <<tasks, lock, lost, applied, faults, restarts>>
  BY DEF ReviewInv, ReviewTypeOK, ThreadRecords, Refuse, In, Threads
<1>2. lock = d /\ \A u \in thread[d].todo : rows[u].status = "pending"
  BY <1>1 DEF ReviewInv, ThreadKnows, Holding
<1>3. PICK t \in thread[d].todo : Mark(t, "failed") /\ Takes(d, "dispatching", t, "none")
  BY DEF Refuse
<1>4. t \in Triggers /\ rows[t].status \in Active /\ "failed" \in SettledRow
  BY <1>1, <1>2 DEF ThreadRecords, Active, SettledRow
<1> PICK r : r = [at |-> "dispatching", todo |-> thread[d].todo \ {t}, task |-> "none", on |-> "none"]
  OBVIOUS
<1>5. thread' = [thread EXCEPT ![d] = r] /\ r \in ThreadRecords
  BY <1>1, <1>3 DEF Takes, ThreadRecords
<1>6. /\ thread' \in [Threads -> ThreadRecords]
      /\ thread'[d] = r /\ \A q \in Threads \ {d} : thread'[q] = thread[q]
  BY <1>1, <1>5, ThreadsSet
<1>7. \A u \in r.todo : rows'[u].status = "pending"
  <2>1. \A u \in Triggers \ {t} : rows'[u].status = rows[u].status
    BY <1>3, <1>4, MarkOne
  <2>2. r.todo \subseteq thread[d].todo \ {t} /\ thread[d].todo \subseteq Triggers
    BY <1>1 DEF ThreadRecords
  <2> QED
    BY <1>2, <2>1, <2>2
<1>8. ThreadKnows(d)'
  BY <1>1, <1>2, <1>6, <1>7, ReviewAssumption DEF ThreadKnows, Judging
<1> QED
  BY <1>1, <1>2, <1>3, <1>4, <1>6, <1>8, MarkedSound

-----------------------------------------------------------------------------
(* The end of a review is judged, its proposals saved, its trigger settled. *)
LEMMA MarkOther ==
  ASSUME ReviewInv, NEW t \in Triggers, rows[t].status \in Active,
         NEW status \in Inflight \union SettledRow, Mark(t, status),
         NEW todo \in SUBSET Triggers, t \notin todo, \A u \in todo : rows[u].status \in Inflight
  PROVE  \A u \in todo : rows'[u].status \in Inflight
<1>1. \A u \in Triggers \ {t} : rows'[u].status = rows[u].status
  BY MarkOne
<1> QED
  BY <1>1

LEMMA JudgeSound ==
  ASSUME ReviewInv, NEW p \in Threads, JudgeReview(p)
  PROVE  ReviewInv'
<1> PICK t, k : t = thread[p].on /\ k = thread[p].task
  OBVIOUS
<1>1. /\ thread \in [Threads -> ThreadRecords] /\ thread[p].at = "judging"
      /\ UNCHANGED <<tasks, lost, applied, faults, restarts>>
  BY DEF ReviewInv, ReviewTypeOK, ThreadRecords, JudgeReview, In
<1>2. /\ lock = p /\ \A u \in thread[p].todo : rows[u].status \in Inflight
      /\ t \in Triggers /\ k \in Tasks /\ t \notin thread[p].todo /\ thread[p].todo \subseteq Triggers
  BY <1>1 DEF ReviewInv, ThreadKnows, Holding, Judging, ThreadRecords
<1>3. Handles(t, k) => rows[t].status \in Inflight /\ rows[t].status # "pending" /\ rows[t].status \in Active
                         /\ rows[t].task = k
  <2>1. rows[t].status \in Active \union SettledRow \union {"absent"}
    BY <1>2 DEF ReviewInv, ReviewTypeOK
  <2>2. k # "none"
    BY <1>2, ReviewAssumption
  <2>3. rows[t].task = k => rows[t].status \notin {"pending", "absent"}
    BY <1>2, <2>2 DEF ReviewInv, TriggersSound
  <2> QED
    BY <2>1, <2>3 DEF Handles, Expected, Active, Inflight
<1>4. \/ Done(p) /\ UNCHANGED rows
      \/ Handles(t, k) /\ Mark(t, "failed") /\ Done(p)
      \/ /\ Handles(t, k) /\ tasks[k].status = "succeeded" /\ GoesTo(p, "saving")
         /\ UNCHANGED <<rows, lock>>
  BY DEF JudgeReview
<1>5. CASE Done(p) /\ UNCHANGED rows
  <2>1. /\ thread' \in [Threads -> ThreadRecords]
        /\ \A q \in Threads \ {p} : thread'[q] = thread[q]
        /\ lock' \in Threads \union {"free"} /\ ThreadKnows(p)'
    BY <1>1, <1>2, <1>5, DoneSound DEF Judging
  <2>2. ReviewTypeOK'
    BY <1>1, <1>5, <2>1 DEF ReviewInv, ReviewTypeOK, ThreadRecords
  <2> QED
    BY <1>1, <1>2, <1>5, <2>1, <2>2, ThreadsOnlySound
<1>6. CASE Handles(t, k) /\ Mark(t, "failed") /\ Done(p)
  <2>1. "failed" \in Inflight \union SettledRow /\ "failed" \in SettledRow
    BY DEF SettledRow
  <2>2. \A u \in thread[p].todo : rows'[u].status \in Inflight
    BY <1>2, <1>3, <1>6, <2>1, MarkOther
  <2>3. /\ thread' \in [Threads -> ThreadRecords]
        /\ \A q \in Threads \ {p} : thread'[q] = thread[q]
        /\ lock' \in Threads \union {"free"} /\ ThreadKnows(p)'
    BY <1>1, <1>6, <2>2, DoneSound DEF Judging
  <2> QED
    BY <1>1, <1>2, <1>3, <1>6, <2>1, <2>3, MarkedSound
<1>7. CASE /\ Handles(t, k) /\ tasks[k].status = "succeeded" /\ GoesTo(p, "saving")
           /\ UNCHANGED <<rows, lock>>
  <2> PICK r : r = [thread[p] EXCEPT !.at = "saving"]
    OBVIOUS
  <2>1. /\ r \in ThreadRecords /\ r.at = "saving" /\ r.todo = thread[p].todo /\ r.on = t /\ r.task = k
        /\ thread' = [thread EXCEPT ![p] = r]
    BY <1>1, <1>7 DEF ThreadRecords, GoesTo
  <2>2. /\ thread' \in [Threads -> ThreadRecords]
        /\ thread'[p] = r /\ \A q \in Threads \ {p} : thread'[q] = thread[q]
    BY <1>1, <2>1, ThreadsSet
  <2>3. ReviewTypeOK'
    BY <1>1, <1>7, <2>2 DEF ReviewInv, ReviewTypeOK, ThreadRecords
  <2>4. p \in Tasks => thread[p].todo = {} /\ tasks[p].told
    BY <1>1 DEF ReviewInv, ThreadKnows
  <2>5. ThreadKnows(p)'
    BY <1>1, <1>2, <1>3, <1>7, <2>1, <2>2, <2>4 DEF ThreadKnows, Judging
  <2> QED
    BY <1>1, <1>2, <1>7, <2>2, <2>3, <2>5, ThreadsOnlySound
<1> QED
  BY <1>4, <1>5, <1>6, <1>7

LEMMA SaveProposalsSound ==
  ASSUME ReviewInv, NEW p \in Threads, SaveProposals(p)
  PROVE  ReviewInv'
<1> PICK t, k : t = thread[p].on /\ k = thread[p].task
  OBVIOUS
<1>1. /\ thread \in [Threads -> ThreadRecords] /\ thread[p].at = "saving" /\ thread[p].at \in Holding
      /\ UNCHANGED <<rows, tasks, lock, lost, faults, restarts>>
      /\ applied \in [Tasks -> Nat] /\ faults \in Nat
  BY ReviewAssumption DEF ReviewInv, ReviewTypeOK, ThreadRecords, SaveProposals, In, Holding
<1>2. /\ lock = p /\ \A u \in thread[p].todo : rows[u].status \in Inflight
      /\ t \in Triggers /\ k \in Tasks /\ t \notin thread[p].todo /\ thread[p].todo \subseteq Triggers
      /\ rows[t].task = k /\ rows[t].status \in Inflight /\ tasks[k].status = "succeeded"
  BY <1>1 DEF ReviewInv, ThreadKnows, Judging, ThreadRecords
<1> PICK r : r = [thread[p] EXCEPT !.at = "settling"]
  OBVIOUS
<1>3. /\ r \in ThreadRecords /\ r.at = "settling" /\ r.todo = thread[p].todo /\ r.on = t /\ r.task = k
      /\ thread' = [thread EXCEPT ![p] = r]
  BY <1>1 DEF ThreadRecords, GoesTo, SaveProposals
<1>4. /\ thread' \in [Threads -> ThreadRecords]
      /\ thread'[p] = r /\ \A q \in Threads \ {p} : thread'[q] = thread[q]
  BY <1>1, <1>3, ThreadsSet
<1>5. /\ applied' \in [Tasks -> Nat] /\ applied'[k] <= applied[k] + 1
      /\ \A j \in Tasks \ {k} : applied'[j] = applied[j]
  <2>1. applied' = [applied EXCEPT ![k] = @ + 1] \/ applied' = applied
    BY DEF SaveProposals
  <2> QED
    BY <1>1, <1>2, <2>1
<1>6. ReviewTypeOK'
  BY <1>1, <1>4, <1>5 DEF ReviewInv, ReviewTypeOK, ThreadRecords
<1>7. TriggersSound' /\ TasksSound'
  <2>1. \A j \in Tasks : tasks[j].status = "absent" => applied'[j] = applied[j]
    BY <1>2, <1>5
  <2>2. \A j \in Tasks : /\ tasks'[j].status \in Inflight \union EndedTask => tasks'[j].of \in Triggers
                         /\ tasks'[j].status \in Inflight \union {"absent"} => ~tasks'[j].told
    BY <1>1 DEF ReviewInv, TasksSound
  <2>3. \A j \in Tasks : tasks'[j].status = "absent" =>
         tasks'[j].of = "none" /\ applied'[j] = 0 /\ \A u \in Triggers : rows'[u].task # j
    BY <1>1, <2>1 DEF ReviewInv, TasksSound
  <2>4. TriggersSound'
    BY <1>1 DEF ReviewInv, TriggersSound
  <2> QED
    BY <2>2, <2>3, <2>4 DEF TasksSound
<1>8. p \in Tasks => thread[p].todo = {} /\ tasks[p].told
  BY <1>1 DEF ReviewInv, ThreadKnows
<1>9. ThreadKnows(p)'
  BY <1>1, <1>2, <1>3, <1>4, <1>8 DEF ThreadKnows, Judging
<1>10. \A q \in Threads : thread[q].at \in Holding => q = p
  BY <1>2 DEF ReviewInv, ThreadKnows
<1>11. ASSUME NEW u \in Triggers PROVE OneReview(u)'
  <2>1. ~Spawning(u)
    BY <1>1, <1>10 DEF Spawning, Holding
  <2> QED
    BY <1>1, <2>1, ReviewsCounted
<1>12. ASSUME NEW j \in Tasks PROVE OneSaving(j)'
  <2>1. ~Saving(j)
    BY <1>1, <1>10 DEF Saving, Holding
  <2>2. CASE j # k
    BY <1>1, <1>5, <2>1, <2>2, SavingsCounted
  <2>3. CASE j = k
    <3>1. applied[k] <= faults
      BY <1>2, <2>1, <2>3 DEF ReviewInv, OneSaving
    <3>2. applied'[k] \in Nat /\ applied[k] \in Nat
      BY <1>1, <1>2, <1>5
    <3>3. applied'[k] <= 1 + faults'
      BY <1>1, <1>5, <3>1, <3>2
    <3>4. Saving(k)'
      BY <1>3, <1>4 DEF Saving
    <3> QED
      BY <2>3, <3>3, <3>4 DEF OneSaving
  <2> QED
    BY <2>2, <2>3
<1> QED
  BY <1>1, <1>2, <1>4, <1>6, <1>7, <1>9, <1>11, <1>12, LockedSound

LEMMA SettleSound ==
  ASSUME ReviewInv, NEW p \in Threads, Settle(p)
  PROVE  ReviewInv'
<1> PICK t, k : t = thread[p].on /\ k = thread[p].task
  OBVIOUS
<1>1. /\ thread \in [Threads -> ThreadRecords] /\ thread[p].at = "settling"
      /\ UNCHANGED <<tasks, lost, applied, faults, restarts>> /\ Done(p)
  BY DEF ReviewInv, ReviewTypeOK, ThreadRecords, Settle, In
<1>2. /\ lock = p /\ \A u \in thread[p].todo : rows[u].status \in Inflight
      /\ t \in Triggers /\ t \notin thread[p].todo /\ thread[p].todo \subseteq Triggers
      /\ rows[t].status \in Inflight
  BY <1>1 DEF ReviewInv, ThreadKnows, Judging, Holding, ThreadRecords
<1>3. PICK status \in SettledRow : Mark(t, status)
  BY DEF Settle, SettledRow
<1>4. rows[t].status \in Active /\ status \in Inflight \union SettledRow
  BY <1>2 DEF Active, Inflight
<1>5. \A u \in thread[p].todo : rows'[u].status \in Inflight
  BY <1>2, <1>3, <1>4, MarkOther
<1>6. /\ thread' \in [Threads -> ThreadRecords]
      /\ \A q \in Threads \ {p} : thread'[q] = thread[q]
      /\ lock' \in Threads \union {"free"} /\ ThreadKnows(p)'
  BY <1>1, <1>5, DoneSound DEF Judging
<1> QED
  BY <1>1, <1>2, <1>3, <1>4, <1>6, MarkedSound

-----------------------------------------------------------------------------
(* A review is spawned and written down; the store fails; a restart.       *)
TaskRecords ==
  [of : Triggers \union {"none"}, status : Inflight \union EndedTask \union {"absent", "gone"},
   told : BOOLEAN, result : Results]

LEMMA SpawnSound ==
  ASSUME ReviewInv, NEW d \in Dispatchers, SpawnReview(d)
  PROVE  ReviewInv'
<1>1. /\ thread \in [Threads -> ThreadRecords] /\ thread[d].at = "dispatching" /\ d \in Threads
      /\ UNCHANGED <<rows, lock, lost, applied, faults, restarts>>
      /\ tasks \in [Tasks -> TaskRecords] /\ faults \in Nat
  BY ReviewAssumption DEF ReviewInv, ReviewTypeOK, ThreadRecords, TaskRecords, SpawnReview, In, Threads
<1>2. lock = d /\ \A u \in thread[d].todo : rows[u].status = "pending"
  BY <1>1 DEF ReviewInv, ThreadKnows, Holding
<1>3. PICK t \in thread[d].todo, k \in Tasks :
        /\ tasks[k].status = "absent"
        /\ tasks' = [tasks EXCEPT ![k] = [NoTask EXCEPT !.of = t, !.status = "queued"]]
        /\ Takes(d, "spawned", t, k)
  BY DEF SpawnReview
<1>4. /\ t \in Triggers /\ thread[d].todo \subseteq Triggers /\ k # "none" /\ t # "none"
      /\ tasks[k].of = "none" /\ applied[k] = 0 /\ ~tasks[k].told
      /\ \A u \in Triggers : rows[u].task # k
  BY <1>1, <1>3, ReviewAssumption DEF ReviewInv, TasksSound, ThreadRecords
<1> PICK r : r = [at |-> "spawned", todo |-> thread[d].todo \ {t}, task |-> k, on |-> t]
  OBVIOUS
<1>5. thread' = [thread EXCEPT ![d] = r] /\ r \in ThreadRecords
  BY <1>1, <1>3, <1>4 DEF Takes, ThreadRecords
<1>6. /\ thread' \in [Threads -> ThreadRecords]
      /\ thread'[d] = r /\ \A q \in Threads \ {d} : thread'[q] = thread[q]
  BY <1>1, <1>5, ThreadsSet
<1> PICK task : task = [NoTask EXCEPT !.of = t, !.status = "queued"]
  OBVIOUS
<1>7. task \in TaskRecords /\ task.of = t /\ task.status = "queued" /\ ~task.told
  BY <1>4 DEF NoTask, TaskRecords, Inflight, Results
<1>8. /\ tasks' \in [Tasks -> TaskRecords] /\ tasks'[k] = task
      /\ \A j \in Tasks \ {k} : tasks'[j] = tasks[j]
  BY ONLY <1>1, <1>3, <1>7, task = [NoTask EXCEPT !.of = t, !.status = "queued"]
<1>9. ReviewTypeOK'
  BY <1>1, <1>6, <1>8 DEF ReviewInv, ReviewTypeOK, ThreadRecords, TaskRecords
<1>10. TriggersSound'
  BY <1>1 DEF ReviewInv, TriggersSound
<1>11. TasksSound'
  <2>1. ASSUME NEW j \in Tasks
        PROVE  /\ tasks'[j].status \in Inflight \union EndedTask => tasks'[j].of \in Triggers
               /\ tasks'[j].status \in Inflight \union {"absent"} => ~tasks'[j].told
               /\ tasks'[j].status = "absent" =>
                    tasks'[j].of = "none" /\ applied'[j] = 0 /\ \A u \in Triggers : rows'[u].task # j
    <3>1. CASE j = k
      BY <1>4, <1>7, <1>8, <3>1
    <3>2. CASE j # k
      BY <1>1, <1>8, <3>2 DEF ReviewInv, TasksSound
    <3> QED
      BY <3>1, <3>2
  <2> QED
    BY <2>1 DEF TasksSound
<1>12. ThreadKnows(d)'
  <2>1. /\ r.at = "spawned" /\ r.on = t /\ r.task = k /\ r.todo = thread[d].todo \ {t} /\ d \notin Tasks
        /\ tasks'[k].status # "absent"
    BY <1>7, <1>8, ReviewAssumption
  <2>2. /\ \A u \in r.todo : rows'[u].status = "pending"
        /\ rows'[t].status = "pending" /\ applied'[k] = 0 /\ lock' = d /\ t \notin r.todo
        /\ \A u \in Triggers : rows'[u].task # k
    BY <1>1, <1>2, <1>4, <2>1
  <2> QED
    BY <1>4, <1>6, <2>1, <2>2 DEF ThreadKnows, Judging
<1>13. \A q \in Threads : thread[q].at \in Holding => q = d
  BY <1>2 DEF ReviewInv, ThreadKnows
<1>14. ASSUME NEW u \in Triggers PROVE OneReview(u)'
  <2>1. CASE u # t
    <3>1. TasksOf(u)' = TasksOf(u)
      BY <1>4, <1>7, <1>8, <2>1, ReviewAssumption DEF TasksOf
    <3>2. ~Spawning(u)
      BY <1>1, <1>13 DEF Spawning, Holding
    <3> QED
      BY <1>1, <3>1, <3>2 DEF ReviewInv, OneReview
  <2>2. CASE u = t
    <3>1. TasksOf(t)' = TasksOf(t) \union {k} /\ k \notin TasksOf(t)
      BY <1>4, <1>7, <1>8 DEF TasksOf
    <3>2. ~Spawning(t)
      BY <1>1, <1>13 DEF Spawning, Holding
    <3>3. IsFiniteSet(TasksOf(t)) /\ Cardinality(TasksOf(t)) <= faults
      BY <1>2, <1>4, <3>2 DEF ReviewInv, OneReview
    <3>4. IsFiniteSet(TasksOf(t)') /\ Cardinality(TasksOf(t)') = Cardinality(TasksOf(t)) + 1
          /\ Cardinality(TasksOf(t)) \in Nat
      BY ONLY <3>1, <3>3, FS_AddElement, FS_CardinalityType
    <3>5. Cardinality(TasksOf(t)') <= 1 + faults'
      BY <1>1, <3>3, <3>4
    <3>6. Spawning(t)'
      BY <1>1, <1>6 DEF Spawning
    <3>7. rows'[t].status = "pending"
      BY <1>1, <1>2
    <3> QED
      BY <2>2, <3>4, <3>5, <3>6, <3>7 DEF OneReview
  <2> QED
    BY <2>1, <2>2
<1>15. ASSUME NEW j \in Tasks PROVE OneSaving(j)'
  <2>1. ~Saving(j)
    BY <1>1, <1>13 DEF Saving, Holding
  <2>2. tasks[j].status = "gone" => tasks'[j].status = "gone"
    BY <1>3, <1>8
  <2> QED
    BY <1>1, <2>1, <2>2, SavingsCounted
<1>16. \A j \in Tasks : tasks[j].told => tasks'[j].told
  BY <1>4, <1>8
<1> QED
  BY <1>1, <1>2, <1>6, <1>9, <1>10, <1>11, <1>12, <1>14, <1>15, <1>16, LockedSound

\* The row of a review that was just spawned.
LEMMA SpawnedRow ==
  ASSUME ReviewInv, NEW d \in Dispatchers, SaveSpawned(d)
  PROVE  /\ thread[d].on \in Triggers /\ thread[d].task \in Tasks
         /\ rows' \in [Triggers -> RowRecords]
         /\ rows'[thread[d].on].about = rows[thread[d].on].about
         /\ rows'[thread[d].on].status \in Inflight
         /\ rows'[thread[d].on].task = thread[d].task
         /\ \A u \in Triggers \ {thread[d].on} :
              rows'[u].about = rows[u].about /\ rows'[u].status = rows[u].status /\ rows'[u].task = rows[u].task
<1> PICK t, k : t = thread[d].on /\ k = thread[d].task
  OBVIOUS
<1>1. thread[d].at = "spawned" /\ d \in Threads
  BY DEF SaveSpawned, In, Threads
<1>2. t \in Triggers /\ k \in Tasks /\ rows[t].status = "pending"
  BY <1>1 DEF ReviewInv, ThreadKnows
<1>3. PICK state \in Inflight : Save(t, [rows[t] EXCEPT !.status = state, !.task = k])
  BY DEF SaveSpawned
<1> PICK rec : rec = [rows[t] EXCEPT !.status = state, !.task = k]
  OBVIOUS
<1>4. rows[t] \in RowRecords /\ state \in Active \union SettledRow
  BY <1>2 DEF ReviewInv, ReviewTypeOK, RowRecords, Active, Inflight
<1>5. rec \in RowRecords /\ rec.about = rows[t].about /\ rec.status = state /\ rec.task = k
  BY ONLY <1>2, <1>4, rec = [rows[t] EXCEPT !.status = state, !.task = k] DEF RowRecords
<1>6. rows' = [rows EXCEPT ![t] = rec]
  BY <1>2, <1>3, <1>5, SaveOne DEF Active
<1> QED
  BY <1>2, <1>3, <1>5, <1>6, RowsSet DEF ReviewInv

LEMMA SaveSpawnedSound ==
  ASSUME ReviewInv, NEW d \in Dispatchers, SaveSpawned(d)
  PROVE  ReviewInv'
<1> PICK t, k : t = thread[d].on /\ k = thread[d].task
  OBVIOUS
<1>1. /\ thread \in [Threads -> ThreadRecords] /\ thread[d].at = "spawned" /\ d \in Threads
      /\ UNCHANGED <<tasks, lock, lost, applied, faults, restarts>>
      /\ Takes(d, "dispatching", t, "none") /\ faults \in Nat
  BY ReviewAssumption DEF ReviewInv, ReviewTypeOK, ThreadRecords, SaveSpawned, In, Threads
<1>2. /\ lock = d /\ t \notin thread[d].todo
      /\ \A u \in thread[d].todo : rows[u].status = "pending"
      /\ rows[t].status = "pending" /\ tasks[k].status # "absent" /\ applied[k] = 0
      /\ \A u \in Triggers : rows[u].task # k
  BY <1>1 DEF ReviewInv, ThreadKnows, Holding
<1>3. /\ t \in Triggers /\ k \in Tasks /\ rows' \in [Triggers -> RowRecords]
      /\ rows'[t].about = rows[t].about /\ rows'[t].status \in Inflight /\ rows'[t].task = k
      /\ \A u \in Triggers \ {t} :
           rows'[u].about = rows[u].about /\ rows'[u].status = rows[u].status /\ rows'[u].task = rows[u].task
  BY SpawnedRow
<1> PICK r : r = [at |-> "dispatching", todo |-> thread[d].todo \ {t}, task |-> "none", on |-> "none"]
  OBVIOUS
<1>4. thread' = [thread EXCEPT ![d] = r] /\ r \in ThreadRecords
  BY <1>1 DEF Takes, ThreadRecords
<1>5. /\ thread' \in [Threads -> ThreadRecords]
      /\ thread'[d] = r /\ \A q \in Threads \ {d} : thread'[q] = thread[q]
  BY <1>1, <1>4, ThreadsSet
<1>6. ReviewTypeOK'
  BY <1>1, <1>3, <1>5 DEF ReviewInv, ReviewTypeOK, ThreadRecords, RowRecords
<1>7. rows'[t].status \notin {"pending", "absent"}
  BY <1>3 DEF Inflight
<1>8. TriggersSound'
  <2>1. ASSUME NEW u \in Triggers, NEW v \in Triggers, u # v,
               rows'[u].status \in Active, rows'[v].status \in Active
        PROVE  rows'[u].about # rows'[v].about
    <3>1. \A w \in Triggers : rows'[w].about = rows[w].about
                                /\ (rows'[w].status \in Active => rows[w].status \in Active)
      BY <1>2, <1>3 DEF Active
    <3> QED
      BY <2>1, <3>1 DEF ReviewInv, TriggersSound
  <2>2. ASSUME NEW u \in Triggers, NEW v \in Triggers, u # v, rows'[u].task = rows'[v].task
        PROVE  rows'[u].task = "none"
    BY <1>2, <1>3, <2>2 DEF ReviewInv, TriggersSound
  <2>3. ASSUME NEW u \in Triggers, rows'[u].status \in {"pending", "absent"}
        PROVE  rows'[u].task = "none"
    BY <1>3, <1>7, <2>3 DEF ReviewInv, TriggersSound
  <2> QED
    BY <2>1, <2>2, <2>3 DEF TriggersSound
<1>9. TasksSound'
  BY <1>1, <1>2, <1>3 DEF ReviewInv, TasksSound
<1>10. ThreadKnows(d)'
  <2>1. \A u \in r.todo : rows'[u].status = "pending"
    <3>1. r.todo \subseteq thread[d].todo /\ r.todo \subseteq Triggers \ {t}
      BY <1>1, <1>2 DEF ThreadRecords
    <3> QED
      BY <1>2, <1>3, <3>1
  <2> QED
    BY <1>1, <1>2, <1>5, <2>1, ReviewAssumption DEF ThreadKnows, Judging
<1>11. \A q \in Threads : thread[q].at \in Holding => q = d
  BY <1>2 DEF ReviewInv, ThreadKnows
<1>12. ASSUME NEW u \in Triggers PROVE OneReview(u)'
  <2>1. CASE u # t
    <3>1. ~Spawning(u)
      BY <1>1, <1>11, <2>1 DEF Spawning, Holding
    <3> QED
      BY <1>1, <1>3, <2>1, <3>1, ReviewsCounted
  <2>2. CASE u = t
    BY <1>1, <1>7, <2>2, ReviewsCounted
  <2> QED
    BY <2>1, <2>2
<1>13. ASSUME NEW j \in Tasks PROVE OneSaving(j)'
  <2>1. ~Saving(j)
    BY <1>1, <1>11 DEF Saving, Holding
  <2>2. CASE j # k
    BY <1>1, <1>3, <2>1, <2>2, SavingsCounted
  <2>3. CASE j = k
    BY <1>1, <1>2, <2>3 DEF OneSaving
  <2> QED
    BY <2>2, <2>3
<1> QED
  BY <1>1, <1>2, <1>5, <1>6, <1>8, <1>9, <1>10, <1>12, <1>13, LockedSound

LEMMA FaultSound ==
  ASSUME ReviewInv, NEW p \in Threads, Fault(p)
  PROVE  ReviewInv'
<1>1. /\ thread \in [Threads -> ThreadRecords] /\ lock = p /\ faults \in Nat
      /\ UNCHANGED <<rows, tasks, lost, applied, restarts>>
      /\ faults < MaxFaults /\ faults' = faults + 1 /\ faults' \in 0..MaxFaults
      /\ lock' = "free" /\ thread' = [thread EXCEPT ![p] = Idle]
  BY ReviewAssumption DEF ReviewInv, ReviewTypeOK, ThreadRecords, Fault, Leave
<1>2. Idle \in ThreadRecords /\ Idle.at = "idle" /\ Idle.todo = {}
  BY DEF ThreadRecords, Idle
<1>3. /\ thread' \in [Threads -> ThreadRecords]
      /\ thread'[p] = Idle /\ \A q \in Threads \ {p} : thread'[q] = thread[q]
  BY <1>1, <1>2, ThreadsSet
<1>4. ReviewTypeOK'
  BY <1>1, <1>3 DEF ReviewInv, ReviewTypeOK, ThreadRecords
<1>5. TriggersSound' /\ TasksSound'
  BY <1>1 DEF ReviewInv, TriggersSound, TasksSound
<1>6. ThreadKnows(p)'
  BY <1>2, <1>3 DEF ThreadKnows, Judging, Holding
<1>7. ASSUME NEW t \in Triggers PROVE OneReview(t)'
  <2>1. TasksOf(t)' = TasksOf(t)
    BY <1>1 DEF TasksOf
  <2>2. IsFiniteSet(TasksOf(t)) /\ Cardinality(TasksOf(t)) <= 1 + faults
        /\ (rows[t].status = "absent" => TasksOf(t) = {})
    BY DEF ReviewInv, OneReview
  <2>3. Cardinality(TasksOf(t)) \in Nat
    BY <2>2, FS_CardinalityType
  <2>4. Cardinality(TasksOf(t)) <= faults' /\ Cardinality(TasksOf(t)) <= 1 + faults'
    BY <1>1, <2>2, <2>3
  <2> QED
    BY <1>1, <2>1, <2>2, <2>4 DEF OneReview
<1>8. ASSUME NEW k \in Tasks PROVE OneSaving(k)'
  <2>1. applied[k] \in Nat /\ applied[k] <= 1 + faults
    BY DEF ReviewInv, ReviewTypeOK, OneSaving
  <2>2. applied[k] <= faults' /\ applied[k] <= 1 + faults'
    BY <1>1, <2>1
  <2> QED
    BY <1>1, <2>2 DEF OneSaving
<1> QED
  BY <1>1, <1>3, <1>4, <1>5, <1>6, <1>7, <1>8, LockedSound

LEMMA ReviewRestartSound ==
  ASSUME ReviewInv, RestartReviews
  PROVE  ReviewInv'
<1>1. /\ UNCHANGED <<rows, applied, faults>> /\ restarts' \in 0..MaxRestarts
      /\ lock' = "free" /\ thread' = [p \in Threads |-> Idle] /\ lost' \subseteq Triggers
      /\ tasks' = [k \in Tasks |-> IF tasks[k].status = "absent" THEN NoTask
                                   ELSE [NoTask EXCEPT !.status = "gone"]]
      /\ faults \in Nat
  BY ReviewAssumption DEF ReviewInv, ReviewTypeOK, RestartReviews
<1>2. Idle \in ThreadRecords /\ Idle.at = "idle" /\ Idle.todo = {}
  BY DEF ThreadRecords, Idle
<1>3. /\ NoTask \in TaskRecords /\ [NoTask EXCEPT !.status = "gone"] \in TaskRecords
      /\ NoTask.status = "absent" /\ NoTask.of = "none" /\ ~NoTask.told
      /\ [NoTask EXCEPT !.status = "gone"].status = "gone" /\ [NoTask EXCEPT !.status = "gone"].of = "none"
  BY DEF NoTask, TaskRecords, Results
<1>4. ReviewTypeOK'
  <2>1. thread' \in [Threads -> ThreadRecords] /\ tasks' \in [Tasks -> TaskRecords]
    BY <1>1, <1>2, <1>3
  <2> QED
    BY <1>1, <2>1 DEF ReviewInv, ReviewTypeOK, ThreadRecords, TaskRecords
<1>5. ASSUME NEW k \in Tasks
      PROVE  /\ tasks'[k].of = "none"
             /\ \/ tasks'[k].status = "absent" /\ tasks[k].status = "absent" /\ ~tasks'[k].told
                \/ tasks'[k].status = "gone"
  BY <1>1, <1>3
<1>6. TriggersSound'
  BY <1>1 DEF ReviewInv, TriggersSound
<1>7. TasksSound'
  BY <1>1, <1>5 DEF ReviewInv, TasksSound, Inflight, EndedTask
<1>8. ASSUME NEW p \in Threads PROVE ThreadKnows(p)'
  BY <1>1, <1>2 DEF ThreadKnows, Holding, Judging
<1>9. ASSUME NEW t \in Triggers PROVE OneReview(t)'
  <2>1. TasksOf(t)' = {}
    BY <1>5, ReviewAssumption DEF TasksOf
  <2>2. IsFiniteSet({}) /\ Cardinality({}) = 0
    BY FS_EmptySet
  <2> QED
    BY <1>1, <2>1, <2>2 DEF OneReview
<1>10. ASSUME NEW k \in Tasks PROVE OneSaving(k)'
  BY <1>1, <1>5 DEF ReviewInv, OneSaving, TasksSound
<1> QED
  BY <1>4, <1>6, <1>7, <1>8, <1>9, <1>10 DEF ReviewInv

-----------------------------------------------------------------------------
(* Every step of the reviews. *)
LEMMA HandleSound ==
  ASSUME ReviewInv, NEW p \in Threads, Handle(p)
  PROVE  ReviewInv'
BY JudgeSound, SaveProposalsSound, SettleSound DEF Handle

LEMMA ReviewStepSound ==
  ASSUME ReviewInv, ReviewNext
  PROVE  ReviewInv'
<1>1. ASSUME NEW t \in Triggers, NEW about \in Fingerprints, Trigger(t, about) PROVE ReviewInv'
  BY <1>1, TriggerSound
<1>2. ASSUME NEW d \in Dispatchers, RunEnds(d) \/ Dispatch(d) PROVE ReviewInv'
  <2>1. d \in Threads
    BY DEF Threads
  <2>2. CASE RunEnds(d)
    BY <2>2, RunEndsSound
  <2>3. CASE EnterDispatch(d)
    BY <2>1, <2>3, EnterSound
  <2>4. CASE Reconcile(d)
    BY <2>4, ReconcileSound
  <2>5. CASE List(d) \/ LeaveDispatch(d)
    BY <2>5, ListSound
  <2>6. CASE Refuse(d)
    BY <2>6, RefuseSound
  <2>7. CASE SpawnReview(d)
    BY <2>7, SpawnSound
  <2>8. CASE SaveSpawned(d)
    BY <2>8, SaveSpawnedSound
  <2>9. CASE Handle(d)
    BY <2>1, <2>9, HandleSound
  <2> QED
    BY <1>2, <2>2, <2>3, <2>4, <2>5, <2>6, <2>7, <2>8, <2>9 DEF Dispatch
<1>3. ASSUME NEW k \in Tasks, Review(k) \/ Completion(k) PROVE ReviewInv'
  <2>1. k \in Threads
    BY DEF Threads
  <2>2. CASE StartTask(k)
    <3>1. /\ Becomes(k, "running", "nothing", FALSE) /\ UNCHANGED thread /\ tasks[k].status \in Inflight
          /\ "nothing" \in Results
      BY <2>2 DEF StartTask, Inflight, Results
    <3> QED
      BY <3>1, ReviewGoesOn
  <2>3. CASE Succeed(k)
    <3>1. PICK result \in Results :
            Becomes(k, "succeeded", result, FALSE) /\ UNCHANGED thread /\ tasks[k].status \in Inflight
      BY <2>3 DEF Succeed, Inflight
    <3> QED
      BY <3>1, ReviewGoesOn
  <2>4. CASE FailTask(k)
    <3>1. /\ Becomes(k, "failed", "nothing", TRUE) /\ CallsBack(k) /\ tasks[k].status \in Inflight
          /\ "nothing" \in Results
      BY <2>4 DEF FailTask, Results
    <3> QED
      BY <3>1, ReviewGoesOn
  <2>5. CASE TellEnd(k)
    <3>1. /\ Becomes(k, "succeeded", tasks[k].result, TRUE) /\ CallsBack(k)
          /\ tasks[k].status = "succeeded" /\ ~tasks[k].told /\ tasks[k].result \in Results
      BY <2>5 DEF TellEnd, ReviewInv, ReviewTypeOK
    <3> QED
      BY <3>1, ReviewGoesOn
  <2>6. CASE EnterCallback(k)
    BY <2>1, <2>6, EnterSound
  <2>7. CASE Handle(k)
    BY <2>1, <2>7, HandleSound
  <2> QED
    BY <1>3, <2>2, <2>3, <2>4, <2>5, <2>6, <2>7 DEF Review, Completion
<1>4. ASSUME NEW p \in Threads, Fault(p) PROVE ReviewInv'
  BY <1>4, FaultSound
<1>5. CASE RestartReviews
  BY <1>5, ReviewRestartSound
<1> QED
  BY <1>1, <1>2, <1>3, <1>4, <1>5 DEF ReviewNext

LEMMA ReviewInitSound ==
  ASSUME ReviewInit
  PROVE  ReviewInv
<1>1. /\ Idle \in ThreadRecords /\ Idle.at = "idle" /\ Idle.todo = {}
      /\ NoTask \in TaskRecords /\ NoTask.status = "absent" /\ NoTask.of = "none" /\ ~NoTask.told
      /\ NoRow \in RowRecords /\ NoRow.status = "absent" /\ NoRow.task = "none"
  BY DEF ThreadRecords, Idle, TaskRecords, NoTask, RowRecords, NoRow, Results
<1>2. /\ rows \in [Triggers -> RowRecords] /\ tasks \in [Tasks -> TaskRecords]
      /\ thread \in [Threads -> ThreadRecords] /\ applied \in [Tasks -> Nat]
      /\ faults = 0 /\ faults \in 0..MaxFaults /\ restarts \in 0..MaxRestarts
      /\ lock = "free" /\ lost = {}
  BY <1>1, ReviewAssumption DEF ReviewInit
<1>3. ReviewTypeOK
  BY <1>2 DEF ReviewTypeOK, ThreadRecords, TaskRecords, RowRecords
<1>4. /\ \A t \in Triggers : rows[t].status = "absent" /\ rows[t].task = "none"
      /\ \A k \in Tasks : /\ tasks[k].status = "absent" /\ tasks[k].of = "none"
                          /\ ~tasks[k].told /\ applied[k] = 0
      /\ \A p \in Threads : thread[p].at = "idle" /\ thread[p].todo = {}
  BY <1>1 DEF ReviewInit
<1>5. TriggersSound
  BY <1>4 DEF TriggersSound, Active
<1>6. TasksSound
  BY <1>4, ReviewAssumption DEF TasksSound, Inflight, EndedTask
<1>7. ASSUME NEW p \in Threads PROVE ThreadKnows(p)
  BY <1>4 DEF ThreadKnows, Holding, Judging
<1>8. ASSUME NEW t \in Triggers PROVE OneReview(t)
  <2>1. TasksOf(t) = {}
    BY <1>4, ReviewAssumption DEF TasksOf
  <2>2. IsFiniteSet({}) /\ Cardinality({}) = 0
    BY FS_EmptySet
  <2> QED
    BY <1>2, <2>1, <2>2 DEF OneReview
<1>9. ASSUME NEW k \in Tasks PROVE OneSaving(k)
  BY <1>2, <1>4 DEF OneSaving
<1> QED
  BY <1>3, <1>5, <1>6, <1>7, <1>8, <1>9 DEF ReviewInv

\* Marking an active row, or writing a new one, removes none.
LEMMA MarkKeeps ==
  ASSUME ReviewInv, NEW t \in Triggers, rows[t].status \in Active,
         NEW status \in Inflight \union SettledRow, Mark(t, status)
  PROVE  NoTriggerVanishes
<1>1. "absent" \notin Inflight \union SettledRow
  BY DEF Inflight, SettledRow
<1> QED
  BY <1>1, MarkOne DEF NoTriggerVanishes

LEMMA HandleKeeps ==
  ASSUME ReviewInv, NEW p \in Threads, Handle(p)
  PROVE  NoTriggerVanishes
<1> PICK t, k : t = thread[p].on /\ k = thread[p].task
  OBVIOUS
<1>1. thread[p].at \in Judging /\ t \in Triggers /\ k \in Tasks
  BY DEF ReviewInv, ThreadKnows, Handle, JudgeReview, SaveProposals, Settle, In, Judging
<1>2. CASE UNCHANGED rows
  BY <1>2 DEF NoTriggerVanishes
<1>3. CASE JudgeReview(p) /\ ~UNCHANGED rows
  <2>1. Handles(t, k) /\ Mark(t, "failed")
    BY <1>3 DEF JudgeReview
  <2>2. rows[t].status \in Active
    <3>1. rows[t].status \in Active \union SettledRow \union {"absent"}
      BY <1>1 DEF ReviewInv, ReviewTypeOK
    <3>2. k # "none" /\ rows[t].task = k
      BY <1>1, <2>1, ReviewAssumption DEF Handles, Expected
    <3>3. rows[t].status # "absent"
      BY <1>1, <3>2 DEF ReviewInv, TriggersSound
    <3> QED
      BY <2>1, <3>1, <3>3 DEF Handles
  <2>3. "failed" \in Inflight \union SettledRow
    BY DEF SettledRow
  <2> QED
    BY <1>1, <2>1, <2>2, <2>3, MarkKeeps
<1>4. CASE Settle(p)
  <2>1. PICK status \in SettledRow : Mark(t, status)
    BY <1>4 DEF Settle, SettledRow
  <2>2. rows[t].status \in Active
    BY <1>4 DEF ReviewInv, ThreadKnows, Settle, In, Inflight, Active
  <2> QED
    BY <1>1, <2>1, <2>2, MarkKeeps
<1> QED
  BY <1>2, <1>3, <1>4 DEF Handle, SaveProposals

LEMMA StepKeepsTriggers ==
  ASSUME ReviewInv, ReviewNext
  PROVE  NoTriggerVanishes
<1>1. CASE UNCHANGED rows
  BY <1>1 DEF NoTriggerVanishes
<1>2. ASSUME NEW t \in Triggers, NEW about \in Fingerprints, Trigger(t, about)
      PROVE  NoTriggerVanishes
  <2> PICK rec : rec = [about |-> about, status |-> "pending", task |-> "none"]
    OBVIOUS
  <2>1. rows[t].status = "absent" /\ Clash(t, about) = {} /\ Save(t, rec)
    BY <1>2 DEF Trigger, Inserts
  <2>2. rows' = [rows EXCEPT ![t] = rec]
    BY <2>1, SaveOne
  <2> QED
    BY <2>1, <2>2 DEF ReviewInv, ReviewTypeOK, NoTriggerVanishes
<1>3. ASSUME NEW d \in Dispatchers, Reconcile(d) \/ Refuse(d), ~UNCHANGED rows
      PROVE  NoTriggerVanishes
  <2>1. PICK t \in thread[d].todo, status \in Inflight \union SettledRow : Mark(t, status)
    BY <1>3 DEF Reconcile, Refuse, SettledRow
  <2>2. d \in Threads /\ thread[d].at \in {"reconciling", "dispatching"}
    BY <1>3 DEF Reconcile, Refuse, In, Threads
  <2>3. t \in Triggers /\ rows[t].status \in Active
    BY <2>2 DEF ReviewInv, ReviewTypeOK, ThreadKnows, Inflight, Active
  <2> QED
    BY <2>1, <2>3, MarkKeeps
<1>4. ASSUME NEW d \in Dispatchers, SaveSpawned(d)
      PROVE  NoTriggerVanishes
  <2>1. "absent" \notin Inflight
    BY DEF Inflight
  <2> QED
    BY <1>4, <2>1, SpawnedRow DEF NoTriggerVanishes
<1>5. ASSUME NEW p \in Threads, Handle(p)
      PROVE  NoTriggerVanishes
  BY <1>5, HandleKeeps
<1>6. ASSUME NEW d \in Dispatchers, RunEnds(d) \/ Dispatch(d), ~UNCHANGED rows
      PROVE  NoTriggerVanishes
  <2>1. d \in Threads
    BY DEF Threads
  <2> QED
    BY <1>3, <1>4, <1>5, <1>6, <2>1
    DEF RunEnds, Dispatch, EnterDispatch, Enter, List, SpawnReview, LeaveDispatch
<1>7. ASSUME NEW k \in Tasks, Review(k) \/ Completion(k), ~UNCHANGED rows
      PROVE  NoTriggerVanishes
  <2>1. k \in Threads
    BY DEF Threads
  <2> QED
    BY <1>5, <1>7, <2>1
    DEF Review, Completion, StartTask, Succeed, FailTask, TellEnd, Becomes, EnterCallback, Enter
<1>8. ASSUME NEW p \in Threads, Fault(p) PROVE NoTriggerVanishes
  BY <1>1, <1>8 DEF Fault
<1>9. ASSUME RestartReviews PROVE NoTriggerVanishes
  BY <1>1, <1>9 DEF RestartReviews
<1> QED
  BY <1>1, <1>2, <1>6, <1>7, <1>8, <1>9 DEF ReviewNext

(***************************************************************************)
(* However dispatches, callbacks and reconciliations of side by side runs  *)
(* meet, and wherever the process stops, a trigger that was made stays, is *)
(* reviewed once and its proposals are saved once, but for one repetition  *)
(* per failure of the store (dispatch_pending_triggers,                    *)
(* handle_terminal_task, save_review_trigger).                             *)
(***************************************************************************)
THEOREM TriggersReviewedOnce == ReviewSpec => EachTriggerOnce
<1>1. ReviewInit => ReviewInv
  BY ReviewInitSound
<1>2. ReviewInv /\ [ReviewNext]_reviewVars => ReviewInv'
  <2>1. CASE ReviewInv /\ ReviewNext
    BY <2>1, ReviewStepSound
  <2>2. CASE ReviewInv /\ UNCHANGED reviewVars
    <3>1. ReviewTypeOK' /\ TriggersSound' /\ TasksSound'
      BY <2>2 DEF ReviewInv, ReviewTypeOK, TriggersSound, TasksSound, reviewVars
    <3>2. ASSUME NEW p \in Threads PROVE ThreadKnows(p)'
      BY <2>2 DEF ReviewInv, ThreadKnows, reviewVars
    <3>3. ASSUME NEW t \in Triggers PROVE OneReview(t)'
      BY <2>2 DEF ReviewInv, OneReview, TasksOf, Spawning, reviewVars
    <3>4. ASSUME NEW k \in Tasks PROVE OneSaving(k)'
      BY <2>2 DEF ReviewInv, OneSaving, Saving, reviewVars
    <3> QED
      BY <3>1, <3>2, <3>3, <3>4 DEF ReviewInv
  <2> QED
    BY <2>1, <2>2
<1>3. ReviewInv /\ ReviewInv' /\ [ReviewNext]_reviewVars
        => [NoTriggerVanishes /\ ReviewedOnce']_reviewVars
  <2>1. ReviewInv => ReviewedOnce
    BY DEF ReviewInv, OneReview, OneSaving, TasksOf, ReviewedOnce
  <2>2. ReviewInv' => ReviewedOnce'
    BY <2>1 DEF ReviewInv, OneReview, OneSaving, TasksOf, ReviewedOnce
  <2> QED
    BY <2>2, StepKeepsTriggers
<1> QED
  BY <1>1, <1>2, <1>3, PTL DEF ReviewSpec, EachTriggerOnce

-----------------------------------------------------------------------------
(* The newest failures. *)
Oldest(log) == IF Len(log) > Newest THEN Len(log) - Newest + 1 ELSE 1
About(log, question) == {i \in Oldest(log)..Len(log) : log[i] = question}
Window(log) == SubSeq(log, Oldest(log), Len(log))

\* What is counted are places of the log; moving the window takes none in but
\* the failure that was just recorded.
LEMMA CountIsAbout ==
  ASSUME NEW S, NEW log \in Seq(S), NEW question
  PROVE  /\ IsFiniteSet(About(log, question)) /\ Cardinality({i \in DOMAIN Window(log) : Window(log)[i] = question}) \in Nat
         /\ Cardinality({i \in DOMAIN Window(log) : Window(log)[i] = question})
              = Cardinality(About(log, question))
<1> PICK m, n : m = Oldest(log) /\ n = Len(log)
  OBVIOUS
<1>1. n \in Nat /\ m \in Nat /\ m >= 1 /\ m <= n + 1
  <2>1. Len(log) \in Nat /\ Newest \in Nat \ {0}
    BY EvidenceAssumption
  <2> QED
    BY <2>1 DEF Oldest
<1>2. \A i \in m..n : log[i] \in S
  BY <1>1
<1> PICK w : w = SubSeq(log, m, n)
  OBVIOUS
<1>3. /\ w = Window(log) /\ DOMAIN w = 1..(n - m + 1)
      /\ \A i \in 1..(n - m + 1) : w[i] = log[m + i - 1]
  <2>1. /\ w \in Seq(S) /\ Len(w) = IF m <= n THEN n - m + 1 ELSE 0
        /\ \A i \in 1..(n - m + 1) : w[i] = log[m + i - 1]
    BY <1>1, <1>2, SubSeqProperties
  <2>2. Len(w) = n - m + 1
    BY <1>1, <2>1
  <2>3. DOMAIN w = 1..Len(w)
    BY <2>1
  <2>4. w = Window(log)
    BY DEF Window
  <2> QED
    BY <2>1, <2>2, <2>3, <2>4
<1> PICK A, B : A = {i \in DOMAIN w : w[i] = question} /\ B = About(log, question)
  OBVIOUS
<1>4. A = {i \in 1..(n - m + 1) : log[m + i - 1] = question}
  BY <1>3
<1>5. B = {i \in m..n : log[i] = question}
  BY DEF About
<1>6. IsFiniteSet(B)
  <2>1. IsFiniteSet(m..n)
    BY <1>1, FS_Interval
  <2> QED
    BY <1>5, <2>1, FS_Subset
<1>7. Cardinality(A) = Cardinality(B)
  <2> PICK f : f = [i \in A |-> m + i - 1]
    OBVIOUS
  <2>1. f \in Bijection(A, B)
    <3>1. \A i \in A : i \in 1..(n - m + 1) /\ f[i] = m + i - 1 /\ f[i] \in m..n /\ log[f[i]] = question
      BY ONLY <1>1, <1>4, f = [i \in A |-> m + i - 1]
    <3>2. f \in [A -> B]
      BY <1>5, <3>1
    <3>3. \A i, j \in A : f[i] = f[j] => i = j
      BY <1>1, <3>1
    <3>4. \A b \in B : \E i \in A : f[i] = b
      <4>1. ASSUME NEW b \in B PROVE \E i \in A : f[i] = b
        <5>1. b \in m..n /\ log[b] = question
          BY <1>5
        <5>2. b - m + 1 \in 1..(n - m + 1) /\ m + (b - m + 1) - 1 = b
          BY <1>1, <5>1
        <5>3. b - m + 1 \in A
          BY <1>4, <5>1, <5>2
        <5> QED
          BY <5>2, <5>3
      <4> QED
        BY <4>1
    <3> QED
      <4>1. f \in Injection(A, B)
        BY ONLY <3>2, <3>3, Fun_IsInj
      <4>2. f \in Surjection(A, B)
        BY ONLY <3>2, <3>4, Fun_IsSurj
      <4> QED
        BY <4>1, <4>2 DEF Bijection
  <2> QED
    <3>1. IsFiniteSet(1..(n - m + 1)) /\ A \in SUBSET (1..(n - m + 1))
      <4>1. IsFiniteSet(1..(n - m + 1))
        BY <1>1, FS_Interval
      <4> QED
        BY <1>4, <4>1
    <3>2. IsFiniteSet(A)
      BY ONLY <3>1, FS_Subset
    <3>3. ExistsBijection(A, B)
      BY <2>1 DEF ExistsBijection
    <3> QED
      BY ONLY <3>2, <3>3, FS_Bijection
<1>8. {i \in DOMAIN Window(log) : Window(log)[i] = question} = A
  BY <1>3
<1> QED
  BY <1>6, <1>7, <1>8, FS_CardinalityType

LEMMA OthersAreNotMore ==
  ASSUME NEW S, failures \in Seq(S), NEW last \in S, Failed(last), NEW question, question # last
  PROVE  Count(question)' <= Count(question) /\ Count(question)' \in Nat /\ Count(question) \in Nat
<1>1. /\ failures' \in Seq(S) /\ Len(failures') = Len(failures) + 1 /\ Len(failures) \in Nat
      /\ \A i \in 1..Len(failures) : failures'[i] = failures[i]
      /\ failures'[Len(failures) + 1] = last
  BY AppendProperties DEF Failed
<1>2. /\ Oldest(failures) \in 1..(Len(failures) + 1)
      /\ Oldest(failures) <= Oldest(failures') /\ Oldest(failures') \in Nat
  BY <1>1, EvidenceAssumption DEF Oldest
<1>3. About(failures', question) \subseteq About(failures, question)
  <2>1. ASSUME NEW i \in Oldest(failures')..Len(failures'), failures'[i] = question
        PROVE  i \in Oldest(failures)..Len(failures) /\ failures[i] = question
    <3>1. i # Len(failures) + 1
      BY <1>1, <2>1
    <3>2. i \in Oldest(failures)..Len(failures) /\ i \in 1..Len(failures)
      BY <1>1, <1>2, <3>1
    <3> QED
      BY <1>1, <2>1, <3>2
  <2> QED
    BY <2>1 DEF About
<1>4. /\ IsFiniteSet(About(failures, question)) /\ Count(question) \in Nat
      /\ Count(question) = Cardinality(About(failures, question))
  BY CountIsAbout DEF Count, RecentFailures, Window, Oldest
<1>5. /\ Count(question)' \in Nat /\ Count(question)' = Cardinality(About(failures', question))
  <2> PICK log : log = failures'
    OBVIOUS
  <2>1. /\ Cardinality({i \in DOMAIN Window(log) : Window(log)[i] = question}) \in Nat
        /\ Cardinality({i \in DOMAIN Window(log) : Window(log)[i] = question})
             = Cardinality(About(log, question))
    BY <1>1, CountIsAbout
  <2>2. Count(question)' = Cardinality({i \in DOMAIN Window(log) : Window(log)[i] = question})
    BY DEF Count, RecentFailures, Window, Oldest
  <2> QED
    BY <2>1, <2>2
<1> QED
  BY <1>3, <1>4, <1>5, FS_Subset

\* A burst has left a row, or the run that recorded its last failure is to count
\* it or to write the row.
BurstRow(question) ==
  \E t \in Triggers :
    rows[t].status # "absent" /\ rows[t].about = Fingerprint("failure_burst", question)
Seen(r, question) ==
  /\ r.request = question
  /\ r.at = "counting" \/ (r.at = "making" /\ r.kind = "failure_burst")

AskedAbout == Questions \union {"none"}
Kinds == {"none", "flush", "episode", "failure_burst", "recovery"}
Subjects == {"none"} \union {Fingerprint(kind, question) : kind \in Kinds, question \in AskedAbout}
EvidenceRows == [about : Subjects, status : {"absent", "pending", "processed"}, task : {"none"}]
RunRecords ==
  [at : {"idle", "working", "counting", "making", "recovering", "weighing", "ended"},
   request : AskedAbout, kind : Kinds, next : {"working", "recovering", "ended"}]

BurstSound(question) ==
  Count(question) >= Burst => BurstRow(question) \/ \E p \in AgentRuns : Seen(run[p], question)

EvidenceInv ==
  /\ rows \in [Triggers -> EvidenceRows] /\ run \in [AgentRuns -> RunRecords]
  /\ failures \in Seq(AskedAbout)
  /\ \A question \in Questions : BurstSound(question)

\* A run goes on and no burst is forgotten by it.
LEMMA RunGoesOn ==
  ASSUME EvidenceInv, NEW p \in AgentRuns, NEW r \in RunRecords, run' = [run EXCEPT ![p] = r],
         rows' \in [Triggers -> EvidenceRows], UNCHANGED failures,
         \A question \in Questions : BurstRow(question) => BurstRow(question)',
         \A question \in Questions : Seen(run[p], question) /\ Count(question) >= Burst
                                      => Seen(r, question) \/ BurstRow(question)'
  PROVE  EvidenceInv'
<1>1. /\ run' \in [AgentRuns -> RunRecords] /\ run'[p] = r
      /\ \A q \in AgentRuns \ {p} : run'[q] = run[q]
  BY DEF EvidenceInv
<1>2. ASSUME NEW question \in Questions, Count(question)' >= Burst
      PROVE  BurstRow(question)' \/ \E q \in AgentRuns : Seen(run'[q], question)
  <2>1. Count(question) >= Burst
    BY <1>2 DEF Count, RecentFailures
  <2>2. BurstRow(question) \/ \E q \in AgentRuns : Seen(run[q], question)
    BY <2>1 DEF EvidenceInv, BurstSound
  <2>3. CASE BurstRow(question)
    BY <2>3
  <2>4. ASSUME NEW q \in AgentRuns, Seen(run[q], question)
        PROVE  BurstRow(question)' \/ \E o \in AgentRuns : Seen(run'[o], question)
    <3>1. CASE q = p
      BY <1>1, <2>1, <2>4, <3>1
    <3>2. CASE q # p
      BY <1>1, <2>4, <3>2
    <3> QED
      BY <3>1, <3>2
  <2> QED
    BY <2>2, <2>3, <2>4
<1>3. ASSUME NEW question \in Questions PROVE BurstSound(question)'
  BY <1>2 DEF BurstSound, Seen
<1> QED
  BY <1>1, <1>3 DEF EvidenceInv

\* A run that is not counting, nor making the row of a burst.
LEMMA RunWasElsewhere ==
  ASSUME EvidenceInv, NEW p \in AgentRuns, NEW r \in RunRecords, run' = [run EXCEPT ![p] = r],
         UNCHANGED <<rows, failures>>, run[p].at \notin {"counting", "making"}
  PROVE  EvidenceInv'
<1>1. \A question \in Questions : BurstRow(question) => BurstRow(question)'
  BY DEF BurstRow
<1>2. \A question \in Questions : ~Seen(run[p], question)
  BY DEF Seen
<1>3. rows' \in [Triggers -> EvidenceRows]
  BY DEF EvidenceInv
<1> QED
  BY <1>1, <1>2, <1>3, RunGoesOn

LEMMA MovesRun ==
  ASSUME EvidenceInv, NEW p \in AgentRuns,
         NEW place \in {"idle", "working", "counting", "making", "recovering", "weighing", "ended"}, Moves(p, place)
  PROVE  \E r \in RunRecords :
           /\ run' = [run EXCEPT ![p] = r]
           /\ r.at = place /\ r.kind = run[p].kind /\ r.request = run[p].request
<1> PICK r : r = [run[p] EXCEPT !.at = place]
  OBVIOUS
<1>1. run \in [AgentRuns -> RunRecords]
  BY DEF EvidenceInv
<1>2. r \in RunRecords /\ r.at = place /\ r.kind = run[p].kind /\ r.request = run[p].request
  BY ONLY <1>1, p \in AgentRuns, r = [run[p] EXCEPT !.at = place],
          place \in {"idle", "working", "counting", "making", "recovering", "weighing", "ended"} DEF RunRecords
<1>3. run' = [run EXCEPT ![p] = r]
  <2>1. run' = [run EXCEPT ![p].at = place]
    BY DEF Moves
  <2> QED
    BY ONLY <1>1, <2>1, p \in AgentRuns, r = [run[p] EXCEPT !.at = place]
<1> QED
  BY <1>2, <1>3

LEMMA CountsRun ==
  ASSUME EvidenceInv, NEW p \in AgentRuns, NEW after \in {"working", "ended"},
         run' = [run EXCEPT ![p].at = "counting", ![p].next = after]
  PROVE  \E r \in RunRecords :
           /\ run' = [run EXCEPT ![p] = r] /\ r.at = "counting" /\ r.request = run[p].request
<1> PICK r : r = [run[p] EXCEPT !.at = "counting", !.next = after]
  OBVIOUS
<1>1. run \in [AgentRuns -> RunRecords]
  BY DEF EvidenceInv
<1>2. r \in RunRecords /\ r.at = "counting" /\ r.request = run[p].request
  BY ONLY <1>1, p \in AgentRuns, r = [run[p] EXCEPT !.at = "counting", !.next = after],
          after \in {"working", "ended"} DEF RunRecords
<1>3. run' = [run EXCEPT ![p] = r]
  BY ONLY <1>1, p \in AgentRuns, r = [run[p] EXCEPT !.at = "counting", !.next = after],
          run' = [run EXCEPT ![p].at = "counting", ![p].next = after]
<1> QED
  BY <1>2, <1>3

LEMMA EvaluatesRun ==
  ASSUME EvidenceInv, NEW p \in AgentRuns, NEW kind \in Kinds,
         NEW after \in {"working", "recovering", "ended"}, Evaluates(p, kind, after)
  PROVE  \E r \in RunRecords :
           /\ run' = [run EXCEPT ![p] = r]
           /\ r.at = "making" /\ r.kind = kind /\ r.request = run[p].request
<1> PICK r : r = [run[p] EXCEPT !.at = "making", !.kind = kind, !.next = after]
  OBVIOUS
<1>1. run \in [AgentRuns -> RunRecords]
  BY DEF EvidenceInv
<1>2. r \in RunRecords /\ r.at = "making" /\ r.kind = kind /\ r.request = run[p].request
  BY ONLY <1>1, p \in AgentRuns, r = [run[p] EXCEPT !.at = "making", !.kind = kind, !.next = after],
          kind \in Kinds, after \in {"working", "recovering", "ended"} DEF RunRecords
<1>3. run' = [run EXCEPT ![p] = r]
  <2>1. run' = [run EXCEPT ![p].at = "making", ![p].kind = kind, ![p].next = after]
    BY DEF Evaluates
  <2> QED
    BY ONLY <1>1, <2>1, p \in AgentRuns,
            r = [run[p] EXCEPT !.at = "making", !.kind = kind, !.next = after]
<1> QED
  BY <1>2, <1>3

-----------------------------------------------------------------------------
(* Steps of the runs that leave triggers. *)
LEMMA BeginKeepsBursts ==
  ASSUME EvidenceInv, NEW p \in AgentRuns, BeginRun(p)
  PROVE  EvidenceInv'
<1>1. PICK question \in Questions, place \in {"making", "working"} :
        run' = [run EXCEPT ![p] = [at |-> place, request |-> question, kind |-> "flush", next |-> "working"]]
  BY DEF BeginRun, Flush, Begins
<1> PICK r : r = [at |-> place, request |-> question, kind |-> "flush", next |-> "working"]
  OBVIOUS
<1>2. r \in RunRecords
  BY DEF RunRecords, AskedAbout, Kinds
<1>3. UNCHANGED <<rows, failures>> /\ run[p].at = "idle" /\ run' = [run EXCEPT ![p] = r]
  BY <1>1 DEF BeginRun
<1> QED
  BY <1>2, <1>3, RunWasElsewhere

LEMMA FailureKeepsBursts ==
  ASSUME EvidenceInv, NEW p \in AgentRuns, RecordFailure(p)
  PROVE  EvidenceInv'
<1>1. PICK after \in {"working", "ended"} : run' = [run EXCEPT ![p].at = "counting", ![p].next = after]
  BY DEF RecordFailure
<1>2. /\ run \in [AgentRuns -> RunRecords] /\ run[p].kind \in Kinds /\ run[p].request \in AskedAbout
      /\ run[p].at = "working" /\ UNCHANGED rows /\ Failed(run[p].request)
      /\ failures \in Seq(AskedAbout) /\ failures' \in Seq(AskedAbout)
  BY AppendProperties DEF EvidenceInv, RunRecords, RecordFailure, Failed
<1>3. PICK r \in RunRecords :
        run' = [run EXCEPT ![p] = r] /\ r.at = "counting" /\ r.request = run[p].request
  BY <1>1, CountsRun
<1>4. /\ run' \in [AgentRuns -> RunRecords] /\ run'[p] = r
      /\ \A q \in AgentRuns \ {p} : run'[q] = run[q]
  BY <1>2, <1>3
<1>5. ASSUME NEW question \in Questions, Count(question)' >= Burst
      PROVE  BurstRow(question)' \/ \E q \in AgentRuns : Seen(run'[q], question)
  <2>1. CASE question = run[p].request
    BY <1>3, <1>4, <2>1 DEF Seen
  <2>2. CASE question # run[p].request
    <3>1. Count(question)' <= Count(question) /\ Count(question)' \in Nat /\ Count(question) \in Nat
      BY <1>2, <2>2, OthersAreNotMore
    <3>2. Burst \in Nat
      BY EvidenceAssumption
    <3>3. Count(question) >= Burst
      BY ONLY <1>5, <3>1, <3>2
    <3>4. BurstRow(question) \/ \E q \in AgentRuns : Seen(run[q], question)
      BY <3>3 DEF EvidenceInv, BurstSound
    <3>5. CASE BurstRow(question)
      BY <1>2, <3>5 DEF BurstRow
    <3>6. ASSUME NEW q \in AgentRuns, Seen(run[q], question)
          PROVE  \E o \in AgentRuns : Seen(run'[o], question)
      <4>1. q # p
        BY <1>2, <3>6 DEF Seen
      <4> QED
        BY <1>4, <3>6, <4>1
    <3> QED
      BY <3>4, <3>5, <3>6
  <2> QED
    BY <2>1, <2>2
<1>6. ASSUME NEW question \in Questions PROVE BurstSound(question)'
  BY <1>5 DEF BurstSound, Seen
<1> QED
  BY <1>2, <1>4, <1>6 DEF EvidenceInv

LEMMA EvaluationKeepsBursts ==
  ASSUME EvidenceInv, NEW p \in AgentRuns, EvaluateFailureBurst(p)
  PROVE  EvidenceInv'
<1>1. /\ run[p].at = "counting" /\ UNCHANGED <<rows, failures>>
      /\ rows' \in [Triggers -> EvidenceRows] /\ run[p].next \in {"working", "recovering", "ended"}
  BY DEF EvaluateFailureBurst, EvidenceInv, RunRecords
<1>2. \A question \in Questions : BurstRow(question) => BurstRow(question)'
  BY <1>1 DEF BurstRow
<1>3. CASE Evaluates(p, "failure_burst", run[p].next)
  <2>1. PICK r \in RunRecords : /\ run' = [run EXCEPT ![p] = r] /\ r.at = "making"
                                /\ r.kind = "failure_burst" /\ r.request = run[p].request
    BY <1>1, <1>3, EvaluatesRun DEF Kinds
  <2>2. \A question \in Questions : Seen(run[p], question) => Seen(r, question)
    BY <2>1 DEF Seen
  <2> QED
    BY <1>1, <1>2, <2>1, <2>2, RunGoesOn
<1>4. CASE ~Enough(run[p].request) /\ Moves(p, run[p].next)
  <2>1. PICK r \in RunRecords : run' = [run EXCEPT ![p] = r]
    BY <1>1, <1>4, MovesRun
  <2>2. \A question \in Questions : ~(Seen(run[p], question) /\ Count(question) >= Burst)
    BY <1>4 DEF Seen, Enough
  <2> QED
    BY <1>1, <1>2, <2>1, <2>2, RunGoesOn
<1> QED
  BY <1>3, <1>4 DEF EvaluateFailureBurst

LEMMA EndKeepsBursts ==
  ASSUME EvidenceInv, NEW p \in AgentRuns, FinishRun(p) \/ RecordRecovery(p) \/ EvaluateRecovery(p)
  PROVE  EvidenceInv'
<1>1. UNCHANGED <<rows, failures>> /\ run[p].at \notin {"counting", "making"}
  BY DEF FinishRun, RecordRecovery, EvaluateRecovery
<1>2. \/ \E kind \in {"episode", "recovery"}, after \in {"working", "recovering", "ended"} : Evaluates(p, kind, after)
      \/ \E place \in {"recovering", "weighing", "ended"} : Moves(p, place)
  BY DEF FinishRun, RecordRecovery, EvaluateRecovery
<1>3. \E r \in RunRecords : run' = [run EXCEPT ![p] = r]
  <2>1. ASSUME NEW kind \in {"episode", "recovery"}, NEW after \in {"working", "recovering", "ended"},
               Evaluates(p, kind, after)
        PROVE  \E r \in RunRecords : run' = [run EXCEPT ![p] = r]
    BY <2>1, EvaluatesRun DEF Kinds
  <2>2. ASSUME NEW place \in {"recovering", "weighing", "ended"}, Moves(p, place)
        PROVE  \E r \in RunRecords : run' = [run EXCEPT ![p] = r]
    BY <2>2, MovesRun
  <2> QED
    BY <1>2, <2>1, <2>2
<1> QED
  BY <1>1, <1>3, RunWasElsewhere

LEMMA MakeKeepsBursts ==
  ASSUME EvidenceInv, NEW p \in AgentRuns, Make(p)
  PROVE  EvidenceInv'
<1> PICK about : about = Fingerprint(run[p].kind, run[p].request)
  OBVIOUS
<1>1. /\ run[p].at = "making" /\ Moves(p, run[p].next) /\ UNCHANGED failures
      /\ run[p].next \in {"working", "recovering", "ended"} /\ about \in Subjects
      /\ rows \in [Triggers -> EvidenceRows]
  BY DEF Make, EvidenceInv, RunRecords, Subjects
<1>2. PICK r \in RunRecords : run' = [run EXCEPT ![p] = r]
  BY <1>1, MovesRun
<1>3. \A question \in Questions : Seen(run[p], question) => about = Fingerprint("failure_burst", question)
  BY <1>1 DEF Seen
<1>4. \/ UNCHANGED rows /\ \E t \in Triggers : rows[t].about = about /\ rows[t].status \in Active
      \/ \E t \in Triggers : rows[t].status = "absent" /\ Inserts(t, about)
  BY DEF Make
<1>5. CASE UNCHANGED rows /\ \E t \in Triggers : rows[t].about = about /\ rows[t].status \in Active
  <2>1. PICK t \in Triggers : rows'[t].about = about /\ rows'[t].status # "absent"
    BY <1>5 DEF Active
  <2>2. \A question \in Questions : BurstRow(question) => BurstRow(question)'
    BY <1>5 DEF BurstRow
  <2>3. \A question \in Questions : Seen(run[p], question) => BurstRow(question)'
    BY <1>3, <2>1 DEF BurstRow
  <2> QED
    BY <1>1, <1>2, <1>5, <2>2, <2>3, RunGoesOn
<1>6. ASSUME NEW t \in Triggers, rows[t].status = "absent", Inserts(t, about)
      PROVE  EvidenceInv'
  <2> PICK rec : rec = [about |-> about, status |-> "pending", task |-> "none"]
    OBVIOUS
  <2>1. rec \in EvidenceRows /\ rec.about = about /\ rec.status = "pending"
    BY <1>1 DEF EvidenceRows
  <2>2. rows' = [rows EXCEPT ![t] = rec]
    <3>1. Clash(t, about) = {} /\ rows' = Saved(t, rec)
      BY <1>6 DEF Inserts, Save
    <3>2. Saved(t, rec) = [u \in Triggers |-> IF u = t THEN rec ELSE rows[u]]
      BY <2>1, <3>1 DEF Saved
    <3> QED
      BY <1>1, <3>1, <3>2
  <2>3. /\ rows' \in [Triggers -> EvidenceRows] /\ rows'[t] = rec
        /\ \A u \in Triggers \ {t} : rows'[u] = rows[u]
    BY <1>1, <2>1, <2>2
  <2>4. ASSUME NEW question \in Questions, BurstRow(question) PROVE BurstRow(question)'
    <3>1. PICK u \in Triggers : rows[u].status # "absent" /\ rows[u].about = Fingerprint("failure_burst", question)
      BY <2>4 DEF BurstRow
    <3>2. rows'[u] = rows[u]
      BY <1>6, <2>3, <3>1
    <3> QED
      BY <3>1, <3>2 DEF BurstRow
  <2>5. \A question \in Questions : Seen(run[p], question) => BurstRow(question)'
    BY <1>3, <2>1, <2>3 DEF BurstRow
  <2> QED
    BY <1>1, <1>2, <2>3, <2>4, <2>5, RunGoesOn
<1> QED
  BY <1>4, <1>5, <1>6

LEMMA ReviewKeepsBursts ==
  ASSUME EvidenceInv, NEW t \in Triggers, Reviewed(t)
  PROVE  EvidenceInv'
<1>1. /\ rows \in [Triggers -> EvidenceRows] /\ rows[t].status = "pending" /\ Mark(t, "processed")
      /\ UNCHANGED <<failures, run>>
  BY DEF Reviewed, EvidenceInv
<1> PICK rec : rec = [rows[t] EXCEPT !.status = "processed"]
  OBVIOUS
<1>2. rec \in EvidenceRows /\ rec.about = rows[t].about /\ rec.status = "processed"
  BY <1>1 DEF EvidenceRows
<1>3. rows' = [rows EXCEPT ![t] = rec]
  <2>1. "processed" \notin Active
    BY DEF Active
  <2>2. rows' = [u \in Triggers |-> IF u = t THEN rec ELSE rows[u]]
    BY <1>1, <1>2, <2>1 DEF Mark, Save, Saved
  <2> QED
    BY <1>1, <2>2
<1>4. /\ rows' \in [Triggers -> EvidenceRows]
      /\ \A u \in Triggers : rows[u].status # "absent"
            => rows'[u].about = rows[u].about /\ rows'[u].status # "absent"
  BY <1>1, <1>2, <1>3
<1>5. \A question \in Questions : BurstRow(question) => BurstRow(question)'
  BY <1>4 DEF BurstRow
<1>6. \A question \in Questions : Count(question)' = Count(question)
  BY <1>1 DEF Count, RecentFailures
<1>7. ASSUME NEW question \in Questions PROVE BurstSound(question)'
  BY <1>1, <1>5, <1>6 DEF EvidenceInv, BurstSound
<1> QED
  BY <1>1, <1>4, <1>7 DEF EvidenceInv

(***************************************************************************)
(* However many runs fail side by side, and in whatever order they write   *)
(* their failures down, count them and write triggers, a burst of failures *)
(* among the newest has a row of its own or a run that is on the way to it *)
(* (record_failure, evaluate_failure_burst).                               *)
(***************************************************************************)
THEOREM BurstsAreReviewed == EvidenceSpec => []BurstIsReviewed
<1>1. ReviewInit /\ InitEvidence => EvidenceInv
  <2> SUFFICES ASSUME ReviewInit, InitEvidence PROVE EvidenceInv
    OBVIOUS
  <2>1. rows \in [Triggers -> EvidenceRows]
    BY DEF ReviewInit, NoRow, EvidenceRows, Subjects
  <2>2. run \in [AgentRuns -> RunRecords]
    BY DEF InitEvidence, FreshRun, RunRecords, AskedAbout, Kinds
  <2>3. failures = <<>> /\ failures \in Seq(AskedAbout)
    BY DEF InitEvidence
  <2>4. ASSUME NEW question \in Questions PROVE BurstSound(question)
    <3>1. About(failures, question) = {}
      <4>1. Oldest(failures) = 1 /\ Len(failures) = 0
        BY <2>3, EvidenceAssumption DEF Oldest
      <4> QED
        BY <4>1 DEF About
    <3>2. Count(question) = Cardinality(About(failures, question))
      <4>1. failures \in Seq(AskedAbout)
        BY <2>3
      <4> QED
        BY ONLY <4>1, CountIsAbout DEF Count, RecentFailures, Window, Oldest
    <3>3. Count(question) = 0
      BY <3>1, <3>2, FS_EmptySet
    <3> QED
      BY <3>3, EvidenceAssumption DEF BurstSound
  <2> QED
    BY <2>1, <2>2, <2>3, <2>4 DEF EvidenceInv
<1>2. EvidenceInv /\ [EvidenceStep]_<<reviewVars, evidence>> => EvidenceInv'
  <2>1. ASSUME EvidenceInv, NEW p \in AgentRuns, Record(p) PROVE EvidenceInv'
    BY <2>1, BeginKeepsBursts, FailureKeepsBursts, EvaluationKeepsBursts, EndKeepsBursts,
       MakeKeepsBursts DEF Record
  <2>2. ASSUME EvidenceInv, NEW t \in Triggers, Reviewed(t) PROVE EvidenceInv'
    BY <2>2, ReviewKeepsBursts
  <2>3. CASE EvidenceInv /\ UNCHANGED <<reviewVars, evidence>>
    <3>1. UNCHANGED <<rows, run, failures>>
      BY <2>3 DEF reviewVars, evidence
    <3>2. ASSUME NEW question \in Questions PROVE BurstSound(question)'
      BY <2>3, <3>1 DEF EvidenceInv, BurstSound, BurstRow, Seen, Count, RecentFailures
    <3> QED
      BY <2>3, <3>1, <3>2 DEF EvidenceInv
  <2> QED
    BY <2>1, <2>2, <2>3 DEF EvidenceStep
<1>3. EvidenceInv => BurstIsReviewed
  BY DEF EvidenceInv, BurstSound, BurstRow, Seen, BurstIsReviewed
<1> QED
  BY <1>1, <1>2, <1>3, PTL DEF EvidenceSpec
=============================================================================
