------------------------------- MODULE Learning -------------------------------
(***************************************************************************)
(* What the user and the automation make of the candidates that reviews    *)
(* leave (tools/builtins/self_improve_tool.py, self_improve/promotion.py,  *)
(* service.py, sqlite_store.py): skill candidates are edited, accepted,    *)
(* rejected and promoted to files; lesson candidates are judged and the    *)
(* active lessons are exported to a file of the system prompt.             *)
(*                                                                         *)
(* Every statement of SQLite is a step of its own: an update reads the row *)
(* again and writes it back whole.                                         *)
(***************************************************************************)
EXTENDS Integers, Sequences, FiniteSets

CONSTANTS
  Slugs,       \* names of skills
  MaxSkills,   \* skill candidates made
  MaxTexts,    \* texts of candidates
  Users,       \* threads that call the tool
  Lessons,     \* lesson candidates
  Topic,       \* lesson candidate -> topic
  Processors   \* automations that process candidates

VARIABLES
  skills,     \* sequence of skill candidates, the latest last
  folders,    \* slug -> the text of skills/<slug>/SKILL.md, or
              \* NoFolder or NoFile
  texts,      \* texts written
  user,       \* thread -> [at, op, on, row, slug]
  proposing,  \* the slug a review is about to propose, or "none"
  lessons,    \* lesson candidate -> status, "absent" before and after
  active,     \* the lessons in force
  file,       \* the lessons in the exported file
  processor   \* thread -> [at, todo, on, seen, verdict, accepted]

skillVars == <<skills, folders, texts, user, proposing>>
lessonVars == <<lessons, active, file, processor>>
vars == <<skillVars, lessonVars>>

NoFolder == -1
NoFile == 0

Row(status, slug, text) == [status |-> status, slug |-> slug, text |-> text]
NoOp == [at |-> "idle", op |-> "none", on |-> 0, row |-> Row("none", "none", 0),
         slug |-> "none"]
Resting == [at |-> "idle", todo |-> {}, on |-> "none", seen |-> {}, verdict |-> "none",
            accepted |-> FALSE]
Ops == {"accept", "reject", "edit", "promote"}

Init ==
  /\ skills = <<>> /\ folders = [s \in Slugs |-> NoFolder] /\ texts = 0
  /\ user = [u \in Users |-> NoOp] /\ proposing = "none"
  /\ lessons = [l \in Lessons |-> "absent"] /\ active = {} /\ file = {}
  /\ processor = [p \in Processors |-> Resting]

(***************************************************************************)
(* A review proposes a skill, unless its slug's latest candidate is still  *)
(* wanted.  Reviews are handled under one lock.                            *)
(***************************************************************************)
With(slug) == {c \in DOMAIN skills : skills[c].slug = slug}
Latest(set) == CHOOSE c \in set : \A d \in set : d <= c

CheckProposal(slug) ==
  /\ proposing = "none" /\ Len(skills) < MaxSkills
  /\ With(slug) # {} => skills[Latest(With(slug))].status = "rejected"
  /\ proposing' = slug
  /\ UNCHANGED <<skills, folders, texts, user, lessonVars>>

SaveProposal ==
  /\ proposing # "none" /\ texts < MaxTexts
  /\ texts' = texts + 1
  /\ skills' = Append(skills, Row("pending", proposing, texts + 1))
  /\ proposing' = "none"
  /\ UNCHANGED <<folders, user, lessonVars>>

(***************************************************************************)
(* The tool.                                                               *)
(***************************************************************************)
Wanted(op) == IF op = "promote" THEN "accepted" ELSE "pending"

At(u, step) == user[u].at = step
Steps(u, step) == user' = [user EXCEPT ![u].at = step]
Ends(u) == user' = [user EXCEPT ![u] = NoOp]

\* The candidate's status allows the action.
Begin(u, op, c) ==
  /\ At(u, "idle") /\ c \in DOMAIN skills
  /\ skills[c].status = Wanted(op)
  /\ \E slug \in (IF op = "edit" THEN Slugs ELSE {skills[c].slug}) :
       user' = [user EXCEPT ![u] =
                  [at |-> op, op |-> op, on |-> c, slug |-> slug,
                   row |-> IF op = "promote" THEN skills[c] ELSE NoOp.row]]
  /\ UNCHANGED <<skills, folders, texts, proposing, lessonVars>>

\* No other pending candidate has the slug.
CheckSlug(u) ==
  LET same == {c \in With(user[u].slug) : skills[c].status = "pending"}
  IN /\ At(u, "edit")
     /\ IF same # {} /\ Latest(same) # user[u].on THEN Ends(u) ELSE Steps(u, "read")
     /\ UNCHANGED <<skills, folders, texts, proposing, lessonVars>>

ReadAgain(u) ==
  /\ user[u].at \in {"accept", "reject", "read"}
  /\ user' = [user EXCEPT ![u].at = "write", ![u].row = skills[user[u].on]]
  /\ UNCHANGED <<skills, folders, texts, proposing, lessonVars>>

Changed(u) ==
  LET row == user[u].row
  IN CASE user[u].op = "accept" -> Row("accepted", row.slug, row.text)
       [] user[u].op = "reject" -> Row("rejected", row.slug, row.text)
       [] user[u].op = "edit" -> Row(row.status, user[u].slug, texts + 1)
       [] user[u].op = "promote" -> Row("promoted", row.slug, row.text)

WriteBack(u) ==
  /\ At(u, "write")
  /\ user[u].op = "edit" => texts < MaxTexts
  /\ skills' = [skills EXCEPT ![user[u].on] = Changed(u)]
  /\ texts' = IF user[u].op = "edit" THEN texts + 1 ELSE texts
  /\ Ends(u)
  /\ UNCHANGED <<folders, proposing, lessonVars>>

\* The directory must be new; if the file cannot be written it stays.
MakeFolderAnyway(u) ==
  /\ At(u, "promote")
  /\ Steps(u, "folder")
  /\ UNCHANGED <<skills, folders, texts, proposing, lessonVars>>

MakeFolder(u) ==
  /\ At(u, "promote")
  /\ IF folders[user[u].slug] # NoFolder THEN Ends(u) /\ UNCHANGED folders
     ELSE Steps(u, "folder") /\ folders' = [folders EXCEPT ![user[u].slug] = NoFile]
  /\ UNCHANGED <<skills, texts, proposing, lessonVars>>

WriteSkill(u) ==
  /\ At(u, "folder")
  /\ \/ folders' = [folders EXCEPT ![user[u].slug] = user[u].row.text] /\ Steps(u, "read")
     \/ UNCHANGED folders /\ Ends(u)
  /\ UNCHANGED <<skills, texts, proposing, lessonVars>>

Tool(u) ==
  \/ \E op \in Ops, c \in DOMAIN skills : Begin(u, op, c)
  \/ CheckSlug(u) \/ ReadAgain(u) \/ WriteBack(u) \/ MakeFolder(u) \/ WriteSkill(u)

(***************************************************************************)
(* Lessons.                                                                *)
(***************************************************************************)
SaveCandidate(l) ==
  /\ lessons[l] = "absent"
  /\ lessons' = [lessons EXCEPT ![l] = "pending"]
  /\ UNCHANGED <<skillVars, active, file, processor>>

DeleteCandidate(l) ==
  /\ lessons[l] # "absent"
  /\ lessons' = [lessons EXCEPT ![l] = "absent"]
  /\ UNCHANGED <<skillVars, active, file, processor>>

\* The candidates that are pending when the pass begins.
BeginPass(p) ==
  /\ processor[p].at = "idle"
  /\ processor' = [processor EXCEPT ![p] =
       [Resting EXCEPT !.at = "next", !.todo = {l \in Lessons : lessons[l] = "pending"}]]
  /\ UNCHANGED <<skillVars, lessons, active, file>>

\* The lessons in force are read before the judge, a model, is asked.
Consider(p) ==
  /\ processor[p].at = "next"
  /\ \E l \in processor[p].todo :
       processor' = [processor EXCEPT
         ![p].at = "judging", ![p].on = l, ![p].todo = @ \ {l}, ![p].seen = active]
  /\ UNCHANGED <<skillVars, lessons, active, file>>

Topics(set) == {Topic[l] : l \in set}

AddLesson(l) == active' = active \union {l}
ReplaceLesson(l) == active' = {m \in active : Topic[m] # Topic[l]} \union {l}

\* A topic already in force is refused; a new lesson takes its topic over.
Judge(p) ==
  LET l == processor[p].on
      Verdict(v) == processor' = [processor EXCEPT ![p].at = "mark", ![p].verdict = v]
  IN /\ processor[p].at = "judging"
     /\ \/ Verdict("rejected") /\ UNCHANGED active
        \/ /\ Topic[l] \notin Topics(processor[p].seen)
           /\ ReplaceLesson(l)
           /\ Verdict("accepted")
     /\ UNCHANGED <<skillVars, lessons, file>>

\* The candidate may have been deleted meanwhile: the pass ends there.
FindCandidate(p) ==
  /\ processor[p].at = "mark"
  /\ IF lessons[processor[p].on] = "absent"
     THEN processor' = [processor EXCEPT ![p] = Resting]
     ELSE processor' = [processor EXCEPT ![p].at = "save"]
  /\ UNCHANGED <<skillVars, lessons, active, file>>

\* The row is written whole, deleted or not.
SaveVerdict(p) ==
  LET verdict == processor[p].verdict
  IN /\ processor[p].at = "save"
     /\ lessons' = [lessons EXCEPT ![processor[p].on] = verdict]
     /\ processor' = [processor EXCEPT
          ![p] = [Resting EXCEPT !.at = "next", !.todo = processor[p].todo,
                  !.accepted = processor[p].accepted \/ verdict = "accepted"]]
     /\ UNCHANGED <<skillVars, active, file>>

ReadLessons(p) ==
  /\ processor[p].at = "next" /\ processor[p].todo = {}
  /\ processor' = [processor EXCEPT ![p] =
       IF @.accepted THEN [Resting EXCEPT !.at = "export", !.seen = active] ELSE Resting]
  /\ UNCHANGED <<skillVars, lessons, active, file>>

Export(p) ==
  /\ processor[p].at = "export"
  /\ file' = processor[p].seen
  /\ processor' = [processor EXCEPT ![p] = Resting]
  /\ UNCHANGED <<skillVars, lessons, active>>

Process(p) ==
  \/ BeginPass(p) \/ Consider(p) \/ Judge(p) \/ FindCandidate(p) \/ SaveVerdict(p)
  \/ ReadLessons(p) \/ Export(p)

Restart ==
  /\ user' = [u \in Users |-> NoOp] /\ proposing' = "none"
  /\ processor' = [p \in Processors |-> Resting]
  /\ UNCHANGED <<skills, folders, texts, lessons, active, file>>

SkillStep ==
  \/ \E slug \in Slugs : CheckProposal(slug)
  \/ SaveProposal
  \/ \E u \in Users : Tool(u)

LessonStep ==
  \/ \E l \in Lessons : SaveCandidate(l) \/ DeleteCandidate(l)
  \/ \E p \in Processors : Process(p)

Next == SkillStep \/ LessonStep \/ Restart
Spec == Init /\ [][Next]_vars

-----------------------------------------------------------------------------
(***************************************************************************)
(* What becomes of the candidates.                                         *)
(***************************************************************************)

Written(slug) == folders[slug] \notin {NoFolder, NoFile}

(***************************************************************************)
(* A skill that has been written is never written over: two promotions, of *)
(* two candidates that an edit gave one slug or of one candidate by two    *)
(* users, cannot both reach the file (promote_skill_candidate).            *)
(***************************************************************************)
SkillFileStands ==
  \A s \in Slugs : Written(s) => folders'[s] = folders[s]

(***************************************************************************)
(* One lesson of a topic is in force, although a processor asks its judge  *)
(* about a list of lessons that another one may have changed since         *)
(* (save_lesson, process_pending_candidates).                              *)
(***************************************************************************)
OneLessonPerTopic ==
  \A l, m \in active : Topic[l] = Topic[m] => l = m

\* What was decided stands: a skill's file, and one lesson of a topic (the two
\* promises above).
DecisionsStand == [][SkillFileStands /\ OneLessonPerTopic']_vars
=============================================================================
