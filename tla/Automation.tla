----------------------------- MODULE Automation -------------------------------
(***************************************************************************)
(* The scheduled jobs (automation/store.py, sqlite_store.py) and the       *)
(* automation tool, called by several turns at once: every call is a chain *)
(* of reads and whole-row writes.  Each start of the service migrates the  *)
(* table, saves the configured jobs and makes sure of the internal one.    *)
(***************************************************************************)
EXTENDS Naturals, FiniteSets

CONSTANTS
  Turns,      \* turns that may call the tool at the same time
  Contents,   \* what a job is to do, for whom and when
  Configured  \* what config/automations.toml may ask for

VARIABLES
  jobs,     \* table automations: id -> row, or AbsentJob
  running, \* the service is up
  doing,   \* turn -> "idle" or the step its call is at
  wanted   \* turn -> its request, with the job it has read

automationVars == <<jobs, running, doing, wanted>>

\* The internal job, a job of config/automations.toml and one more.
Ids == {"internal", "configured", "other"}
Agents == {"main", "assistant"}   \* "assistant" is the old name of "main"

AbsentJob == [agent |-> "main", content |-> "none", enabled |-> FALSE, internal |-> FALSE, print |-> <<>>]
\* build_automation_semantic_fingerprint.
Fingerprint(agent, content) == <<agent, content>>
NoRequest == [kind |-> "none", id |-> "none", content |-> "none", read |-> AbsentJob]

\* AutomationJob of a row or of values: the agent's name is the canonical one,
\* a fingerprint that is there is kept.
Canonical(j) ==
  [j EXCEPT !.agent = "main",
            !.print = IF @ = <<>> THEN Fingerprint("main", j.content) ELSE @]
Made(content, internal) ==
  Canonical([AbsentJob EXCEPT !.content = content, !.enabled = TRUE, !.internal = internal])

HasJob(id) == jobs[id] # AbsentJob
Read(id) == Canonical(jobs[id])
Public(id) == HasJob(id) /\ ~jobs[id].internal

\* Tables of older versions: the old agent name, and no fingerprint or one made
\* with that name.
OldRows ==
  {AbsentJob} \union
  {[agent |-> agent, content |-> content, enabled |-> on, internal |-> FALSE,
    print |-> IF print THEN Fingerprint(agent, content) ELSE <<>>] :
     agent \in Agents, content \in Contents, on \in BOOLEAN, print \in BOOLEAN}

AutomationInit ==
  /\ \E old \in OldRows : jobs = [id \in Ids |-> IF id = "other" THEN old ELSE AbsentJob]
  /\ running = FALSE
  /\ doing = [t \in Turns |-> "idle"]
  /\ wanted = [t \in Turns |-> NoRequest]

-----------------------------------------------------------------------------
(* A start.                                                                *)

\* _init_schema: one transaction.
Migrated(j) ==
  IF j.agent = "assistant" THEN [j EXCEPT !.agent = "main", !.print = Fingerprint("main", j.content)]
  ELSE j

\* Configured jobs are saved over what is there, the internal one if it is not.
Start ==
  /\ ~running
  /\ running' = TRUE
  /\ \E content \in Configured :
       jobs' = [id \in Ids |->
                 CASE id = "configured" -> Made(content, FALSE)
                   [] id = "internal" /\ ~HasJob(id) -> Made("review", TRUE)
                   [] OTHER -> Migrated(jobs[id])]
  /\ UNCHANGED <<doing, wanted>>

Stop ==
  /\ running
  /\ running' = FALSE
  /\ doing' = [t \in Turns |-> "idle"]
  /\ wanted' = [t \in Turns |-> NoRequest]
  /\ UNCHANGED jobs

-----------------------------------------------------------------------------
(* The tool.                                                               *)

GoOn(t, step) == doing' = [doing EXCEPT ![t] = step]
Over(t) == GoOn(t, "idle") /\ wanted' = [wanted EXCEPT ![t] = NoRequest]

BeginCall(t, request) ==
  /\ running /\ doing[t] = "idle"
  /\ wanted' = [wanted EXCEPT ![t] = request]
  /\ UNCHANGED <<jobs, running>>

\* An enabled job with the fingerprint of the request, computed from the values
\* as they came, is the answer of a registration.
Equivalent(id, agent, content) ==
  HasJob(id) /\ Read(id).enabled /\ Read(id).print = Fingerprint(agent, content)

Register(t, id, agent, content) ==
  /\ \A i \in Ids : ~Equivalent(i, agent, content)
  /\ BeginCall(t, [NoRequest EXCEPT !.kind = "register", !.id = id, !.content = content])
  /\ GoOn(t, "save")

\* create_job saves by id, over whatever job has it.
SaveRegistered(t) ==
  /\ doing[t] = "save" /\ wanted[t].kind = "register"
  /\ jobs' = [jobs EXCEPT ![wanted[t].id] = Made(wanted[t].content, FALSE)]
  /\ Over(t)
  /\ UNCHANGED running

\* _get_public_automation.
Found(id) == Public(id)

\* update, pause and resume: the tool looks at the job, the store reads it
\* again and writes it whole.
Change(t, kind, id, content) ==
  /\ Found(id)
  /\ BeginCall(t, [NoRequest EXCEPT !.kind = kind, !.id = id, !.content = content])
  /\ GoOn(t, "get")

Get(t) ==
  /\ doing[t] = "get" /\ HasJob(wanted[t].id)
  /\ wanted' = [wanted EXCEPT ![t].read = Read(wanted[t].id)]
  /\ GoOn(t, "save")
  /\ UNCHANGED <<jobs, running>>

\* Deleted in between: KeyError.
Missing(t) ==
  /\ doing[t] = "get" /\ ~HasJob(wanted[t].id)
  /\ Over(t)
  /\ UNCHANGED <<jobs, running>>

\* Mutant: the fingerprint of the job as it was read.
Reprinted(j) == j

\* The fingerprint is made anew.
WithFingerprint(j) == [j EXCEPT !.print = Fingerprint(j.agent, j.content)]

\* The row is inserted again if it has been deleted in between.
SaveChanged(t) ==
  /\ doing[t] = "save" /\ wanted[t].kind \in {"update", "pause", "resume"}
  /\ LET w == wanted[t]
         changed == CASE w.kind = "update" -> [w.read EXCEPT !.content = w.content]
                      [] w.kind = "pause" -> [w.read EXCEPT !.enabled = FALSE]
                      [] w.kind = "resume" -> [w.read EXCEPT !.enabled = TRUE]
     IN  jobs' = [jobs EXCEPT ![w.id] = WithFingerprint(changed)]
  /\ Over(t)
  /\ UNCHANGED running

DeleteJob(t, id) ==
  /\ Found(id)
  /\ BeginCall(t, [NoRequest EXCEPT !.kind = "delete", !.id = id])
  /\ GoOn(t, "delete")

DeleteRow(t) ==
  /\ doing[t] = "delete"
  /\ jobs' = [jobs EXCEPT ![wanted[t].id] = AbsentJob]
  /\ Over(t)
  /\ UNCHANGED running

AutomationNext ==
  \/ Start \/ Stop
  \/ \E t \in Turns :
       \/ \E id \in Ids, agent \in Agents, content \in Contents : Register(t, id, agent, content)
       \/ \E id \in Ids, kind \in {"pause", "resume"} : Change(t, kind, id, "none")
       \/ \E id \in Ids, content \in Contents : Change(t, "update", id, content)
       \/ \E id \in Ids : DeleteJob(t, id)
       \/ SaveRegistered(t) \/ Get(t) \/ Missing(t) \/ SaveChanged(t) \/ DeleteRow(t)

-----------------------------------------------------------------------------
(* Requirements.                                                           *)

\* While the service is up, a registration that asks for what an enabled job
\* does finds it: every job has the fingerprint of what it does, whatever
\* version wrote it and whoever changed it since.
FingerprintTells ==
  running => \A id \in Ids : HasJob(id) => Read(id).print = Fingerprint("main", Read(id).content)

=============================================================================
