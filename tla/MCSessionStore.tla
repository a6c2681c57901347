--------------------------- MODULE MCSessionStore ---------------------------
(* Instances of the SQLite stores for TLC: a behaviour is one of the        *)
(* session store, of the memory or of the automations.                      *)
EXTENDS SessionRequirements, Automation, Memory, TLC

CONSTANTS c1, c2,        \* clients
          chat, web,     \* conversations: of a channel and of none
          ann,           \* a user
          m1, m2         \* messages

VARIABLE part

TwoClients == {c1, c2}
ChatAndWeb == {chat, web}
Web == {web}
Ann == {ann}
TwoMessages == {m1, m2}
EveryKind == {"open", "new", "child", "catalog", "append", "withdraw", "touch", "compact", "newer",
              "resume", "delete", "prune"}
ClientsAndMessages == Permutations(TwoClients) \cup Permutations(TwoMessages)

InitAny ==
  /\ Init /\ MemoryInit /\ AutomationInit
  /\ part \in {"messages", "contexts", "bindings", "memory", "prompt", "automation"}
  /\ part = "automation" \/ jobs["other"] = AbsentJob

\* Two clients with any calls: on the messages of one session, which no call
\* moves to another conversation; on one session's context; or on the bindings
\* and the lineage of two sessions.
Without(field, none) == \A c \in Clients : job'[c][field] = none
InSessions ==
  /\ \/ part = "messages" /\ created' <= 1 /\ row'[1].conv # web /\ Without("range", 0)
     \/ part = "contexts" /\ created' <= 1 /\ Without("message", <<>>)
     \/ part = "bindings" /\ Without("range", 0) /\ Without("message", <<>>)
  /\ UNCHANGED <<part, memoryVars, automationVars>>
\* Two calls at once write lines of one kind; one alone fills the prompt.
InMemory == part \in {"memory", "prompt"} /\ UNCHANGED <<part, vars, automationVars>>
OneLine ==
  \A c \in Callers :
    /\ call'[c].priority = 1 /\ call'[c].place \in {"none", "global"}
    /\ \A i \in DOMAIN call'[c].entries : call'[c].entries[i] = 1
OneCaller == \A c \in Callers : call'[c].kind \in (IF c = "t1" THEN {"none", "append"} ELSE {"none"})
\* One turn asks for anything, the other takes jobs away.
TwoTurns == \A t \in Turns : t = "t1" \/ wanted'[t].kind \in {"none", "delete"}
InAutomation == part = "automation" /\ UNCHANGED <<part, vars, memoryVars>>

NextAny ==
  \/ Next /\ InSessions
  \/ InMemory /\ MemoryNext /\ IF part = "memory" THEN OneLine ELSE OneCaller
  \/ InAutomation /\ AutomationNext /\ TwoTurns

SpecAny == InitAny /\ [][NextAny]_<<part, vars, memoryVars, automationVars>>
=============================================================================
