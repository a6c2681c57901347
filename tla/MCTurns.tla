------------------------------- MODULE MCTurns -------------------------------
(* Instances of the conversation lanes and of the turns they let through,    *)
(* for TLC. A behaviour works on one of the two: Turns needs of the lanes    *)
(* that one message of a conversation is at work and that the first one that *)
(* waits is next, which is what module FifoLock says and ConversationLanes   *)
(* is checked against.                                                       *)
EXTENDS ConversationLanes, Turns

CONSTANTS
  r1, r2, r3, r4, r5, chat, group    \* requests, their conversations

VARIABLE part

\* Five requests of two conversations, three in one and two in the other.
MCRuns == {r1, r2, r3, r4, r5}
MCLanes == {chat, group}
MCLaneOf == [r \in MCRuns |-> IF r \in {r1, r2, r3} THEN chat ELSE group]

\* One message of a conversation, two of another of the same user, and two
\* triggers of an automation.
Where == [t \in Messages \union Triggers |->
            CASE t = "m1" -> "c1" [] t \in {"m2", "m3"} -> "c2" [] OTHER -> "a"]
Whose == [c \in Conversations |-> IF c = "a" THEN "nobody" ELSE "u"]
Asked == [t \in Messages \union Triggers |-> IF t = "m3" THEN "expert" ELSE "none"]
NotPinned == [c \in Conversations |-> "none"]
FewCalls == [t \in Messages \union Triggers |-> IF t \in {"m2", "a1"} THEN 1 ELSE 0]

\* The turns that come: the others are over from the start.
InitTurns ==
  \E some \in {Messages, Triggers, {}} :
    /\ lane = [c \in Conversations |-> "free"]
    /\ bound = [c \in Conversations |-> "none"]
    /\ rows = [s \in Sessions |-> NoRow]
    /\ sent = {}
    /\ turn = [t \in AllTurns |->
                 IF t \in some THEN NewTurn ELSE [NewTurn EXCEPT !.at = "raised"]]
    /\ part = IF some = {} THEN "lanes" ELSE "turns"

InLanes == part = "lanes" /\ UNCHANGED <<part, turnsVars>>
InTurns == part = "turns" /\ UNCHANGED <<part, vars>>

allVars == <<part, vars, turnsVars>>

NextLanes ==
  \E r \in Runs :
    \/ Acquire(r) /\ InLanes
    \/ Wake(r) /\ InLanes
    \/ Release(r) /\ InLanes

NextTurns ==
  \E t \in AllTurns :
    \/ Begin(t) /\ InTurns
    \/ Work(t) /\ InTurns
    \/ Raise(t) /\ InTurns

InitSome == Init /\ InitTurns

\* Threads go on. No thread comes back to where it was without another's
\* progress, so fairness of their steps together is fairness of each.
Obliged ==
  \/ \E r \in Runs : InLanes /\ (Wake(r) \/ Release(r))
  \/ \E t \in AllTurns : InTurns /\ (Work(t) \/ Enter(t))

SpecSome ==
  InitSome /\ [][NextLanes \/ NextTurns]_allVars /\ WF_allVars(Obliged)
=============================================================================
