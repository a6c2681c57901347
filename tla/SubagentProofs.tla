--------------------------- MODULE SubagentProofs ---------------------------
(****************************************************************************)
(* What holds of the subagent service for any number of tasks, slots,       *)
(* callers and failures.                                                    *)
(****************************************************************************)
EXTENDS SubagentRequirements, FiniteSetTheorems, WellFoundedInduction, TLAPS

\* The order of creation is well founded.
NatLess == {ss \in Nat \X Nat : ss[1] < ss[2]}

\* A set of tasks that is not empty has an earliest one.
LEMMA EarliestInSet ==
    ASSUME NEW S \in SUBSET Tasks, S # {}
    PROVE  Earliest(S) \in S
<1>1. IsWellFoundedOn(NatLess, Nat)
  BY NatLessThanWellFounded DEF OpToRel, NatLess
<1>2. S \subseteq Nat
  BY BoundsAssumption DEF Tasks
<1>3. PICK n \in S : \A m \in S : <<m, n>> \notin NatLess
  BY <1>1, <1>2, WFMin
<1>4. ASSUME NEW m \in S PROVE n <= m
  <2>1. m \in Nat /\ n \in Nat
    BY <1>2
  <2>2. m < n => <<m, n>> \in NatLess
    BY <2>1 DEF NatLess
  <2> QED
    BY <1>3, <2>1, <2>2
<1> QED
  BY <1>4 DEF Earliest

-----------------------------------------------------------------------------
\* A caller at work on a task has one, and has none before; without this a caller
\* could report on a task that does not exist, and TypeOK alone is not inductive.
CallHasTask == \A c \in Callers :
    /\ at[c] \notin {"idle", "check", "done", "cleared"} => todo[c] # {}
    /\ at[c] = "idle" => todo[c] = {}

\* The service starts with every variable of its type.
LEMMA InitType == Init => TypeOK
  BY BoundsAssumption DEF Init, TypeOK, Statuses, SupPlaces, WrkPlaces, CallPlaces

\* The choice of the next task picks a task, and gives it a slot.
LEMMA StartNextType ==
    ASSUME TypeOK, NEW who \in {"go"} \cup Callers, StartNext(who)
    PROVE  /\ running' \subseteq Tasks
           /\ decided' \in [Tasks -> {"no", "go", "recheck"} \cup Callers]
<1>1. CASE Full \/ Startable = {}
  BY <1>1 DEF StartNext, slotVars, TypeOK
<1>2. CASE ~(Full \/ Startable = {})
  <2>1. Startable \in SUBSET Tasks
    BY DEF Startable, Queued
  <2>2. Earliest(Startable) \in Tasks
    BY <1>2, <2>1, EarliestInSet
  <2> QED
    BY <1>2, <2>2 DEF StartNext, TypeOK
<1> QED
  BY <1>1, <1>2

\* Every step keeps the types.
LEMMA NextType == TypeOK /\ CallHasTask /\ [Next]_vars => TypeOK'
<1> SUFFICES ASSUME TypeOK, CallHasTask, [Next]_vars PROVE TypeOK'
  OBVIOUS
<1> USE DEF TypeOK, Statuses, SupPlaces, WrkPlaces, CallPlaces, Terminal, taskVars,
        parentVars, dictVars, slotVars, serviceVars, supVars, wrkVars, callerVars,
        supOnly, wrkOnly, callerOnly
<1>1. ASSUME NEW t \in Tasks, SupStep(t) PROVE TypeOK'
  <2> USE DEF Sup, Post, MarkTerminal, Assign
  <2>1. CASE SupCheck(t) BY <2>1 DEF SupCheck
  <2>2. CASE SupRefused(t) BY <2>2 DEF SupRefused
  <2>3. CASE SupReserve(t) BY <2>3 DEF SupReserve
  <2>4. CASE SupMark(t) BY <2>4 DEF SupMark
  <2>5. CASE SupMarkRaises(t) BY <2>5 DEF SupMarkRaises
  <2>6. CASE SupFork(t) BY <2>6 DEF SupFork
  <2>7. CASE SupJoin(t) BY <2>7 DEF SupJoin
  <2>8. CASE SupLate(t) BY <2>8 DEF SupLate
  <2>9. CASE SupExpire(t) BY <2>9 DEF SupExpire
  <2>10. CASE SupRevoke(t) BY <2>10 DEF SupRevoke
  <2>11. CASE SupPost(t) BY <2>11 DEF SupPost
  <2>12. CASE SupMarkTimedOut(t) BY <2>12 DEF SupMarkTimedOut
  <2>13. CASE SupReport(t) BY <2>13 DEF SupReport
  <2>14. CASE SupFault(t) BY <2>14, BoundsAssumption DEF SupFault, Fault
  <2>15. CASE SupRelease(t) BY <2>15 DEF SupRelease, ReleaseSlot
  <2>16. CASE SupNext(t)
    BY <2>16, StartNextType DEF SupNext
  <2>17. CASE SupSet(t) BY <2>17 DEF SupSet
  <2>18. CASE SupSetTimedOut(t) BY <2>18 DEF SupSetTimedOut
  <2> QED
    BY <1>1, <2>1, <2>2, <2>3, <2>4, <2>5, <2>6, <2>7, <2>8, <2>9, <2>10, <2>11, <2>12,
       <2>13, <2>14, <2>15, <2>16, <2>17, <2>18 DEF SupStep
<1>2. ASSUME NEW t \in Tasks, WrkStep(t) PROVE TypeOK'
  <2> USE DEF Wrk, Post, MarkTerminal, Assign
  <2>1. CASE WrkStart(t) BY <2>1 DEF WrkStart
  <2>2. CASE WrkRunEnds(t) BY <2>2 DEF WrkRunEnds
  <2>3. CASE WrkWinCheck(t) BY <2>3 DEF WrkWinCheck
  <2>4. CASE WrkWinPost(t) BY <2>4 DEF WrkWinPost
  <2>5. CASE WrkWinMark(t) BY <2>5 DEF WrkWinMark
  <2>6. CASE WrkFailCheck(t) BY <2>6 DEF WrkFailCheck
  <2>7. CASE WrkFailMark(t) BY <2>7 DEF WrkFailMark
  <2>8. CASE WrkFailPost(t) BY <2>8 DEF WrkFailPost
  <2>9. CASE WrkReport(t) BY <2>9 DEF WrkReport
  <2>10. CASE WrkFault(t) BY <2>10, BoundsAssumption DEF WrkFault, Fault
  <2>11. CASE WrkExcept(t) BY <2>11 DEF WrkExcept
  <2>12. CASE WrkFinish(t) BY <2>12 DEF WrkFinish, ReleaseSlot
  <2>13. CASE WrkNext(t)
    BY <2>13, StartNextType DEF WrkNext
  <2>14. CASE WrkWinSet(t) BY <2>14 DEF WrkWinSet
  <2>15. CASE WrkPay(t) BY <2>15 DEF WrkPay
  <2>16. CASE WrkFailSet(t) BY <2>16 DEF WrkFailSet
  <2> QED
    BY <1>2, <2>1, <2>2, <2>3, <2>4, <2>5, <2>6, <2>7, <2>8, <2>9, <2>10, <2>11, <2>12,
       <2>13, <2>14, <2>15, <2>16 DEF WrkStep
<1>3. ASSUME NEW c \in Callers, CancelBegin(c) \/ ShutdownBegin(c) \/ CallerStep(c)
      PROVE  TypeOK'
  <2> USE DEF Call, Post, MarkTerminal, Assign, Dismiss
  <2>1. CASE CancelBegin(c) BY <2>1 DEF CancelBegin
  <2>2. CASE ShutdownBegin(c) BY <2>2 DEF ShutdownBegin, Outstanding
  <2>3. CASE CallerSkip(c) BY <2>3 DEF CallerSkip
  <2>4. CASE CallerCheck(c)
    <3>1. Victim(c) \in Tasks
      BY <2>4, EarliestInSet DEF CallerCheck, Victim
    <3> QED
      BY <2>4, <3>1 DEF CallerCheck
  <2>5. CASE CallerLook(c) BY <2>5 DEF CallerLook
  <2>6. CASE CallerSignal(c) BY <2>6 DEF CallerSignal
  <2>7. CASE CallerRevoke(c) BY <2>7 DEF CallerRevoke
  <2>8. CASE CallerMark(c) BY <2>8 DEF CallerMark
  <2>9. CASE CallerPost(c) BY <2>9 DEF CallerPost
  <2>10. CASE CallerReport(c)
    <3>1. at' \in [Callers -> CallPlaces] BY <2>10 DEF CallerReport
    <3>2. todo' \in [Callers -> SUBSET Tasks] BY <2>10 DEF CallerReport
    <3>3. Victim(c) \in Tasks
      BY <2>10, EarliestInSet DEF CallerReport, CallHasTask, Victim
    <3>4. reported' \subseteq Tasks BY <2>10, <3>3 DEF CallerReport
    <3> QED BY <2>10, <3>1, <3>2, <3>4 DEF CallerReport
  <2>11. CASE CallerFault(c) BY <2>11, BoundsAssumption DEF CallerFault, Fault
  <2>12. CASE CallerRelease(c) BY <2>12 DEF CallerRelease, ReleaseSlot
  <2>13. CASE CallerNext(c)
    BY <2>13, StartNextType DEF CallerNext
  <2>14. CASE CancelReturns(c) BY <2>14 DEF CancelReturns
  <2>15. CASE ShutdownClears(c) BY <2>15 DEF ShutdownClears
  <2>16. CASE CallerSet(c) BY <2>16 DEF CallerSet
  <2> QED
    BY <1>3, <2>1, <2>2, <2>3, <2>4, <2>5, <2>6, <2>7, <2>8, <2>9, <2>10, <2>11, <2>12,
       <2>13, <2>14, <2>15, <2>16 DEF CallerStep
<1>4. ASSUME NEW t \in Tasks, Spawn(t) PROVE TypeOK'
  BY <1>4 DEF Spawn
<1>5. ASSUME NEW t \in Tasks, Launch(t) PROVE TypeOK'
  BY <1>5 DEF Launch
<1>6. CASE ReleaseDeferred
  BY <1>6 DEF ReleaseDeferred, Queued
<1>7. CASE UNCHANGED vars
  BY <1>7 DEF vars
<1> QED
  BY <1>1, <1>2, <1>3, <1>4, <1>5, <1>6, <1>7 DEF Next

\* Only a caller's own step changes what callers know.
LEMMA CallersMoveAlone ==
    ASSUME [Next]_vars
    PROVE  \/ UNCHANGED callerVars
           \/ \E c \in Callers : CancelBegin(c) \/ ShutdownBegin(c) \/ CallerStep(c)
<1> USE DEF supOnly, wrkOnly
<1>1. ASSUME NEW t \in Tasks, SupStep(t) PROVE UNCHANGED callerVars
  BY <1>1 DEF SupStep, SupCheck, SupRefused, SupReserve, SupMark, SupSet, SupMarkRaises,
     SupFork, SupJoin, SupLate, SupExpire, SupRevoke, SupPost, SupMarkTimedOut,
     SupSetTimedOut, SupReport, SupFault, SupRelease, SupNext
<1>2. ASSUME NEW t \in Tasks, WrkStep(t) PROVE UNCHANGED callerVars
  BY <1>2 DEF WrkStep, WrkStart, WrkRunEnds, WrkWinCheck, WrkWinPost, WrkWinMark,
     WrkWinSet, WrkPay, WrkFailCheck, WrkFailMark, WrkFailSet, WrkFailPost, WrkReport,
     WrkFault, WrkExcept, WrkFinish, WrkNext
<1>3. ASSUME NEW t \in Tasks, Spawn(t) \/ Launch(t) PROVE UNCHANGED callerVars
  BY <1>3 DEF Spawn, Launch
<1>4. CASE ReleaseDeferred
  BY <1>4 DEF ReleaseDeferred
<1> QED
  BY <1>1, <1>2, <1>3, <1>4 DEF Next, vars

\* Every step keeps a task for the caller at work.
LEMMA NextCallHasTask == TypeOK /\ CallHasTask /\ [Next]_vars => CallHasTask'
<1> SUFFICES ASSUME TypeOK, CallHasTask, [Next]_vars PROVE CallHasTask'
  OBVIOUS
<1> USE DEF TypeOK, CallHasTask, callerVars, supOnly, wrkOnly, callerOnly
<1>1. CASE UNCHANGED callerVars
  BY <1>1
<1>2. ASSUME NEW c \in Callers, CancelBegin(c) \/ ShutdownBegin(c) \/ CallerStep(c)
      PROVE  CallHasTask'
  <2> USE <1>2 DEF Call, MarkTerminal, Dismiss
  <2>1. CASE CancelBegin(c) BY <2>1 DEF CancelBegin
  <2>2. CASE ShutdownBegin(c) BY <2>2 DEF ShutdownBegin
  <2>3. CASE CallerSkip(c) BY <2>3 DEF CallerSkip
  <2>4. CASE CallerCheck(c) BY <2>4 DEF CallerCheck
  <2>5. CASE CallerLook(c) BY <2>5 DEF CallerLook
  <2>6. CASE CallerSignal(c) BY <2>6 DEF CallerSignal
  <2>7. CASE CallerRevoke(c) BY <2>7 DEF CallerRevoke
  <2>8. CASE CallerMark(c) BY <2>8 DEF CallerMark
  <2>9. CASE CallerPost(c) BY <2>9 DEF CallerPost
  <2>10. CASE CallerReport(c) BY <2>10 DEF CallerReport
  <2>11. CASE CallerFault(c) BY <2>11 DEF CallerFault
  <2>12. CASE CallerRelease(c) BY <2>12 DEF CallerRelease
  <2>13. CASE CallerNext(c) BY <2>13 DEF CallerNext
  <2>14. CASE CancelReturns(c) BY <2>14 DEF CancelReturns
  <2>15. CASE ShutdownClears(c) BY <2>15 DEF ShutdownClears
  <2>16. CASE CallerSet(c) BY <2>16 DEF CallerSet
  <2> QED
    BY <2>1, <2>2, <2>3, <2>4, <2>5, <2>6, <2>7, <2>8, <2>9, <2>10, <2>11, <2>12,
       <2>13, <2>14, <2>15, <2>16 DEF CallerStep
<1> QED
  BY <1>1, <1>2, CallersMoveAlone

\* Types and busy callers hold together.
LEMMA TypeAndCalls == Spec => [](TypeOK /\ CallHasTask)
<1>1. Init => TypeOK /\ CallHasTask
  BY InitType DEF Init, CallHasTask
<1>2. TypeOK /\ CallHasTask /\ [Next]_vars => (TypeOK /\ CallHasTask)'
  BY NextType, NextCallHasTask
<1> QED
  BY <1>1, <1>2, PTL DEF Spec

\* The types, for every number of tasks, slots and callers.
THEOREM TypeCorrect == Spec => []TypeOK
  BY TypeAndCalls, PTL

-----------------------------------------------------------------------------
\* The places that reserve slots look for room under the same lock.

\* A subset of a legal set of slots is legal, and so is one slot more when there
\* is room.
LEMMA Slots ==
    ASSUME TypeOK, CapacityRespected
    PROVE  /\ IsFiniteSet(running)
           /\ \A S \in SUBSET running : Cardinality(S) <= MaxConcurrent
           /\ \A x : ~Full => Cardinality(running \cup {x}) <= MaxConcurrent
<1>1. IsFiniteSet(running)
  <2>1. running \subseteq Tasks
    BY DEF TypeOK
  <2>2. IsFiniteSet(1..NumTasks)
    BY FS_Interval, BoundsAssumption
  <2> QED
    BY <2>1, <2>2, FS_Subset DEF Tasks
<1>2. Cardinality(running) \in Nat
  BY <1>1, FS_CardinalityType
<1>3. ASSUME NEW S \in SUBSET running PROVE Cardinality(S) <= MaxConcurrent
  <2>1. Cardinality(S) \in Nat /\ Cardinality(S) <= Cardinality(running)
    BY <1>1, FS_Subset, FS_CardinalityType
  <2> QED
    BY <1>2, <2>1, BoundsAssumption DEF CapacityRespected
<1>4. ASSUME NEW x, ~Full PROVE Cardinality(running \cup {x}) <= MaxConcurrent
  <2>1. CASE x \in running
    <3>1. running \cup {x} = running
      BY <2>1
    <3> QED
      BY <3>1 DEF CapacityRespected
  <2>2. CASE x \notin running
    <3>1. Cardinality(running \cup {x}) = Cardinality(running) + 1
      BY <1>1, <2>2, FS_AddElement
    <3> QED
      BY <1>2, <1>4, <3>1, BoundsAssumption DEF Full
  <2> QED
    BY <2>1, <2>2
<1> QED
  BY <1>1, <1>3, <1>4

\* How a step can change the slots.
LEMMA SlotMoves ==
    ASSUME TypeOK, [Next]_vars
    PROVE  \/ running' \subseteq running
           \/ (~Full /\ \E x \in Tasks : running' = running \cup {x})
           \/ (running' # {} /\ Cardinality(running') <= MaxConcurrent)
<1> USE DEF supOnly, wrkOnly, callerOnly, serviceVars, slotVars
<1>1. ASSUME NEW who, StartNext(who)
      PROVE  \/ running' = running
             \/ (~Full /\ \E x \in Tasks : running' = running \cup {x})
  <2>1. CASE Full \/ Startable = {}
    BY <1>1, <2>1 DEF StartNext
  <2>2. CASE ~(Full \/ Startable = {})
    <3>1. Earliest(Startable) \in Tasks
      BY <2>2, EarliestInSet DEF Startable, Queued
    <3> QED
      BY <1>1, <2>2, <3>1 DEF StartNext
  <2> QED
    BY <2>1, <2>2
<1>2. ASSUME NEW t \in Tasks, SupReserve(t)
      PROVE  running' = running \/ (~Full /\ running' = running \cup {t})
  BY <1>2 DEF SupReserve
<1>3. ASSUME NEW t \in Tasks, SupStep(t), ~SupReserve(t), ~SupNext(t)
      PROVE  running' \subseteq running
  BY <1>3 DEF SupStep, SupCheck, SupRefused, SupMark, SupSet, SupMarkRaises, SupFork,
     SupJoin, SupLate, SupExpire, SupRevoke, SupPost, SupMarkTimedOut, SupSetTimedOut,
     SupReport, SupFault, SupRelease, ReleaseSlot
<1>4. ASSUME NEW t \in Tasks, WrkStep(t), ~WrkNext(t)
      PROVE  running' \subseteq running
  BY <1>4 DEF WrkStep, WrkStart, WrkRunEnds, WrkWinCheck, WrkWinPost, WrkWinMark,
     WrkWinSet, WrkPay, WrkFailCheck, WrkFailMark, WrkFailSet, WrkFailPost, WrkReport,
     WrkFault, WrkExcept, WrkFinish, ReleaseSlot
<1>5. ASSUME NEW c \in Callers, CallerStep(c), ~CallerNext(c)
      PROVE  running' \subseteq running
  BY <1>5 DEF CallerStep, CallerSkip, CallerCheck, CallerLook, CallerSignal,
     CallerRevoke, CallerMark, CallerSet, CallerPost, CallerReport, CallerFault,
     CallerRelease, CancelReturns, ShutdownClears, ReleaseSlot
<1>6. ASSUME NEW c \in Callers, CancelBegin(c) \/ ShutdownBegin(c)
      PROVE  running' = running
  BY <1>6 DEF CancelBegin, ShutdownBegin
<1>7. ASSUME NEW t \in Tasks, Spawn(t)
      PROVE  running' = running \/ (~Full /\ running' = running \cup {t})
  BY <1>7 DEF Spawn
<1>8. ASSUME NEW t \in Tasks, Launch(t) PROVE running' = running
  BY <1>8 DEF Launch
<1>9. ASSUME ReleaseDeferred
      PROVE  \/ running' = running
             \/ (running' # {} /\ Cardinality(running') <= MaxConcurrent)
  BY <1>9 DEF ReleaseDeferred
<1>10. CASE UNCHANGED vars
  BY <1>10 DEF vars
<1> QED
  BY <1>1, <1>2, <1>3, <1>4, <1>5, <1>6, <1>7, <1>8, <1>9, <1>10
     DEF Next, SupStep, WrkStep, CallerStep, SupNext, WrkNext, CallerNext

\* No interleaving of spawns, releases, starts and supervisors reserves more than
\* max_concurrent_subagents slots.
THEOREM Capacity == Spec => []CapacityRespected
<1>1. Init => CapacityRespected
  BY FS_EmptySet, BoundsAssumption DEF Init, CapacityRespected
<1>2. TypeOK /\ CapacityRespected /\ [Next]_vars => CapacityRespected'
  BY SlotMoves, Slots DEF CapacityRespected
<1> QED
  BY <1>1, <1>2, TypeCorrect, PTL DEF Spec

-----------------------------------------------------------------------------
\* The life of a task: what the places of its threads say of it.

\* How a step can change the status of tasks, and when a task is started.
LEMMA StatusMoves ==
    ASSUME TypeOK, CallHasTask, [Next]_vars
    PROVE  \/ UNCHANGED <<status, started>>
           \/ \E t \in Tasks : /\ status[t] = "absent" /\ sup[t] = sup'[t]
                               /\ Assign(t, "queued") /\ UNCHANGED started
           \/ \E t \in Tasks : /\ sup[t] = "set"
                               /\ Assign(t, "running") /\ started' = started \cup {t}
           \/ \E t \in Tasks, s \in Terminal : /\ Marking(t)
                                              /\ Assign(t, s) /\ UNCHANGED started
<1> USE DEF supOnly, wrkOnly, callerOnly, taskVars
<1>1. ASSUME NEW t \in Tasks, SupStep(t), ~SupSet(t), ~SupSetTimedOut(t)
      PROVE  UNCHANGED <<status, started>>
  BY <1>1 DEF SupStep, SupCheck, SupRefused, SupReserve, SupMark, SupMarkRaises,
     SupFork, SupJoin, SupLate, SupExpire, SupRevoke, SupPost, SupMarkTimedOut,
     SupReport, SupFault, SupRelease, SupNext
<1>2. ASSUME NEW t \in Tasks, WrkStep(t), ~WrkWinSet(t), ~WrkFailSet(t)
      PROVE  UNCHANGED <<status, started>>
  BY <1>2 DEF WrkStep, WrkStart, WrkRunEnds, WrkWinCheck, WrkWinPost, WrkWinMark,
     WrkPay, WrkFailCheck, WrkFailMark, WrkFailPost, WrkReport, WrkFault, WrkExcept,
     WrkFinish, WrkNext
<1>3. ASSUME NEW c \in Callers, CallerStep(c), ~CallerSet(c)
      PROVE  UNCHANGED <<status, started>>
  BY <1>3 DEF CallerStep, CallerSkip, CallerCheck, CallerLook, CallerSignal,
     CallerRevoke, CallerMark, CallerPost, CallerReport, CallerFault, CallerRelease,
     CallerNext, CancelReturns, ShutdownClears
<1>4. ASSUME NEW c \in Callers, CancelBegin(c) \/ ShutdownBegin(c)
      PROVE  UNCHANGED <<status, started>>
  BY <1>4 DEF CancelBegin, ShutdownBegin
<1>5. ASSUME NEW t \in Tasks, Launch(t) PROVE UNCHANGED <<status, started>>
  BY <1>5 DEF Launch
<1>6. ASSUME ReleaseDeferred PROVE UNCHANGED <<status, started>>
  BY <1>6 DEF ReleaseDeferred
<1>7. ASSUME NEW t \in Tasks, Spawn(t)
      PROVE  /\ status[t] = "absent" /\ sup[t] = sup'[t]
             /\ Assign(t, "queued") /\ UNCHANGED started
  BY <1>7 DEF Spawn, supVars, Assign
<1>8. ASSUME NEW t \in Tasks, SupSet(t)
      PROVE  sup[t] = "set" /\ Assign(t, "running") /\ started' = started \cup {t}
  BY <1>8 DEF SupSet, Sup
<1>9. ASSUME NEW t \in Tasks, SupSetTimedOut(t) \/ WrkWinSet(t) \/ WrkFailSet(t)
      PROVE  Marking(t) /\ (\E s \in Terminal : Assign(t, s)) /\ UNCHANGED started
  BY <1>9 DEF SupSetTimedOut, Sup, WrkWinSet, WrkFailSet, Wrk, Marking, Terminal
<1>10. ASSUME NEW c \in Callers, CallerSet(c)
       PROVE  \E t \in Tasks, s \in Terminal :
                 Marking(t) /\ Assign(t, s) /\ UNCHANGED started
  <2>1. Victim(c) \in Tasks
    BY <1>10, EarliestInSet DEF CallerSet, Call, CallHasTask, TypeOK, Victim
  <2>2. Marking(Victim(c))
    BY <1>10 DEF CallerSet, Call, Marking
  <2> QED
    BY <1>10, <2>1, <2>2 DEF CallerSet, Terminal
<1>11. CASE UNCHANGED vars
  BY <1>11 DEF vars
<1> QED
  BY <1>1, <1>2, <1>3, <1>4, <1>5, <1>6, <1>7, <1>8, <1>9, <1>10, <1>11
     DEF Next, SupStep, WrkStep, CallerStep

\* No thread gets from its look at an ended task to the assignment of another
\* status.
LEMMA EndedIsNotMarked ==
    ASSUME TypeOK, CallHasTask, [Next]_vars, NEW t \in Tasks, Settled(t)
    PROVE  ~Marking(t)'
<1> USE DEF TypeOK, CallHasTask, supOnly, wrkOnly, callerOnly, supVars, wrkVars,
        callerVars
<1>0. /\ status[t] \in Terminal
      /\ sup[t] \notin {"set", "setTimedOut"} /\ wrk[t] \notin {"winSet", "failSet"}
      /\ \A d \in Callers : at[d] = "set" => Victim(d) # t
  BY DEF Settled, Marking
<1>1. ASSUME NEW u \in Tasks, SupStep(u)
      PROVE  /\ sup'[t] \notin {"set", "setTimedOut"} /\ wrk'[t] \notin {"winSet", "failSet"}
             /\ UNCHANGED callerVars
  BY <1>0, <1>1 DEF SupStep, Sup, MarkTerminal, SupCheck, SupRefused, SupReserve,
     SupMark, SupSet, SupMarkRaises, SupFork, SupJoin, SupLate, SupExpire, SupRevoke,
     SupPost, SupMarkTimedOut, SupSetTimedOut, SupReport, SupFault, SupRelease, SupNext,
     Terminal
<1>2. ASSUME NEW u \in Tasks, WrkStep(u)
      PROVE  wrk'[t] \notin {"winSet", "failSet"} /\ UNCHANGED <<sup, callerVars>>
  BY <1>0, <1>2 DEF WrkStep, Wrk, MarkTerminal, WrkStart, WrkRunEnds, WrkWinCheck,
     WrkWinPost, WrkWinMark, WrkWinSet, WrkPay, WrkFailCheck, WrkFailMark, WrkFailSet,
     WrkFailPost, WrkReport, WrkFault, WrkExcept, WrkFinish, WrkNext
<1>3. ASSUME NEW c \in Callers, CancelBegin(c) \/ ShutdownBegin(c) \/ CallerStep(c)
      PROVE  /\ UNCHANGED <<sup, wrk>>
             /\ \A d \in Callers : at'[d] = "set" => Victim(d)' # t
  <2>1. UNCHANGED <<sup, wrk>>
    BY <1>3 DEF CancelBegin, ShutdownBegin, CallerStep, CallerSkip, CallerCheck,
       CallerLook, CallerSignal, CallerRevoke, CallerMark, CallerSet, CallerPost,
       CallerReport, CallerFault, CallerRelease, CallerNext, CancelReturns,
       ShutdownClears
  <2>2. ASSUME NEW d \in Callers, at'[d] = "set", Victim(d)' = t PROVE FALSE
    <3>1. at[d] = "set" \/ (at[d] = "mark" /\ status[Victim(d)] \notin Terminal)
      BY <1>3, <2>2
         DEF Call, MarkTerminal, CancelBegin, ShutdownBegin, CallerStep, CallerSkip,
         CallerCheck, CallerLook, CallerSignal, CallerRevoke, CallerMark, CallerSet,
         CallerPost, CallerReport, CallerFault, CallerRelease, CallerNext,
         CancelReturns, ShutdownClears
    <3>2. todo'[d] = todo[d]
      BY <1>3, <2>2, <3>1
         DEF Call, Dismiss, CancelBegin, ShutdownBegin, CallerStep, CallerSkip,
         CallerCheck, CallerLook, CallerSignal, CallerRevoke, CallerMark, CallerSet,
         CallerPost, CallerReport, CallerFault, CallerRelease, CallerNext,
         CancelReturns, ShutdownClears
    <3>3. Victim(d) = t
      BY <2>2, <3>2 DEF Victim
    <3> QED
      BY <1>0, <3>1, <3>3
  <2> QED
    BY <2>1, <2>2
<1>4. ASSUME NEW u \in Tasks, Launch(u)
      PROVE  sup'[t] \notin {"set", "setTimedOut"} /\ UNCHANGED <<wrk, callerVars>>
  BY <1>0, <1>4 DEF Launch
<1>5. ASSUME NEW u \in Tasks, Spawn(u) PROVE UNCHANGED <<sup, wrk, callerVars>>
  BY <1>5 DEF Spawn
<1>6. CASE ReleaseDeferred
  BY <1>0, <1>6 DEF ReleaseDeferred, Marking, Victim
<1>7. CASE UNCHANGED vars
  BY <1>0, <1>7 DEF vars, Marking, Victim
<1> QED
  BY <1>0, <1>1, <1>2, <1>3, <1>4, <1>5, <1>6, <1>7 DEF Next, Marking, Victim

\* However many threads race for a task's status, and although none of them locks
\* it: once the task has ended and none is left between its look and its
\* assignment, the outcome stands for good.
THEOREM SettledOutcome == Spec => SettledOutcomeStands
<1>1. ASSUME TypeOK, CallHasTask, [Next]_vars, NEW t \in Tasks, Settled(t)
      PROVE  status'[t] = status[t]
  BY <1>1, StatusMoves DEF Settled, Marking, Assign, TypeOK, Terminal
<1>2. TypeOK /\ CallHasTask /\ [Next]_vars
        => [\A t \in Tasks : Settled(t) => status'[t] = status[t] /\ ~Marking(t)']_vars
  BY <1>1, EndedIsNotMarked
<1> QED
  BY <1>2, TypeAndCalls, PTL DEF Spec, SettledOutcomeStands

-----------------------------------------------------------------------------
\* What the places of a task's threads say of it: a thread is started once, for a
\* task that left the queue or holds a slot in it; only a started task has a
\* worker.
Life == \A t \in Tasks :
    /\ status[t] = "absent" =>
          sup[t] = "none" /\ decided[t] = "no" /\ t \notin pending \cup background
    /\ status[t] = "running" => t \in started
    /\ t \in started => /\ status[t] \notin {"absent", "queued"}
                        /\ sup[t] \notin {"none", "check", "reserve", "mark", "set"}
    /\ t \notin started => /\ sup[t] \in {"none", "check", "reserve", "mark", "set", "done"}
                           /\ wrk[t] = "none" /\ t \notin executing
    /\ status[t] = "queued" => sup[t] \in {"none", "check", "reserve", "mark", "set"}
    /\ decided[t] # "no" => sup[t] = "none" /\ t \notin pending
    /\ t \in background => sup[t] # "none"
    /\ t \in pending /\ status[t] = "queued" => sup[t] = "none"

\* A queued task with a thread, or one decided for it, has its slot.
ThreadHasSlot == \A t \in Tasks :
    status[t] = "queued" /\ (sup[t] # "none" \/ decided[t] # "no") /\ ~Cleared
        => t \in running

\* A caller at work on a task has set out to end it.  Past its mark the task has
\* left the queue; it has ended if the caller has seen it run, for what the start
\* assigns came before that.
Knows(c) ==
    /\ at[c] \notin {"idle", "check", "done", "cleared"} =>
          Victim(c) \in called
    /\ at[c] \in {"signal", "revoke", "mark", "set", "post", "report"} /\ callerWas[c] =>
          Victim(c) \in started
    /\ at[c] \in {"post", "report"} /\ callerWas[c] => status[Victim(c)] \in Terminal
    /\ at[c] \in {"post", "report", "release", "next"} => status[Victim(c)] # "queued"
    /\ at[c] \in {"release", "next", "idle", "check", "look"} => ~callerWas[c]
    /\ \A t \in todo[c] : status[t] # "absent"
CallersKnow == \A c \in Callers : Knows(c)

IInv == TypeOK /\ CallHasTask /\ Life /\ ThreadHasSlot /\ CallersKnow

\* What a choice of the next task chooses: a queued task that no thread was
\* started or decided for, and whose turn has ended.
LEMMA StartNextChoice ==
    ASSUME IInv, ~Cleared, NEW who, StartNext(who)
    PROVE  \/ UNCHANGED <<running, decided>>
           \/ \E t \in Tasks : /\ status[t] = "queued" /\ t \notin pending
                               /\ sup[t] = "none" /\ decided[t] = "no"
                               /\ running' = running \cup {t}
                               /\ decided' = [decided EXCEPT ![t] = who]
<1>1. CASE Full \/ Startable = {}
  BY <1>1 DEF StartNext, slotVars
<1>2. CASE ~(Full \/ Startable = {})
  <2> DEFINE t == Earliest(Startable)
  <2>1. t \in Startable
    BY <1>2, EarliestInSet DEF Startable, Queued
  <2>2. t \in Tasks /\ status[t] = "queued" /\ t \notin pending /\ t \notin running
    BY <2>1 DEF Startable, Queued
  <2>3. sup[t] = "none" /\ decided[t] = "no"
    BY <2>2 DEF IInv, ThreadHasSlot
  <2> QED
    BY <1>2, <2>2, <2>3 DEF StartNext
<1> QED
  BY <1>1, <1>2

\* A task's life is kept by every step.
LEMMA NextLife == IInv /\ Next => Life'
<1> SUFFICES ASSUME IInv, ~Cleared, Next PROVE Life'
  BY DEF Next
<1> USE DEF IInv, Life, TypeOK, Statuses, SupPlaces, WrkPlaces, CallPlaces, Terminal,
        taskVars, parentVars, dictVars, slotVars, serviceVars, supVars, wrkVars,
        callerVars, supOnly, wrkOnly, callerOnly
<1>1. ASSUME NEW t \in Tasks, SupStep(t) PROVE Life'
  <2> USE <1>1 DEF Sup, MarkTerminal, Assign
  <2>1. CASE SupCheck(t) BY <2>1 DEF SupCheck
  <2>2. CASE SupRefused(t) BY <2>2 DEF SupRefused, ThreadHasSlot
  <2>3. CASE SupReserve(t) BY <2>3 DEF SupReserve
  <2>4. CASE SupMark(t) BY <2>4 DEF SupMark
  <2>5. CASE SupMarkRaises(t) BY <2>5 DEF SupMarkRaises
  <2>6. CASE SupFork(t) BY <2>6 DEF SupFork
  <2>7. CASE SupJoin(t) BY <2>7 DEF SupJoin
  <2>8. CASE SupLate(t) BY <2>8 DEF SupLate
  <2>9. CASE SupExpire(t) BY <2>9 DEF SupExpire
  <2>10. CASE SupRevoke(t) BY <2>10 DEF SupRevoke
  <2>11. CASE SupPost(t) BY <2>11 DEF SupPost
  <2>12. CASE SupMarkTimedOut(t) BY <2>12 DEF SupMarkTimedOut
  <2>13. CASE SupReport(t) BY <2>13 DEF SupReport
  <2>14. CASE SupFault(t) BY <2>14 DEF SupFault
  <2>15. CASE SupRelease(t) BY <2>15 DEF SupRelease, ReleaseSlot
  <2>16. CASE SupNext(t) BY <2>16, StartNextChoice DEF SupNext
  <2>17. CASE SupSet(t) BY <2>17 DEF SupSet
  <2>18. CASE SupSetTimedOut(t) BY <2>18 DEF SupSetTimedOut
  <2> QED
    BY <2>1, <2>2, <2>3, <2>4, <2>5, <2>6, <2>7, <2>8, <2>9, <2>10, <2>11, <2>12,
       <2>13, <2>14, <2>15, <2>16, <2>17, <2>18 DEF SupStep
<1>2. ASSUME NEW t \in Tasks, WrkStep(t) PROVE Life'
  <2> USE <1>2 DEF Wrk, MarkTerminal, Assign
  <2>1. CASE WrkStart(t) BY <2>1 DEF WrkStart
  <2>2. CASE WrkRunEnds(t) BY <2>2 DEF WrkRunEnds
  <2>3. CASE WrkWinCheck(t) BY <2>3 DEF WrkWinCheck
  <2>4. CASE WrkWinPost(t) BY <2>4 DEF WrkWinPost
  <2>5. CASE WrkWinMark(t) BY <2>5 DEF WrkWinMark
  <2>6. CASE WrkFailCheck(t) BY <2>6 DEF WrkFailCheck
  <2>7. CASE WrkFailMark(t) BY <2>7 DEF WrkFailMark
  <2>8. CASE WrkFailPost(t) BY <2>8 DEF WrkFailPost
  <2>9. CASE WrkReport(t) BY <2>9 DEF WrkReport
  <2>10. CASE WrkFault(t) BY <2>10 DEF WrkFault
  <2>11. CASE WrkExcept(t) BY <2>11 DEF WrkExcept
  <2>12. CASE WrkFinish(t) BY <2>12 DEF WrkFinish, ReleaseSlot
  <2>13. CASE WrkNext(t) BY <2>13, StartNextChoice DEF WrkNext
  <2>14. CASE WrkWinSet(t) BY <2>14 DEF WrkWinSet
  <2>15. CASE WrkPay(t) BY <2>15 DEF WrkPay
  <2>16. CASE WrkFailSet(t) BY <2>16 DEF WrkFailSet
  <2> QED
    BY <2>1, <2>2, <2>3, <2>4, <2>5, <2>6, <2>7, <2>8, <2>9, <2>10, <2>11, <2>12,
       <2>13, <2>14, <2>15, <2>16 DEF WrkStep
<1>3. ASSUME NEW c \in Callers, CancelBegin(c) \/ ShutdownBegin(c) \/ CallerStep(c)
      PROVE  Life'
  <2> USE <1>3 DEF Call, MarkTerminal, Assign, Dismiss
  <2>1. CASE CancelBegin(c) BY <2>1 DEF CancelBegin
  <2>2. CASE ShutdownBegin(c) BY <2>2 DEF ShutdownBegin
  <2>3. CASE CallerSkip(c) BY <2>3 DEF CallerSkip
  <2>4. CASE CallerCheck(c) BY <2>4 DEF CallerCheck
  <2>5. CASE CallerLook(c) BY <2>5 DEF CallerLook
  <2>6. CASE CallerSignal(c) BY <2>6 DEF CallerSignal
  <2>7. CASE CallerRevoke(c) BY <2>7 DEF CallerRevoke
  <2>8. CASE CallerMark(c) BY <2>8 DEF CallerMark
  <2>9. CASE CallerPost(c) BY <2>9 DEF CallerPost
  <2>10. CASE CallerReport(c) BY <2>10 DEF CallerReport
  <2>11. CASE CallerFault(c) BY <2>11 DEF CallerFault
  <2>12. CASE CallerRelease(c) BY <2>12 DEF CallerRelease, ReleaseSlot
  <2>13. CASE CallerNext(c) BY <2>13, StartNextChoice DEF CallerNext
  <2>14. CASE CancelReturns(c) BY <2>14 DEF CancelReturns
  <2>15. CASE ShutdownClears(c) BY <2>15 DEF ShutdownClears
  <2>16. CASE CallerSet(c) BY <2>16 DEF CallerSet
  <2> QED
    BY <2>1, <2>2, <2>3, <2>4, <2>5, <2>6, <2>7, <2>8, <2>9, <2>10, <2>11, <2>12,
       <2>13, <2>14, <2>15, <2>16 DEF CallerStep
<1>4. ASSUME NEW t \in Tasks, Spawn(t) PROVE Life'
  BY <1>4 DEF Spawn
<1>5. ASSUME NEW t \in Tasks, Launch(t) PROVE Life'
  BY <1>5 DEF Launch
<1>6. CASE ReleaseDeferred
  BY <1>6 DEF ReleaseDeferred, Queued
<1> QED
  BY <1>1, <1>2, <1>3, <1>4, <1>5, <1>6 DEF Next

\* A slot is given back only for a task that has left the queue.
LEMMA NextThreadHasSlot == IInv /\ Next => ThreadHasSlot'
<1> SUFFICES ASSUME IInv, ~Cleared, Next PROVE ThreadHasSlot'
  BY DEF Next
<1>0. ASSUME ~Cleared' PROVE \A c \in Callers : at'[c] # "cleared"
  BY <1>0 DEF Cleared
<1> USE DEF IInv, ThreadHasSlot, Life, TypeOK, Statuses, SupPlaces, WrkPlaces,
        CallPlaces, Terminal, taskVars, parentVars, dictVars, slotVars, serviceVars,
        supVars, wrkVars, callerVars, supOnly, wrkOnly, callerOnly
<1>1. ASSUME NEW t \in Tasks, SupStep(t) PROVE ThreadHasSlot'
  <2> USE <1>1 DEF Sup, MarkTerminal, Assign
  <2>1. CASE SupCheck(t) BY <2>1 DEF SupCheck
  <2>2. CASE SupRefused(t) BY <2>2 DEF SupRefused
  <2>3. CASE SupReserve(t) BY <2>3 DEF SupReserve
  <2>4. CASE SupMark(t) BY <2>4 DEF SupMark
  <2>5. CASE SupMarkRaises(t) BY <2>5 DEF SupMarkRaises
  <2>6. CASE SupFork(t) BY <2>6 DEF SupFork
  <2>7. CASE SupJoin(t) BY <2>7 DEF SupJoin
  <2>8. CASE SupLate(t) BY <2>8 DEF SupLate
  <2>9. CASE SupExpire(t) BY <2>9 DEF SupExpire
  <2>10. CASE SupRevoke(t) BY <2>10 DEF SupRevoke
  <2>11. CASE SupPost(t) BY <2>11 DEF SupPost
  <2>12. CASE SupMarkTimedOut(t) BY <2>12 DEF SupMarkTimedOut
  <2>13. CASE SupReport(t) BY <2>13 DEF SupReport
  <2>14. CASE SupFault(t) BY <2>14 DEF SupFault
  <2>15. CASE SupRelease(t) BY <2>15 DEF SupRelease, ReleaseSlot
  <2>16. CASE SupNext(t) BY <2>16, StartNextChoice DEF SupNext
  <2>17. CASE SupSet(t) BY <2>17 DEF SupSet
  <2>18. CASE SupSetTimedOut(t) BY <2>18 DEF SupSetTimedOut
  <2> QED
    BY <2>1, <2>2, <2>3, <2>4, <2>5, <2>6, <2>7, <2>8, <2>9, <2>10, <2>11, <2>12,
       <2>13, <2>14, <2>15, <2>16, <2>17, <2>18 DEF SupStep
<1>2. ASSUME NEW t \in Tasks, WrkStep(t) PROVE ThreadHasSlot'
  <2> USE <1>2 DEF Wrk, MarkTerminal, Assign
  <2>1. CASE WrkStart(t) BY <2>1 DEF WrkStart
  <2>2. CASE WrkRunEnds(t) BY <2>2 DEF WrkRunEnds
  <2>3. CASE WrkWinCheck(t) BY <2>3 DEF WrkWinCheck
  <2>4. CASE WrkWinPost(t) BY <2>4 DEF WrkWinPost
  <2>5. CASE WrkWinMark(t) BY <2>5 DEF WrkWinMark
  <2>6. CASE WrkFailCheck(t) BY <2>6 DEF WrkFailCheck
  <2>7. CASE WrkFailMark(t) BY <2>7 DEF WrkFailMark
  <2>8. CASE WrkFailPost(t) BY <2>8 DEF WrkFailPost
  <2>9. CASE WrkReport(t) BY <2>9 DEF WrkReport
  <2>10. CASE WrkFault(t) BY <2>10 DEF WrkFault
  <2>11. CASE WrkExcept(t) BY <2>11 DEF WrkExcept
  <2>12. CASE WrkFinish(t) BY <2>12 DEF WrkFinish, ReleaseSlot
  <2>13. CASE WrkNext(t) BY <2>13, StartNextChoice DEF WrkNext
  <2>14. CASE WrkWinSet(t) BY <2>14 DEF WrkWinSet
  <2>15. CASE WrkPay(t) BY <2>15 DEF WrkPay
  <2>16. CASE WrkFailSet(t) BY <2>16 DEF WrkFailSet
  <2> QED
    BY <2>1, <2>2, <2>3, <2>4, <2>5, <2>6, <2>7, <2>8, <2>9, <2>10, <2>11, <2>12,
       <2>13, <2>14, <2>15, <2>16 DEF WrkStep
<1>3. ASSUME NEW c \in Callers, CancelBegin(c) \/ ShutdownBegin(c) \/ CallerStep(c)
      PROVE  ThreadHasSlot'
  <2> USE <1>3 DEF Call, MarkTerminal, Assign, Dismiss
  <2>1. CASE CancelBegin(c) BY <2>1 DEF CancelBegin
  <2>2. CASE ShutdownBegin(c) BY <2>2 DEF ShutdownBegin
  <2>3. CASE CallerSkip(c) BY <2>3 DEF CallerSkip
  <2>4. CASE CallerCheck(c) BY <2>4 DEF CallerCheck
  <2>5. CASE CallerLook(c) BY <2>5 DEF CallerLook
  <2>6. CASE CallerSignal(c) BY <2>6 DEF CallerSignal
  <2>7. CASE CallerRevoke(c) BY <2>7 DEF CallerRevoke
  <2>8. CASE CallerMark(c) BY <2>8 DEF CallerMark
  <2>9. CASE CallerPost(c) BY <2>9 DEF CallerPost
  <2>10. CASE CallerReport(c) BY <2>10 DEF CallerReport
  <2>11. CASE CallerFault(c) BY <2>11 DEF CallerFault
  <2>12. CASE CallerRelease(c) BY <2>12 DEF CallerRelease, ReleaseSlot, CallersKnow, Knows
  <2>13. CASE CallerNext(c) BY <2>13, StartNextChoice DEF CallerNext
  <2>14. CASE CancelReturns(c) BY <2>14 DEF CancelReturns
  <2>15. CASE ShutdownClears(c) BY <2>15 DEF ShutdownClears, Cleared
  <2>16. CASE CallerSet(c) BY <2>16 DEF CallerSet
  <2> QED
    BY <2>1, <2>2, <2>3, <2>4, <2>5, <2>6, <2>7, <2>8, <2>9, <2>10, <2>11, <2>12,
       <2>13, <2>14, <2>15, <2>16 DEF CallerStep
<1>4. ASSUME NEW t \in Tasks, Spawn(t) PROVE ThreadHasSlot'
  BY <1>4 DEF Spawn
<1>5. ASSUME NEW t \in Tasks, Launch(t) PROVE ThreadHasSlot'
  BY <1>5 DEF Launch
<1>6. CASE ReleaseDeferred
  BY <1>6 DEF ReleaseDeferred, Queued
<1> QED
  BY <1>1, <1>2, <1>3, <1>4, <1>5, <1>6 DEF Next

\* What a status that callers rely on may become.
LEMMA StatusStays ==
    ASSUME IInv, [Next]_vars, NEW t \in Tasks
    PROVE  /\ status[t] # "absent" => status'[t] # "absent"
           /\ status[t] \notin {"absent", "queued"} => status'[t] # "queued"
           /\ status[t] \in Terminal /\ t \in started => status'[t] \in Terminal
           /\ t \in started => t \in started'
  BY StatusMoves DEF IInv, Life, TypeOK, Assign, Terminal

\* A caller that does nothing keeps what it knows.
LEMMA KnowsStays ==
    ASSUME IInv, [Next]_vars, NEW c \in Callers, called \subseteq called',
           at'[c] = at[c], todo'[c] = todo[c], callerWas'[c] = callerWas[c]
    PROVE  Knows(c)'
<1>1. Victim(c)' = Victim(c)
  BY DEF Victim
<1>2. at[c] \notin {"idle", "check", "done", "cleared"} => Victim(c) \in Tasks \cap todo[c]
  BY EarliestInSet DEF IInv, CallHasTask, TypeOK, Victim
<1>3. todo[c] \subseteq Tasks
  BY DEF IInv, TypeOK
<1>4. Knows(c)
  BY DEF IInv, CallersKnow
<1> QED
  BY <1>1, <1>2, <1>3, <1>4, StatusStays DEF Knows

\* Every step keeps what callers know.
LEMMA NextCallersKnow == IInv /\ [Next]_vars => CallersKnow'
<1> SUFFICES ASSUME IInv, [Next]_vars PROVE CallersKnow'
  OBVIOUS
<1>1. CASE UNCHANGED callerVars
  BY <1>1, KnowsStays DEF callerVars, CallersKnow
<1>2. ASSUME NEW c \in Callers, CancelBegin(c) \/ ShutdownBegin(c) \/ CallerStep(c)
      PROVE  CallersKnow'
  <2>1. called \subseteq called'
    BY <1>2 DEF callerOnly, CancelBegin, ShutdownBegin, CallerStep, CallerSkip,
       CallerCheck, CallerLook, CallerSignal, CallerRevoke, CallerMark, CallerSet,
       CallerPost, CallerReport, CallerFault, CallerRelease, CallerNext, CancelReturns,
       ShutdownClears
  <2>2. ASSUME NEW d \in Callers, d # c PROVE Knows(d)'
    <3>1. at'[d] = at[d] /\ todo'[d] = todo[d] /\ callerWas'[d] = callerWas[d]
      BY <1>2, <2>2
         DEF IInv, TypeOK, Call, Dismiss, callerOnly, CancelBegin, ShutdownBegin,
         CallerStep, CallerSkip, CallerCheck, CallerLook, CallerSignal, CallerRevoke,
         CallerMark, CallerSet, CallerPost, CallerReport, CallerFault, CallerRelease,
         CallerNext, CancelReturns, ShutdownClears
    <3> QED
      BY <2>1, <3>1, KnowsStays
  <2>3. Knows(c)'
    <3>1. /\ at[c] \notin {"idle", "check", "done", "cleared"} => Victim(c) \in Tasks
          /\ todo[c] # {} => Victim(c) \in todo[c] /\ Victim(c) \in Tasks
      BY EarliestInSet DEF IInv, CallHasTask, TypeOK, Victim
    <3>2. todo'[c] = todo[c] => Victim(c)' = Victim(c)
      BY DEF Victim
    <3>3. Knows(c)
      BY DEF IInv, CallersKnow
    <3>4. at[c] \notin {"idle", "check", "done", "cleared"} => todo[c] # {}
      BY DEF IInv, CallHasTask
    <3>5. \A t \in Tasks : status[t] = "running" => t \in started
      BY DEF IInv, Life
    <3> USE <2>1, <3>1, <3>2, <3>3, StatusStays
            DEF IInv, TypeOK, CallPlaces, Call, Knows, callerOnly, taskVars, Terminal
    <3>6. CASE CancelBegin(c)
      BY <3>6 DEF CancelBegin
    <3>7. CASE ShutdownBegin(c)
      BY <3>7 DEF ShutdownBegin, Outstanding
    <3>8. CASE CallerSkip(c) BY <3>8 DEF CallerSkip, Dismiss
    <3>9. CASE CallerCheck(c) BY <3>9 DEF CallerCheck
    <3>10. CASE CallerLook(c) BY <3>5, <3>10 DEF CallerLook
    <3>11. CASE CallerSignal(c) BY <3>11 DEF CallerSignal
    <3>12. CASE CallerRevoke(c) BY <3>12 DEF CallerRevoke
    <3>13. CASE CallerMark(c) BY <3>13 DEF CallerMark, MarkTerminal
    <3>14. CASE CallerSet(c) BY <3>14 DEF CallerSet, Assign
    <3>15. CASE CallerPost(c) BY <3>15 DEF CallerPost
    <3>16. CASE CallerReport(c) BY <3>4, <3>16 DEF CallerReport, Dismiss
    <3>17. CASE CallerFault(c) BY <3>17 DEF CallerFault
    <3>18. CASE CallerRelease(c) BY <3>4, <3>18 DEF CallerRelease, Dismiss
    <3>19. CASE CallerNext(c) BY <3>4, <3>19 DEF CallerNext, Dismiss
    <3>20. CASE CancelReturns(c) BY <3>20 DEF CancelReturns
    <3>21. CASE ShutdownClears(c) BY <3>21 DEF ShutdownClears
    <3> QED
      BY <1>2, <3>6, <3>7, <3>8, <3>9, <3>10, <3>11, <3>12, <3>13, <3>14, <3>15, <3>16,
         <3>17, <3>18, <3>19, <3>20, <3>21 DEF CallerStep
  <2> QED
    BY <2>2, <2>3 DEF CallersKnow
<1> QED
  BY <1>1, <1>2, CallersMoveAlone

\* The inductive invariant of the service.
THEOREM Inductive == Spec => []IInv
<1>1. Init => IInv
  <2> SUFFICES ASSUME Init PROVE IInv
    OBVIOUS
  <2>1. TypeOK
    BY InitType
  <2> QED
    BY <2>1 DEF Init, IInv, CallHasTask, Life, ThreadHasSlot, CallersKnow, Knows
<1>2. IInv /\ Next => IInv'
  BY NextType, NextCallHasTask, NextLife, NextThreadHasSlot, NextCallersKnow DEF IInv
<1>3. IInv /\ UNCHANGED vars => IInv'
  BY DEF IInv, TypeOK, CallHasTask, Life, ThreadHasSlot, CallersKnow, Knows, Victim,
     Cleared, vars, taskVars, parentVars, dictVars, slotVars, serviceVars, supVars,
     wrkVars, callerVars
<1> QED
  BY <1>1, <1>2, <1>3, PTL DEF Spec

-----------------------------------------------------------------------------
\* No child's thread starts before its parent's turn has ended, whoever frees a
\* slot or releases other turns' children meanwhile.
THEOREM ParentTurnFirst == Spec => []WaitsForParentTurn
<1>1. IInv => WaitsForParentTurn
  BY DEF IInv, Life, WaitsForParentTurn, TypeOK
<1> QED
  BY <1>1, Inductive, PTL

\* Only SupFork starts a worker.
LEMMA OnlyForkStartsWorker ==
    ASSUME IInv, [Next]_vars, NEW t \in Tasks, wrk[t] = "none", wrk'[t] # "none"
    PROVE  sup[t] = "fork" /\ sup'[t] = "join"
<1> USE DEF IInv, TypeOK, supOnly, callerOnly, wrkVars
<1>1. ASSUME NEW u \in Tasks, SupStep(u), ~SupFork(u) PROVE wrk' = wrk
  BY <1>1 DEF SupStep, SupCheck, SupRefused, SupReserve, SupMark, SupSet, SupMarkRaises,
     SupJoin, SupLate, SupExpire, SupRevoke, SupPost, SupMarkTimedOut, SupSetTimedOut,
     SupReport, SupFault, SupRelease, SupNext
<1>2. ASSUME NEW u \in Tasks, SupFork(u) 
      PROVE  sup[u] = "fork" /\ sup'[u] = "join" /\ (u # t => wrk'[t] = wrk[t])
  BY <1>2 DEF SupFork, Sup
<1>3. ASSUME NEW u \in Tasks, WrkStep(u) PROVE wrk[u] # "none" /\ (u # t => wrk'[t] = wrk[t])
  BY <1>3 DEF WrkStep, Wrk, WrkStart, WrkRunEnds, WrkWinCheck, WrkWinPost, WrkWinMark,
     WrkWinSet, WrkPay, WrkFailCheck, WrkFailMark, WrkFailSet, WrkFailPost, WrkReport,
     WrkFault, WrkExcept, WrkFinish, WrkNext
<1>4. ASSUME NEW c \in Callers, CallerStep(c) \/ CancelBegin(c) \/ ShutdownBegin(c)
      PROVE  wrk' = wrk
  BY <1>4 DEF CallerStep, CancelBegin, ShutdownBegin, CallerSkip, CallerCheck,
     CallerLook, CallerSignal, CallerRevoke, CallerMark, CallerSet, CallerPost,
     CallerReport, CallerFault, CallerRelease, CallerNext, CancelReturns, ShutdownClears
<1>5. ASSUME NEW u \in Tasks, Spawn(u) \/ Launch(u) PROVE wrk' = wrk
  BY <1>5 DEF Spawn, Launch
<1>6. CASE ReleaseDeferred
  BY <1>6 DEF ReleaseDeferred
<1> QED
  BY <1>1, <1>2, <1>3, <1>4, <1>5, <1>6 DEF Next, vars, SupStep

\* A task cancelled before it was marked running never runs, although its
\* supervisor may be anywhere but between the look and the assignment of the mark.
THEOREM NeverRuns == Spec => CancelledInQueueNeverRuns
<1>1. ASSUME IInv, [Next]_vars, NEW t \in Tasks, Settled(t), t \notin started
      PROVE  t \notin started' /\ wrk'[t] = "none"
  <2>1. t \notin started'
    BY <1>1, StatusMoves DEF IInv, Settled, Marking
  <2>2. wrk[t] = "none" /\ sup[t] # "fork"
    BY <1>1 DEF IInv, Life
  <2> QED
    BY <1>1, <2>1, <2>2, OnlyForkStartsWorker
<1>2. IInv /\ [Next]_vars
        => [\A t \in Tasks : Settled(t) /\ t \notin started
                                => t \notin started' /\ wrk'[t] = "none"]_vars
  BY <1>1
<1> QED
  BY <1>2, Inductive, PTL DEF Spec, CancelledInQueueNeverRuns

\* How a step can change the place of a supervisor or a decided start.
LEMMA StartMoves ==
    ASSUME IInv, Next, NEW t \in Tasks
    PROVE  /\ sup'[t] = "check" /\ sup[t] # "check" => sup[t] = "none"
           /\ decided[t] # "no" /\ decided'[t] = "no" => Launch(t)
<1> USE DEF IInv, TypeOK, supOnly, wrkOnly, callerOnly, supVars, slotVars, serviceVars
<1>0. ~Cleared
  BY DEF Next
<1>1. ASSUME NEW u \in Tasks, SupStep(u), ~SupNext(u)
      PROVE  sup'[t] \in {sup[t]} \cup (SupPlaces \ {"check"}) /\ decided' = decided
  BY <1>1 DEF SupStep, Sup, MarkTerminal, SupPlaces, SupCheck, SupRefused, SupReserve,
     SupMark, SupSet, SupMarkRaises, SupFork, SupJoin, SupLate, SupExpire, SupRevoke,
     SupPost, SupMarkTimedOut, SupSetTimedOut, SupReport, SupFault, SupRelease
<1>2. ASSUME NEW u \in Tasks, SupNext(u)
      PROVE  sup'[t] \in {sup[t], "done"} /\ (decided'[t] = decided[t] \/ decided[t] = "no")
  <2>1. sup'[t] \in {sup[t], "done"}
    BY <1>2 DEF SupNext, Sup
  <2> QED
    BY <1>0, <1>2, <2>1, StartNextChoice DEF SupNext
<1>3. ASSUME NEW u \in Tasks, WrkStep(u), ~WrkNext(u) PROVE UNCHANGED <<sup, decided>>
  BY <1>3 DEF WrkStep, WrkStart, WrkRunEnds, WrkWinCheck, WrkWinPost, WrkWinMark,
     WrkWinSet, WrkPay, WrkFailCheck, WrkFailMark, WrkFailSet, WrkFailPost, WrkReport,
     WrkFault, WrkExcept, WrkFinish
<1>4. ASSUME NEW u \in Tasks, WrkNext(u)
      PROVE  sup' = sup /\ (decided'[t] = decided[t] \/ decided[t] = "no")
  BY <1>0, <1>4, StartNextChoice DEF WrkNext
<1>5. ASSUME NEW c \in Callers, CallerStep(c) \/ CancelBegin(c) \/ ShutdownBegin(c), ~CallerNext(c)
      PROVE  UNCHANGED <<sup, decided>>
  BY <1>5 DEF CallerStep, CancelBegin, ShutdownBegin, CallerSkip, CallerCheck,
     CallerLook, CallerSignal, CallerRevoke, CallerMark, CallerSet, CallerPost,
     CallerReport, CallerFault, CallerRelease, CancelReturns, ShutdownClears
<1>6. ASSUME NEW c \in Callers, CallerNext(c)
      PROVE  sup' = sup /\ (decided'[t] = decided[t] \/ decided[t] = "no")
  BY <1>0, <1>6, StartNextChoice DEF CallerNext
<1>7. ASSUME NEW u \in Tasks, Spawn(u) PROVE UNCHANGED <<sup, decided>>
  BY <1>7 DEF Spawn
<1>8. ASSUME NEW u \in Tasks, Launch(u)
      PROVE  /\ sup'[t] = "check" /\ sup[t] # "check" => sup[t] = "none"
             /\ decided[t] # "no" /\ decided'[t] = "no" => u = t
  BY <1>8 DEF Launch, Life
<1>9. ASSUME ReleaseDeferred
      PROVE  sup' = sup /\ decided'[t] \in {decided[t], "recheck"}
  BY <1>9 DEF ReleaseDeferred
<1> QED
  BY <1>1, <1>2, <1>3, <1>4, <1>5, <1>6, <1>7, <1>8, <1>9 DEF Next, SupStep, WrkStep,
     CallerStep

\* However many places decide a start, a task's thread starts once, and the guard
\* against a second thread drops no start of a queued task.
THEOREM StartsOnce == Spec => StartedExactlyOnce
<1>1. ASSUME IInv, Next, NEW t \in Tasks
      PROVE  /\ sup[t] # sup'[t] /\ sup'[t] = "check" => sup[t] = "none"
             /\ decided[t] # "no" /\ decided'[t] = "no" /\ status[t] = "queued"
                   => sup'[t] = "check"
  <2>1. ASSUME Launch(t), status[t] = "queued" PROVE sup'[t] = "check"
    BY <1>1, <2>1 DEF Launch, IInv, Life, TypeOK
  <2> QED
    BY <1>1, <2>1, StartMoves
<1>2. IInv /\ [Next]_vars
        => [\A t \in Tasks :
              /\ sup[t] # sup'[t] /\ sup'[t] = "check" => sup[t] = "none"
              /\ decided[t] # "no" /\ decided'[t] = "no" /\ status[t] = "queued"
                    => sup'[t] = "check"]_vars
  BY <1>1
<1> QED
  BY <1>2, Inductive, PTL DEF Spec, StartedExactlyOnce

\* A call leaves a task it has seen run only when it has ended, and one it has
\* seen in the queue only when it has left that.
THEOREM CallsEndTasks == Spec => CallEndsTask
<1>1. ASSUME IInv, [Next]_vars, NEW c \in Callers, NEW t \in todo[c] \ todo'[c]
      PROVE  /\ status'[t] \in {"running"} \cup Terminal
             /\ callerWas[c] => status'[t] \in Terminal
  <2>1. t \in Tasks
    BY <1>1 DEF IInv, TypeOK
  <2>2. ~UNCHANGED callerVars
    BY <1>1 DEF callerVars
  <2>3. PICK d \in Callers : CancelBegin(d) \/ ShutdownBegin(d) \/ CallerStep(d)
    BY <1>1, <2>2, CallersMoveAlone
  <2>4. Knows(c) /\ (at[c] = "idle" => todo[c] = {})
    BY <1>1 DEF IInv, CallersKnow, CallHasTask
  <2>5. /\ c = d /\ t = Victim(c) /\ UNCHANGED status
        /\ \/ at[c] = "check" /\ status[t] \in Terminal
           \/ at[c] = "report" /\ callerWas[c]
           \/ at[c] \in {"release", "next"}
    BY <1>1, <2>1, <2>3, <2>4
       DEF CancelBegin, ShutdownBegin, CallerStep, CallerSkip, CallerCheck, CallerLook,
       CallerSignal, CallerRevoke, CallerMark, CallerSet, CallerPost, CallerReport,
       CallerFault, CallerRelease, CallerNext, CancelReturns, ShutdownClears, Dismiss,
       Call, callerOnly, taskVars, IInv, TypeOK
  <2>6. status[t] \in Statuses
    BY <1>1, <2>1 DEF IInv, TypeOK
  <2> QED
    BY <2>4, <2>5, <2>6 DEF Knows, Statuses
<1>2. IInv /\ [Next]_vars
        => [\A c \in Callers : \A t \in todo[c] \ todo'[c] :
              /\ status'[t] \in {"running"} \cup Terminal
              /\ callerWas[c] => status'[t] \in Terminal]_vars
  BY <1>1
<1> QED
  BY <1>2, Inductive, PTL DEF Spec, CallEndsTask

-----------------------------------------------------------------------------
\* A thread about to mark a success or a timeout has told the parent session.
ToldBeforeMark == \A t \in Tasks \ Silent :
    /\ wrk[t] \in {"winMark", "winSet"} => "succeeded" \in posted[t]
    /\ sup[t] \in {"markTimedOut", "setTimedOut"} => "timed_out" \in posted[t]

\* Messages are never taken back.
LEMMA PostedGrows ==
    ASSUME TypeOK, [Next]_vars, NEW t \in Tasks
    PROVE  posted[t] \subseteq posted'[t]
<1> USE DEF TypeOK, supOnly, wrkOnly, callerOnly, parentVars, Post
<1>1. ASSUME NEW u \in Tasks, SupStep(u) PROVE posted[t] \subseteq posted'[t]
  BY <1>1 DEF SupStep, SupCheck, SupRefused, SupReserve, SupMark, SupSet, SupMarkRaises,
     SupFork, SupJoin, SupLate, SupExpire, SupRevoke, SupPost, SupMarkTimedOut,
     SupSetTimedOut, SupReport, SupFault, SupRelease, SupNext
<1>2. ASSUME NEW u \in Tasks, WrkStep(u) PROVE posted[t] \subseteq posted'[t]
  BY <1>2 DEF WrkStep, WrkStart, WrkRunEnds, WrkWinCheck, WrkWinPost, WrkWinMark,
     WrkWinSet, WrkPay, WrkFailCheck, WrkFailMark, WrkFailSet, WrkFailPost, WrkReport,
     WrkFault, WrkExcept, WrkFinish, WrkNext
<1>3. ASSUME NEW c \in Callers, CallerStep(c) \/ CancelBegin(c) \/ ShutdownBegin(c)
      PROVE  posted[t] \subseteq posted'[t]
  BY <1>3 DEF CallerStep, CancelBegin, ShutdownBegin, CallerSkip, CallerCheck,
     CallerLook, CallerSignal, CallerRevoke, CallerMark, CallerSet, CallerPost,
     CallerReport, CallerFault, CallerRelease, CallerNext, CancelReturns, ShutdownClears
<1>4. ASSUME NEW u \in Tasks, Spawn(u) \/ Launch(u) PROVE posted[t] \subseteq posted'[t]
  BY <1>4 DEF Spawn, Launch
<1>5. CASE ReleaseDeferred
  BY <1>5 DEF ReleaseDeferred
<1> QED
  BY <1>1, <1>2, <1>3, <1>4, <1>5 DEF Next, vars

\* Every step keeps what was told before the mark.
LEMMA NextTold ==
    IInv /\ ParentToldFirst /\ ToldBeforeMark /\ Next => (ParentToldFirst /\ ToldBeforeMark)'
<1> DEFINE Told == ParentToldFirst /\ ToldBeforeMark
<1> SUFFICES ASSUME IInv, Told, Next PROVE Told'
  OBVIOUS
<1>0. \A t \in Tasks : posted[t] \subseteq posted'[t]
  BY PostedGrows DEF IInv
<1> USE <1>0 DEF IInv, TypeOK, ParentToldFirst, ToldBeforeMark, Statuses, Terminal,
        taskVars, parentVars, dictVars, slotVars, serviceVars, supVars, wrkVars,
        callerVars, supOnly, wrkOnly, callerOnly
<1>1. ASSUME NEW t \in Tasks, SupStep(t) PROVE Told'
  <2> USE <1>1 DEF Sup, MarkTerminal, Assign
  <2>1. CASE SupCheck(t) BY <2>1 DEF SupCheck
  <2>2. CASE SupRefused(t) BY <2>2 DEF SupRefused
  <2>3. CASE SupReserve(t) BY <2>3 DEF SupReserve
  <2>4. CASE SupMark(t) BY <2>4 DEF SupMark
  <2>5. CASE SupMarkRaises(t) BY <2>5 DEF SupMarkRaises
  <2>6. CASE SupFork(t) BY <2>6 DEF SupFork
  <2>7. CASE SupJoin(t) BY <2>7 DEF SupJoin
  <2>8. CASE SupLate(t) BY <2>8 DEF SupLate
  <2>9. CASE SupExpire(t) BY <2>9 DEF SupExpire
  <2>10. CASE SupRevoke(t) BY <2>10 DEF SupRevoke
  <2>11. CASE SupPost(t) BY <2>11 DEF SupPost, Post
  <2>12. CASE SupMarkTimedOut(t) BY <2>12 DEF SupMarkTimedOut
  <2>13. CASE SupReport(t) BY <2>13 DEF SupReport
  <2>14. CASE SupFault(t) BY <2>14 DEF SupFault
  <2>15. CASE SupRelease(t) BY <2>15 DEF SupRelease
  <2>16. CASE SupNext(t) BY <2>16 DEF SupNext
  <2>17. CASE SupSet(t) BY <2>17 DEF SupSet
  <2>18. CASE SupSetTimedOut(t) BY <2>18 DEF SupSetTimedOut
  <2> QED
    BY <2>1, <2>2, <2>3, <2>4, <2>5, <2>6, <2>7, <2>8, <2>9, <2>10, <2>11, <2>12,
       <2>13, <2>14, <2>15, <2>16, <2>17, <2>18 DEF SupStep
<1>2. ASSUME NEW t \in Tasks, WrkStep(t) PROVE Told'
  <2> USE <1>2 DEF Wrk, MarkTerminal, Assign
  <2>1. CASE WrkStart(t) BY <2>1 DEF WrkStart
  <2>2. CASE WrkRunEnds(t) BY <2>2 DEF WrkRunEnds
  <2>3. CASE WrkWinCheck(t) BY <2>3 DEF WrkWinCheck
  <2>4. CASE WrkWinPost(t) BY <2>4 DEF WrkWinPost, Post
  <2>5. CASE WrkWinMark(t) BY <2>5 DEF WrkWinMark
  <2>6. CASE WrkFailCheck(t) BY <2>6 DEF WrkFailCheck
  <2>7. CASE WrkFailMark(t) BY <2>7 DEF WrkFailMark
  <2>8. CASE WrkFailPost(t) BY <2>8 DEF WrkFailPost
  <2>9. CASE WrkReport(t) BY <2>9 DEF WrkReport
  <2>10. CASE WrkFault(t) BY <2>10 DEF WrkFault
  <2>11. CASE WrkExcept(t) BY <2>11 DEF WrkExcept
  <2>12. CASE WrkFinish(t) BY <2>12 DEF WrkFinish
  <2>13. CASE WrkNext(t) BY <2>13 DEF WrkNext
  <2>14. CASE WrkWinSet(t) BY <2>14 DEF WrkWinSet
  <2>15. CASE WrkPay(t) BY <2>15 DEF WrkPay
  <2>16. CASE WrkFailSet(t) BY <2>16 DEF WrkFailSet
  <2> QED
    BY <2>1, <2>2, <2>3, <2>4, <2>5, <2>6, <2>7, <2>8, <2>9, <2>10, <2>11, <2>12,
       <2>13, <2>14, <2>15, <2>16 DEF WrkStep
<1>3. ASSUME NEW c \in Callers, CancelBegin(c) \/ ShutdownBegin(c) \/ CallerStep(c)
      PROVE  Told'
  <2> USE <1>3 DEF Call, MarkTerminal, Assign, Dismiss
  <2>1. CASE CancelBegin(c) BY <2>1 DEF CancelBegin
  <2>2. CASE ShutdownBegin(c) BY <2>2 DEF ShutdownBegin
  <2>3. CASE CallerSkip(c) BY <2>3 DEF CallerSkip
  <2>4. CASE CallerCheck(c) BY <2>4 DEF CallerCheck
  <2>5. CASE CallerLook(c) BY <2>5 DEF CallerLook
  <2>6. CASE CallerSignal(c) BY <2>6 DEF CallerSignal
  <2>7. CASE CallerRevoke(c) BY <2>7 DEF CallerRevoke
  <2>8. CASE CallerMark(c) BY <2>8 DEF CallerMark
  <2>9. CASE CallerPost(c) BY <2>9 DEF CallerPost
  <2>10. CASE CallerReport(c) BY <2>10 DEF CallerReport
  <2>11. CASE CallerFault(c) BY <2>11 DEF CallerFault
  <2>12. CASE CallerRelease(c) BY <2>12 DEF CallerRelease
  <2>13. CASE CallerNext(c) BY <2>13 DEF CallerNext
  <2>14. CASE CancelReturns(c) BY <2>14 DEF CancelReturns
  <2>15. CASE ShutdownClears(c) BY <2>15 DEF ShutdownClears
  <2>16. CASE CallerSet(c) BY <2>16 DEF CallerSet
  <2> QED
    BY <2>1, <2>2, <2>3, <2>4, <2>5, <2>6, <2>7, <2>8, <2>9, <2>10, <2>11, <2>12,
       <2>13, <2>14, <2>15, <2>16 DEF CallerStep
<1>4. ASSUME NEW t \in Tasks, Spawn(t) PROVE Told'
  BY <1>4 DEF Spawn
<1>5. ASSUME NEW t \in Tasks, Launch(t) PROVE Told'
  BY <1>5 DEF Launch
<1>6. CASE ReleaseDeferred
  BY <1>6 DEF ReleaseDeferred
<1> QED
  BY <1>1, <1>2, <1>3, <1>4, <1>5, <1>6 DEF Next

\* Success and timeout reach the parent session before the status shows them,
\* though the message may fail to be stored and others race to end the task.
THEOREM ToldFirst == Spec => []ParentToldFirst
<1>1. Init => ParentToldFirst /\ ToldBeforeMark
  BY DEF Init, ParentToldFirst, ToldBeforeMark
<1>2. ParentToldFirst /\ ToldBeforeMark /\ UNCHANGED vars
        => (ParentToldFirst /\ ToldBeforeMark)'
  BY DEF ParentToldFirst, ToldBeforeMark, vars, taskVars, parentVars, supVars, wrkVars
<1> QED
  BY <1>1, <1>2, NextTold, Inductive, PTL DEF Spec
-----------------------------------------------------------------------------
\* Why a slot is held: its task waits in the queue with a start to come; it has
\* been marked running and its worker is to be made or has not given the slot
\* back; or it was cancelled on its way out of the queue, and the slot is lost.
\* Nothing but a cancel ends a task that was never started.
HeldFor ==
  /\ \A t \in Tasks : t \notin started => status[t] \in {"absent", "queued", "cancelled"}
  /\ \A t \in running :
        \/ status[t] = "queued" /\ (t \in pending \/ decided[t] # "no" \/ sup[t] # "none")
        \/ t \in started /\ (sup[t] = "fork" \/ wrk[t] \notin {"none", "next", "done"})
        \/ status[t] = "cancelled" /\ t \notin started

\* A slot is taken for a reason, and the reason outlives every step but the one
\* that gives the slot back.
LEMMA NextHeldFor == IInv /\ HeldFor /\ Next => HeldFor'
<1> SUFFICES ASSUME IInv, HeldFor, ~Cleared, Next PROVE HeldFor'
  BY DEF Next
<1> USE DEF IInv, HeldFor, Life, TypeOK, Statuses, SupPlaces, WrkPlaces, CallPlaces,
        Terminal, taskVars, parentVars, dictVars, slotVars, serviceVars, supVars,
        wrkVars, callerVars, supOnly, wrkOnly, callerOnly
<1>0. ASSUME NEW c \in Callers PROVE c # "no"
  BY NamesAssumption DEF Callers
<1>1. ASSUME NEW t \in Tasks, SupStep(t) PROVE HeldFor'
  <2> USE <1>1 DEF Sup, MarkTerminal, Assign
  <2>1. CASE SupCheck(t) BY <2>1 DEF SupCheck
  <2>2. CASE SupRefused(t) BY <2>2 DEF SupRefused, ThreadHasSlot
  <2>3. CASE SupReserve(t) BY <2>3 DEF SupReserve
  <2>4. CASE SupMark(t) BY <2>4 DEF SupMark
  <2>5. CASE SupMarkRaises(t) BY <2>5 DEF SupMarkRaises
  <2>6. CASE SupFork(t) BY <2>6 DEF SupFork
  <2>7. CASE SupJoin(t) BY <2>7 DEF SupJoin
  <2>8. CASE SupLate(t) BY <2>8 DEF SupLate
  <2>9. CASE SupExpire(t) BY <2>9 DEF SupExpire
  <2>10. CASE SupRevoke(t) BY <2>10 DEF SupRevoke
  <2>11. CASE SupPost(t) BY <2>11 DEF SupPost
  <2>12. CASE SupMarkTimedOut(t) BY <2>12 DEF SupMarkTimedOut
  <2>13. CASE SupReport(t) BY <2>13 DEF SupReport
  <2>14. CASE SupFault(t) BY <2>14 DEF SupFault
  <2>15. CASE SupRelease(t) BY <2>15 DEF SupRelease, ReleaseSlot
  <2>16. CASE SupNext(t) BY <2>16, StartNextChoice DEF SupNext
  <2>17. CASE SupSet(t) BY <2>17 DEF SupSet
  <2>18. CASE SupSetTimedOut(t) BY <2>18 DEF SupSetTimedOut
  <2> QED
    BY <2>1, <2>2, <2>3, <2>4, <2>5, <2>6, <2>7, <2>8, <2>9, <2>10, <2>11, <2>12,
       <2>13, <2>14, <2>15, <2>16, <2>17, <2>18 DEF SupStep
<1>2. ASSUME NEW t \in Tasks, WrkStep(t) PROVE HeldFor'
  <2> USE <1>2 DEF Wrk, MarkTerminal, Assign
  <2>1. CASE WrkStart(t) BY <2>1 DEF WrkStart
  <2>2. CASE WrkRunEnds(t) BY <2>2 DEF WrkRunEnds
  <2>3. CASE WrkWinCheck(t) BY <2>3 DEF WrkWinCheck
  <2>4. CASE WrkWinPost(t) BY <2>4 DEF WrkWinPost
  <2>5. CASE WrkWinMark(t) BY <2>5 DEF WrkWinMark
  <2>6. CASE WrkFailCheck(t) BY <2>6 DEF WrkFailCheck
  <2>7. CASE WrkFailMark(t) BY <2>7 DEF WrkFailMark
  <2>8. CASE WrkFailPost(t) BY <2>8 DEF WrkFailPost
  <2>9. CASE WrkReport(t) BY <2>9 DEF WrkReport
  <2>10. CASE WrkFault(t) BY <2>10 DEF WrkFault
  <2>11. CASE WrkExcept(t) BY <2>11 DEF WrkExcept
  <2>12. CASE WrkFinish(t) BY <2>12 DEF WrkFinish, ReleaseSlot
  <2>13. CASE WrkNext(t) BY <2>13, StartNextChoice DEF WrkNext
  <2>14. CASE WrkWinSet(t) BY <2>14 DEF WrkWinSet
  <2>15. CASE WrkPay(t) BY <2>15 DEF WrkPay
  <2>16. CASE WrkFailSet(t) BY <2>16 DEF WrkFailSet
  <2> QED
    BY <2>1, <2>2, <2>3, <2>4, <2>5, <2>6, <2>7, <2>8, <2>9, <2>10, <2>11, <2>12,
       <2>13, <2>14, <2>15, <2>16 DEF WrkStep
<1>3. ASSUME NEW c \in Callers, CancelBegin(c) \/ ShutdownBegin(c) \/ CallerStep(c)
      PROVE  HeldFor'
  <2> USE <1>3 DEF Call, MarkTerminal, Assign, Dismiss
  <2>1. CASE CancelBegin(c) BY <2>1 DEF CancelBegin
  <2>2. CASE ShutdownBegin(c) BY <2>2 DEF ShutdownBegin
  <2>3. CASE CallerSkip(c) BY <2>3 DEF CallerSkip
  <2>4. CASE CallerCheck(c) BY <2>4 DEF CallerCheck
  <2>5. CASE CallerLook(c) BY <2>5 DEF CallerLook
  <2>6. CASE CallerSignal(c) BY <2>6 DEF CallerSignal
  <2>7. CASE CallerRevoke(c) BY <2>7 DEF CallerRevoke
  <2>8. CASE CallerMark(c) BY <2>8 DEF CallerMark
  <2>9. CASE CallerPost(c) BY <2>9 DEF CallerPost
  <2>10. CASE CallerReport(c) BY <2>10 DEF CallerReport
  <2>11. CASE CallerFault(c) BY <2>11 DEF CallerFault
  <2>12. CASE CallerRelease(c) BY <2>12 DEF CallerRelease, ReleaseSlot
  <2>13. CASE CallerNext(c) BY <1>0, <2>13, StartNextChoice DEF CallerNext
  <2>14. CASE CancelReturns(c) BY <2>14 DEF CancelReturns
  <2>15. CASE ShutdownClears(c) BY <2>15 DEF ShutdownClears
  <2>16. CASE CallerSet(c) BY <2>16 DEF CallerSet
  <2> QED
    BY <2>1, <2>2, <2>3, <2>4, <2>5, <2>6, <2>7, <2>8, <2>9, <2>10, <2>11, <2>12,
       <2>13, <2>14, <2>15, <2>16 DEF CallerStep
<1>4. ASSUME NEW t \in Tasks, Spawn(t) PROVE HeldFor'
  BY <1>4 DEF Spawn
<1>5. ASSUME NEW t \in Tasks, Launch(t) PROVE HeldFor'
  BY <1>5 DEF Launch
<1>6. CASE ReleaseDeferred
  BY <1>6 DEF ReleaseDeferred, Queued
<1> QED
  BY <1>1, <1>2, <1>3, <1>4, <1>5, <1>6 DEF Next

\* No slot is lost, however many threads end or cancel tasks, but that of a task
\* cancelled before it was marked running.
THEOREM SlotsAreOwned == Spec => []SlotHasOwner
<1>1. Init => HeldFor
  BY DEF Init, HeldFor
<1>2. HeldFor /\ UNCHANGED vars => HeldFor'
  BY DEF HeldFor, vars, taskVars, serviceVars, dictVars, slotVars, supVars, wrkVars
<1>3. IInv /\ HeldFor => SlotHasOwner
  BY DEF IInv, Life, TypeOK, HeldFor, SlotHasOwner, WorkerAlive
<1> QED
  BY <1>1, <1>2, <1>3, NextHeldFor, Inductive, PTL DEF Spec

-----------------------------------------------------------------------------
\* The threads on their way to choose the next task, and how many they are.
SupSeek  == {t \in Tasks : sup[t] = "next"}
WrkSeek  == {t \in Tasks : wrk[t] = "next"}
CallSeek == {c \in Callers : at[c] = "next"}
Seeking  == Cardinality(SupSeek) + Cardinality(WrkSeek) + Cardinality(CallSeek)

\* While a task could start, every free slot has a thread that looks for one.
\* That some thread looks is not inductive: it may take the first task of two.
SeekersMatchRoom ==
    ~Cleared /\ Startable # {} => MaxConcurrent <= Cardinality(running) + Seeking

\* There are finitely many slots, tasks, callers and threads.
LEMMA FiniteThreads ==
    ASSUME TypeOK
    PROVE  /\ IsFiniteSet(Tasks) /\ IsFiniteSet(Callers) /\ IsFiniteSet(running)
           /\ IsFiniteSet(SupSeek) /\ IsFiniteSet(WrkSeek) /\ IsFiniteSet(CallSeek)
           /\ Cardinality(running) \in Nat
           /\ Cardinality(SupSeek) \in Nat /\ Cardinality(WrkSeek) \in Nat
           /\ Cardinality(CallSeek) \in Nat
<1>1. IsFiniteSet(Tasks)
  BY FS_Interval, BoundsAssumption DEF Tasks
<1>2. IsFiniteSet(Callers)
  BY FS_Union, ThreadsAssumption DEF Callers
<1>3. IsFiniteSet(running)
  BY <1>1, FS_Subset DEF TypeOK
<1>4. IsFiniteSet(SupSeek) /\ IsFiniteSet(WrkSeek) /\ IsFiniteSet(CallSeek)
  BY <1>1, <1>2, FS_Subset DEF SupSeek, WrkSeek, CallSeek
<1> QED
  BY <1>1, <1>2, <1>3, <1>4, FS_CardinalityType

\* A supervisor about to make its worker has none yet.
ForkIsFirst == \A t \in Tasks : sup[t] = "fork" => wrk[t] = "none"

LEMMA NextForkIsFirst == IInv /\ ForkIsFirst /\ [Next]_vars => ForkIsFirst'
<1> SUFFICES ASSUME IInv, ForkIsFirst, [Next]_vars, NEW t \in Tasks, sup'[t] = "fork"
             PROVE  wrk'[t] = "none"
  BY DEF ForkIsFirst
<1>1. sup[t] \in {"set", "fork"}
  <2> USE DEF IInv, TypeOK, supOnly, wrkOnly, callerOnly, supVars
  <2>1. ASSUME NEW u \in Tasks, SupStep(u) PROVE sup[t] \in {"set", "fork"}
    BY <2>1 DEF SupStep, Sup, MarkTerminal, SupCheck, SupRefused, SupReserve, SupMark,
       SupSet, SupMarkRaises, SupFork, SupJoin, SupLate, SupExpire, SupRevoke, SupPost,
       SupMarkTimedOut, SupSetTimedOut, SupReport, SupFault, SupRelease, SupNext
  <2>2. ASSUME NEW u \in Tasks, WrkStep(u) PROVE sup' = sup
    BY <2>2 DEF WrkStep, WrkStart, WrkRunEnds, WrkWinCheck, WrkWinPost, WrkWinMark,
       WrkWinSet, WrkPay, WrkFailCheck, WrkFailMark, WrkFailSet, WrkFailPost, WrkReport,
       WrkFault, WrkExcept, WrkFinish, WrkNext
  <2>3. ASSUME NEW c \in Callers, CallerStep(c) \/ CancelBegin(c) \/ ShutdownBegin(c)
        PROVE  sup' = sup
    BY <2>3 DEF CallerStep, CancelBegin, ShutdownBegin, CallerSkip, CallerCheck,
       CallerLook, CallerSignal, CallerRevoke, CallerMark, CallerSet, CallerPost,
       CallerReport, CallerFault, CallerRelease, CallerNext, CancelReturns,
       ShutdownClears
  <2>4. ASSUME NEW u \in Tasks, Spawn(u) \/ Launch(u) PROVE sup[t] \in {"set", "fork"}
    BY <2>4 DEF Spawn, Launch
  <2>5. CASE ReleaseDeferred \/ UNCHANGED vars
    BY <2>5 DEF ReleaseDeferred, vars
  <2> QED
    BY <2>1, <2>2, <2>3, <2>4, <2>5 DEF Next
<1>2. wrk[t] = "none"
  BY <1>1 DEF IInv, Life, ForkIsFirst
<1> QED
  BY <1>2, OnlyForkStartsWorker

\* A step that neither frees a slot nor chooses a task nor ends a turn.
Quiet ==
    /\ UNCHANGED <<SupSeek, WrkSeek, CallSeek>>
    /\ running \subseteq running' /\ Startable' \subseteq Startable

LEMMA MostAreQuiet ==
    ASSUME IInv, ForkIsFirst, Next
    PROVE  \/ Quiet \/ ReleaseDeferred \/ Cleared'
           \/ \E t \in Tasks : SupRelease(t) \/ SupNext(t) \/ WrkFinish(t) \/ WrkNext(t)
           \/ \E c \in Callers : CallerRelease(c) \/ CallerNext(c)
<1> USE DEF IInv, TypeOK, Quiet, SupSeek, WrkSeek, CallSeek, Startable, Queued,
        Terminal, MarkTerminal, Assign, taskVars, parentVars, dictVars, slotVars,
        serviceVars, supVars, wrkVars, callerVars, supOnly, wrkOnly, callerOnly
<1>1. ASSUME NEW t \in Tasks, SupStep(t), ~SupRelease(t), ~SupNext(t) PROVE Quiet
  <2> USE <1>1 DEF Sup
  <2>1. CASE SupCheck(t) BY <2>1 DEF SupCheck
  <2>2. CASE SupRefused(t) BY <2>2 DEF SupRefused
  <2>3. CASE SupReserve(t) BY <2>3 DEF SupReserve
  <2>4. CASE SupMark(t) BY <2>4 DEF SupMark
  <2>5. CASE SupMarkRaises(t) BY <2>5 DEF SupMarkRaises
  <2>6. CASE SupFork(t) BY <2>6 DEF SupFork, ForkIsFirst
  <2>7. CASE SupJoin(t) BY <2>7 DEF SupJoin
  <2>8. CASE SupLate(t) BY <2>8 DEF SupLate
  <2>9. CASE SupExpire(t) BY <2>9 DEF SupExpire
  <2>10. CASE SupRevoke(t) BY <2>10 DEF SupRevoke
  <2>11. CASE SupPost(t) BY <2>11 DEF SupPost
  <2>12. CASE SupMarkTimedOut(t) BY <2>12 DEF SupMarkTimedOut
  <2>13. CASE SupReport(t) BY <2>13 DEF SupReport
  <2>14. CASE SupFault(t) BY <2>14 DEF SupFault
  <2>15. CASE SupSet(t) BY <2>15 DEF SupSet
  <2>16. CASE SupSetTimedOut(t) BY <2>16 DEF SupSetTimedOut
  <2> QED
    BY <2>1, <2>2, <2>3, <2>4, <2>5, <2>6, <2>7, <2>8, <2>9, <2>10, <2>11, <2>12,
       <2>13, <2>14, <2>15, <2>16 DEF SupStep
<1>2. ASSUME NEW t \in Tasks, WrkStep(t), ~WrkFinish(t), ~WrkNext(t) PROVE Quiet
  <2> USE <1>2 DEF Wrk
  <2>1. CASE WrkStart(t) BY <2>1 DEF WrkStart
  <2>2. CASE WrkRunEnds(t) BY <2>2 DEF WrkRunEnds
  <2>3. CASE WrkWinCheck(t) BY <2>3 DEF WrkWinCheck
  <2>4. CASE WrkWinPost(t) BY <2>4 DEF WrkWinPost
  <2>5. CASE WrkWinMark(t) BY <2>5 DEF WrkWinMark
  <2>6. CASE WrkFailCheck(t) BY <2>6 DEF WrkFailCheck
  <2>7. CASE WrkFailMark(t) BY <2>7 DEF WrkFailMark
  <2>8. CASE WrkFailPost(t) BY <2>8 DEF WrkFailPost
  <2>9. CASE WrkReport(t) BY <2>9 DEF WrkReport
  <2>10. CASE WrkFault(t) BY <2>10 DEF WrkFault
  <2>11. CASE WrkExcept(t) BY <2>11 DEF WrkExcept
  <2>12. CASE WrkWinSet(t) BY <2>12 DEF WrkWinSet
  <2>13. CASE WrkPay(t) BY <2>13 DEF WrkPay
  <2>14. CASE WrkFailSet(t) BY <2>14 DEF WrkFailSet
  <2> QED
    BY <2>1, <2>2, <2>3, <2>4, <2>5, <2>6, <2>7, <2>8, <2>9, <2>10, <2>11, <2>12,
       <2>13, <2>14 DEF WrkStep
<1>3. ASSUME NEW c \in Callers, CancelBegin(c) \/ ShutdownBegin(c) \/ CallerStep(c),
             ~CallerRelease(c), ~CallerNext(c), ~ShutdownClears(c)
      PROVE  Quiet
  <2> USE <1>3 DEF Call
  <2>1. CASE CancelBegin(c) BY <2>1 DEF CancelBegin
  <2>2. CASE ShutdownBegin(c) BY <2>2 DEF ShutdownBegin
  <2>3. CASE CallerSkip(c) BY <2>3 DEF CallerSkip
  <2>4. CASE CallerCheck(c) BY <2>4 DEF CallerCheck
  <2>5. CASE CallerLook(c) BY <2>5 DEF CallerLook
  <2>6. CASE CallerSignal(c) BY <2>6 DEF CallerSignal
  <2>7. CASE CallerRevoke(c) BY <2>7 DEF CallerRevoke
  <2>8. CASE CallerMark(c) BY <2>8 DEF CallerMark
  <2>9. CASE CallerPost(c) BY <2>9 DEF CallerPost
  <2>10. CASE CallerReport(c) BY <2>10 DEF CallerReport
  <2>11. CASE CallerFault(c) BY <2>11 DEF CallerFault
  <2>12. CASE CancelReturns(c) BY <2>12 DEF CancelReturns
  <2>13. CASE CallerSet(c) BY <2>13 DEF CallerSet
  <2> QED
    BY <2>1, <2>2, <2>3, <2>4, <2>5, <2>6, <2>7, <2>8, <2>9, <2>10, <2>11, <2>12, <2>13
       DEF CallerStep
<1>4. ASSUME NEW c \in Callers, ShutdownClears(c) PROVE Cleared'
  BY <1>4 DEF ShutdownClears, Call, Cleared
<1>5. ASSUME NEW t \in Tasks, Spawn(t) PROVE Quiet
  BY <1>5 DEF Spawn
<1>6. ASSUME NEW t \in Tasks, Launch(t) PROVE Quiet
  <2>1. ASSUME NEW u \in Tasks PROVE sup'[u] = "next" <=> sup[u] = "next"
    BY <1>6, <2>1 DEF Launch, Life
  <2> QED
    BY <1>6, <2>1 DEF Launch
<1> QED
  BY <1>1, <1>2, <1>3, <1>4, <1>5, <1>6 DEF Next, SupStep, WrkStep, CallerStep

\* A release looks for a successor while there is room, and brings no task to the
\* queue: the task of the slot has left it.
LEMMA ReleaseSeeks ==
    ASSUME IInv, Next, NEW x \in Tasks, ReleaseSlot(x), status' = status,
           status[x] # "queued"
    PROVE  Startable' \subseteq Startable /\ (~RoomAfterRelease => Full')
<1>1. Startable' \subseteq Startable
  BY DEF ReleaseSlot, Startable, Queued
<1>2. TypeOK'
  BY NextType DEF IInv
<1>3. Cardinality(running)' \in Nat
  <2>1. IsFiniteSet(running) /\ running' \subseteq running
    BY FiniteThreads DEF IInv, ReleaseSlot
  <2> QED
    BY <2>1, FS_Subset, FS_CardinalityType
<1> QED
  BY <1>1, <1>3, BoundsAssumption DEF RoomAfterRelease, Full

\* The choice of the next task takes one slot, unless none is free or nothing waits.
LEMMA NextTakesSlot ==
    ASSUME IInv, ~Cleared, NEW who, StartNext(who), UNCHANGED <<status, pending>>
    PROVE  /\ Startable' \subseteq Startable
           /\ \/ Startable' = {}
              \/ MaxConcurrent <= Cardinality(running')
              \/ Startable # {} /\ Cardinality(running') = Cardinality(running) + 1
<1>1. CASE Full \/ Startable = {}
  BY <1>1, FiniteThreads, BoundsAssumption
     DEF StartNext, slotVars, Startable, Queued, Full, IInv
<1>2. CASE ~(Full \/ Startable = {})
  <2> DEFINE e == Earliest(Startable)
  <2>1. e \in Startable
    BY <1>2, EarliestInSet DEF Startable, Queued
  <2>2. e \notin running
    BY <2>1 DEF Startable
  <2>3. running' = running \cup {e}
    BY <1>2 DEF StartNext
  <2>4. Cardinality(running') = Cardinality(running) + 1
    BY <2>2, <2>3, FiniteThreads, FS_AddElement DEF IInv
  <2>5. Startable' \subseteq Startable
    BY <2>3 DEF Startable, Queued
  <2> QED
    BY <1>2, <2>4, <2>5
<1> QED
  BY <1>1, <1>2

\* A slot given back is one free slot more at most, and one thread more that looks.
LEMMA ReleaseCounts ==
    ASSUME TypeOK, NEW x, running' = running \ {x}
    PROVE  /\ Cardinality(running') \in Nat
           /\ Cardinality(running') + 1 >= Cardinality(running)
<1>1. IsFiniteSet(running) /\ Cardinality(running) \in Nat
  BY FiniteThreads
<1>2. IsFiniteSet(running') /\ Cardinality(running') \in Nat
  <2>1. running' \subseteq running
    OBVIOUS
  <2> QED
    BY <1>1, <2>1, FS_Subset, FS_CardinalityType
<1>3. CASE x \in running
  <2>1. Cardinality(running \ {x}) = Cardinality(running) - 1
    BY <1>1, <1>3, FS_RemoveElement
  <2>2. Cardinality(running') = Cardinality(running) - 1
    BY <2>1, Zenon
  <2> QED
    BY <1>1, <1>2, <2>2
<1>4. CASE x \notin running
  <2>1. running' = running
    BY <1>4
  <2>2. Cardinality(running') = Cardinality(running)
    BY <2>1, Zenon
  <2> QED
    BY <1>1, <1>2, <2>2
<1> QED
  BY <1>3, <1>4

\* Every step leaves a thread that looks for each free slot, while a task waits.
LEMMA NextSeekers == IInv /\ ForkIsFirst /\ SeekersMatchRoom /\ Next => SeekersMatchRoom'
<1> SUFFICES ASSUME IInv, ForkIsFirst, SeekersMatchRoom, Next, ~Cleared', Startable' # {}
             PROVE  MaxConcurrent <= Cardinality(running') + Seeking'
  BY DEF SeekersMatchRoom
<1>0. ~Cleared
  BY DEF Next
<1> USE FiniteThreads, BoundsAssumption DEF IInv
<1>1. TypeOK'
  BY NextType
<1>2. /\ Cardinality(running)' \in Nat /\ Cardinality(SupSeek)' \in Nat
      /\ Cardinality(WrkSeek)' \in Nat /\ Cardinality(CallSeek)' \in Nat
      /\ IsFiniteSet(running')
      /\ IsFiniteSet(SupSeek') /\ IsFiniteSet(WrkSeek') /\ IsFiniteSet(CallSeek')
  BY <1>1, FS_Subset, FS_CardinalityType DEF TypeOK, SupSeek, WrkSeek, CallSeek
<1>3. CASE Quiet
  <2>1. Cardinality(running) <= Cardinality(running')
    BY <1>2, <1>3, FS_Subset DEF Quiet
  <2> QED
    BY <1>0, <1>2, <1>3, <2>1 DEF Quiet, SeekersMatchRoom, Seeking
<1>4. CASE ReleaseDeferred
  <2>1. PICK admitted \in SUBSET ((pending \cap Queued) \ running) :
          /\ \/ admitted = (pending \cap Queued) \ running
             \/ Cardinality(running \cup admitted) >= MaxConcurrent
          /\ running' = running \cup admitted
    BY <1>4 DEF ReleaseDeferred
  <2>2. CASE Cardinality(running \cup admitted) >= MaxConcurrent
    BY <1>2, <2>1, <2>2 DEF Seeking
  <2>3. CASE admitted = (pending \cap Queued) \ running
    <3>1. Startable' \subseteq Startable
      BY <1>4, <2>1, <2>3 DEF ReleaseDeferred, Startable, Queued, taskVars
    <3>2. Quiet
      BY <1>4, <2>1, <3>1
         DEF ReleaseDeferred, Quiet, SupSeek, WrkSeek, CallSeek, supVars, wrkVars,
         callerVars
    <3> QED
      BY <1>3, <3>2
  <2> QED
    BY <2>1, <2>2, <2>3
<1>5. ASSUME NEW t \in Tasks, SupRelease(t)
      PROVE  MaxConcurrent <= Cardinality(running') + Seeking'
  <2>1. Startable' \subseteq Startable /\ (~RoomAfterRelease => Full')
    BY <1>5, ReleaseSeeks DEF SupRelease, Sup, Life, taskVars
  <2>2. Cardinality(running') + 1 >= Cardinality(running)
    BY <1>5, ReleaseCounts DEF SupRelease, ReleaseSlot
  <2>3. CASE RoomAfterRelease
    <3>1. Cardinality(SupSeek') = Cardinality(SupSeek) + 1
      <4>1. SupSeek' = SupSeek \cup {t} /\ t \notin SupSeek
        BY <1>5, <2>3 DEF SupRelease, Sup, SupSeek, TypeOK
      <4> QED
        BY <4>1, FS_AddElement
    <3>2. WrkSeek' = WrkSeek /\ CallSeek' = CallSeek
      BY <1>5 DEF SupRelease, WrkSeek, CallSeek, wrkVars, callerVars
    <3> QED
      BY <1>0, <1>2, <2>1, <2>2, <3>1, <3>2 DEF SeekersMatchRoom, Seeking
  <2> QED
    BY <1>2, <2>1, <2>3 DEF Full, Seeking
<1>6. ASSUME NEW t \in Tasks, WrkFinish(t)
      PROVE  MaxConcurrent <= Cardinality(running') + Seeking'
  <2>1. Startable' \subseteq Startable /\ (~RoomAfterRelease => Full')
    BY <1>6, ReleaseSeeks DEF WrkFinish, Wrk, Life, taskVars
  <2>2. Cardinality(running') + 1 >= Cardinality(running)
    BY <1>6, ReleaseCounts DEF WrkFinish, ReleaseSlot
  <2>3. CASE RoomAfterRelease
    <3>1. Cardinality(WrkSeek') = Cardinality(WrkSeek) + 1
      <4>1. WrkSeek' = WrkSeek \cup {t} /\ t \notin WrkSeek
        BY <1>6, <2>3 DEF WrkFinish, Wrk, WrkSeek, TypeOK
      <4> QED
        BY <4>1, FS_AddElement
    <3>2. SupSeek' = SupSeek /\ CallSeek' = CallSeek
      BY <1>6 DEF WrkFinish, SupSeek, CallSeek, supVars, callerVars
    <3> QED
      BY <1>0, <1>2, <2>1, <2>2, <3>1, <3>2 DEF SeekersMatchRoom, Seeking
  <2> QED
    BY <1>2, <2>1, <2>3 DEF Full, Seeking
<1>7. ASSUME NEW c \in Callers, CallerRelease(c)
      PROVE  MaxConcurrent <= Cardinality(running') + Seeking'
  <2>1. Startable' \subseteq Startable /\ (~RoomAfterRelease => Full')
    <3>1. Victim(c) \in Tasks /\ status[Victim(c)] # "queued"
      BY <1>7, EarliestInSet
         DEF CallerRelease, CallHasTask, TypeOK, Victim, CallersKnow, Knows
    <3> QED
      BY <1>7, <3>1, ReleaseSeeks DEF CallerRelease, taskVars
  <2>2. Cardinality(running') + 1 >= Cardinality(running)
    BY <1>7, ReleaseCounts DEF CallerRelease, ReleaseSlot
  <2>3. CASE RoomAfterRelease
    <3>1. Cardinality(CallSeek') = Cardinality(CallSeek) + 1
      <4>1. CallSeek' = CallSeek \cup {c} /\ c \notin CallSeek
        BY <1>7, <2>3 DEF CallerRelease, Call, CallSeek, TypeOK
      <4> QED
        BY <4>1, FS_AddElement
    <3>2. SupSeek' = SupSeek /\ WrkSeek' = WrkSeek
      BY <1>7 DEF CallerRelease, SupSeek, WrkSeek, supVars, wrkVars
    <3> QED
      BY <1>0, <1>2, <2>1, <2>2, <3>1, <3>2 DEF SeekersMatchRoom, Seeking
  <2> QED
    BY <1>2, <2>1, <2>3 DEF Full, Seeking
<1>8. ASSUME NEW t \in Tasks, SupNext(t)
      PROVE  MaxConcurrent <= Cardinality(running') + Seeking'
  <2>1. /\ Startable' \subseteq Startable
        /\ \/ Startable' = {}
           \/ MaxConcurrent <= Cardinality(running')
           \/ Startable # {} /\ Cardinality(running') = Cardinality(running) + 1
    BY <1>0, <1>8, NextTakesSlot DEF SupNext, taskVars, dictVars
  <2>2. Cardinality(SupSeek) = Cardinality(SupSeek') + 1
    <3>1. SupSeek = SupSeek' \cup {t} /\ t \notin SupSeek'
      BY <1>8 DEF SupNext, Sup, SupSeek, TypeOK
    <3> QED
      BY <1>2, <3>1, FS_AddElement
  <2>3. WrkSeek' = WrkSeek /\ CallSeek' = CallSeek
    BY <1>8 DEF SupNext, WrkSeek, CallSeek, wrkVars, callerVars
  <2> QED
    BY <1>0, <1>2, <2>1, <2>2, <2>3 DEF SeekersMatchRoom, Seeking
<1>9. ASSUME NEW t \in Tasks, WrkNext(t)
      PROVE  MaxConcurrent <= Cardinality(running') + Seeking'
  <2>1. /\ Startable' \subseteq Startable
        /\ \/ Startable' = {}
           \/ MaxConcurrent <= Cardinality(running')
           \/ Startable # {} /\ Cardinality(running') = Cardinality(running) + 1
    BY <1>0, <1>9, NextTakesSlot DEF WrkNext, taskVars, dictVars
  <2>2. Cardinality(WrkSeek) = Cardinality(WrkSeek') + 1
    <3>1. WrkSeek = WrkSeek' \cup {t} /\ t \notin WrkSeek'
      BY <1>9 DEF WrkNext, Wrk, WrkSeek, TypeOK
    <3> QED
      BY <1>2, <3>1, FS_AddElement
  <2>3. SupSeek' = SupSeek /\ CallSeek' = CallSeek
    BY <1>9 DEF WrkNext, SupSeek, CallSeek, supVars, callerVars
  <2> QED
    BY <1>0, <1>2, <2>1, <2>2, <2>3 DEF SeekersMatchRoom, Seeking
<1>10. ASSUME NEW c \in Callers, CallerNext(c)
      PROVE  MaxConcurrent <= Cardinality(running') + Seeking'
  <2>1. /\ Startable' \subseteq Startable
        /\ \/ Startable' = {}
           \/ MaxConcurrent <= Cardinality(running')
           \/ Startable # {} /\ Cardinality(running') = Cardinality(running) + 1
    BY <1>0, <1>10, NextTakesSlot DEF CallerNext, taskVars, dictVars
  <2>2. Cardinality(CallSeek) = Cardinality(CallSeek') + 1
    <3>1. CallSeek = CallSeek' \cup {c} /\ c \notin CallSeek'
      BY <1>10 DEF CallerNext, Call, CallSeek, TypeOK
    <3> QED
      BY <1>2, <3>1, FS_AddElement
  <2>3. SupSeek' = SupSeek /\ WrkSeek' = WrkSeek
    BY <1>10 DEF CallerNext, SupSeek, WrkSeek, supVars, wrkVars
  <2> QED
    BY <1>0, <1>2, <2>1, <2>2, <2>3 DEF SeekersMatchRoom, Seeking
<1> QED
  BY <1>3, <1>4, <1>5, <1>6, <1>7, <1>8, <1>9, <1>10, MostAreQuiet

\* A task whose parent's turn has ended never waits beside a free slot that no
\* thread is about to give it, whatever else frees, takes or cancels.
THEOREM NoIdleSlot == Spec => []WaitsOnlyForRoom
<1>1. Init => ForkIsFirst /\ SeekersMatchRoom
  BY DEF Init, ForkIsFirst, SeekersMatchRoom, Startable, Queued
<1>2. IInv /\ ForkIsFirst /\ SeekersMatchRoom /\ [Next]_vars
        => (ForkIsFirst /\ SeekersMatchRoom)'
  <2>1. SeekersMatchRoom /\ UNCHANGED vars => SeekersMatchRoom'
    BY DEF SeekersMatchRoom, Seeking, SupSeek, WrkSeek, CallSeek, Startable, Queued,
       Cleared, vars, taskVars, serviceVars, dictVars, slotVars, supVars, wrkVars,
       callerVars
  <2> QED
    BY <2>1, NextForkIsFirst, NextSeekers
<1>3. IInv /\ SeekersMatchRoom => WaitsOnlyForRoom
  <2> SUFFICES ASSUME IInv, SeekersMatchRoom, ~Cleared, Startable # {}, ~Full, ~SomeoneSeeks
               PROVE  FALSE
    BY DEF WaitsOnlyForRoom
  <2>1. SupSeek = {} /\ WrkSeek = {} /\ CallSeek = {}
    BY DEF SomeoneSeeks, SupSeek, WrkSeek, CallSeek
  <2>2. Seeking = 0
    BY <2>1, FS_EmptySet DEF Seeking
  <2> QED
    BY <2>2, FiniteThreads, BoundsAssumption DEF IInv, SeekersMatchRoom, Full
<1> QED
  BY <1>1, <1>2, <1>3, Inductive, PTL DEF Spec

-----------------------------------------------------------------------------
\* What the supervisor knows of a child that runs and that no call set out to end:
\* it is past the fork; when it expires the task, the status still says running, so
\* that it leaves the slot to the worker.
ChildIsKnown == ~Cleared => \A t \in Tasks \ called :
    /\ sup[t] \in {"set", "fork"} => t \in running
    /\ wrk[t] \in {"start", "run"} =>
          /\ t \in running
          /\ sup[t] \in {"join", "late", "expire", "revoke", "post", "markTimedOut",
                         "setTimedOut", "report", "done"}
          /\ sup[t] = "expire" => status[t] = "running"
          /\ sup[t] \in {"revoke", "post", "markTimedOut", "setTimedOut", "report"} => supWas[t]

\* Every step keeps it: a call that ends a task or gives its slot back has set out
\* to end it.
LEMMA NextChildIsKnown == IInv /\ ForkIsFirst /\ ChildIsKnown /\ Next => ChildIsKnown'
<1> SUFFICES ASSUME IInv, ForkIsFirst, ChildIsKnown, ~Cleared, Next PROVE ChildIsKnown'
  BY DEF Next
<1>0. ASSUME NEW c \in Callers, at[c] \notin {"idle", "check", "done", "cleared"}
      PROVE  Victim(c) \in called
  BY <1>0 DEF IInv, CallersKnow, Knows
<1> USE DEF IInv, ChildIsKnown, Life, TypeOK, Statuses, SupPlaces, WrkPlaces,
        CallPlaces, Terminal, taskVars, parentVars, dictVars, slotVars, serviceVars,
        supVars, wrkVars, callerVars, supOnly, wrkOnly, callerOnly
<1>1. ASSUME NEW t \in Tasks, SupStep(t) PROVE ChildIsKnown'
  <2> USE <1>1 DEF Sup, MarkTerminal, Assign
  <2>1. CASE SupCheck(t) BY <2>1 DEF SupCheck
  <2>2. CASE SupRefused(t) BY <2>2 DEF SupRefused
  <2>3. CASE SupReserve(t) BY <2>3 DEF SupReserve
  <2>4. CASE SupMark(t) BY <2>4 DEF SupMark, ThreadHasSlot
  <2>5. CASE SupMarkRaises(t) BY <2>5 DEF SupMarkRaises
  <2>6. CASE SupFork(t) BY <2>6 DEF SupFork
  <2>7. CASE SupJoin(t) BY <2>7 DEF SupJoin
  <2>8. CASE SupLate(t) BY <2>8 DEF SupLate
  <2>9. CASE SupExpire(t)
    <3>1. t \notin called /\ wrk[t] \in {"start", "run"} => status[t] = "running"
      BY <2>9 DEF SupExpire
    <3>2. /\ sup' = [sup EXCEPT ![t] = "revoke"]
          /\ supWas' = [supWas EXCEPT ![t] = (status[t] = "running")]
          /\ UNCHANGED <<status, wrk, running, called, at>>
      BY <2>9 DEF SupExpire
    <3>3. ASSUME NEW u \in Tasks, u # t
          PROVE  sup'[u] = sup[u] /\ (supWas'[u] <=> supWas[u])
      BY <3>2, <3>3
    <3>4. sup'[t] = "revoke" /\ (status[t] = "running" => supWas'[t])
      <4>1. supWas'[t] = (status[t] = "running")
        BY <3>2
      <4>2. sup'[t] = "revoke"
        BY <3>2
      <4> QED
        BY <4>1, <4>2, Zenon
    <3>5. ASSUME NEW u \in Tasks \ called, u # t, wrk[u] \in {"start", "run"},
                 sup[u] \in {"revoke", "post", "markTimedOut", "setTimedOut",
                            "report"}
          PROVE  supWas'[u]
      <4>1. supWas[u]
        BY <3>5
      <4> QED
        BY <3>3, <3>5, <4>1
    <3> QED
      BY <3>1, <3>2, <3>3, <3>4, <3>5 DEF Cleared
  <2>10. CASE SupRevoke(t) BY <2>10 DEF SupRevoke
  <2>11. CASE SupPost(t) BY <2>11 DEF SupPost
  <2>12. CASE SupMarkTimedOut(t) BY <2>12 DEF SupMarkTimedOut
  <2>13. CASE SupReport(t) BY <2>13 DEF SupReport
  <2>14. CASE SupFault(t) BY <2>14 DEF SupFault
  <2>15. CASE SupRelease(t) BY <2>15 DEF SupRelease, ReleaseSlot
  <2>16. CASE SupNext(t) BY <2>16, StartNextChoice DEF SupNext
  <2>17. CASE SupSet(t) BY <2>17 DEF SupSet
  <2>18. CASE SupSetTimedOut(t) BY <2>18 DEF SupSetTimedOut
  <2> QED
    BY <2>1, <2>2, <2>3, <2>4, <2>5, <2>6, <2>7, <2>8, <2>9, <2>10, <2>11, <2>12,
       <2>13, <2>14, <2>15, <2>16, <2>17, <2>18 DEF SupStep
<1>2. ASSUME NEW t \in Tasks, WrkStep(t) PROVE ChildIsKnown'
  <2> USE <1>2 DEF Wrk, MarkTerminal, Assign, ForkIsFirst
  <2>1. CASE WrkStart(t) BY <2>1 DEF WrkStart
  <2>2. CASE WrkRunEnds(t) BY <2>2 DEF WrkRunEnds
  <2>3. CASE WrkWinCheck(t) BY <2>3 DEF WrkWinCheck
  <2>4. CASE WrkWinPost(t) BY <2>4 DEF WrkWinPost
  <2>5. CASE WrkWinMark(t) BY <2>5 DEF WrkWinMark
  <2>6. CASE WrkFailCheck(t) BY <2>6 DEF WrkFailCheck
  <2>7. CASE WrkFailMark(t) BY <2>7 DEF WrkFailMark
  <2>8. CASE WrkFailPost(t) BY <2>8 DEF WrkFailPost
  <2>9. CASE WrkReport(t) BY <2>9 DEF WrkReport
  <2>10. CASE WrkFault(t) BY <2>10 DEF WrkFault
  <2>11. CASE WrkExcept(t) BY <2>11 DEF WrkExcept
  <2>12. CASE WrkFinish(t) BY <2>12 DEF WrkFinish, ReleaseSlot
  <2>13. CASE WrkNext(t) BY <2>13, StartNextChoice DEF WrkNext
  <2>14. CASE WrkWinSet(t) BY <2>14 DEF WrkWinSet
  <2>15. CASE WrkPay(t) BY <2>15 DEF WrkPay
  <2>16. CASE WrkFailSet(t) BY <2>16 DEF WrkFailSet
  <2> QED
    BY <2>1, <2>2, <2>3, <2>4, <2>5, <2>6, <2>7, <2>8, <2>9, <2>10, <2>11, <2>12,
       <2>13, <2>14, <2>15, <2>16 DEF WrkStep
<1>3. ASSUME NEW t \in Tasks, Spawn(t) PROVE ChildIsKnown'
  BY <1>3 DEF Spawn
<1>4. ASSUME NEW t \in Tasks, Launch(t) PROVE ChildIsKnown'
  BY <1>4 DEF Launch
<1>5. CASE ReleaseDeferred
  BY <1>5 DEF ReleaseDeferred
<1>6. ASSUME NEW c \in Callers, CancelBegin(c) \/ ShutdownBegin(c) \/ CallerStep(c)
      PROVE  ChildIsKnown'
  <2> USE <1>6 DEF Call, MarkTerminal, Assign
  <2>1. CASE CancelBegin(c) BY <2>1 DEF CancelBegin
  <2>2. CASE ShutdownBegin(c) BY <2>2 DEF ShutdownBegin
  <2>3. CASE CallerSkip(c) BY <2>3 DEF CallerSkip
  <2>4. CASE CallerCheck(c) BY <2>4 DEF CallerCheck
  <2>5. CASE CallerLook(c) BY <2>5 DEF CallerLook
  <2>6. CASE CallerSignal(c) BY <2>6 DEF CallerSignal
  <2>7. CASE CallerRevoke(c) BY <2>7 DEF CallerRevoke
  <2>8. CASE CallerMark(c) BY <2>8 DEF CallerMark
  <2>9. CASE CallerSet(c) BY <1>0, <2>9 DEF CallerSet
  <2>10. CASE CallerPost(c) BY <2>10 DEF CallerPost
  <2>11. CASE CallerReport(c) BY <2>11 DEF CallerReport
  <2>12. CASE CallerFault(c) BY <2>12 DEF CallerFault
  <2>13. CASE CallerRelease(c) BY <1>0, <2>13 DEF CallerRelease, ReleaseSlot
  <2>14. CASE CallerNext(c) BY <2>14, StartNextChoice DEF CallerNext
  <2>15. CASE CancelReturns(c) BY <2>15 DEF CancelReturns
  <2>16. CASE ShutdownClears(c)
    <3>1. Cleared'
      BY <2>16 DEF ShutdownClears, Cleared
    <3> QED
      BY <3>1
  <2> QED
    BY <2>1, <2>2, <2>3, <2>4, <2>5, <2>6, <2>7, <2>8, <2>9, <2>10, <2>11, <2>12, <2>13,
       <2>14, <2>15, <2>16 DEF CallerStep
<1> QED
  BY <1>1, <1>2, <1>3, <1>4, <1>5, <1>6 DEF Next

\* A child that no call set out to end runs only in its slot, though timeouts, ends
\* and the calls on other children race to give slots back.
THEOREM ChildrenHoldSlots == Spec => []RunHoldsSlot
<1>1. Init => ForkIsFirst /\ ChildIsKnown
  BY DEF Init, ForkIsFirst, ChildIsKnown
<1>2. IInv /\ ForkIsFirst /\ ChildIsKnown /\ [Next]_vars => (ForkIsFirst /\ ChildIsKnown)'
  <2>1. ChildIsKnown /\ UNCHANGED vars => ChildIsKnown'
    BY DEF ChildIsKnown, Cleared, vars, taskVars, serviceVars, slotVars, supVars,
       wrkVars, callerVars
  <2> QED
    BY <2>1, NextForkIsFirst, NextChildIsKnown
<1>3. ChildIsKnown => RunHoldsSlot
  BY DEF ChildIsKnown, RunHoldsSlot
<1> QED
  BY <1>1, <1>2, <1>3, Inductive, PTL DEF Spec
=============================================================================
