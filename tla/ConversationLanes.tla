------------------------- MODULE ConversationLanes -------------------------
(* ConversationLaneManager of runtime/lanes.py: a deque of runs per lane    *)
(* under one condition variable for all lanes. A request (an HTTP message,  *)
(* a Feishu event) acquires its lane, handles its turn, and releases.       *)
(*                                                                          *)
(* acquire keeps a reference to the deque it appended to, while release     *)
(* removes an emptied deque from the dictionary, so deques are objects      *)
(* here: deque[r] is the one that r's setdefault created, table the         *)
(* dictionary, mine[r] the local variable of r's acquire.                   *)
EXTENDS Naturals, Sequences, FiniteSets

CONSTANTS Runs,    \* requests, by run id
          Lanes,   \* channel and conversation pairs
          LaneOf,  \* the lane of a request
          None     \* no deque, no run

ASSUME RunsAreFinite == IsFiniteSet(Runs)
ASSUME RunsHaveLanes == LaneOf \in [Runs -> Lanes]
ASSUME NoneIsNoRun == None \notin Runs

VARIABLES table,     \* _queues: the deque of a lane
          deque,     \* the contents of every deque object
          mine,      \* the deque a request waits in
          at,        \* where a request is
          maxDepth,  \* _max_queue_depth
          lastQueued \* _last_enqueued_lane: the last run that had to queue

vars == <<table, deque, mine, at, maxDepth, lastQueued>>

\* new: not yet in acquire; asleep: in Condition.wait; woken: notified and
\* waiting for the lock; active: holds a lease; done: released it.
Places == {"new", "asleep", "woken", "active", "done"}
InLane == {"asleep", "woken", "active"}

\* The types, and no request queues twice.
TypeOK ==
    /\ table \in [Lanes -> Runs \cup {None}]
    /\ deque \in [Runs -> Seq(Runs)]
    /\ mine \in [Runs -> Runs \cup {None}]
    /\ at \in [Runs -> Places]
    /\ maxDepth \in Nat
    /\ lastQueued \in Runs \cup {None}
    /\ \A q \in Runs : \A i, j \in 1..Len(deque[q]) :
            deque[q][i] = deque[q][j] => i = j

Init ==
    /\ table = [l \in Lanes |-> None]
    /\ deque = [r \in Runs |-> <<>>]
    /\ mine = [r \in Runs |-> None]
    /\ at = [r \in Runs |-> "new"]
    /\ maxDepth = 0
    /\ lastQueued = None

\* setdefault: the deque of r's lane, or a new one that r creates.
DequeFor(r) == IF table[LaneOf[r]] = None THEN r ELSE table[LaneOf[r]]

\* The head of deque q is the entry of r.
Heads(r, q) == deque[q] # <<>> /\ Head(deque[q]) = r

\* The section of acquire up to its return or its first wait.
Acquire(r) ==
    LET q == DequeFor(r)
        depth == Len(deque[q]) + 1
    IN  /\ at[r] = "new"
        /\ table' = [table EXCEPT ![LaneOf[r]] = q]
        /\ deque' = [deque EXCEPT ![q] = Append(@, r)]
        /\ mine' = [mine EXCEPT ![r] = q]
        /\ at' = [at EXCEPT ![r] = IF deque[q] = <<>> THEN "active" ELSE "asleep"]
        /\ maxDepth' = IF depth > maxDepth THEN depth ELSE maxDepth
        /\ lastQueued' = IF depth > 1 THEN r ELSE lastQueued

\* A notified request gets the lock and looks at the head of its deque again.
Wake(r) ==
    /\ at[r] = "woken"
    /\ at' = [at EXCEPT ![r] = IF Heads(r, mine[r]) THEN "active" ELSE "asleep"]
    /\ UNCHANGED <<table, deque, mine, maxDepth, lastQueued>>

\* notify_all: every sleeper of every lane is woken.
NotifyAll(f) == [r \in Runs |-> IF f[r] = "asleep" THEN "woken" ELSE f[r]]

\* release does nothing unless the dictionary has a deque for the lane whose
\* head is the run it names.
Releases(r) == LET q == table[LaneOf[r]] IN q # None /\ Heads(r, q)

\* Mutant: notify instead of notify_all: one sleeper, of whatever lane.
ReleaseNotifiesOne(r) ==
    LET q == table[LaneOf[r]]
        left == [at EXCEPT ![r] = "done"]
        asleep == {s \in Runs : at[s] = "asleep"}
    IN  /\ at[r] = "active"
        /\ deque' = [deque EXCEPT ![q] = Tail(@)]
        /\ table' = IF Tail(deque[q]) = <<>>
                    THEN [table EXCEPT ![LaneOf[r]] = None]
                    ELSE table
        /\ \/ (asleep = {} /\ at' = left)
           \/ \E s \in asleep : at' = [left EXCEPT ![s] = "woken"]
        /\ UNCHANGED <<mine, maxDepth, lastQueued>>

\* The turn of r is over: release.
Release(r) ==
    LET q == table[LaneOf[r]]
        left == [at EXCEPT ![r] = "done"]
    IN  /\ at[r] = "active"
        /\ deque' = IF Releases(r) THEN [deque EXCEPT ![q] = Tail(@)] ELSE deque
        /\ table' = IF Releases(r) /\ Tail(deque[q]) = <<>>
                    THEN [table EXCEPT ![LaneOf[r]] = None]
                    ELSE table
        /\ at' = IF Releases(r) THEN NotifyAll(left) ELSE left
        /\ UNCHANGED <<mine, maxDepth, lastQueued>>

Next == \E r \in Runs : Acquire(r) \/ Wake(r) \/ Release(r)

Spec == Init /\ [][Next]_vars

\* A notified thread gets the lock, and a turn ends: its model requests and
\* tools have timeouts, and both callers release in a finally.
FairSpec == Spec /\ \A r \in Runs : WF_vars(Wake(r)) /\ WF_vars(Release(r))

-----------------------------------------------------------------------------
(* What is required of the lanes.                                           *)

\* At most one run of a conversation is active at a time (stated in
\* docs/archive/2026-03-29-private-agent-harness-design.md).
OneActivePerLane ==
    \A r, s \in Runs :
        at[r] = "active" /\ at[s] = "active" /\ LaneOf[r] = LaneOf[s] => r = s

\* A request that waits or runs is in the deque that the dictionary has for
\* its lane: no later request of the conversation opens a second deque, and
\* release finds it, though emptied deques are dropped and made anew.
WaiterIsReachable ==
    \A r \in Runs : at[r] \in InLane =>
        /\ mine[r] # None
        /\ table[LaneOf[r]] = mine[r]
        /\ \E i \in 1..Len(deque[mine[r]]) : deque[mine[r]][i] = r

\* No lost wake-up: a request that is its lane's head is never asleep, since
\* nobody would wake it when no run of the lane is active.
HeadIsAwake ==
    \A r \in Runs : at[r] = "asleep" => ~Heads(r, mine[r])

\* Every request that arrived gets its turn.
EveryRunIsServed == \A r \in Runs : at[r] \in InLane ~> at[r] = "done"

\* The lanes implement the first-in first-out lock.
Lock == INSTANCE FifoLock WITH
    line <- [l \in Lanes |-> IF table[l] = None THEN <<>> ELSE deque[table[l]]],
    inside <- {r \in Runs : at[r] = "active"},
    gone <- {r \in Runs : at[r] = "done"}

ImplementsFifoLock == Lock!LockSpec

\* ... and, with fair threads, its promise that the first run enters and leaves.
ImplementsFairLock == Lock!FairLockSpec
=============================================================================
