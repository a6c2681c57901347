------------------------------ MODULE FifoLock ------------------------------
(* What a conversation lane promises (runtime/lanes.py; docs name them      *)
(* "same-conversation FIFO lanes"): in every lane at most one run at a time *)
(* is inside, runs enter in the order in which they arrived, and a run      *)
(* arrives once.                                                            *)
EXTENDS Naturals, Sequences

CONSTANTS Runs,    \* requests, by run id
          Lanes,   \* channel and conversation pairs
          LaneOf   \* the lane of a request

VARIABLES line,    \* the runs of a lane that arrived and did not leave, in order
          inside,  \* runs that entered
          gone     \* runs that left

lockVars == <<line, inside, gone>>

LockInit ==
    /\ line = [l \in Lanes |-> <<>>]
    /\ inside = {}
    /\ gone = {}

IsFirst(r) ==
    /\ line[LaneOf[r]] # <<>>
    /\ Head(line[LaneOf[r]]) = r

NeverSeen(r) ==
    /\ r \notin gone
    /\ \A l \in Lanes : \A i \in 1..Len(line[l]) : line[l][i] # r

Arrive(r) ==
    /\ NeverSeen(r)
    /\ line' = [line EXCEPT ![LaneOf[r]] = Append(@, r)]
    /\ inside' \in {inside} \cup
                   {inside \cup {x} : x \in {y \in {r} : line[LaneOf[r]] = <<>>}}
    /\ UNCHANGED gone

Enter(r) ==
    /\ IsFirst(r)
    /\ r \notin inside
    /\ inside' = inside \cup {r}
    /\ UNCHANGED <<line, gone>>

Leave(r) ==
    /\ IsFirst(r)
    /\ r \in inside
    /\ line' = [line EXCEPT ![LaneOf[r]] = Tail(@)]
    /\ inside' = inside \ {r}
    /\ gone' = gone \cup {r}

LockNext == \E r \in Runs : Arrive(r) \/ Enter(r) \/ Leave(r)

LockSpec == LockInit /\ [][LockNext]_lockVars

\* A run that is first enters, and a run inside leaves.
FairLockSpec ==
    /\ LockSpec
    /\ \A r \in Runs : WF_lockVars(Enter(r)) /\ WF_lockVars(Leave(r))
=============================================================================
