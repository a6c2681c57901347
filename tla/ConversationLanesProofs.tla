---------------------- MODULE ConversationLanesProofs ----------------------
(* Proofs about the conversation lanes, for every set of requests and lanes: *)
(* one active run per lane, no waiter out of reach, no lost wake-up, and     *)
(* that the lanes implement the first-in first-out lock. And about the turns *)
(* that hold the lanes, for every set of them: the messages of a             *)
(* conversation do not mix, and exchanges are where their user is.           *)
EXTENDS ConversationLanes, Turns, TLAPS

\* A deque holds requests of one lane that are in it and know it.
Members ==
    \A q \in Runs : \A i \in 1..Len(deque[q]) :
        LET r == deque[q][i]
        IN  at[r] \in InLane /\ mine[r] = q

\* A deque in the dictionary is not empty, and was made for its lane.
Table ==
    \A l \in Lanes : table[l] # None =>
        /\ table[l] \in Runs
        /\ LaneOf[table[l]] = l
        /\ at[table[l]] # "new"
        /\ deque[table[l]] # <<>>

\* A request that did not arrive has made no deque.
Untouched == \A r \in Runs : at[r] = "new" => deque[r] = <<>>

ActiveIsHead == \A r \in Runs : at[r] = "active" => Heads(r, mine[r])

IInv ==
    /\ TypeOK
    /\ Members
    /\ WaiterIsReachable
    /\ Table
    /\ Untouched
    /\ ActiveIsHead
    /\ HeadIsAwake

-----------------------------------------------------------------------------
\* A sequence without repetition keeps that property, and its elements, when
\* a new element is appended.
LEMMA AppendNew ==
    ASSUME NEW S, NEW s \in Seq(S), NEW x \in S,
           \A i \in 1..Len(s) : s[i] # x,
           \A i, j \in 1..Len(s) : s[i] = s[j] => i = j
    PROVE  /\ Append(s, x) \in Seq(S)
           /\ Append(s, x) # <<>>
           /\ Len(Append(s, x)) = Len(s) + 1
           /\ \A i \in 1..Len(s) : Append(s, x)[i] = s[i]
           /\ Append(s, x)[Len(s) + 1] = x
           /\ \A i, j \in 1..Len(Append(s, x)) :
                  Append(s, x)[i] = Append(s, x)[j] => i = j
           /\ Head(Append(s, x)) = IF s = <<>> THEN x ELSE Head(s)
PROOF
<1>1. /\ Append(s, x) \in Seq(S)
      /\ Len(Append(s, x)) = Len(s) + 1
      /\ Len(s) \in Nat
      /\ \A i \in 1..Len(s) : Append(s, x)[i] = s[i]
      /\ Append(s, x)[Len(s) + 1] = x
  OBVIOUS
<1>2. Append(s, x) # <<>>
  BY <1>1
<1>3. ASSUME NEW i \in 1..Len(Append(s, x)), NEW j \in 1..Len(Append(s, x)),
             Append(s, x)[i] = Append(s, x)[j]
      PROVE  i = j
  <2>1. (i \in 1..Len(s) \/ i = Len(s) + 1) /\ (j \in 1..Len(s) \/ j = Len(s) + 1)
    BY <1>1
  <2> QED
    BY <2>1, <1>1, <1>3
<1>4. Head(Append(s, x)) = IF s = <<>> THEN x ELSE Head(s)
  OBVIOUS
<1> QED
  BY <1>1, <1>2, <1>3, <1>4

\* Removing the head shifts the rest down by one place.
LEMMA TailShifts ==
    ASSUME NEW S, NEW s \in Seq(S), s # <<>>,
           \A i, j \in 1..Len(s) : s[i] = s[j] => i = j
    PROVE  /\ Tail(s) \in Seq(S)
           /\ Len(Tail(s)) = Len(s) - 1
           /\ Len(s) >= 1
           /\ Head(s) = s[1]
           /\ \A i \in 1..Len(Tail(s)) : Tail(s)[i] = s[i + 1]
           /\ \A i \in 1..Len(Tail(s)) : Tail(s)[i] # Head(s)
           /\ \A i, j \in 1..Len(Tail(s)) : Tail(s)[i] = Tail(s)[j] => i = j
           /\ Tail(s) # <<>> => Len(Tail(s)) >= 1 /\ Head(Tail(s)) = Tail(s)[1]
  OBVIOUS

\* The head of a deque is one of its members.
LEMMA HeadIsMember ==
    ASSUME NEW S, NEW s \in Seq(S), s # <<>>
    PROVE  1 \in 1..Len(s) /\ Head(s) = s[1] /\ Head(s) \in S
  OBVIOUS

-----------------------------------------------------------------------------
LEMMA InitInv == Init => IInv
  BY RunsHaveLanes, NoneIsNoRun
  DEF Init, IInv, TypeOK, Members, WaiterIsReachable, Table, Untouched, ActiveIsHead,
      HeadIsAwake, Heads, InLane, Places

\* The deque a request appends to holds only requests of its lane, not itself.
LEMMA DequeChosen ==
    ASSUME IInv, NEW r \in Runs, at[r] = "new"
    PROVE  /\ DequeFor(r) \in Runs
           /\ LaneOf[r] \in Lanes
           /\ \A i \in 1..Len(deque[DequeFor(r)]) : deque[DequeFor(r)][i] # r
           /\ DequeFor(r) = r <=> table[LaneOf[r]] = None
           /\ deque[DequeFor(r)] = <<>> <=> table[LaneOf[r]] = None
PROOF
<1>1. LaneOf[r] \in Lanes
  BY RunsHaveLanes
<1>2. \A p \in Runs : \A i \in 1..Len(deque[p]) : deque[p][i] # r
  BY DEF IInv, Members, InLane
<1>3. CASE table[LaneOf[r]] = None
  BY <1>1, <1>2, <1>3 DEF IInv, Untouched, DequeFor
<1>4. CASE table[LaneOf[r]] # None
  BY <1>1, <1>2, <1>4 DEF IInv, Table, DequeFor
<1> QED
  BY <1>3, <1>4

LEMMA AcquireInv ==
    ASSUME IInv, NEW r \in Runs, Acquire(r)
    PROVE  IInv'
PROOF
<1> DEFINE q == DequeFor(r)
           s == deque[q]
           t == Append(s, r)
<1>1. at[r] = "new" /\ r \in Runs
  BY DEF Acquire
<1>2. /\ q \in Runs
      /\ LaneOf[r] \in Lanes
      /\ \A i \in 1..Len(s) : s[i] # r
      /\ q = r <=> table[LaneOf[r]] = None
      /\ s = <<>> <=> table[LaneOf[r]] = None
  BY <1>1, DequeChosen
<1>3. s \in Seq(Runs) /\ \A i, j \in 1..Len(s) : s[i] = s[j] => i = j
  BY <1>2 DEF IInv, TypeOK
<1>4. /\ t \in Seq(Runs)
      /\ t # <<>>
      /\ Len(t) = Len(s) + 1
      /\ \A i \in 1..Len(s) : t[i] = s[i]
      /\ t[Len(s) + 1] = r
      /\ \A i, j \in 1..Len(t) : t[i] = t[j] => i = j
      /\ Head(t) = IF s = <<>> THEN r ELSE Head(s)
  BY <1>2, <1>3, AppendNew
<1> HIDE DEF q, s, t
<1>5. /\ table' = [table EXCEPT ![LaneOf[r]] = q]
      /\ deque' = [deque EXCEPT ![q] = t]
      /\ mine' = [mine EXCEPT ![r] = q]
      /\ at' = [at EXCEPT ![r] = IF s = <<>> THEN "active" ELSE "asleep"]
      /\ lastQueued' \in {r, lastQueued}
      /\ maxDepth' \in {maxDepth, Len(s) + 1}
  BY DEF Acquire, q, s, t
<1>6. Len(s) \in Nat
  BY <1>3
<1>7. TypeOK'
  BY <1>1, <1>2, <1>3, <1>4, <1>5, <1>6 DEF IInv, TypeOK, Places, s
<1>8. deque[q] = s /\ deque'[q] = t /\ \A p \in Runs : p # q => deque'[p] = deque[p]
  BY <1>2, <1>5 DEF IInv, TypeOK, s
<1>9. Members'
  <2> SUFFICES ASSUME NEW p \in Runs, NEW i \in 1..Len(deque'[p])
               PROVE  at'[deque'[p][i]] \in InLane /\ mine'[deque'[p][i]] = p
    BY DEF Members
  <2>1. at'[r] \in InLane /\ mine'[r] = q
    BY <1>1, <1>5 DEF IInv, TypeOK, InLane
  <2>2. ASSUME NEW p2 \in Runs, NEW j \in 1..Len(deque[p2])
        PROVE  /\ at'[deque[p2][j]] \in InLane
               /\ mine'[deque[p2][j]] = p2
    <3>1. deque[p2][j] \in Runs /\ at[deque[p2][j]] \in InLane /\ mine[deque[p2][j]] = p2
      BY DEF IInv, TypeOK, Members
    <3>2. deque[p2][j] # r
      BY <3>1, <1>1 DEF InLane
    <3> QED
      BY <3>1, <3>2, <1>5 DEF IInv, TypeOK
  <2>3. CASE p # q
    BY <2>3, <2>2, <1>8
  <2>4. CASE p = q /\ i = Len(s) + 1
    BY <2>4, <2>1, <1>4, <1>8
  <2>5. CASE p = q /\ i # Len(s) + 1
    <3>1. i \in 1..Len(s)
      BY <2>5, <1>4, <1>6, <1>8
    <3> QED
      BY <3>1, <2>5, <2>2, <1>2, <1>4, <1>8
  <2> QED
    BY <2>3, <2>4, <2>5
<1>10. WaiterIsReachable'
  <2> SUFFICES ASSUME NEW w \in Runs, at'[w] \in InLane
               PROVE  /\ mine'[w] # None
                      /\ table'[LaneOf[w]] = mine'[w]
                      /\ \E i \in 1..Len(deque'[mine'[w]]) : deque'[mine'[w]][i] = w
    BY DEF WaiterIsReachable
  <2>1. CASE w = r
    <3>1. mine'[w] = q /\ table'[LaneOf[w]] = q /\ q # None
      BY <2>1, <1>2, <1>5, NoneIsNoRun DEF IInv, TypeOK
    <3>2. Len(s) + 1 \in 1..Len(deque'[q]) /\ deque'[q][Len(s) + 1] = w
      BY <2>1, <1>4, <1>6, <1>8
    <3> QED
      BY <3>1, <3>2
  <2>2. CASE w # r
    <3>1. at[w] \in InLane /\ mine'[w] = mine[w]
      BY <2>2, <1>5 DEF IInv, TypeOK
    <3>2. /\ mine[w] # None
          /\ table[LaneOf[w]] = mine[w]
          /\ LaneOf[w] \in Lanes
          /\ mine[w] \in Runs
      BY <3>1, RunsHaveLanes DEF IInv, WaiterIsReachable, TypeOK
    <3>3. PICK i \in 1..Len(deque[mine[w]]) : deque[mine[w]][i] = w
      BY <3>1 DEF IInv, WaiterIsReachable
    <3>4. table'[LaneOf[w]] = mine[w]
      BY <3>2, <1>2, <1>5 DEF IInv, TypeOK, q, DequeFor
    <3>5. i \in 1..Len(deque'[mine[w]]) /\ deque'[mine[w]][i] = w
      <4>1. CASE mine[w] = q
        BY <4>1, <3>3, <1>4, <1>6, <1>8
      <4>2. CASE mine[w] # q
        BY <4>2, <3>2, <3>3, <1>8
      <4> QED
        BY <4>1, <4>2
    <3> QED
      BY <3>1, <3>2, <3>4, <3>5
  <2> QED
    BY <2>1, <2>2
<1>11. Table'
  <2> SUFFICES ASSUME NEW l \in Lanes, table'[l] # None
               PROVE  /\ table'[l] \in Runs
                      /\ LaneOf[table'[l]] = l
                      /\ at'[table'[l]] # "new"
                      /\ deque'[table'[l]] # <<>>
    BY DEF Table
  <2>1. CASE l = LaneOf[r]
    <3>1. table'[l] = q
      BY <2>1, <1>5 DEF IInv, TypeOK
    <3>2. LaneOf[q] = l /\ (q # r => at[q] # "new")
      BY <2>1, <1>2 DEF IInv, Table, q, DequeFor
    <3>3. at'[q] # "new"
      BY <3>2, <1>1, <1>2, <1>5 DEF IInv, TypeOK
    <3> QED
      BY <3>1, <3>2, <3>3, <1>2, <1>4, <1>8
  <2>2. CASE l # LaneOf[r]
    <3>1. table'[l] = table[l]
      BY <2>2, <1>2, <1>5 DEF IInv, TypeOK
    <3>2. /\ table[l] \in Runs
          /\ LaneOf[table[l]] = l
          /\ at[table[l]] # "new"
          /\ deque[table[l]] # <<>>
      BY <3>1 DEF IInv, Table
    <3>3. table[l] # r /\ at'[table[l]] = at[table[l]]
      BY <3>2, <1>1, <1>5 DEF IInv, TypeOK
    <3> QED
      BY <3>1, <3>2, <3>3, <1>4, <1>8
  <2> QED
    BY <2>1, <2>2
<1>12. Untouched'
  BY <1>1, <1>2, <1>5, <1>8 DEF IInv, TypeOK, Untouched, Table, q, DequeFor
<1>13. ASSUME NEW w \in Runs, w # r
       PROVE  /\ at'[w] = at[w] /\ mine'[w] = mine[w]
              /\ at[w] \in InLane => (Heads(w, mine[w])' <=> Heads(w, mine[w]))
  <2>1. at'[w] = at[w] /\ mine'[w] = mine[w]
    BY <1>13, <1>5 DEF IInv, TypeOK
  <2>2. ASSUME at[w] \in InLane
        PROVE  Heads(w, mine[w])' <=> Heads(w, mine[w])
    <3>1. mine[w] \in Runs /\ deque[mine[w]] # <<>>
      BY <2>2 DEF IInv, TypeOK, WaiterIsReachable
    <3> QED
      BY <3>1, <2>1, <1>4, <1>8 DEF Heads
  <2> QED
    BY <2>1, <2>2
<1>14. ActiveIsHead'
  <2> SUFFICES ASSUME NEW w \in Runs, at'[w] = "active"
               PROVE  Heads(w, mine[w])'
    BY DEF ActiveIsHead
  <2>1. CASE w = r
    <3>1. s = <<>> /\ mine'[r] = q
      BY <2>1, <1>1, <1>5 DEF IInv, TypeOK
    <3> QED
      BY <3>1, <2>1, <1>4, <1>8 DEF Heads
  <2>2. CASE w # r
    BY <2>2, <1>13 DEF IInv, ActiveIsHead, InLane
  <2> QED
    BY <2>1, <2>2
<1>15. HeadIsAwake'
  <2> SUFFICES ASSUME NEW w \in Runs, at'[w] = "asleep"
               PROVE  ~Heads(w, mine[w])'
    BY DEF HeadIsAwake
  <2>1. CASE w = r
    <3>1. s # <<>> /\ mine'[r] = q
      BY <2>1, <1>1, <1>5 DEF IInv, TypeOK
    <3>2. Head(s) # r
      BY <3>1, <1>2, <1>3, HeadIsMember
    <3> QED
      BY <3>1, <3>2, <2>1, <1>4, <1>8 DEF Heads
  <2>2. CASE w # r
    BY <2>2, <1>13 DEF IInv, HeadIsAwake, InLane
  <2> QED
    BY <2>1, <2>2
<1> QED
  BY <1>7, <1>9, <1>10, <1>11, <1>12, <1>14, <1>15 DEF IInv

LEMMA WakeInv ==
    ASSUME IInv, NEW r \in Runs, Wake(r)
    PROVE  IInv'
PROOF
<1>1. /\ at[r] = "woken"
      /\ at' = [at EXCEPT ![r] = IF Heads(r, mine[r]) THEN "active" ELSE "asleep"]
      /\ UNCHANGED <<table, deque, mine, maxDepth, lastQueued>>
  BY DEF Wake
<1>2. \A w \in Runs : at'[w] \in InLane <=> at[w] \in InLane
  BY <1>1 DEF IInv, TypeOK, InLane
<1>3. \A w \in Runs : at'[w] = "new" <=> at[w] = "new"
  BY <1>1 DEF IInv, TypeOK
<1>4. TypeOK'
  BY <1>1 DEF IInv, TypeOK, Places
<1>5. Members'
  <2> SUFFICES ASSUME NEW q \in Runs, NEW i \in 1..Len(deque[q])
               PROVE  at'[deque[q][i]] \in InLane /\ mine[deque[q][i]] = q
    BY <1>1 DEF Members
  <2>1. deque[q][i] \in Runs
    BY DEF IInv, TypeOK
  <2> QED
    BY <2>1, <1>2 DEF IInv, Members
<1>6. WaiterIsReachable'
  BY <1>1, <1>2 DEF IInv, WaiterIsReachable
<1>7. Table' /\ Untouched'
  BY <1>1, <1>3 DEF IInv, Table, Untouched
<1>8. ActiveIsHead'
  BY <1>1 DEF IInv, TypeOK, ActiveIsHead, Heads
<1>9. HeadIsAwake'
  BY <1>1 DEF IInv, TypeOK, HeadIsAwake, Heads
<1> QED
  BY <1>4, <1>5, <1>6, <1>7, <1>8, <1>9 DEF IInv

\* An active request is the head of the deque that the dictionary has for its
\* lane: release's early returns are not taken.
LEMMA ActiveReleases ==
    ASSUME IInv, NEW r \in Runs, at[r] = "active"
    PROVE  /\ Releases(r)
           /\ mine[r] \in Runs
           /\ table[LaneOf[r]] = mine[r]
           /\ deque[mine[r]] # <<>>
           /\ Head(deque[mine[r]]) = r
  BY DEF IInv, TypeOK, WaiterIsReachable, ActiveIsHead, Heads, Releases, InLane

LEMMA ReleaseInv ==
    ASSUME IInv, NEW r \in Runs, Release(r)
    PROVE  IInv'
PROOF
<1> DEFINE q == mine[r]
           s == deque[q]
           t == Tail(s)
<1>1. at[r] = "active"
  BY DEF Release
<1>2. Releases(r) /\ q \in Runs /\ table[LaneOf[r]] = q /\ s # <<>> /\ Head(s) = r
  BY <1>1, ActiveReleases
<1>3. s \in Seq(Runs) /\ \A i, j \in 1..Len(s) : s[i] = s[j] => i = j
  BY <1>2 DEF IInv, TypeOK
<1>4. /\ t \in Seq(Runs)
      /\ Len(t) = Len(s) - 1
      /\ Len(s) >= 1
      /\ s[1] = r
      /\ \A i \in 1..Len(t) : t[i] = s[i + 1]
      /\ \A i \in 1..Len(t) : t[i] # r
      /\ \A i, j \in 1..Len(t) : t[i] = t[j] => i = j
      /\ t # <<>> => Len(t) >= 1 /\ Head(t) = t[1]
  BY <1>2, <1>3, TailShifts
<1>5. Len(s) \in Nat /\ Len(t) \in Nat
  BY <1>3, <1>4
<1>6. /\ deque' = [deque EXCEPT ![q] = t]
      /\ table' = IF t = <<>> THEN [table EXCEPT ![LaneOf[r]] = None] ELSE table
      /\ at' = NotifyAll([at EXCEPT ![r] = "done"])
      /\ UNCHANGED <<mine, maxDepth, lastQueued>>
  BY <1>2 DEF Release, q, s, t
<1>7. deque[q] = s /\ deque'[q] = t /\ \A p \in Runs : p # q => deque'[p] = deque[p]
  BY <1>2, <1>6 DEF IInv, TypeOK, s
<1>8. LaneOf[r] \in Lanes
  BY RunsHaveLanes
<1> HIDE DEF q, s, t
<1>9. at' = [w \in Runs |-> IF w = r THEN "done"
                            ELSE IF at[w] = "asleep" THEN "woken" ELSE at[w]]
  BY <1>6 DEF IInv, TypeOK, NotifyAll
<1>10. TypeOK'
  <2>1. at' \in [Runs -> Places]
    BY <1>9 DEF IInv, TypeOK, Places
  <2>2. deque' \in [Runs -> Seq(Runs)]
    BY <1>2, <1>4, <1>6 DEF IInv, TypeOK
  <2>3. table' \in [Lanes -> Runs \cup {None}]
    BY <1>6, <1>8 DEF IInv, TypeOK
  <2>4. \A p \in Runs : \A i, j \in 1..Len(deque'[p]) :
            deque'[p][i] = deque'[p][j] => i = j
    <3> SUFFICES ASSUME NEW p \in Runs
                 PROVE  \A i, j \in 1..Len(deque'[p]) :
                            deque'[p][i] = deque'[p][j] => i = j
      OBVIOUS
    <3>1. CASE p = q
      BY <3>1, <1>4, <1>7
    <3>2. CASE p # q
      BY <3>2, <1>7 DEF IInv, TypeOK
    <3> QED
      BY <3>1, <3>2
  <2> QED
    BY <2>1, <2>2, <2>3, <2>4, <1>6 DEF IInv, TypeOK
\* Only r's deque and r's lane change.
<1>11. ASSUME NEW w \in Runs, at'[w] \in InLane
       PROVE  /\ w # r
              /\ at[w] \in InLane
              /\ mine[w] \in Runs
              /\ table[LaneOf[w]] = mine[w]
              /\ LaneOf[w] \in Lanes
  BY <1>11, <1>9, RunsHaveLanes DEF IInv, TypeOK, WaiterIsReachable, InLane
<1>12. Members'
  <2> SUFFICES ASSUME NEW p \in Runs, NEW i \in 1..Len(deque'[p])
               PROVE  at'[deque'[p][i]] \in InLane /\ mine[deque'[p][i]] = p
    BY <1>6 DEF Members
  <2>1. \E j \in 1..Len(deque[p]) : deque'[p][i] = deque[p][j]
    <3>1. CASE p = q
      <4>1. i + 1 \in 1..Len(s) /\ deque'[p][i] = s[i + 1]
        BY <3>1, <1>4, <1>5, <1>7
      <4> QED
        BY <4>1, <3>1, <1>7
    <3>2. CASE p # q
      BY <3>2, <1>7
    <3> QED
      BY <3>1, <3>2
  <2>2. deque'[p][i] \in Runs /\ at[deque'[p][i]] \in InLane /\ mine[deque'[p][i]] = p
    BY <2>1 DEF IInv, TypeOK, Members
  <2>3. deque'[p][i] # r
    BY <2>2, <1>4, <1>7 DEF q
  <2> QED
    BY <2>2, <2>3, <1>9 DEF InLane
<1>13. ASSUME NEW w \in Runs, at'[w] \in InLane
       PROVE  \E i \in 1..Len(deque'[mine[w]]) : deque'[mine[w]][i] = w
  <2>1. PICK i \in 1..Len(deque[mine[w]]) : deque[mine[w]][i] = w
    BY <1>13, <1>11 DEF IInv, WaiterIsReachable
  <2>2. CASE mine[w] = q
    <3>1. i # 1
      BY <2>1, <2>2, <1>4, <1>7, <1>11, <1>13
    <3>2. i \in Nat /\ i - 1 \in 1..Len(t) /\ t[i - 1] = s[i]
      BY <3>1, <2>1, <2>2, <1>4, <1>5, <1>7
    <3> QED
      BY <3>2, <2>1, <2>2, <1>7
  <2>3. CASE mine[w] # q
    BY <2>1, <2>3, <1>7, <1>11, <1>13
  <2> QED
    BY <2>2, <2>3
<1>14. WaiterIsReachable'
  <2> SUFFICES ASSUME NEW w \in Runs, at'[w] \in InLane
               PROVE  mine[w] # None /\ table'[LaneOf[w]] = mine[w]
    BY <1>6, <1>13 DEF WaiterIsReachable
  <2>1. mine[w] # None
    BY <1>11, NoneIsNoRun
  <2>2. LaneOf[w] = LaneOf[r] => t # <<>>
    <3> SUFFICES ASSUME LaneOf[w] = LaneOf[r]
                 PROVE  t # <<>>
      OBVIOUS
    <3>1. mine[w] = q
      BY <1>2, <1>11
    <3>2. PICK i \in 1..Len(t) : t[i] = w
      BY <3>1, <1>7, <1>13
    <3> QED
      BY <3>2
  <2> QED
    BY <2>1, <2>2, <1>6, <1>8, <1>11 DEF IInv, TypeOK
<1>15. Table'
  <2> SUFFICES ASSUME NEW l \in Lanes, table'[l] # None
               PROVE  /\ table'[l] \in Runs
                      /\ LaneOf[table'[l]] = l
                      /\ at'[table'[l]] # "new"
                      /\ deque'[table'[l]] # <<>>
    BY DEF Table
  <2>1. table'[l] = table[l] /\ (l = LaneOf[r] => t # <<>>)
    BY <1>6, <1>8 DEF IInv, TypeOK
  <2>2. /\ table[l] \in Runs
        /\ LaneOf[table[l]] = l
        /\ at[table[l]] # "new"
        /\ deque[table[l]] # <<>>
    BY <2>1 DEF IInv, Table
  <2>3. at'[table[l]] # "new"
    BY <2>2, <1>9
  <2>4. LaneOf[q] = LaneOf[r]
    BY <1>2, <1>8, NoneIsNoRun DEF IInv, Table
  <2>5. deque'[table[l]] # <<>>
    BY <2>1, <2>2, <2>4, <1>7
  <2> QED
    BY <2>1, <2>2, <2>3, <2>5
<1>16. Untouched'
  <2> SUFFICES ASSUME NEW w \in Runs, at'[w] = "new"
               PROVE  deque'[w] = <<>>
    BY DEF Untouched
  <2>1. at[w] = "new" /\ deque[w] = <<>>
    BY <1>9 DEF IInv, Untouched
  <2> QED
    BY <2>1, <1>2, <1>7
<1>17. ActiveIsHead'
  <2> SUFFICES ASSUME NEW w \in Runs, at'[w] = "active"
               PROVE  Heads(w, mine[w])'
    BY DEF ActiveIsHead
  <2>1. w # r /\ at[w] = "active"
    BY <1>9
  <2>2. mine[w] # q
    BY <2>1, <1>2, <1>1 DEF IInv, ActiveIsHead, Heads, s
  <2>3. mine[w] \in Runs /\ Heads(w, mine[w])
    BY <2>1 DEF IInv, TypeOK, WaiterIsReachable, ActiveIsHead, InLane
  <2> QED
    BY <2>2, <2>3, <1>6, <1>7 DEF Heads
<1>18. HeadIsAwake'
  BY <1>9 DEF HeadIsAwake
<1> QED
  BY <1>10, <1>12, <1>14, <1>15, <1>16, <1>17, <1>18 DEF IInv

-----------------------------------------------------------------------------
\* The inductive invariant: every request in a lane is in the one deque the
\* dictionary has for it, the active one is its head and the head is awake.
THEOREM LanesInductive == Spec => []IInv
PROOF
<1>1. Init => IInv
  BY InitInv
<1>2. IInv /\ [Next]_vars => IInv'
  <2> SUFFICES ASSUME IInv, [Next]_vars PROVE IInv'
    OBVIOUS
  <2>1. CASE UNCHANGED vars
    BY <2>1 DEF vars, IInv, TypeOK, Members, WaiterIsReachable, Table, Untouched,
                ActiveIsHead, HeadIsAwake, Heads
  <2>2. ASSUME NEW r \in Runs, Acquire(r) PROVE IInv'
    BY <2>2, AcquireInv
  <2>3. ASSUME NEW r \in Runs, Wake(r) PROVE IInv'
    BY <2>3, WakeInv
  <2>4. ASSUME NEW r \in Runs, Release(r) PROVE IInv'
    BY <2>4, ReleaseInv
  <2> QED
    BY <2>1, <2>2, <2>3, <2>4 DEF Next
<1> QED
  BY <1>1, <1>2, PTL DEF Spec

\* acquire and release keep the types, and no request queues twice.
THEOREM LanesTypeCorrect == Spec => []TypeOK
PROOF
<1>1. IInv => TypeOK
  BY DEF IInv
<1> QED
  BY <1>1, LanesInductive, PTL

\* One run of a conversation is active at a time, since an active run is the
\* head of the one deque of its lane.
THEOREM MutualExclusion == Spec => []OneActivePerLane
PROOF
<1>1. IInv => OneActivePerLane
  BY DEF IInv, OneActivePerLane, WaiterIsReachable, ActiveIsHead, Heads, InLane
<1> QED
  BY <1>1, LanesInductive, PTL

\* A request that waits stays in the deque that release looks up, though
\* release drops an emptied deque and acquire makes a new one.
THEOREM WaitersReachable == Spec => []WaiterIsReachable
PROOF
<1>1. IInv => WaiterIsReachable
  BY DEF IInv
<1> QED
  BY <1>1, LanesInductive, PTL

\* No wake-up is lost: the head of a lane does not sleep.
THEOREM NoLostWakeUp == Spec => []HeadIsAwake
PROOF
<1>1. IInv => HeadIsAwake
  BY DEF IInv
<1> QED
  BY <1>1, LanesInductive, PTL

-----------------------------------------------------------------------------
(* The lanes implement the first-in first-out lock.                         *)

Line == [l \in Lanes |-> IF table[l] = None THEN <<>> ELSE deque[table[l]]]
Inside == {r \in Runs : at[r] = "active"}
Gone == {r \in Runs : at[r] = "done"}

LEMMA MapInit == Init => Lock!LockInit
  BY DEF Init, Lock!LockInit

\* The line of a lane as the deque of a run of that lane.
LEMMA LineOfLane ==
    ASSUME IInv, NEW r \in Runs, at[r] \in InLane
    PROVE  Line[LaneOf[r]] = deque[mine[r]]
  BY RunsHaveLanes DEF IInv, WaiterIsReachable, Line

LEMMA MapAcquire ==
    ASSUME IInv, NEW r \in Runs, Acquire(r)
    PROVE  Lock!Arrive(r)
PROOF
<1> DEFINE q == DequeFor(r)
<1>1. at[r] = "new"
  BY DEF Acquire
<1>2. /\ q \in Runs
      /\ LaneOf[r] \in Lanes
      /\ q = r <=> table[LaneOf[r]] = None
      /\ deque[q] = <<>> <=> table[LaneOf[r]] = None
  BY <1>1, DequeChosen
<1>3. Line[LaneOf[r]] = deque[q]
  BY <1>2 DEF Line, DequeFor
<1>4. /\ table' = [table EXCEPT ![LaneOf[r]] = q]
      /\ deque' = [deque EXCEPT ![q] = Append(deque[q], r)]
      /\ at' = [at EXCEPT ![r] = IF deque[q] = <<>> THEN "active" ELSE "asleep"]
  BY <1>2 DEF Acquire, IInv, TypeOK
<1>5. \A l \in Lanes : l # LaneOf[r] => (table[l] # q \/ table[l] = None)
  <2> SUFFICES ASSUME NEW l \in Lanes, l # LaneOf[r], table[l] = q, table[l] # None
               PROVE  FALSE
    OBVIOUS
  <2>1. LaneOf[q] = l /\ at[q] # "new"
    BY DEF IInv, Table
  <2>2. q = table[LaneOf[r]] /\ table[LaneOf[r]] # None
    BY <2>1, <1>1, <1>2 DEF DequeFor
  <2>3. LaneOf[q] = LaneOf[r]
    BY <2>2, <1>2 DEF IInv, Table
  <2> QED
    BY <2>1, <2>3
<1>6. Line' = [Line EXCEPT ![LaneOf[r]] = Append(@, r)]
  <2>1. Line'[LaneOf[r]] = Append(Line[LaneOf[r]], r)
    <3>1. table'[LaneOf[r]] = q /\ q # None /\ deque'[q] = Append(deque[q], r)
      BY <1>2, <1>4, NoneIsNoRun DEF IInv, TypeOK
    <3> QED
      BY <3>1, <1>2, <1>3 DEF Line
  <2>2. ASSUME NEW l \in Lanes, l # LaneOf[r] PROVE Line'[l] = Line[l]
    <3>1. table'[l] = table[l]
      BY <2>2, <1>4 DEF IInv, TypeOK
    <3>2. CASE table[l] = None
      BY <3>1, <3>2 DEF Line
    <3>3. CASE table[l] # None
      <4>1. table[l] \in Runs /\ table[l] # q
        BY <3>3, <2>2, <1>5 DEF IInv, TypeOK
      <4> QED
        BY <4>1, <3>1, <3>3, <1>4 DEF Line, IInv, TypeOK
    <3> QED
      BY <3>2, <3>3
  <2> QED
    BY <2>1, <2>2, <1>2 DEF Line
<1>7. Inside' = IF deque[q] = <<>> THEN Inside \cup {r} ELSE Inside
  BY <1>1, <1>4 DEF Inside, IInv, TypeOK
<1>8. Gone' = Gone /\ r \notin Gone
  BY <1>1, <1>4 DEF Gone, IInv, TypeOK
<1>9. \A l \in Lanes : \A i \in 1..Len(Line[l]) : Line[l][i] # r
  <2> SUFFICES ASSUME NEW l \in Lanes, NEW i \in 1..Len(Line[l]), Line[l][i] = r
               PROVE  FALSE
    OBVIOUS
  <2>1. CASE table[l] = None
    BY <2>1 DEF Line
  <2>2. CASE table[l] # None
    <3>1. table[l] \in Runs /\ Line[l] = deque[table[l]]
      BY <2>2 DEF Line, IInv, TypeOK
    <3>2. at[r] \in InLane
      BY <3>1 DEF IInv, Members
    <3> QED
      BY <3>2, <1>1 DEF InLane
  <2> QED
    BY <2>1, <2>2
<1>10. Inside' \in {Inside} \cup
                   {Inside \cup {x} : x \in {y \in {r} : Line[LaneOf[r]] = <<>>}}
  BY <1>3, <1>7
<1> QED
  BY <1>6, <1>8, <1>9, <1>10 DEF Lock!Arrive, Lock!NeverSeen, Line, Inside, Gone

LEMMA MapWake ==
    ASSUME IInv, NEW r \in Runs, Wake(r)
    PROVE  Lock!Enter(r) \/ UNCHANGED Lock!lockVars
PROOF
<1>1. /\ at[r] = "woken"
      /\ at' = [at EXCEPT ![r] = IF Heads(r, mine[r]) THEN "active" ELSE "asleep"]
      /\ UNCHANGED <<table, deque>>
  BY DEF Wake
<1>2. Line[LaneOf[r]] = deque[mine[r]]
  BY <1>1, LineOfLane DEF InLane
<1>3. Line' = Line
  BY <1>1 DEF Line
<1>4. Gone' = Gone
  BY <1>1 DEF Gone, IInv, TypeOK
<1>5. CASE Heads(r, mine[r])
  <2>1. Inside' = Inside \cup {r} /\ r \notin Inside
    BY <1>1, <1>5 DEF Inside, IInv, TypeOK
  <2>2. Line[LaneOf[r]] # <<>> /\ Head(Line[LaneOf[r]]) = r
    BY <1>2, <1>5 DEF Heads
  <2> QED
    BY <2>1, <2>2, <1>3, <1>4 DEF Lock!Enter, Lock!IsFirst, Line, Inside, Gone
<1>6. CASE ~Heads(r, mine[r])
  <2>1. Inside' = Inside
    BY <1>1, <1>6 DEF Inside, IInv, TypeOK
  <2> QED
    BY <2>1, <1>3, <1>4 DEF Lock!lockVars, Line, Inside, Gone
<1> QED
  BY <1>5, <1>6

LEMMA MapRelease ==
    ASSUME IInv, NEW r \in Runs, Release(r)
    PROVE  Lock!Leave(r)
PROOF
<1> DEFINE q == mine[r]
<1>1. at[r] = "active"
  BY DEF Release
<1>2. /\ Releases(r)
      /\ q \in Runs
      /\ table[LaneOf[r]] = q
      /\ deque[q] # <<>>
      /\ Head(deque[q]) = r
  BY <1>1, ActiveReleases
<1>3. Line[LaneOf[r]] = deque[q]
  BY <1>1, LineOfLane DEF InLane
<1>4. /\ deque' = [deque EXCEPT ![q] = Tail(deque[q])]
      /\ table' = IF Tail(deque[q]) = <<>> THEN [table EXCEPT ![LaneOf[r]] = None]
                  ELSE table
      /\ at' = NotifyAll([at EXCEPT ![r] = "done"])
  BY <1>2 DEF Release, IInv, TypeOK
<1>5. LaneOf[r] \in Lanes /\ q # None
  BY <1>2, RunsHaveLanes, NoneIsNoRun
<1>6. \A w \in Runs : /\ (at'[w] = "active" <=> (w # r /\ at[w] = "active"))
                      /\ (at'[w] = "done" <=> (w = r \/ at[w] = "done"))
  BY <1>4 DEF IInv, TypeOK, NotifyAll
<1>7. Inside' = Inside \ {r} /\ r \in Inside /\ Gone' = Gone \cup {r}
  BY <1>1, <1>6 DEF Inside, Gone
<1>8. \A l \in Lanes : table[l] = q => l = LaneOf[r]
  BY <1>2, <1>5 DEF IInv, Table
<1>9. Line' = [Line EXCEPT ![LaneOf[r]] = Tail(@)]
  <2>1. Line'[LaneOf[r]] = Tail(Line[LaneOf[r]])
    <3>1. CASE Tail(deque[q]) = <<>>
      <4>1. table'[LaneOf[r]] = None
        BY <3>1, <1>4, <1>5 DEF IInv, TypeOK
      <4> QED
        BY <4>1, <3>1, <1>3, <1>5 DEF Line
    <3>2. CASE Tail(deque[q]) # <<>>
      <4>1. table'[LaneOf[r]] = q /\ deque'[q] = Tail(deque[q])
        BY <3>2, <1>2, <1>4 DEF IInv, TypeOK
      <4> QED
        BY <4>1, <1>3, <1>5 DEF Line
    <3> QED
      BY <3>1, <3>2
  <2>2. ASSUME NEW l \in Lanes, l # LaneOf[r] PROVE Line'[l] = Line[l]
    <3>1. table'[l] = table[l]
      BY <2>2, <1>4, <1>5 DEF IInv, TypeOK
    <3>2. CASE table[l] = None
      BY <3>1, <3>2 DEF Line
    <3>3. CASE table[l] # None
      <4>1. table[l] \in Runs /\ table[l] # q
        BY <3>3, <2>2, <1>8 DEF IInv, TypeOK
      <4> QED
        BY <4>1, <3>1, <3>3, <1>4 DEF Line, IInv, TypeOK
    <3> QED
      BY <3>2, <3>3
  <2> QED
    BY <2>1, <2>2, <1>5 DEF Line
<1>10. Line[LaneOf[r]] # <<>> /\ Head(Line[LaneOf[r]]) = r
  BY <1>2, <1>3
<1> QED
  BY <1>7, <1>9, <1>10 DEF Lock!Leave, Lock!IsFirst, Line, Inside, Gone

\* The deques and the condition variable implement the first-in first-out
\* lock: acquire is an arrival, the wake-up that finds itself head an entry,
\* release a departure, and any other wake-up changes nothing of the lock.
THEOREM LanesAreFifo == Spec => ImplementsFifoLock
PROOF
<1>1. Init => Lock!LockInit
  BY MapInit
<1>2. IInv /\ [Next]_vars => [Lock!LockNext]_(Lock!lockVars)
  <2> SUFFICES ASSUME IInv, [Next]_vars PROVE [Lock!LockNext]_(Lock!lockVars)
    OBVIOUS
  <2>1. CASE UNCHANGED vars
    BY <2>1 DEF vars, Lock!lockVars
  <2>2. ASSUME NEW r \in Runs, Acquire(r) PROVE Lock!Arrive(r)
    BY <2>2, MapAcquire
  <2>3. ASSUME NEW r \in Runs, Wake(r) PROVE Lock!Enter(r) \/ UNCHANGED Lock!lockVars
    BY <2>3, MapWake
  <2>4. ASSUME NEW r \in Runs, Release(r) PROVE Lock!Leave(r)
    BY <2>4, MapRelease
  <2> QED
    BY <2>1, <2>2, <2>3, <2>4 DEF Next, Lock!LockNext
<1> QED
  BY <1>1, <1>2, LanesInductive, PTL DEF Spec, ImplementsFifoLock, Lock!LockSpec

-----------------------------------------------------------------------------
(***************************************************************************)
(* What turns leave in the sessions.                                       *)
(***************************************************************************)


Steps ==
  {"new", "resolve", "prepare", "ask", "route", "running", "settle", "persist", "title",
   "summarise", "leave", "done", "raised"}
Unasked == {"new", "resolve", "prepare", "ask"}
Asking == {"route", "running", "settle", "persist"}
Answered == {"title", "summarise", "leave", "done"}

Exchange == [role : {"user", "assistant"}, turn : AllTurns]
Owners == {User[c] : c \in Conversations} \union {"none"}
SessionRows ==
  [history : Seq(Exchange), owner : Owners, agent : Agents \union {"none"},
   title : {"none", "default", "summary"}]
TurnStates ==
  [at : Steps, session : Sessions \union {"none"}, active : Sessions \union {"none"},
   agent : Agents \union {"none"}, calls : Seq({"switch", "same", "tool"}),
   outcome : {"none", "answer", "error", "announcement"}]

TurnsTypes ==
  /\ lane \in [Conversations -> Messages \union {"free"}]
  /\ bound \in [Conversations -> Sessions \union {"none"}]
  /\ rows \in [Sessions -> SessionRows]
  /\ turn \in [AllTurns -> TurnStates]

History(s) == rows[s].history

\* A turn has a session from its lookup on, and an active one from its end on;
\* the sessions that turns and conversations have are there.
TurnPlace(t) ==
  /\ turn[t].at \in {"new", "resolve"} => turn[t].session = "none"
  /\ turn[t].at \in Unasked \union {"route", "running", "settle"} => turn[t].active = "none"
  /\ turn[t].at \notin {"new", "resolve", "raised"} => turn[t].session # "none"
  /\ turn[t].at \in {"persist"} \union Answered => turn[t].active # "none"
  /\ turn[t].session # "none" => ~Absent(turn[t].session)
  /\ turn[t].active # "none" => ~Absent(turn[t].active)
  /\ turn[t].at = "prepare" => t \in Triggers
  /\ turn[t].at = "route" => t \in Messages
BoundThere == \A c \in Conversations : bound[c] # "none" => ~Absent(bound[c])

\* A message that is at work has the lane of its conversation.
LanesHeld ==
  \A t \in Messages : turn[t].at \notin {"new", "done", "raised"} => lane[Of[t]] = t

\* What is in a session was written by turns that have it, after they asked.
Written(s) ==
  \A i \in Entries(s) :
    LET e == History(s)[i]
    IN /\ e.role = "user" => turn[e.turn].at \notin Unasked /\ turn[e.turn].session = s
       /\ e.role = "assistant" => turn[e.turn].at \in Answered \union {"raised"} /\ turn[e.turn].active = s

Once(s) == \A i, j \in Entries(s) : History(s)[i] = History(s)[j] => i = j

\* While a message is at work, nothing of its conversation follows its question.
Followed(s) ==
  \A t \in Messages : turn[t].at \in Asking =>
    \A i, k \in Entries(s) : i < k /\ History(s)[i] = Question(t) => Of[History(s)[k].turn] # Of[t]

NotMixed(s) ==
  \A i, j, k \in Entries(s) : \A t \in Messages :
    i < k /\ k < j /\ History(s)[i] = Question(t) /\ History(s)[j] = Answer(t)
      => Of[History(s)[k].turn] # Of[t]

SessionSound(s) == Written(s) /\ Once(s) /\ Followed(s) /\ NotMixed(s)

\* From its end on, what a message has left is where the user is.
LeavesNothing(t) ==
  turn[t].at \in {"persist"} \union Answered /\ Moved(t) /\ ~Shared(t) =>
    \A i \in Entries(turn[t].session) : History(turn[t].session)[i] # Question(t)
Answers(t) ==
  turn[t].at \in Answered /\ Kept(t) =>
    \E i \in Entries(turn[t].active) : History(turn[t].active)[i] = Answer(t)

TurnsInv ==
  /\ TurnsTypes /\ LanesHeld /\ BoundThere
  /\ \A t \in AllTurns : TurnPlace(t)
  /\ \A s \in Sessions : SessionSound(s)
  /\ \A t \in Messages : LeavesNothing(t) /\ Answers(t)

-----------------------------------------------------------------------------
(* What the steps of one turn do to the sessions and to the other turns.     *)

Others(t) == \A u \in AllTurns \ {t} : turn'[u] = turn[u]

\* A turn keeps its sessions once it has them.
Keeps(t) ==
  /\ turn[t].session = "none" \/ turn'[t].session = turn[t].session
  /\ turn[t].active = "none" \/ turn'[t].active = turn[t].active
\* It does not ask or answer again.
Proceeds(t) ==
  /\ turn[t].at \notin Unasked => turn'[t].at \notin Unasked
  /\ turn[t].at \in Answered \union {"raised"} => turn'[t].at \in Answered \union {"raised"}
\* It writes what is its own, and takes back its question only.
Writes(t) ==
  \A s \in Sessions :
    /\ \A i \in Entries(s)' : (i \in Entries(s) /\ History(s)'[i] = History(s)[i]) \/ History(s)'[i].turn = t
    /\ ~Absent(s) => \A i \in Entries(s) :
         (i \in Entries(s)' /\ History(s)'[i] = History(s)[i]) \/ History(s)[i] = Question(t)

LEMMA EntryOf ==
  ASSUME TurnsInv, NEW s \in Sessions
  PROVE  /\ History(s) \in Seq(Exchange) /\ Entries(s) = 1 .. Len(History(s)) /\ Len(History(s)) \in Nat
         /\ \A i \in Entries(s) : History(s)[i] \in Exchange
<1>1. rows[s] \in SessionRows
  BY DEF TurnsInv, TurnsTypes
<1>2. History(s) \in Seq(Exchange)
  BY <1>1 DEF History, SessionRows
<1> QED
  BY <1>2 DEF Entries, History

LEMMA QuestionAnswer ==
  ASSUME NEW t \in AllTurns
  PROVE  /\ Question(t) \in Exchange /\ Answer(t) \in Exchange
         /\ Question(t).turn = t /\ Answer(t).turn = t
         /\ Question(t).role = "user" /\ Answer(t).role = "assistant"
BY DEF Question, Answer, Exchange

LEMMA EntryIs ==
  ASSUME NEW e \in Exchange
  PROVE  e = Question(e.turn) \/ e = Answer(e.turn)
BY DEF Question, Answer, Exchange

LEMMA TurnOf ==
  ASSUME TurnsInv, NEW t \in AllTurns
  PROVE  /\ turn[t] \in TurnStates /\ turn[t].at \in Steps
         /\ turn[t].session \in Sessions \union {"none"} /\ turn[t].active \in Sessions \union {"none"}
<1>1. turn[t] \in TurnStates
  BY DEF TurnsInv, TurnsTypes
<1> QED
  BY <1>1 DEF TurnStates

LEMMA OthersLeave ==
  ASSUME TurnsInv, NEW t \in AllTurns, Others(t), Keeps(t), Writes(t), NEW u \in Messages \ {t}
  PROVE  LeavesNothing(u)' /\ Answers(u)'
<1>1. u \in AllTurns /\ turn'[u] = turn[u] /\ LeavesNothing(u) /\ Answers(u) /\ TurnPlace(u)
  BY DEF Others, TurnsInv, AllTurns
<1>2. turn[u].session # "none" /\ Shared(u) => Shared(u)'
  BY <1>1 DEF Shared, Others, Keeps
<1>3. LeavesNothing(u)'
  <2> SUFFICES ASSUME turn[u].at \in {"persist"} \union Answered, Moved(u), ~Shared(u)',
                      NEW i \in Entries(turn[u].session)'
               PROVE  History(turn[u].session)'[i] # Question(u)
    BY <1>1 DEF LeavesNothing, Moved
  <2>1. turn[u].session \in Sessions /\ turn[u].session # "none"
    BY <1>1, TurnOf DEF TurnPlace, Answered
  <2>2. \A k \in Entries(turn[u].session) : History(turn[u].session)[k] # Question(u)
    BY <1>1, <1>2, <2>1 DEF LeavesNothing
  <2>3. Question(u).turn # t
    BY <1>1, QuestionAnswer
  <2>4. \/ i \in Entries(turn[u].session) /\ History(turn[u].session)'[i] = History(turn[u].session)[i]
        \/ History(turn[u].session)'[i].turn = t
    BY <1>1, <2>1 DEF Writes
  <2> QED
    BY <1>1, <2>2, <2>3, <2>4
<1>4. Answers(u)'
  <2> SUFFICES ASSUME turn[u].at \in Answered, Kept(u)
               PROVE  \E i \in Entries(turn[u].active)' : History(turn[u].active)'[i] = Answer(u)
    BY <1>1 DEF Answers, Kept, Command, Moved
  <2>1. turn[u].active \in Sessions /\ ~Absent(turn[u].active)
    BY <1>1, TurnOf DEF TurnPlace
  <2>2. PICK i \in Entries(turn[u].active) : History(turn[u].active)[i] = Answer(u)
    BY <1>1 DEF Answers
  <2>3. Answer(u) # Question(t)
    BY <1>1, QuestionAnswer
  <2> QED
    BY <1>1, <2>1, <2>2, <2>3 DEF Writes
<1> QED
  BY <1>3, <1>4

\* A session in which nothing is written.
LEMMA NothingWritten ==
  ASSUME TurnsInv, NEW t \in AllTurns, Others(t), Keeps(t), Proceeds(t), NEW s \in Sessions,
         Entries(s)' \subseteq Entries(s), \A i \in Entries(s)' : History(s)'[i] = History(s)[i]
  PROVE  SessionSound(s)'
<1>1. SessionSound(s)
  BY DEF TurnsInv
<1>2. \A i \in Entries(s) : History(s)[i] \in Exchange
  BY EntryOf
<1>3. Written(s)'
  <2> SUFFICES ASSUME NEW i \in Entries(s)'
               PROVE  LET e == History(s)[i]
                      IN /\ e.role = "user" => turn'[e.turn].at \notin Unasked /\ turn'[e.turn].session = s
                         /\ e.role = "assistant" => /\ turn'[e.turn].at \in Answered \union {"raised"}
                                                    /\ turn'[e.turn].active = s
    BY DEF Written
  <2>1. i \in Entries(s) /\ History(s)[i].turn \in AllTurns
    BY <1>2 DEF Exchange
  <2>2. s # "none"
    BY TurnsAssumption
  <2>3. CASE History(s)[i].turn = t
    BY <1>1, <2>1, <2>2, <2>3 DEF SessionSound, Written, Keeps, Proceeds
  <2>4. CASE History(s)[i].turn # t
    BY <1>1, <2>1, <2>4 DEF SessionSound, Written, Others
  <2> QED
    BY <2>3, <2>4
<1>4. Once(s)'
  BY <1>1 DEF SessionSound, Once
<1>5. Followed(s)'
  <2> SUFFICES ASSUME NEW u \in Messages, turn'[u].at \in Asking, NEW i \in Entries(s)', NEW k \in Entries(s)',
                      i < k, History(s)[i] = Question(u)
               PROVE  Of[History(s)[k].turn] # Of[u]
    BY DEF Followed, Question
  <2>1. u \in AllTurns /\ i \in Entries(s) /\ turn[u].at \in Steps /\ Question(u).turn = u /\ Question(u).role = "user"
    BY TurnOf, QuestionAnswer DEF AllTurns
  <2>2. turn[u].at \notin Unasked
    BY <1>1, <2>1 DEF SessionSound, Written
  <2>3. turn[u].at \in Asking
    BY <2>1, <2>2 DEF Others, Proceeds, Steps, Unasked, Asking, Answered
  <2> QED
    BY <1>1, <2>3 DEF SessionSound, Followed
<1>6. NotMixed(s)'
  BY <1>1 DEF SessionSound, NotMixed, Question, Answer
<1> QED
  BY <1>3, <1>4, <1>5, <1>6 DEF SessionSound

\* Nobody of a conversation is at work while a message of it is.
LEMMA Alone ==
  ASSUME TurnsInv, NEW t \in AllTurns, turn[t].at \in {"ask"} \union Asking,
         NEW u \in Messages, u # t, turn[u].at \in Asking
  PROVE  Of[u] # Of[t]
<1>1. CASE t \in Messages
  BY <1>1 DEF TurnsInv, LanesHeld, Asking
<1>2. CASE t \in Triggers
  BY <1>2, TurnsAssumption
<1> QED
  BY <1>1, <1>2 DEF AllTurns

\* A session in which a turn writes its question, or its answer.
LEMMA EntryWritten ==
  ASSUME TurnsInv, NEW t \in AllTurns, Others(t), Keeps(t), Proceeds(t), NEW s \in Sessions,
         NEW e \in {Question(t), Answer(t)}, History(s)' = Append(History(s), e),
         e = Question(t) => /\ turn[t].at = "ask" /\ turn'[t].at \in Asking
                            /\ turn[t].session = s,
         e = Answer(t) => turn[t].at = "persist" /\ turn'[t].at = "title" /\ turn[t].active = s
  PROVE  SessionSound(s)'
<1> DEFINE n == Len(History(s)) + 1
<1>1. SessionSound(s) /\ s # "none" /\ n \in Nat /\ e \in Exchange /\ e.turn = t
  BY EntryOf, QuestionAnswer, TurnsAssumption DEF TurnsInv
<1>2. /\ Entries(s)' = Entries(s) \union {n} /\ History(s)'[n] = e /\ Entries(s) = 1 .. n - 1
      /\ \A i \in Entries(s) : History(s)'[i] = History(s)[i] /\ History(s)[i] \in Exchange /\ i < n
  <2>1. History(s) \in Seq(Exchange) /\ Entries(s) = 1 .. Len(History(s)) /\ Len(History(s)) \in Nat
        /\ \A i \in Entries(s) : History(s)[i] \in Exchange
    BY EntryOf
  <2>2. Entries(s)' = DOMAIN Append(History(s), e)
    BY DEF Entries, History
  <2>3. DOMAIN Append(History(s), e) = 1 .. n
    BY <1>1, <2>1
  <2>4. Append(History(s), e)[n] = e /\ \A i \in 1 .. Len(History(s)) : Append(History(s), e)[i] = History(s)[i]
    BY <1>1, <2>1
  <2> QED
    BY <2>1, <2>2, <2>3, <2>4
<1> HIDE DEF n
<1>3. turn[t].at \in {"ask", "persist"} /\ Question(t) # Answer(t)
  BY QuestionAnswer
<1>4. \A i \in Entries(s) : History(s)[i] # e
  <2>1. \A i \in Entries(s) : History(s)[i] = Question(t) => turn[t].at \notin Unasked
    BY <1>1, QuestionAnswer DEF SessionSound, Written
  <2>2. \A i \in Entries(s) : History(s)[i] = Answer(t) => turn[t].at \in Answered \union {"raised"}
    BY <1>1, QuestionAnswer DEF SessionSound, Written
  <2> QED
    BY <2>1, <2>2 DEF Unasked, Answered
<1>5. Written(s)'
  <2> SUFFICES ASSUME NEW i \in Entries(s)'
               PROVE  LET x == History(s)'[i]
                      IN /\ x.role = "user" => turn'[x.turn].at \notin Unasked /\ turn'[x.turn].session = s
                         /\ x.role = "assistant" => /\ turn'[x.turn].at \in Answered \union {"raised"}
                                                    /\ turn'[x.turn].active = s
    BY DEF Written
  <2>1. CASE i = n
    <3>1. e = Question(t) => turn'[t].at \notin Unasked /\ turn'[t].session = s
      BY <1>1 DEF Keeps, Asking, Unasked
    <3>2. e = Answer(t) => turn'[t].at \in Answered /\ turn'[t].active = s
      BY <1>1 DEF Keeps, Answered
    <3> QED
      BY <1>1, <1>2, <2>1, <3>1, <3>2, QuestionAnswer
  <2>2. CASE i \in Entries(s) /\ History(s)[i].turn = t
    BY <1>1, <1>2, <2>2 DEF SessionSound, Written, Keeps, Proceeds
  <2>3. CASE i \in Entries(s) /\ History(s)[i].turn # t
    <3>1. History(s)[i].turn \in AllTurns
      BY <1>2, <2>3 DEF Exchange
    <3>2. History(s)'[i] = History(s)[i] /\ turn'[History(s)[i].turn] = turn[History(s)[i].turn]
      BY <1>2, <2>3, <3>1 DEF Others
    <3> QED
      BY <1>1, <2>3, <3>2 DEF SessionSound, Written
  <2> QED
    BY <1>2, <2>1, <2>2, <2>3
<1>6. Once(s)'
  BY <1>1, <1>2, <1>4 DEF SessionSound, Once
<1>7. Followed(s)'
  <2> SUFFICES ASSUME NEW u \in Messages, turn'[u].at \in Asking, NEW i \in Entries(s)', NEW k \in Entries(s)',
                      i < k, History(s)'[i] = Question(u)
               PROVE  Of[History(s)'[k].turn] # Of[u]
    BY DEF Followed, Question
  <2>1. CASE u = t
    <3>1. e = Question(t)
      BY <2>1 DEF Asking
    <3>2. i = n
      BY <1>2, <1>4, <2>1, <3>1
    <3> QED
      BY <1>1, <1>2, <3>2
  <2>2. CASE u # t
    <3>1. turn[u].at \in Asking /\ u \in AllTurns
      BY <2>2 DEF Others, AllTurns
    <3>2. Question(u) # e
      BY <1>1, <2>2, <3>1, QuestionAnswer
    <3>3. i \in Entries(s) /\ History(s)[i] = Question(u)
      BY <1>2, <3>2
    <3>4. CASE k = n
      <4>1. Of[u] # Of[t]
        BY <1>3, <2>2, <3>1, Alone DEF Asking
      <4> QED
        BY <1>1, <1>2, <3>4, <4>1
    <3>5. CASE k # n
      BY <1>1, <1>2, <3>1, <3>3, <3>5 DEF SessionSound, Followed
    <3> QED
      BY <3>4, <3>5
  <2> QED
    BY <2>1, <2>2
<1>8. NotMixed(s)'
  <2> SUFFICES ASSUME NEW i \in Entries(s)', NEW j \in Entries(s)', NEW k \in Entries(s)', NEW u \in Messages,
                      i < k, k < j, History(s)'[i] = Question(u), History(s)'[j] = Answer(u)
               PROVE  Of[History(s)'[k].turn] # Of[u]
    BY DEF NotMixed, Question, Answer
  <2>1. i \in Entries(s) /\ k \in Entries(s) /\ u \in AllTurns
    <3>1. i \in 1 .. n /\ k \in 1 .. n /\ j \in 1 .. n
      BY <1>1, <1>2
    <3>2. i \in 1 .. n - 1 /\ k \in 1 .. n - 1
      BY <1>1, <3>1
    <3> QED
      BY <1>2, <3>2 DEF AllTurns
  <2>2. History(s)[i] = Question(u) /\ History(s)'[k] = History(s)[k]
    BY <1>2, <2>1
  <2>3. CASE j \in Entries(s)
    <3>1. History(s)[j] = Answer(u)
      BY <1>2, <2>3
    <3> QED
      BY <1>1, <2>1, <2>2, <2>3, <3>1 DEF SessionSound, NotMixed
  <2>4. CASE j = n
    <3>1. e = Answer(u)
      BY <1>2, <2>4
    <3>2. u = t /\ turn[t].at = "persist"
      BY <1>1, <2>1, <3>1, QuestionAnswer
    <3> QED
      BY <1>1, <2>1, <2>2, <3>2 DEF SessionSound, Followed, Asking
  <2> QED
    BY <1>2, <2>3, <2>4
<1> QED
  BY <1>5, <1>6, <1>7, <1>8 DEF SessionSound

-----------------------------------------------------------------------------
(* The forms of a step.                                                      *)

LEMMA SetTurn ==
  ASSUME TurnsInv, NEW t \in AllTurns, NEW next \in TurnStates, turn' = [turn EXCEPT ![t] = next]
  PROVE  turn' \in [AllTurns -> TurnStates] /\ turn'[t] = next /\ Others(t)
BY DEF TurnsInv, TurnsTypes, Others

LEMMA LanesKept ==
  ASSUME TurnsInv, NEW t \in AllTurns, NEW next \in TurnStates, turn' = [turn EXCEPT ![t] = next],
         lane' = lane, next.at \notin {"new", "done", "raised"} => turn[t].at \notin {"new", "done", "raised"}
  PROVE  LanesHeld'
<1>1. turn'[t] = next /\ Others(t)
  BY SetTurn
<1> QED
  BY <1>1 DEF TurnsInv, LanesHeld, Others, AllTurns

LEMMA TurnStep ==
  ASSUME TurnsInv, NEW t \in AllTurns, NEW next \in TurnStates, turn' = [turn EXCEPT ![t] = next],
         Keeps(t), Writes(t), \A s \in Sessions : ~Absent(s) => ~Absent(s)',
         lane' \in [Conversations -> Messages \union {"free"}], LanesHeld',
         bound' \in [Conversations -> Sessions \union {"none"}], BoundThere',
         rows' \in [Sessions -> SessionRows], \A s \in Sessions : SessionSound(s)', TurnPlace(t)',
         t \in Messages => LeavesNothing(t)' /\ Answers(t)'
  PROVE  TurnsInv'
<1>1. turn' \in [AllTurns -> TurnStates] /\ Others(t)
  BY SetTurn
<1>2. TurnsTypes'
  BY <1>1 DEF TurnsTypes
<1>3. ASSUME NEW u \in AllTurns, u # t PROVE TurnPlace(u)'
  <2>1. TurnPlace(u) /\ turn'[u] = turn[u]
    BY <1>1, <1>3 DEF Others, TurnsInv
  <2>2. turn[u].session \in Sessions \union {"none"} /\ turn[u].active \in Sessions \union {"none"}
    BY <1>3, TurnOf
  <2>3. /\ turn[u].session # "none" => ~Absent(turn[u].session)'
        /\ turn[u].active # "none" => ~Absent(turn[u].active)'
    BY <2>1, <2>2 DEF TurnPlace, Absent
  <2> QED
    BY <2>1, <2>3 DEF TurnPlace, Absent
<1>4. \A u \in Messages : LeavesNothing(u)' /\ Answers(u)'
  BY <1>1, OthersLeave
<1> QED
  BY <1>2, <1>3, <1>4 DEF TurnsInv

\* A step that writes nothing, though it may make a session.
LEMMA QuietStep ==
  ASSUME TurnsInv, NEW t \in AllTurns, NEW next \in TurnStates, turn' = [turn EXCEPT ![t] = next],
         Keeps(t), Proceeds(t),
         lane' \in [Conversations -> Messages \union {"free"}], LanesHeld',
         bound' \in [Conversations -> Sessions \union {"none"}], BoundThere',
         rows' \in [Sessions -> SessionRows], TurnPlace(t)',
         \A s \in Sessions :
           (Absent(s) /\ History(s)' = <<>>) \/ (History(s)' = History(s) /\ (~Absent(s) => ~Absent(s)')),
         t \in Messages /\ next.at \in {"persist"} \union Answered =>
           \/ next.at = "persist" /\ next.active = next.session
           \/ turn[t].at \in Answered /\ next.calls = turn[t].calls /\ next.outcome = turn[t].outcome
  PROVE  TurnsInv'
<1>1. turn'[t] = next /\ Others(t)
  BY SetTurn
<1>2. \A s \in Sessions : Entries(s)' = DOMAIN History(s)' /\ Entries(s) = DOMAIN History(s)
  BY DEF Entries, History
<1>3. \A s \in Sessions : /\ Entries(s)' \subseteq Entries(s)
                           /\ \A i \in Entries(s)' : History(s)'[i] = History(s)[i]
  <2> SUFFICES ASSUME NEW s \in Sessions
               PROVE  Entries(s)' \subseteq Entries(s) /\ \A i \in Entries(s)' : History(s)'[i] = History(s)[i]
    OBVIOUS
  <2>1. CASE History(s)' = History(s)
    BY <1>2, <2>1
  <2>2. CASE History(s)' = <<>>
    <3>1. Entries(s)' = {}
      BY <1>2, <2>2
    <3> QED
      BY <3>1
  <2> QED
    BY <2>1, <2>2
<1>4. \A s \in Sessions : ~Absent(s) => ~Absent(s)' /\ History(s)' = History(s)
  OBVIOUS
<1>5. Writes(t)
  BY <1>2, <1>3, <1>4 DEF Writes
<1>6. \A s \in Sessions : SessionSound(s)'
  BY <1>1, <1>3, NothingWritten
<1>7. ASSUME t \in Messages PROVE LeavesNothing(t)' /\ Answers(t)'
  <2>1. CASE next.at \notin {"persist"} \union Answered
    BY <1>1, <2>1 DEF LeavesNothing, Answers
  <2>2. CASE next.at = "persist" /\ next.active = next.session
    BY <1>1, <2>2 DEF LeavesNothing, Answers, Moved, Answered
  <2>3. CASE turn[t].at \in Answered /\ next.calls = turn[t].calls /\ next.outcome = turn[t].outcome
    <3>1. LeavesNothing(t) /\ Answers(t) /\ TurnPlace(t)
      BY <1>7 DEF TurnsInv
    <3>2. turn[t].session # "none" /\ turn[t].active # "none"
      BY <2>3, <3>1 DEF TurnPlace, Answered
    <3>3. next.session = turn[t].session /\ next.active = turn[t].active
      BY <1>1, <3>2 DEF Keeps
    <3>4. /\ turn[t].session \in Sessions /\ turn[t].active \in Sessions
          /\ ~Absent(turn[t].session) /\ ~Absent(turn[t].active)
      BY <3>1, <3>2, TurnOf DEF TurnPlace
    <3>5. /\ rows'[turn[t].session].history = rows[turn[t].session].history
          /\ rows'[turn[t].active].history = rows[turn[t].active].history
      BY <1>4, <3>4 DEF History
    <3>6. Shared(t) => Shared(t)'
      BY <1>1, <3>3 DEF Shared, Others
    <3>7. (Moved(t)' <=> Moved(t)) /\ (Kept(t)' <=> Kept(t))
      BY <1>1, <2>3, <3>3 DEF Moved, Kept, Command
    <3>8. LeavesNothing(t)'
      BY <1>1, <2>3, <3>1, <3>3, <3>5, <3>6, <3>7 DEF LeavesNothing, Entries, History, Question
    <3>9. Answers(t)'
      BY <1>1, <2>3, <3>1, <3>3, <3>5, <3>7 DEF Answers, Entries, History, Answer
    <3> QED
      BY <3>8, <3>9
  <2> QED
    BY <1>7, <2>1, <2>2, <2>3
<1> QED
  BY <1>1, <1>4, <1>5, <1>6, <1>7, TurnStep

\* A step that leaves lanes, conversations and sessions alone.
LEMMA TurnGoesOn ==
  ASSUME TurnsInv, NEW t \in AllTurns, NEW next \in TurnStates, turn' = [turn EXCEPT ![t] = next],
         Keeps(t), Proceeds(t), UNCHANGED <<lane, bound, rows>>, TurnPlace(t)',
         next.at \notin {"new", "done", "raised"} => turn[t].at \notin {"new", "done", "raised"},
         t \in Messages /\ next.at \in {"persist"} \union Answered =>
           \/ next.at = "persist" /\ next.active = next.session
           \/ turn[t].at \in Answered /\ next.calls = turn[t].calls /\ next.outcome = turn[t].outcome
  PROVE  TurnsInv'
<1>1. LanesHeld'
  BY LanesKept
<1>2. /\ lane' \in [Conversations -> Messages \union {"free"}] /\ rows' \in [Sessions -> SessionRows]
      /\ bound' \in [Conversations -> Sessions \union {"none"}]
  BY DEF TurnsInv, TurnsTypes
<1>3. BoundThere'
  BY DEF TurnsInv, BoundThere, Absent
<1>4. \A s \in Sessions : History(s)' = History(s) /\ (~Absent(s) => ~Absent(s)')
  BY DEF History, Absent
<1> QED
  BY <1>1, <1>2, <1>3, <1>4, QuietStep

LEMMA Called ==
  ASSUME TurnsInv, NEW t \in AllTurns, NEW call \in {"switch", "same", "tool"},
         NEW next, next = [turn[t] EXCEPT !.calls = Append(@, call)]
  PROVE  /\ next \in TurnStates /\ next.at = turn[t].at
         /\ next.session = turn[t].session /\ next.active = turn[t].active
<1> DEFINE Names == {"switch", "same", "tool"}
<1>1. turn[t] \in TurnStates
  BY TurnOf
<1>2. turn[t].calls \in Seq(Names)
  BY <1>1 DEF TurnStates
<1>3. Append(turn[t].calls, call) \in Seq(Names)
  <2> HIDE DEF Names
  <2>1. call \in Names
    BY DEF Names
  <2> QED
    BY <1>2, <2>1
<1> QED
  BY <1>1, <1>3 DEF TurnStates

LEMMA CallSound ==
  ASSUME TurnsInv, NEW t \in AllTurns, UseTool(t) \/ ResumeSame(t) \/ EndRun(t) \/ RoutingFails(t)
  PROVE  TurnsInv'
<1>1. TurnPlace(t) /\ turn[t] \in TurnStates
  BY TurnOf DEF TurnsInv
<1>2. CASE UseTool(t) \/ ResumeSame(t)
  <2>1. PICK call \in {"same", "tool"} : turn' = [turn EXCEPT ![t].calls = Append(@, call)]
    BY <1>2 DEF UseTool, ResumeSame, Calls
  <2> DEFINE next == [turn[t] EXCEPT !.calls = Append(@, call)]
  <2>2. turn[t].at = "running" /\ UNCHANGED <<lane, bound, rows>> /\ turn' = [turn EXCEPT ![t] = next]
    BY <1>2, <2>1 DEF UseTool, ResumeSame, Calls, At
  <2>3. /\ next \in TurnStates /\ next.at = "running"
        /\ next.session = turn[t].session /\ next.active = turn[t].active
    BY <2>2, Called
  <2> HIDE DEF next
  <2>4. turn'[t] = next
    BY <2>2, <2>3, SetTurn
  <2>5. Keeps(t) /\ Proceeds(t) /\ TurnPlace(t)'
    BY <1>1, <2>2, <2>3, <2>4 DEF Keeps, Proceeds, TurnPlace, Unasked, Answered, Absent
  <2> QED
    BY <2>2, <2>3, <2>5, TurnGoesOn DEF Asking, Answered
<1>3. CASE EndRun(t)
  <2>1. PICK outcome \in {"answer", "error", "announcement"} :
          turn' = [turn EXCEPT ![t].at = "settle", ![t].outcome = outcome]
    BY <1>3 DEF EndRun, Announced
  <2> DEFINE next == [turn[t] EXCEPT !.at = "settle", !.outcome = outcome]
  <2>2. turn[t].at = "running" /\ UNCHANGED <<lane, bound, rows>> /\ turn' = [turn EXCEPT ![t] = next]
    BY <1>3, <2>1 DEF EndRun, At
  <2>3. /\ next \in TurnStates /\ next.at = "settle"
        /\ next.session = turn[t].session /\ next.active = turn[t].active
    BY <1>1, <2>2 DEF TurnStates, Steps
  <2> HIDE DEF next
  <2>4. turn'[t] = next
    BY <2>2, <2>3, SetTurn
  <2>5. Keeps(t) /\ Proceeds(t) /\ TurnPlace(t)'
    BY <1>1, <2>2, <2>3, <2>4 DEF Keeps, Proceeds, TurnPlace, Unasked, Answered, Absent
  <2> QED
    BY <2>2, <2>3, <2>5, TurnGoesOn DEF Asking, Answered
<1>4. CASE RoutingFails(t)
  <2> DEFINE next == [turn[t] EXCEPT !.at = "persist", !.active = turn[t].session, !.outcome = "error"]
  <2>1. turn[t].at = "route" /\ UNCHANGED <<lane, bound, rows>> /\ turn' = [turn EXCEPT ![t] = next]
    BY <1>4 DEF RoutingFails, At
  <2>2. turn[t].session # "none" /\ turn[t].session \in Sessions /\ ~Absent(turn[t].session) /\ turn[t].active = "none"
    BY <1>1, <2>1, TurnOf DEF TurnPlace
  <2>3. /\ next \in TurnStates /\ next.at = "persist"
        /\ next.session = turn[t].session /\ next.active = turn[t].session
    BY <1>1, <2>2 DEF TurnStates, Steps
  <2> HIDE DEF next
  <2>4. turn'[t] = next
    BY <2>1, <2>3, SetTurn
  <2>5. Keeps(t) /\ Proceeds(t) /\ TurnPlace(t)'
    BY <1>1, <2>1, <2>2, <2>3, <2>4 DEF Keeps, Proceeds, TurnPlace, Unasked, Answered, Absent
  <2> QED
    BY <2>1, <2>3, <2>5, TurnGoesOn DEF Asking, Answered
<1> QED
  BY <1>2, <1>3, <1>4

LEMMA GoSound ==
  ASSUME TurnsInv, NEW t \in AllTurns, Enter(t) \/ TriggerAutomation(t) \/ Title(t) \/ Leave(t) \/ Raise(t)
  PROVE  TurnsInv'
<1>1. TurnPlace(t) /\ turn[t] \in TurnStates /\ Of[t] \in Conversations
  BY TurnOf, TurnsAssumption DEF TurnsInv
<1>2. PICK step \in {"resolve", "summarise", "leave", "done", "raised"} :
        turn' = [turn EXCEPT ![t].at = step]
        /\ (step = "resolve" => turn[t].at = "new" /\ t \in AllTurns)
        /\ (step \in {"summarise", "leave"} => turn[t].at = "title" /\ lane' = lane)
        /\ (step = "done" => turn[t].at = "leave")
        /\ (step = "raised" => turn[t].at \notin {"new", "resolve", "done", "raised"})
        /\ (step \in {"done", "raised"} => lane' = Released(t))
  BY DEF Enter, TriggerAutomation, Title, Leave, Raise, Go, At
<1> DEFINE next == [turn[t] EXCEPT !.at = step]
<1>3. UNCHANGED <<bound, rows>> /\ turn' = [turn EXCEPT ![t] = next]
  BY <1>2 DEF Enter, TriggerAutomation, Title, Leave, Raise
<1>4. /\ next \in TurnStates /\ next.at = step /\ next.session = turn[t].session
      /\ next.active = turn[t].active /\ next.calls = turn[t].calls /\ next.outcome = turn[t].outcome
  BY <1>1, <1>2 DEF TurnStates, Steps
<1> HIDE DEF next
<1>5. turn'[t] = next /\ Others(t)
  BY <1>3, <1>4, SetTurn
<1>6. Keeps(t) /\ Proceeds(t) /\ TurnPlace(t)'
  BY <1>1, <1>2, <1>3, <1>4, <1>5 DEF Keeps, Proceeds, TurnPlace, Unasked, Answered, Absent
<1>7. lane \in [Conversations -> Messages \union {"free"}]
  BY DEF TurnsInv, TurnsTypes
<1>8. lane' = lane \/ (t \in Messages /\ \E m \in {t, "free"} : lane' = [lane EXCEPT ![Of[t]] = m])
  BY DEF Enter, TriggerAutomation, Title, Leave, Raise, Released
<1>9. lane' \in [Conversations -> Messages \union {"free"}]
  BY <1>7, <1>8
<1>10. LanesHeld'
  <2> SUFFICES ASSUME NEW u \in Messages, turn'[u].at \notin {"new", "done", "raised"}
               PROVE  lane'[Of[u]] = u
    BY DEF LanesHeld
  <2>1. u \in AllTurns /\ Of[u] \in Conversations
    BY TurnsAssumption DEF AllTurns
  <2>2. CASE u = t
    <3>1. step \in {"resolve", "summarise", "leave"}
      BY <1>4, <1>5, <2>2
    <3>2. CASE step = "resolve"
      <4>1. Enter(t)
        <5>1. turn[t].at = "new" /\ turn'[t].at = "resolve" /\ t \notin Triggers
          BY <1>2, <1>4, <1>5, <2>2, <3>2, TurnsAssumption
        <5> QED
          BY <5>1 DEF TriggerAutomation, Title, Leave, Raise, At
      <4> QED
        BY <1>1, <1>7, <2>2, <4>1 DEF Enter
    <3>3. CASE step \in {"summarise", "leave"}
      BY <1>2, <2>2, <3>3 DEF TurnsInv, LanesHeld
    <3> QED
      BY <3>1, <3>2, <3>3
  <2>3. CASE u # t
    <3>1. lane[Of[u]] = u /\ u # "free"
      BY <1>5, <2>1, <2>3, TurnsAssumption DEF Others, TurnsInv, LanesHeld
    <3>2. CASE t \in Triggers
      BY <1>8, <3>1, <3>2, TurnsAssumption
    <3>3. CASE t \in Messages /\ Of[t] = Of[u]
      <4>1. turn[t].at \in {"new", "done", "raised"}
        BY <2>3, <3>1, <3>3 DEF TurnsInv, LanesHeld
      <4>2. ~Enter(t)
        BY <3>1, <3>3 DEF Enter
      <4>3. FALSE
        BY <3>3, <4>1, <4>2, TurnsAssumption DEF TriggerAutomation, Title, Leave, Raise, At
      <4> QED
        BY <4>3
    <3>4. CASE t \in Messages /\ Of[t] # Of[u]
      BY <1>7, <1>8, <2>1, <3>1, <3>4
    <3> QED
      BY <3>2, <3>3, <3>4 DEF AllTurns
  <2> QED
    BY <2>2, <2>3
<1>11. rows' \in [Sessions -> SessionRows] /\ bound' \in [Conversations -> Sessions \union {"none"}] /\ BoundThere'
  BY <1>3 DEF TurnsInv, TurnsTypes, BoundThere, Absent
<1>12. \A s \in Sessions : History(s)' = History(s) /\ (~Absent(s) => ~Absent(s)')
  BY <1>3 DEF History, Absent
<1> QED
  BY <1>2, <1>3, <1>4, <1>6, <1>9, <1>10, <1>11, <1>12, QuietStep DEF Asking, Answered

-----------------------------------------------------------------------------
(* Steps that change what is said of a session, or make one.                 *)

LEMMA CatalogSound ==
  ASSUME TurnsInv, NEW t \in AllTurns, Route(t) \/ PrepareTrigger(t) \/ Summarise(t)
  PROVE  TurnsInv'
<1>1. TurnPlace(t) /\ turn[t] \in TurnStates /\ turn[t].agent \in Agents \union {"none"}
  <2>1. TurnPlace(t) /\ turn[t] \in TurnStates
    BY TurnOf DEF TurnsInv
  <2> QED
    BY <2>1 DEF TurnStates
<1>2. PICK step \in {"running", "ask", "leave"} :
        /\ turn' = [turn EXCEPT ![t].at = step] /\ UNCHANGED <<lane, bound>>
        /\ step = "running" => turn[t].at = "route"
        /\ step = "ask" => turn[t].at = "prepare"
        /\ step = "leave" => turn[t].at = "summarise"
  BY DEF Route, PrepareTrigger, Summarise, Go, At
<1>3. turn[t].at \notin {"new", "resolve", "raised", "done"}
  BY <1>2
<1> DEFINE next == [turn[t] EXCEPT !.at = step]
<1>4. turn' = [turn EXCEPT ![t] = next]
  BY <1>2
<1>5. /\ next \in TurnStates /\ next.at = step /\ next.session = turn[t].session
      /\ next.active = turn[t].active /\ next.calls = turn[t].calls /\ next.outcome = turn[t].outcome
  BY <1>1, <1>2 DEF TurnStates, Steps
<1> HIDE DEF next
<1>6. turn'[t] = next /\ LanesHeld'
  BY <1>2, <1>3, <1>4, <1>5, SetTurn, LanesKept
<1>7. rows \in [Sessions -> SessionRows]
  BY DEF TurnsInv, TurnsTypes
<1>8. /\ rows' \in [Sessions -> SessionRows]
      /\ \A s \in Sessions : rows'[s].history = rows[s].history /\ (rows[s].owner # "none" => rows'[s].owner # "none")
  <2>1. CASE Summarise(t)
    <3> DEFINE x == turn[t].active
    <3>1. rows' = [rows EXCEPT ![x] = [rows[x] EXCEPT !.title = "summary"]]
      BY <2>1 DEF Summarise
    <3>2. x \in Sessions
      BY <1>1, <2>1, TurnOf DEF TurnPlace, Summarise, At, Answered
    <3>3. [rows[x] EXCEPT !.title = "summary"] \in SessionRows
      BY <1>7, <3>2 DEF SessionRows
    <3>4. /\ [rows[x] EXCEPT !.title = "summary"].history = rows[x].history
          /\ [rows[x] EXCEPT !.title = "summary"].owner = rows[x].owner
      BY <1>7, <3>2 DEF SessionRows
    <3> HIDE DEF x
    <3> QED
      BY <1>7, <3>1, <3>2, <3>3, <3>4
  <2>2. CASE Route(t) \/ PrepareTrigger(t)
    <3> DEFINE x == turn[t].session
    <3>1. rows' = [rows EXCEPT ![x] =
                     [rows[x] EXCEPT !.agent = turn[t].agent, !.owner = User[Of[t]], !.title = Titled(@)]]
      BY <2>2 DEF Route, PrepareTrigger, Prepared, ActiveAgent
    <3>2. x \in Sessions
      BY <1>1, <1>3, TurnOf DEF TurnPlace
    <3>3. User[Of[t]] \in Owners \ {"none"}
      BY TurnsAssumption DEF Owners
    <3>4. rows[x] \in SessionRows /\ Titled(rows[x].title) \in {"none", "default", "summary"}
      BY <1>7, <3>2 DEF SessionRows, Titled
    <3> DEFINE row == [rows[x] EXCEPT !.agent = turn[t].agent, !.owner = User[Of[t]], !.title = Titled(@)]
    <3>5. row \in SessionRows /\ row.history = rows[x].history /\ row.owner # "none"
      BY <1>1, <3>3, <3>4 DEF SessionRows
    <3>6. rows' = [rows EXCEPT ![x] = row]
      BY <3>1
    <3> HIDE DEF x, row
    <3> QED
      BY <1>7, <3>2, <3>5, <3>6
  <2> QED
    BY <2>1, <2>2
<1>9. \A s \in Sessions : History(s)' = History(s) /\ (~Absent(s) => ~Absent(s)')
  BY <1>8 DEF History, Absent
<1>10. BoundThere' /\ lane' \in [Conversations -> Messages \union {"free"}]
       /\ bound' \in [Conversations -> Sessions \union {"none"}]
  BY <1>2, <1>9 DEF TurnsInv, TurnsTypes, BoundThere, Absent
<1>11. Keeps(t) /\ Proceeds(t)
  BY <1>2, <1>5, <1>6 DEF Keeps, Proceeds, Unasked, Answered
<1>12. TurnPlace(t)'
  BY <1>1, <1>2, <1>5, <1>6, <1>8, TurnOf DEF TurnPlace, Unasked, Answered, Absent
<1> QED
  BY <1>2, <1>4, <1>5, <1>6, <1>8, <1>9, <1>10, <1>11, <1>12, QuietStep DEF Asking, Answered

LEMMA RoutedIsAgent ==
  ASSUME NEW t, NEW a
  PROVE  Routed(t, a) \in Agents
<1> DEFINE wanted == <<Requested[t], Pinned[Of[t]], a, Main>>
           First(i) == wanted[i] \in Agents /\ \A j \in 1 .. i - 1 : wanted[j] \notin Agents
<1>1. wanted[4] \in Agents
  BY DEF Agents
<1>2. \E i \in 1 .. 4 : First(i)
  <2>1. CASE wanted[1] \in Agents
    <3>1. First(1)
      BY <2>1
    <3> QED
      BY <3>1
  <2>2. CASE wanted[1] \notin Agents /\ wanted[2] \in Agents
    <3>1. First(2)
      BY <2>2
    <3> QED
      BY <3>1
  <2>3. CASE wanted[1] \notin Agents /\ wanted[2] \notin Agents /\ wanted[3] \in Agents
    <3>1. \A j \in 1 .. 2 : j = 1 \/ j = 2
      OBVIOUS
    <3>2. First(3)
      BY <2>3, <3>1
    <3> QED
      BY <3>2
  <2>4. CASE wanted[1] \notin Agents /\ wanted[2] \notin Agents /\ wanted[3] \notin Agents
    <3>1. \A j \in 1 .. 3 : j = 1 \/ j = 2 \/ j = 3
      OBVIOUS
    <3>2. First(4)
      BY <1>1, <2>4, <3>1
    <3> QED
      BY <3>2
  <2> QED
    BY <2>1, <2>2, <2>3, <2>4
<1>3. wanted[CHOOSE i \in 1 .. 4 : First(i)] \in Agents
  <2> HIDE DEF wanted
  <2> QED
    BY <1>2
<1>4. Routed(t, a) = wanted[CHOOSE i \in 1 .. 4 : First(i)]
  BY Zenon DEF Routed
<1> HIDE DEF wanted, First
<1> QED
  BY <1>3, <1>4

\* A session that is made for a conversation.
LEMMA CreatedSound ==
  ASSUME TurnsInv, NEW x \in Sessions, Absent(x), NEW c \in Conversations, NEW a \in Agents \union {"none"},
         Created(x, c, a, "none")
  PROVE  /\ x # "none" /\ ~Absent(x)'
         /\ rows' \in [Sessions -> SessionRows] /\ bound' \in [Conversations -> Sessions \union {"none"}]
         /\ BoundThere'
         /\ \A s \in Sessions :
              (Absent(s) /\ History(s)' = <<>>) \/ (History(s)' = History(s) /\ (~Absent(s) => ~Absent(s)'))
<1> DEFINE row == [NoRow EXCEPT !.owner = User[c], !.agent = a, !.title = "none"]
<1>1. rows' = [rows EXCEPT ![x] = row] /\ bound' = [bound EXCEPT ![c] = x]
  BY DEF Created
<1>2. User[c] \in Owners /\ User[c] # "none" /\ <<>> \in Seq(Exchange)
  BY TurnsAssumption DEF Owners
<1>3. row \in SessionRows /\ row.history = <<>> /\ row.owner # "none"
  BY <1>2 DEF SessionRows, NoRow
<1>4. /\ rows \in [Sessions -> SessionRows] /\ bound \in [Conversations -> Sessions \union {"none"}]
      /\ BoundThere
  BY DEF TurnsInv, TurnsTypes
<1> HIDE DEF row
<1>5. rows' \in [Sessions -> SessionRows] /\ bound' \in [Conversations -> Sessions \union {"none"}]
  BY <1>1, <1>3, <1>4
<1>6. rows'[x] = row /\ \A s \in Sessions \ {x} : rows'[s] = rows[s]
  BY <1>1, <1>4
<1>7. ~Absent(x)' /\ \A s \in Sessions : ~Absent(s) => ~Absent(s)'
  BY <1>3, <1>6 DEF Absent
<1>8. \A s \in Sessions :
        (Absent(s) /\ History(s)' = <<>>) \/ (History(s)' = History(s) /\ (~Absent(s) => ~Absent(s)'))
  BY <1>3, <1>6, <1>7 DEF History
<1>9. BoundThere'
  BY <1>1, <1>4, <1>7 DEF BoundThere
<1> QED
  BY <1>5, <1>7, <1>8, <1>9, TurnsAssumption

LEMMA FreshSession ==
  ASSUME AnyFresh
  PROVE  Fresh \in Sessions /\ Absent(Fresh)
BY DEF Fresh, AnyFresh

LEMMA ResolveSound ==
  ASSUME TurnsInv, NEW t \in AllTurns, Resolve(t)
  PROVE  TurnsInv'
<1> DEFINE c == Of[t]
           next(s, a) == [turn[t] EXCEPT !.at = IF t \in Messages THEN "ask" ELSE "prepare",
                                         !.session = s, !.agent = Routed(t, a)]
<1>1. TurnPlace(t) /\ turn[t] \in TurnStates /\ c \in Conversations /\ turn[t].at = "resolve" /\ lane' = lane
  BY TurnOf, TurnsAssumption DEF TurnsInv, Resolve, At
<1>2. ASSUME NEW s \in Sessions, NEW a
      PROVE  /\ next(s, a) \in TurnStates /\ next(s, a).session = s /\ next(s, a).active = turn[t].active
             /\ next(s, a).at = IF t \in Messages THEN "ask" ELSE "prepare"
  <2> DEFINE Found(g, step) == [turn[t] EXCEPT !.at = step, !.session = s, !.agent = g]
  <2>1. ASSUME NEW g \in Agents, NEW step \in Steps
        PROVE  /\ Found(g, step) \in TurnStates /\ Found(g, step).session = s
               /\ Found(g, step).active = turn[t].active /\ Found(g, step).at = step
    BY <1>1 DEF TurnStates
  <2>2. Routed(t, a) \in Agents
    BY RoutedIsAgent
  <2> DEFINE step == IF t \in Messages THEN "ask" ELSE "prepare"
  <2>3. step \in Steps
    BY DEF Steps
  <2>4. next(s, a) = Found(Routed(t, a), step)
    OBVIOUS
  <2> HIDE DEF Found, step, next
  <2>5. /\ next(s, a) \in TurnStates /\ next(s, a).session = s /\ next(s, a).active = turn[t].active
        /\ next(s, a).at = step
    BY <2>1, <2>2, <2>3, <2>4
  <2> QED
    BY <2>5 DEF step
<1>3. turn[t].session = "none" /\ turn[t].active = "none" /\ (t \notin Messages => t \in Triggers)
  BY <1>1 DEF TurnPlace, Unasked, AllTurns
<1>4. \E s \in Sessions, a \in Agents \union {"none"} :
        /\ turn' = [turn EXCEPT ![t] = next(s, a)]
        /\ \/ s = bound[c] /\ UNCHANGED <<bound, rows>>
           \/ Absent(s) /\ Created(s, c, Main, "none")
  <2>1. CASE bound[c] # "none"
    <3>1. bound[c] \in Sessions /\ rows[bound[c]].agent \in Agents \union {"none"}
      BY <1>1, <2>1 DEF TurnsInv, TurnsTypes, SessionRows
    <3>2. turn' = [turn EXCEPT ![t] = next(bound[c], rows[bound[c]].agent)] /\ UNCHANGED <<bound, rows>>
      BY <2>1 DEF Resolve
    <3> HIDE DEF next
    <3> QED
      BY <3>1, <3>2
  <2>2. CASE bound[c] = "none"
    <3>1. AnyFresh /\ Created(Fresh, c, Main, "none") /\ turn' = [turn EXCEPT ![t] = next(Fresh, Main)]
      BY <2>2 DEF Resolve
    <3> HIDE DEF next
    <3>2. Main \in Agents
      BY DEF Agents
    <3> QED
      BY <3>1, <3>2, FreshSession
  <2> QED
    BY <2>1, <2>2
<1>5. PICK s \in Sessions, a \in Agents \union {"none"} :
        /\ turn' = [turn EXCEPT ![t] = next(s, a)]
        /\ \/ s = bound[c] /\ UNCHANGED <<bound, rows>>
           \/ Absent(s) /\ Created(s, c, Main, "none")
  BY <1>4
<1> HIDE DEF next
<1>6. next(s, a) \in TurnStates /\ turn'[t] = next(s, a) /\ LanesHeld' /\ s # "none"
  BY <1>1, <1>2, <1>5, SetTurn, LanesKept, TurnsAssumption
<1>7. /\ rows' \in [Sessions -> SessionRows] /\ bound' \in [Conversations -> Sessions \union {"none"}]
      /\ BoundThere' /\ ~Absent(s)'
      /\ \A x \in Sessions :
           (Absent(x) /\ History(x)' = <<>>) \/ (History(x)' = History(x) /\ (~Absent(x) => ~Absent(x)'))
  <2>1. CASE s = bound[c] /\ UNCHANGED <<bound, rows>>
    BY <1>1, <1>6, <2>1 DEF TurnsInv, TurnsTypes, BoundThere, Absent, History
  <2>2. CASE Absent(s) /\ Created(s, c, Main, "none")
    <3> HIDE DEF c
    <3>1. Main \in Agents
      BY DEF Agents
    <3> QED
      BY <1>1, <2>2, <3>1, CreatedSound
  <2> QED
    BY <1>5, <2>1, <2>2
<1>8. Keeps(t) /\ Proceeds(t) /\ TurnPlace(t)'
  <2>1. /\ turn'[t].session = s /\ turn'[t].active = "none"
        /\ turn'[t].at = IF t \in Messages THEN "ask" ELSE "prepare"
    BY <1>2, <1>3, <1>6
  <2>2. Keeps(t)
    BY <1>3, <2>1 DEF Keeps
  <2>3. Proceeds(t)
    BY <1>1, <2>1 DEF Proceeds, Unasked, Answered
  <2>4. TurnPlace(t)'
    BY <1>3, <1>6, <1>7, <2>1 DEF TurnPlace, Unasked, Answered, Absent
  <2> QED
    BY <2>2, <2>3, <2>4
<1>9. /\ lane' \in [Conversations -> Messages \union {"free"}]
      /\ next(s, a).at \notin Asking \union {"persist"} \union Answered
  BY <1>1, <1>2 DEF TurnsInv, TurnsTypes, Asking, Answered
<1> QED
  BY <1>5, <1>6, <1>7, <1>8, <1>9, QuietStep

LEMMA MoveSound ==
  ASSUME TurnsInv, NEW t \in AllTurns, NewSession(t) \/ Resume(t)
  PROVE  TurnsInv'
<1> DEFINE c == Of[t]
           next == [turn[t] EXCEPT !.calls = Append(@, "switch")]
<1>1. /\ TurnPlace(t) /\ c \in Conversations /\ turn[t].at = "running" /\ lane' = lane
      /\ turn' = [turn EXCEPT ![t] = next]
  BY TurnsAssumption DEF TurnsInv, NewSession, Resume, Switches, Calls, At
<1>2. /\ next \in TurnStates /\ next.at = "running"
      /\ next.session = turn[t].session /\ next.active = turn[t].active
  BY <1>1, Called
<1> HIDE DEF next
<1>3. turn'[t] = next /\ LanesHeld'
  BY <1>1, <1>2, SetTurn, LanesKept
<1>4. /\ rows' \in [Sessions -> SessionRows] /\ bound' \in [Conversations -> Sessions \union {"none"}]
      /\ BoundThere'
      /\ \A x \in Sessions :
           (Absent(x) /\ History(x)' = <<>>) \/ (History(x)' = History(x) /\ (~Absent(x) => ~Absent(x)'))
  <2>1. CASE NewSession(t)
    <3>1. turn[t].session \in Sessions
      BY <1>1, TurnOf DEF TurnPlace
    <3>2. rows[turn[t].session].agent \in Agents \union {"none"}
      BY <3>1 DEF TurnsInv, TurnsTypes, SessionRows
    <3>3. AnyFresh /\ Created(Fresh, c, rows[turn[t].session].agent, "none")
      BY <2>1 DEF NewSession
    <3>4. PICK x \in Sessions : Absent(x) /\ Created(x, c, rows[turn[t].session].agent, "none")
      BY <3>3, FreshSession
    <3> HIDE DEF c
    <3> QED
      BY <1>1, <3>2, <3>4, CreatedSound
  <2>2. CASE Resume(t)
    <3>1. PICK s \in Sessions : ~Absent(s) /\ Rebound(c, s) /\ rows' = rows
      BY <2>2 DEF Resume, Visible
    <3>2. bound \in [Conversations -> Sessions \union {"none"}] /\ rows \in [Sessions -> SessionRows] /\ BoundThere
      BY DEF TurnsInv, TurnsTypes
    <3>3. bound' \in [Conversations -> Sessions \union {"none"}]
          /\ \A d \in Conversations : bound'[d] \in {s, "none", bound[d]}
      BY <3>1, <3>2 DEF Rebound
    <3> QED
      BY <3>1, <3>2, <3>3 DEF BoundThere, Absent, History
  <2> QED
    BY <2>1, <2>2
<1>5. ~Absent(turn[t].session)'
  <2>1. turn[t].session \in Sessions /\ ~Absent(turn[t].session)
    BY <1>1, TurnOf DEF TurnPlace
  <2> DEFINE x == turn[t].session
  <2>2. ASSUME NEW y \in Sessions, y = x PROVE ~Absent(y)'
    BY <1>4, <2>1, <2>2
  <2> QED
    BY <1>2, <1>3, <2>1, <2>2 DEF Absent
<1>6. Keeps(t) /\ Proceeds(t) /\ TurnPlace(t)'
  <2>1. turn'[t].session = turn[t].session /\ turn'[t].active = "none" /\ turn'[t].at = "running"
    BY <1>1, <1>2, <1>3 DEF TurnPlace
  <2>2. Keeps(t)
    BY <1>2, <1>3 DEF Keeps
  <2>3. Proceeds(t)
    BY <1>1, <2>1 DEF Proceeds, Unasked, Answered
  <2>4. TurnPlace(t)'
    BY <1>1, <1>5, <2>1 DEF TurnPlace, Unasked, Answered, Absent
  <2> QED
    BY <2>2, <2>3, <2>4
<1>7. /\ lane' \in [Conversations -> Messages \union {"free"}]
      /\ turn[t].at \in Asking /\ next.at \notin {"persist"} \union Answered
  BY <1>1, <1>2 DEF TurnsInv, TurnsTypes, Asking, Answered
<1> QED
  BY <1>1, <1>2, <1>3, <1>4, <1>6, <1>7, QuietStep

LEMMA DeliverSound ==
  ASSUME TurnsInv, NEW t \in AllTurns, Deliver(t)
  PROVE  TurnsInv'
<1> DEFINE next == [turn[t] EXCEPT !.at = "persist", !.active = turn[t].session]
<1>1. /\ TurnPlace(t) /\ turn[t] \in TurnStates /\ turn[t].at = "settle" /\ t \notin Messages
      /\ UNCHANGED <<lane, bound, rows>> /\ turn' = [turn EXCEPT ![t] = next]
  BY TurnOf, TurnsAssumption DEF TurnsInv, Deliver, At
<1>2. turn[t].session # "none" /\ ~Absent(turn[t].session) /\ turn[t].active = "none"
  BY <1>1 DEF TurnPlace
<1>3. /\ next \in TurnStates /\ next.at = "persist"
      /\ next.session = turn[t].session /\ next.active = turn[t].session
  BY <1>1, <1>2, TurnOf DEF TurnStates, Steps
<1> HIDE DEF next
<1>4. turn'[t] = next
  BY <1>1, <1>3, SetTurn
<1>5. Keeps(t) /\ Proceeds(t) /\ TurnPlace(t)'
  BY <1>1, <1>2, <1>3, <1>4 DEF Keeps, Proceeds, TurnPlace, Unasked, Answered, Absent
<1> QED
  BY <1>1, <1>3, <1>5, TurnGoesOn

-----------------------------------------------------------------------------
(* Steps that write.                                                         *)

LEMMA EntryRows ==
  ASSUME TurnsInv, NEW s \in Sessions, NEW e \in Exchange, rows' = Appended(s, e)
  PROVE  /\ rows' \in [Sessions -> SessionRows] /\ History(s)' = Append(History(s), e)
         /\ \A x \in Sessions \ {s} : History(x)' = History(x)
         /\ \A x \in Sessions : rows'[x].owner = rows[x].owner
<1> DEFINE row == [rows[s] EXCEPT !.history = Append(@, e)]
<1>1. rows' = [rows EXCEPT ![s] = row] /\ rows \in [Sessions -> SessionRows]
  BY DEF Appended, TurnsInv, TurnsTypes
<1>2. rows[s] \in SessionRows /\ rows[s].history \in Seq(Exchange)
  BY <1>1 DEF SessionRows
<1>3. Append(rows[s].history, e) \in Seq(Exchange)
  BY <1>2
<1>4. row \in SessionRows /\ row.history = Append(rows[s].history, e) /\ row.owner = rows[s].owner
  BY <1>2, <1>3 DEF SessionRows
<1> HIDE DEF row
<1> QED
  BY <1>1, <1>4 DEF History

LEMMA EntryStep ==
  ASSUME TurnsInv, NEW t \in AllTurns, NEW next \in TurnStates, turn' = [turn EXCEPT ![t] = next],
         next.session = turn[t].session, next.active = turn[t].active, Proceeds(t),
         UNCHANGED <<lane, bound>>, next.at \notin {"new", "done", "raised"}, turn[t].at \notin {"new", "done", "raised"},
         NEW s \in Sessions, NEW e \in {Question(t), Answer(t)}, rows' = Appended(s, e),
         e = Question(t) => turn[t].at = "ask" /\ next.at \in Asking /\ turn[t].session = s,
         e = Answer(t) => turn[t].at = "persist" /\ next.at = "title" /\ turn[t].active = s,
         TurnPlace(t)', t \in Messages => LeavesNothing(t)' /\ Answers(t)'
  PROVE  TurnsInv'
<1>1. turn'[t] = next /\ Others(t) /\ LanesHeld'
  BY SetTurn, LanesKept
<1>2. Keeps(t) /\ e \in Exchange /\ e.turn = t
  BY <1>1, QuestionAnswer DEF Keeps
<1>3. /\ rows' \in [Sessions -> SessionRows] /\ History(s)' = Append(History(s), e)
      /\ \A x \in Sessions \ {s} : History(x)' = History(x)
      /\ \A x \in Sessions : rows'[x].owner = rows[x].owner
  BY <1>2, EntryRows
<1>4. \A x \in Sessions : SessionSound(x)'
  <2>1. SessionSound(s)'
    BY <1>1, <1>2, <1>3, EntryWritten
  <2>2. ASSUME NEW x \in Sessions \ {s} PROVE SessionSound(x)'
    <3>1. Entries(x)' = Entries(x) /\ History(x)' = History(x)
      BY <1>3 DEF Entries, History
    <3> QED
      BY <1>1, <1>2, <3>1, NothingWritten
  <2> QED
    BY <2>1, <2>2
<1>5. Writes(t)
  <2> SUFFICES ASSUME NEW x \in Sessions
               PROVE  /\ \A i \in Entries(x)' : (i \in Entries(x) /\ History(x)'[i] = History(x)[i])
                                                \/ History(x)'[i].turn = t
                      /\ \A i \in Entries(x) : i \in Entries(x)' /\ History(x)'[i] = History(x)[i]
    BY DEF Writes
  <2>1. CASE x = s
    <3>1. /\ History(s) \in Seq(Exchange) /\ Entries(s) = 1 .. Len(History(s)) /\ Len(History(s)) \in Nat
      BY EntryOf
    <3>2. Entries(s)' = DOMAIN Append(History(s), e)
      BY <1>3 DEF Entries, History
    <3>3. DOMAIN Append(History(s), e) = 1 .. Len(History(s)) + 1
      BY <1>2, <3>1
    <3>4. /\ Append(History(s), e)[Len(History(s)) + 1] = e
          /\ \A i \in 1 .. Len(History(s)) : Append(History(s), e)[i] = History(s)[i]
      BY <1>2, <3>1
    <3>5. \A i \in 1 .. Len(History(s)) + 1 : i \in 1 .. Len(History(s)) \/ i = Len(History(s)) + 1
      BY <3>1
    <3>6. \A i \in 1 .. Len(History(s)) : i \in 1 .. Len(History(s)) + 1
      BY <3>1
    <3> QED
      BY <1>2, <1>3, <2>1, <3>1, <3>2, <3>3, <3>4, <3>5, <3>6
  <2>2. CASE x # s
    BY <1>3, <2>2 DEF Entries, History
  <2> QED
    BY <2>1, <2>2
<1>6. \A x \in Sessions : ~Absent(x) => ~Absent(x)'
  BY <1>3 DEF Absent
<1>7. BoundThere' /\ bound' \in [Conversations -> Sessions \union {"none"}]
      /\ lane' \in [Conversations -> Messages \union {"free"}]
  BY <1>6 DEF TurnsInv, TurnsTypes, BoundThere, Absent
<1> QED
  BY <1>1, <1>2, <1>3, <1>4, <1>5, <1>6, <1>7, TurnStep

LEMMA AskSound ==
  ASSUME TurnsInv, NEW t \in AllTurns, Ask(t) \/ AskTrigger(t)
  PROVE  TurnsInv'
<1>1. TurnPlace(t) /\ turn[t] \in TurnStates /\ turn[t].at = "ask" /\ UNCHANGED <<lane, bound>>
  BY TurnOf DEF TurnsInv, Ask, AskTrigger, At
<1>2. PICK step \in {"route", "running"} :
        turn' = [turn EXCEPT ![t].at = step] /\ (step = "route" => t \in Messages)
  BY DEF Ask, AskTrigger, Go
<1> DEFINE next == [turn[t] EXCEPT !.at = step]
<1>3. turn' = [turn EXCEPT ![t] = next]
  BY <1>2
<1>4. /\ next \in TurnStates /\ next.at = step
      /\ next.session = turn[t].session /\ next.active = turn[t].active
  BY <1>1, <1>2 DEF TurnStates, Steps
<1> HIDE DEF next
<1>5. turn'[t] = next
  BY <1>3, <1>4, SetTurn
<1>6. turn[t].session \in Sessions /\ ~Absent(turn[t].session) /\ turn[t].active = "none"
  BY <1>1, TurnOf DEF TurnPlace, Unasked
<1>7. rows' = Appended(turn[t].session, Question(t)) /\ Question(t) # Answer(t) /\ Question(t) \in Exchange
  BY QuestionAnswer DEF Ask, AskTrigger
<1>8. \A x \in Sessions : rows'[x].owner = rows[x].owner
  BY <1>6, <1>7, EntryRows
<1>9. Proceeds(t) /\ TurnPlace(t)'
  <2>1. Proceeds(t)
    BY <1>1, <1>4, <1>5 DEF Proceeds, Unasked, Answered
  <2>2. TurnPlace(t)'
    BY <1>1, <1>2, <1>4, <1>5, <1>6, <1>8, TurnsAssumption DEF TurnPlace, Unasked, Answered, Absent
  <2> QED
    BY <2>1, <2>2
<1>10. LeavesNothing(t)' /\ Answers(t)'
  BY <1>4, <1>5 DEF LeavesNothing, Answers, Answered
<1>11. next.at \in Asking
  BY <1>4 DEF Asking
<1> QED
  BY <1>1, <1>3, <1>4, <1>6, <1>7, <1>9, <1>10, <1>11, EntryStep

LEMMA PersistSound ==
  ASSUME TurnsInv, NEW t \in AllTurns, Persist(t)
  PROVE  TurnsInv'
<1> DEFINE next == [turn[t] EXCEPT !.at = "title"]
           s == turn[t].active
<1>1. /\ TurnPlace(t) /\ turn[t] \in TurnStates /\ turn[t].at = "persist" /\ UNCHANGED <<lane, bound>>
      /\ turn' = [turn EXCEPT ![t] = next]
      /\ rows' = IF Kept(t) THEN Appended(s, Answer(t)) ELSE rows
  BY TurnOf DEF TurnsInv, Persist, Go, At, Target
<1>2. /\ next \in TurnStates /\ next.at = "title" /\ next.session = turn[t].session /\ next.active = s
      /\ next.calls = turn[t].calls /\ next.outcome = turn[t].outcome
  BY <1>1 DEF TurnStates, Steps
<1> HIDE DEF next
<1>3. turn'[t] = next /\ Others(t) /\ LanesHeld'
  BY <1>1, <1>2, SetTurn, LanesKept
<1>4. /\ s \in Sessions /\ ~Absent(s) /\ turn[t].session \in Sessions /\ ~Absent(turn[t].session)
      /\ Answer(t) \in Exchange /\ Answer(t) # Question(t)
  BY <1>1, TurnOf, QuestionAnswer DEF TurnPlace
<1>5. /\ rows' \in [Sessions -> SessionRows]
      /\ \A x \in Sessions \ {s} : History(x)' = History(x)
      /\ \A x \in Sessions : rows'[x].owner = rows[x].owner
  <2>1. CASE Kept(t)
    <3> HIDE DEF s
    <3> QED
      BY <1>1, <1>4, <2>1, EntryRows
  <2>2. CASE ~Kept(t)
    BY <1>1, <2>2 DEF TurnsInv, TurnsTypes, History
  <2> QED
    BY <2>1, <2>2
<1>6. Keeps(t) /\ Proceeds(t) /\ TurnPlace(t)'
  <2>1. Keeps(t)
    BY <1>2, <1>3 DEF Keeps
  <2>2. Proceeds(t)
    BY <1>1, <1>2, <1>3 DEF Proceeds, Unasked, Answered
  <2>3. TurnPlace(t)'
    BY <1>1, <1>2, <1>3, <1>4, <1>5 DEF TurnPlace, Unasked, Answered, Absent
  <2> QED
    BY <2>1, <2>2, <2>3
<1>7. (Kept(t)' <=> Kept(t)) /\ (Moved(t)' <=> Moved(t)) /\ (Shared(t) => Shared(t)')
  BY <1>2, <1>3 DEF Kept, Command, Moved, Shared, Others
<1>8. ASSUME t \in Messages PROVE LeavesNothing(t)'
  <2> SUFFICES ASSUME Moved(t), ~Shared(t)
               PROVE  \A i \in Entries(turn[t].session)' : History(turn[t].session)'[i] # Question(t)
    BY <1>2, <1>3, <1>7 DEF LeavesNothing, Question
  <2>1. \A i \in Entries(turn[t].session) : History(turn[t].session)[i] # Question(t)
    BY <1>1, <1>8 DEF TurnsInv, LeavesNothing
  <2>2. turn[t].session # s
    BY DEF Moved
  <2>3. rows'[turn[t].session].history = rows[turn[t].session].history
    BY <1>4, <1>5, <2>2 DEF History
  <2> QED
    BY <1>2, <1>3, <2>1, <2>3 DEF Entries, History
<1>9. ASSUME Kept(t) PROVE Answers(t)'
  <2>1. rows'[s].history = Append(rows[s].history, Answer(t))
    <3> HIDE DEF s
    <3> QED
      BY <1>1, <1>4, <1>9, EntryRows DEF History
  <2>2. rows[s].history \in Seq(Exchange)
    BY <1>4, EntryOf DEF History
  <2>3. /\ Len(rows[s].history) + 1 \in DOMAIN Append(rows[s].history, Answer(t))
        /\ Append(rows[s].history, Answer(t))[Len(rows[s].history) + 1] = Answer(t)
    BY <1>4, <2>2
  <2> QED
    BY <1>2, <1>3, <2>1, <2>3 DEF Answers, Entries, History, Answer
<1>10. t \in Messages => LeavesNothing(t)' /\ Answers(t)'
  BY <1>7, <1>8, <1>9 DEF Answers
<1>11. CASE Kept(t)
  <2> HIDE DEF s
  <2>1. s = turn[t].active
    BY DEF s
  <2> QED
    BY <1>1, <1>2, <1>4, <1>6, <1>10, <1>11, <2>1, EntryStep
<1>12. CASE ~Kept(t)
  <2>1. rows' = rows
    BY <1>1, <1>12
  <2>2. \A x \in Sessions : SessionSound(x)'
    BY <1>3, <1>6, <2>1, NothingWritten DEF Entries, History
  <2>3. Writes(t) /\ (\A x \in Sessions : ~Absent(x) => ~Absent(x)') /\ BoundThere'
    BY <1>1, <2>1 DEF Writes, Entries, History, Absent, TurnsInv, BoundThere
  <2>4. /\ lane' \in [Conversations -> Messages \union {"free"}]
        /\ bound' \in [Conversations -> Sessions \union {"none"}]
    BY <1>1 DEF TurnsInv, TurnsTypes
  <2> QED
    BY <1>1, <1>2, <1>3, <1>5, <1>6, <1>10, <2>2, <2>3, <2>4, TurnStep
<1> QED
  BY <1>11, <1>12

LEMMA RemovedRows ==
  ASSUME TurnsInv, NEW t \in AllTurns, NEW s \in Sessions, rows' \in {rows, Removed(s, t)}
  PROVE  /\ rows' \in [Sessions -> SessionRows] /\ \A x \in Sessions : rows'[x].owner = rows[x].owner
         /\ \A x \in Sessions \ {s} : History(x)' = History(x)
         /\ Entries(s)' \subseteq Entries(s) /\ \A i \in Entries(s)' : History(s)'[i] = History(s)[i]
         /\ \A i \in Entries(s) : i \in Entries(s)' \/ (i = Len(History(s)) /\ History(s)[i] = Question(t))
         /\ rows' = Removed(s, t) => \A i \in Entries(s)' : i = Len(History(s)) => History(s)[i] # Question(t)
<1> DEFINE h == rows[s].history
<1>1. /\ h \in Seq(Exchange) /\ Entries(s) = 1 .. Len(h) /\ Len(h) \in Nat /\ History(s) = h
  BY EntryOf DEF History
<1>2. rows \in [Sessions -> SessionRows]
  BY DEF TurnsInv, TurnsTypes
<1>3. CASE h # <<>> /\ Last(s) = Question(t) /\ rows' = Removed(s, t)
  <2> DEFINE k == SubSeq(h, 1, Len(h) - 1)
             row == [rows[s] EXCEPT !.history = k]
  <2>1. rows' = [rows EXCEPT ![s] = row]
    BY <1>3 DEF Removed
  <2>2. Len(h) >= 1
    BY <1>1, <1>3
  <2>3. k \in Seq(Exchange) /\ DOMAIN k = 1 .. Len(h) - 1 /\ \A i \in 1 .. Len(h) - 1 : k[i] = h[i]
    <3> HIDE DEF h
    <3>1. Len(h) \in Nat /\ Len(h) - 1 \in Nat /\ h \in Seq(Exchange)
      BY <1>1, <2>2
    <3>2. \A i \in 1 .. Len(h) - 1 : h[i] \in Exchange
      BY <3>1
    <3>3. k = [i \in 1 .. Len(h) - 1 |-> h[i]]
      BY <3>1
    <3>4. k \in Seq(Exchange)
      BY <3>1, <3>2, <3>3
    <3> QED
      BY <3>3, <3>4
  <2>4. rows[s] \in SessionRows
    BY <1>2
  <2>5. row \in SessionRows /\ row.history = k /\ row.owner = rows[s].owner
    <3> HIDE DEF k
    <3> QED
      BY <2>3, <2>4 DEF SessionRows
  <2> HIDE DEF row
  <2>6. /\ rows' \in [Sessions -> SessionRows] /\ rows'[s] = row
        /\ \A x \in Sessions \ {s} : rows'[x] = rows[x]
    BY <1>2, <2>1, <2>5
  <2>7. History(s)' = k /\ Entries(s)' = 1 .. Len(h) - 1
    BY <2>3, <2>5, <2>6 DEF History, Entries
  <2>8. Last(s) = h[Len(h)]
    BY DEF Last
  <2> HIDE DEF h, k
  <2>9. Entries(s)' \subseteq Entries(s) /\ \A i \in Entries(s)' : History(s)'[i] = History(s)[i] /\ i # Len(h)
    BY <1>1, <2>3, <2>7
  <2>10. \A i \in Entries(s) : i \in Entries(s)' \/ i = Len(h)
    BY <1>1, <2>7
  <2> QED
    BY <1>1, <1>3, <2>5, <2>6, <2>8, <2>9, <2>10 DEF History
<1>4. CASE rows' = rows
  <2>1. rows' = Removed(s, t) => h = <<>> \/ Last(s) # Question(t) \/ Len(h) \notin Entries(s)'
    <3>1. ASSUME rows' = Removed(s, t), h # <<>>, Last(s) = Question(t) PROVE Len(h) \notin Entries(s)'
      <4>1. rows' = [rows EXCEPT ![s].history = SubSeq(@, 1, Len(@) - 1)]
        BY <3>1 DEF Removed
      <4>2. rows'[s].history = SubSeq(h, 1, Len(h) - 1)
        BY <1>2, <4>1 DEF SessionRows
      <4>3. DOMAIN SubSeq(h, 1, Len(h) - 1) = 1 .. Len(h) - 1
        <5> HIDE DEF h
        <5> QED
          BY <1>1
      <4>4. Entries(s)' = 1 .. Len(h) - 1
        BY <4>2, <4>3 DEF Entries
      <4> QED
        BY <1>1, <4>4
    <3> QED
      BY <3>1
  <2>2. Entries(s)' = Entries(s) /\ \A x \in Sessions : History(x)' = History(x)
    BY <1>4 DEF Entries, History
  <2>3. Last(s) = h[Len(h)]
    BY DEF Last
  <2>4. h = <<>> => Entries(s) = {}
    BY <1>1
  <2> HIDE DEF h
  <2>5. rows' = Removed(s, t) => \A i \in Entries(s)' : i = Len(h) => h[i] # Question(t)
    BY <2>1, <2>2, <2>3, <2>4
  <2> QED
    BY <1>1, <1>2, <1>4, <2>2, <2>5
<1>5. rows' = Removed(s, t) /\ ~(h # <<>> /\ Last(s) = Question(t)) => rows' = rows
  BY DEF Removed
<1> QED
  BY <1>3, <1>4, <1>5

LEMMA SettleSound ==
  ASSUME TurnsInv, NEW t \in AllTurns, Settle(t)
  PROVE  TurnsInv'
<1>0. TurnPlace(t) /\ turn[t].at = "settle"
  BY DEF TurnsInv, Settle, At
<1> PICK s \in Sessions : s = turn[t].session
  BY <1>0, TurnOf DEF TurnPlace
<1> DEFINE now == IF bound[Of[t]] = "none" THEN s ELSE bound[Of[t]]
           next == [turn[t] EXCEPT !.at = "persist", !.active = now]
<1>1. /\ TurnPlace(t) /\ turn[t] \in TurnStates /\ turn[t].at = "settle" /\ t \in Messages
      /\ UNCHANGED <<lane, bound>> /\ turn' = [turn EXCEPT ![t] = next] /\ Of[t] \in Conversations
  BY TurnOf, TurnsAssumption DEF TurnsInv, Settle, At
<1>2. rows' \in {rows, Removed(s, t)} /\ (now # s => rows' = Removed(s, t))
  BY DEF Settle
<1>3. /\ s \in Sessions /\ s # "none" /\ ~Absent(s) /\ turn[t].active = "none"
      /\ now \in Sessions /\ now # "none" /\ ~Absent(now)
  BY <1>1, TurnOf DEF TurnPlace, TurnsInv, TurnsTypes, BoundThere
<1>4. next \in TurnStates /\ next.at = "persist" /\ next.session = s /\ next.active = now
  <2> HIDE DEF now
  <2> QED
    BY <1>1, <1>3 DEF TurnStates, Steps
<1> HIDE DEF next, now
<1>5. turn'[t] = next /\ Others(t) /\ LanesHeld'
  BY <1>1, <1>4, SetTurn, LanesKept
<1>6. /\ rows' \in [Sessions -> SessionRows] /\ \A x \in Sessions : rows'[x].owner = rows[x].owner
      /\ \A x \in Sessions \ {s} : History(x)' = History(x)
      /\ Entries(s)' \subseteq Entries(s) /\ \A i \in Entries(s)' : History(s)'[i] = History(s)[i]
      /\ \A i \in Entries(s) : i \in Entries(s)' \/ (i = Len(History(s)) /\ History(s)[i] = Question(t))
      /\ rows' = Removed(s, t) => \A i \in Entries(s)' : i = Len(History(s)) => History(s)[i] # Question(t)
  BY <1>2, RemovedRows
<1>7. Keeps(t) /\ Proceeds(t) /\ TurnPlace(t)'
  <2>1. Keeps(t)
    BY <1>3, <1>4, <1>5 DEF Keeps
  <2>2. Proceeds(t)
    BY <1>1, <1>4, <1>5 DEF Proceeds, Unasked, Answered
  <2>3. TurnPlace(t)'
    BY <1>1, <1>3, <1>4, <1>5, <1>6 DEF TurnPlace, Unasked, Answered, Absent
  <2> QED
    BY <2>1, <2>2, <2>3
<1>8. \A x \in Sessions \ {s} : Entries(x)' = Entries(x)
  BY <1>6 DEF Entries, History
<1>9. \A x \in Sessions : SessionSound(x)'
  <2>1. ASSUME NEW x \in Sessions PROVE Entries(x)' \subseteq Entries(x) /\ \A i \in Entries(x)' : History(x)'[i] = History(x)[i]
    BY <1>6, <1>8
  <2> QED
    BY <1>5, <1>7, <2>1, NothingWritten
<1>10. Writes(t)
  BY <1>6, <1>8 DEF Writes
<1>11. LeavesNothing(t)'
  <2> SUFFICES ASSUME now # s, ~Shared(t)', NEW i \in Entries(s)', History(s)'[i] = Question(t)
               PROVE  FALSE
    BY <1>4, <1>5 DEF LeavesNothing, Moved, Question
  <2>1. i \in Entries(s) /\ History(s)[i] = Question(t) /\ i # Len(History(s))
    BY <1>2, <1>6
  <2> DEFINE k == Len(History(s))
  <2>2. k \in Entries(s) /\ i < k /\ History(s)[k] \in Exchange
    BY <1>3, <2>1, EntryOf
  <2>3. SessionSound(s)
    BY <1>3 DEF TurnsInv
  <2> DEFINE u == History(s)[k].turn
  <2>4. Of[u] # Of[t]
    BY <1>1, <2>1, <2>2, <2>3 DEF SessionSound, Followed, Asking
  <2>5. u \in AllTurns \ {t}
    BY <2>2, <2>4 DEF Exchange
  <2>6. s \in {turn[u].session, turn[u].active}
    BY <2>2, <2>3 DEF SessionSound, Written, Exchange
  <2>7. turn'[u] = turn[u] /\ turn'[t].session = s
    BY <1>4, <1>5, <2>5 DEF Others
  <2>8. Shared(t)'
    BY <2>4, <2>5, <2>6, <2>7 DEF Shared
  <2> QED
    BY <2>8
<1>12. Answers(t)'
  BY <1>4, <1>5 DEF Answers, Answered
<1>13. (\A x \in Sessions : ~Absent(x) => ~Absent(x)') /\ BoundThere'
  BY <1>1, <1>6 DEF TurnsInv, TurnsTypes, BoundThere, Absent
<1>14. /\ lane' \in [Conversations -> Messages \union {"free"}]
       /\ bound' \in [Conversations -> Sessions \union {"none"}]
  BY <1>1 DEF TurnsInv, TurnsTypes
<1> QED
  BY <1>1, <1>4, <1>5, <1>6, <1>7, <1>9, <1>10, <1>11, <1>12, <1>13, <1>14, TurnStep

-----------------------------------------------------------------------------

LEMMA TurnsBegin == TurnsInit => TurnsInv
<1> SUFFICES ASSUME TurnsInit PROVE TurnsInv
  OBVIOUS
<1>1. NoRow \in SessionRows /\ NoRow.history = <<>> /\ DOMAIN NoRow.history = {}
  BY DEF NoRow, SessionRows, Owners
<1>2. /\ NewTurn \in TurnStates /\ NewTurn.at = "new" /\ NewTurn.session = "none" /\ NewTurn.active = "none"
  BY DEF NewTurn, TurnStates, Steps
<1>3. TurnsTypes
  BY <1>1, <1>2 DEF TurnsInit, TurnsTypes
<1>4. \A s \in Sessions : Entries(s) = {}
  BY <1>1 DEF TurnsInit, Entries
<1>5. \A s \in Sessions : SessionSound(s)
  BY <1>4 DEF SessionSound, Written, Once, Followed, NotMixed
<1>6. \A t \in AllTurns : turn[t] = NewTurn
  BY DEF TurnsInit
<1>7. \A t \in AllTurns : TurnPlace(t)
  BY <1>2, <1>6 DEF TurnPlace, Answered
<1>8. \A t \in Messages : LeavesNothing(t) /\ Answers(t)
  BY <1>2, <1>6 DEF LeavesNothing, Answers, Answered, AllTurns
<1>9. LanesHeld /\ BoundThere
  BY <1>2, <1>6 DEF TurnsInit, LanesHeld, BoundThere, AllTurns
<1> QED
  BY <1>3, <1>5, <1>7, <1>8, <1>9 DEF TurnsInv

LEMMA TurnsGo == TurnsInv /\ [TurnsNext]_turnsVars => TurnsInv'
<1> SUFFICES ASSUME TurnsInv, [TurnsNext]_turnsVars PROVE TurnsInv'
  OBVIOUS
<1>1. CASE TurnsNext
  <2>1. PICK t \in AllTurns : Begin(t) \/ Work(t) \/ Raise(t)
    BY <1>1 DEF TurnsNext
  <2> QED
    BY <2>1, CallSound, GoSound, CatalogSound, ResolveSound, MoveSound, DeliverSound, AskSound,
       PersistSound, SettleSound
       DEF Begin, Work
<1>2. CASE UNCHANGED turnsVars
  <2>1. UNCHANGED <<lane, bound, rows, turn>>
    BY <1>2 DEF turnsVars
  <2>2. TurnsTypes' /\ LanesHeld' /\ BoundThere' /\ \A t \in AllTurns : TurnPlace(t)'
    BY <2>1 DEF TurnsInv, TurnsTypes, LanesHeld, BoundThere, TurnPlace, Absent
  <2>3. ASSUME NEW s \in Sessions PROVE SessionSound(s)'
    <3>1. SessionSound(s)
      BY DEF TurnsInv
    <3> QED
      BY <2>1, <3>1 DEF SessionSound, Written, Once, Followed, NotMixed, Entries, History, Question, Answer
  <2>4. ASSUME NEW t \in Messages PROVE LeavesNothing(t)' /\ Answers(t)'
    <3>1. LeavesNothing(t) /\ Answers(t)
      BY DEF TurnsInv
    <3> QED
      BY <2>1, <3>1 DEF LeavesNothing, Answers, Moved, Shared, Kept, Command, Entries, History, Question, Answer
  <2> QED
    BY <2>2, <2>3, <2>4 DEF TurnsInv
<1> QED
  BY <1>1, <1>2

LEMMA TurnsAlways == TurnsSpec => []TurnsInv
<1> QED
  BY TurnsBegin, TurnsGo, PTL DEF TurnsSpec

\* The messages of one conversation do not mix in a session
\* (the lane that post_message holds).
THEOREM ConversationsStayApart == TurnsSpec => []ConversationsDoNotMix
<1>1. TurnsInv => ConversationsDoNotMix
  BY DEF TurnsInv, SessionSound, NotMixed, ConversationsDoNotMix, Entries, History
<1> QED
  BY <1>1, TurnsAlways, PTL

\* The exchange of a message that is done is where its user is
\* (_process_inbound_envelope's removal, _finalize_session_turn).
THEOREM ExchangesFollow == TurnsSpec => []ExchangeFollowsUser
<1>1. TurnsInv => ExchangeFollowsUser
  <2> SUFFICES ASSUME TurnsInv, NEW t \in Messages, At(t, "done")
               PROVE  /\ Kept(t) => \E i \in Entries(turn[t].active) : rows[turn[t].active].history[i] = Answer(t)
                      /\ Moved(t) /\ ~Shared(t) =>
                           \A i \in Entries(turn[t].session) : rows[turn[t].session].history[i].turn # t
    BY DEF ExchangeFollowsUser
  <2>1. t \in AllTurns /\ turn[t].at \in Answered /\ TurnPlace(t) /\ LeavesNothing(t) /\ Answers(t)
    BY DEF At, Answered, AllTurns, TurnsInv
  <2>2. turn[t].session \in Sessions
    BY <2>1, TurnOf DEF TurnPlace, Answered
  <2>3. ASSUME Moved(t), ~Shared(t), NEW i \in Entries(turn[t].session), rows[turn[t].session].history[i].turn = t
        PROVE  FALSE
    <3> DEFINE e == History(turn[t].session)[i]
    <3>1. e \in Exchange /\ e.turn = t
      BY <2>2, <2>3, EntryOf DEF History
    <3>2. e # Question(t)
      BY <2>1, <2>3 DEF LeavesNothing
    <3>3. e = Answer(t)
      BY <3>1, <3>2, EntryIs
    <3>4. turn[t].active = turn[t].session
      <4>1. Written(turn[t].session)
        BY <2>2 DEF TurnsInv, SessionSound
      <4>2. e.role = "assistant" /\ e.turn = t
        BY <2>1, <3>3, QuestionAnswer
      <4> QED
        BY <2>3, <4>1, <4>2 DEF Written
    <3> QED
      BY <2>3, <3>4 DEF Moved
  <2> QED
    BY <2>1, <2>3 DEF Answers, History
<1> QED
  BY <1>1, TurnsAlways, PTL
=============================================================================
