-------------------------- MODULE CompactionProofs --------------------------
(* Proofs about background compaction, for any sessions, jobs and number of *)
(* kept turns.                                                              *)
EXTENDS CompactionRequirements, ContextWindow, FiniteSetTheorems, WellFoundedInduction,
        SequenceTheorems, TLAPS

-----------------------------------------------------------------------------
(* Histories, as sequences of numbers.                                      *)

\* A history holds increasing turn numbers up to n.
Increasing(h, n) ==
    \A i \in 1..Len(h) : i <= h[i] /\ h[i] <= n /\ \A k \in 1..Len(h) : k < i => h[k] < h[i]

\* The turns compacted of k past ones.
Past(k) == IF Keep > 0 /\ k > Keep THEN k - Keep ELSE 0

\* Histories are sequences of numbers, with their entries and lengths.
LEMMA Histories ==
    ASSUME NEW h \in Seq(TurnIds)
    PROVE  h \in Seq(Nat)
  <1>1. TurnIds \subseteq Nat
    BY BoundsAreNat DEF TurnIds
  <1> QED
    BY <1>1, SeqMonotonic

\* What is known of the entries and the length of such a sequence.
LEMMA Entries ==
    ASSUME NEW h \in Seq(Nat)
    PROVE  /\ Len(h) \in Nat
           /\ \A i \in 1..Len(h) : h[i] \in Nat
           /\ h # <<>> <=> Len(h) > 0
  <1>1. \A i \in 1..Len(h) : h[i] \in Nat
    BY ElementOfSeq
  <1>2. Len(h) \in Nat
    BY LenProperties
  <1>3. h # <<>> => Len(h) \in Nat \ {0}
    BY EmptySeq
  <1>4. Len(<<>>) = 0
    BY EmptySeq
  <1> QED
    BY <1>1, <1>2, <1>3, <1>4

\* The empty history is one.
LEMMA EmptyHistory ==
    ASSUME NEW n
    PROVE  /\ <<>> \in Seq(TurnIds)
           /\ Increasing(<<>>, n)
  BY EmptySeq DEF Increasing

\* A history is no longer than the number of turns there have been.
LEMMA LengthBounded ==
    ASSUME NEW h \in Seq(Nat), NEW n \in Nat, Increasing(h, n)
    PROVE  Len(h) <= n
  <1>1. CASE Len(h) = 0
    BY <1>1
  <1>2. CASE Len(h) # 0
    <2>1. Len(h) \in Nat /\ Len(h) \in 1..Len(h) /\ h[Len(h)] \in Nat
      BY <1>2, Entries
    <2>2. Len(h) <= h[Len(h)] /\ h[Len(h)] <= n
      BY <2>1 DEF Increasing
    <2> QED
      BY <2>1, <2>2
  <1> QED
    BY <1>1, <1>2

\* The turn after all others may be appended.
LEMMA AppendIncreases ==
    ASSUME NEW h \in Seq(TurnIds), NEW n \in Nat, n < MaxTurns, Increasing(h, n)
    PROVE  /\ Append(h, n + 1) \in Seq(TurnIds)
           /\ Increasing(Append(h, n + 1), n + 1)
           /\ Len(Append(h, n + 1)) = Len(h) + 1
           /\ \A i \in 1..Len(h) : Append(h, n + 1)[i] = h[i]
  <1> DEFINE g == Append(h, n + 1)
  <1>1. n + 1 \in TurnIds
    BY BoundsAreNat DEF TurnIds
  <1>2. h \in Seq(Nat) /\ Len(h) \in Nat /\ Len(h) <= n
    BY Histories, Entries, LengthBounded
  <1>3. \A i \in 1..Len(h) : h[i] \in Nat /\ i <= h[i] /\ h[i] <= n
    BY <1>2, Entries DEF Increasing
  <1>4. g \in Seq(TurnIds) /\ Len(g) = Len(h) + 1
    BY <1>1
  <1>5. g[Len(h) + 1] = n + 1 /\ \A i \in 1..Len(h) : g[i] = h[i]
    BY <1>2
  <1> HIDE DEF g
  <1>6. ASSUME NEW i \in 1..Len(g)
        PROVE  i <= g[i] /\ g[i] <= n + 1 /\ \A k \in 1..Len(g) : k < i => g[k] < g[i]
    <2>1. CASE i \in 1..Len(h)
      <3>1. g[i] = h[i] /\ h[i] \in Nat /\ i <= h[i] /\ h[i] <= n
        BY <1>3, <1>5, <2>1
      <3>2. ASSUME NEW k \in 1..Len(g), k < i PROVE g[k] < g[i]
        <4>1. k \in 1..Len(h) /\ g[k] = h[k]
          BY <1>2, <1>4, <1>5, <2>1, <3>2
        <4> QED
          BY <2>1, <3>1, <3>2, <4>1 DEF Increasing
      <3> QED
        BY <3>1, <3>2
    <2>2. CASE i = Len(h) + 1
      <3>1. \A k \in 1..Len(g) : k < i => k \in 1..Len(h) /\ g[k] = h[k]
        BY <1>2, <1>4, <1>5, <2>2
      <3> QED
        BY <1>2, <1>3, <1>5, <2>2, <3>1
    <2> QED
      BY <1>2, <1>4, <2>1, <2>2
  <1>7. Increasing(g, n + 1)
    BY <1>6 DEF Increasing
  <1> QED
    BY <1>4, <1>5, <1>7 DEF g

\* Taking out the last turn leaves the others where they are.
LEMMA WithoutLastKeeps ==
    ASSUME NEW S, NEW h \in Seq(S), h # <<>>
    PROVE  /\ WithoutLast(h) \in Seq(S)
           /\ Len(WithoutLast(h)) = Len(h) - 1
           /\ \A i \in 1..(Len(h) - 1) : WithoutLast(h)[i] = h[i]
  <1>1. Len(h) \in Nat \ {0}
    BY EmptySeq
  <1>2. \A i \in 1..(Len(h) - 1) : h[i] \in S
    BY <1>1, ElementOfSeq
  <1>3. 1 \in Int /\ Len(h) - 1 \in Int
    BY <1>1
  <1>4. /\ SubSeq(h, 1, Len(h) - 1) \in Seq(S)
        /\ Len(SubSeq(h, 1, Len(h) - 1)) = IF 1 <= Len(h) - 1 THEN Len(h) - 1 - 1 + 1 ELSE 0
        /\ \A i \in 1..(Len(h) - 1 - 1 + 1) : SubSeq(h, 1, Len(h) - 1)[i] = h[1 + i - 1]
    BY <1>2, <1>3, SubSeqProperties
  <1> QED
    <2> DEFINE g == SubSeq(h, 1, Len(h) - 1)
               n == Len(h) - 1
    <2>1. n \in Nat
      BY <1>1
    <2>2. Len(g) = (IF 1 <= n THEN n - 1 + 1 ELSE 0) /\ \A i \in 1..(n - 1 + 1) : g[i] = h[1 + i - 1]
      BY <1>4
    <2> HIDE DEF g, n
    <2>3. Len(g) = n /\ \A i \in 1..n : g[i] = h[i]
      BY <2>1, <2>2
    <2> QED
      BY <1>4, <2>3 DEF WithoutLast, g, n

\* The turns left are still in order.
LEMMA WithoutLastIncreases ==
    ASSUME NEW h \in Seq(Nat), h # <<>>, NEW n \in Nat, Increasing(h, n)
    PROVE  Increasing(WithoutLast(h), n)
  <1> DEFINE g == WithoutLast(h)
  <1>1. \A i \in 1..Len(g) : i \in 1..Len(h) /\ g[i] = h[i]
    BY Entries, WithoutLastKeeps
  <1> HIDE DEF g
  <1>2. Increasing(g, n)
    BY <1>1 DEF Increasing
  <1> QED
    BY <1>2 DEF g

\* A history is summarised up to its length at most.
LEMMA PrefixBounded ==
    ASSUME NEW h \in Seq(Nat), NEW m
    PROVE  PrefixEnd(h, m) \in Nat /\ PrefixEnd(h, m) <= Len(h)
  <1>1. CASE h # <<>> /\ Last(h) = m
    BY <1>1, Entries, WithoutLastKeeps, KeepIsNat DEF PrefixEnd
  <1>2. CASE ~(h # <<>> /\ Last(h) = m)
    BY <1>2, Entries, KeepIsNat DEF PrefixEnd
  <1> QED
    BY <1>1, <1>2

\* k past turns that end with another message than the current one are
\* compacted as far as Keep allows.
LEMMA PrefixCovers ==
    ASSUME NEW h \in Seq(Nat), NEW m, NEW k \in Nat, k <= Len(h),
           (k = Len(h) /\ h # <<>>) => Last(h) # m
    PROVE  Past(k) <= PrefixEnd(h, m)
  <1>1. CASE h # <<>> /\ Last(h) = m
    <2>1. k <= Len(h) - 1 /\ Len(WithoutLast(h)) = Len(h) - 1 /\ Len(h) \in Nat
      BY <1>1, Entries, WithoutLastKeeps
    <2> QED
      BY <1>1, <2>1, KeepIsNat DEF PrefixEnd, Past
  <1>2. CASE ~(h # <<>> /\ Last(h) = m)
    BY <1>2, Entries, KeepIsNat DEF PrefixEnd, Past
  <1> QED
    BY <1>1, <1>2

\* What a turn compacts of what it has read.
LEMMA PrefixOfTurn ==
    ASSUME NEW h \in Seq(Nat), h # <<>>
    PROVE  PrefixEnd(h, Last(h)) = Past(Len(h) - 1)
  BY WithoutLastKeeps DEF PrefixEnd, Past

\* More past turns, more of them compacted.
LEMMA PastGrows ==
    ASSUME NEW k \in Nat, NEW l \in Nat, k <= l
    PROVE  Past(k) \in Nat /\ Past(k) <= Past(l)
  BY KeepIsNat DEF Past

-----------------------------------------------------------------------------
(* Sessions and turns.                                                      *)

\* Histories are in order, and a turn at work in a session has read it as it
\* is.
Turns ==
    \A s \in Sessions :
        /\ Increasing(hist[s], arrived)
        /\ Increasing(view[s], arrived)
        /\ turn[s] # "none" => view[s] # <<>> /\ (s \in live => view[s] = hist[s])

\* The snapshot of a job is a prefix of its session's history.
LEMMA SnapshotIsPrefix ==
    ASSUME hist[source[job]] \in Seq(Nat), snap[job] \in Nat
    PROVE  /\ Snapshot \in Seq(Nat)
           /\ Len(Snapshot) = IF snap[job] < Len(hist[source[job]]) THEN snap[job]
                              ELSE Len(hist[source[job]])
           /\ \A i \in 1..Len(Snapshot) : Snapshot[i] = hist[source[job]][i]
  <1> DEFINE h == hist[source[job]]
             n == snap[job]
  <1>1. h \in Seq(Nat) /\ n \in Nat /\ Len(h) \in Nat
    BY Entries
  <1>2. CASE n < Len(h)
    <2>1. \A i \in 1..n : h[i] \in Nat
      BY <1>1, <1>2, Entries
    <2>2. 1 \in Int /\ n \in Int
      BY <1>1
    <2> HIDE DEF h, n
    <2>3. /\ SubSeq(h, 1, n) \in Seq(Nat)
          /\ Len(SubSeq(h, 1, n)) = IF 1 <= n THEN n - 1 + 1 ELSE 0
          /\ \A i \in 1..(n - 1 + 1) : SubSeq(h, 1, n)[i] = h[1 + i - 1]
      BY <2>1, <2>2, SubSeqProperties
    <2>4. /\ Len(SubSeq(h, 1, n)) = n
          /\ \A i \in 1..n : SubSeq(h, 1, n)[i] = h[i]
      BY <1>1, <2>3
    <2> QED
      BY <1>2, <2>3, <2>4 DEF Snapshot, h, n
  <1>3. CASE ~(n < Len(h))
    BY <1>1, <1>3 DEF Snapshot
  <1> QED
    BY <1>2, <1>3

\* At the start the types are right and there are no turns.
LEMMA BasicsInit == Init => TypeOK /\ Turns
  <1> SUFFICES ASSUME Init PROVE TypeOK /\ Turns
    OBVIOUS
  <1>1. (CHOOSE s \in Sessions : TRUE) \in Sessions
    BY SomeSession
  <1>2. <<>> \in Seq(TurnIds) /\ Increasing(<<>>, arrived)
    BY EmptyHistory
  <1>3. TypeOK
    <2>1. 0 \in 0..MaxTurns /\ 0 \in 0..MaxRestarts
      BY BoundsAreNat
    <2> QED
      BY <1>1, <1>2, <2>1 DEF Init, TypeOK
  <1>4. Turns
    BY <1>2 DEF Init, Turns
  <1> QED
    BY <1>3, <1>4

\* No step breaks the types or the order of the turns.
LEMMA BasicsStep == TypeOK /\ Turns /\ [Next]_vars => TypeOK' /\ Turns'
  <1> SUFFICES ASSUME TypeOK, Turns, [Next]_vars PROVE TypeOK' /\ Turns'
    OBVIOUS
  <1>0. arrived \in Nat /\ MaxTurns \in Nat /\ MaxRestarts \in Nat
    BY BoundsAreNat DEF TypeOK
  <1>h. \A s \in Sessions : hist[s] \in Seq(Nat) /\ view[s] \in Seq(Nat)
    BY Histories DEF TypeOK
  <1>1. ASSUME NEW s \in Sessions, BeginTurn(s) PROVE TypeOK' /\ Turns'
    <2>1. /\ hist[s] \in Seq(TurnIds)
          /\ Increasing(hist[s], arrived)
          /\ arrived < MaxTurns
      BY <1>1 DEF BeginTurn, TypeOK, Turns
    <2> DEFINE h == Append(hist[s], arrived + 1)
    <2>2. h \in Seq(TurnIds) /\ Increasing(h, arrived + 1) /\ Len(h) = Len(hist[s]) + 1
      BY <1>0, <2>1, AppendIncreases
    <2>7. h # <<>>
      <3>1. Len(h) # 0
        BY <1>h, <2>2, Entries
      <3> QED
        BY <3>1, EmptySeq
    <2>3. hist' = [hist EXCEPT ![s] = h] /\ view' = [view EXCEPT ![s] = h]
      BY <1>1 DEF BeginTurn, TypeOK
    <2> HIDE DEF h
    <2>4. TypeOK'
      <3>1. /\ s \in live /\ arrived' = arrived + 1
            /\ viewCtx' = [viewCtx EXCEPT ![s] = ctx[s]] /\ turn' = [turn EXCEPT ![s] = "running"]
            /\ UNCHANGED <<live, ctx, status, jobVars, workerVars, restarts>>
        BY <1>1 DEF BeginTurn
      <3>2. arrived' \in 0..MaxTurns
        BY <1>0, <2>1, <3>1
      <3>3. ctx[s] \in 0..MaxTurns
        BY DEF TypeOK
      <3> QED
        BY <2>2, <2>3, <3>1, <3>2, <3>3 DEF TypeOK, jobVars, workerVars
    <2>5. \A g \in Seq(Nat) : Increasing(g, arrived) => Increasing(g, arrived + 1)
      BY <1>0, Entries DEF Increasing
    <2>6. Turns'
      BY <1>0, <1>h, <1>1, <2>2, <2>3, <2>5, <2>7 DEF BeginTurn, TypeOK, Turns
    <2> QED
      BY <2>4, <2>6
  <1>2. ASSUME NEW s \in Sessions, TurnCompacts(s) PROVE TypeOK' /\ Turns'
    <2> DEFINE end == PrefixEnd(view[s], Last(view[s]))
    <2>1. end \in Nat /\ end <= Len(view[s])
      BY <1>h, PrefixBounded
    <2>2. Len(view[s]) <= arrived /\ arrived <= MaxTurns
      BY <1>0, <1>h, LengthBounded DEF TypeOK, Turns
    <2>3. end \in 0..MaxTurns
      BY <1>0, <1>h, <2>1, <2>2, Entries
    <2>4. /\ ctx' = [ctx EXCEPT ![s] = end] /\ viewCtx' = [viewCtx EXCEPT ![s] = end]
          /\ s \in live
          /\ UNCHANGED <<live, hist, turn, view, arrived, status, jobVars, workerVars, restarts>>
      BY <1>2 DEF TurnCompacts
    <2> HIDE DEF end
    <2>5. TypeOK'
      BY <2>3, <2>4 DEF TypeOK, jobVars, workerVars
    <2>6. Turns'
      BY <2>4 DEF Turns
    <2> QED
      BY <2>5, <2>6
  <1>3. ASSUME NEW s \in Sessions, Switch(s) PROVE TypeOK' /\ Turns'
    <2>1. PICK t \in {"leaving", "switched"} : turn' = [turn EXCEPT ![s] = t]
      BY <1>3 DEF Switch
    <2>2. /\ turn[s] = "running" /\ s \in live
          /\ view' = [view EXCEPT ![s] = hist[s]]
          /\ UNCHANGED <<sessionVars, viewCtx, arrived, status, jobVars, workerVars, restarts>>
      BY <1>3 DEF Switch
    <2>3. TypeOK'
      <3>1. /\ turn' \in [Sessions -> {"none", "running", "leaving", "switched"}]
            /\ view' \in [Sessions -> Seq(TurnIds)]
        BY <2>1, <2>2 DEF TypeOK
      <3> QED
        BY <2>2, <3>1 DEF TypeOK, sessionVars, jobVars, workerVars
    <2>4. Turns'
      <3>1. view'[s] = hist[s] /\ \A r \in Sessions : r # s => view'[r] = view[r] /\ turn'[r] = turn[r]
        BY <2>1, <2>2 DEF TypeOK
      <3>2. hist[s] # <<>>
        BY <2>2 DEF Turns
      <3> QED
        BY <2>1, <2>2, <3>1, <3>2 DEF Turns, sessionVars
    <2> QED
      BY <2>3, <2>4
  <1>4. ASSUME NEW s \in Sessions, NEW j \in Jobs, Enqueue(s, j) PROVE TypeOK' /\ Turns'
    <2>1. view[s] \in Seq(TurnIds) /\ view[s] # <<>> /\ Increasing(view[s], arrived)
      BY <1>4 DEF Enqueue, TypeOK, Turns
    <2>2. Len(view[s]) \in 0..MaxTurns /\ Last(view[s]) \in 0..MaxTurns
      <3>1. Len(view[s]) \in Nat /\ Len(view[s]) > 0 /\ Len(view[s]) <= arrived
        BY <1>0, <1>h, <2>1, Entries, LengthBounded
      <3>2. Len(view[s]) \in 1..Len(view[s])
        BY <3>1
      <3>3. Last(view[s]) \in TurnIds
        BY <2>1, <3>2, ElementOfSeq DEF Last
      <3>4. arrived <= MaxTurns
        BY <1>0 DEF TypeOK
      <3> QED
        BY <1>0, <3>1, <3>3, <3>4 DEF TurnIds
    <2> DEFINE end == PrefixEnd(view[s], Last(view[s]))
    <2>3. end \in 0..MaxTurns
      BY <1>0, <1>h, <2>2, PrefixBounded
    <2>4. /\ status' = [status EXCEPT ![j] = "queued"]
          /\ source' = [source EXCEPT ![j] = s]
          /\ snap' = [snap EXCEPT ![j] = Len(view[s])]
          /\ current' = [current EXCEPT ![j] = Last(view[s])]
          /\ planned' = [planned EXCEPT ![j] = end]
          /\ turn' = [turn EXCEPT ![s] = "switched"]
          /\ turn[s] = "leaving"
          /\ UNCHANGED <<sessionVars, view, viewCtx, arrived, workerVars, restarts>>
      BY <1>4 DEF Enqueue
    <2> HIDE DEF end
    <2>5. TypeOK'
      BY <2>2, <2>3, <2>4 DEF TypeOK, sessionVars, workerVars
    <2>6. Turns'
      BY <2>4 DEF Turns, sessionVars, TypeOK
    <2> QED
      BY <2>5, <2>6
  <1>5. ASSUME NEW s \in Sessions, EndTurn(s) PROVE TypeOK' /\ Turns'
    <2>1. TypeOK'
      BY <1>5 DEF EndTurn, TypeOK, sessionVars, jobVars, workerVars
    <2>2. Turns'
      BY <1>5 DEF EndTurn, TypeOK, Turns, sessionVars
    <2> QED
      BY <2>1, <2>2
  <1>6. ASSUME NEW s \in Sessions, Withdraw(s) PROVE TypeOK' /\ Turns'
    <2>1. hist[s] \in Seq(TurnIds) /\ hist[s] # <<>> /\ Increasing(hist[s], arrived)
      BY <1>6 DEF Withdraw, TypeOK, Turns
    <2>2. PICK h \in Seq(TurnIds) : hist' = [hist EXCEPT ![s] = h] /\ Increasing(h, arrived)
      BY <1>0, <1>h, <1>6, <2>1, WithoutLastKeeps, WithoutLastIncreases DEF Withdraw
    <2> QED
      <3>1. /\ s \in live /\ turn' = [turn EXCEPT ![s] = "none"]
            /\ UNCHANGED <<live, ctx, view, viewCtx, arrived, status, jobVars, workerVars, restarts>>
        BY <1>6 DEF Withdraw
      <3>2. TypeOK'
        BY <2>2, <3>1 DEF TypeOK, jobVars, workerVars
      <3>3. Turns'
        BY <2>2, <3>1 DEF TypeOK, Turns
      <3> QED
        BY <3>2, <3>3
  <1>7. ASSUME NEW s \in Sessions, Delete(s) PROVE TypeOK' /\ Turns'
    <2>1. <<>> \in Seq(TurnIds) /\ Increasing(<<>>, arrived)
      BY EmptyHistory
    <2>2. status' \in [Jobs -> {"absent", "queued", "running", "succeeded", "failed", "deleted"}]
      BY <1>7 DEF Delete, TypeOK
    <2>3. TypeOK'
      <3>1. /\ hist' \in [Sessions -> Seq(TurnIds)] /\ ctx' \in [Sessions -> 0..MaxTurns]
            /\ live' \subseteq Sessions
        BY <1>0, <1>7, <2>1 DEF Delete, TypeOK
      <3>2. \A r \in Sessions \ live' : hist'[r] = <<>> /\ ctx'[r] = 0
        BY <1>7 DEF Delete, TypeOK
      <3>3. UNCHANGED <<turnVars, jobVars, workerVars, restarts>>
        BY <1>7 DEF Delete
      <3> QED
        BY <2>2, <3>1, <3>2, <3>3 DEF TypeOK, turnVars, jobVars, workerVars
    <2>4. Turns'
      BY <1>7, <2>1 DEF Delete, TypeOK, Turns, turnVars
    <2> QED
      BY <2>3, <2>4
  <1>8. CASE Worker
    <2> USE DEF TypeOK, sessionVars, turnVars, jobVars
    <2>0. ASSUME UNCHANGED <<live, hist, turnVars>> PROVE Turns'
      BY <2>0 DEF Turns
    <2>1. CASE Claim
      BY <2>0, <2>1 DEF Claim, Queued
    <2>2. CASE Take
      BY <2>0, <2>2 DEF Take
    <2>3. CASE Dies
      BY <2>0, <2>3 DEF Dies
    <2>4. CASE Load
      <3>1. job \in Jobs /\ source[job] \in Sessions
        BY <2>4 DEF Load
      <3>2. Snapshot \in Seq(Nat) /\ Len(Snapshot) <= Len(hist[source[job]])
        BY <1>h, <3>1, Entries, SnapshotIsPrefix
      <3>3. PrefixEnd(Snapshot, current[job]) \in 0..MaxTurns
        <4>1. Len(hist[source[job]]) <= arrived /\ arrived <= MaxTurns
          BY <1>0, <1>h, <3>1, LengthBounded DEF Turns
        <4> QED
          BY <1>0, <1>h, <3>1, <3>2, <4>1, Entries, PrefixBounded
      <3> QED
        BY <2>0, <2>4, <3>3 DEF Load
    <2>5. CASE Generate
      BY <2>0, <2>5 DEF Generate
    <2>6. CASE Compare
      BY <2>0, <2>6 DEF Compare
    <2>7. CASE Update
      BY <2>0, <2>7 DEF Update
    <2>8. CASE Mark
      BY <1>0, <2>0, <2>8 DEF Mark
    <2> QED
      BY <1>8, <2>1, <2>2, <2>3, <2>4, <2>5, <2>6, <2>7, <2>8 DEF Worker
  <1>9. CASE Restart
    <2>1. TypeOK'
      BY <1>0, <1>9 DEF Restart, TypeOK, sessionVars, jobVars
    <2>2. Turns'
      BY <1>9 DEF Restart, Turns, sessionVars
    <2> QED
      BY <2>1, <2>2
  <1>10. CASE UNCHANGED vars
    BY <1>10 DEF vars, sessionVars, turnVars, jobVars, workerVars, TypeOK, Turns
  <1> QED
    BY <1>1, <1>2, <1>3, <1>4, <1>5, <1>6, <1>7, <1>8, <1>9, <1>10 DEF Next

-----------------------------------------------------------------------------
(* The queue.                                                               *)

\* Jobs are queued in the order of their numbers.
InOrder == \A j \in Jobs : status[j] # "absent" => \A i \in Jobs : i < j => status[i] # "absent"

\* What the worker knows of the job it has claimed: that nothing but a
\* deletion takes it away, and that it is the oldest.
Claimed ==
    /\ at = "claimed" =>
        /\ status[job] \in {"queued", "deleted"}
        /\ status[job] = "queued" => \A i \in Jobs : i < job => status[i] # "queued"
    /\ at \in {"taken", "ask", "compare", "update", "mark", "fail"} =>
        status[job] \in {"running", "deleted"}

QueueInv == InOrder /\ Claimed /\ RunningIsWorkedOn

\* At the start there is no job.
LEMMA QueueInvInit == Init => QueueInv
  BY DEF Init, QueueInv, InOrder, Claimed, RunningIsWorkedOn

\* No step breaks what the worker knows.
LEMMA QueueInvStep == TypeOK /\ QueueInv /\ [Next]_vars => QueueInv'
  <1> SUFFICES ASSUME TypeOK, QueueInv, [Next]_vars PROVE QueueInv'
    OBVIOUS
  <1> USE DEF QueueInv, InOrder, Claimed, RunningIsWorkedOn
  <1>0. /\ status \in [Jobs -> {"absent", "queued", "running", "succeeded", "failed", "deleted"}]
        /\ at \in {"idle", "claimed", "taken", "ask", "compare", "update", "mark", "fail", "dead"}
        /\ at # "idle" => job \in Jobs
    BY DEF TypeOK
  <1>n. Jobs \subseteq Nat
    BY JobsAreCounted DEF Jobs
  <1>1. ASSUME UNCHANGED <<status, workerVars>> PROVE QueueInv'
    BY <1>1 DEF workerVars
  <1>2. ASSUME NEW s \in Sessions, NEW j \in Jobs, Enqueue(s, j) PROVE QueueInv'
    <2>1. /\ status[j] = "absent" /\ \A i \in Jobs : i < j => status[i] # "absent"
          /\ status' = [status EXCEPT ![j] = "queued"]
          /\ UNCHANGED <<at, job>>
      BY <1>2 DEF Enqueue, workerVars
    <2>2. \A i \in Jobs : status[i] # "absent" => i < j
      BY <1>0, <1>n, <2>1
    <2> QED
      BY <1>0, <1>n, <2>1, <2>2
  <1>3. ASSUME NEW s \in Sessions, Delete(s) PROVE QueueInv'
    <2>1. /\ \A j \in Jobs : (status'[j] = "deleted" /\ status[j] # "absent") \/ status'[j] = status[j]
          /\ UNCHANGED <<at, job>>
      BY <1>0, <1>3 DEF Delete, workerVars
    <2> QED
      BY <1>0, <2>1
  <1>4. CASE Worker
    <2>1. CASE Claim
      BY <1>0, <1>n, <2>1 DEF Claim, Queued
    <2>2. CASE Take
      BY <1>0, <2>2 DEF Take
    <2>3. CASE Dies
      BY <1>0, <2>3 DEF Dies
    <2>4. CASE Load
      BY <1>0, <2>4 DEF Load
    <2>5. CASE Generate
      BY <1>0, <2>5 DEF Generate
    <2>6. CASE Compare
      BY <1>0, <2>6 DEF Compare
    <2>7. CASE Update
      BY <1>0, <2>7 DEF Update
    <2>8. CASE Mark
      BY <1>0, <2>8 DEF Mark
    <2> QED
      BY <1>4, <2>1, <2>2, <2>3, <2>4, <2>5, <2>6, <2>7, <2>8 DEF Worker
  <1>5. CASE Restart
    BY <1>0, <1>5 DEF Restart
  <1>6. ASSUME NEW s \in Sessions,
               BeginTurn(s) \/ TurnCompacts(s) \/ Switch(s) \/ EndTurn(s) \/ Withdraw(s)
        PROVE  QueueInv'
    BY <1>1, <1>6 DEF BeginTurn, TurnCompacts, Switch, EndTurn, Withdraw
  <1>7. CASE UNCHANGED vars
    BY <1>1, <1>7 DEF vars
  <1> QED
    BY <1>2, <1>3, <1>4, <1>5, <1>6, <1>7 DEF Next

Inv == TypeOK /\ Turns /\ QueueInv

\* Sessions, histories, jobs and the worker keep their types.
THEOREM CompactionTypes == Spec => []TypeOK
  <1>1. TypeOK /\ Turns /\ [Next]_vars => (TypeOK /\ Turns)'
    BY BasicsStep
  <1> QED
    BY BasicsInit, <1>1, PTL DEF Spec

\* Three invariants in one.
LEMMA Invariant == Spec => []Inv
  <1>1. Init => Inv
    BY BasicsInit, QueueInvInit DEF Inv
  <1>2. Inv /\ [Next]_vars => Inv'
    BY BasicsStep, QueueInvStep DEF Inv
  <1> QED
    BY <1>1, <1>2, PTL DEF Spec

\* However turns, deletions and restarts fall, a job that is running is the
\* one the worker is at (compaction_worker.py, the reset on start included).
THEOREM NoneLeftRunning == Spec => []RunningIsWorkedOn
  <1>1. Inv => RunningIsWorkedOn
    BY DEF Inv, QueueInv
  <1> QED
    BY <1>1, Invariant, PTL

\* Each step is one of the queue, or none.
LEMMA QueueStep == Inv /\ [Next]_vars => [Queue!QueueNext]_status
  <1> SUFFICES ASSUME Inv, [Next]_vars, status' # status PROVE Queue!QueueNext
    OBVIOUS
  <1> USE DEF Queue!Jobs, Jobs
  <1>0. /\ status \in [Jobs -> {"absent", "queued", "running", "succeeded", "failed", "deleted"}]
        /\ at # "idle" => job \in Jobs
    BY DEF TypeOK, Inv
  <1>1. ASSUME NEW s \in Sessions, NEW j \in Jobs, Enqueue(s, j) PROVE Queue!QueueNext
    <2>1. Queue!Put(j)
      BY <1>1 DEF Enqueue, Queue!Put
    <2> QED
      BY <2>1 DEF Queue!QueueNext
  <1>2. ASSUME NEW s \in Sessions, Delete(s) PROVE Queue!QueueNext
    <2> DEFINE d == {j \in Jobs : status[j] # "absent" /\ source[j] = s}
    <2>1. d \in SUBSET Jobs /\ Queue!Remove(d)
      BY <1>0, <1>2 DEF Delete, Queue!Remove
    <2> QED
      BY <2>1 DEF Queue!QueueNext
  <1>3. CASE Take
    <2>1. /\ job \in Jobs /\ status[job] = "queued" /\ at = "claimed"
          /\ \A i \in Jobs : i < job => status[i] # "queued"
          /\ \A i \in Jobs : status[i] # "running"
      BY <1>0, <1>3 DEF Take, Inv, QueueInv, Claimed, RunningIsWorkedOn
    <2>2. Queue!Take(job)
      BY <1>3, <2>1 DEF Take, Queue!Take
    <2> QED
      BY <2>1, <2>2 DEF Queue!QueueNext
  <1>4. CASE Mark
    <2>1. job \in Jobs /\ status[job] = "running"
      BY <1>0, <1>4 DEF Mark, Inv, QueueInv, Claimed
    <2>2. Queue!End(job)
      BY <1>4, <2>1 DEF Mark, Queue!End, Queue!Ended
    <2> QED
      BY <2>1, <2>2 DEF Queue!QueueNext
  <1>5. CASE Restart
    <2>1. Queue!Requeue
      BY <1>5 DEF Restart, Queue!Requeue
    <2> QED
      BY <2>1 DEF Queue!QueueNext
  <1>6. ~(Claim \/ Dies \/ Load \/ Generate \/ Compare \/ Update)
    BY DEF Claim, Dies, Load, Generate, Compare, Update
  <1>7. \A s \in Sessions :
            ~(BeginTurn(s) \/ TurnCompacts(s) \/ Switch(s) \/ EndTurn(s) \/ Withdraw(s))
    BY DEF BeginTurn, TurnCompacts, Switch, EndTurn, Withdraw
  <1> QED
    BY <1>1, <1>2, <1>3, <1>4, <1>5, <1>6, <1>7 DEF Next, Worker, vars

\* The table of jobs is the queue of module JobQueue: jobs are taken in the
\* order they were put, one at a time, and end once (sqlite_store.py).
THEOREM JobsAreAQueue == Spec => ImplementsJobQueue
  <1>1. Init => Queue!QueueInit
    BY DEF Init, Queue!QueueInit, Queue!Jobs, Jobs
  <1> QED
    BY <1>1, QueueStep, Invariant, PTL DEF Spec, ImplementsJobQueue, Queue!QueueSpec

-----------------------------------------------------------------------------
(* What has been compacted.                                                 *)

\* The snapshot of job j ends with its current message or with a later turn:
\* all past turns of the time it was queued are there, and stay.
Kept(j) ==
    LET h == hist[source[j]]
        n == snap[j]
    IN  /\ n \in Nat \ {0}
        /\ planned[j] <= Past(n - 1)
        /\ n - 1 <= Len(h)
        /\ turn[source[j]] # "none" => n <= Len(h)
        /\ \A i \in 1..(n - 1) : h[i] # current[j]

JobsKept == \A j \in Jobs : status[j] # "absent" /\ source[j] \in live => Kept(j)

\* The worker's summary is at least what its job was to compact, and at the
\* time it is written at least what any job that is done was.
Work ==
    /\ at \in {"ask", "compare", "update", "mark"} =>
        source[job] \in live \/ status[job] = "deleted"
    /\ at \in {"ask", "compare", "update"} /\ source[job] \in live => range >= planned[job]
    /\ at = "update" /\ source[job] \in live =>
        \A k \in Jobs : status[k] = "succeeded" /\ source[k] = source[job] => range >= planned[k]
    /\ at = "mark" /\ source[job] \in live => ctx[source[job]] >= planned[job]

Done ==
    \A j \in Jobs : status[j] = "succeeded" =>
        source[j] \in live /\ ctx[source[j]] >= planned[j]

\* A job is queued with what its turn has read.
LEMMA KeptWhenQueued ==
    ASSUME Inv, NEW s \in Sessions, NEW j \in Jobs, Enqueue(s, j), s \in live
    PROVE  Kept(j)'
  <1>1. /\ turn[s] = "leaving" /\ view[s] # <<>> /\ view[s] = hist[s]
        /\ view[s] \in Seq(TurnIds) /\ Increasing(view[s], arrived)
    BY DEF Enqueue, Inv, Turns, TypeOK
  <1>2. view[s] \in Seq(Nat) /\ Len(view[s]) \in Nat \ {0}
    BY <1>1, Histories, EmptySeq
  <1>3. /\ source'[j] = s /\ snap'[j] = Len(view[s]) /\ current'[j] = Last(view[s])
        /\ planned'[j] = PrefixEnd(view[s], Last(view[s])) /\ hist' = hist
    BY DEF Enqueue, Inv, TypeOK, sessionVars
  <1>4. planned'[j] = Past(snap'[j] - 1) /\ planned'[j] \in Nat
    BY <1>1, <1>2, <1>3, PrefixOfTurn, PrefixBounded
  <1>5. \A i \in 1..(Len(view[s]) - 1) : view[s][i] < view[s][Len(view[s])]
    BY <1>1, <1>2 DEF Increasing
  <1>6. \A i \in 1..Len(view[s]) : view[s][i] \in Nat
    BY <1>2, Entries
  <1>7. \A i \in 1..(snap'[j] - 1) : hist'[s][i] # current'[j]
    BY <1>1, <1>2, <1>3, <1>5, <1>6 DEF Last
  <1> QED
    BY <1>1, <1>2, <1>3, <1>4, <1>7 DEF Kept, Past

\* What a turn compacts covers every job of its session.
LEMMA TurnCovers ==
    ASSUME Inv, JobsKept, NEW s \in live, turn[s] # "none",
           NEW j \in Jobs, status[j] # "absent", source[j] = s
    PROVE  planned[j] <= PrefixEnd(view[s], Last(view[s]))
  <1>1. s \in Sessions /\ view[s] # <<>> /\ view[s] = hist[s] /\ hist[s] \in Seq(Nat)
    BY Histories DEF Inv, Turns, TypeOK
  <1>2. Len(hist[s]) \in Nat \ {0} /\ planned[j] \in Nat
    BY <1>1, EmptySeq, BoundsAreNat DEF Inv, TypeOK
  <1>3. snap[j] \in Nat \ {0} /\ planned[j] <= Past(snap[j] - 1) /\ snap[j] <= Len(hist[s])
    BY <1>1 DEF JobsKept, Kept
  <1>4. Past(snap[j] - 1) \in Nat /\ Past(snap[j] - 1) <= Past(Len(hist[s]) - 1)
    <2>1. /\ snap[j] - 1 \in Nat /\ Len(hist[s]) - 1 \in Nat
          /\ snap[j] - 1 <= Len(hist[s]) - 1
      BY <1>2, <1>3
    <2> QED
      BY <2>1, PastGrows
  <1>5. Past(Len(hist[s]) - 1) \in Nat
    BY <1>2, PastGrows
  <1>6. PrefixEnd(view[s], Last(view[s])) = Past(Len(hist[s]) - 1)
    BY <1>1, PrefixOfTurn
  <1>7. planned[j] <= Past(Len(hist[s]) - 1)
    BY <1>2, <1>3, <1>4, <1>5
  <1> QED
    BY <1>6, <1>7

\* What the worker is to summarise covers its job.
LEMMA WorkerCovers ==
    ASSUME Inv, JobsKept, job \in Jobs, status[job] # "absent", source[job] \in live
    PROVE  planned[job] <= PrefixEnd(Snapshot, current[job])
  <1> DEFINE h == hist[source[job]]
             n == snap[job]
             m == Snapshot
  <1>1. source[job] \in Sessions /\ h \in Seq(Nat) /\ Len(h) \in Nat /\ planned[job] \in Nat
    BY Histories, Entries, BoundsAreNat DEF Inv, TypeOK
  <1>2. /\ n \in Nat \ {0} /\ planned[job] <= Past(n - 1) /\ n - 1 <= Len(h)
        /\ \A i \in 1..(n - 1) : h[i] # current[job]
    BY DEF JobsKept, Kept
  <1>3. /\ m \in Seq(Nat)
        /\ Len(m) = IF n < Len(h) THEN n ELSE Len(h)
        /\ \A i \in 1..Len(m) : m[i] = h[i]
    BY <1>1, <1>2, SnapshotIsPrefix
  <1> HIDE DEF h, n, m
  <1>4. n - 1 \in Nat /\ n - 1 <= Len(m)
    BY <1>1, <1>2, <1>3
  <1>5. (n - 1 = Len(m) /\ m # <<>>) => Last(m) # current[job]
    <2> SUFFICES ASSUME n - 1 = Len(m), m # <<>> PROVE Last(m) # current[job]
      OBVIOUS
    <2>1. Len(m) \in 1..Len(m)
      BY <1>3, EmptySeq
    <2>2. m[Len(m)] = h[Len(m)] /\ h[Len(m)] # current[job]
      BY <1>2, <1>3, <2>1
    <2> QED
      BY <2>2 DEF Last
  <1>6. Past(n - 1) <= PrefixEnd(m, current[job])
    BY <1>3, <1>4, <1>5, PrefixCovers
  <1>7. Past(n - 1) \in Nat
    <2>1. n - 1 <= n - 1
      BY <1>4
    <2> QED
      BY <1>4, <2>1, PastGrows
  <1>8. PrefixEnd(m, current[job]) \in Nat
    BY <1>3, PrefixBounded, Zenon
  <1> QED
    BY <1>1, <1>2, <1>6, <1>7, <1>8 DEF m

\* No step takes from a session what a job of it has counted on.
LEMMA JobsKeptStep == Inv /\ JobsKept /\ [Next]_vars => JobsKept'
  <1> SUFFICES ASSUME Inv, JobsKept, [Next]_vars, NEW j \in Jobs,
                      status'[j] # "absent", source'[j] \in live'
               PROVE  Kept(j)'
    BY DEF JobsKept
  <1>h. \A s \in Sessions : hist[s] \in Seq(Nat) /\ hist[s] \in Seq(TurnIds) /\ Len(hist[s]) \in Nat
    BY Histories, Entries DEF Inv, TypeOK
  <1>t. /\ \A i \in Jobs : source[i] \in Sessions /\ snap[i] \in 0..MaxTurns
        /\ hist \in [Sessions -> Seq(TurnIds)]
    BY DEF Inv, TypeOK
  <1>0. ASSUME status[j] # "absent", source[j] \in live, UNCHANGED <<hist, jobVars>>,
               turn'[source[j]] # "none" => turn[source[j]] # "none"
        PROVE  Kept(j)'
    BY <1>0 DEF JobsKept, Kept, jobVars
  <1>1. ASSUME NEW s \in Sessions, BeginTurn(s) PROVE Kept(j)'
    <2>1. /\ UNCHANGED <<live, status, jobVars>> /\ arrived < MaxTurns /\ arrived \in Nat
          /\ Increasing(hist[s], arrived)
          /\ hist' = [hist EXCEPT ![s] = Append(@, arrived + 1)]
          /\ turn' = [turn EXCEPT ![s] = "running"]
      BY <1>1, BoundsAreNat DEF BeginTurn, Inv, Turns, TypeOK
    <2> DEFINE h == Append(hist[s], arrived + 1)
    <2>2. Len(h) = Len(hist[s]) + 1 /\ \A i \in 1..Len(hist[s]) : h[i] = hist[s][i]
      BY <1>h, <2>1, AppendIncreases
    <2>3. hist'[s] = h /\ \A r \in Sessions : r # s => hist'[r] = hist[r] /\ turn'[r] = turn[r]
      BY <1>t, <2>1 DEF Inv, TypeOK
    <2> HIDE DEF h
    <2>4. Kept(j) /\ UNCHANGED jobVars
      BY <2>1 DEF JobsKept, jobVars
    <2>5. CASE source[j] = s
      BY <1>h, <1>t, <2>2, <2>3, <2>4, <2>5 DEF Kept, jobVars
    <2>6. CASE source[j] # s
      BY <1>t, <2>3, <2>4, <2>6 DEF Kept, jobVars
    <2> QED
      BY <2>5, <2>6
  <1>2. ASSUME NEW s \in Sessions, NEW i \in Jobs, Enqueue(s, i) PROVE Kept(j)'
    <2>1. CASE i = j
      <3>1. s \in live
        BY <1>2, <2>1 DEF Enqueue, sessionVars, Inv, TypeOK
      <3> QED
        BY <1>2, <2>1, <3>1, KeptWhenQueued
    <2>2. CASE i # j
      <3>1. /\ status[j] # "absent" /\ source[j] \in live
            /\ source'[j] = source[j] /\ snap'[j] = snap[j] /\ current'[j] = current[j]
            /\ planned'[j] = planned[j] /\ hist' = hist
            /\ turn'[source[j]] # "none" => turn[source[j]] # "none"
        BY <1>2, <1>t, <2>2 DEF Enqueue, sessionVars, Inv, TypeOK
      <3> QED
        BY <3>1 DEF JobsKept, Kept
    <2> QED
      BY <2>1, <2>2
  <1>3. ASSUME NEW s \in Sessions, Withdraw(s) PROVE Kept(j)'
    <2>1. /\ UNCHANGED <<live, status, jobVars>> /\ s \in live
          /\ turn[s] = "switched" /\ hist[s] # <<>>
          /\ turn' = [turn EXCEPT ![s] = "none"]
      BY <1>3 DEF Withdraw, Inv, Turns, TypeOK
    <2>2. PICK h \in Seq(TurnIds) :
            /\ hist' = [hist EXCEPT ![s] = h]
            /\ h = hist[s] \/ h = WithoutLast(hist[s])
      BY <1>3, <1>h, <2>1, WithoutLastKeeps DEF Withdraw
    <2>3. Len(h) \in Nat /\ Len(h) >= Len(hist[s]) - 1 /\ \A i \in 1..(Len(hist[s]) - 1) : h[i] = hist[s][i]
      <3>1. hist[s] \in Seq(TurnIds) /\ hist[s] # <<>> /\ Len(hist[s]) \in Nat /\ Len(h) \in Nat
        BY <1>h, <2>1, <2>2
      <3>2. CASE h = hist[s]
        BY <3>1, <3>2
      <3>3. CASE h = WithoutLast(hist[s])
        BY <3>1, <3>3, WithoutLastKeeps
      <3> QED
        BY <2>2, <3>2, <3>3
    <2>4. Kept(j) /\ UNCHANGED jobVars /\ turn'[s] = "none" /\ hist'[s] = h
      BY <1>t, <2>1, <2>2 DEF JobsKept, jobVars, Inv, TypeOK
    <2>5. CASE source[j] = s
      <3>1. snap[j] \in Nat \ {0} /\ snap[j] <= Len(hist[s])
        BY <2>1, <2>4, <2>5 DEF Kept
      <3>2. /\ planned[j] <= Past(snap[j] - 1)
            /\ \A i \in 1..(snap[j] - 1) : hist[s][i] # current[j]
        BY <2>4, <2>5 DEF Kept
      <3>3. snap[j] - 1 <= Len(h) /\ \A i \in 1..(snap[j] - 1) : h[i] = hist[s][i]
        BY <1>h, <2>3, <3>1
      <3> QED
        BY <2>4, <2>5, <3>1, <3>2, <3>3 DEF Kept, jobVars
    <2>6. CASE source[j] # s
      <3>1. hist'[source[j]] = hist[source[j]] /\ turn'[source[j]] = turn[source[j]]
        BY <1>t, <2>1, <2>2, <2>6 DEF Inv, TypeOK
      <3> QED
        BY <2>4, <3>1 DEF Kept, jobVars
    <2> QED
      BY <2>5, <2>6
  <1>4. ASSUME NEW s \in Sessions, Delete(s) PROVE Kept(j)'
    <2>1. /\ live' = live \ {s} /\ source' = source
          /\ hist' = [hist EXCEPT ![s] = <<>>] /\ UNCHANGED <<turnVars, jobVars>>
          /\ status' = [k \in Jobs |-> IF status[k] # "absent" /\ source[k] = s
                                       THEN "deleted" ELSE status[k]]
      BY <1>4 DEF Delete, jobVars
    <2>2. source[j] # s /\ source[j] \in live /\ status[j] # "absent"
      BY <2>1
    <2>3. hist'[source[j]] = hist[source[j]] /\ turn' = turn
      BY <1>t, <2>1, <2>2 DEF turnVars
    <2>4. Kept(j)
      BY <2>2 DEF JobsKept
    <2> QED
      BY <2>1, <2>3, <2>4 DEF Kept, jobVars
  <1>5. CASE Worker
    <2>1. UNCHANGED <<live, hist, turn, jobVars>>
      BY <1>5 DEF Worker, Claim, Take, Dies, Load, Generate, Compare, Update, Mark,
                  sessionVars, turnVars
    <2>2. status[j] # "absent"
      <3>1. CASE Take
        BY <3>1 DEF Take, Inv, TypeOK
      <3>2. CASE Mark
        <4>1. job \in Jobs => status[job] # "absent"
          BY <3>2 DEF Mark, Inv, QueueInv, Claimed
        <4> QED
          BY <3>2, <4>1 DEF Mark, Inv, TypeOK
      <3>3. CASE UNCHANGED status
        BY <3>3
      <3> QED
        BY <1>5, <3>1, <3>2, <3>3 DEF Worker, Claim, Dies, Load, Generate, Compare, Update
    <2> QED
      BY <1>0, <2>1, <2>2 DEF jobVars
  <1>6. CASE Restart
    <2>1. /\ UNCHANGED <<live, hist, jobVars>> /\ (turn'[source[j]] = "none" \/ source[j] \notin Sessions)
          /\ status[j] # "absent"
      BY <1>6, <1>t DEF Restart, sessionVars, Inv, TypeOK
    <2> QED
      BY <1>0, <1>t, <2>1 DEF jobVars
  <1>7. ASSUME NEW s \in Sessions, TurnCompacts(s) \/ Switch(s) \/ EndTurn(s) PROVE Kept(j)'
    <2>1. /\ UNCHANGED <<live, hist, status, jobVars>>
          /\ \A r \in Sessions : turn'[r] # "none" => turn[r] # "none"
      BY <1>7 DEF TurnCompacts, Switch, EndTurn, sessionVars, Inv, TypeOK
    <2> QED
      BY <1>0, <1>t, <2>1 DEF jobVars
  <1>8. CASE UNCHANGED vars
    BY <1>0, <1>8 DEF vars, sessionVars, turnVars, jobVars
  <1> QED
    BY <1>1, <1>2, <1>3, <1>4, <1>5, <1>6, <1>7, <1>8 DEF Next

DoneInv == JobsKept /\ Work /\ Done

\* At the start nothing has been queued or done.
LEMMA DoneInvInit == Init => DoneInv
  BY DEF Init, DoneInv, JobsKept, Work, Done

\* No step undoes what is done, neither the worker's nor a turn's.
LEMMA DoneStep == Inv /\ DoneInv /\ [Next]_vars => Work' /\ Done'
  <1> SUFFICES ASSUME Inv, JobsKept, Work, Done, [Next]_vars PROVE Work' /\ Done'
    BY DEF DoneInv
  <1>t. /\ status \in [Jobs -> {"absent", "queued", "running", "succeeded", "failed", "deleted"}]
        /\ at \in {"idle", "claimed", "taken", "ask", "compare", "update", "mark", "fail", "dead"}
        /\ at # "idle" => job \in Jobs
        /\ live \subseteq Sessions /\ source \in [Jobs -> Sessions]
        /\ ctx \in [Sessions -> 0..MaxTurns] /\ planned \in [Jobs -> 0..MaxTurns]
        /\ range \in 0..MaxTurns
    BY DEF Inv, TypeOK
  <1>n. /\ \A s \in Sessions : ctx[s] \in Nat
        /\ \A j \in Jobs : planned[j] \in Nat
        /\ range \in Nat
    BY <1>t, BoundsAreNat
  <1>w. at \in {"ask", "compare", "update", "mark"} => status[job] \in {"running", "deleted"}
    BY DEF Inv, QueueInv, Claimed
  <1>0. ASSUME UNCHANGED <<live, ctx, status, jobVars, workerVars>> PROVE Work' /\ Done'
    BY <1>0 DEF Work, Done, jobVars, workerVars
  <1>1. ASSUME NEW s \in Sessions, TurnCompacts(s) PROVE Work' /\ Done'
    <2> DEFINE end == PrefixEnd(view[s], Last(view[s]))
    <2>1. s \in live /\ turn[s] # "none" /\ ctx' = [ctx EXCEPT ![s] = end]
          /\ UNCHANGED <<live, status, source, planned, at, job, range>>
      BY <1>1 DEF TurnCompacts, jobVars, workerVars
    <2>2. \A j \in Jobs : status[j] # "absent" /\ source[j] = s => planned[j] <= end
      BY <2>1, TurnCovers
    <2> HIDE DEF end
    <2>4. end \in Nat
      BY PrefixBounded, Histories DEF end, Inv, TypeOK
    <2>5. Done'
      BY <1>t, <1>n, <2>1, <2>2, <2>4 DEF Done
    <2>6. Work'
      BY <1>t, <1>n, <1>w, <2>1, <2>2, <2>4 DEF Work
    <2> QED
      BY <2>5, <2>6
  <1>2. ASSUME NEW s \in Sessions, NEW j \in Jobs, Enqueue(s, j) PROVE Work' /\ Done'
    <2>1. /\ status[j] = "absent" /\ status' = [status EXCEPT ![j] = "queued"]
          /\ source' = [source EXCEPT ![j] = s]
          /\ \E p : planned' = [planned EXCEPT ![j] = p]
          /\ UNCHANGED <<live, ctx, at, job, range>>
      BY <1>2 DEF Enqueue, sessionVars, workerVars
    <2>2. at \in {"ask", "compare", "update", "mark"} => job # j
      BY <1>w, <2>1
    <2>3. \A k \in Jobs : k # j => status'[k] = status[k] /\ source'[k] = source[k]
                                   /\ planned'[k] = planned[k]
      BY <1>t, <2>1
    <2>4. status'[j] = "queued"
      BY <1>t, <2>1
    <2>5. Done'
      BY <2>1, <2>3, <2>4 DEF Done
    <2>6. Work'
      BY <1>t, <2>1, <2>2, <2>3, <2>4 DEF Work
    <2> QED
      BY <2>5, <2>6
  <1>3. ASSUME NEW s \in Sessions, Delete(s) PROVE Work' /\ Done'
    <2>1. /\ live' = live \ {s} /\ ctx' = [ctx EXCEPT ![s] = 0]
          /\ status' = [k \in Jobs |-> IF status[k] # "absent" /\ source[k] = s
                                       THEN "deleted" ELSE status[k]]
          /\ UNCHANGED <<source, planned, at, job, range>>
      BY <1>3 DEF Delete, jobVars, workerVars
    <2>2. \A r \in live' : r \in live /\ r # s /\ ctx'[r] = ctx[r]
      BY <1>t, <2>1
    <2>3. \A k \in Jobs : status'[k] \notin {"deleted", "absent"} =>
                status'[k] = status[k] /\ source[k] # s
      BY <2>1
    <2>4. Done'
      <3>1. \A k \in Jobs : status'[k] = "succeeded" => source[k] \in live' /\ status[k] = "succeeded"
        BY <2>1, <2>3 DEF Done
      <3> QED
        BY <2>1, <2>2, <3>1 DEF Done
    <2>5. Work'
      <3>1. at \in {"ask", "compare", "update", "mark"} /\ source[job] \notin live' =>
                status'[job] = "deleted"
        BY <1>t, <1>w, <2>1 DEF Work
      <3> QED
        BY <1>t, <2>1, <2>2, <2>3, <3>1 DEF Work
    <2> QED
      BY <2>4, <2>5
  <1>4. CASE Worker
    <2> USE DEF sessionVars, jobVars
    <2>1. CASE Claim \/ Dies \/ Take
      <3>1. /\ UNCHANGED <<live, ctx, source, planned, range>>
            /\ at' \in {"claimed", "taken", "dead"}
            /\ \A k \in Jobs : status'[k] = "succeeded" => status[k] = "succeeded"
        BY <1>t, <2>1 DEF Claim, Dies, Take
      <3> QED
        BY <3>1 DEF Work, Done
    <2>2. CASE Load
      <3>1. job \in Jobs /\ status[job] # "absent"
        BY <1>t, <2>2 DEF Load
      <3>2. source[job] \in live => planned[job] <= PrefixEnd(Snapshot, current[job])
        BY <3>1, WorkerCovers
      <3>3. /\ UNCHANGED <<live, ctx, status, source, planned, job>>
            /\ at' \in {"fail", "ask"}
            /\ at' = "ask" => source[job] \in live /\ range' = PrefixEnd(Snapshot, current[job])
        BY <2>2 DEF Load
      <3>4. at' = "ask" => range' >= planned[job]
        BY <3>2, <3>3
      <3> QED
        BY <3>3, <3>4 DEF Work, Done
    <2>3. CASE Generate
      BY <2>3 DEF Generate, Work, Done
    <2>4. CASE Compare
      <3>1. /\ UNCHANGED <<live, ctx, status, source, planned, job, range>>
            /\ source[job] \in live /\ at = "compare" /\ range >= planned[job]
            /\ \/ range >= ctx[source[job]] /\ at' = "update"
               \/ range <= ctx[source[job]] /\ at' = "mark"
        BY <2>4 DEF Compare, Work
      <3>2. job \in Jobs /\ source[job] \in Sessions
        BY <1>t, <3>1
      <3>3. CASE at' = "update"
        <4>1. \A k \in Jobs : status[k] = "succeeded" /\ source[k] = source[job] => range >= planned[k]
          BY <1>n, <3>1, <3>2, <3>3 DEF Done
        <4> QED
          BY <3>1, <3>3, <4>1 DEF Work, Done
      <3>4. CASE at' = "mark"
        <4>1. ctx[source[job]] >= planned[job]
          BY <1>n, <3>1, <3>2, <3>4
        <4> QED
          BY <3>1, <3>4, <4>1 DEF Work, Done
      <3> QED
        BY <3>1, <3>3, <3>4
    <2>5. CASE Update
      <3>1. /\ UNCHANGED <<live, status, source, planned, job, range>>
            /\ at = "update" /\ at' = "mark"
            /\ ctx' = IF source[job] \in live THEN [ctx EXCEPT ![source[job]] = range] ELSE ctx
        BY <2>5 DEF Update
      <3>2. source[job] \in live => ctx'[source[job]] = range /\ range >= planned[job]
        BY <1>t, <3>1 DEF Work
      <3>3. \A k \in Jobs : status[k] = "succeeded" => ctx'[source[k]] >= planned[k]
        BY <1>t, <3>1 DEF Work, Done
      <3> QED
        BY <3>1, <3>2, <3>3 DEF Work, Done
    <2>6. CASE Mark
      <3>1. /\ UNCHANGED <<live, ctx, source, planned>> /\ at' = "idle"
            /\ job \in Jobs /\ status[job] # "deleted"
            /\ status' = [status EXCEPT ![job] = IF at = "mark" THEN "succeeded" ELSE "failed"]
        BY <1>t, <2>6 DEF Mark
      <3>2. at = "mark" => source[job] \in live /\ ctx[source[job]] >= planned[job]
        BY <3>1 DEF Work
      <3> QED
        BY <1>t, <3>1, <3>2 DEF Work, Done
    <2> QED
      BY <1>4, <2>1, <2>2, <2>3, <2>4, <2>5, <2>6 DEF Worker
  <1>5. CASE Restart
    <2>1. /\ UNCHANGED <<live, ctx, source, planned>> /\ at' = "idle"
          /\ \A k \in Jobs : status'[k] = "succeeded" => status[k] = "succeeded"
      BY <1>5 DEF Restart, sessionVars, jobVars
    <2> QED
      BY <2>1 DEF Work, Done
  <1>6. ASSUME NEW s \in Sessions, BeginTurn(s) \/ Switch(s) \/ EndTurn(s) \/ Withdraw(s)
        PROVE  Work' /\ Done'
    BY <1>0, <1>6 DEF BeginTurn, Switch, EndTurn, Withdraw, sessionVars
  <1>7. CASE UNCHANGED vars
    BY <1>0, <1>7 DEF vars, sessionVars
  <1> QED
    BY <1>1, <1>2, <1>3, <1>4, <1>5, <1>6, <1>7 DEF Next

\* What a job that is done was to compact stays compacted: neither a summary
\* of an older job nor one a turn makes on its own puts less in its place
\* (set_compacted_context_if_newer and set_compacted_context).
THEOREM DoneStaysCompacted == Spec => []DoneIsCompacted
  <1>1. Init => DoneInv
    BY DoneInvInit
  <1>2. Inv /\ DoneInv /\ [Next]_vars => DoneInv'
    BY JobsKeptStep, DoneStep DEF DoneInv
  <1>3. DoneInv => DoneIsCompacted
    BY DEF DoneInv, Done, DoneIsCompacted
  <1> QED
    BY <1>1, <1>2, <1>3, Invariant, PTL DEF Spec

-----------------------------------------------------------------------------
(* What a model is shown: sets of positions.                                *)

Said == {"user", "assistant"}
Message == [role : {"created", "user", "assistant", "note"}, id : Nat, text : Texts \cup {""}]
Contexts ==
    [end : Nat, tail : Nat, kind : {"none", "pressure", "history", "carryover"},
     covers : SUBSET Message]

\* A set of numbers has a least one.
LEMMA LeastPosition ==
    ASSUME NEW S \in SUBSET Nat, S # {}
    PROVE  \E m \in S : \A x \in S : m <= x
  <1>1. IsWellFoundedOn(OpToRel(<, Nat), Nat)
    BY NatLessThanWellFounded
  <1>2. \E m \in S : \A x \in S : ~ (<<x, m>> \in OpToRel(<, Nat))
    BY <1>1, WFMin, Zenon
  <1>3. \A x, m \in Nat : x < m => <<x, m>> \in OpToRel(<, Nat)
    BY DEF OpToRel
  <1>4. PICK m \in S : \A x \in S : ~ (<<x, m>> \in OpToRel(<, Nat))
    BY <1>2
  <1>5. \A x \in S : x \in Nat /\ m \in Nat /\ ~ (x < m)
    BY <1>3, <1>4
  <1>6. \A x \in S : m <= x
    BY <1>5
  <1> QED
    BY <1>4, <1>6

\* A set of positions has a greatest one.
LEMMA GreatestPosition ==
    ASSUME NEW n \in Nat, NEW S \in SUBSET (1..n), S # {}
    PROVE  \E m \in S : \A x \in S : x <= m
  <1> DEFINE T == {n - x : x \in S}
  <1>1. T \in SUBSET Nat /\ T # {}
    <2>1. \A x \in S : x \in 1..n /\ n - x \in Nat
      OBVIOUS
    <2> QED
      BY <2>1
  <1>2. PICK t \in T : \A y \in T : t <= y
    BY <1>1, LeastPosition
  <1>3. PICK m \in S : t = n - m
    OBVIOUS
  <1>4. \A x \in S : n - x \in T /\ t <= n - x
    BY <1>2
  <1> QED
    BY <1>3, <1>4

LEMMA LatestIs ==
    ASSUME NEW n \in Nat, NEW I \in SUBSET (1..n), I # {}
    PROVE  Latest(I) \in I /\ \A j \in I : j <= Latest(I)
  <1>1. \E m \in I : \A x \in I : x <= m
    BY GreatestPosition
  <1> QED
    BY <1>1 DEF Latest

\* The positions after one.
LEMMA OfIs ==
    ASSUME NEW S, NEW h \in Seq(S), NEW e \in Nat, NEW R
    PROVE  Of(h, R, e) = {i \in 1..Len(h) : e < i /\ h[i].role \in R}
  <1>1. Len(h) \in Nat
    BY LenProperties
  <1> QED
    BY <1>1 DEF Of

\* Only the last position is taken out.
LEMMA WithoutCurrentIs ==
    ASSUME NEW n \in Nat, NEW I \in SUBSET (1..n), NEW h, NEW text
    PROVE  /\ WithoutCurrent(I, h, text) \subseteq I
           /\ \A i, j \in I : i < j => i \in WithoutCurrent(I, h, text)
  <1>1. CASE I = {}
    BY <1>1 DEF WithoutCurrent
  <1>2. CASE I # {}
    <2>1. Latest(I) \in I /\ \A j \in I : j <= Latest(I)
      BY <1>2, LatestIs
    <2>2. \A i, j \in I : i < j => i # Latest(I)
      BY <2>1
    <2> QED
      BY <1>2, <2>2 DEF WithoutCurrent
  <1> QED
    BY <1>1, <1>2

\* What is replayed after a cut is what is replayed of it all, after the cut.
LEMMA ReplayCut ==
    ASSUME NEW S, NEW h \in Seq(S), NEW e \in Nat, NEW text
    PROVE  Replayable(h, e, text) = {i \in Replayable(h, 0, text) : e < i}
  <1> DEFINE R == {"user", "assistant", "note"}
             A == Of(h, R, 0)
             B == Of(h, R, e)
  <1>1. Len(h) \in Nat
    BY LenProperties
  <1>2. A = {i \in 1..Len(h) : 0 < i /\ h[i].role \in R} /\ B = {i \in 1..Len(h) : e < i /\ h[i].role \in R}
    BY OfIs
  <1>3. A \in SUBSET (1..Len(h)) /\ B \in SUBSET (1..Len(h)) /\ B = {i \in A : e < i}
    BY <1>1, <1>2
  <1>4. Replayable(h, e, text) = WithoutCurrent(B, h, text) /\ Replayable(h, 0, text) = WithoutCurrent(A, h, text)
    BY DEF Replayable
  <1> HIDE DEF A, B, R
  <1>5. CASE B = {}
    <2>1. WithoutCurrent(B, h, text) = {} /\ WithoutCurrent(A, h, text) \subseteq A
      BY <1>1, <1>3, <1>5, WithoutCurrentIs
    <2> QED
      BY <1>3, <1>4, <1>5, <2>1
  <1>6. CASE B # {}
    <2>1. Latest(A) \in A /\ \A j \in A : j <= Latest(A)
      BY <1>1, <1>3, <1>6, LatestIs
    <2>2. Latest(B) \in B /\ \A j \in B : j <= Latest(B)
      BY <1>1, <1>3, <1>6, LatestIs
    <2>3. Latest(A) \in B
      <3>1. Latest(B) \in A /\ e < Latest(B)
        BY <1>3, <2>2
      <3>2. Latest(B) <= Latest(A) /\ Latest(A) \in 1..Len(h) /\ Latest(B) \in 1..Len(h)
        BY <1>3, <2>1, <3>1
      <3>3. e < Latest(A)
        BY <1>1, <3>1, <3>2
      <3> QED
        BY <1>3, <2>1, <3>3
    <2>4. Latest(A) = Latest(B)
      BY <1>1, <1>3, <2>1, <2>2, <2>3
    <2> QED
      BY <1>3, <1>4, <1>6, <2>1, <2>4 DEF WithoutCurrent
  <1> QED
    BY <1>5, <1>6

\* The last turns after a cut hold what is in the last turns of it all and has a
\* question before it after the cut.
LEMMA LastTurnsAbove ==
    ASSUME NEW n \in Nat, NEW A \in SUBSET (1..n), NEW h, NEW e \in Nat,
           NEW k \in Nat, NEW K \in Nat, k <= K,
           NEW i \in LastTurns(A, h, k), NEW j \in Asked(A, h), e < j, j <= i
    PROVE  i \in LastTurns({a \in A : e < a}, h, K)
  <1> DEFINE B == {a \in A : e < a}
  <1>1. PICK u \in Asked(A, h) : u <= i /\ Cardinality({v \in Asked(A, h) : v >= u}) <= k
    BY DEF LastTurns
  <1>2. Asked(A, h) \subseteq A /\ i \in A
    BY DEF Asked, LastTurns
  <1>0. \A a \in A : a \in Nat
    OBVIOUS
  <1>3. PICK w \in Asked(A, h) : w >= u /\ w <= i /\ e < w
    <2>0. u \in Nat /\ i \in Nat /\ j \in Nat /\ e \in Nat /\ u <= i
      BY <1>0, <1>1, <1>2
    <2>1. CASE e < u
      BY <2>0, <2>1
    <2>2. CASE ~ (e < u)
      BY <2>0, <2>2
    <2> QED
      BY <2>1, <2>2
  <1>4. w \in Asked(B, h)
    BY <1>3 DEF Asked
  <1> DEFINE U == {v \in Asked(A, h) : v >= u}
             W == {v \in Asked(B, h) : v >= w}
  <1>5. W \subseteq U
    <2>1. \A v \in Asked(B, h) : v \in Asked(A, h) /\ v \in Nat /\ w \in Nat /\ u \in Nat
      BY <1>0, <1>2 DEF Asked
    <2>2. \A v \in Asked(B, h) : v >= w => v >= u
      BY <1>3, <2>1
    <2> QED
      BY <2>1, <2>2
  <1>6. IsFiniteSet(1..n)
    BY FS_Interval
  <1>7. U \subseteq 1..n
    BY <1>2
  <1>8. IsFiniteSet(U)
    BY <1>6, <1>7, FS_Subset
  <1>9. Cardinality(W) <= Cardinality(U) /\ Cardinality(W) \in Nat /\ Cardinality(U) \in Nat
    BY <1>5, <1>8, FS_Subset, FS_CardinalityType
  <1>10. Cardinality(W) <= K
    BY <1>1, <1>9
  <1>11. i \in B
    <2>1. i \in Nat /\ w \in Nat
      BY <1>0, <1>2
    <2> QED
      BY <1>2, <1>3, <2>1
  <1> QED
    BY <1>3, <1>4, <1>10, <1>11 DEF LastTurns

-----------------------------------------------------------------------------
(* Histories and cuts.                                                      *)

Spoken(h) == {i \in 1..Len(h) : h[i].role \in Said}

\* What was said is numbered by its turns, a question begins one.
Chronicle(h, n) ==
    /\ \A i \in Spoken(h) : h[i].id <= n
    /\ \A i, j \in Spoken(h) : i < j =>
          h[i].id <= h[j].id /\ (h[j].role = "user" => h[i].id < h[j].id)

\* A checkpoint stands for what was said up to its end, in turns that are over;
\* what was said since belongs to later ones.
Cut(h, c, n) ==
    /\ c.end <= Len(h)
    /\ c.covers = {h[i] : i \in {j \in Spoken(h) : j <= c.end}}
    /\ \A i \in Spoken(h) : i <= c.end => h[i].id < n
    /\ \A i, j \in Spoken(h) : i <= c.end /\ c.end < j => h[i].id < h[j].id

Extends(g, h) == Len(g) <= Len(h) /\ \A i \in 1..Len(g) : h[i] = g[i]

LEMMA SpokenIs ==
    ASSUME NEW h \in Seq(Message)
    PROVE  /\ Of(h, {"user", "assistant"}, 0) = Spoken(h)
           /\ Spoken(h) \in SUBSET (1..Len(h))
           /\ Len(h) \in Nat
           /\ \A i \in 1..Len(h) : i \in Nat /\ h[i] \in Message /\ h[i].id \in Nat
  <1>1. Len(h) \in Nat
    BY LenProperties
  <1>2. \A i \in 1..Len(h) : h[i] \in Message
    BY ElementOfSeq
  <1>3. Of(h, {"user", "assistant"}, 0) = {i \in 1..Len(h) : 0 < i /\ h[i].role \in {"user", "assistant"}}
    BY OfIs
  <1>4. Of(h, {"user", "assistant"}, 0) = Spoken(h)
    BY <1>1, <1>3 DEF Spoken, Said
  <1>5. \A m \in Message : m.id \in Nat
    BY DEF Message
  <1>6. Spoken(h) \in SUBSET (1..Len(h)) /\ \A i \in 1..Len(h) : i \in Nat
    BY <1>1 DEF Spoken
  <1> QED
    BY <1>1, <1>2, <1>4, <1>5, <1>6

LEMMA ExtendedSpoken ==
    ASSUME NEW g \in Seq(Message), NEW h \in Seq(Message), Extends(g, h)
    PROVE  /\ Spoken(g) = {i \in Spoken(h) : i <= Len(g)}
           /\ \A i \in Spoken(g) : h[i] = g[i]
  <1>1. Len(g) \in Nat /\ Len(h) \in Nat /\ Len(g) <= Len(h)
    BY SpokenIs DEF Extends
  <1>2. \A i \in 1..Len(g) : h[i] = g[i] /\ i \in 1..Len(h) /\ i <= Len(g)
    BY <1>1 DEF Extends
  <1>3. \A i \in 1..Len(h) : i <= Len(g) => i \in 1..Len(g)
    BY <1>1
  <1> QED
    BY <1>2, <1>3 DEF Spoken

\* Of a conversation with more questions than are to be kept, the last turns
\* begin with a question, and the prefix is what was said before it.
LEMMA TailBeginsWithQuestion ==
    ASSUME NEW g \in Seq(Message), NEW text, NEW k \in Nat \ {0}, Prefix(g, text, k) # {}
    PROVE  \E m \in Spoken(g) :
              /\ g[m].role = "user"
              /\ Prefix(g, text, k) = {i \in Spoken(g) : i < m}
              /\ PrefixEndIndex(g, text, k) = m - 1
  <1> DEFINE said == Talk(g, text)
             asked == Asked(said, g)
             L == LastTurns(said, g, k)
             n == Len(g)
  <1>1. n \in Nat /\ Spoken(g) \in SUBSET (1..n) /\ said = WithoutCurrent(Spoken(g), g, text)
    BY SpokenIs DEF Talk
  <1>2. said \subseteq Spoken(g) /\ \A i, j \in Spoken(g) : i < j => i \in said
    <2> HIDE DEF said, n
    <2>1. /\ WithoutCurrent(Spoken(g), g, text) \subseteq Spoken(g)
          /\ \A i, j \in Spoken(g) : i < j => i \in WithoutCurrent(Spoken(g), g, text)
      BY <1>1, WithoutCurrentIs
    <2> QED
      BY <1>1, <2>1
  <1>3. Prefix(g, text, k) = said \ L /\ Cardinality(asked) > k
    BY DEF Prefix
  <1>4. \A i \in said : i \in 1..n /\ i \in Nat
    BY <1>1, <1>2
  <1>5. asked \subseteq said /\ L \subseteq said /\ asked \in SUBSET (1..n)
    BY <1>4 DEF Asked, LastTurns
  <1> HIDE DEF said, n
  <1>6. asked # {}
    <2>1. SUFFICES ASSUME asked = {} PROVE FALSE
      OBVIOUS
    <2>2. Cardinality(asked) = 0
      BY <2>1, FS_EmptySet
    <2> QED
      BY <1>3, <2>2
  <1>7. L # {}
    <2> HIDE DEF asked
    <2>1. PICK u \in asked : \A v \in asked : v <= u
      BY <1>1, <1>5, <1>6, GreatestPosition
    <2>2. \A v \in asked : v \in Nat /\ u \in Nat
      BY <1>4, <1>5
    <2>3. {v \in asked : v >= u} = {u}
      BY <2>1, <2>2
    <2>4. Cardinality({v \in asked : v >= u}) = 1
      BY <2>3, FS_Singleton
    <2>5. u \in said /\ u <= u /\ Cardinality({v \in asked : v >= u}) <= k
      BY <1>5, <2>2, <2>4
    <2> QED
      BY <2>1, <2>5 DEF LastTurns, asked
  <1> DEFINE tail == said \ Prefix(g, text, k)
             m == CHOOSE i \in tail : \A j \in tail : i <= j
  <1>8. tail = L
    BY <1>3, <1>5
  <1>9. L \in SUBSET Nat
    BY <1>4, <1>5
  <1> HIDE DEF L
  <1>10. \E i \in L : \A j \in L : i <= j
    BY <1>7, <1>9, LeastPosition
  <1>11. m \in L /\ \A j \in L : m <= j
    BY <1>8, <1>10
  <1>12. PrefixEndIndex(g, text, k) = m - 1
    BY DEF PrefixEndIndex, said
  <1> HIDE DEF m, tail
  <1>13. PICK u \in asked : u <= m /\ Cardinality({v \in asked : v >= u}) <= k
    BY <1>11 DEF LastTurns, L
  <1>14. u \in L
    <2>1. u \in said /\ u <= u
      BY <1>4, <1>5, <1>13
    <2> QED
      BY <1>13, <2>1 DEF LastTurns, L
  <1>15. m = u /\ m \in said /\ m \in Nat
    BY <1>5, <1>4, <1>11, <1>13, <1>14
  <1>16. g[m].role = "user"
    BY <1>13, <1>15 DEF Asked
  <1>17. ASSUME NEW i \in said, ~ (i < m) PROVE i \in L
    <2>1. u <= i
      BY <1>4, <1>15, <1>17
    <2> QED
      BY <1>13, <2>1 DEF LastTurns, L
  <1>18. \A i \in L : i \in Nat /\ ~ (i < m)
    BY <1>4, <1>5, <1>11, <1>15
  <1>19. \A i \in Spoken(g) : i < m => i \in said
    BY <1>2, <1>15
  <1>20. Prefix(g, text, k) = {i \in Spoken(g) : i < m}
    BY <1>2, <1>3, <1>17, <1>18, <1>19
  <1>21. m \in Spoken(g)
    BY <1>2, <1>15
  <1> QED
    BY <1>12, <1>16, <1>20, <1>21

\* A checkpoint made of a history cuts it, and all histories that go on from it.
LEMMA CheckpointCuts ==
    ASSUME NEW g \in Seq(Message), NEW h \in Seq(Message), Extends(g, h),
           NEW n \in Nat, Chronicle(h, n), NEW text, NEW k \in Nat \ {0},
           NEW kind \in {"pressure", "history"}, Checkpoint(g, text, k, kind).end > 0
    PROVE  Cut(h, Checkpoint(g, text, k, kind), n) /\ Checkpoint(g, text, k, kind) \in Contexts
  <1> DEFINE c == Checkpoint(g, text, k, kind)
             P == Prefix(g, text, k)
  <1>1. c.end = PrefixEndIndex(g, text, k) /\ c.covers = {g[i] : i \in P}
    BY DEF Checkpoint
  <1>2. P # {}
    BY <1>1 DEF PrefixEndIndex
  <1>3. PICK m \in Spoken(g) : g[m].role = "user" /\ P = {i \in Spoken(g) : i < m}
                               /\ PrefixEndIndex(g, text, k) = m - 1
    BY <1>2, TailBeginsWithQuestion
  <1>4. c = [end |-> m - 1, tail |-> k, kind |-> kind, covers |-> {g[i] : i \in P}]
    BY <1>3 DEF Checkpoint
  <1> HIDE DEF c, P
  <1>5. /\ Spoken(g) = {i \in Spoken(h) : i <= Len(g)} /\ \A i \in Spoken(g) : h[i] = g[i]
        /\ Len(g) \in Nat /\ Len(h) \in Nat /\ Len(g) <= Len(h)
        /\ \A i \in 1..Len(h) : i \in Nat /\ h[i] \in Message /\ h[i].id \in Nat
        /\ \A i \in 1..Len(g) : i \in Nat /\ g[i] \in Message
        /\ Spoken(g) \in SUBSET (1..Len(g)) /\ Spoken(h) \in SUBSET (1..Len(h))
    BY ExtendedSpoken, SpokenIs DEF Extends
  <1>6. m \in 1..Len(g) /\ m \in Nat /\ m - 1 \in Nat /\ m - 1 <= Len(h) /\ m \in Spoken(h) /\ h[m].role = "user"
    BY <1>3, <1>5
  <1>7. \A i \in Spoken(h) : i \in Nat /\ (i <= m - 1 <=> i < m) /\ (i < m => i \in Spoken(g) /\ i \in P /\ h[i] = g[i])
    BY <1>3, <1>5, <1>6
  <1>8. \A i \in P : i \in Spoken(h) /\ i < m /\ h[i] = g[i] /\ g[i] \in Message
    BY <1>3, <1>5
  <1>9. c.covers = {h[i] : i \in {j \in Spoken(h) : j <= c.end}}
    <2>1. P = {j \in Spoken(h) : j <= m - 1}
      BY <1>7, <1>8
    <2>2. {g[i] : i \in P} = {h[i] : i \in P}
      BY <1>8
    <2> QED
      BY <1>4, <2>1, <2>2
  <1>10. c \in Contexts
    BY <1>4, <1>6, <1>8 DEF Contexts
  <1>11. \A i \in Spoken(h) : i < m => h[i].id < h[m].id
    BY <1>6 DEF Chronicle
  <1>12. \A j \in Spoken(h) : m < j => h[m].id <= h[j].id
    BY <1>6 DEF Chronicle
  <1>13. h[m].id <= n
    BY <1>6 DEF Chronicle
  <1>14. \A i \in Spoken(h) : h[i].id \in Nat /\ i \in Nat
    BY <1>5
  <1>15. \A i \in Spoken(h) : i <= m - 1 => h[i].id < n
    BY <1>6, <1>7, <1>11, <1>13, <1>14
  <1>16. ASSUME NEW i \in Spoken(h), NEW j \in Spoken(h), i <= m - 1, m - 1 < j
         PROVE  h[i].id < h[j].id
    <2>1. i < m /\ h[i].id < h[m].id
      BY <1>7, <1>11, <1>16
    <2>2. m = j \/ m < j
      BY <1>6, <1>14, <1>16
    <2>3. h[m].id <= h[j].id
      BY <1>6, <1>12, <1>14, <2>2
    <2>4. h[i].id \in Nat /\ h[j].id \in Nat /\ h[m].id \in Nat
      BY <1>6, <1>14
    <2> QED
      BY ONLY <2>1, <2>3, <2>4
  <1> QED
    <2>1. c.end = m - 1
      BY <1>4
    <2>2. Cut(h, c, n)
      BY <1>6, <1>9, <1>15, <1>16, <2>1 DEF Cut
    <2> QED
      BY <1>10, <2>2 DEF c

\* What a turn is shown of a history that is cut: a question, its answer and all
\* that was said after it are missed only if they are in the summary.
LEMMA NothingIsWithheld ==
    ASSUME NEW h \in Seq(Message), NEW n \in Nat, Chronicle(h, n),
           NEW c \in Contexts, Cut(h, c, n), NEW text, NEW t \in Nat,
           NEW i \in LastTurns(Replayable(h, 0, text), h, IF UnderPressure(c) THEN c.tail ELSE t)
    PROVE  \/ i \in Shown(h, c, t, text)
           \/ h[i] \in c.covers
           \/ Stray(h, i) /\ \A j \in c.end + 1..i : h[j].role # "user"
  <1> DEFINE A == Replayable(h, 0, text)
             k == IF UnderPressure(c) THEN c.tail ELSE t
             w == Window(c, t)
             all == LastTurns(A, h, w)
             rest == LastTurns(Replayable(h, c.end, text), h, w)
             widened == c = NoContext \/ (~UnderPressure(c) /\ t > c.tail /\ all # {})
  <1>1. c.end \in Nat /\ c.tail \in Nat
    BY DEF Contexts
  <1>2. /\ Len(h) \in Nat /\ Spoken(h) \in SUBSET (1..Len(h))
        /\ \A j \in 1..Len(h) : j \in Nat /\ h[j] \in Message /\ h[j].id \in Nat
    BY SpokenIs
  <1>3. A \in SUBSET (1..Len(h)) /\ i \in A /\ h[i].role \in {"user", "assistant", "note"}
        /\ \A j \in 1..Len(h) : h[j].role = "user" /\ j < i => j \in A
    <2> DEFINE all3 == Of(h, {"user", "assistant", "note"}, 0)
    <2>1. all3 = {j \in 1..Len(h) : 0 < j /\ h[j].role \in {"user", "assistant", "note"}}
      <3>1. \A R : Of(h, R, 0) = {j \in 1..Len(h) : 0 < j /\ h[j].role \in R}
        BY OfIs
      <3> QED
        BY <3>1, Zenon
    <2>2. all3 \in SUBSET (1..Len(h)) /\ \A j \in all3 : h[j].role \in {"user", "assistant", "note"}
      BY <1>2, <2>1
    <2>3. \A j \in 1..Len(h) : h[j].role = "user" => j \in all3
      BY <1>2, <2>1
    <2> HIDE DEF all3
    <2>4. WithoutCurrent(all3, h, text) \subseteq all3
          /\ \A x, y \in all3 : x < y => x \in WithoutCurrent(all3, h, text)
      BY <1>2, <2>2, WithoutCurrentIs
    <2>5. A = WithoutCurrent(all3, h, text)
      BY DEF Replayable, all3
    <2>6. i \in A
      BY DEF LastTurns
    <2> QED
      BY <2>2, <2>3, <2>4, <2>5, <2>6
  <1>4. Shown(h, c, t, text) = IF widened THEN all ELSE rest
    BY DEF Shown
  <1>5. i \in LastTurns(A, h, k) /\ k \in Nat
    BY <1>1
  <1>6. k <= w /\ w \in Nat /\ (c = NoContext => w = k) /\ (~UnderPressure(c) /\ t > c.tail => w = k)
    <2>1. CASE c = NoContext
      BY <1>1, <2>1 DEF Window, UnderPressure, NoContext
    <2>2. CASE c # NoContext
      BY <1>1, <2>2 DEF Window, Larger
    <2> QED
      BY <2>1, <2>2
  <1>7. Replayable(h, c.end, text) = {a \in A : c.end < a}
    BY <1>1, ReplayCut
  <1> HIDE DEF A, k, w, all, rest
  <1>8. CASE c = NoContext \/ (~UnderPressure(c) /\ t > c.tail)
    <2>1. i \in all
      BY <1>5, <1>6, <1>8 DEF all
    <2> QED
      BY <1>4, <1>8, <2>1
  <1>9. CASE ~ (c = NoContext \/ (~UnderPressure(c) /\ t > c.tail))
    <2>1. Shown(h, c, t, text) = rest
      BY <1>4, <1>9
    <2>2. CASE i <= c.end
      <3>1. CASE h[i].role = "note"
        BY <1>1, <1>2, <1>3, <2>2, <3>1 DEF Stray
      <3>2. CASE h[i].role # "note"
        <4>1. i \in Spoken(h)
          BY <1>3, <3>2 DEF Spoken, Said
        <4> QED
          BY <2>2, <4>1 DEF Cut
      <3> QED
        BY <3>1, <3>2
    <2>3. CASE ~ (i <= c.end)
      <3>1. i \in 1..Len(h) /\ i \in Nat /\ c.end < i
        BY <1>1, <1>2, <1>3, <2>3
      <3>2. CASE \E j \in c.end + 1..i : h[j].role = "user"
        <4>1. PICK j \in c.end + 1..i : h[j].role = "user"
          BY <3>2
        <4>2. j \in 1..Len(h) /\ c.end < j /\ j <= i
          BY <1>1, <1>2, <3>1, <4>1
        <4>3. j \in Asked(A, h)
          <5>1. j = i \/ j < i
            BY <3>1, <4>2
          <5> QED
            BY <1>3, <4>1, <4>2, <5>1 DEF Asked
        <4>4. i \in LastTurns({a \in A : c.end < a}, h, w)
          <5>1. /\ Len(h) \in Nat /\ A \in SUBSET (1..Len(h)) /\ c.end \in Nat
                /\ k \in Nat /\ w \in Nat /\ k <= w
                /\ i \in LastTurns(A, h, k) /\ j \in Asked(A, h) /\ c.end < j /\ j <= i
            BY <1>1, <1>2, <1>3, <1>5, <1>6, <4>2, <4>3
          <5> QED
            BY ONLY <5>1, LastTurnsAbove, Zenon
        <4> QED
          BY <1>7, <2>1, <4>4 DEF rest
      <3>3. CASE ~ \E j \in c.end + 1..i : h[j].role = "user"
        <4>1. i \in c.end + 1..i
          BY <1>1, <3>1
        <4>2. h[i].role \in {"assistant", "note"}
          BY <1>3, <3>3, <4>1
        <4>3. ASSUME h[i].role = "assistant", NEW j \in 1..Len(h), h[j].role = "user"
              PROVE  h[j].id # h[i].id
          <5>1. i \in Spoken(h) /\ j \in Spoken(h) /\ h[i].id \in Nat /\ h[j].id \in Nat /\ j \in Nat
            BY <1>2, <3>1, <4>3 DEF Spoken, Said
          <5>2. CASE j <= c.end
            <6>1. h[j].id < h[i].id
              BY <3>1, <5>1, <5>2 DEF Cut
            <6> QED
              BY <5>1, <6>1
          <5>3. CASE c.end < j
            <6>1. i < j
              BY <1>1, <3>1, <3>3, <4>3, <5>1, <5>3
            <6>2. h[i].id < h[j].id
              BY <4>3, <5>1, <6>1 DEF Chronicle
            <6> QED
              BY <5>1, <6>2
          <5> QED
            BY <1>1, <5>1, <5>2, <5>3
        <4>4. Stray(h, i)
          BY <4>2, <4>3 DEF Stray
        <4> QED
          BY <3>3, <4>4
      <3> QED
        BY <3>2, <3>3
    <2> QED
      BY <2>2, <2>3
  <1> QED
    BY <1>8, <1>9

-----------------------------------------------------------------------------
(* What happens to a history.                                               *)

\* A history is followed by another: it is still a chronicle, and what cut the
\* one cuts the other.
Follows(h, n, h2, n2) ==
    /\ h2 \in Seq(Message)
    /\ Chronicle(h2, n2)
    /\ \A c \in Contexts : Cut(h, c, n) => Cut(h2, c, n2)

\* A message goes to the end of a history.
LEMMA Appended ==
    ASSUME NEW h \in Seq(Message), NEW x \in Message
    PROVE  /\ Append(h, x) \in Seq(Message)
           /\ Extends(h, Append(h, x))
           /\ Len(Append(h, x)) = Len(h) + 1
           /\ Append(h, x)[Len(h) + 1] = x
           /\ Spoken(Append(h, x)) = Spoken(h) \cup (IF x.role \in Said THEN {Len(h) + 1} ELSE {})
  <1> DEFINE g == Append(h, x)
  <1>1. Len(h) \in Nat
    BY SpokenIs
  <1>2. g \in Seq(Message) /\ Len(g) = Len(h) + 1
    OBVIOUS
  <1>3. g[Len(h) + 1] = x /\ \A i \in 1..Len(h) : g[i] = h[i]
    BY <1>1
  <1> HIDE DEF g
  <1>4. Extends(h, g)
    BY <1>1, <1>2, <1>3 DEF Extends
  <1>5. \A i \in 1..Len(g) : i \in 1..Len(h) \/ i = Len(h) + 1
    BY <1>1, <1>2
  <1>6. \A i \in 1..Len(h) : i \in 1..Len(g) /\ g[i] = h[i]
    BY <1>1, <1>2, <1>3
  <1>7. Len(h) + 1 \in 1..Len(g) /\ Len(h) + 1 \notin 1..Len(h)
    BY <1>1, <1>2
  <1>8. Spoken(g) = Spoken(h) \cup (IF x.role \in Said THEN {Len(h) + 1} ELSE {})
    BY <1>3, <1>5, <1>6, <1>7 DEF Spoken
  <1> QED
    BY <1>2, <1>3, <1>4, <1>8 DEF g

\* What is appended belongs to the latest turn, or is a note; a question begins
\* a turn.
LEMMA AppendFollows ==
    ASSUME NEW h \in Seq(Message), NEW n \in Nat, NEW n2 \in Nat, n <= n2, Chronicle(h, n),
           NEW x \in Message, x.role \in Said => x.id = n2, x.role = "user" => n < n2
    PROVE  Follows(h, n, Append(h, x), n2)
  <1> DEFINE g == Append(h, x)
             e == Len(h) + 1
  <1>1. /\ g \in Seq(Message) /\ Extends(h, g) /\ Len(g) = e /\ g[e] = x
        /\ Spoken(g) = Spoken(h) \cup (IF x.role \in Said THEN {e} ELSE {})
    BY Appended
  <1>2. Len(h) \in Nat /\ Spoken(h) \in SUBSET (1..Len(h)) /\ \A i \in 1..Len(h) : i \in Nat /\ h[i].id \in Nat
    BY SpokenIs
  <1>3. \A i \in Spoken(h) : g[i] = h[i] /\ i \in Nat /\ i < e /\ h[i].id \in Nat /\ h[i].id <= n
    BY <1>1, <1>2 DEF Extends, Chronicle
  <1>4. e \in Spoken(g) => g[e].id = n2 /\ (g[e].role = "user" => n < n2)
    BY <1>1, <1>2
  <1>5. e \in Nat /\ \A i \in Spoken(g) : i \in Spoken(h) \/ i = e
    BY <1>1, <1>2
  <1>6. \A i \in Spoken(h) : i \in Spoken(g)
    BY <1>1
  <1> HIDE DEF g, e
  <1>7. Chronicle(g, n2)
    <2>1. \A i \in Spoken(g) : g[i].id <= n2
      BY <1>3, <1>4, <1>5
    <2>2. ASSUME NEW i \in Spoken(g), NEW j \in Spoken(g), i < j
          PROVE  g[i].id <= g[j].id /\ (g[j].role = "user" => g[i].id < g[j].id)
      <3>1. i \in Spoken(h)
        BY <1>3, <1>5, <2>2
      <3>2. CASE j \in Spoken(h)
        BY <1>3, <2>2, <3>1, <3>2 DEF Chronicle
      <3>3. CASE j = e
        BY <1>3, <1>4, <3>1, <3>3
      <3> QED
        BY <1>5, <3>2, <3>3
    <2> QED
      BY <2>1, <2>2 DEF Chronicle
  <1>8. ASSUME NEW c \in Contexts, Cut(h, c, n) PROVE Cut(g, c, n2)
    <2>1. c.end \in Nat
      BY DEF Contexts
    <2>2. c.end <= Len(h) /\ c.end < e /\ c.end <= Len(g)
      BY <1>1, <1>2, <1>8, <2>1 DEF Cut, e
    <2>3. {j \in Spoken(g) : j <= c.end} = {j \in Spoken(h) : j <= c.end}
      BY <1>5, <1>6, <2>1, <2>2
    <2>4. c.covers = {g[i] : i \in {j \in Spoken(g) : j <= c.end}}
      <3>1. c.covers = {h[i] : i \in {j \in Spoken(h) : j <= c.end}}
        BY <1>8 DEF Cut
      <3>2. \A i \in {j \in Spoken(h) : j <= c.end} : g[i] = h[i]
        BY <1>3
      <3> QED
        BY <2>3, <3>1, <3>2
    <2>5. \A i \in Spoken(g) : i <= c.end => i \in Spoken(h) /\ h[i].id < n /\ g[i] = h[i]
      BY <1>3, <1>5, <1>8, <2>1, <2>2 DEF Cut
    <2>6. ASSUME NEW i \in Spoken(g), i <= c.end PROVE g[i].id < n2
      <3>1. i \in Spoken(h) /\ h[i].id < n /\ g[i] = h[i] /\ h[i].id \in Nat
        BY <1>3, <2>5, <2>6
      <3> QED
        BY <3>1
    <2>7. ASSUME NEW i \in Spoken(g), NEW j \in Spoken(g), i <= c.end, c.end < j
          PROVE  g[i].id < g[j].id
      <3>1. CASE j = e
        BY <1>4, <2>6, <2>7, <3>1
      <3>2. CASE j \in Spoken(h)
        <4>1. h[i].id < h[j].id
          BY <1>8, <2>5, <2>7, <3>2 DEF Cut
        <4> QED
          BY <1>3, <2>5, <2>7, <3>2, <4>1
      <3> QED
        BY <1>5, <3>1, <3>2
    <2> QED
      BY <2>2, <2>4, <2>6, <2>7 DEF Cut
  <1> QED
    BY <1>1, <1>7, <1>8 DEF Follows, g

\* The first messages of a history.
LEMMA FirstMessages ==
    ASSUME NEW h \in Seq(Message), NEW m \in Nat, m <= Len(h)
    PROVE  /\ SubSeq(h, 1, m) \in Seq(Message)
           /\ Len(SubSeq(h, 1, m)) = m
           /\ Extends(SubSeq(h, 1, m), h)
  <1> DEFINE g == SubSeq(h, 1, m)
  <1>1. \A i \in 1..m : h[i] \in Message
    BY SpokenIs
  <1>2. /\ g \in Seq(Message)
        /\ Len(g) = IF 1 <= m THEN m - 1 + 1 ELSE 0
        /\ \A i \in 1..(m - 1 + 1) : g[i] = h[1 + i - 1]
    BY <1>1, SubSeqProperties
  <1> HIDE DEF g
  <1>3. Len(g) = m /\ \A i \in 1..m : g[i] = h[i]
    BY <1>2
  <1> QED
    BY <1>2, <1>3 DEF Extends, g

\* A part of a chronicle is one.
LEMMA PartOfChronicle ==
    ASSUME NEW g \in Seq(Message), NEW h \in Seq(Message), Extends(g, h),
           NEW n \in Nat, Chronicle(h, n)
    PROVE  Chronicle(g, n)
  <1>1. Spoken(g) = {i \in Spoken(h) : i <= Len(g)} /\ \A i \in Spoken(g) : h[i] = g[i]
    BY ExtendedSpoken
  <1>2. \A i \in Spoken(g) : i \in Spoken(h) /\ h[i] = g[i]
    BY <1>1
  <1> QED
    BY <1>2 DEF Chronicle

\* The question of the turn at work is after all checkpoints: taking it back
\* moves none of their ends.
LEMMA WithdrawalFollows ==
    ASSUME NEW h \in Seq(Message), NEW n \in Nat, Chronicle(h, n), h # <<>>,
           h[Len(h)].role = "user", h[Len(h)].id = n
    PROVE  Follows(h, n, SubSeq(h, 1, Len(h) - 1), n)
  <1> DEFINE m == Len(h) - 1
             g == SubSeq(h, 1, m)
  <1>1. /\ Len(h) \in Nat /\ Spoken(h) \in SUBSET (1..Len(h))
        /\ \A i \in 1..Len(h) : i \in Nat /\ h[i].id \in Nat
    BY SpokenIs
  <1>2. Len(h) # 0
    BY EmptySeq
  <1>3. m \in Nat /\ m <= Len(h) /\ Len(h) \in 1..Len(h)
    BY <1>1, <1>2
  <1>4. g \in Seq(Message) /\ Len(g) = m /\ Extends(g, h)
    BY <1>3, FirstMessages
  <1> HIDE DEF g
  <1>5. Chronicle(g, n)
    BY <1>4, PartOfChronicle
  <1>6. Spoken(g) = {i \in Spoken(h) : i <= m} /\ \A i \in Spoken(g) : h[i] = g[i]
    BY <1>4, ExtendedSpoken
  <1>7. Len(h) \in Spoken(h)
    BY <1>3 DEF Spoken, Said
  <1>8. ASSUME NEW c \in Contexts, Cut(h, c, n) PROVE Cut(g, c, n)
    <2>1. c.end \in Nat /\ c.end <= Len(h)
      BY <1>8 DEF Contexts, Cut
    <2>2. ~ (Len(h) <= c.end)
      <3>1. SUFFICES ASSUME Len(h) <= c.end PROVE FALSE
        OBVIOUS
      <3>2. h[Len(h)].id < n
        BY <1>7, <1>8, <3>1 DEF Cut
      <3> QED
        BY <3>2
    <2>3. c.end <= m
      BY <1>1, <2>1, <2>2
    <2>4. {j \in Spoken(g) : j <= c.end} = {j \in Spoken(h) : j <= c.end}
      BY <1>1, <1>3, <1>6, <2>1, <2>3
    <2>5. c.covers = {g[i] : i \in {j \in Spoken(g) : j <= c.end}}
      <3>1. c.covers = {h[i] : i \in {j \in Spoken(h) : j <= c.end}}
        BY <1>8 DEF Cut
      <3>2. \A i \in {j \in Spoken(g) : j <= c.end} : g[i] = h[i]
        BY <1>6
      <3> QED
        BY <2>4, <3>1, <3>2
    <2>6. \A i \in Spoken(g) : i \in Spoken(h) /\ g[i] = h[i]
      BY <1>6
    <2> QED
      BY <1>4, <1>8, <2>3, <2>5, <2>6 DEF Cut
  <1> QED
    BY <1>4, <1>5, <1>8 DEF Follows, g

-----------------------------------------------------------------------------
(* What is known of the sessions of a conversation.                         *)

Job == [session : Places, snap : Nat, keep : TurnCounts, text : Texts]

WindowTyped ==
    /\ story \in [Places -> Seq(Message)]
    /\ summary \in [Places -> Contexts]
    /\ here \in Places
    /\ turns \in TurnCounts
    /\ queue \in Seq(Job)
    /\ result \in Contexts
    /\ count \in [questions : Nat, notes : Nat, configs : Nat]

StoriesAreChronicles == \A s \in Places : Chronicle(story[s], count.questions)

SummariesCut == \A s \in Places : Cut(story[s], summary[s], count.questions)

\* What the worker has made cuts the session as it is by now.
ResultCuts ==
    result # NoContext =>
        queue # <<>> /\ Cut(story[Head(queue).session], result, count.questions)

\* What the turn at work has read of its session is still there.
SightIsOfStory ==
    sight # NoView =>
        /\ sight.session \in Places /\ sight.from \in Places /\ sight.text \in Texts
        /\ sight.of \in Seq(Message)
        /\ Extends(sight.of, story[sight.session])

WindowInv ==
    /\ WindowTyped /\ StoriesAreChronicles /\ SummariesCut
    /\ ResultCuts /\ SightIsOfStory /\ LastTurnsAreSeen

LEMMA TurnsArePositive ==
    ASSUME NEW k \in TurnCounts
    PROVE  k \in Nat \ {0}
  BY WindowAssumption

\* The messages that are written.
LEMMA MessagesAre ==
    ASSUME count \in [questions : Nat, notes : Nat, configs : Nat]
    PROVE  /\ Created \in Message /\ Created.role = "created"
           /\ Assistant \in Message /\ Assistant.role = "assistant" /\ Assistant.id = count.questions
           /\ Note \in Message /\ Note.role = "note"
           /\ \A n \in Nat, text \in Texts :
                 /\ Question(n, text) \in Message
                 /\ Question(n, text).role = "user" /\ Question(n, text).id = n
  <1>1. count.questions \in Nat /\ count.notes \in Nat
    OBVIOUS
  <1>2. Created \in Message /\ Created.role = "created"
    BY DEF Message, Created
  <1>3. Assistant \in Message /\ Assistant.role = "assistant" /\ Assistant.id = count.questions
    BY <1>1 DEF Message, Assistant
  <1>4. Note \in Message /\ Note.role = "note"
    BY <1>1 DEF Message, Note
  <1>6. ASSUME NEW n \in Nat, NEW text \in Texts
        PROVE  /\ Question(n, text) \in Message
               /\ Question(n, text).role = "user" /\ Question(n, text).id = n
    BY DEF Message, Question
  <1> QED
    BY <1>2, <1>3, <1>4, <1>6

\* The checkpoints that are there without a compaction.
LEMMA FirstContexts ==
    ASSUME NEW c \in Contexts
    PROVE  NoContext \in Contexts /\ CarriedOver(c) \subseteq Contexts
  BY DEF Contexts, NoContext, CarriedOver

\* An empty history.
LEMMA EmptyStory ==
    ASSUME NEW n \in Nat
    PROVE  /\ <<>> \in Seq(Message) /\ Len(<<>>) = 0 /\ Spoken(<<>>) = {}
           /\ Chronicle(<<>>, n) /\ Cut(<<>>, NoContext, n)
  <1>1. <<>> \in Seq(Message) /\ Len(<<>>) = 0
    BY EmptySeq
  <1>2. Spoken(<<>>) = {}
    BY <1>1 DEF Spoken
  <1> QED
    BY <1>1, <1>2 DEF Chronicle, Cut, NoContext

\* The history of a new session.
LEMMA NewStory ==
    ASSUME NEW n \in Nat, NEW c \in Contexts
    PROVE  /\ <<Created>> \in Seq(Message) /\ Spoken(<<Created>>) = {}
           /\ Chronicle(<<Created>>, n) /\ Cut(<<Created>>, NoContext, n)
           /\ \A d \in CarriedOver(c) : Cut(<<Created>>, d, n)
  <1>1. Created \in Message /\ Created.role \notin Said
    BY DEF Message, Created, Said
  <1>2. <<Created>> \in Seq(Message) /\ Len(<<Created>>) = 1 /\ <<Created>>[1] = Created
    BY <1>1
  <1>3. Spoken(<<Created>>) = {}
    BY <1>1, <1>2 DEF Spoken
  <1> QED
    BY <1>2, <1>3 DEF Chronicle, Cut, NoContext, CarriedOver

\* A history that stays is followed by itself, in this turn and in the next.
LEMMA StaysFollows ==
    ASSUME NEW h \in Seq(Message), NEW n \in Nat, NEW n2 \in Nat, n <= n2, Chronicle(h, n)
    PROVE  Follows(h, n, h, n2)
  <1>1. \A i \in Spoken(h) : h[i].id \in Nat
    BY SpokenIs
  <1>2. Chronicle(h, n2)
    BY <1>1 DEF Chronicle
  <1>3. ASSUME NEW c \in Contexts, Cut(h, c, n) PROVE Cut(h, c, n2)
    BY <1>1, <1>3 DEF Cut
  <1> QED
    BY <1>2, <1>3 DEF Follows

LEMMA FollowsOn ==
    ASSUME NEW h, NEW g, NEW k, NEW n, Follows(h, n, g, n), Follows(g, n, k, n)
    PROVE  Follows(h, n, k, n)
  BY DEF Follows

\* When every history is followed by its next one, all that is known of the
\* histories and their checkpoints stays true.
LEMMA StoriesFollow ==
    ASSUME StoriesAreChronicles, SummariesCut, WindowTyped, DOMAIN story' = Places,
           story' = [s \in Places |-> story'[s]],
           \A s \in Places : Follows(story[s], count.questions, story'[s], count'.questions)
    PROVE  /\ story' \in [Places -> Seq(Message)]
           /\ StoriesAreChronicles'
           /\ \A s \in Places : \A c \in Contexts :
                 Cut(story[s], c, count.questions) => Cut(story'[s], c, count'.questions)
  BY DEF StoriesAreChronicles, Follows

\* What a turn reads, it shows.
LEMMA SightIsTrue ==
    ASSUME NEW s \in Places, NEW from \in Places, NEW text \in Texts, NEW h \in Seq(Message),
           NEW n \in Nat, Chronicle(h, n), NEW c \in Contexts, Cut(h, c, n),
           turns \in TurnCounts, turns' = turns,
           sight' = Assembled(from, s, h, c, text), Extends(h, story'[s])
    PROVE  SightIsOfStory' /\ LastTurnsAreSeen'
  <1>1. /\ sight'.session = s /\ sight'.from = from /\ sight'.text = text /\ sight'.of = h
        /\ sight'.ctx = c /\ sight'.shown = Shown(h, c, turns, text)
    BY DEF Assembled
  <1>2. SightIsOfStory'
    BY <1>1 DEF SightIsOfStory
  <1>3. turns \in Nat
    BY TurnsArePositive
  <1>4. TurnsToSee' = IF UnderPressure(c) THEN c.tail ELSE turns
    BY <1>1 DEF TurnsToSee
  <1>5. ASSUME NEW i \in LastTurns(Replayable(h, 0, text), h, IF UnderPressure(c) THEN c.tail ELSE turns)
        PROVE  \/ i \in Shown(h, c, turns, text)
               \/ h[i] \in c.covers
               \/ Stray(h, i) /\ \A j \in c.end + 1..i : h[j].role # "user"
    BY <1>3, <1>5, NothingIsWithheld
  <1>6. LastTurnsAreSeen'
    BY <1>1, <1>4, <1>5 DEF LastTurnsAreSeen
  <1> QED
    BY <1>2, <1>6

\* Between turns nothing is shown.
LEMMA NothingToSee ==
    /\ sight = NoView => SightIsOfStory /\ LastTurnsAreSeen
    /\ sight' = NoView => SightIsOfStory' /\ LastTurnsAreSeen'
  <1>1. NoView.of = <<>> /\ NoView.text = ""
    BY DEF NoView
  <1>2. Len(<<>>) = 0
    BY EmptySeq
  <1>3. Of(<<>>, {"user", "assistant", "note"}, 0) = {}
    BY <1>2 DEF Of
  <1>4. Replayable(<<>>, 0, "") = {}
    BY <1>3 DEF Replayable, WithoutCurrent
  <1>5. \A k : LastTurns(Replayable(<<>>, 0, ""), <<>>, k) = {}
    BY <1>4 DEF LastTurns
  <1>6. sight = NoView => SightIsOfStory /\ LastTurnsAreSeen
    BY <1>1, <1>5 DEF LastTurnsAreSeen, SightIsOfStory
  <1>7. sight' = NoView => SightIsOfStory' /\ LastTurnsAreSeen'
    BY <1>1, <1>5 DEF LastTurnsAreSeen, SightIsOfStory
  <1> QED
    BY <1>6, <1>7

\* One history changes: the others stay.
LEMMA OneStoryFollows ==
    ASSUME StoriesAreChronicles, SummariesCut, WindowTyped,
           count'.questions \in Nat, count.questions <= count'.questions,
           NEW p \in Places, NEW h, story' = [story EXCEPT ![p] = h],
           Follows(story[p], count.questions, h, count'.questions)
    PROVE  /\ story' \in [Places -> Seq(Message)]
           /\ story'[p] = h /\ \A s \in Places : s # p => story'[s] = story[s]
           /\ StoriesAreChronicles'
           /\ \A s \in Places : \A c \in Contexts :
                 Cut(story[s], c, count.questions) => Cut(story'[s], c, count'.questions)
  <1>1. story \in [Places -> Seq(Message)] /\ count.questions \in Nat
    BY DEF WindowTyped
  <1>2. story'[p] = h /\ \A s \in Places : s # p => story'[s] = story[s]
    BY <1>1
  <1>3. DOMAIN story' = Places /\ story' = [s \in Places |-> story'[s]]
    BY <1>1
  <1>4. ASSUME NEW s \in Places
        PROVE  Follows(story[s], count.questions, story'[s], count'.questions)
    <2>1. CASE s = p
      BY <1>2, <2>1
    <2>2. CASE s # p
      <3>1. story[s] \in Seq(Message) /\ Chronicle(story[s], count.questions)
        BY <1>1 DEF StoriesAreChronicles
      <3> QED
        BY <1>1, <1>2, <2>2, <3>1, StaysFollows
    <2> QED
      BY <2>1, <2>2
  <1> QED
    BY <1>2, <1>3, <1>4, StoriesFollow

\* The result of the worker cuts its session, whatever happens to that.
LEMMA ResultStays ==
    ASSUME WindowInv, result' = result,
           result # NoContext => queue' # <<>> /\ Head(queue').session = Head(queue).session,
           \A s \in Places : \A c \in Contexts :
              Cut(story[s], c, count.questions) => Cut(story'[s], c, count'.questions)
    PROVE  ResultCuts'
  <1>1. SUFFICES ASSUME result # NoContext
                 PROVE  queue' # <<>> /\ Cut(story'[Head(queue').session], result, count'.questions)
    BY DEF ResultCuts
  <1>2. queue \in Seq(Job) /\ result \in Contexts /\ queue # <<>>
        /\ Cut(story[Head(queue).session], result, count.questions)
    BY <1>1 DEF WindowInv, WindowTyped, ResultCuts
  <1>3. Head(queue) \in Job
    BY <1>2, HeadTailProperties
  <1>4. Head(queue).session \in Places
    BY <1>3 DEF Job
  <1> QED
    BY <1>1, <1>2, <1>4

LEMMA WindowBegins ==
    ASSUME WindowInit PROVE WindowInv
  <1>1. 0 \in Nat /\ count.questions = 0 /\ count \in [questions : Nat, notes : Nat, configs : Nat]
    BY DEF WindowInit
  <1>2. NoContext \in Contexts
    BY DEF Contexts, NoContext
  <1>3. \A s \in Places : story[s] \in {<<>>, <<Created>>} /\ summary[s] = NoContext
    BY DEF WindowInit
  <1>4. <<>> \in Seq(Message) /\ <<Created>> \in Seq(Message)
    BY <1>1, <1>2, EmptyStory, NewStory
  <1>5. story \in [Places -> Seq(Message)] /\ summary \in [Places -> Contexts]
    <2>1. story = [s \in Places |-> story[s]] /\ summary = [s \in Places |-> NoContext]
      BY DEF WindowInit
    <2> QED
      BY <1>2, <1>3, <1>4, <2>1
  <1>6. WindowTyped
    <2>1. queue \in Seq(Job)
      BY EmptySeq DEF WindowInit
    <2> QED
      BY <1>1, <1>2, <1>5, <2>1, WindowAssumption DEF WindowInit, WindowTyped
  <1>7. StoriesAreChronicles /\ SummariesCut
    BY <1>1, <1>2, <1>3, EmptyStory, NewStory DEF StoriesAreChronicles, SummariesCut
  <1>8. ResultCuts
    BY DEF WindowInit, ResultCuts
  <1>9. SightIsOfStory /\ LastTurnsAreSeen
    BY NothingToSee DEF WindowInit
  <1> QED
    BY <1>6, <1>7, <1>8, <1>9 DEF WindowInv

-----------------------------------------------------------------------------
(* The steps of a conversation.                                             *)

\* What a step knows of the state it starts in.
LEMMA WindowFacts ==
    ASSUME WindowInv
    PROVE  /\ count.questions \in Nat
           /\ \A s \in Places :
                 /\ story[s] \in Seq(Message) /\ summary[s] \in Contexts
                 /\ Chronicle(story[s], count.questions)
                 /\ Cut(story[s], summary[s], count.questions)
           /\ turns \in Nat \ {0}
  BY TurnsArePositive DEF WindowInv, WindowTyped, StoriesAreChronicles, SummariesCut

\* The number of questions stays, and all histories.
LEMMA SameStories ==
    ASSUME WindowInv, UNCHANGED <<story, count>>
    PROVE  /\ story' \in [Places -> Seq(Message)]
           /\ StoriesAreChronicles'
           /\ \A s \in Places : \A c \in Contexts :
                 Cut(story[s], c, count.questions) => Cut(story'[s], c, count'.questions)
  BY DEF WindowInv, WindowTyped, StoriesAreChronicles

LEMMA SummariesStay ==
    ASSUME WindowInv, UNCHANGED summary,
           \A s \in Places : \A c \in Contexts :
              Cut(story[s], c, count.questions) => Cut(story'[s], c, count'.questions)
    PROVE  SummariesCut'
  BY DEF WindowInv, WindowTyped, SummariesCut

LEMMA OneSummaryChanges ==
    ASSUME WindowInv, NEW p \in Places, NEW c \in Contexts, summary' = [summary EXCEPT ![p] = c],
           Cut(story'[p], c, count'.questions),
           \A s \in Places : \A d \in Contexts :
              Cut(story[s], d, count.questions) => Cut(story'[s], d, count'.questions)
    PROVE  SummariesCut' /\ summary' \in [Places -> Contexts]
  BY DEF WindowInv, WindowTyped, SummariesCut

\* The checkpoint of a turn, of what it has read.
LEMMA PressureCuts ==
    ASSUME NEW g \in Seq(Message), NEW h \in Seq(Message), Extends(g, h),
           NEW n \in Nat, Chronicle(h, n), NEW text, turns \in Nat \ {0},
           Checkpoint(g, text, turns, "pressure").end > 0
    PROVE  /\ Checkpoint(g, text, turns, "pressure") \in Contexts
           /\ Cut(h, Checkpoint(g, text, turns, "pressure"), n)
           /\ Chronicle(g, n) /\ Cut(g, Checkpoint(g, text, turns, "pressure"), n)
  <1>1. Chronicle(g, n)
    BY PartOfChronicle
  <1>2. Extends(g, g)
    BY SpokenIs DEF Extends
  <1> QED
    BY <1>1, <1>2, CheckpointCuts

LEMMA AskKeeps ==
    ASSUME WindowInv, NEW text \in Texts, Ask(text)
    PROVE  WindowInv'
  <1> DEFINE n == count.questions
             q == Question(n + 1, text)
             h == Append(story[here], q)
  <1>1. /\ n \in Nat /\ here \in Places /\ turns \in Nat \ {0} /\ turns \in TurnCounts
        /\ story[here] \in Seq(Message) /\ Chronicle(story[here], n)
        /\ summary[here] \in Contexts /\ Cut(story[here], summary[here], n)
    BY WindowFacts DEF WindowInv, WindowTyped
  <1>2. count' \in [questions : Nat, notes : Nat, configs : Nat] /\ count'.questions = n + 1
    <2>1. count' = [count EXCEPT !.questions = @ + 1]
      BY DEF Ask
    <2>2. count \in [questions : Nat, notes : Nat, configs : Nat]
      BY DEF WindowInv, WindowTyped
    <2> QED
      BY <2>1, <2>2
  <1>3. q \in Message /\ q.role = "user" /\ q.id = n + 1
    BY <1>1, MessagesAre DEF WindowInv, WindowTyped
  <1>4. h \in Seq(Message) /\ Extends(h, h)
    <2>1. h \in Seq(Message)
      BY <1>1, <1>3
    <2> QED
      BY <2>1, SpokenIs DEF Extends
  <1>5. Follows(story[here], n, h, n + 1)
    BY <1>1, <1>3, AppendFollows
  <1>6. story' = [story EXCEPT ![here] = h] /\ UNCHANGED <<here, turns, queue, result>>
    BY DEF Ask
  <1>7. PICK c \in Checkpoints(h, summary[here], text) :
           summary' = [summary EXCEPT ![here] = c] /\ sight' = Assembled(here, here, h, c, text)
    BY DEF Ask
  <1> HIDE DEF h, q, n
  <1>8. /\ story' \in [Places -> Seq(Message)] /\ story'[here] = h
        /\ StoriesAreChronicles'
        /\ \A s \in Places : \A d \in Contexts :
              Cut(story[s], d, count.questions) => Cut(story'[s], d, count'.questions)
    <2>1. count'.questions \in Nat /\ count.questions <= count'.questions
      BY <1>1, <1>2 DEF n
    <2>2. Follows(story[here], count.questions, h, count'.questions)
      BY <1>2, <1>5 DEF n
    <2> QED
      BY <1>1, <1>6, <2>1, <2>2, OneStoryFollows DEF WindowInv
  <1>9. Chronicle(h, n + 1) /\ n + 1 \in Nat
    BY <1>1, <1>5 DEF Follows
  <1>10. c \in Contexts /\ Cut(h, c, n + 1)
    <2>1. CASE c = summary[here]
      BY <1>1, <1>5, <2>1 DEF Follows
    <2>2. CASE c # summary[here]
      <3>1. c = Checkpoint(h, text, turns, "pressure") /\ c.end > 0
        BY <1>7, <2>2 DEF Checkpoints
      <3> QED
        BY <1>1, <1>4, <1>9, <3>1, PressureCuts
    <2> QED
      BY <2>1, <2>2
  <1>11. SummariesCut' /\ summary' \in [Places -> Contexts]
    BY <1>1, <1>2, <1>7, <1>8, <1>10, OneSummaryChanges
  <1>12. SightIsOfStory' /\ LastTurnsAreSeen'
    BY <1>1, <1>4, <1>6, <1>7, <1>8, <1>9, <1>10, SightIsTrue
  <1>13. ResultCuts'
    <2>1. result # NoContext => queue' # <<>> /\ Head(queue').session = Head(queue).session
      BY <1>6 DEF WindowInv, ResultCuts
    <2> QED
      BY <1>6, <1>8, <2>1, ResultStays
  <1>14. WindowTyped'
    BY <1>2, <1>6, <1>8, <1>11 DEF WindowInv, WindowTyped
  <1> QED
    BY <1>8, <1>11, <1>12, <1>13, <1>14 DEF WindowInv

LEMMA TooLongKeeps ==
    ASSUME WindowInv, TooLong
    PROVE  WindowInv'
  <1> DEFINE n == count.questions
             s == sight.session
             g == sight.of
             c == Checkpoint(g, sight.text, turns, "pressure")
  <1>1. /\ s \in Places /\ sight.from \in Places /\ sight.text \in Texts /\ g \in Seq(Message)
        /\ Extends(g, story[s])
    BY DEF TooLong, Idle, WindowInv, SightIsOfStory
  <1>2. /\ n \in Nat /\ turns \in Nat \ {0} /\ turns \in TurnCounts
        /\ story[s] \in Seq(Message) /\ Chronicle(story[s], n)
    BY <1>1, WindowFacts DEF WindowInv, WindowTyped
  <1>3. /\ c.end > 0 /\ summary' = [summary EXCEPT ![s] = c]
        /\ sight' = Assembled(sight.from, s, g, c, sight.text)
        /\ UNCHANGED <<story, here, turns, queue, result, count>>
    BY DEF TooLong
  <1>4. c \in Contexts /\ Cut(story[s], c, n) /\ Chronicle(g, n) /\ Cut(g, c, n)
    BY <1>1, <1>2, <1>3, PressureCuts
  <1> HIDE DEF c, g, s, n
  <1>5. /\ story' \in [Places -> Seq(Message)] /\ StoriesAreChronicles'
        /\ \A p \in Places : \A d \in Contexts :
              Cut(story[p], d, count.questions) => Cut(story'[p], d, count'.questions)
    BY <1>3, SameStories
  <1>6. Cut(story'[s], c, count'.questions)
    BY <1>3, <1>4 DEF n
  <1>7. SummariesCut' /\ summary' \in [Places -> Contexts]
    BY <1>1, <1>3, <1>4, <1>5, <1>6, OneSummaryChanges
  <1>8. SightIsOfStory' /\ LastTurnsAreSeen'
    BY <1>1, <1>2, <1>3, <1>4, SightIsTrue
  <1>9. ResultCuts'
    BY <1>3, <1>5, ResultStays DEF WindowInv, ResultCuts
  <1>10. WindowTyped'
    BY <1>3, <1>5, <1>7 DEF WindowInv, WindowTyped
  <1> QED
    BY <1>5, <1>7, <1>8, <1>9, <1>10 DEF WindowInv

\* The session a turn leaves may get a job, at the end of the queue.
LEMMA QueueGrows ==
    ASSUME WindowInv, sight # NoView, queue' = WaitingAfter(sight.session, sight.text)
    PROVE  /\ queue' \in Seq(Job)
           /\ queue # <<>> => queue' # <<>> /\ Head(queue').session = Head(queue).session
  <1>1. queue \in Seq(Job) /\ turns \in TurnCounts /\ sight.session \in Places /\ sight.text \in Texts
        /\ story[sight.session] \in Seq(Message)
    BY DEF WindowInv, WindowTyped, SightIsOfStory
  <1>2. CASE queue' = queue
    BY <1>1, <1>2
  <1>3. CASE queue' # queue
    <2> DEFINE more == [session |-> sight.session, snap |-> Len(story[sight.session]),
                       keep |-> turns, text |-> sight.text]
    <2>1. queue' = Append(queue, more)
      BY <1>3 DEF WaitingAfter
    <2>2. Len(story[sight.session]) \in Nat
      BY <1>1, SpokenIs
    <2>3. more \in Job
      BY <1>1, <2>2 DEF Job
    <2> HIDE DEF more
    <2>4. /\ Append(queue, more) \in Seq(Job) /\ Append(queue, more) # <<>>
          /\ Len(queue) \in Nat
          /\ \A i \in 1..Len(queue) : Append(queue, more)[i] = queue[i]
      BY <1>1, <2>3, AppendProperties
    <2>5. queue # <<>> => Head(Append(queue, more)) = Head(queue)
      <3>1. SUFFICES ASSUME queue # <<>> PROVE Head(Append(queue, more)) = Head(queue)
        OBVIOUS
      <3>2. Len(queue) # 0
        BY <1>1, <3>1, EmptySeq
      <3>3. 1 \in 1..Len(queue)
        BY <2>4, <3>2
      <3> QED
        BY <1>1, <2>4, <3>1, <3>3, HeadTailProperties
    <2> QED
      BY <2>1, <2>4, <2>5
  <1> QED
    BY <1>2, <1>3

LEMMA NewSessionKeeps ==
    ASSUME WindowInv, NewSession
    PROVE  WindowInv'
  <1> DEFINE n == count.questions
  <1>1. PICK s \in Places, c \in CarriedOver(summary[sight.session]) :
          /\ story[s] = <<>>
          /\ queue' = WaitingAfter(sight.session, sight.text)
          /\ story' = [story EXCEPT ![s] = <<Created>>]
          /\ summary' = [summary EXCEPT ![s] = c]
          /\ here' = s
          /\ sight' = Assembled(sight.from, s, <<Created>>, c, sight.text)
    BY DEF NewSession
  <1>2. sight # NoView /\ UNCHANGED <<turns, result, count>>
    BY DEF NewSession, MayLeave, Idle
  <1>3. sight.session \in Places /\ sight.from \in Places /\ sight.text \in Texts
    BY <1>2 DEF WindowInv, SightIsOfStory
  <1>4. n \in Nat /\ turns \in TurnCounts /\ summary[sight.session] \in Contexts /\ Chronicle(story[s], n)
    BY <1>3, WindowFacts DEF WindowInv, WindowTyped
  <1>5. c \in Contexts
    BY <1>4, FirstContexts
  <1>6. <<Created>> \in Seq(Message) /\ Chronicle(<<Created>>, n) /\ Cut(<<Created>>, c, n)
    BY <1>4, NewStory
  <1>7. Follows(story[s], n, <<Created>>, n)
    <2>1. <<>> \in Seq(Message) /\ Chronicle(<<>>, n)
      BY <1>4, EmptyStory
    <2>2. Created \in Message /\ Created.role \notin Said /\ Created.role # "user"
      BY DEF Message, Created, Said
    <2>3. Follows(<<>>, n, Append(<<>>, Created), n)
      <3>1. n <= n /\ n \in Nat /\ (Created.role \in Said => Created.id = n)
        BY <1>4, <2>2
      <3>2. Created.role = "user" => n < n
        BY <2>2
      <3> QED
        BY <2>1, <2>2, <3>1, <3>2, AppendFollows
    <2>4. Append(<<>>, Created) = <<Created>>
      OBVIOUS
    <2> QED
      BY <1>1, <2>3, <2>4
  <1> HIDE DEF n
  <1>8. /\ story' \in [Places -> Seq(Message)] /\ story'[s] = <<Created>>
        /\ StoriesAreChronicles'
        /\ \A p \in Places : \A d \in Contexts :
              Cut(story[p], d, count.questions) => Cut(story'[p], d, count'.questions)
    <2>1. count'.questions \in Nat /\ count.questions <= count'.questions
      BY <1>2, <1>4 DEF n
    <2>2. Follows(story[s], count.questions, <<Created>>, count'.questions)
      BY <1>2, <1>7 DEF n
    <2> QED
      BY <1>1, <2>1, <2>2, OneStoryFollows DEF WindowInv
  <1>9. SummariesCut' /\ summary' \in [Places -> Contexts] /\ summary'[s] = c
    <2>1. summary' = [summary EXCEPT ![s] = c] /\ summary \in [Places -> Contexts]
      BY <1>1 DEF WindowInv, WindowTyped
    <2>2. Cut(story'[s], c, count'.questions)
      BY <1>2, <1>6, <1>8 DEF n
    <2> QED
      BY <1>5, <1>8, <2>1, <2>2, OneSummaryChanges
  <1>10. SightIsOfStory' /\ LastTurnsAreSeen'
    <2>1. Extends(<<Created>>, story'[s])
      BY <1>6, <1>8, SpokenIs DEF Extends
    <2> QED
      BY <1>1, <1>2, <1>3, <1>4, <1>5, <1>6, <2>1, SightIsTrue
  <1>11. queue' \in Seq(Job) /\ ResultCuts'
    BY <1>1, <1>2, <1>8, QueueGrows, ResultStays DEF WindowInv, ResultCuts
  <1>12. WindowTyped'
    BY <1>1, <1>2, <1>8, <1>9, <1>11 DEF WindowInv, WindowTyped
  <1> QED
    BY <1>8, <1>9, <1>10, <1>11, <1>12 DEF WindowInv

LEMMA ResumeKeeps ==
    ASSUME WindowInv, Resume
    PROVE  WindowInv'
  <1> DEFINE n == count.questions
  <1>1. PICK s \in Places :
          /\ queue' = WaitingAfter(sight.session, sight.text)
          /\ here' = s
          /\ sight' = Assembled(sight.from, s, story[s], summary[s], sight.text)
    BY DEF Resume
  <1>2. sight # NoView /\ UNCHANGED <<story, summary, turns, result, count>>
    BY DEF Resume, MayLeave, Idle
  <1>3. sight.from \in Places /\ sight.text \in Texts
    BY <1>2 DEF WindowInv, SightIsOfStory
  <1>4. /\ n \in Nat /\ turns \in TurnCounts /\ story[s] \in Seq(Message) /\ summary[s] \in Contexts
        /\ Chronicle(story[s], n) /\ Cut(story[s], summary[s], n)
    BY WindowFacts DEF WindowInv, WindowTyped
  <1>5. /\ story' \in [Places -> Seq(Message)] /\ StoriesAreChronicles'
        /\ \A p \in Places : \A d \in Contexts :
              Cut(story[p], d, count.questions) => Cut(story'[p], d, count'.questions)
    BY <1>2, SameStories
  <1>6. SightIsOfStory' /\ LastTurnsAreSeen'
    <2>1. Extends(story[s], story'[s])
      BY <1>2, <1>4, SpokenIs DEF Extends
    <2> QED
      BY <1>1, <1>2, <1>3, <1>4, <2>1, SightIsTrue
  <1>7. queue' \in Seq(Job) /\ ResultCuts'
    BY <1>1, <1>2, <1>5, QueueGrows, ResultStays DEF WindowInv, ResultCuts
  <1>8. SummariesCut'
    BY <1>2, <1>5, SummariesStay
  <1>9. WindowTyped'
    BY <1>1, <1>2, <1>5, <1>7 DEF WindowInv, WindowTyped
  <1> QED
    BY <1>5, <1>6, <1>7, <1>8, <1>9 DEF WindowInv

\* Taking the question of the turn back.
LEMMA WithoutQuestionFollows ==
    ASSUME NEW h \in Seq(Message), count.questions \in Nat, Chronicle(h, count.questions), NEW text
    PROVE  Follows(h, count.questions, WithoutQuestion(h, text), count.questions)
  <1>1. CASE h # <<>> /\ h[Len(h)] = Question(count.questions, text)
    <2>1. h[Len(h)].role = "user" /\ h[Len(h)].id = count.questions
      BY <1>1 DEF Question
    <2>2. WithoutQuestion(h, text) = SubSeq(h, 1, Len(h) - 1)
      BY <1>1 DEF WithoutQuestion
    <2> QED
      BY <1>1, <2>1, <2>2, WithdrawalFollows
  <1>2. CASE ~ (h # <<>> /\ h[Len(h)] = Question(count.questions, text))
    <2>1. WithoutQuestion(h, text) = h
      BY <1>2 DEF WithoutQuestion
    <2> QED
      BY <2>1, StaysFollows
  <1> QED
    BY <1>1, <1>2

\* At the end of a turn its question may be gone and its answer there.
LEMMA AnswerFollows ==
    ASSUME WindowInv, Answer, NEW s \in Places
    PROVE  /\ DOMAIN story' = Places /\ story' = [p \in Places |-> story'[p]]
           /\ Follows(story[s], count.questions, story'[s], count.questions)
  <1> DEFINE n == count.questions
  <1>1. n \in Nat /\ story \in [Places -> Seq(Message)] /\ story[s] \in Seq(Message) /\ Chronicle(story[s], n)
    BY WindowFacts DEF WindowInv, WindowTyped
  <1>2. Assistant \in Message /\ Assistant.role = "assistant" /\ Assistant.id = n
    BY MessagesAre DEF WindowInv, WindowTyped
  <1>3. ASSUME NEW answered \in BOOLEAN
        PROVE  /\ DOMAIN AfterTurn(answered) = Places
               /\ AfterTurn(answered)[s] \in {story[s], WithoutQuestion(story[s], sight.text)}
    BY <1>1 DEF AfterTurn
  <1>4. ASSUME NEW answered \in BOOLEAN
        PROVE  Follows(story[s], n, AfterTurn(answered)[s], n)
    BY <1>1, <1>3, <1>4, StaysFollows, WithoutQuestionFollows
  <1>5. ASSUME NEW answered \in BOOLEAN
        PROVE  AfterTurn(answered) = [p \in Places |-> AfterTurn(answered)[p]]
    BY <1>1 DEF AfterTurn
  <1>6. CASE story' = AfterTurn(FALSE)
    BY <1>3, <1>4, <1>5, <1>6
  <1>7. CASE story' = [AfterTurn(TRUE) EXCEPT ![sight.session] = Append(@, Assistant)]
    <2>1. DOMAIN story' = Places /\ story' = [p \in Places |-> story'[p]]
      BY <1>3, <1>5, <1>7
    <2>2. story'[s] \in {AfterTurn(TRUE)[s], Append(AfterTurn(TRUE)[s], Assistant)}
      BY <1>3, <1>7
    <2>3. AfterTurn(TRUE)[s] \in Seq(Message) /\ Chronicle(AfterTurn(TRUE)[s], n)
      BY <1>4 DEF Follows
    <2>4. Follows(AfterTurn(TRUE)[s], n, Append(AfterTurn(TRUE)[s], Assistant), n)
      <3>1. n <= n /\ Assistant.role # "user"
        BY <1>1, <1>2
      <3> QED
        BY <1>1, <1>2, <2>3, <3>1, AppendFollows
    <2>5. Follows(story[s], n, Append(AfterTurn(TRUE)[s], Assistant), n)
      BY <1>4, <2>4, FollowsOn
    <2> QED
      BY <1>4, <2>1, <2>2, <2>5
  <1> QED
    BY <1>6, <1>7 DEF Answer

LEMMA AnswerKeeps ==
    ASSUME WindowInv, Answer
    PROVE  WindowInv'
  <1>1. sight' = NoView /\ UNCHANGED <<summary, here, turns, queue, result, count>>
    BY DEF Answer
  <1>2. SightIsOfStory' /\ LastTurnsAreSeen'
    BY <1>1, NothingToSee
  <1>3. /\ DOMAIN story' = Places /\ story' = [p \in Places |-> story'[p]]
        /\ \A s \in Places : Follows(story[s], count.questions, story'[s], count'.questions)
    BY <1>1, AnswerFollows, WindowAssumption
  <1>4. /\ story' \in [Places -> Seq(Message)]
        /\ StoriesAreChronicles'
        /\ \A s \in Places : \A c \in Contexts :
              Cut(story[s], c, count.questions) => Cut(story'[s], c, count'.questions)
    BY <1>3, StoriesFollow DEF WindowInv
  <1>5. SummariesCut' /\ ResultCuts'
    BY <1>1, <1>4, SummariesStay, ResultStays DEF WindowInv, ResultCuts
  <1>6. WindowTyped'
    BY <1>1, <1>4 DEF WindowInv, WindowTyped
  <1> QED
    BY <1>2, <1>4, <1>5, <1>6 DEF WindowInv

\* A note is appended: what a turn has read is still there.
LEMMA NotifyKeeps ==
    ASSUME WindowInv, NEW s \in Places, Notify(s)
    PROVE  WindowInv'
  <1> DEFINE n == count.questions
             h == Append(story[s], Note)
  <1>1. n \in Nat /\ story[s] \in Seq(Message) /\ Chronicle(story[s], n)
    BY WindowFacts
  <1>2. Note \in Message /\ Note.role = "note" /\ Note.role \notin Said
    BY MessagesAre DEF WindowInv, WindowTyped, Said
  <1>3. count' \in [questions : Nat, notes : Nat, configs : Nat] /\ count'.questions = n
    <2>1. count' = [count EXCEPT !.notes = @ + 1]
      BY DEF Notify
    <2>2. count \in [questions : Nat, notes : Nat, configs : Nat]
      BY DEF WindowInv, WindowTyped
    <2> QED
      BY <2>1, <2>2
  <1>4. story' = [story EXCEPT ![s] = h] /\ UNCHANGED <<summary, here, turns, sight, queue, result>>
    BY DEF Notify
  <1>5. h \in Seq(Message) /\ Extends(story[s], h) /\ Follows(story[s], n, h, n)
    <2>1. n <= n /\ Note.role # "user"
      BY <1>1, <1>2
    <2> QED
      BY <1>1, <1>2, <2>1, Appended, AppendFollows
  <1> HIDE DEF h
  <1>6. /\ story' \in [Places -> Seq(Message)] /\ story'[s] = h
        /\ \A p \in Places : p # s => story'[p] = story[p]
        /\ StoriesAreChronicles'
        /\ \A p \in Places : \A d \in Contexts :
              Cut(story[p], d, count.questions) => Cut(story'[p], d, count'.questions)
    <2>1. count'.questions \in Nat /\ count.questions <= count'.questions
      BY <1>1, <1>3
    <2>2. Follows(story[s], count.questions, h, count'.questions)
      BY <1>3, <1>5
    <2> QED
      BY <1>4, <2>1, <2>2, OneStoryFollows DEF WindowInv
  <1>7. SummariesCut' /\ ResultCuts'
    BY <1>4, <1>6, SummariesStay, ResultStays DEF WindowInv, ResultCuts
  <1>8. SightIsOfStory'
    <2>1. SUFFICES ASSUME sight # NoView PROVE Extends(sight.of, story'[sight.session])
      BY <1>4 DEF WindowInv, SightIsOfStory
    <2>2. sight.session \in Places /\ sight.of \in Seq(Message) /\ Extends(sight.of, story[sight.session])
      BY <2>1 DEF WindowInv, SightIsOfStory
    <2>3. CASE sight.session # s
      BY <1>6, <2>2, <2>3
    <2>4. CASE sight.session = s
      <3>1. Len(sight.of) \in Nat /\ Len(story[s]) \in Nat /\ Len(h) \in Nat
        BY <1>1, <1>5, <2>2, SpokenIs
      <3>2. Extends(sight.of, h)
        BY <1>5, <2>2, <2>4, <3>1 DEF Extends
      <3> QED
        BY <1>6, <2>4, <3>2
    <2> QED
      BY <2>3, <2>4
  <1>9. LastTurnsAreSeen'
    BY <1>4 DEF WindowInv, LastTurnsAreSeen, TurnsToSee
  <1>10. WindowTyped'
    BY <1>3, <1>4, <1>6 DEF WindowInv, WindowTyped
  <1> QED
    BY <1>6, <1>7, <1>8, <1>9, <1>10 DEF WindowInv

\* The session as it was is the beginning of the session as it is.
LEMMA AsItWasIsPrefix ==
    ASSUME NEW h \in Seq(Message), NEW m \in Nat
    PROVE  AsItWas(h, m) \in Seq(Message) /\ Extends(AsItWas(h, m), h)
  <1>1. Len(h) \in Nat
    BY SpokenIs
  <1>2. CASE m < Len(h)
    BY <1>1, <1>2, FirstMessages DEF AsItWas
  <1>3. CASE ~ (m < Len(h))
    BY <1>1, <1>3 DEF AsItWas, Extends
  <1> QED
    BY <1>2, <1>3

\* The worker's steps leave the sessions and the turn alone.
LEMMA WorkerLeaves ==
    ASSUME WindowInv, UNCHANGED <<story, here, turns, sight, count>>,
           queue' \in Seq(Job), result' \in Contexts, summary' \in [Places -> Contexts],
           SummariesCut', ResultCuts'
    PROVE  WindowInv'
  <1>1. SightIsOfStory' /\ LastTurnsAreSeen'
    BY DEF WindowInv, SightIsOfStory, LastTurnsAreSeen, TurnsToSee
  <1>2. WindowTyped' /\ StoriesAreChronicles'
    BY DEF WindowInv, WindowTyped, StoriesAreChronicles
  <1> QED
    BY <1>1, <1>2 DEF WindowInv

LEMMA FirstJob ==
    ASSUME WindowInv, queue # <<>>
    PROVE  /\ Head(queue) \in Job /\ Tail(queue) \in Seq(Job)
           /\ Head(queue).session \in Places /\ Head(queue).snap \in Nat /\ Head(queue).keep \in Nat \ {0}
  <1>1. queue \in Seq(Job)
    BY DEF WindowInv, WindowTyped
  <1>2. Head(queue) \in Job /\ Tail(queue) \in Seq(Job)
    BY <1>1, HeadTailProperties
  <1>3. Head(queue).session \in Places /\ Head(queue).snap \in Nat /\ Head(queue).keep \in TurnCounts
    BY <1>2 DEF Job
  <1> QED
    BY <1>2, <1>3, TurnsArePositive

LEMMA SummariseKeeps ==
    ASSUME WindowInv, Summarise
    PROVE  WindowInv'
  <1> DEFINE s == Head(queue).session
             g == AsItWas(story[s], Head(queue).snap)
             k == Head(queue).keep
             text == Head(queue).text
             c == Checkpoint(g, text, k, "history")
             n == count.questions
  <1>1. /\ queue # <<>> /\ c.end > 0 /\ result' = c
        /\ UNCHANGED <<story, summary, here, turns, sight, queue, count>>
    BY DEF Summarise
  <1>2. s \in Places /\ Head(queue).snap \in Nat /\ k \in Nat \ {0}
    BY <1>1, FirstJob
  <1>3. n \in Nat /\ story[s] \in Seq(Message) /\ Chronicle(story[s], n)
    BY <1>2, WindowFacts
  <1>4. g \in Seq(Message) /\ Extends(g, story[s])
    BY <1>2, <1>3, AsItWasIsPrefix
  <1> HIDE DEF g
  <1>5. Cut(story[s], c, n) /\ c \in Contexts
    BY <1>1, <1>2, <1>3, <1>4, CheckpointCuts
  <1> HIDE DEF c
  <1>6. ResultCuts'
    BY <1>1, <1>5 DEF ResultCuts
  <1>7. SummariesCut' /\ summary' \in [Places -> Contexts] /\ queue' \in Seq(Job)
    BY <1>1 DEF WindowInv, WindowTyped, SummariesCut
  <1> QED
    BY <1>1, <1>5, <1>6, <1>7, WorkerLeaves

LEMMA FindNewerKeeps ==
    ASSUME WindowInv, FindNewer
    PROVE  WindowInv'
  <1>1. /\ result # NoContext /\ UNCHANGED <<story, summary, here, turns, sight, count>>
        /\ UNCHANGED <<queue, result>> \/ (queue' = Tail(queue) /\ result' = NoContext)
    BY DEF FindNewer, NextJob
  <1>2. queue # <<>> /\ queue \in Seq(Job) /\ result \in Contexts
    BY <1>1 DEF WindowInv, WindowTyped, ResultCuts
  <1>3. queue' \in Seq(Job)
    BY <1>1, <1>2, FirstJob
  <1>4. ResultCuts' /\ result' \in Contexts
    BY <1>1, <1>2, FirstContexts DEF WindowInv, ResultCuts
  <1>5. SummariesCut' /\ summary' \in [Places -> Contexts]
    BY <1>1 DEF WindowInv, WindowTyped, SummariesCut
  <1> QED
    BY <1>1, <1>3, <1>4, <1>5, WorkerLeaves

LEMMA CompactKeeps ==
    ASSUME WindowInv, Compact
    PROVE  WindowInv'
  <1> DEFINE s == Head(queue).session
  <1>1. /\ result # NoContext /\ summary' = [summary EXCEPT ![s] = result]
        /\ queue' = Tail(queue) /\ result' = NoContext
        /\ UNCHANGED <<story, here, turns, sight, count>>
    BY DEF Compact, NextJob
  <1>2. queue # <<>> /\ Cut(story[s], result, count.questions) /\ result \in Contexts
    BY <1>1 DEF WindowInv, WindowTyped, ResultCuts
  <1>3. s \in Places /\ Tail(queue) \in Seq(Job)
    BY <1>2, FirstJob
  <1>4. SummariesCut' /\ summary' \in [Places -> Contexts]
    BY <1>1, <1>2, <1>3 DEF WindowInv, WindowTyped, SummariesCut
  <1>5. ResultCuts' /\ result' \in Contexts
    BY <1>1, <1>2, FirstContexts DEF ResultCuts
  <1> QED
    BY <1>1, <1>3, <1>4, <1>5, WorkerLeaves

LEMMA CompactFailsKeeps ==
    ASSUME WindowInv, CompactFails
    PROVE  WindowInv'
  <1>1. /\ queue # <<>> /\ queue' = Tail(queue) /\ result' = NoContext
        /\ UNCHANGED <<story, summary, here, turns, sight, count>>
    BY DEF CompactFails, NextJob
  <1>2. Tail(queue) \in Seq(Job)
    BY <1>1, FirstJob
  <1>3. SummariesCut' /\ summary' \in [Places -> Contexts] /\ result \in Contexts
    BY <1>1 DEF WindowInv, WindowTyped, SummariesCut
  <1>4. ResultCuts' /\ result' \in Contexts
    BY <1>1, <1>3, FirstContexts DEF ResultCuts
  <1> QED
    BY <1>1, <1>2, <1>3, <1>4, WorkerLeaves

\* A restart, and a turn that raises: nothing is shown any more.
LEMMA TurnGoesKeeps ==
    ASSUME WindowInv, Raise \/ Reconfigure
    PROVE  WindowInv'
  <1>1. sight' = NoView /\ UNCHANGED <<story, summary, here, queue>> /\ turns' \in TurnCounts
        /\ result' \in {result, NoContext}
    BY DEF Raise, Reconfigure, WindowInv, WindowTyped
  <1>2. count' \in [questions : Nat, notes : Nat, configs : Nat] /\ count'.questions = count.questions
    <2>1. count' = count \/ count' = [count EXCEPT !.configs = @ + 1]
      BY DEF Raise, Reconfigure
    <2>2. count \in [questions : Nat, notes : Nat, configs : Nat]
      BY DEF WindowInv, WindowTyped
    <2> QED
      BY <2>1, <2>2
  <1>3. SightIsOfStory' /\ LastTurnsAreSeen'
    BY <1>1, NothingToSee
  <1>4. StoriesAreChronicles' /\ SummariesCut'
    BY <1>1, <1>2 DEF WindowInv, StoriesAreChronicles, SummariesCut
  <1>5. ResultCuts'
    BY <1>1, <1>2 DEF WindowInv, ResultCuts
  <1>6. WindowTyped'
    <2>1. result' \in Contexts
      BY <1>1, FirstContexts DEF WindowInv, WindowTyped
    <2> QED
      BY <1>1, <1>2, <2>1 DEF WindowInv, WindowTyped
  <1> QED
    BY <1>3, <1>4, <1>5, <1>6 DEF WindowInv

LEMMA WindowInvStays ==
    ASSUME WindowInv, [WindowNext]_windowVars
    PROVE  WindowInv'
  <1>1. CASE UNCHANGED windowVars
    BY <1>1 DEF windowVars, WindowInv, WindowTyped, StoriesAreChronicles, SummariesCut, ResultCuts,
                SightIsOfStory, LastTurnsAreSeen, TurnsToSee
  <1>2. CASE WindowNext
    BY <1>2, AskKeeps, TooLongKeeps, NewSessionKeeps, ResumeKeeps, AnswerKeeps, TurnGoesKeeps,
       NotifyKeeps, SummariseKeeps, FindNewerKeeps, CompactKeeps, CompactFailsKeeps DEF WindowNext
  <1> QED
    BY <1>1, <1>2

\* A turn sees all it needs: whatever the sessions went through, of the last
\* turns all that is not shown is in the summary, and a summary stands for just
\* what is before its end (runtime/context.py, session/compaction_runner.py).
THEOREM ContextStaysWhole == WindowSpec => []ContextIsWhole
  <1>1. WindowInit => WindowInv
    BY WindowBegins
  <1>2. WindowInv /\ [WindowNext]_windowVars => WindowInv'
    BY WindowInvStays
  <1>3. WindowInv => ContextIsWhole
    <2>1. SUFFICES ASSUME WindowInv, NEW s \in Places
                   PROVE  summary[s].covers =
                            {story[s][i] : i \in {j \in Of(story[s], {"user", "assistant"}, 0) :
                                                     j <= summary[s].end}}
      BY DEF ContextIsWhole, CutIsWhatIsSummarised, WindowInv
    <2>2. story[s] \in Seq(Message) /\ Cut(story[s], summary[s], count.questions)
      BY <2>1, WindowFacts
    <2>3. Of(story[s], {"user", "assistant"}, 0) = Spoken(story[s])
      BY <2>2, SpokenIs
    <2> QED
      BY <2>2, <2>3 DEF Cut
  <1> QED
    BY <1>1, <1>2, <1>3, PTL DEF WindowSpec
=============================================================================
