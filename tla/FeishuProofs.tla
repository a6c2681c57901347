---------------------------- MODULE FeishuProofs ----------------------------
(* Proofs about the Feishu channel, for any messages, copies, frames, chats, *)
(* threads and retries: a message has one answer, unless the answer to a     *)
(* request was lost, and no answer vanishes.                                 *)
EXTENDS FeishuIngress, WellFoundedInduction, TLAPS

\* What the proofs need of the types.
Typed ==
    /\ at \in [Turns -> Steps]
    /\ place \in [Turns -> Places]
    /\ kind \in [Turns -> {"final", "error"}]
    /\ lane \in [Chats -> Seq(Turns)]
    /\ sent = [m \in Messages |-> sent[m]]
    /\ \A m \in Messages : sent[m] \in [1..Parts[m] -> Nat]
    /\ fragments = [m \in Messages |-> fragments[m]]
    /\ \A m \in Messages : fragments[m] \subseteq 1..Parts[m]
    /\ scanning \subseteq Turns
    /\ shown \subseteq Turns /\ lost \subseteq shown

InLane == {"lane", "turn", "delivery"}
Inside == {"turn", "delivery"}

\* The dispatches in a lane are in it once, and one that is inside comes first.
Lanes ==
    /\ \A c \in Chats : \A i \in 1..Len(lane[c]) :
          /\ Chat(lane[c][i]) = c /\ at[lane[c][i]] \in InLane
          /\ \A j \in 1..Len(lane[c]) : lane[c][i] = lane[c][j] => i = j
    /\ \A t \in Turns :
          at[t] \in InLane => \E i \in 1..Len(lane[Chat(t)]) : lane[Chat(t)][i] = t
    /\ \A t \in Turns : at[t] \in Inside => lane[Chat(t)][1] = t

\* The copies of a message are dispatched in order, and each was completed by
\* a frame of every part.
InOrder ==
    /\ \A m \in Messages : \A p \in fragments[m] : sent[m][p] >= 1
    /\ \A m \in Messages : \A n \in 1..Copies[m] : at[<<m, n>>] # "unsent" =>
          /\ \A k \in 1..n : at[<<m, k>>] # "unsent"
          /\ \A p \in 1..Parts[m] : n + (IF p \in fragments[m] THEN 1 ELSE 0) <= sent[m][p]

\* Those that iterate are at that step.
Iterations == \A t \in scanning : at[t] = "scanned"

Underway == {"ready", "sending", "sent", "waiting", "given up"}

\* A delivery has begun by its dispatch and is over before its dispatch is.
Begun(t) ==
    /\ place[t] # "idle" => at[t] \in {"delivery", "done", "failed"}
    /\ place[t] \in Underway => at[t] = "delivery"

\* What a delivery has shown and left by its place.
Told(t) ==
    /\ t \in shown => place[t] \notin {"idle", "ready"}
    /\ t \in shown => t \in lost \/ place[t] \in {"sent", "delivered"}
    /\ place[t] \in {"sent", "delivered"} => t \in shown
    /\ place[t] \in {"given up", "failed"} => t \in dead

\* A final's key is recorded when it is delivered, and not before.
KeyKept(t) ==
    kind[t] = "final" =>
      /\ place[t] = "delivered" => KeyOf[t] \in delivered
      /\ place[t] \in {"sending", "sent", "waiting"} => KeyOf[t] \notin delivered

\* A final of this key has been shown.
Answered(k) == \E e \in Turns : KeyOf[e] = k /\ kind[e] = "final" /\ e \in shown

Deliveries ==
    /\ \A t \in Turns : Begun(t) /\ Told(t) /\ KeyKept(t)
    /\ \A t \in Turns : place[t] = "skipped" => Answered(KeyOf[t])
    /\ \A k \in delivered : Answered(k)

IInv == Typed /\ Lanes /\ InOrder /\ Iterations /\ Deliveries /\ AnsweredOnce

-----------------------------------------------------------------------------
(* Lanes and copies.                                                         *)

LEMMA CopiesAreTurns ==
    \A m \in Messages : Copies[m] \in Nat /\ \A n \in 1..Copies[m] : <<m, n>> \in Turns
BY MessagesAndCopies

LEMMA TurnsAreCopies ==
    \A t \in Turns : t[1] \in Messages /\ Chat(t) \in Chats /\ KeyOf[t] = t[1]
BY MessagesAndCopies DEF Chat, Message

\* Deliveries under one key are in one chat, whose lane one of them holds.
LEMMA OneAtATime ==
    ASSUME Lanes, NEW t \in Turns, NEW u \in Turns, KeyOf[t] = KeyOf[u],
           at[t] \in Inside, at[u] \in Inside
    PROVE  t = u
<1>1. Chat(t) = Chat(u)
  BY TurnsAreCopies DEF Chat, Message
<1> QED
  BY <1>1 DEF Lanes

\* Steps away from the lanes.
LEMMA LanesStay ==
    ASSUME Typed, Lanes, lane' = lane,
           \A t \in Turns : at'[t] = at[t] \/ (at[t] \notin InLane /\ at'[t] \notin InLane)
    PROVE  Lanes'
<1>1. \A c \in Chats : \A i \in 1..Len(lane[c]) : lane[c][i] \in Turns
  BY DEF Typed
<1>2. \A t \in Turns : Chat(t)' = Chat(t)
  BY DEF Chat, Message
<1>3. \A t \in Turns : Chat(t) \in Chats
  BY TurnsAreCopies
<1>4. \A c \in Chats : \A i \in 1..Len(lane[c]) :
          /\ Chat(lane[c][i]) = c /\ at'[lane[c][i]] \in InLane
          /\ \A j \in 1..Len(lane[c]) : lane[c][i] = lane[c][j] => i = j
  BY <1>1 DEF Lanes
<1>5. \A t \in Turns : at'[t] \in InLane => \E i \in 1..Len(lane[Chat(t)]) : lane[Chat(t)][i] = t
  BY DEF Lanes
<1>6. \A t \in Turns : at'[t] \in Inside => lane[Chat(t)][1] = t
  BY DEF Lanes, InLane, Inside
<1> QED
  BY <1>4, <1>5, <1>6 DEF Lanes, Chat, Message

\* A dispatch joins the end of its lane.
LEMMA LaneJoined ==
    ASSUME Typed, Lanes, NEW t \in Turns, at[t] = "reaction",
           lane' = [lane EXCEPT ![Chat(t)] = Append(@, t)],
           at' = [at EXCEPT ![t] = "lane"]
    PROVE  lane' \in [Chats -> Seq(Turns)] /\ Lanes'
<1> DEFINE c0 == Chat(t)
           old == lane[c0]
           new == lane'[c0]
<1>1. c0 \in Chats /\ \A u \in Turns : Chat(u) \in Chats
  BY TurnsAreCopies
<1>2. old \in Seq(Turns) /\ new = Append(old, t) /\ lane' \in [Chats -> Seq(Turns)]
      /\ \A c \in Chats : c # c0 => lane'[c] = lane[c]
  BY <1>1 DEF Typed
<1>3. /\ Len(new) = Len(old) + 1 /\ Len(old) \in Nat
      /\ \A i \in 1..Len(old) : new[i] = old[i] /\ old[i] \in Turns
      /\ new[Len(old) + 1] = t
  BY <1>2
<1>4. \A u \in Turns : at'[u] = IF u = t THEN "lane" ELSE at[u]
  BY DEF Typed
<1>5. \A i \in 1..Len(old) : old[i] # t
  BY <1>1 DEF Lanes, InLane
<1>9. \A u \in Turns : at[u] \in InLane => at'[u] \in InLane
  BY <1>4 DEF InLane
<1>6. ASSUME NEW c \in Chats, NEW i \in 1..Len(lane'[c])
      PROVE  /\ Chat(lane'[c][i]) = c /\ at'[lane'[c][i]] \in InLane
             /\ \A j \in 1..Len(lane'[c]) : lane'[c][i] = lane'[c][j] => i = j
  <2>1. CASE c # c0
    <3>1. lane'[c] = lane[c] /\ lane[c][i] \in Turns
      BY <1>2, <2>1 DEF Typed
    <3>2. at'[lane[c][i]] \in InLane
      BY <1>9, <3>1 DEF Lanes
    <3>3. /\ i \in 1..Len(lane[c]) /\ Chat(lane[c][i]) = c
          /\ \A j \in 1..Len(lane[c]) : lane[c][i] = lane[c][j] => i = j
      BY <3>1 DEF Lanes
    <3> QED
      BY <3>1, <3>2, <3>3
  <2>2. CASE c = c0
    <3>1. CASE i \in 1..Len(old)
      <4>1. new[i] = old[i] /\ at'[old[i]] \in InLane /\ Chat(old[i]) = c0
        BY <1>1, <1>3, <1>9, <3>1 DEF Lanes
      <4>2. ASSUME NEW j \in 1..Len(new), new[i] = new[j]
            PROVE  i = j
        <5>1. j \in 1..Len(old)
          BY <1>3, <1>5, <3>1, <4>1, <4>2
        <5> QED
          BY <1>1, <1>3, <3>1, <4>2, <5>1 DEF Lanes
      <4> QED
        BY <2>2, <4>1, <4>2
    <3>2. CASE i = Len(old) + 1
      <4>1. new[i] = t /\ at'[t] \in InLane
        BY <1>3, <1>4, <3>2 DEF InLane
      <4>2. ASSUME NEW j \in 1..Len(new), new[i] = new[j]
            PROVE  i = j
        <5>1. j \notin 1..Len(old)
          BY <1>3, <1>5, <4>1, <4>2
        <5> QED
          BY <1>3, <3>2, <5>1
      <4> QED
        BY <2>2, <4>1, <4>2
    <3> QED
      BY <1>3, <2>2, <3>1, <3>2
  <2> QED
    BY <2>1, <2>2
<1>7. ASSUME NEW u \in Turns, at'[u] \in InLane
      PROVE  \E i \in 1..Len(lane'[Chat(u)]) : lane'[Chat(u)][i] = u
  <2>1. CASE u = t
    <3>1. Len(old) + 1 \in 1..Len(new)
      BY <1>3
    <3> QED
      BY <1>3, <2>1, <3>1
  <2>2. CASE u # t
    <3>1. PICK i \in 1..Len(lane[Chat(u)]) : lane[Chat(u)][i] = u
      BY <1>4, <1>7, <2>2 DEF Lanes
    <3>2. CASE Chat(u) = c0
      <4>1. i \in 1..Len(new) /\ new[i] = u
        BY <1>3, <3>1, <3>2
      <4> QED
        BY <3>2, <4>1
    <3>3. CASE Chat(u) # c0
      BY <1>1, <1>2, <3>1, <3>3
    <3> QED
      BY <3>2, <3>3
  <2> QED
    BY <2>1, <2>2
<1>8. ASSUME NEW u \in Turns, at'[u] \in Inside
      PROVE  lane'[Chat(u)][1] = u
  <2>1. u # t /\ at[u] \in Inside
    BY <1>4, <1>8 DEF Inside
  <2>2. lane[Chat(u)][1] = u /\ Len(lane[Chat(u)]) >= 1
    <3>1. PICK i \in 1..Len(lane[Chat(u)]) : lane[Chat(u)][i] = u
      BY <2>1 DEF Lanes, Inside, InLane
    <3>2. Len(lane[Chat(u)]) \in Nat
      BY <1>1 DEF Typed
    <3> QED
      BY <2>1, <3>1, <3>2 DEF Lanes
  <2>3. CASE Chat(u) = c0
    <3>1. 1 \in 1..Len(old) /\ old[1] = u
      BY <1>3, <2>2, <2>3
    <3> QED
      BY <1>3, <2>3, <3>1
  <2>4. CASE Chat(u) # c0
    BY <1>1, <1>2, <2>2, <2>4
  <2> QED
    BY <2>3, <2>4
<1> QED
  BY <1>2, <1>6, <1>7, <1>8 DEF Lanes, Chat, Message

\* A dispatch that is inside leaves its lane.
LEMMA LaneLeft ==
    ASSUME Typed, Lanes, NEW t \in Turns, at[t] \in Inside, NEW p, p \notin InLane,
           lane' = [lane EXCEPT ![Chat(t)] = Tail(@)],
           at' = [at EXCEPT ![t] = p]
    PROVE  lane' \in [Chats -> Seq(Turns)] /\ Lanes'
<1> DEFINE c0 == Chat(t)
           old == lane[c0]
           new == lane'[c0]
<1>1. c0 \in Chats /\ \A u \in Turns : Chat(u) \in Chats
  BY TurnsAreCopies
<1>2. old \in Seq(Turns) /\ Len(old) \in Nat /\ old[1] = t /\ Len(old) >= 1
  <2>1. PICK i \in 1..Len(old) : old[i] = t
    BY DEF Lanes, Inside, InLane
  <2> QED
    BY <1>1, <2>1 DEF Typed, Lanes
<1>3. /\ new = Tail(old) /\ lane' \in [Chats -> Seq(Turns)]
      /\ \A c \in Chats : c # c0 => lane'[c] = lane[c]
  <2>1. Tail(old) \in Seq(Turns)
    <3>1. old # <<>>
      BY <1>2
    <3> QED
      BY <1>2, <3>1
  <2> QED
    BY <1>1, <2>1 DEF Typed
<1>4. /\ Len(new) = Len(old) - 1 /\ Len(new) \in Nat
      /\ \A i \in 1..Len(new) : new[i] = old[i + 1] /\ i + 1 \in 1..Len(old) /\ old[i + 1] \in Turns
  <2>1. old # <<>>
    BY <1>2
  <2>2. Len(Tail(old)) = Len(old) - 1 /\ \A i \in 1..(Len(old) - 1) : Tail(old)[i] = old[i + 1]
    BY <1>2, <2>1
  <2> QED
    BY <1>2, <1>3, <2>2
<1>5. \A u \in Turns : at'[u] = IF u = t THEN p ELSE at[u]
  BY DEF Typed
<1>6. \A i \in 2..Len(old) : old[i] # t
  BY <1>1, <1>2 DEF Lanes
<1>7. ASSUME NEW c \in Chats, NEW i \in 1..Len(lane'[c])
      PROVE  /\ Chat(lane'[c][i]) = c /\ at'[lane'[c][i]] \in InLane
             /\ \A j \in 1..Len(lane'[c]) : lane'[c][i] = lane'[c][j] => i = j
  <2>1. CASE c # c0
    <3>1. lane'[c] = lane[c] /\ lane[c][i] \in Turns /\ lane[c][i] # t
      BY <1>3, <2>1 DEF Typed, Lanes
    <3>2. at'[lane[c][i]] \in InLane
      BY <1>5, <3>1 DEF Lanes
    <3> QED
      BY <3>1, <3>2 DEF Lanes
  <2>2. CASE c = c0
    <3>1. new[i] = old[i + 1] /\ i + 1 \in 1..Len(old) /\ old[i + 1] # t /\ old[i + 1] \in Turns
      BY <1>2, <1>4, <1>6, <2>2
    <3>2. Chat(old[i + 1]) = c0 /\ at'[old[i + 1]] \in InLane
      BY <1>1, <1>5, <3>1 DEF Lanes
    <3>3. ASSUME NEW j \in 1..Len(new), new[i] = new[j]
          PROVE  i = j
      <4>1. new[j] = old[j + 1] /\ j + 1 \in 1..Len(old)
        BY <1>4
      <4>2. i + 1 = j + 1
        BY <1>1, <3>1, <3>3, <4>1 DEF Lanes
      <4> QED
        BY <1>4, <2>2, <4>2
    <3> QED
      BY <2>2, <3>1, <3>2, <3>3
  <2> QED
    BY <2>1, <2>2
<1>8. ASSUME NEW u \in Turns, at'[u] \in InLane
      PROVE  \E i \in 1..Len(lane'[Chat(u)]) : lane'[Chat(u)][i] = u
  <2>1. u # t /\ at[u] \in InLane
    BY <1>5, <1>8
  <2>2. PICK i \in 1..Len(lane[Chat(u)]) : lane[Chat(u)][i] = u
    BY <2>1 DEF Lanes
  <2>3. CASE Chat(u) = c0
    <3>1. i # 1 /\ i \in 1..Len(old) /\ old[i] = u
      BY <1>2, <2>1, <2>2, <2>3
    <3>2. i - 1 \in 1..Len(new) /\ (i - 1) + 1 = i
      BY <1>2, <1>4, <3>1
    <3>3. new[i - 1] = u
      BY <1>4, <3>1, <3>2
    <3> QED
      BY <2>3, <3>2, <3>3
  <2>4. CASE Chat(u) # c0
    BY <1>1, <1>3, <2>2, <2>4
  <2> QED
    BY <2>3, <2>4
<1>9. ASSUME NEW u \in Turns, at'[u] \in Inside
      PROVE  lane'[Chat(u)][1] = u
  <2>1. u # t /\ at[u] \in Inside
    BY <1>5, <1>9 DEF Inside, InLane
  <2>2. Chat(u) # c0 /\ lane[Chat(u)][1] = u
    BY <1>2, <2>1 DEF Lanes
  <2> QED
    BY <1>1, <1>3, <2>2
<1> QED
  BY <1>3, <1>7, <1>8, <1>9 DEF Lanes, Chat, Message

\* A dispatch takes or keeps the head of its lane.
LEMMA LaneEntered ==
    ASSUME Typed, Lanes, NEW t \in Turns, at[t] \in InLane, NEW p \in Inside,
           Head(lane[Chat(t)]) = t, lane' = lane, at' = [at EXCEPT ![t] = p]
    PROVE  Lanes'
<1>1. /\ Chat(t) \in Chats
      /\ \A c \in Chats : \A i \in 1..Len(lane[c]) : lane[c][i] \in Turns
  BY TurnsAreCopies DEF Typed
<1>2. lane[Chat(t)][1] = t
  BY <1>1 DEF Typed
<1>3. \A u \in Turns : at'[u] = IF u = t THEN p ELSE at[u]
  BY DEF Typed
<1>4. \A u \in Turns : at'[u] \in InLane <=> at[u] \in InLane
  BY <1>3 DEF InLane, Inside
<1>5. \A c \in Chats : \A i \in 1..Len(lane[c]) :
          /\ Chat(lane[c][i]) = c /\ at'[lane[c][i]] \in InLane
          /\ \A j \in 1..Len(lane[c]) : lane[c][i] = lane[c][j] => i = j
  BY <1>1, <1>4 DEF Lanes
<1>6. \A u \in Turns : at'[u] \in InLane => \E i \in 1..Len(lane[Chat(u)]) : lane[Chat(u)][i] = u
  BY <1>4 DEF Lanes
<1>7. \A u \in Turns : at'[u] \in Inside => lane[Chat(u)][1] = u
  BY <1>2, <1>3 DEF Lanes
<1> QED
  BY <1>5, <1>6, <1>7 DEF Lanes, Chat, Message

-----------------------------------------------------------------------------
(* Frames.                                                                   *)

\* There is a copy to dispatch, the first that was not.
LEMMA CopyIsNext ==
    ASSUME InOrder, Typed, NEW m \in Messages, NEW p \in 1..Parts[m], sent[m][p] < Copies[m]
    PROVE  /\ Copy(m) \in 1..Copies[m] /\ at[<<m, Copy(m)>>] = "unsent"
           /\ \A k \in 1..(Copy(m) - 1) : at[<<m, k>>] # "unsent"
<1> DEFINE open == {n \in 1..Copies[m] : at[<<m, n>>] = "unsent"}
           less == {q \in Nat \X Nat : q[1] < q[2]}
<1>1. Copies[m] \in Nat /\ sent[m][p] \in Nat
  BY CopiesAreTurns DEF Typed
<1>2. sent[m][p] + 1 \in 1..Copies[m]
  BY <1>1
<1>3. at[<<m, sent[m][p] + 1>>] = "unsent"
  <2>1. ASSUME NEW n \in 1..Copies[m], n = sent[m][p] + 1, at[<<m, n>>] # "unsent"
        PROVE  FALSE
    <3>1. n + (IF p \in fragments[m] THEN 1 ELSE 0) <= sent[m][p]
      BY <2>1 DEF InOrder
    <3> QED
      BY <1>1, <2>1, <3>1
  <2> QED
    BY <1>2, <2>1
<1>4. open # {} /\ open \in SUBSET Nat
  BY <1>2, <1>3
<1>5. IsWellFoundedOn(less, Nat)
  <2>1. less = OpToRel(<, Nat)
    BY DEF OpToRel
  <2> QED
    BY <2>1, NatLessThanWellFounded
<1> HIDE DEF less
<1>6. PICK n \in open : \A k \in open : ~(<<k, n>> \in less)
  BY <1>4, <1>5, WFMin, Zenon
<1>7. ASSUME NEW k \in 1..(n - 1)
      PROVE  at[<<m, k>>] # "unsent"
  <2>1. n \in Nat /\ k \in Nat /\ k < n /\ n <= Copies[m]
    BY <1>1
  <2>2. <<k, n>> \in less
    BY <2>1 DEF less
  <2>3. k \in 1..Copies[m]
    BY <1>1, <2>1
  <2> QED
    BY <1>6, <2>2, <2>3
<1> QED
  BY <1>7 DEF Copy

LEMMA ReceiveInOrder ==
    ASSUME Typed, InOrder, Lanes, NEW m \in Messages, NEW p \in 1..Parts[m], Receive(m, p)
    PROVE  Typed' /\ InOrder'
<1> DEFINE t == <<m, Copy(m)>>
           bit(q) == IF q \in fragments[m] THEN 1 ELSE 0
<1>1. /\ sent[m][p] < Copies[m]
      /\ sent' = [sent EXCEPT ![m][p] = @ + 1]
      /\ UNCHANGED <<scanning, lane, place, kind, shown, lost>>
  BY DEF Receive, deliveryVars
<1>2. /\ \A q \in 1..Parts[m] : sent[m][q] \in Nat /\ sent'[m][q] = sent[m][q] + (IF q = p THEN 1 ELSE 0)
      /\ \A n \in Messages : n # m => sent'[n] = sent[n]
      /\ sent' = [n \in Messages |-> sent'[n]]
      /\ \A n \in Messages : sent'[n] \in [1..Parts[n] -> Nat]
  <2> DEFINE row == [sent[m] EXCEPT ![p] = @ + 1]
  <2>1. sent = [n \in Messages |-> sent[n]] /\ \A n \in Messages : sent[n] \in [1..Parts[n] -> Nat]
    BY DEF Typed
  <2>2. /\ row \in [1..Parts[m] -> Nat]
        /\ \A q \in 1..Parts[m] : sent[m][q] \in Nat /\ row[q] = sent[m][q] + (IF q = p THEN 1 ELSE 0)
    <3> DEFINE old == sent[m]
    <3>1. old \in [1..Parts[m] -> Nat] /\ row = [old EXCEPT ![p] = old[p] + 1]
      BY <2>1
    <3> HIDE DEF old, row
    <3>2. \A q \in 1..Parts[m] : old[q] \in Nat
      BY <3>1
    <3>3. \A q \in 1..Parts[m] : row[q] = old[q] + (IF q = p THEN 1 ELSE 0)
      BY <3>1, <3>2
    <3>4. row \in [1..Parts[m] -> Nat]
      BY <3>1, <3>2
    <3> QED
      BY <3>2, <3>3, <3>4 DEF old
  <2>3. sent' = [sent EXCEPT ![m] = row]
    BY <1>1
  <2> HIDE DEF row
  <2>4. sent' = [n \in Messages |-> IF n = m THEN row ELSE sent[n]]
    BY <2>1, <2>3
  <2>5. sent' = [n \in Messages |-> sent'[n]] /\ sent'[m] = row /\ \A n \in Messages : n # m => sent'[n] = sent[n]
    BY <2>4
  <2> QED
    BY <2>1, <2>2, <2>5
<1>3. CASE /\ Fragments(m, p) = 1..Parts[m]
           /\ fragments' = [fragments EXCEPT ![m] = {}]
           /\ Move(t, "queued")
  <2>1. /\ Copy(m) \in 1..Copies[m] /\ at[t] = "unsent" /\ t \in Turns
        /\ \A k \in 1..(Copy(m) - 1) : at[<<m, k>>] # "unsent"
    BY <1>1, CopyIsNext, CopiesAreTurns
  <2>2. \A u \in Turns : at'[u] = IF u = t THEN "queued" ELSE at[u]
    BY <1>3 DEF Move, Typed
  <2>3. /\ fragments'[m] = {}
        /\ \A n \in Messages : n # m => fragments'[n] = fragments[n]
        /\ fragments' = [n \in Messages |-> fragments'[n]]
        /\ \A q \in 1..Parts[m] : q # p => q \in fragments[m]
    BY <1>3 DEF Typed, Fragments
  <2>4. Typed'
    <3>1. at' \in [Turns -> Steps]
      BY <1>3 DEF Move, Typed, Steps
    <3>2. \A n \in Messages : fragments'[n] \subseteq 1..Parts[n]
      BY <2>3 DEF Typed
    <3> QED
      BY <1>1, <1>2, <2>3, <3>1, <3>2 DEF Typed
  <2>5. \A n \in Messages : \A q \in fragments'[n] : sent'[n][q] >= 1
    BY <1>2, <2>3 DEF InOrder
  <2>6. ASSUME NEW n \in Messages, NEW k \in 1..Copies[n], at'[<<n, k>>] # "unsent"
        PROVE  /\ \A j \in 1..k : at'[<<n, j>>] # "unsent"
               /\ \A q \in 1..Parts[n] : k + (IF q \in fragments'[n] THEN 1 ELSE 0) <= sent'[n][q]
    <3>1. Copies[n] \in Nat /\ Copies[m] \in Nat /\ \A j \in 1..k : <<n, j>> \in Turns
      BY CopiesAreTurns
    <3>2. CASE n # m
      <4>1. \A j \in 1..k : at'[<<n, j>>] = at[<<n, j>>]
        BY <2>2, <3>1, <3>2
      <4> QED
        BY <1>2, <2>3, <2>6, <3>1, <3>2, <4>1 DEF InOrder
    <3>3. CASE n = m /\ k = Copy(m)
      <4>1. \A j \in 1..k : at'[<<m, j>>] # "unsent"
        <5>1. ASSUME NEW j \in 1..k
              PROVE  at'[<<m, j>>] # "unsent"
          <6>1. j = Copy(m) \/ j \in 1..(Copy(m) - 1)
            BY <2>1, <3>1, <3>3
          <6> QED
            BY <2>1, <2>2, <3>1, <3>3, <6>1
        <5> QED
          BY <5>1
      <4>2. ASSUME NEW q \in 1..Parts[m]
            PROVE  k <= sent'[m][q]
        <5>1. CASE k = 1
          BY <1>2, <2>3, <5>1 DEF InOrder
        <5>2. CASE k # 1
          <6>1. k - 1 \in 1..Copies[m] /\ k - 1 \in 1..(Copy(m) - 1) /\ k \in Nat
            BY <2>1, <3>1, <3>3, <5>2
          <6>2. (k - 1) + bit(q) <= sent[m][q]
            BY <2>1, <6>1 DEF InOrder
          <6> QED
            BY <1>2, <2>3, <6>1, <6>2
        <5> QED
          BY <5>1, <5>2
      <4> QED
        BY <2>3, <3>3, <4>1, <4>2
    <3>4. CASE n = m /\ k # Copy(m)
      <4>1. at[<<m, k>>] # "unsent"
        BY <2>2, <2>6, <3>1, <3>4
      <4>2. /\ \A j \in 1..k : at[<<m, j>>] # "unsent"
            /\ \A q \in 1..Parts[m] : k + bit(q) <= sent[m][q]
        BY <3>4, <4>1 DEF InOrder
      <4>3. \A j \in 1..k : at'[<<m, j>>] # "unsent"
        BY <2>2, <3>1, <3>4, <4>2
      <4>4. \A q \in 1..Parts[m] : k <= sent'[m][q]
        BY <1>2, <3>1, <4>2
      <4> QED
        BY <2>3, <3>4, <4>3, <4>4
    <3> QED
      BY <3>2, <3>3, <3>4
  <2> QED
    BY <2>4, <2>5, <2>6 DEF InOrder
<1>4. CASE /\ fragments' = [fragments EXCEPT ![m] = Fragments(m, p)]
           /\ at' = at
  <2>1. /\ fragments'[m] = fragments[m] \cup {p}
        /\ \A n \in Messages : n # m => fragments'[n] = fragments[n]
        /\ fragments' = [n \in Messages |-> fragments'[n]]
    BY <1>4 DEF Typed, Fragments
  <2>2. Typed'
    BY <1>1, <1>2, <1>4, <2>1 DEF Typed
  <2>3. \A n \in Messages : \A q \in fragments'[n] : sent'[n][q] >= 1
    <3>1. ASSUME NEW q \in fragments'[m]
          PROVE  sent'[m][q] >= 1
      <4>1. q \in 1..Parts[m] /\ (q = p \/ sent[m][q] >= 1)
        BY <2>1 DEF Typed, InOrder
      <4> QED
        BY <1>2, <4>1
    <3> QED
      BY <1>2, <2>1, <3>1 DEF InOrder
  <2>4. ASSUME NEW n \in Messages, NEW k \in 1..Copies[n], at[<<n, k>>] # "unsent"
        PROVE  /\ \A j \in 1..k : at[<<n, j>>] # "unsent"
               /\ \A q \in 1..Parts[n] : k + (IF q \in fragments'[n] THEN 1 ELSE 0) <= sent'[n][q]
    <3>1. /\ \A j \in 1..k : at[<<n, j>>] # "unsent"
          /\ \A q \in 1..Parts[n] : k + (IF q \in fragments[n] THEN 1 ELSE 0) <= sent[n][q]
      BY <2>4 DEF InOrder
    <3>2. CASE n # m
      BY <1>2, <2>1, <3>1, <3>2
    <3>3. CASE n = m
      <4>1. ASSUME NEW q \in 1..Parts[m]
            PROVE  k + (IF q \in fragments'[m] THEN 1 ELSE 0) <= sent'[m][q]
        <5>1. k \in Nat /\ k + (IF q \in fragments[m] THEN 1 ELSE 0) <= sent[m][q]
          BY <3>1, <3>3, CopiesAreTurns
        <5> QED
          BY <1>2, <2>1, <5>1
      <4> QED
        BY <3>1, <3>3, <4>1
    <3> QED
      BY <3>2, <3>3
  <2> QED
    BY <1>4, <2>2, <2>3, <2>4 DEF InOrder
<1>5. \/ /\ Fragments(m, p) = 1..Parts[m]
         /\ fragments' = [fragments EXCEPT ![m] = {}]
         /\ Move(t, "queued")
      \/ /\ fragments' = [fragments EXCEPT ![m] = Fragments(m, p)]
         /\ at' = at
  BY DEF Receive
<1> QED
  BY <1>3, <1>4, <1>5

LEMMA OrderStays ==
    ASSUME InOrder, sent' = sent, fragments' = fragments,
           \A t \in Turns : at'[t] = "unsent" <=> at[t] = "unsent"
    PROVE  InOrder'
<1>1. \A m \in Messages : \A n \in 1..Copies[m] :
          (at'[<<m, n>>] = "unsent" <=> at[<<m, n>>] = "unsent")
          /\ \A k \in 1..n : at'[<<m, k>>] = "unsent" <=> at[<<m, k>>] = "unsent"
  <2> SUFFICES ASSUME NEW m \in Messages, NEW n \in 1..Copies[m], NEW k \in 1..n
               PROVE  /\ at'[<<m, n>>] = "unsent" <=> at[<<m, n>>] = "unsent"
                      /\ at'[<<m, k>>] = "unsent" <=> at[<<m, k>>] = "unsent"
    OBVIOUS
  <2>1. k \in 1..Copies[m]
    BY CopiesAreTurns
  <2>2. <<m, n>> \in Turns /\ <<m, k>> \in Turns
    BY <2>1, CopiesAreTurns
  <2> QED
    BY <2>2
<1> QED
  BY <1>1 DEF InOrder

-----------------------------------------------------------------------------
(* Deliveries.                                                               *)

\* A step of dispatches that no delivery takes part in.
LEMMA DeliveriesStay ==
    ASSUME Deliveries, AnsweredOnce, UNCHANGED deliveryVars,
           \A t \in Turns : \/ at'[t] = at[t]
                            \/ at[t] \notin {"delivery", "done", "failed"}
                            \/ place[t] \in Ended /\ at'[t] \in {"done", "failed"}
    PROVE  Deliveries' /\ AnsweredOnce'
<1>1. /\ delivered' = delivered /\ dead' = dead /\ place' = place /\ kind' = kind
      /\ shown' = shown /\ lost' = lost
  BY DEF deliveryVars
<1>2. ASSUME NEW t \in Turns
      PROVE  Begun(t)'
  <2>1. CASE place[t] \in Ended
    BY <1>1, <2>1 DEF Begun, Ended, Underway, Deliveries
  <2>2. CASE place[t] \notin Ended
    BY <1>1, <2>2 DEF Begun, Underway, Deliveries
  <2> QED
    BY <2>1, <2>2
<1>3. \A t \in Turns : Told(t)' /\ KeyKept(t)'
  BY <1>1 DEF Told, KeyKept, Deliveries
<1>4. \A k : Answered(k)' <=> Answered(k)
  BY <1>1 DEF Answered
<1>5. AnsweredOnce'
  BY <1>1 DEF AnsweredOnce
<1>6. /\ \A t \in Turns : place'[t] = "skipped" => Answered(KeyOf[t])'
      /\ \A k \in delivered' : Answered(k)'
  BY <1>1, <1>4 DEF Deliveries
<1> QED
  BY <1>2, <1>3, <1>5, <1>6 DEF Deliveries

\* A delivery moves on, and what it does concerns itself, and the keys that
\* are delivered.
LEMMA DeliveryMoves ==
    ASSUME Typed, Deliveries, NEW d \in Turns, NEW p \in Places \ {"idle"},
           place[d] \in Underway, place' = [place EXCEPT ![d] = p],
           at' = at, kind' = kind,
           shown \subseteq shown', shown' \subseteq shown \cup {d},
           lost \subseteq lost', lost' \subseteq lost \cup {d},
           dead \subseteq dead',
           Told(d)', KeyKept(d)',
           \A t \in Turns \ {d} : KeyKept(t)',
           p = "skipped" => Answered(KeyOf[d]),
           \A k \in delivered' : Answered(k)'
    PROVE  Deliveries'
<1>1. \A t \in Turns : place'[t] = IF t = d THEN p ELSE place[t]
  BY DEF Typed
<1>2. \A t \in Turns : Begun(t)'
  BY <1>1 DEF Deliveries, Begun
<1>3. ASSUME NEW t \in Turns, t # d
      PROVE  Told(t)'
  <2>1. place'[t] = place[t] /\ (t \in shown' <=> t \in shown) /\ (t \in lost' <=> t \in lost)
        /\ (t \in dead => t \in dead')
    BY <1>1, <1>3
  <2>2. Told(t)
    BY DEF Deliveries
  <2> QED
    BY <2>1, <2>2 DEF Told
<1>4. \A k : Answered(k) => Answered(k)'
  BY DEF Answered
<1>5. \A t \in Turns : place'[t] = "skipped" => Answered(KeyOf[t])'
  BY <1>1, <1>4 DEF Deliveries
<1> QED
  BY <1>2, <1>3, <1>5 DEF Deliveries

\* Finals of one key are not on their way at the same time.
LEMMA OneFinal ==
    ASSUME Lanes, Deliveries, NEW t \in Turns, NEW u \in Turns, KeyOf[t] = KeyOf[u],
           place[t] \in Underway, place[u] \in Underway
    PROVE  t = u
<1>1. at[t] \in Inside /\ at[u] \in Inside
  BY DEF Deliveries, Begun, Inside
<1> QED
  BY <1>1, OneAtATime

LEMMA DeliverSound ==
    ASSUME Typed, Deliveries, AnsweredOnce, at' = at, NEW d \in Turns, Deliver(d)
    PROVE  Deliveries' /\ AnsweredOnce' /\ place' \in [Turns -> Places] /\ shown' = shown /\ lost' = lost
<1>1. /\ place[d] = "ready" /\ place[d] \in Underway
      /\ delivered' = delivered /\ dead' = dead /\ kind' = kind /\ shown' = shown /\ lost' = lost
  BY DEF Deliver, Underway
<1>2. d \notin shown /\ \A k \in delivered' : Answered(k)'
  <2>1. \A k : Answered(k)' <=> Answered(k)
    BY <1>1 DEF Answered
  <2> QED
    BY <1>1, <2>1 DEF Deliveries, Told
<1>3. CASE Duplicate(d) /\ End(d, "skipped")
  <2>1. place' = [place EXCEPT ![d] = "skipped"] /\ place'[d] = "skipped"
    BY <1>3 DEF End, Go, Typed
  <2>2. Answered(KeyOf[d])
    BY <1>3 DEF Duplicate, Deliveries
  <2>3. Told(d)' /\ KeyKept(d)'
    BY <1>1, <1>2, <2>1 DEF Told, KeyKept
  <2>4. \A t \in Turns \ {d} : KeyKept(t)'
    BY <1>1, <2>1 DEF Deliveries, KeyKept, Typed
  <2>5. "skipped" \in Places \ {"idle"}
    BY DEF Places, Ended
  <2>6. Deliveries'
    BY <1>1, <1>2, <2>1, <2>2, <2>3, <2>4, <2>5, DeliveryMoves
  <2> QED
    BY <1>1, <2>1, <2>5, <2>6 DEF AnsweredOnce, Typed
<1>4. CASE ~Duplicate(d) /\ Go(d, "sending")
  <2>1. place' = [place EXCEPT ![d] = "sending"] /\ place'[d] = "sending"
    BY <1>4 DEF Go, Typed
  <2>3. Told(d)' /\ KeyKept(d)'
    BY <1>1, <1>2, <1>4, <2>1 DEF Told, KeyKept, Duplicate
  <2>4. \A t \in Turns \ {d} : KeyKept(t)'
    BY <1>1, <2>1 DEF Deliveries, KeyKept, Typed
  <2>5. "sending" \in Places \ {"idle"}
    BY DEF Places
  <2>6. Deliveries'
    BY <1>1, <1>2, <2>1, <2>3, <2>4, <2>5, DeliveryMoves
  <2> QED
    BY <1>1, <2>1, <2>5, <2>6 DEF AnsweredOnce, Typed
<1> QED
  BY <1>3, <1>4 DEF Deliver

\* The attempt that the chat shows and the client is told of is the first of
\* its key.
LEMMA SendSound ==
    ASSUME Typed, Lanes, Deliveries, AnsweredOnce, at' = at, NEW d \in Turns, Send(d)
    PROVE  Deliveries' /\ AnsweredOnce' /\ place' \in [Turns -> Places]
           /\ shown' = shown \cup {d} /\ lost' = lost
<1>1. /\ place[d] = "sending" /\ place[d] \in Underway
      /\ delivered' = delivered /\ dead' = dead /\ kind' = kind /\ shown' = shown \cup {d} /\ lost' = lost
      /\ place' = [place EXCEPT ![d] = "sent"]
  BY DEF Send, Attempts, Underway, Go
<1>2. place'[d] = "sent" /\ place' \in [Turns -> Places] /\ "sent" \in Places \ {"idle"}
  BY <1>1 DEF Typed, Places
<1>3. \A k \in delivered' : Answered(k)'
  <2>1. \A k : Answered(k) => Answered(k)'
    BY <1>1 DEF Answered
  <2> QED
    BY <1>1, <2>1 DEF Deliveries
<1>4. Told(d)' /\ KeyKept(d)'
  BY <1>1, <1>2 DEF Told, KeyKept, Deliveries
<1>5. \A t \in Turns \ {d} : KeyKept(t)'
  BY <1>1 DEF Deliveries, KeyKept, Typed
<1>6. Deliveries'
  BY <1>1, <1>2, <1>3, <1>4, <1>5, DeliveryMoves
<1>7. ASSUME NEW u \in Turns, u # d, KeyOf[u] = KeyOf[d], kind[u] = "final", kind[d] = "final", u \in shown
      PROVE  u \in lost
  <2>1. place[u] # "delivered"
    BY <1>1, <1>7 DEF Deliveries, KeyKept
  <2>2. place[u] # "sent"
    BY <1>1, <1>7, OneFinal DEF Underway
  <2> QED
    BY <1>7, <2>1, <2>2 DEF Deliveries, Told
<1>8. AnsweredOnce'
  <2> SUFFICES ASSUME NEW t \in Turns, NEW u \in Turns, t # u, KeyOf[t] = KeyOf[u],
                      kind[t] = "final", kind[u] = "final", t \in shown', u \in shown'
               PROVE  {t, u} \cap lost # {}
    BY <1>1 DEF AnsweredOnce
  <2>1. CASE t = d
    BY <1>1, <1>7, <2>1
  <2>2. CASE u = d
    BY <1>1, <1>7, <2>2
  <2>3. CASE t # d /\ u # d
    BY <1>1, <2>3 DEF AnsweredOnce
  <2> QED
    BY <2>1, <2>2, <2>3
<1> QED
  BY <1>1, <1>2, <1>6, <1>8

\* An attempt that the client is not told of, or that is not made.
LEMMA UntoldSound ==
    ASSUME Typed, Deliveries, AnsweredOnce, at' = at, NEW d \in Turns,
           NEW p \in {"waiting", "given up", "broken"}, place[d] = "sending",
           place' = [place EXCEPT ![d] = p],
           delivered' = delivered, kind' = kind, dead \subseteq dead',
           p = "given up" => d \in dead',
           NotTold(d)
    PROVE  Deliveries' /\ AnsweredOnce' /\ place' \in [Turns -> Places]
           /\ shown' \subseteq shown \cup {d} /\ lost' \subseteq shown'
<1>1. place[d] \in Underway /\ p \in Places \ {"idle"}
      /\ \A t \in Turns : place'[t] = IF t = d THEN p ELSE place[t]
  BY DEF Underway, Places, Ended, Typed
<1>2. /\ shown \subseteq shown' /\ shown' \subseteq shown \cup {d}
      /\ lost \subseteq lost' /\ lost' \subseteq lost \cup {d} /\ lost' \subseteq shown'
      /\ d \in shown' => d \in lost'
  <2>1. d \in shown => d \in lost
    BY DEF Deliveries, Told
  <2> QED
    BY <2>1 DEF NotTold, Typed
<1>3. \A k \in delivered' : Answered(k)'
  <2>1. \A k : Answered(k) => Answered(k)'
    BY <1>2 DEF Answered
  <2> QED
    BY <2>1 DEF Deliveries
<1>4. Told(d)' /\ KeyKept(d)'
  BY <1>1, <1>2 DEF Told, KeyKept, Deliveries
<1>5. \A t \in Turns \ {d} : KeyKept(t)'
  BY <1>1 DEF Deliveries, KeyKept
<1>6. Deliveries'
  BY <1>1, <1>2, <1>3, <1>4, <1>5, DeliveryMoves
<1>7. AnsweredOnce'
  <2> SUFFICES ASSUME NEW t \in Turns, NEW u \in Turns, t # u, KeyOf[t] = KeyOf[u],
                      kind[t] = "final", kind[u] = "final", t \in shown', u \in shown'
               PROVE  {t, u} \cap lost' # {}
    BY DEF AnsweredOnce
  <2>1. CASE t = d \/ u = d
    BY <1>2, <2>1
  <2>2. CASE t # d /\ u # d
    BY <1>2, <2>2 DEF AnsweredOnce
  <2> QED
    BY <2>1, <2>2
<1> QED
  BY <1>1, <1>2, <1>6, <1>7 DEF Typed

\* A delivery that waited goes on or is given up; one that is given up fails.
LEMMA WaitedSound ==
    ASSUME Typed, Deliveries, AnsweredOnce, at' = at, NEW d \in Turns,
           Backoff(d) \/ RecordFailure(d)
    PROVE  Deliveries' /\ AnsweredOnce' /\ place' \in [Turns -> Places] /\ shown' = shown /\ lost' = lost
<1>1. /\ place[d] \in Underway
      /\ delivered' = delivered /\ kind' = kind /\ shown' = shown /\ lost' = lost
      /\ dead \subseteq dead'
  BY DEF Backoff, RecordFailure, Underway, GiveUp, DeadLetter
<1>2. PICK p \in {"sending", "given up", "failed"} :
          /\ place' = [place EXCEPT ![d] = p]
          /\ p = "sending" => place[d] = "waiting"
          /\ p \in {"given up", "failed"} => d \in dead'
          /\ place[d] \in {"waiting", "given up"}
  <2>1. CASE Backoff(d)
    BY <2>1 DEF Backoff, GiveUp, DeadLetter, Go
  <2>2. CASE RecordFailure(d)
    BY <2>2 DEF RecordFailure, End, Go, Deliveries, Told
  <2> QED
    BY <2>1, <2>2
<1>3. /\ \A t \in Turns : place'[t] = IF t = d THEN p ELSE place[t]
      /\ p \in Places \ {"idle"}
  BY <1>2 DEF Typed, Places, Ended
<1>4. \A k \in delivered' : Answered(k)'
  BY <1>1 DEF Deliveries, Answered
<1>5. Told(d)' /\ KeyKept(d)'
  BY <1>1, <1>2, <1>3 DEF Told, KeyKept, Deliveries
<1>6. \A t \in Turns \ {d} : KeyKept(t)'
  BY <1>1, <1>3 DEF Deliveries, KeyKept
<1>7. Deliveries'
  BY <1>1, <1>2, <1>3, <1>4, <1>5, <1>6, DeliveryMoves
<1> QED
  BY <1>1, <1>2, <1>3, <1>7 DEF AnsweredOnce, Typed

LEMMA RecordSound ==
    ASSUME Typed, Lanes, Deliveries, AnsweredOnce, at' = at, NEW d \in Turns, Record(d)
    PROVE  Deliveries' /\ AnsweredOnce' /\ place' \in [Turns -> Places] /\ shown' = shown /\ lost' = lost
<1>1. /\ place[d] = "sent" /\ place[d] \in Underway
      /\ dead' = dead /\ kind' = kind /\ shown' = shown /\ lost' = lost
      /\ place' = [place EXCEPT ![d] = "delivered"]
      /\ delivered' = delivered \cup {KeyOf[e] : e \in {e \in {d} : kind[e] = "final"}}
  BY DEF Record, Underway, End, Go
<1>2. /\ \A t \in Turns : place'[t] = IF t = d THEN "delivered" ELSE place[t]
      /\ "delivered" \in Places \ {"idle"} /\ place' \in [Turns -> Places]
  BY <1>1 DEF Typed, Places, Ended
<1>3. d \in shown
  BY <1>1 DEF Deliveries, Told
<1>4. \A k \in delivered' : Answered(k)'
  <2>1. \A k : Answered(k)' <=> Answered(k)
    BY <1>1 DEF Answered
  <2>2. kind[d] = "final" => Answered(KeyOf[d])
    BY <1>3 DEF Answered
  <2> QED
    BY <1>1, <2>1, <2>2 DEF Deliveries
<1>5. Told(d)' /\ KeyKept(d)'
  BY <1>1, <1>2, <1>3 DEF Told, KeyKept
<1>6. ASSUME NEW t \in Turns \ {d}
      PROVE  KeyKept(t)'
  <2>1. KeyOf[t] = KeyOf[d] => place[t] \notin {"sending", "sent", "waiting"}
    BY <1>1, OneFinal DEF Underway
  <2>2. KeyOf[t] \in delivered' => KeyOf[t] \in delivered \/ KeyOf[t] = KeyOf[d]
    BY <1>1
  <2> QED
    BY <1>1, <1>2, <2>1, <2>2 DEF Deliveries, KeyKept
<1>7. Deliveries'
  BY <1>1, <1>2, <1>4, <1>5, <1>6, DeliveryMoves
<1> QED
  BY <1>1, <1>2, <1>7 DEF AnsweredOnce

\* A step of the delivery client.
LEMMA DeliveryStepSound ==
    ASSUME IInv, NEW d \in Turns, DeliveryStep(d), UNCHANGED ingressVars
    PROVE  IInv'
<1>1. /\ Typed /\ Lanes /\ InOrder /\ Iterations /\ Deliveries /\ AnsweredOnce
      /\ UNCHANGED <<at, lane, sent, fragments, scanning>>
  BY DEF IInv, ingressVars
<1>2. kind' = kind
  BY DEF DeliveryStep, Deliver, Send, Fails, Breaks, Backoff, Record, RecordFailure
<1>3. /\ Deliveries' /\ AnsweredOnce' /\ place' \in [Turns -> Places]
      /\ shown' \subseteq shown \cup {d} /\ lost' \subseteq shown'
  <2>1. CASE Deliver(d)
    BY <1>1, <2>1, DeliverSound DEF Typed
  <2>2. CASE Send(d)
    <3>1. lost \subseteq shown
      BY <1>1 DEF Typed
    <3> QED
      BY <1>1, <2>2, <3>1, SendSound
  <2>3. CASE Fails(d)
    <3>1. PICK p \in {"waiting", "given up", "broken"} :
              /\ place' = [place EXCEPT ![d] = p]
              /\ p = "given up" => d \in dead'
              /\ dead \subseteq dead'
      BY <2>3 DEF Fails, GiveUp, DeadLetter, Go
    <3>2. place[d] = "sending" /\ delivered' = delivered /\ NotTold(d)
      BY <2>3 DEF Fails, NotTold
    <3> QED
      BY <1>1, <1>2, <3>1, <3>2, UntoldSound
  <2>4. CASE Breaks(d)
    <3>1. /\ place' = [place EXCEPT ![d] = "broken"] /\ dead' = dead
          /\ place[d] = "sending" /\ delivered' = delivered /\ NotTold(d)
      BY <2>4 DEF Breaks, Attempts, End, Go
    <3> QED
      BY <1>1, <1>2, <3>1, UntoldSound
  <2>5. CASE Backoff(d) \/ RecordFailure(d)
    BY <1>1, <2>5, WaitedSound DEF Typed
  <2>6. CASE Record(d)
    BY <1>1, <2>6, RecordSound DEF Typed
  <2> QED
    BY <2>1, <2>2, <2>3, <2>4, <2>5, <2>6 DEF DeliveryStep
<1>4. Typed'
  BY <1>1, <1>2, <1>3 DEF Typed
<1>5. InOrder' /\ Iterations'
  BY <1>1 DEF InOrder, Iterations
<1>6. Lanes'
  BY <1>1, LanesStay
<1> QED
  BY <1>3, <1>4, <1>5, <1>6 DEF IInv

-----------------------------------------------------------------------------
(* Dispatches.                                                               *)

\* A step of the connection, the pool or the service, or of a dispatch before
\* it joins its lane.
LEMMA BeforeLaneSound ==
    ASSUME IInv, at' \in [Turns -> Steps],
           \A t \in Turns :
              \/ at'[t] = at[t]
              \/ /\ at[t] \notin {"unsent", "lane", "turn", "delivery", "done", "failed"}
                 /\ at'[t] \notin {"unsent", "lane", "turn", "delivery"},
           scanning' \subseteq Turns, \A t \in scanning' : at'[t] = "scanned",
           UNCHANGED <<sent, fragments, lane, deliveryVars>>
    PROVE  IInv'
<1>1. /\ Typed /\ Lanes /\ InOrder /\ Iterations /\ Deliveries /\ AnsweredOnce
      /\ UNCHANGED <<sent, fragments, lane, place, kind, shown, lost>>
  BY DEF IInv, deliveryVars
<1>2. Typed'
  BY <1>1 DEF Typed
<1>3. Lanes'
  BY <1>1, LanesStay DEF InLane
<1>4. InOrder'
  BY <1>1, OrderStays
<1>5. Deliveries' /\ AnsweredOnce'
  BY <1>1, DeliveriesStay
<1> QED
  BY <1>2, <1>3, <1>4, <1>5 DEF IInv, Iterations

\* The dispatch goes from one step to the next.
LEMMA MoveSound ==
    ASSUME IInv, NEW t \in Turns, NEW p \in Steps \ {"unsent", "lane", "turn", "delivery"}, Move(t, p),
           at[t] \notin {"unsent", "scanned", "lane", "turn", "delivery", "done", "failed"},
           scanning' \subseteq scanning \cup {t},
           t \in scanning' => p = "scanned",
           UNCHANGED <<sent, fragments, lane, deliveryVars>>
    PROVE  IInv'
<1>1. at' \in [Turns -> Steps] /\ \A u \in Turns : at'[u] = IF u = t THEN p ELSE at[u]
  BY DEF IInv, Typed, Move
<1>2. scanning' \subseteq Turns /\ \A u \in scanning' : at'[u] = "scanned"
  BY <1>1 DEF IInv, Typed, Iterations
<1> QED
  BY <1>1, <1>2, BeforeLaneSound

LEMMA SwapSound ==
    ASSUME IInv, NEW t \in Turns, SwapRecent(t)
    PROVE  IInv'
<1>1. /\ at[t] = "scanned" /\ scanning' = {} /\ UNCHANGED <<sent, fragments, lane, deliveryVars>>
      /\ \E p \in {"done", "fresh"} : at' = [at EXCEPT ![t] = p]
  BY DEF SwapRecent, Move
<1>2. /\ at' \in [Turns -> Steps]
      /\ \A u \in Turns : at'[u] = at[u] \/ (u = t /\ at'[u] \in {"done", "fresh"})
  BY <1>1 DEF IInv, Typed, Steps, Waits
<1> QED
  BY <1>1, <1>2, BeforeLaneSound

LEMMA SetRecentSound ==
    ASSUME IInv, NEW t \in Turns, SetRecent(t)
    PROVE  IInv'
<1>1. PICK raised \in SUBSET scanning :
          /\ at' = [u \in Turns |-> IF u = t THEN "reaction" ELSE IF u \in raised THEN "failed" ELSE at[u]]
          /\ scanning' = scanning \ raised
  BY DEF SetRecent
<1>2. at[t] = "fresh" /\ UNCHANGED <<sent, fragments, lane, deliveryVars>>
  BY DEF SetRecent
<1>3. \A u \in scanning : u \in Turns /\ at[u] = "scanned"
  BY DEF IInv, Iterations, Typed
<1>4. at' \in [Turns -> Steps]
  BY <1>1 DEF IInv, Typed, Steps, Waits
<1>5. scanning' \subseteq Turns /\ \A u \in scanning' : at'[u] = "scanned"
  BY <1>1, <1>2, <1>3
<1>6. \A u \in Turns :
          \/ at'[u] = at[u]
          \/ at[u] \in {"fresh", "scanned"} /\ at'[u] \in {"reaction", "failed"}
  BY <1>1, <1>2, <1>3
<1> QED
  BY <1>2, <1>4, <1>5, <1>6, BeforeLaneSound

LEMMA JoinSound ==
    ASSUME IInv, NEW t \in Turns, JoinLane(t)
    PROVE  IInv'
<1>1. /\ Typed /\ Lanes /\ InOrder /\ Iterations /\ Deliveries /\ AnsweredOnce
      /\ at[t] = "reaction" /\ at' = [at EXCEPT ![t] = "lane"]
      /\ lane' = [lane EXCEPT ![Chat(t)] = Append(@, t)]
      /\ UNCHANGED <<sent, fragments, scanning, deliveryVars, place, kind, shown, lost>>
  BY DEF IInv, JoinLane, Move, deliveryVars
<1>2. lane' \in [Chats -> Seq(Turns)] /\ Lanes'
  BY <1>1, LaneJoined
<1>3. at' \in [Turns -> Steps] /\ \A u \in Turns : at'[u] = IF u = t THEN "lane" ELSE at[u]
  BY <1>1 DEF Typed, Steps
<1>4. Typed'
  BY <1>1, <1>2, <1>3 DEF Typed
<1>5. InOrder'
  BY <1>1, <1>3, OrderStays
<1>6. Iterations'
  BY <1>1, <1>3 DEF Iterations, Typed
<1>7. Deliveries' /\ AnsweredOnce'
  BY <1>1, <1>3, DeliveriesStay
<1> QED
  BY <1>2, <1>4, <1>5, <1>6, <1>7 DEF IInv

LEMMA EnterSound ==
    ASSUME IInv, NEW t \in Turns, EnterLane(t)
    PROVE  IInv'
<1>1. /\ Typed /\ Lanes /\ InOrder /\ Iterations /\ Deliveries /\ AnsweredOnce
      /\ at[t] = "lane" /\ at' = [at EXCEPT ![t] = "turn"] /\ Head(lane[Chat(t)]) = t
      /\ UNCHANGED <<sent, fragments, lane, scanning, deliveryVars, place, kind, shown, lost>>
  BY DEF IInv, EnterLane, Move, deliveryVars
<1>2. Lanes'
  BY <1>1, LaneEntered DEF InLane, Inside
<1>3. at' \in [Turns -> Steps] /\ \A u \in Turns : at'[u] = IF u = t THEN "turn" ELSE at[u]
  BY <1>1 DEF Typed, Steps
<1>4. Typed'
  BY <1>1, <1>3 DEF Typed
<1>5. InOrder'
  BY <1>1, <1>3, OrderStays
<1>6. Iterations'
  BY <1>1, <1>3 DEF Iterations, Typed
<1>7. Deliveries' /\ AnsweredOnce'
  BY <1>1, <1>3, DeliveriesStay
<1> QED
  BY <1>2, <1>4, <1>5, <1>6, <1>7 DEF IInv

\* A turn that returns has shown nothing: its delivery begins.
LEMMA ReturnSound ==
    ASSUME IInv, NEW t \in Turns, TurnReturns(t)
    PROVE  IInv'
<1>1. /\ Typed /\ Lanes /\ InOrder /\ Iterations /\ Deliveries /\ AnsweredOnce
      /\ at[t] = "turn" /\ at' = [at EXCEPT ![t] = "delivery"]
      /\ place' = [place EXCEPT ![t] = "ready"]
      /\ UNCHANGED <<sent, fragments, lane, scanning, delivered, dead, shown, lost>>
  BY DEF IInv, TurnReturns, Move, Go
<1>2. PICK k \in {"final", "error"} : kind' = [kind EXCEPT ![t] = k]
  BY DEF TurnReturns
<1>3. Lanes'
  <2>1. Head(lane[Chat(t)]) = t
    BY <1>1 DEF Lanes, Inside
  <2> QED
    BY <1>1, <2>1, LaneEntered DEF InLane, Inside
<1>4. /\ at' \in [Turns -> Steps] /\ \A u \in Turns : at'[u] = IF u = t THEN "delivery" ELSE at[u]
      /\ place' \in [Turns -> Places] /\ \A u \in Turns : place'[u] = IF u = t THEN "ready" ELSE place[u]
      /\ kind' \in [Turns -> {"final", "error"}] /\ \A u \in Turns : u # t => kind'[u] = kind[u]
  BY <1>1, <1>2 DEF Typed, Steps, Places
<1>5. Typed'
  BY <1>1, <1>4 DEF Typed
<1>6. InOrder'
  BY <1>1, <1>4, OrderStays
<1>7. Iterations'
  BY <1>1, <1>4 DEF Iterations, Typed
<1>8. place[t] = "idle" /\ t \notin shown
  BY <1>1 DEF Deliveries, Begun, Told
<1>9. AnsweredOnce'
  BY <1>1, <1>4, <1>8 DEF AnsweredOnce
<1>10. \A k0 : Answered(k0) => Answered(k0)'
  BY <1>1, <1>4, <1>8 DEF Answered
<1>11. \A u \in Turns : Begun(u)'
  BY <1>1, <1>4 DEF Deliveries, Begun, Underway
<1>12. \A u \in Turns : Told(u)' /\ KeyKept(u)'
  BY <1>1, <1>4, <1>8 DEF Deliveries, Told, KeyKept
<1>13. Deliveries'
  BY <1>1, <1>4, <1>10, <1>11, <1>12 DEF Deliveries
<1> QED
  BY <1>3, <1>5, <1>6, <1>7, <1>9, <1>13 DEF IInv

LEMMA LeaveSound ==
    ASSUME IInv, NEW t \in Turns, Fail(t) \/ Finish(t)
    PROVE  IInv'
<1>1. /\ Typed /\ Lanes /\ InOrder /\ Iterations /\ Deliveries /\ AnsweredOnce
      /\ at[t] \in Inside /\ (at[t] = "turn" \/ place[t] \in Ended)
      /\ lane' = [lane EXCEPT ![Chat(t)] = Tail(@)]
      /\ UNCHANGED <<sent, fragments, scanning, deliveryVars, place, kind, shown, lost>>
  BY DEF IInv, Fail, Raised, Finish, deliveryVars, Inside, Ended
<1>2. PICK p \in {"done", "failed"} : at' = [at EXCEPT ![t] = p]
  BY DEF Fail, Finish, Move
<1>3. lane' \in [Chats -> Seq(Turns)] /\ Lanes'
  <2>1. p \notin InLane
    BY <1>2 DEF InLane
  <2> QED
    BY <1>1, <1>2, <2>1, LaneLeft
<1>4. at' \in [Turns -> Steps] /\ \A u \in Turns : at'[u] = IF u = t THEN p ELSE at[u]
  BY <1>1, <1>2 DEF Typed, Steps, Waits
<1>5. Typed'
  BY <1>1, <1>3, <1>4 DEF Typed
<1>6. InOrder'
  BY <1>1, <1>4, OrderStays DEF Inside
<1>7. Iterations'
  BY <1>1, <1>4 DEF Iterations, Typed, Inside
<1>8. Deliveries' /\ AnsweredOnce'
  BY <1>1, <1>4, DeliveriesStay
<1> QED
  BY <1>3, <1>5, <1>6, <1>7, <1>8 DEF IInv

LEMMA ReceiveSound ==
    ASSUME IInv, NEW m \in Messages, NEW p \in 1..Parts[m], Receive(m, p)
    PROVE  IInv'
<1>1. /\ Typed /\ Lanes /\ InOrder /\ Iterations /\ Deliveries /\ AnsweredOnce
      /\ sent[m][p] < Copies[m]
      /\ UNCHANGED <<lane, scanning, deliveryVars>>
  BY DEF IInv, Receive
<1>2. Typed' /\ InOrder'
  BY <1>1, ReceiveInOrder
<1>3. \A u \in Turns : at'[u] = at[u] \/ (at[u] = "unsent" /\ at'[u] = "queued")
  <2>1. Copy(m) \in 1..Copies[m] /\ at[<<m, Copy(m)>>] = "unsent"
    BY <1>1, CopyIsNext
  <2>2. at' = at \/ at' = [at EXCEPT ![<<m, Copy(m)>>] = "queued"]
    BY DEF Receive, Move
  <2> QED
    BY <1>1, <2>1, <2>2 DEF Typed
<1>4. Lanes'
  BY <1>1, <1>3, LanesStay DEF InLane
<1>5. Iterations'
  BY <1>1, <1>3 DEF Iterations, Typed
<1>6. Deliveries' /\ AnsweredOnce'
  BY <1>1, <1>3, DeliveriesStay
<1> QED
  BY <1>2, <1>4, <1>5, <1>6 DEF IInv

-----------------------------------------------------------------------------
(* The invariant.                                                            *)

LEMMA InvInit == Init => IInv
<1> SUFFICES ASSUME Init
             PROVE  IInv
  OBVIOUS
<1>1. Typed
  BY DEF Init, DeliveryInit, Typed, Steps, Waits, Places
<1>2. Lanes
  BY TurnsAreCopies DEF Init, Lanes, InLane, Inside
<1>3. InOrder
  BY CopiesAreTurns DEF Init, InOrder
<1>4. Iterations /\ AnsweredOnce
  BY DEF Init, DeliveryInit, Iterations, AnsweredOnce
<1>5. Deliveries
  BY DEF Init, DeliveryInit, Deliveries, Begun, Told, KeyKept, Underway
<1> QED
  BY <1>1, <1>2, <1>3, <1>4, <1>5 DEF IInv

LEMMA InvNext == IInv /\ [Next]_vars => IInv'
<1> SUFFICES ASSUME IInv, [Next]_vars
             PROVE  IInv'
  OBVIOUS
<1>1. ASSUME at' = at, UNCHANGED <<sent, fragments, scanning, lane, deliveryVars>>
      PROVE  IInv'
  BY <1>1, BeforeLaneSound DEF IInv, Typed, Iterations
<1>2. CASE Connection \/ Stopped \/ \E text \in recent : Forget(text)
  BY <1>1, <1>2 DEF Connection, Fetch, Connect, Drop, Reconnect, Stopped, Forget
<1>3. ASSUME NEW m \in Messages, NEW p \in 1..Parts[m], Receive(m, p)
      PROVE  IInv'
  BY <1>3, ReceiveSound
<1>4. ASSUME NEW t \in Turns, Turn(t)
      PROVE  IInv'
  <2>1. CASE Dispatch(t)
    BY <2>1, MoveSound DEF Dispatch, Steps, Waits, IInv, Iterations
  <2>2. CASE FindReceipt(t)
    BY <2>2, MoveSound DEF FindReceipt, Steps, Waits, IInv, Iterations
  <2>3. CASE SetReceipt(t)
    BY <2>3, MoveSound DEF SetReceipt, Steps, IInv, Iterations
  <2>4. CASE ScanRecent(t)
    BY <2>4, MoveSound DEF ScanRecent, Steps
  <2>5. CASE SwapRecent(t)
    BY <2>5, SwapSound
  <2>6. CASE SetRecent(t)
    BY <2>6, SetRecentSound
  <2>7. CASE JoinLane(t)
    BY <2>7, JoinSound
  <2>8. CASE EnterLane(t)
    BY <2>8, EnterSound
  <2>9. CASE TurnReturns(t)
    BY <2>9, ReturnSound
  <2>10. CASE Fail(t) \/ Finish(t)
    BY <2>10, LeaveSound
  <2> QED
    BY <1>4, <2>1, <2>2, <2>3, <2>4, <2>5, <2>6, <2>7, <2>8, <2>9, <2>10 DEF Turn, Handle
<1>5. CASE Stop
  <2>1. /\ at' = [t \in Turns |-> IF t \in {u \in Turns : at[u] = "queued"} THEN "cancelled" ELSE at[t]]
        /\ UNCHANGED <<sent, fragments, scanning, lane, deliveryVars>>
    BY <1>5 DEF Stop, Cancelled
  <2>2. at' \in [Turns -> Steps]
    BY <2>1 DEF IInv, Typed, Steps, Waits
  <2>3. \A t \in Turns : at'[t] = at[t] \/ (at[t] = "queued" /\ at'[t] = "cancelled")
    BY <2>1
  <2>4. scanning' \subseteq Turns /\ \A t \in scanning' : at'[t] = "scanned"
    BY <2>1 DEF IInv, Typed, Iterations
  <2> QED
    BY <2>1, <2>2, <2>3, <2>4, BeforeLaneSound
<1>6. ASSUME NEW d \in Turns, DeliveryStep(d), UNCHANGED ingressVars
      PROVE  IInv'
  BY <1>6, DeliveryStepSound
<1>7. CASE UNCHANGED vars
  BY <1>1, <1>7 DEF vars, ingressVars
<1> QED
  BY <1>2, <1>3, <1>4, <1>5, <1>6, <1>7 DEF Next

THEOREM Invariance == Spec => []IInv
<1>1. Init => IInv
  BY InvInit
<1>2. IInv /\ [Next]_vars => IInv'
  BY InvNext
<1> QED
  BY <1>1, <1>2, PTL DEF Spec

-----------------------------------------------------------------------------
\* _delivered_keys and the lane of a chat: however many dispatches of one
\* message get past the receipt and the replay window, the chat sees one final
\* of it, except for one whose request was carried out and looked failed.
THEOREM OneAnswer == Spec => []AnsweredOnce
<1>1. IInv => AnsweredOnce
  BY DEF IInv
<1> QED
  BY <1>1, Invariance, PTL

\* deliver and _deliver_with_retry: an answer is shown or in the dead letter
\* queue when its delivery says delivered or failed, and one withheld as a
\* duplicate has a final of its key that the chat has shown.
THEOREM AnswersDoNotVanish == Spec => []NoAnswerVanishes
<1>1. IInv => NoAnswerVanishes
  BY DEF IInv, Deliveries, Told, Answered, NoAnswerVanishes
<1> QED
  BY <1>1, Invariance, PTL
=============================================================================
