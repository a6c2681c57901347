---------------------------- MODULE FeishuIngress ----------------------------
(* FeishuWebsocketService of channels/feishu/service.py: the connection and  *)
(* its reconnects, frames and their fragments, the dispatch of an event to a *)
(* pool of threads, the receipt and the replay window that keep a message    *)
(* from being handled twice, the lane of its chat, the turn, the delivery of *)
(* its answer, and the stop of the service. A lane is the FifoLock that      *)
(* ConversationLanes implements.                                             *)
(*                                                                           *)
(* Threads switch between any two accesses to the shared dictionaries, so a  *)
(* lookup and the assignment after it are two actions.                       *)
EXTENDS FeishuDelivery

CONSTANTS Messages,       \* by message id, which fragments and dedupe keys use
          Parts,          \* the number of frames of a message
          Copies,         \* how often the platform sends each of them
          Guarded,        \* messages of the app itself, blank, or of a chat not allowed
          Chats,
          ChatOf,
          TextOf,         \* normalized text with its chat and sender
          Workers,        \* threads of the event loop's pool
          ReconnectCount, \* failures in a row after which the service gives up
          NoTask          \* stands for the call that fetches the endpoint, in the pool

ASSUME MessagesAndCopies ==
    /\ Copies \in [Messages -> Nat]
    /\ Turns = UNION {{m} \X (1..Copies[m]) : m \in Messages}
    /\ \A t \in Turns : KeyOf[t] = t[1]
    /\ ChatOf \in [Messages -> Chats]
    /\ Parts \in [Messages -> Nat \ {0}]
    /\ Workers \in Nat \ {0}
    /\ ReconnectCount \in Nat
    /\ NoTask \notin Turns

VARIABLES conn,      \* of the websocket: "fetching", "calling", "connected", "backoff", "off"
          failures,  \* reconnect_attempts
          sent,      \* frames received so far, by message and part
          fragments, \* _fragments: parts of a message that is not complete
          pool,      \* calls that wait for a thread
          at,        \* where the dispatch of a copy of a message is
          receipts,  \* messages in the receipt store
          recent,    \* _semantic_recent: texts of the last seconds
          scanned,   \* the entries a dispatch has found fresh
          scanning,  \* dispatches that iterate over the current dictionary
          lane       \* dispatches in the lane of a chat, in order

ingressVars == <<conn, failures, sent, fragments, pool, at, receipts, recent, scanned, scanning, lane>>
vars == <<ingressVars, stop, deliveryVars>>

Message(t) == t[1]
Chat(t) == ChatOf[Message(t)]
Text(t) == TextOf[Message(t)]
Move(t, p) == at' = [at EXCEPT ![t] = p]

Init ==
    /\ DeliveryInit
    /\ conn = "fetching"
    /\ failures = 0
    /\ sent = [m \in Messages |-> [p \in 1..Parts[m] |-> 0]]
    /\ fragments = [m \in Messages |-> {}]
    /\ pool = <<NoTask>>
    /\ at = [t \in Turns |-> "unsent"]
    /\ receipts = {}
    /\ recent = {}
    /\ scanned = [t \in Turns |-> {}]
    /\ scanning = {}
    /\ lane = [c \in Chats |-> <<>>]

-----------------------------------------------------------------------------
(* run_forever: fetch the endpoint in a thread, connect, receive.           *)

Waits == {"unsent", "queued", "done", "cancelled", "failed"}
Busy == Cardinality({t \in Turns : at[t] \notin Waits}) + (IF conn = "calling" THEN 1 ELSE 0)
\* A thread is free, and the call is the one that has waited longest.
Starts(call) == pool # <<>> /\ Head(pool) = call /\ Busy < Workers

Fetch ==
    /\ conn = "fetching"
    /\ Starts(NoTask)
    /\ pool' = Tail(pool)
    /\ conn' = "calling"
    /\ UNCHANGED <<failures, sent, fragments, at, receipts, recent, scanned, scanning, lane, stop, deliveryVars>>

\* Every loop of run_forever ends when the stop event is set.
Unless(c) == IF stop = "clear" THEN c ELSE "off"

Connect ==
    /\ conn = "calling"
    /\ conn' = Unless("connected")
    /\ failures' = 0
    /\ UNCHANGED <<sent, fragments, pool, at, receipts, recent, scanned, scanning, lane, stop, deliveryVars>>

\* Fetching, connecting or receiving raises.
Drop ==
    /\ conn \in {"calling", "connected"}
    /\ failures' = failures + 1
    /\ conn' = IF failures + 1 > ReconnectCount THEN "off" ELSE "backoff"
    /\ UNCHANGED <<sent, fragments, pool, at, receipts, recent, scanned, scanning, lane, stop, deliveryVars>>

\* Mutant: the last attempt is not made.
ReconnectTooFew ==
    /\ conn = "backoff"
    /\ failures < ReconnectCount
    /\ conn' = Unless("fetching")
    /\ pool' = IF stop = "clear" THEN Append(pool, NoTask) ELSE pool
    /\ UNCHANGED <<failures, sent, fragments, at, receipts, recent, scanned, scanning, lane, stop, deliveryVars>>

\* After the interval, the endpoint is fetched again, by a thread of the pool.
Reconnect ==
    /\ conn = "backoff"
    /\ conn' = Unless("fetching")
    /\ pool' = IF stop = "clear" THEN Append(pool, NoTask) ELSE pool
    /\ UNCHANGED <<failures, sent, fragments, at, receipts, recent, scanned, scanning, lane, stop, deliveryVars>>

\* The next copy of a message to be dispatched.
Copy(m) == CHOOSE n \in 1..Copies[m] : at[<<m, n>>] = "unsent" /\ \A k \in 1..(n - 1) : at[<<m, k>>] # "unsent"

\* _resolve_payload: the parts there are with this one.
Fragments(m, p) == fragments[m] \cup {p}

\* handle_frame_bytes: a frame completes an event, which is scheduled and
\* acknowledged, or is kept. The platform may send a frame again at any time:
\* the acknowledgement may not have reached it.
Receive(m, p) ==
    /\ conn = "connected"
    /\ sent[m][p] < Copies[m]
    /\ sent' = [sent EXCEPT ![m][p] = @ + 1]
    /\ \/ /\ Fragments(m, p) = 1..Parts[m]
          /\ fragments' = [fragments EXCEPT ![m] = {}]
          /\ pool' = Append(pool, <<m, Copy(m)>>)
          /\ Move(<<m, Copy(m)>>, "queued")
       \/ /\ Fragments(m, p) # 1..Parts[m]
          /\ fragments' = [fragments EXCEPT ![m] = Fragments(m, p)]
          /\ UNCHANGED <<pool, at>>
    /\ conn' = Unless("connected")
    /\ UNCHANGED <<failures, receipts, recent, scanned, scanning, lane, stop, deliveryVars>>

-----------------------------------------------------------------------------
(* handle_event_payload, by a thread of the pool.                           *)

\* _guardrail_result.
Ignored(t) == Message(t) \in Guarded

\* An event that a guardrail ignores needs nothing more.
Dispatch(t) ==
    /\ at[t] = "queued"
    /\ Starts(t)
    /\ pool' = Tail(pool)
    /\ Move(t, IF Ignored(t) THEN "done" ELSE "receipt")
    /\ UNCHANGED <<conn, failures, sent, fragments, receipts, recent, scanned, scanning, lane, stop, deliveryVars>>

\* claim: a message with a receipt is a duplicate.
FindReceipt(t) ==
    /\ at[t] = "receipt"
    /\ Move(t, IF Message(t) \in receipts THEN "done" ELSE "unclaimed")
    /\ UNCHANGED <<conn, failures, sent, fragments, pool, receipts, recent, scanned, scanning, lane, stop, deliveryVars>>

SetReceipt(t) ==
    /\ at[t] = "unclaimed"
    /\ receipts' = receipts \cup {Message(t)}
    /\ Move(t, "claimed")
    /\ UNCHANGED <<conn, failures, sent, fragments, pool, recent, scanned, scanning, lane, stop, deliveryVars>>

\* _claim_semantic_replay: the entries that are not older than the window are
\* collected from the dictionary ...
ScanRecent(t) ==
    /\ at[t] = "claimed"
    /\ scanned' = [scanned EXCEPT ![t] = recent]
    /\ scanning' = scanning \cup {t}
    /\ Move(t, "scanned")
    /\ UNCHANGED <<conn, failures, sent, fragments, pool, receipts, recent, lane, stop, deliveryVars>>

\* ... and become the dictionary; the text is looked up in it.
SwapRecent(t) ==
    /\ at[t] = "scanned"
    /\ recent' = scanned[t]
    /\ scanning' = {} \* the others iterate over the dictionary before it
    /\ Move(t, IF Text(t) \in scanned[t] THEN "done" ELSE "fresh")
    /\ scanned' = [scanned EXCEPT ![t] = {}]
    /\ UNCHANGED <<conn, failures, sent, fragments, pool, receipts, lane, stop, deliveryVars>>

\* The text is set. Iterations over this dictionary that have not ended raise
\* RuntimeError, and their dispatches fail.
SetRecent(t) ==
    /\ at[t] = "fresh"
    /\ recent' = recent \cup {Text(t)}
    /\ \E raised \in SUBSET scanning :
         /\ at' = [u \in Turns |-> IF u = t THEN "reaction" ELSE IF u \in raised THEN "failed" ELSE at[u]]
         /\ scanning' = scanning \ raised
    /\ UNCHANGED <<conn, failures, sent, fragments, pool, receipts, scanned, lane, stop, deliveryVars>>

\* The window of a text ends.
Forget(text) ==
    /\ text \in recent
    /\ recent' = recent \ {text}
    /\ UNCHANGED <<conn, failures, sent, fragments, pool, at, receipts, scanned, scanning, lane, stop, deliveryVars>>

\* _acquire_lane_lease, after the reaction to the message.
JoinLane(t) ==
    /\ at[t] = "reaction"
    /\ lane' = [lane EXCEPT ![Chat(t)] = Append(@, t)]
    /\ Move(t, "lane")
    /\ UNCHANGED <<conn, failures, sent, fragments, pool, receipts, recent, scanned, scanning, stop, deliveryVars>>

\* The lane grants the lease; runtime_handler is called.
EnterLane(t) ==
    /\ at[t] = "lane"
    /\ Head(lane[Chat(t)]) = t
    /\ Move(t, "turn")
    /\ UNCHANGED <<conn, failures, sent, fragments, pool, receipts, recent, scanned, scanning, lane, stop, deliveryVars>>

\* The turn returns its events, of which the last is final or an error.
TurnReturns(t) ==
    /\ at[t] = "turn"
    /\ Move(t, "delivery")
    /\ Go(t, "ready")
    /\ \E k \in {"final", "error"} : kind' = [kind EXCEPT ![t] = k]
    /\ UNCHANGED <<conn, failures, sent, fragments, pool, receipts, recent, scanned, scanning, lane, stop>>
    /\ UNCHANGED <<delivered, active, dead, heeds, tries, shown, lost>>

Raised(t) == at[t] = "turn" \/ (at[t] = "delivery" /\ place[t] = "broken")

\* Mutant: an exception leaves the lane held.
FailKeepsLane(t) ==
    /\ Raised(t)
    /\ Move(t, "failed")
    /\ UNCHANGED <<conn, failures, sent, fragments, pool, receipts, recent, scanned, scanning, lane, stop, deliveryVars>>

\* The turn raises, or the delivery does: finally releases the lane.
Fail(t) ==
    /\ Raised(t)
    /\ lane' = [lane EXCEPT ![Chat(t)] = Tail(@)]
    /\ Move(t, "failed")
    /\ UNCHANGED <<conn, failures, sent, fragments, pool, receipts, recent, scanned, scanning, stop, deliveryVars>>

Finish(t) ==
    /\ at[t] = "delivery"
    /\ place[t] \in Ended \ {"broken"}
    /\ lane' = [lane EXCEPT ![Chat(t)] = Tail(@)]
    /\ Move(t, "done")
    /\ UNCHANGED <<conn, failures, sent, fragments, pool, receipts, recent, scanned, scanning, stop, deliveryVars>>

-----------------------------------------------------------------------------
(* stop_background.                                                         *)

\* Calls that a thread has not begun are taken out of the pool.
Cancelled(ts) ==
    /\ at' = [t \in Turns |-> IF t \in ts THEN "cancelled" ELSE at[t]]
    /\ pool' = SelectSeq(pool, LAMBDA c : c \notin ts)

\* The stop event is set and the dispatches are cancelled: those without a
\* thread never run, a thread that runs is left alone.
Stop ==
    /\ stop = "clear"
    /\ stop' = "set"
    /\ Cancelled({t \in Turns : at[t] = "queued"})
    /\ UNCHANGED <<conn, failures, sent, fragments, receipts, recent, scanned, scanning, lane, deliveryVars>>

\* The connection's task is cancelled and awaited, the event dropped and the
\* lock file released. A dispatch scheduled since Stop is not cancelled.
Stopped ==
    /\ stop = "set"
    /\ stop' = "none"
    /\ conn' = "off"
    /\ pool' = SelectSeq(pool, LAMBDA c : c # NoTask)
    /\ UNCHANGED <<failures, sent, fragments, at, receipts, recent, scanned, scanning, lane, deliveryVars>>

-----------------------------------------------------------------------------
Handle(t) ==
    \/ FindReceipt(t) \/ SetReceipt(t) \/ ScanRecent(t) \/ SwapRecent(t) \/ SetRecent(t)
    \/ JoinLane(t) \/ EnterLane(t) \/ TurnReturns(t) \/ Fail(t) \/ Finish(t)

Turn(t) == Dispatch(t) \/ Handle(t)

Connection == Fetch \/ Connect \/ Drop \/ Reconnect

Next ==
    \/ Connection
    \/ \E m \in Messages : \E p \in 1..Parts[m] : Receive(m, p)
    \/ \E t \in Turns : Turn(t)
    \/ \E text \in recent : Forget(text)
    \/ Stop \/ Stopped
    \/ \E t \in Turns : DeliveryStep(t) /\ UNCHANGED <<ingressVars, stop>>

\* Threads run, turns and requests end, and the connection is tried again.
Fairness ==
    /\ WF_vars(Fetch) /\ WF_vars(Connect \/ Drop) /\ WF_vars(Reconnect)
    /\ \A t \in Turns : WF_vars(Turn(t)) /\ WF_vars(DeliveryStep(t) /\ UNCHANGED <<ingressVars, stop>>)

Spec == Init /\ [][Next]_vars /\ Fairness

-----------------------------------------------------------------------------
(* What is required of the Feishu channel.                                   *)

Places == {"idle", "ready", "sending", "sent", "waiting", "given up"} \cup Ended
Steps == {"queued", "receipt", "unclaimed", "claimed", "scanned", "fresh", "reaction", "lane", "turn", "delivery"}
         \cup Waits

\* Types of the service's and the delivery client's state.
TypeOK ==
    /\ stop \in {"clear", "set", "none"}
    /\ delivered \subseteq Keys /\ active \subseteq Turns
    /\ dead \subseteq Turns /\ shown \subseteq Turns /\ lost \subseteq shown
    /\ place \in [Turns -> Places]
    /\ kind \in [Turns -> {"final", "error"}]
    /\ heeds \in [Turns -> BOOLEAN]
    /\ tries \in [Turns -> 0..RetryLimit]
    /\ conn \in {"fetching", "calling", "connected", "backoff", "off"}
    /\ failures \in 0..(ReconnectCount + 1)
    /\ \A m \in Messages : sent[m] \in [1..Parts[m] -> 0..Copies[m]] /\ fragments[m] \subseteq 1..Parts[m]
    /\ pool \in Seq(Turns \cup {NoTask})
    /\ at \in [Turns -> Steps]
    /\ receipts \subseteq Messages
    /\ \A t \in Turns : scanned[t] \subseteq {TextOf[m] : m \in Messages}
    /\ recent \subseteq {TextOf[m] : m \in Messages}
    /\ scanning \subseteq Turns
    /\ lane \in [Chats -> Seq(Turns)]

\* A message that two dispatches both handle, because they found no receipt
\* and no recent text at the same time, is still answered with one final:
\* lanes and delivered keys hide the second, unless the answer to a request
\* was lost.
AnsweredOnce ==
    \A t, u \in Turns :
        /\ t # u /\ KeyOf[t] = KeyOf[u]
        /\ kind[t] = "final" /\ kind[u] = "final"
        /\ t \in shown /\ u \in shown
        => {t, u} \cap lost # {}

\* An answer that a turn gave is shown, or it is a dead
\* letter, or it was withheld because a final of its key is shown; only a
\* response that could not be read ends a delivery in no place at all.
NoAnswerVanishes ==
    \A d \in Turns :
        /\ place[d] \in {"delivered", "failed"} => d \in shown \cup dead
        /\ place[d] = "skipped" =>
             \E e \in Turns : KeyOf[e] = KeyOf[d] /\ kind[e] = "final" /\ e \in shown

\* Every event that was scheduled is handled to its end, through the pool, the
\* lane and the retries, unless the service stops first.
ScheduledEnds ==
    \A t \in Turns : at[t] = "queued" ~> at[t] \in {"done", "failed", "cancelled"}

\* A connection that is lost is made again or given up, though the pool that
\* must fetch the endpoint also runs the turns.
ConnectionReturns == conn = "backoff" ~> conn \in {"connected", "off"}

\* The service goes on: neither an event nor a lost connection is left hanging
\* (the two liveness promises above, _process_payload and _run_forever).
ServiceGoesOn == ScheduledEnds /\ ConnectionReturns
=============================================================================
