--------------------------- MODULE FeishuDelivery ---------------------------
(* FeishuDeliveryClient of channels/feishu/delivery.py as the turns of the   *)
(* websocket service use it: the keys of the finals it has delivered, the    *)
(* delivery sessions of delivery_session.py, attempts, retries and backoff   *)
(* under the service's stop event, and the dead letters.                     *)
(*                                                                           *)
(* Hidden progress events return at the top of deliver and change nothing:   *)
(* they are not deliveries here. No session ever records a progress message, *)
(* so an attempt is a send. Getting the access token is part of an attempt.  *)
EXTENDS Naturals, Sequences, FiniteSets

CONSTANTS Turns,     \* the deliveries, one for each event that is handled
          Keys,      \* dedupe keys
          KeyOf,     \* the key of the message that is answered
          RetryLimit \* final_max_retries, error_max_retries

ASSUME KeysAndRetries ==
    /\ KeyOf \in [Turns -> Keys]
    /\ RetryLimit \in Nat

VARIABLES stop,      \* the service's _stop_event: "clear", "set", or "none" when it is dropped
          delivered, \* _delivered_keys
          active,    \* deliveries with an active session
          dead,      \* deliveries in the dead letter queue
          place,     \* where a delivery is
          kind,      \* "final" or "error"
          heeds,     \* it was given the stop event
          tries,     \* retry_count
          shown,     \* deliveries that the chat has shown
          lost       \* deliveries that were shown and not told so

deliveryVars == <<delivered, active, dead, place, kind, heeds, tries, shown, lost>>

\* "broken": an exception that neither deliver nor its retry handles.
Ended == {"delivered", "failed", "skipped", "broken"}
Go(d, p) == place' = [place EXCEPT ![d] = p]
\* The call ends, and with it what it was given and counted.
End(d, p) ==
    /\ Go(d, p)
    /\ tries' = [tries EXCEPT ![d] = 0]
    /\ heeds' = [heeds EXCEPT ![d] = FALSE]

DeliveryInit ==
    /\ stop = "clear"
    /\ delivered = {}
    /\ active = {}
    /\ dead = {}
    /\ place = [d \in Turns |-> "idle"]
    /\ kind = [d \in Turns |-> "final"]
    /\ heeds = [d \in Turns |-> FALSE]
    /\ tries = [d \in Turns |-> 0]
    /\ shown = {}
    /\ lost = {}

-----------------------------------------------------------------------------
(* deliver: the duplicate check, the session, the result.                   *)

\* start_or_get and _finalize of the delivery sessions: nothing else opens or
\* closes one.
OpenSession(d) == active' = active \cup {d}
CloseSession(d) == active' = active \ {d}

Duplicate(d) == kind[d] = "final" /\ KeyOf[d] \in delivered

\* The top of deliver, which is passed the stop event the service now has; a
\* duplicate is skipped.
Deliver(d) ==
    /\ place[d] = "ready"
    /\ \/ /\ Duplicate(d)
          /\ End(d, "skipped")
          /\ UNCHANGED active
       \/ /\ ~Duplicate(d)
          /\ Go(d, "sending")
          /\ OpenSession(d)
          /\ heeds' = [heeds EXCEPT ![d] = stop # "none"]
          /\ UNCHANGED tries
    /\ UNCHANGED <<delivered, dead, kind, shown, lost>>

\* Mutant: the key is not recorded.
RecordNothing(d) ==
    /\ place[d] = "sent"
    /\ CloseSession(d)
    /\ End(d, "delivered")
    /\ UNCHANGED <<delivered, dead, kind, shown, lost>>

\* A final is recorded and its session closed; an error closes its session.
Record(d) ==
    /\ place[d] = "sent"
    /\ delivered' = delivered \cup {KeyOf[e] : e \in {e \in {d} : kind[e] = "final"}}
    /\ CloseSession(d)
    /\ End(d, "delivered")
    /\ UNCHANGED <<dead, kind, shown, lost>>

\* finalize_error when the retries are used up.
RecordFailure(d) ==
    /\ place[d] = "given up"
    /\ CloseSession(d)
    /\ End(d, "failed")
    /\ UNCHANGED <<delivered, dead, kind, shown, lost>>

-----------------------------------------------------------------------------
(* _deliver_with_retry: attempts, backoff, the stop event, dead letters.    *)

\* raise_if_interrupted. The event that was passed stays set when the service
\* drops it.
Interrupted(d) == heeds[d] /\ stop # "clear"

\* An attempt is made: a token, the request, the response.
Attempts(d) == place[d] = "sending" /\ ~Interrupted(d)

Send(d) ==
    /\ Attempts(d)
    /\ shown' = shown \cup {d}
    /\ Go(d, "sent")
    /\ UNCHANGED <<delivered, active, dead, kind, heeds, tries, lost>>

\* The attempt was carried out or not, and the client is not told.
NotTold(d) ==
    \/ shown' = shown \cup {d} /\ lost' = lost \cup {d}
    \/ UNCHANGED <<shown, lost>>

\* Mutant: the last failure does not reach the dead letters.
GiveUpQuietly(d) == Go(d, "given up") /\ UNCHANGED <<dead, tries>>

DeadLetter(d) == dead' = dead \cup {d}

GiveUp(d) == Go(d, "given up") /\ DeadLetter(d) /\ UNCHANGED tries

\* The attempt raises RuntimeError or TimeoutError, or is not made because the
\* service stops: one more, or the dead letters.
Fails(d) ==
    /\ place[d] = "sending"
    /\ IF Interrupted(d) THEN UNCHANGED <<shown, lost>> ELSE NotTold(d)
    /\ \/ tries[d] >= RetryLimit /\ GiveUp(d)
       \/ tries[d] < RetryLimit /\ Go(d, "waiting") /\ tries' = [tries EXCEPT ![d] = @ + 1] /\ UNCHANGED dead
    /\ UNCHANGED <<delivered, active, kind, heeds>>

\* The response is not JSON, or the connection is reset while it is read: no
\* handler up to the dispatch, and the session stays active.
Breaks(d) ==
    /\ Attempts(d)
    /\ NotTold(d)
    /\ End(d, "broken")
    /\ UNCHANGED <<delivered, active, dead, kind>>

\* interruptible_sleep.
Backoff(d) ==
    /\ place[d] = "waiting"
    /\ \/ Interrupted(d) /\ GiveUp(d)
       \/ ~Interrupted(d) /\ Go(d, "sending") /\ UNCHANGED <<dead, tries>>
    /\ UNCHANGED <<delivered, active, kind, heeds, shown, lost>>

DeliveryStep(d) ==
    \/ Deliver(d) \/ Send(d) \/ Fails(d) \/ Breaks(d) \/ Backoff(d)
    \/ Record(d) \/ RecordFailure(d)
=============================================================================
