----------------------------- MODULE ProviderCall -----------------------------
(***************************************************************************)
(* One call of a model through an OpenAI-compatible provider               *)
(* (runtime/llm_adapters/openai_compat.py, provider_retry.py,              *)
(* llm_transport_support.py, cooperative_stop.py): attempts over the       *)
(* network, each preceded and followed by a look at the run's stop event   *)
(* and deadline, a pause between them, and the reading of the answer.      *)
(*                                                                         *)
(* Codes are the runtime's error codes: "auth" PROVIDER_AUTH_ERROR, "rate" *)
(* _RATE_LIMITED, "upstream" _UPSTREAM_UNAVAILABLE, "timeout" _TIMEOUT,    *)
(* "transport" _TRANSPORT_ERROR, "http" _HTTP_ERROR, "protocol"            *)
(* _PROTOCOL_ERROR, "garbled" and "invalid" _RESPONSE_INVALID with       *)
(* and without a retry; "overflow" is an HTTP error whose text says that   *)
(* the context is too long.                                                *)
(***************************************************************************)
EXTENDS Integers

CONSTANTS
  MaxAttempts,   \* RetryPolicy.max_attempts
  Faults         \* the codes the network answers with in this instance

VARIABLES
  call,     \* [at, attempt, code] of the call under way
  signal,   \* "none", "stop" (stop event) or "expired" (deadline)
  late      \* the calls begun after the signal

callVars == <<call, signal, late>>

Retryable == {"rate", "upstream", "timeout", "transport", "garbled"}
Codes == Retryable \union {"auth", "http", "overflow", "protocol", "invalid"}
ParseFaults == {"auth", "rate", "upstream", "invalid"}

ASSUME CallAssumption ==
  /\ MaxAttempts \in Nat \ {0}
  /\ Faults \subseteq Codes

NoCall == [at |-> "idle", attempt |-> 0, code |-> "none"]

CallTypeOK ==
  /\ call \in [at : {"idle", "checking", "sending", "waiting", "sleeping",
                     "parsing", "replied", "failed"},
               attempt : 0..MaxAttempts, code : Codes \union {"none"}]
  /\ signal \in {"none", "stop", "expired"}
  /\ late \in Nat

CallInit == call = NoCall /\ signal = "none" /\ late = 0

InterruptedLate == signal = "expired"

Interrupted == signal # "none"
Late == late' = IF signal # "none" THEN late + 1 ELSE late

Fails(code) == call' = [call EXCEPT !.at = "failed", !.code = code]
Goes(at) == call' = [call EXCEPT !.at = at]

\* A stop request or the deadline, at any moment.
Signal ==
  /\ signal = "none"
  /\ signal' \in {"stop", "expired"}
  /\ UNCHANGED <<call, late>>

\* The API of the request: none may fit the model.
Begin ==
  call' = [at |-> "checking", attempt |-> 1, code |-> "none"]
BeginNowhere ==
  call' = [at |-> "failed", attempt |-> 0, code |-> "protocol"]

\* An interruption is a timeout that is retried, and the pause before the
\* retry raises it again.
Check ==
  /\ call.at = "checking"
  /\ IF Interrupted THEN Fails("timeout") ELSE Goes("sending")
  /\ UNCHANGED <<signal, late>>

Send ==
  /\ call.at = "sending"
  /\ Goes("waiting")
  /\ Late
  /\ UNCHANGED signal

\* An answer that comes after the signal is thrown away.
Answered ==
  /\ call.at = "waiting"
  /\ IF Interrupted THEN Fails("timeout") ELSE Goes("parsing")
  /\ UNCHANGED <<signal, late>>

Refused ==
  /\ call.at = "waiting"
  /\ \E code \in Faults :
       IF code \in Retryable /\ call.attempt < MaxAttempts
       THEN Goes("sleeping") ELSE Fails(code)
  /\ UNCHANGED <<signal, late>>

Sleep ==
  /\ call.at = "sleeping"
  /\ IF Interrupted THEN Fails("timeout")
     ELSE call' = [call EXCEPT !.at = "checking", !.attempt = @ + 1]
  /\ UNCHANGED <<signal, late>>

\* What the answer says; an error in it is not retried.
Parse ==
  /\ call.at = "parsing"
  /\ \/ Goes("replied")
     \/ \E code \in ParseFaults \intersect Faults : Fails(code)
  /\ UNCHANGED <<signal, late>>

CallStep == Check \/ Send \/ Answered \/ Refused \/ Sleep \/ Parse
=============================================================================
