----------------------------- MODULE RuntimeLoop -----------------------------
(***************************************************************************)
(* One turn of an agent: RuntimeLoop.run (runtime/loop.py) with the        *)
(* requests it builds, the provider it fails over to, the tools it calls,  *)
(* the repairs it asks for and the text it ends with.  A turn makes at     *)
(* most MaxToolRounds + 2 requests.                                        *)
(*                                                                         *)
(* The text a model writes and the tool it picks are free choices; so are  *)
(* the stop request and the deadline, which the turn looks at between its  *)
(* steps.  Failures of the self-improvement recorder are left out.         *)
(***************************************************************************)
EXTENDS Finalization, ProviderCall

CONSTANTS
  MaxToolRounds,
  Sessions, First,    \* the session the turn starts in
  Profiles, Initial,  \* model profiles, and the one the turn starts with
  Fallback,           \* profile -> sequence of fallback profiles
  Broken,             \* profiles that cannot be built
  Asks,               \* what the messages of this instance ask
  Drafts              \* the contract blocks the model writes

ASSUME LoopAssumption ==
  /\ MaxToolRounds \in Nat \ {0}
  /\ First \in Sessions
  /\ Initial \in Profiles \ Broken
  /\ Fallback \in [Profiles -> Seq(Profiles)]
  /\ Asks \subseteq {"chat", "birth", "dayun", "other"}
  /\ Drafts \subseteq Contracts \union {NoDraft}

VARIABLES
  at,        \* "start", "open", "top", "asking", "tool" or "done"
  asks,      \* the message: "chat", or a question for the bazi agent
  rounds,    \* passes of the loop left
  requests,  \* requests made
  history,   \* the tool results of the turn
  spent,     \* the repairs used
  request,   \* the current request
  pending,   \* the tool about to be called
  active,    \* the session the turn works on
  bound,     \* the session the conversation is bound to
  context,   \* the session whose compacted context is used, or "none"
  saved,     \* session -> the session its stored context was made from
  provider,  \* [attempted, candidates]
  outcome    \* how the turn ended

loopVars == <<at, asks, rounds, requests, history, spent, request, pending, active, bound,
              context, saved, provider, outcome>>
vars == <<loopVars, callVars>>

\* The record of a run: there is none before it is opened.
Unopened == [status |-> "unopened", code |-> "none", shows |-> {}, draft |-> NoDraft]
Running == [Unopened EXCEPT !.status = "running"]

\* What the loop reads of a request.
FirstRequest(session) ==
  [kind |-> "interactive", asked |-> "none", base |-> NoDraft,
   invalid |-> NoText, session |-> session]

ToolNames == Tools \union {"none"}
Kinds == {"interactive", "contract", "finalize", "chart", "dayun", "search",
          "output"}

TypeOK ==
  /\ CallTypeOK
  /\ at \in {"start", "open", "top", "asking", "tool", "done"}
  /\ asks \in Asks
  /\ rounds \in 0..(MaxToolRounds + 2) /\ requests \in 0..(MaxToolRounds + 2)
  /\ history \in Seq([tool : Tools, ok : BOOLEAN])
  /\ Len(history) <= MaxToolRounds + 2
  /\ spent \subseteq {"retry", "contract", "chart", "dayun", "search", "output"}
  /\ request.kind \in Kinds /\ request.asked \in ToolNames \union {"chart", "dayun", "search"}
  /\ request.session \in Sessions
  /\ pending \in ToolNames
  /\ active \in Sessions /\ bound \in Sessions
  /\ context \in Sessions \union {"none"}
  /\ saved \in [Sessions -> Sessions \union {"none"}]
  /\ provider.attempted \subseteq Profiles
  /\ provider.candidates \in Seq(Profiles)
  /\ outcome.status \in {"unopened", "running", "success", "error", "raised"}

Members(s) == {s[i] : i \in DOMAIN s}

\* The fallbacks of a profile, in their order, come after the candidates. One
\* that is a candidate already is tried where it stands first; the code leaves
\* it out, and here the later mention is never reached.
Register(candidates, profile) == candidates \o Fallback[profile]

Init ==
  /\ CallInit
  /\ at = "start" /\ asks \in Asks
  /\ rounds = MaxToolRounds + 2 /\ requests = 0
  /\ history = <<>> /\ spent = {} /\ pending = "none"
  /\ request = FirstRequest(First)
  /\ active = First /\ bound = First
  /\ saved \in [Sessions -> {"none"}] \union {[s \in Sessions |-> s]}
  /\ context = saved[First]
  /\ provider = [attempted |-> {Initial},
                 candidates |-> Register(<<>>, Initial)]
  /\ outcome = Unopened

Bazi == asks # "chat"
Spent(repair) == repair \in spent
Summarised == context # "none"
Ledger == CurrentLedger(history, request.base)
Demands(ledger) == [cover |-> ledger.cover, trip |-> ledger.trip]

(***************************************************************************)
(* The ends of a turn.                                                     *)
(***************************************************************************)
\* The locals nobody sees afterwards.
Leaves == /\ request' = FirstRequest(active) /\ spent' = {} /\ pending' = "none"
          /\ rounds' = 0 /\ requests' = 0

Ends(status, code, shows, draft) ==
  /\ at' = "done"
  /\ outcome' = [status |-> status, code |-> code, shows |-> shows, draft |-> draft]
  /\ call' = NoCall
  /\ Leaves
  /\ UNCHANGED <<asks, history, active, bound, context, saved, provider, signal>>
Succeeds(how, shows, draft) == Ends("success", how, shows, draft)
FailsWith(code) == Ends("error", code, {}, NoDraft)
UsedUp == FailsWith("limit")
Raises == Ends("raised", "none", {}, NoDraft)

\* The loop goes round.
Continues == at' = "top" /\ rounds' = rounds - 1 /\ call' = NoCall /\ pending' = "none"

Asking(next, repairs) ==
  /\ Continues
  /\ request' = next
  /\ spent' = spent \union repairs
  /\ UNCHANGED <<asks, requests, provider, outcome, signal>>

Same == UNCHANGED <<history, active, bound, context, saved>>
OnTime == UNCHANGED late

Repair(kind, tool) ==
  [FirstRequest(active) EXCEPT !.kind = kind, !.asked = tool]
Retry(ledger, text) ==
  [FirstRequest(active) EXCEPT !.kind = "finalize", !.base = Demands(ledger),
                               !.invalid = text]
FollowUp(tool, ledger) ==
  [FirstRequest(active) EXCEPT !.asked = tool, !.base = Demands(ledger)]

(***************************************************************************)
(* The bazi agent's checks.                                                *)
(***************************************************************************)
Ok(tools) == {i \in Successful(history) : history[i].tool \in tools}
DayunRequested == asks \in {"birth", "dayun"}
Settled == {"chart", "solved"}
ChartFacts == Settled \union {"pillars"}
HasChart(h) == \E i \in Successful(h) : h[i].tool = "chart"
HasChartFacts(h) == \E i \in Successful(h) : h[i].tool \in ChartFacts
HasDayun(h) == \E i \in Successful(h) : h[i].tool \in {"dayun", "otherdayun"}
HasSearch(h) == \E i \in DOMAIN h : h[i].tool = "search"

\* What a dayun call needs comes from the first chart or the first pillars,
\* from those only if they are of one past time and the gender is known
\* ("solved").
HasPayload(h) ==
  \E i \in Successful(h) :
     /\ h[i].tool \in Settled
     /\ \A j \in 1..(i - 1) : ~(h[j].ok /\ h[j].tool = "pillars")
HasSeed(h) == HasChart(h) \/ HasPayload(h)

\* The latest dayun was computed for the same birth as the chart.
FingerprintsMatch(h) ==
  \A i \in Successful(h) :
     h[i].tool = "otherdayun" /\ HasChart(h) =>
        \E j \in (i + 1)..Len(h) : h[j].ok /\ h[j].tool = "dayun"

AnalysisComplete(h) ==
  /\ ~(DayunRequested /\ HasSeed(h) /\ ~HasDayun(h))
  /\ HasChartFacts(h)
  /\ \E i \in Successful(h) : h[i].tool = "search"

NeedsChart ==
  Bazi /\ ~HasChartFacts(history) /\ asks = "birth" /\ ~Spent("chart")
NeedsDayun(h) ==
  Bazi /\ DayunRequested /\ HasSeed(h) /\ ~HasDayun(h) /\ HasPayload(h) /\ ~Spent("dayun")
NeedsSearch(h) ==
  Bazi /\ HasChartFacts(h) /\ FingerprintsMatch(h) /\ ~HasSearch(h) /\ ~Spent("search")

(***************************************************************************)
(* Starting.                                                               *)
(***************************************************************************)
CompactsFirst == /\ context' = active
                 /\ saved' = [saved EXCEPT ![First] = active]

Compacts == /\ context' = active
            /\ saved' = [saved EXCEPT ![active] = active]

\* A context that has grown too long is compacted before the first request,
\* unless there is one; the compaction may have nothing to say, or fail and
\* end the turn before it has a record.
Start ==
  /\ at = "start"
  /\ \/ at' = "open" /\ UNCHANGED <<context, saved, late>>
     \/ at' = "open" /\ context = "none" /\ Compacts /\ Late
     \/ at' = "open" /\ context = "none" /\ UNCHANGED <<context, saved>> /\ Late
     \/ at' = "done" /\ context = "none" /\ UNCHANGED <<context, saved>> /\ Late
  /\ UNCHANGED <<asks, rounds, requests, history, spent, request, pending, active,
                 bound, provider, outcome, call, signal>>

\* The turn's context is put together and its record is opened.
Open ==
  /\ at = "open" /\ OnTime
  /\ at' = "top"
  /\ outcome' = Running
  /\ UNCHANGED <<asks, rounds, requests, history, spent, request, pending, active,
                 bound, context, saved, provider, call, signal>>

(***************************************************************************)
(* A provider that fails.                                                  *)
(***************************************************************************)
Failover == {"upstream", "rate", "timeout", "transport", "garbled", "invalid",
             "empty"}

Untried == {i \in DOMAIN provider.candidates : provider.candidates[i] \notin provider.attempted}
Foremost(s) == CHOOSE i \in s : \A j \in s : i <= j

\* Mutant: a candidate that cannot be built ends the search.
UsableNext == {i \in Untried : (\A j \in Untried : i <= j) /\ provider.candidates[i] \notin Broken}

Usable == {i \in Untried : provider.candidates[i] \notin Broken}

\* The next candidate that can be built; those before it that cannot are
\* skipped, and count as tried.
FailsOver ==
  LET next == Foremost(Usable)
      tried == {provider.candidates[i] : i \in {j \in Untried : j <= next}}
  IN /\ provider' = [attempted |-> provider.attempted \union tried,
                     candidates |-> Register(provider.candidates, provider.candidates[next])]
     /\ Continues
     /\ UNCHANGED <<asks, requests, history, spent, request, active, bound,
                    context, saved, outcome, signal>>

CanFailOver(code) == code \in Failover /\ Usable # {}

\* Out of candidates: the text the model was asked to improve, if it will
\* do after all; the latest result; or the error.
GivesUp(code) ==
  LET invalid == request.invalid
      kept == /\ request.kind = "finalize" /\ history # <<>> /\ Said(invalid)
              /\ Assess(history, requests, Ledger, invalid, NoDraft, FALSE) = "accepted"
      latest == RecoverLatest(history)
  IN \/ kept /\ Succeeds("kept", invalid.shows, NoDraft)
     \/ ~kept /\ latest # {} /\ Succeeds("latest", latest, NoDraft)
     \/ ~kept /\ latest = {} /\ FailsWith(code)

Unanswered(code) ==
  \/ CanFailOver(code) /\ FailsOver
  \/ ~CanFailOver(code) /\ GivesUp(code)

\* The context was refused as too long: the session is compacted and asked
\* again with the same results.  The compaction may also have nothing to
\* say, or fail and end the turn without a record.
ReactiveCompaction ==
  /\ request' = FirstRequest(active)
  /\ Compacts
  /\ Continues
  /\ UNCHANGED <<asks, requests, history, spent, active, bound, provider, outcome,
                 signal>>

OnFailure ==
  /\ at = "asking" /\ call.at = "failed"
  /\ IF call.code = "overflow" /\ ~Summarised
     THEN Late /\ (ReactiveCompaction \/ GivesUp(call.code) \/ Raises)
     ELSE OnTime /\ Unanswered(call.code)

(***************************************************************************)
(* A request.                                                              *)
(***************************************************************************)
\* A stop ends the turn, a deadline counts as a provider's timeout.  Before
\* the first request neither is handled: the handler needs the time at which
\* a request began.
Stops ==
  \/ requests = 0 /\ Raises
  \/ requests > 0 /\ signal = "stop" /\ FailsWith("stopped")
  \/ requests > 0 /\ signal = "expired" /\ Unanswered("timeout")

Ask ==
  /\ at' = "asking" /\ requests' = requests + 1
  /\ (Begin \/ BeginNowhere)
  /\ UNCHANGED <<asks, rounds, history, spent, request, pending, active, bound,
                 context, saved, provider, outcome, signal>>

Top ==
  /\ at = "top" /\ OnTime
  /\ \/ rounds = 0 /\ UsedUp
     \/ rounds > 0 /\ Interrupted /\ Stops
     \/ rounds > 0 /\ ~Interrupted /\ Ask

Calls ==
  /\ at = "asking"
  /\ CallStep
  /\ UNCHANGED loopVars

(***************************************************************************)
(* A reply that calls a tool.                                              *)
(***************************************************************************)
Replied == at = "asking" /\ call.at = "replied"

\* A request that names a tool and carries no result accepts no other.
Forced == \/ request.kind \in {"dayun", "search"}
          \/ request.asked # "none" /\ history = <<>>

BaziTools == ChartFacts \union {"dayun", "otherdayun"}
Offered == IF Bazi THEN Tools \intersect (BaziTools \union {"search"})
                   ELSE Tools \ (BaziTools \union {"search"})
Required(tool) == \/ tool = request.asked
                  \/ request.asked \in BaziTools /\ tool \in BaziTools

\* The latest spawn was accepted and the reply asks for the same again.
Duplicate(tool, same) ==
  /\ request.asked = "spawn" /\ tool = "spawn" /\ same
  /\ history # <<>>
  /\ history[Len(history)] = [tool |-> "spawn", ok |-> TRUE]

Deprioritised == [NoLedger EXCEPT !.items = {}]
Recovered == Recover(history, requests, Ledger)
AtLimit == Len(history) >= MaxToolRounds

FailsAtOnce(code) == FailsWith(code)

RecoversOr(code) ==
  \/ Recovered # {} /\ Succeeds("recovered", Recovered, NoDraft)
  \/ Recovered = {} /\ FailsWith(code)

Wrong == Fails("invalid") /\ OnTime /\ UNCHANGED <<signal, loopVars>>

\* The tool is looked up and called, or the turn is interrupted first.
CallsTool(tool) ==
  /\ ~Interrupted
  /\ at' = "tool" /\ pending' = tool
  /\ UNCHANGED <<asks, rounds, requests, history, spent, request, active, bound,
                 context, saved, provider, outcome, call, signal>>

ToolReply ==
  /\ Replied
  /\ \E tool \in Offered, same \in BOOLEAN :
       IF Forced /\ ~Required(tool) /\ request.kind # "dayun" THEN Wrong
       ELSE /\ OnTime
            /\ (request.kind = "dayun" => tool \in {"dayun", "otherdayun"})
            /\ (tool # "spawn" => same)
            /\ CASE request.kind = "finalize" -> RecoversOr("empty")
                 [] request.kind # "finalize" /\ Bazi /\ AnalysisComplete(history)
                      /\ ~Spent("retry") ->
                        Asking(Retry(Ledger, NoText), {"retry"}) /\ Same
                 [] request.kind # "finalize" /\ Duplicate(tool, same)
                      /\ Recovered # {} -> Succeeds("recovered", Recovered, NoDraft)
                 [] OTHER ->
                      \/ ~AtLimit /\ CallsTool(tool)
                      \/ ~AtLimit /\ Interrupted /\ Stops
                      \/ AtLimit /\ Summarised /\ ~Spent("retry")
                           /\ Asking(Retry(Deprioritised, NoText), {"retry"}) /\ Same
                      \/ AtLimit /\ ~(Summarised /\ ~Spent("retry"))
                           /\ UsedUp

(***************************************************************************)
(* The tool.                                                               *)
(***************************************************************************)
RecoversLatestOr(code) ==
  LET text == IF Recovered # {} THEN Recovered ELSE RecoverLatest(history)
  IN \/ text # {} /\ Succeeds("recovered", text, NoDraft)
     \/ text = {} /\ FailsWith(code)

\* The tool is not allowed or not there: it was not called.
Rejected ==
  /\ at = "tool" /\ OnTime
  /\ RecoversLatestOr("rejected")

\* The tool raises.  A memory call with a malformed payload is explained to
\* the model, once, in a request without the results so far.
Raised ==
  /\ at = "tool" /\ Late
  /\ \/ RecoversLatestOr("tool")
     \/ /\ pending = "memory" /\ ~Spent("contract")
        /\ Asking(Repair("contract", "none"), {"contract"})
        /\ history' = Append(history, [tool |-> "memory", ok |-> FALSE])
        /\ UNCHANGED <<active, bound, context, saved>>

\* The session tool has moved the conversation: the turn goes on in the
\* other session, with its messages and its compacted context.
MovesTo(session) ==
  /\ bound' = session /\ active' = session
  /\ context' = IF session = active THEN context ELSE saved[session]
  /\ UNCHANGED saved

Stays == UNCHANGED <<active, bound, context, saved>>

\* The request that follows a result.
Following(h, session) ==
  LET ledger == CurrentLedger(h, request.base)
      In(next) == [next EXCEPT !.session = session]
  IN CASE NeedsDayun(h) -> Asking(In(Repair("dayun", "dayun")), {"dayun"})
       [] ~NeedsDayun(h) /\ NeedsSearch(h) ->
            Asking(In(Repair("search", "search")), {"search"})
       [] ~NeedsDayun(h) /\ ~NeedsSearch(h) /\ Bazi /\ AnalysisComplete(h)
            /\ ~Spent("retry") ->
              Asking(In(Retry(ledger, NoText)), {"retry"})
       [] OTHER -> Asking(In(FollowUp(pending, ledger)), {})

Returns ==
  /\ at = "tool" /\ Late
  /\ \E ok \in BOOLEAN :
       LET h == Append(history, [tool |-> pending, ok |-> ok])
           last == Len(h) >= MaxToolRounds /\ ~Spent("retry") /\ Summarised
       IN /\ history' = h
          /\ \/ /\ Renders([tool |-> pending, ok |-> ok])
                /\ at' = "done"
                /\ outcome' = [status |-> "success", code |-> "terminal",
                               shows |-> {Len(h)}, draft |-> NoDraft]
                /\ call' = NoCall /\ Leaves
                /\ bound' \in (IF pending = "session" THEN Sessions ELSE {bound})
                /\ UNCHANGED <<asks, active, context, saved, provider, signal>>
             \/ /\ last
                /\ Asking(Retry(Deprioritised, NoText), {"retry"})
                /\ UNCHANGED <<active, context, saved>>
                /\ \/ UNCHANGED bound
                   \/ pending = "session" /\ ok /\ bound' \in Sessions
             \/ ~last /\ Following(h, active) /\ Stays
             \/ /\ ~last /\ pending = "session" /\ ok
                /\ \E session \in Sessions :
                      Following(h, session) /\ MovesTo(session)

(***************************************************************************)
(* A reply with a text.                                                    *)
(***************************************************************************)
\* The number of round trips matters only where a contract asks for it.
Counts == IF \E draft \in Drafts \ {NoDraft} : draft.trip THEN {RoundTrips} ELSE {}

Written ==
  {Text(form, {}, draft) : form \in {"empty", "generic", "invocation"}, draft \in Drafts}
    \union {Text(form, shows, draft) :
              form \in {"prose", "fragments"}, draft \in Drafts,
              shows \in SUBSET (DOMAIN history \union Counts)}

\* A text that says the conversation has been moved claims it, whatever its
\* contract says.
Inferred(draft, switched) ==
  IF ~switched THEN draft
  ELSE IF draft = NoDraft THEN [NoClaims EXCEPT !.claims = {"session"}]
  ELSE [draft EXCEPT !.claims = @ \union {"session"}]

\* No text and no tool: another provider may have one.
Silent ==
  \/ CanFailOver("empty") /\ FailsOver
  \/ ~CanFailOver("empty") /\ FailsWith("empty")

\* Without tool results a text is checked for its contract only.
FirstText(text, switched) ==
  LET invalid == Violates(<<>>, text, Inferred(text.draft, switched), TRUE)
  IN CASE invalid /\ ~Spent("contract") ->
            Asking(Repair("contract", "none"), {"contract"}) /\ Same
       [] invalid /\ Spent("contract") /\ Said(text) /\ text.draft = NoDraft ->
            Succeeds("unchecked", {}, NoDraft)
       [] invalid /\ Spent("contract") /\ ~(Said(text) /\ text.draft = NoDraft) ->
            FailsWith("unsound")
       [] ~invalid /\ ~Said(text) -> Silent
       [] OTHER -> Succeeds("answer", {}, text.draft)

\* What a text has to show: after a retry also the latest failure.
Demanded(draft) ==
  ApplyDraft(IF Spent("retry") \/ request.kind = "finalize"
             THEN RequireLatestFailure(Ledger, history) ELSE Ledger, draft)

\* A second text that will not do is replaced by the runtime's own, unless
\* it holds all the rendered results.
Settles(text, ledger) ==
  LET own == Recover(history, requests, ledger)
      good == /\ Said(text) /\ text.form \notin {"generic", "invocation"}
              /\ \/ Assess(history, requests, ledger, text, text.draft, TRUE) = "accepted"
                 \/ MissingFragments(history, requests, ledger, text) = {}
  IN \/ own = {} /\ FailsWith("empty")
     \/ own # {} /\ good /\ Succeeds("improved", text.shows, text.draft)
     \/ own # {} /\ ~good /\ Succeeds("recovered", own, NoDraft)

Judged(text) ==
  LET ledger == Demanded(text.draft)
      first == Assess(history, requests, ledger, text, text.draft, TRUE)
      verdict == IF first = "accepted" /\ MasksFailure(history, text, ledger)
                 THEN "retryable" ELSE first
  IN CASE verdict = "retryable" /\ ~Spent("retry") ->
            Asking(Retry(ledger, text), {"retry"}) /\ Same
       [] verdict = "retryable" /\ Spent("retry") -> Settles(text, ledger)
       [] verdict = "unrecoverable" -> FailsWith("empty")
       [] OTHER -> Succeeds("accepted", text.shows, text.draft)

\* The bazi agent's text lacks sections, or breaks the rules on timing.
Flaws == IF Bazi /\ HasDayun(history) /\ HasSearch(history)
         THEN {"none", "timing", "sections"} ELSE {"none"}

\* The bazi agent's missing steps and flaws come first.
Answers(text, flaw) ==
  CASE NeedsChart -> Asking(Repair("chart", "chart"), {"chart"}) /\ Same
    [] ~NeedsChart /\ NeedsDayun(history) ->
         Asking(Repair("dayun", "dayun"), {"dayun"}) /\ Same
    [] ~NeedsChart /\ ~NeedsDayun(history) /\ NeedsSearch(history) ->
         Asking(Repair("search", "search"), {"search"}) /\ Same
    [] flaw = "timing" /\ ~Spent("output") ->
         Asking(Repair("output", "none"), {"output"}) /\ Same
    [] flaw = "sections" /\ ~Spent("output") ->
         Asking(Retry(Ledger, Text("prose", text.shows, NoDraft)), {"output"}) /\ Same
    [] OTHER ->
         IF history = <<>>
         THEN \E switched \in BOOLEAN : FirstText(text, switched)
         ELSE Judged(text)

TextReply ==
  /\ Replied
  /\ request.kind # "dayun"
  /\ IF Forced THEN Wrong
     ELSE /\ OnTime
          /\ \/ Interrupted /\ Stops
             \/ /\ ~Interrupted
                /\ \E text \in Written, flaw \in Flaws : Answers(text, flaw)

(***************************************************************************)
(* The specification.  The network answers or times out and every tool     *)
(* returns or raises; nobody has to stop a turn.                           *)
(***************************************************************************)
Arrives == at # "done" /\ Signal /\ UNCHANGED loopVars

Turn == Start \/ Open \/ Top \/ Calls \/ OnFailure \/ ToolReply \/ Rejected \/ Raised
          \/ Returns \/ TextReply

Done == at = "done" /\ UNCHANGED vars

Next == Turn \/ Arrives \/ Done
Spec == Init /\ [][Next]_vars /\ WF_vars(Turn)

-----------------------------------------------------------------------------
(***************************************************************************)
(* What a turn of the runtime loop must never do, and what it must do.     *)
(***************************************************************************)

Over == at = "done"

(***************************************************************************)
(* After a stop or the deadline a turn begins no new work: the call that   *)
(* was about to be sent goes out, and the compaction that its refusal may  *)
(* ask for (loop.py, _raise_if_interrupted, and provider_retry.with_retry).*)
(***************************************************************************)
FewCallsAfterStop == late <= 2

(***************************************************************************)
(* The turn's requests, its context and what it stores belong to one       *)
(* session, the one the conversation is bound to; only a turn that has     *)
(* used up its tools may end where it began (session_rebind_flow.py).      *)
(***************************************************************************)
WorksOnOneSession ==
  /\ request.session = active
  /\ context \in {"none", active}
  /\ \A s \in Sessions : saved[s] \in {"none", s}
  /\ active # bound => Over \/ AtLimit

(***************************************************************************)
(* A turn gives up on a provider's passing failure only when no profile    *)
(* that can be built is left untried, fallbacks of fallbacks included      *)
(* (provider_flow.try_provider_failover).                                  *)
(***************************************************************************)
Reachable ==
  {p \in Profiles : \A S \in SUBSET Profiles :
     Initial \in S /\ (\A q \in S \ Broken : Members(Fallback[q]) \subseteq S) => p \in S}

FailoverExhausted ==
  outcome.status = "error" /\ outcome.code \in Failover \ {"empty"} =>
     Reachable \ Broken \subseteq provider.attempted

(***************************************************************************)
(* A tool result that the runtime can put in words reaches the user: the   *)
(* turn does not end without a text although it has one (finalization      *)
(* retry, recovery_flow.recover_successful_tool_followup_text_with_meta).  *)
(***************************************************************************)
ResultIsTold ==
  outcome.status = "error" /\ outcome.code \in {"empty", "unsound", "rejected", "tool"} =>
     SafeFragments(history) = {}

(***************************************************************************)
(* A text that the runtime accepts under a contract is borne out by the    *)
(* tool results, also when the contract, the request or the provider was   *)
(* replaced on the way.  A second text that fails the check but holds all  *)
(* the rendered results is given out unchecked ("improved").               *)
(***************************************************************************)
AcceptedIsBorneOut ==
  outcome.draft # NoDraft /\ outcome.code # "improved" =>
     \A claim \in outcome.draft.claims : Confirms(history, claim)
=============================================================================
