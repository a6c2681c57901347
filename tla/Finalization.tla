---------------------------- MODULE Finalization ----------------------------
(***************************************************************************)
(* How the runtime judges a model's final text against the tool results of *)
(* the turn, and what it says itself when the model's text will not do     *)
(* (runtime/recovery_flow.py, finalization_flow.py, tool_followup_support  *)
(* and direct_rendering).  Everything here is an operator: the loop that   *)
(* uses it is in RuntimeLoop.                                              *)
(*                                                                         *)
(* A tool result is [tool, ok]: the tool with its action, and whether it   *)
(* succeeded.  A text is [form, shows, draft]: whether it is empty, a      *)
(* canned failure, an unresolved tool call, some rendered results joined,  *)
(* or prose; the results whose evidence it holds (0 is the line that       *)
(* counts the round trips); and the contract block the model added, which  *)
(* says what it must cover and which tool results its claims rest on.      *)
(***************************************************************************)
EXTENDS Integers, Sequences, FiniteSets

CONSTANTS
  Tools,      \* the tools, each with the action it was called with
  Rendered,   \* those whose result the runtime can put in words itself
  Listing,    \* "list" and "detail" of an MCP server
  Calling,    \* "call" of an MCP tool
  NoDraft     \* a text without a contract block

\* What a contract block can say; a text that tells of a switch claims one.
Contracts == [cover : BOOLEAN, trip : BOOLEAN, claims : SUBSET (Tools \union {"session"})]

ASSUME ToolsAssumption ==
  /\ NoDraft \notin Contracts
  /\ Rendered \subseteq Tools
  /\ Listing \subseteq Tools
  /\ Calling \subseteq Tools

RoundTrips == 0

NoClaims == [cover |-> FALSE, trip |-> FALSE, claims |-> {}]

Text(form, shows, draft) == [form |-> form, shows |-> shows, draft |-> draft]
NoText == Text("empty", {}, NoDraft)
Said(text) == text.form # "empty"

(***************************************************************************)
(* Tool results.                                                           *)
(***************************************************************************)
Renders(exchange) == exchange.ok /\ exchange.tool \in Rendered

\* A listing that only prepared a later call.
IsIntermediate(h, i) ==
  /\ h[i].ok
  /\ h[i].tool \in Listing
  /\ \E j \in (i + 1)..Len(h) : h[j].tool \in Calling

Successful(h) == {i \in DOMAIN h : h[i].ok}
Failures(h) == DOMAIN h \ Successful(h)

SafeFragments(h) == {i \in DOMAIN h : Renders(h[i]) /\ ~IsIntermediate(h, i)}

LoopMeta(h, requests, trip) ==
  IF trip /\ requests >= 3 /\ Len(h) >= 2 THEN {RoundTrips} ELSE {}

(***************************************************************************)
(* The evidence ledger: which results the final text has to show.          *)
(***************************************************************************)
BuildLedger(h, cover, trip) ==
  [ cover |-> cover, trip |-> trip,
    items |-> DOMAIN h \union {RoundTrips},
    required |-> {i \in Successful(h) : cover /\ ~IsIntermediate(h, i)}
                   \union (IF trip THEN {RoundTrips} ELSE {}) ]

NoLedger == [cover |-> FALSE, trip |-> FALSE, items |-> {}, required |-> {}]

\* A request that carries no ledger leaves the demands to the results.
CurrentLedger(h, base) ==
  IF base = NoDraft THEN BuildLedger(h, Successful(h) # {}, FALSE)
                    ELSE BuildLedger(h, base.cover, base.trip)

RequireLatestFailure(ledger, h) ==
  IF Failures(h) = {} THEN ledger
  ELSE LET latest == CHOOSE i \in Failures(h) : \A j \in Failures(h) : j <= i
       IN [ledger EXCEPT !.cover = TRUE,
                         !.required = @ \union ({latest} \intersect ledger.items)]

\* The model's own contract replaces the demands, unless it is empty while
\* something is demanded.
ApplyDraft(ledger, draft) ==
  IF draft = NoDraft \/ (draft = NoClaims /\ (ledger.cover \/ ledger.trip))
  THEN ledger
  ELSE [ledger EXCEPT !.cover = draft.cover, !.trip = draft.trip,
                      !.required = {i \in ledger.items :
                          IF i = RoundTrips THEN draft.trip ELSE draft.cover}]

(***************************************************************************)
(* The contract of a text: its claims are borne out by the tool results.   *)
(***************************************************************************)
Confirms(h, claim) == \E i \in Successful(h) : h[i].tool = claim

ViolatesNothing(h, text, draft, enforce) ==
  enforce /\ Said(text) /\ draft = NoDraft

Violates(h, text, draft, enforce) ==
  \/ enforce /\ Said(text) /\ draft = NoDraft
  \/ draft # NoDraft /\ \E claim \in draft.claims : ~Confirms(h, claim)

(***************************************************************************)
(* What the runtime says itself: the required results, or every successful *)
(* one; failing that the rendered fragments, or the latest result.         *)
(***************************************************************************)
RecoverFromLedger(h, ledger) ==
  LET trip == IF ledger.trip THEN {RoundTrips} ELSE {}
  IN IF ledger.required # {} THEN ledger.required \union trip
     ELSE {i \in ledger.items \intersect Successful(h) : ~IsIntermediate(h, i)}
            \union trip

RecoverLatest(h) ==
  IF h # <<>> /\ Renders(h[Len(h)]) THEN {Len(h)} ELSE {}

Recover(h, requests, ledger) ==
  LET own == RecoverFromLedger(h, ledger)
      fragments == SafeFragments(h) \union LoopMeta(h, requests, ledger.trip)
  IN CASE h = <<>> -> {}
       [] h # <<>> /\ own # {} -> own
       [] h # <<>> /\ own = {} /\ fragments # {} -> fragments
       [] OTHER -> RecoverLatest(h)

Fragments(shows) ==
  IF shows = {} THEN NoText ELSE Text("fragments", shows, NoDraft)

(***************************************************************************)
(* The assessment.                                                         *)
(***************************************************************************)
\* The text is exactly some, and not all, of the rendered results.
IsPartial(fragments, text) ==
  /\ Cardinality(fragments) >= 2
  /\ text.form = "fragments"
  /\ text.shows \subseteq fragments
  /\ text.shows # fragments

MissingRequired(ledger, text) ==
  IF Said(text) THEN ledger.required \ text.shows ELSE ledger.required

\* What the diagnostics call missing: rendered results only.
MissingFragments(h, requests, ledger, text) ==
  (SafeFragments(h) \union LoopMeta(h, requests, ledger.trip))
     \ (IF Said(text) THEN text.shows ELSE {})

Assess(h, requests, given, text, draft, enforce) ==
  LET ledger == ApplyDraft(given, draft)
      fragments == SafeFragments(h) \union LoopMeta(h, requests, ledger.trip)
      broken == text.form = "invocation" \/ Violates(h, text, draft, enforce)
      degraded == \/ text.form \in {"empty", "generic"}
                  \/ IsPartial(fragments, text)
                  \/ MissingRequired(ledger, text) # {}
  IN CASE broken -> IF h # <<>> THEN "retryable" ELSE "unrecoverable"
       [] ~broken /\ ~degraded -> "accepted"
       [] ~broken /\ degraded ->
            IF fragments \union RecoverFromLedger(h, ledger) # {}
            THEN "retryable" ELSE "unrecoverable"

\* An accepted text that repeats a listing while another call failed.
MasksFailure(h, text, ledger) ==
  /\ Failures(h) # {}
  /\ Said(text)
  /\ \E i \in ledger.items \intersect DOMAIN h :
        IsIntermediate(h, i) /\ i \in text.shows
=============================================================================
