-------------------------- MODULE RuntimeLoopProofs --------------------------
(***************************************************************************)
(* Proofs about one turn of the runtime loop, for any tools, profiles,     *)
(* fallbacks, sessions, contracts and limits: its types and counts, and    *)
(* the five invariants that the run checks.                                *)
(***************************************************************************)
EXTENDS RuntimeLoop, WellFoundedInduction, TLAPS

Exchanges == [tool : Tools, ok : BOOLEAN]
Repairs == {"retry", "contract", "chart", "dayun", "search", "output"}
Limit == MaxToolRounds + 2

\* A request of a session.
IsRequest(r, session) ==
  /\ r.kind \in Kinds
  /\ r.asked \in ToolNames \union {"chart", "dayun", "search"}
  /\ r.session = session

\* Passes, requests and results of a turn: each pass makes one request and
\* leaves one result at most.
Tally ==
  /\ rounds \in Nat /\ requests \in Nat
  /\ requests + rounds <= Limit + (IF at \in {"asking", "tool"} THEN 1 ELSE 0)
  /\ Len(history) + rounds <= Limit
  /\ at \in {"asking", "tool"} => rounds >= 1

\* What the variables are, beyond TypeOK.
Shape ==
  /\ TypeOK
  /\ Tally
  /\ at = "tool" => pending \in Tools
  /\ at = "asking" => call.at # "idle"
  /\ call.at = "sleeping" => call.attempt < MaxAttempts

\* The calls begun after the signal, by the place where it can have come.
LateAt(place, step, sign, n) ==
  /\ n \in 0..2
  /\ sign = "none" => n = 0
  /\ place \in {"start", "tool"} => n = 0
  /\ place = "open" => n <= 1
  /\ place = "asking" =>
       IF step \in {"checking", "sending", "parsing", "replied"} THEN n = 0 ELSE n <= 1

LateBound == LateAt(at, call.at, signal, late)

\* The fallbacks of every profile tried are candidates.
Registered ==
  /\ Initial \in provider.attempted
  /\ \A p \in provider.attempted \ Broken : Members(Fallback[p]) \subseteq Members(provider.candidates)

\* What an ending must satisfy.
Told == {"empty", "unsound", "rejected", "tool"}

MayEnd(status, code, draft) ==
  /\ status = "error" /\ code \in Failover \ {"empty"} => Reachable \ Broken \subseteq provider.attempted
  /\ status = "error" /\ code \in Told => SafeFragments(history) = {}
  /\ draft # NoDraft /\ code # "improved" => \A claim \in draft.claims : Confirms(history, claim)

Ending ==
  /\ at # "done" => outcome.status \in {"unopened", "running"} /\ outcome.draft = NoDraft
  /\ MayEnd(outcome.status, outcome.code, outcome.draft)

IInv == Shape /\ LateBound /\ WorksOnOneSession /\ Registered /\ Ending

-----------------------------------------------------------------------------
(***************************************************************************)
(* Operators.                                                              *)
(***************************************************************************)
\* A set of positions that is not empty has a foremost one.
LEMMA ForemostIn ==
  ASSUME NEW s \in SUBSET Nat, s # {}
  PROVE  Foremost(s) \in s /\ \A j \in s : Foremost(s) <= j
<1> DEFINE less == {p \in Nat \X Nat : p[1] < p[2]}
<1>1. IsWellFoundedOn(less, Nat)
  <2>1. less = OpToRel(<, Nat)
    BY DEF OpToRel
  <2> QED
    BY <2>1, NatLessThanWellFounded
<1> HIDE DEF less
<1>2. PICK x \in s : \A y \in s : ~(<<y, x>> \in less)
  BY <1>1, WFMin, Zenon
<1>3. ASSUME NEW y \in s
      PROVE  x <= y
  <2>1. x \in Nat /\ y \in Nat
    OBVIOUS
  <2>2. ~(y < x)
    BY <1>2, <2>1 DEF less
  <2> QED
    BY <2>1, <2>2
<1> QED
  BY <1>3 DEF Foremost

\* Recovery finds nothing only if no result can be rendered.
LEMMA RecoverNothing ==
  ASSUME NEW h \in Seq(Exchanges), NEW n, NEW ledger, Recover(h, n, ledger) = {}
  PROVE  SafeFragments(h) = {}
<1> DEFINE own == RecoverFromLedger(h, ledger)
           fragments == SafeFragments(h) \union LoopMeta(h, n, ledger.trip)
<1>1. CASE h = <<>>
  <2>1. DOMAIN h = {}
    BY <1>1
  <2> QED
    BY <2>1 DEF SafeFragments
<1>2. CASE h # <<>>
  <2>1. own = {}
    BY <1>2 DEF Recover
  <2>2. fragments = {}
    BY <1>2, <2>1 DEF Recover
  <2> QED
    BY <2>2
<1> QED
  BY <1>1, <1>2

\* The verdicts on a text, and what each says of the results.
LEMMA Verdicts ==
  ASSUME NEW h, NEW n, NEW given, NEW text, NEW draft,
         NEW verdict, verdict = Assess(h, n, given, text, draft, TRUE)
  PROVE  /\ verdict \in {"accepted", "retryable", "unrecoverable"}
         /\ verdict = "accepted" => ~Violates(h, text, draft, TRUE)
         /\ verdict = "unrecoverable" /\ h # <<>> => SafeFragments(h) = {}
<1> DEFINE ledger == ApplyDraft(given, draft)
           fragments == SafeFragments(h) \union LoopMeta(h, n, ledger.trip)
           broken == text.form = "invocation" \/ Violates(h, text, draft, TRUE)
           degraded == \/ text.form \in {"empty", "generic"}
                       \/ IsPartial(fragments, text)
                       \/ MissingRequired(ledger, text) # {}
           rest == fragments \union RecoverFromLedger(h, ledger)
<1>1. broken => verdict = IF h # <<>> THEN "retryable" ELSE "unrecoverable"
  BY DEF Assess
<1>2. ~broken /\ ~degraded => verdict = "accepted"
  BY DEF Assess
<1>3. ~broken /\ degraded => verdict = IF rest # {} THEN "retryable" ELSE "unrecoverable"
  BY DEF Assess
<1>4. rest = {} => SafeFragments(h) = {}
  OBVIOUS
<1>5. ~broken => ~Violates(h, text, draft, TRUE)
  OBVIOUS
<1> HIDE DEF broken, degraded, rest
<1> QED
  BY <1>1, <1>2, <1>3, <1>4, <1>5

\* When no candidate is left, every profile that can be reached was tried or
\* cannot be built.
LEMMA Exhausted ==
  ASSUME Shape, Registered, Usable = {}
  PROVE  Reachable \ Broken \subseteq provider.attempted
<1> DEFINE S == provider.attempted \union (Broken \intersect Profiles)
<1>1. S \in SUBSET Profiles /\ Initial \in S
  BY DEF Shape, TypeOK, Registered
<1>2. Members(provider.candidates) \subseteq S
  <2> SUFFICES ASSUME NEW i \in DOMAIN provider.candidates
               PROVE  provider.candidates[i] \in S
    BY DEF Members
  <2>1. provider.candidates[i] \in Profiles
    BY DEF Shape, TypeOK
  <2>2. provider.candidates[i] \in provider.attempted \union Broken
    BY DEF Usable, Untried
  <2> QED
    BY <2>1, <2>2
<1>3. \A q \in S \ Broken : Members(Fallback[q]) \subseteq S
  BY <1>2 DEF Registered
<1> HIDE DEF S
<1>4. Reachable \subseteq S
  BY <1>1, <1>3 DEF Reachable
<1> QED
  BY <1>4 DEF S

LEMMA MembersOfBoth ==
  ASSUME NEW a \in Seq(Profiles), NEW b \in Seq(Profiles)
  PROVE  /\ a \o b \in Seq(Profiles)
         /\ Members(a) \subseteq Members(a \o b)
         /\ Members(b) \subseteq Members(a \o b)
<1>1. a \o b \in Seq(Profiles) /\ Len(a \o b) = Len(a) + Len(b)
      /\ Len(a) \in Nat /\ Len(b) \in Nat
  OBVIOUS
<1>2. \A i \in 1..Len(a) : i \in 1..Len(a \o b) /\ (a \o b)[i] = a[i]
  BY <1>1
<1>3. \A i \in 1..Len(b) : i + Len(a) \in 1..Len(a \o b) /\ (a \o b)[i + Len(a)] = b[i]
  BY <1>1
<1>4. DOMAIN a = 1..Len(a) /\ DOMAIN b = 1..Len(b) /\ DOMAIN (a \o b) = 1..Len(a \o b)
  BY <1>1
<1>5. Members(a) \subseteq Members(a \o b)
  <2> SUFFICES ASSUME NEW i \in 1..Len(a)
               PROVE  a[i] \in Members(a \o b)
    BY <1>4 DEF Members
  <2> QED
    BY <1>2, <1>4 DEF Members
<1>6. Members(b) \subseteq Members(a \o b)
  <2> SUFFICES ASSUME NEW i \in 1..Len(b)
               PROVE  b[i] \in Members(a \o b)
    BY <1>4 DEF Members
  <2> QED
    BY <1>3, <1>4 DEF Members
<1> QED
  BY <1>1, <1>5, <1>6

-----------------------------------------------------------------------------
(***************************************************************************)
(* The forms a step can take.                                              *)
(***************************************************************************)
\* The turn ends.
LEMMA EndsKeep ==
  ASSUME IInv, at # "done",
         NEW status \in {"success", "error", "raised"}, NEW code, NEW shows, NEW draft,
         Ends(status, code, shows, draft), MayEnd(status, code, draft),
         LateAt("done", "idle", signal, late')
  PROVE  IInv'
<1>1. /\ at' = "done" /\ call' = NoCall
      /\ outcome' = [status |-> status, code |-> code, shows |-> shows, draft |-> draft]
      /\ request' = FirstRequest(active)
      /\ spent' = {} /\ pending' = "none" /\ rounds' = 0 /\ requests' = 0
      /\ UNCHANGED <<asks, history, active, bound, context, saved, provider, signal>>
  BY DEF Ends, Leaves
<1>2. CallTypeOK'
  BY <1>1, CallAssumption DEF IInv, Shape, TypeOK, CallTypeOK, NoCall, LateAt
<1>3. Len(history) \in Nat /\ Limit \in Nat
  BY LoopAssumption DEF IInv, Shape, TypeOK, Limit
<1>4. TypeOK'
  <2>1. /\ request'.kind \in Kinds /\ request'.asked = "none" /\ request'.session \in Sessions
    BY <1>1 DEF FirstRequest, Kinds, IInv, Shape, TypeOK
  <2>2. outcome'.status \in {"success", "error", "raised"}
    BY <1>1
  <2>3. 0 \in 0..(MaxToolRounds + 2)
    BY LoopAssumption
  <2> QED
    BY <1>1, <1>2, <2>1, <2>2, <2>3 DEF IInv, Shape, TypeOK, ToolNames
<1>5. Tally'
  BY <1>1, <1>3 DEF IInv, Shape, Tally
<1>6. Shape'
  BY <1>1, <1>4, <1>5 DEF Shape, NoCall
<1>7. LateBound'
  BY <1>1 DEF LateBound, LateAt
<1>8. WorksOnOneSession'
  BY <1>1 DEF IInv, WorksOnOneSession, FirstRequest, Over
<1>9. Registered'
  BY <1>1 DEF IInv, Registered
<1>10. Ending'
  BY <1>1 DEF Ending, MayEnd
<1> QED
  BY <1>6, <1>7, <1>8, <1>9, <1>10 DEF IInv

\* The turn goes round once more.
LEMMA ContinuesKeep ==
  ASSUME IInv, at \in {"top", "asking", "tool"}, rounds >= 1, Continues,
         UNCHANGED <<asks, requests, outcome, signal>>,
         active' \in Sessions, IsRequest(request', active'), spent' \subseteq Repairs,
         history' \in Seq(Exchanges), Len(history') \in Len(history)..(Len(history) + 1),
         bound' \in Sessions, active' # bound' => Len(history') >= MaxToolRounds,
         context' \in {"none", active'}, saved' \in [Sessions -> Sessions \union {"none"}],
         \A s \in Sessions : saved'[s] \in {"none", s},
         provider'.attempted \subseteq Profiles, provider'.candidates \in Seq(Profiles),
         Registered',
         LateAt("top", "idle", signal, late')
  PROVE  IInv'
<1>1. at' = "top" /\ rounds' = rounds - 1 /\ call' = NoCall /\ pending' = "none"
  BY DEF Continues
<1>2. CallTypeOK'
  BY <1>1, CallAssumption DEF IInv, Shape, TypeOK, CallTypeOK, NoCall, LateAt
<1>3. /\ Len(history) \in Nat /\ Len(history') \in Nat /\ Limit \in Nat /\ Limit = MaxToolRounds + 2
      /\ rounds \in Nat /\ requests \in Nat
      /\ requests + rounds <= Limit + 1 /\ Len(history) + rounds <= Limit
  BY LoopAssumption DEF IInv, Shape, TypeOK, Tally, Limit
<1>4. Tally' /\ rounds' \in 0..(MaxToolRounds + 2) /\ requests' \in 0..(MaxToolRounds + 2)
      /\ Len(history') <= MaxToolRounds + 2
  BY <1>1, <1>3 DEF Tally
<1>5. TypeOK'
  BY <1>1, <1>2, <1>4 DEF IInv, Shape, TypeOK, IsRequest, Repairs, Exchanges, ToolNames
<1>6. Shape'
  BY <1>1, <1>4, <1>5 DEF Shape, NoCall
<1>7. LateBound'
  BY <1>1 DEF LateBound, LateAt
<1>8. WorksOnOneSession'
  BY <1>1 DEF WorksOnOneSession, IsRequest, AtLimit
<1>9. Ending'
  BY <1>1 DEF IInv, Ending, MayEnd
<1> QED
  BY <1>6, <1>7, <1>8, <1>9 DEF IInv

\* What a place says of the calls after the signal when nothing is called.
LEMMA LateKept ==
  ASSUME IInv, UNCHANGED <<late, signal>>
  PROVE  LateAt("top", "idle", signal, late') /\ LateAt("done", "idle", signal, late')
BY DEF IInv, LateBound, LateAt

\* And when one more is made, by a place that had made one at most.
LEMMA LateCounted ==
  ASSUME IInv, Late, late <= 1
  PROVE  LateAt("top", "idle", signal, late') /\ LateAt("done", "idle", signal, late')
BY DEF IInv, LateBound, LateAt, Late

\* A repair or a retry in the session the turn works on.
LEMMA AskingKeeps ==
  ASSUME IInv, at = "asking", NEW next, NEW repairs \in SUBSET Repairs,
         Asking(next, repairs), Same, OnTime, IsRequest(next, active)
  PROVE  IInv'
<1>1. /\ Continues /\ request' = next /\ spent' = spent \union repairs
      /\ UNCHANGED <<asks, requests, provider, outcome, signal>>
      /\ UNCHANGED <<history, active, bound, context, saved, late>>
  BY DEF Asking, Same, OnTime
<1>2. rounds >= 1 /\ Len(history) \in Nat
  BY DEF IInv, Shape, TypeOK, Tally
<1>3. LateAt("top", "idle", signal, late')
  BY <1>1, LateKept
<1>4. /\ history' \in Seq(Exchanges)
      /\ Len(history') \in Len(history)..(Len(history) + 1)
  BY <1>1, <1>2 DEF IInv, Shape, TypeOK, Exchanges
<1>5. /\ active' \in Sessions /\ bound' \in Sessions
      /\ saved' \in [Sessions -> Sessions \union {"none"}]
      /\ spent' \subseteq Repairs
      /\ provider'.attempted \subseteq Profiles /\ provider'.candidates \in Seq(Profiles)
  BY <1>1 DEF IInv, Shape, TypeOK, Repairs
<1>6. /\ active' # bound' => Len(history') >= MaxToolRounds
      /\ context' \in {"none", active'}
      /\ \A s \in Sessions : saved'[s] \in {"none", s}
  BY <1>1 DEF IInv, WorksOnOneSession, Over, AtLimit
<1>7. Registered'
  BY <1>1 DEF IInv, Registered
<1>8. IsRequest(request', active')
  BY <1>1 DEF IsRequest
<1> QED
  BY <1>1, <1>2, <1>3, <1>4, <1>5, <1>6, <1>7, <1>8, ContinuesKeep

\* Another provider is asked the same.
LEMMA FailsOverKeeps ==
  ASSUME IInv, at \in {"top", "asking"}, rounds >= 1, FailsOver, Usable # {}, OnTime
  PROVE  IInv'
<1> DEFINE first == Foremost(Usable)
           next == provider.candidates[first]
           tried == {provider.candidates[i] : i \in {j \in Untried : j <= first}}
<1>1. /\ Continues
      /\ UNCHANGED <<asks, requests, history, spent, request, active, bound, context, saved,
                     outcome, signal, late>>
      /\ provider'.attempted = provider.attempted \union tried
      /\ provider'.candidates = Register(provider.candidates, next)
  BY DEF FailsOver, OnTime
<1>2. /\ DOMAIN provider.candidates \subseteq Nat
      /\ \A i \in DOMAIN provider.candidates : provider.candidates[i] \in Profiles
      /\ provider.candidates \in Seq(Profiles)
  BY DEF IInv, Shape, TypeOK
<1>3. first \in Usable /\ \A j \in Usable : first <= j
  BY <1>2, ForemostIn DEF Usable, Untried
<1>4. tried \subseteq Profiles
  BY <1>2 DEF Untried
<1>5. \A p \in tried : p \in Broken \/ p = next
  <2> SUFFICES ASSUME NEW i \in Untried, i <= first, provider.candidates[i] \notin Broken
               PROVE  provider.candidates[i] = next
    OBVIOUS
  <2>1. i \in Usable
    BY DEF Usable
  <2>2. i \in Nat /\ first \in Nat /\ first <= i
    BY <1>2, <1>3, <2>1 DEF Untried, Usable
  <2> QED
    BY <2>2
<1>6. next \in Profiles
  BY <1>2, <1>3 DEF Usable, Untried
<1>7. Fallback[next] \in Seq(Profiles)
  BY <1>6, LoopAssumption
<1> HIDE DEF tried, next, first
<1>8. /\ provider'.candidates \in Seq(Profiles)
      /\ Members(provider.candidates) \subseteq Members(provider'.candidates)
      /\ Members(Fallback[next]) \subseteq Members(provider'.candidates)
  <2>1. provider'.candidates = provider.candidates \o Fallback[next]
    BY <1>1 DEF Register
  <2>2. /\ provider.candidates \o Fallback[next] \in Seq(Profiles)
        /\ Members(provider.candidates) \subseteq Members(provider.candidates \o Fallback[next])
        /\ Members(Fallback[next]) \subseteq Members(provider.candidates \o Fallback[next])
    BY <1>2, <1>7, MembersOfBoth, Zenon
  <2>3. Members(provider'.candidates) = Members(provider.candidates \o Fallback[next])
    BY <2>1
  <2> QED
    BY <2>1, <2>2, <2>3
<1>9. Registered'
  BY <1>1, <1>5, <1>8 DEF IInv, Registered
<1>10. provider'.attempted \subseteq Profiles
  BY <1>1, <1>4 DEF IInv, Shape, TypeOK
<1>11. LateAt("top", "idle", signal, late')
  BY <1>1, LateKept
<1>12. Len(history) \in Nat
  BY DEF IInv, Shape, TypeOK
<1>13. /\ history' \in Seq(Exchanges)
       /\ Len(history') \in Len(history)..(Len(history) + 1)
       /\ active' \in Sessions /\ bound' \in Sessions
       /\ saved' \in [Sessions -> Sessions \union {"none"}]
       /\ spent' \subseteq Repairs
       /\ request'.kind \in Kinds
       /\ request'.asked \in ToolNames \union {"chart", "dayun", "search"}
  BY <1>1, <1>12 DEF IInv, Shape, TypeOK, Exchanges, Repairs
<1>14. /\ active' # bound' => Len(history') >= MaxToolRounds
       /\ context' \in {"none", active'}
       /\ \A s \in Sessions : saved'[s] \in {"none", s}
       /\ request'.session = active'
  BY <1>1 DEF IInv, WorksOnOneSession, Over, AtLimit
<1>15. IsRequest(request', active')
  BY <1>13, <1>14 DEF IsRequest
<1> QED
  BY <1>1, <1>8, <1>9, <1>10, <1>11, <1>13, <1>14, <1>15, ContinuesKeep

\* No candidate is left: the turn says what it has, or fails.
LEMMA GivesUpKeeps ==
  ASSUME IInv, at # "done", NEW code \in Codes \union {"none"}, ~CanFailOver(code), GivesUp(code),
         LateAt("done", "idle", signal, late')
  PROVE  IInv'
<1>1. CASE \E shows : Succeeds("kept", shows, NoDraft)
  <2> PICK shows : Succeeds("kept", shows, NoDraft)
    BY <1>1
  <2>1. MayEnd("success", "kept", NoDraft)
    BY DEF MayEnd
  <2> QED
    BY <2>1, EndsKeep DEF Succeeds
<1>2. CASE \E shows : Succeeds("latest", shows, NoDraft)
  <2> PICK shows : Succeeds("latest", shows, NoDraft)
    BY <1>2
  <2>1. MayEnd("success", "latest", NoDraft)
    BY DEF MayEnd
  <2> QED
    BY <2>1, EndsKeep DEF Succeeds
<1>3. CASE FailsWith(code)
  <2>1. code \in Failover => Reachable \ Broken \subseteq provider.attempted
    BY Exhausted DEF CanFailOver, IInv
  <2>2. code \notin Told
    BY DEF Told, Codes, Retryable
  <2>3. MayEnd("error", code, NoDraft)
    BY <2>1, <2>2 DEF MayEnd
  <2> QED
    BY <1>3, <2>3, EndsKeep DEF FailsWith
<1> QED
  BY <1>1, <1>2, <1>3 DEF GivesUp

LEMMA UnansweredKeeps ==
  ASSUME IInv, at \in {"top", "asking"}, rounds >= 1, NEW code \in Codes \union {"none"},
         Unanswered(code), OnTime
  PROVE  IInv'
<1>1. CASE CanFailOver(code) /\ FailsOver
  BY <1>1, FailsOverKeeps DEF CanFailOver
<1>2. CASE ~CanFailOver(code) /\ GivesUp(code)
  <2>1. signal' = signal
    BY <1>2 DEF GivesUp, Succeeds, FailsWith, Ends
  <2>2. LateAt("done", "idle", signal, late')
    BY <2>1, LateKept DEF OnTime
  <2> QED
    BY <1>2, <2>2, GivesUpKeeps
<1> QED
  BY <1>1, <1>2 DEF Unanswered

\* The turn fails with a code that neither failover nor a result can help, or
\* raises, or succeeds with the runtime's own words.
LEMMA PlainEnd ==
  ASSUME IInv, at # "done", OnTime,
         \/ \E code : code \notin Failover \union Told /\ FailsWith(code)
         \/ Raises
         \/ \E how, shows : Succeeds(how, shows, NoDraft)
  PROVE  IInv'
<1>1. signal' = signal /\ late' = late
  BY DEF FailsWith, Raises, Succeeds, Ends, OnTime
<1>2. LateAt("done", "idle", signal, late')
  BY <1>1, LateKept
<1>3. CASE \E code : code \notin Failover \union Told /\ FailsWith(code)
  <2> PICK code : code \notin Failover \union Told /\ FailsWith(code)
    BY <1>3
  <2>1. MayEnd("error", code, NoDraft)
    BY DEF MayEnd
  <2> QED
    BY <1>2, <2>1, EndsKeep DEF FailsWith
<1>4. CASE Raises
  <2>1. MayEnd("raised", "none", NoDraft)
    BY DEF MayEnd
  <2> QED
    BY <1>2, <1>4, <2>1, EndsKeep DEF Raises
<1>5. CASE \E how, shows : Succeeds(how, shows, NoDraft)
  <2> PICK how, shows : Succeeds(how, shows, NoDraft)
    BY <1>5
  <2>1. MayEnd("success", how, NoDraft)
    BY DEF MayEnd
  <2> QED
    BY <1>2, <2>1, EndsKeep DEF Succeeds
<1> QED
  BY <1>3, <1>4, <1>5

-----------------------------------------------------------------------------
(***************************************************************************)
(* The steps, from the start of the turn to the answer of a model.         *)
(***************************************************************************)
LEMMA InitInv == Init => IInv
<1> SUFFICES ASSUME Init PROVE IInv
  OBVIOUS
<1>1. Initial \in Profiles /\ Fallback[Initial] \in Seq(Profiles)
  BY LoopAssumption
<1>2. provider.candidates = <<>> \o Fallback[Initial] /\ provider.attempted = {Initial}
  BY DEF Init, Register
<1>3. provider.candidates = Fallback[Initial]
  BY <1>1, <1>2
<1>4. Registered
  BY <1>2, <1>3 DEF Registered
<1>5. First \in Sessions /\ MaxToolRounds + 2 \in Nat
  BY LoopAssumption
<1>6. saved \in [Sessions -> Sessions \union {"none"}] /\ \A s \in Sessions : saved[s] \in {"none", s}
  BY DEF Init
<1>7. CallTypeOK
  BY CallAssumption DEF Init, CallInit, CallTypeOK, NoCall
<1>8. TypeOK
  <2>1. /\ request.kind \in Kinds /\ request.asked = "none" /\ request.session = First
    BY DEF Init, FirstRequest, Kinds
  <2>2. history = <<>> /\ Len(history) = 0 /\ history \in Seq([tool : Tools, ok : BOOLEAN])
    BY DEF Init
  <2>3. outcome.status = "unopened" /\ pending = "none" /\ spent = {}
        /\ rounds = MaxToolRounds + 2 /\ requests = 0 /\ asks \in Asks /\ at = "start"
        /\ active = First /\ bound = First /\ context = saved[First]
    BY DEF Init, Unopened
  <2> QED
    BY <1>1, <1>2, <1>3, <1>5, <1>6, <1>7, <2>1, <2>2, <2>3, LoopAssumption DEF TypeOK, ToolNames
<1>9. Shape
  <2>1. Tally
    BY <1>5 DEF Init, Tally, Limit
  <2> QED
    BY <1>8, <2>1 DEF Init, Shape, CallInit, NoCall
<1>10. LateBound
  BY DEF Init, CallInit, LateBound, LateAt, NoCall
<1>11. WorksOnOneSession
  BY <1>5, <1>6 DEF Init, WorksOnOneSession, FirstRequest
<1>12. Ending
  BY DEF Init, Ending, MayEnd, Unopened
<1> QED
  BY <1>4, <1>9, <1>10, <1>11, <1>12 DEF IInv

LEMMA StartKeeps == IInv /\ Start => IInv'
<1> SUFFICES ASSUME IInv, Start PROVE IInv'
  OBVIOUS
<1>1. /\ at = "start" /\ at' \in {"open", "done"}
      /\ UNCHANGED <<asks, rounds, requests, history, spent, request, pending, active,
                     bound, provider, outcome, call, signal>>
      /\ \/ UNCHANGED <<context, saved>>
         \/ context' = active /\ saved' = [saved EXCEPT ![active] = active]
      /\ late' = late \/ Late
  BY DEF Start, Compacts
<1>2. late' \in 0..1 /\ (signal = "none" => late' = 0)
  BY <1>1 DEF IInv, LateBound, LateAt, Late
<1>3. saved' \in [Sessions -> Sessions \union {"none"}] /\ (\A s \in Sessions : saved'[s] \in {"none", s})
      /\ context' \in {"none", active}
  BY <1>1 DEF IInv, Shape, TypeOK, WorksOnOneSession
<1>4. TypeOK'
  BY <1>1, <1>2, <1>3 DEF IInv, Shape, TypeOK, CallTypeOK
<1>5. Shape'
  BY <1>1, <1>4 DEF IInv, Shape, Tally
<1>6. LateBound'
  BY <1>1, <1>2 DEF LateBound, LateAt
<1>7. WorksOnOneSession'
  BY <1>1, <1>3 DEF IInv, WorksOnOneSession, Over, AtLimit
<1>8. Registered' /\ Ending'
  BY <1>1 DEF IInv, Registered, Ending, MayEnd
<1> QED
  BY <1>5, <1>6, <1>7, <1>8 DEF IInv

LEMMA OpenKeeps == IInv /\ Open => IInv'
<1> SUFFICES ASSUME IInv, Open PROVE IInv'
  OBVIOUS
<1>1. /\ at = "open" /\ at' = "top" /\ outcome' = Running
      /\ UNCHANGED <<asks, rounds, requests, history, spent, request, pending, active,
                     bound, context, saved, provider, call, signal, late>>
  BY DEF Open, OnTime
<1>2. outcome'.status = "running" /\ outcome'.draft = NoDraft
  BY <1>1 DEF Running, Unopened
<1>3. Shape'
  BY <1>1, <1>2 DEF IInv, Shape, TypeOK, CallTypeOK, Tally
<1>4. LateBound'
  BY <1>1 DEF IInv, LateBound, LateAt
<1>5. WorksOnOneSession'
  BY <1>1 DEF IInv, WorksOnOneSession, Over, AtLimit
<1>6. Registered'
  BY <1>1 DEF IInv, Registered
<1>7. Ending'
  BY <1>1, <1>2 DEF Ending, MayEnd
<1> QED
  BY <1>3, <1>4, <1>5, <1>6, <1>7 DEF IInv

\* A step inside a request, or one that begins it or leaves it for a tool.
LEMMA AtWorkKeeps ==
  ASSUME IInv, at \in {"top", "asking"}, rounds >= 1, at' \in {"asking", "tool"},
         UNCHANGED <<asks, rounds, history, spent, request, active, bound, context, saved,
                     provider, outcome>>,
         requests' \in Nat, requests' + rounds <= Limit + 1,
         pending' \in ToolNames, at' = "tool" => pending' \in Tools,
         at' = "asking" => call'.at # "idle",
         CallTypeOK', call'.at = "sleeping" => call'.attempt < MaxAttempts,
         LateAt(at', call'.at, signal', late')
  PROVE  IInv'
<1>1. rounds \in Nat /\ MaxToolRounds \in Nat
  BY LoopAssumption DEF IInv, Shape, Tally
<1>2. requests' \in 0..(MaxToolRounds + 2)
  <2>1. ASSUME NEW n \in Nat, n + rounds <= Limit + 1
        PROVE  n \in 0..(MaxToolRounds + 2)
    BY <1>1, <2>1 DEF Limit
  <2> QED
    BY <2>1
<1>3. TypeOK'
  BY <1>2 DEF IInv, Shape, TypeOK
<1>4. Tally'
  BY <1>1 DEF IInv, Shape, Tally
<1>5. Shape'
  BY <1>3, <1>4 DEF Shape
<1>6. LateBound'
  BY DEF LateBound
<1>7. WorksOnOneSession'
  BY DEF IInv, WorksOnOneSession, Over, AtLimit
<1>8. Registered' /\ Ending'
  BY DEF IInv, Registered, Ending, MayEnd
<1> QED
  BY <1>5, <1>6, <1>7, <1>8 DEF IInv

LEMMA StopsKeep ==
  ASSUME IInv, at \in {"top", "asking"}, rounds >= 1, Stops, OnTime
  PROVE  IInv'
<1>1. CASE Raises
  BY <1>1, PlainEnd
<1>2. CASE FailsWith("stopped")
  BY <1>2, PlainEnd DEF Failover, Told
<1>3. CASE Unanswered("timeout")
  BY <1>3, UnansweredKeeps DEF Codes, Retryable
<1> QED
  BY <1>1, <1>2, <1>3 DEF Stops

LEMMA TopKeeps == IInv /\ Top => IInv'
<1> SUFFICES ASSUME IInv, Top PROVE IInv'
  OBVIOUS
<1>1. at = "top" /\ OnTime /\ rounds \in Nat
  BY DEF Top, IInv, Shape, Tally
<1>2. CASE UsedUp
  BY <1>1, <1>2, PlainEnd DEF UsedUp, Failover, Told
<1>3. CASE rounds > 0 /\ Stops
  BY <1>1, <1>3, StopsKeep
<1>4. CASE rounds > 0 /\ ~Interrupted /\ Ask
  <2>1. /\ at' = "asking" /\ requests' = requests + 1
        /\ UNCHANGED <<asks, rounds, history, spent, request, pending, active, bound,
                       context, saved, provider, outcome>>
    BY <1>4 DEF Ask
  <2>2. /\ call' \in {[at |-> "checking", attempt |-> 1, code |-> "none"],
                      [at |-> "failed", attempt |-> 0, code |-> "protocol"]}
        /\ signal' = signal /\ late' = late
    BY <1>1, <1>4 DEF Ask, Begin, BeginNowhere, OnTime
  <2>3. signal = "none" /\ late = 0
    BY <1>4 DEF Interrupted, IInv, LateBound, LateAt
  <2>4. CallTypeOK'
    BY <2>2, <2>3, CallAssumption DEF CallTypeOK, Codes, Retryable
  <2>5. requests \in Nat /\ requests + rounds <= Limit /\ Limit \in Nat
    BY <1>1, LoopAssumption DEF IInv, Shape, Tally, Limit
  <2>6. LateAt(at', call'.at, signal', late')
    BY <2>1, <2>2, <2>3 DEF LateAt
  <2>7. pending \in ToolNames
    BY DEF IInv, Shape, TypeOK
  <2>8. call'.at \notin {"idle", "sleeping"}
    BY <2>2
  <2> QED
    BY <1>1, <1>4, <2>1, <2>4, <2>5, <2>6, <2>7, <2>8, AtWorkKeeps
<1> QED
  BY <1>1, <1>2, <1>3, <1>4 DEF Top

\* The record of a call stays one, and what it may count as late.
LEMMA CallStepKeeps ==
  ASSUME IInv, at = "asking", CallStep
  PROVE  /\ CallTypeOK'
         /\ call'.at # "idle"
         /\ call'.at = "sleeping" => call'.attempt < MaxAttempts
         /\ LateAt("asking", call'.at, signal', late')
<1>0. /\ CallTypeOK /\ MaxAttempts \in Nat \ {0} /\ Faults \subseteq Codes
      /\ call.at = "sleeping" => call.attempt < MaxAttempts
      /\ LateAt("asking", call.at, signal, late)
  BY CallAssumption DEF IInv, Shape, TypeOK, LateBound
<1>1. CASE Check
  <2>1. CASE Interrupted
    <3>1. /\ call.at = "checking" /\ signal' = signal /\ late' = late
          /\ call' = [call EXCEPT !.at = "failed", !.code = "timeout"]
      BY <1>1, <2>1 DEF Check, Fails
    <3>2. call'.at = "failed" /\ CallTypeOK'
      BY <1>0, <3>1 DEF CallTypeOK, Codes, Retryable
    <3> QED
      BY <1>0, <3>1, <3>2 DEF LateAt
  <2>2. CASE ~Interrupted
    BY <1>0, <1>1, <2>2 DEF Check, Goes, Interrupted, CallTypeOK, LateAt
  <2> QED
    BY <2>1, <2>2
<1>2. CASE Send
  BY <1>0, <1>2 DEF Send, Goes, Late, CallTypeOK, LateAt
<1>3. CASE Answered
  <2>1. CASE Interrupted
    BY <1>0, <1>3, <2>1 DEF Answered, Fails, CallTypeOK, Codes, Retryable, LateAt
  <2>2. CASE ~Interrupted
    BY <1>0, <1>3, <2>2 DEF Answered, Goes, Interrupted, CallTypeOK, LateAt
  <2> QED
    BY <2>1, <2>2
<1>4. CASE Refused
  <2>1. /\ call.at = "waiting" /\ signal' = signal /\ late' = late
        /\ \/ call.attempt < MaxAttempts /\ Goes("sleeping")
           \/ \E code \in Codes : Fails(code)
    BY <1>0, <1>4 DEF Refused
  <2>2. call' \in [at : {"sleeping", "failed"}, attempt : {call.attempt}, code : Codes \union {"none"}]
        /\ (call'.at = "sleeping" => call'.attempt < MaxAttempts)
    BY <1>0, <2>1 DEF Fails, Goes, CallTypeOK
  <2> QED
    BY <1>0, <2>1, <2>2 DEF CallTypeOK, LateAt
<1>5. CASE Sleep
  <2>1. CASE Interrupted
    BY <1>0, <1>5, <2>1 DEF Sleep, Fails, CallTypeOK, Codes, Retryable, LateAt
  <2>2. CASE ~Interrupted
    <3>1. /\ call.at = "sleeping" /\ signal' = signal /\ late' = late /\ signal = "none"
          /\ call' = [call EXCEPT !.at = "checking", !.attempt = @ + 1]
      BY <1>5, <2>2 DEF Sleep, Interrupted
    <3>2. call.attempt + 1 \in 0..MaxAttempts
      BY <1>0, <3>1 DEF CallTypeOK
    <3>3. call'.at = "checking" /\ CallTypeOK'
      BY <1>0, <3>1, <3>2 DEF CallTypeOK
    <3> QED
      BY <1>0, <3>1, <3>3 DEF LateAt
  <2> QED
    BY <2>1, <2>2
<1>6. CASE Parse
  <2>1. /\ call.at = "parsing" /\ signal' = signal /\ late' = late
        /\ \/ Goes("replied")
           \/ \E code \in Codes : Fails(code)
    BY <1>0, <1>6 DEF Parse
  <2>2. call' \in [at : {"replied", "failed"}, attempt : {call.attempt}, code : Codes \union {"none"}]
    BY <1>0, <2>1 DEF Fails, Goes, CallTypeOK
  <2> QED
    BY <1>0, <2>1, <2>2 DEF CallTypeOK, LateAt
<1> QED
  BY <1>1, <1>2, <1>3, <1>4, <1>5, <1>6 DEF CallStep

LEMMA CallsKeep == IInv /\ Calls => IInv'
<1> SUFFICES ASSUME IInv, Calls PROVE IInv'
  OBVIOUS
<1>1. at = "asking" /\ CallStep
      /\ UNCHANGED <<at, asks, rounds, requests, history, spent, request, pending, active, bound,
                     context, saved, provider, outcome>>
  BY DEF Calls, loopVars
<1>2. rounds >= 1 /\ requests \in Nat /\ requests + rounds <= Limit + 1 /\ pending \in ToolNames
  BY <1>1 DEF IInv, Shape, Tally, TypeOK
<1> QED
  BY <1>1, <1>2, CallStepKeeps, AtWorkKeeps

\* A signal may come anywhere.
LEMMA ArrivesKeeps == IInv /\ Arrives => IInv'
<1> SUFFICES ASSUME IInv, Arrives PROVE IInv'
  OBVIOUS
<1>1. /\ signal = "none" /\ signal' \in {"stop", "expired"} /\ call' = call /\ late' = late
      /\ UNCHANGED <<at, asks, rounds, requests, history, spent, request, pending, active, bound,
                     context, saved, provider, outcome>>
  BY DEF Arrives, Signal, loopVars
<1>2. Shape'
  BY <1>1 DEF IInv, Shape, TypeOK, CallTypeOK, Tally
<1>3. LateBound'
  BY <1>1 DEF IInv, LateBound, LateAt
<1>4. WorksOnOneSession' /\ Registered' /\ Ending'
  BY <1>1 DEF IInv, WorksOnOneSession, Over, AtLimit, Registered, Ending, MayEnd
<1> QED
  BY <1>2, <1>3, <1>4 DEF IInv

\* The context is compacted and the request made again, the turn goes on with
\* another provider, or it ends.
LEMMA OnFailureKeeps == IInv /\ OnFailure => IInv'
<1> SUFFICES ASSUME IInv, OnFailure PROVE IInv'
  OBVIOUS
<1>1. at = "asking" /\ call.at = "failed" /\ rounds >= 1 /\ late <= 1
      /\ call.code \in Codes \union {"none"} /\ Len(history) \in Nat
  BY DEF OnFailure, IInv, Shape, Tally, TypeOK, CallTypeOK, LateBound, LateAt
<1>2. CASE OnTime /\ Unanswered(call.code)
  BY <1>1, <1>2, UnansweredKeeps
<1>3. CASE call.code = "overflow" /\ Late /\ GivesUp(call.code)
  <2>1. ~CanFailOver(call.code)
    BY <1>3 DEF CanFailOver, Failover
  <2>2. LateAt("done", "idle", signal, late')
    BY <1>1, <1>3, LateCounted
  <2> QED
    BY <1>1, <1>3, <2>1, <2>2, GivesUpKeeps
<1>4. CASE Late /\ Raises
  <2>1. LateAt("done", "idle", signal, late')
    BY <1>1, <1>4, LateCounted
  <2>2. MayEnd("raised", "none", NoDraft)
    BY DEF MayEnd
  <2> QED
    BY <1>1, <1>4, <2>1, <2>2, EndsKeep DEF Raises
<1>5. CASE Late /\ ReactiveCompaction
  <2>1. /\ request' = FirstRequest(active) /\ Continues
        /\ context' = active /\ saved' = [saved EXCEPT ![active] = active]
        /\ UNCHANGED <<asks, requests, history, spent, active, bound, provider, outcome, signal>>
    BY <1>5 DEF ReactiveCompaction, Compacts
  <2>2. LateAt("top", "idle", signal, late')
    BY <1>1, <1>5, LateCounted
  <2>3. IsRequest(request', active')
    BY <2>1 DEF IsRequest, FirstRequest, Kinds, ToolNames
  <2>4. /\ saved' \in [Sessions -> Sessions \union {"none"}]
        /\ \A s \in Sessions : saved'[s] \in {"none", s}
    BY <2>1 DEF IInv, Shape, TypeOK, WorksOnOneSession
  <2>5. /\ active' \in Sessions /\ bound' \in Sessions /\ spent' \subseteq Repairs
        /\ history' \in Seq(Exchanges) /\ Len(history') \in Len(history)..(Len(history) + 1)
        /\ provider'.attempted \subseteq Profiles /\ provider'.candidates \in Seq(Profiles)
    BY <1>1, <2>1 DEF IInv, Shape, TypeOK, Repairs, Exchanges
  <2>6. active' # bound' => Len(history') >= MaxToolRounds
    BY <1>1, <2>1 DEF IInv, WorksOnOneSession, Over, AtLimit
  <2>7. Registered' /\ context' \in {"none", active'}
    BY <2>1 DEF IInv, Registered
  <2> QED
    BY <1>1, <2>1, <2>2, <2>3, <2>4, <2>5, <2>6, <2>7, ContinuesKeep
<1> QED
  BY <1>2, <1>3, <1>4, <1>5 DEF OnFailure

-----------------------------------------------------------------------------
(***************************************************************************)
(* The steps after a reply.                                                *)
(***************************************************************************)
\* The requests that the turn makes are made in the session it works on.
LEMMA Requests ==
  ASSUME NEW ledger, NEW text, NEW session
  PROVE  /\ \A kind \in Kinds, tool \in ToolNames \union {"chart", "dayun", "search"} :
               /\ IsRequest(Repair(kind, tool), active)
               /\ IsRequest([Repair(kind, tool) EXCEPT !.session = session], session)
         /\ IsRequest(Retry(ledger, text), active)
         /\ IsRequest([Retry(ledger, text) EXCEPT !.session = session], session)
         /\ \A tool \in ToolNames :
               IsRequest([FollowUp(tool, ledger) EXCEPT !.session = session], session)
<1>1. ASSUME NEW kind \in Kinds, NEW tool \in ToolNames \union {"chart", "dayun", "search"}
      PROVE  /\ IsRequest(Repair(kind, tool), active)
             /\ IsRequest([Repair(kind, tool) EXCEPT !.session = session], session)
  BY DEF Repair, FirstRequest, IsRequest
<1>2. /\ IsRequest(Retry(ledger, text), active)
      /\ IsRequest([Retry(ledger, text) EXCEPT !.session = session], session)
  BY DEF Retry, FirstRequest, IsRequest, Kinds, ToolNames
<1>3. ASSUME NEW tool \in ToolNames
      PROVE  IsRequest([FollowUp(tool, ledger) EXCEPT !.session = session], session)
  BY DEF FollowUp, FirstRequest, IsRequest, Kinds
<1> QED
  BY <1>1, <1>2, <1>3

\* The turn fails for want of a text, but has no result to tell.
LEMMA UntoldEnd ==
  ASSUME IInv, at # "done", NEW code \in Told, FailsWith(code), SafeFragments(history) = {},
         LateAt("done", "idle", signal, late')
  PROVE  IInv'
<1>1. MayEnd("error", code, NoDraft)
  BY DEF MayEnd, Told, Failover
<1> QED
  BY <1>1, EndsKeep DEF FailsWith

\* A reply that is of no use to the request is a failed call.
LEMMA WrongKeeps ==
  ASSUME IInv, Replied, Wrong
  PROVE  IInv'
<1>1. /\ at = "asking" /\ call.at = "replied"
      /\ call' = [call EXCEPT !.at = "failed", !.code = "invalid"]
      /\ UNCHANGED <<signal, late>>
      /\ UNCHANGED <<at, asks, rounds, requests, history, spent, request, pending, active, bound,
                     context, saved, provider, outcome>>
  BY DEF Replied, Wrong, Fails, OnTime, loopVars
<1>2. rounds >= 1 /\ requests \in Nat /\ requests + rounds <= Limit + 1 /\ pending \in ToolNames
  BY <1>1 DEF IInv, Shape, Tally, TypeOK
<1>3. CallTypeOK' /\ call'.at = "failed"
  BY <1>1 DEF IInv, Shape, TypeOK, CallTypeOK, Codes, Retryable
<1>4. LateAt("asking", "failed", signal', late')
  BY <1>1 DEF IInv, LateBound, LateAt
<1> QED
  BY <1>1, <1>2, <1>3, <1>4, AtWorkKeeps

\* The runtime says what it has, or fails because there is nothing to say.
LEMMA RecoversKeep ==
  ASSUME IInv, at # "done", NEW code \in Told, NEW text,
         \/ text # {} /\ Succeeds("recovered", text, NoDraft)
         \/ text = {} /\ FailsWith(code),
         text = {} => Recovered = {},
         LateAt("done", "idle", signal, late')
  PROVE  IInv'
<1>1. CASE Succeeds("recovered", text, NoDraft)
  <2>1. MayEnd("success", "recovered", NoDraft)
    BY DEF MayEnd
  <2> QED
    BY <1>1, <2>1, EndsKeep DEF Succeeds
<1>2. CASE text = {} /\ FailsWith(code)
  <2>1. history \in Seq(Exchanges)
    BY DEF IInv, Shape, TypeOK, Exchanges
  <2>2. SafeFragments(history) = {}
    BY <1>2, <2>1, RecoverNothing DEF Recovered
  <2> QED
    BY <1>2, <2>2, UntoldEnd
<1> QED
  BY <1>1, <1>2

LEMMA ToolReplyKeeps == IInv /\ ToolReply => IInv'
<1> SUFFICES ASSUME IInv, ToolReply PROVE IInv'
  OBVIOUS
<1>1. /\ Replied /\ at = "asking" /\ at \in {"top", "asking"} /\ at # "done" /\ rounds >= 1
      /\ rounds \in Nat /\ requests \in Nat /\ requests + rounds <= Limit + 1
  BY DEF ToolReply, Replied, IInv, Shape, Tally
<1>2. PICK tool \in Offered, same \in BOOLEAN :
        \/ Wrong
        \/ OnTime /\ RecoversOr("empty")
        \/ OnTime /\ Asking(Retry(Ledger, NoText), {"retry"}) /\ Same
        \/ OnTime /\ Succeeds("recovered", Recovered, NoDraft)
        \/ OnTime /\ CallsTool(tool)
        \/ OnTime /\ Stops
        \/ OnTime /\ Asking(Retry(Deprioritised, NoText), {"retry"}) /\ Same
        \/ OnTime /\ UsedUp
  BY Zenon DEF ToolReply
<1>3. tool \in Tools /\ Tools \subseteq ToolNames
  BY DEF Offered, ToolNames
<1>4. {"retry"} \in SUBSET Repairs
  BY DEF Repairs
<1>5. CASE Wrong
  BY <1>1, <1>5, WrongKeeps
<1>6. CASE OnTime /\ RecoversOr("empty")
  <2>1. signal' = signal
    BY <1>6 DEF RecoversOr, Succeeds, FailsWith, Ends
  <2>2. LateAt("done", "idle", signal, late')
    BY <1>6, <2>1, LateKept DEF OnTime
  <2> QED
    BY <1>1, <1>6, <2>2, RecoversKeep DEF RecoversOr, Told
<1>7. CASE OnTime /\ Asking(Retry(Ledger, NoText), {"retry"}) /\ Same
  BY <1>1, <1>4, <1>7, Requests, AskingKeeps
<1>8. CASE OnTime /\ Succeeds("recovered", Recovered, NoDraft)
  BY <1>1, <1>8, PlainEnd
<1>9. CASE OnTime /\ CallsTool(tool)
  <2>1. /\ ~Interrupted /\ at' = "tool" /\ pending' = tool
        /\ UNCHANGED <<asks, rounds, requests, history, spent, request, active, bound,
                       context, saved, provider, outcome, call, signal, late>>
    BY <1>9 DEF CallsTool, OnTime
  <2>2. LateAt("tool", call.at, signal, late)
    BY <2>1 DEF IInv, LateBound, LateAt, Interrupted
  <2>3. CallTypeOK' /\ (call'.at = "sleeping" => call'.attempt < MaxAttempts)
    BY <2>1 DEF IInv, Shape, TypeOK, CallTypeOK
  <2> QED
    BY <1>1, <1>3, <2>1, <2>2, <2>3, AtWorkKeeps
<1>10. CASE OnTime /\ Stops
  BY <1>1, <1>10, StopsKeep
<1>11. CASE OnTime /\ Asking(Retry(Deprioritised, NoText), {"retry"}) /\ Same
  BY <1>1, <1>4, <1>11, Requests, AskingKeeps
<1>12. CASE OnTime /\ UsedUp
  BY <1>1, <1>12, PlainEnd DEF UsedUp, Failover, Told
<1> QED
  BY <1>2, <1>5, <1>6, <1>7, <1>8, <1>9, <1>10, <1>11, <1>12

-----------------------------------------------------------------------------
(***************************************************************************)
(* The steps of a tool.                                                    *)
(***************************************************************************)
\* The runtime's own text, or the latest result, or the failure.
LEMMA RecoversLatestKeep ==
  ASSUME IInv, at = "tool", NEW code \in Told, RecoversLatestOr(code),
         LateAt("done", "idle", signal, late')
  PROVE  IInv'
<1> DEFINE text == IF Recovered # {} THEN Recovered ELSE RecoverLatest(history)
<1>1. \/ text # {} /\ Succeeds("recovered", text, NoDraft)
      \/ text = {} /\ FailsWith(code)
  BY DEF RecoversLatestOr
<1>2. text = {} => Recovered = {}
  OBVIOUS
<1> HIDE DEF text
<1> QED
  BY <1>1, <1>2, RecoversKeep

LEMMA RejectedKeeps == IInv /\ Rejected => IInv'
<1> SUFFICES ASSUME IInv, Rejected PROVE IInv'
  OBVIOUS
<1>1. at = "tool" /\ OnTime /\ RecoversLatestOr("rejected")
  BY DEF Rejected
<1>2. signal' = signal
  BY <1>1 DEF RecoversLatestOr, Succeeds, FailsWith, Ends
<1>3. LateAt("done", "idle", signal, late')
  BY <1>1, <1>2, LateKept DEF OnTime
<1> QED
  BY <1>1, <1>3, RecoversLatestKeep DEF Told

\* The next request follows a result of a tool.
LEMMA AfterResult ==
  ASSUME IInv, at = "tool", Late, NEW next, NEW repairs \in SUBSET Repairs, NEW result \in Exchanges,
         Asking(next, repairs), history' = Append(history, result),
         active' \in Sessions, IsRequest(next, active'), bound' \in Sessions,
         active' # bound' => Len(history) + 1 >= MaxToolRounds,
         context' \in {"none", active'}, saved' = saved
  PROVE  IInv'
<1>1. /\ Continues /\ request' = next /\ spent' = spent \union repairs
      /\ UNCHANGED <<asks, requests, provider, outcome, signal>>
  BY DEF Asking
<1>2. /\ at \in {"top", "asking", "tool"} /\ rounds >= 1 /\ Len(history) \in Nat /\ late = 0
      /\ history \in Seq(Exchanges)
  BY DEF IInv, Shape, TypeOK, Tally, LateBound, LateAt, Exchanges
<1>3. LateAt("top", "idle", signal, late')
  BY <1>2, LateCounted
<1>4. history' \in Seq(Exchanges) /\ Len(history') = Len(history) + 1
  BY <1>2
<1>5. /\ saved' \in [Sessions -> Sessions \union {"none"}]
      /\ \A s \in Sessions : saved'[s] \in {"none", s}
  BY DEF IInv, Shape, TypeOK, WorksOnOneSession
<1>6. /\ spent' \subseteq Repairs
      /\ provider'.attempted \subseteq Profiles /\ provider'.candidates \in Seq(Profiles)
      /\ Registered'
  BY <1>1 DEF IInv, Shape, TypeOK, Repairs, Registered
<1>7. IsRequest(request', active')
  BY <1>1
<1>8. Len(history') \in Len(history)..(Len(history) + 1)
  BY <1>2, <1>4
<1>9. active' # bound' => Len(history') >= MaxToolRounds
  BY <1>4
<1> QED
  BY <1>1, <1>2, <1>3, <1>4, <1>5, <1>6, <1>7, <1>8, <1>9, ContinuesKeep

LEMMA RaisedKeeps == IInv /\ Raised => IInv'
<1> SUFFICES ASSUME IInv, Raised PROVE IInv'
  OBVIOUS
<1>1. at = "tool" /\ Late /\ late = 0
  BY DEF Raised, IInv, LateBound, LateAt
<1>2. CASE RecoversLatestOr("tool")
  <2>1. LateAt("done", "idle", signal, late')
    BY <1>1, LateCounted
  <2> QED
    BY <1>1, <1>2, <2>1, RecoversLatestKeep DEF Told
<1>3. CASE /\ pending = "memory" /\ ~Spent("contract")
           /\ Asking(Repair("contract", "none"), {"contract"})
           /\ history' = Append(history, [tool |-> "memory", ok |-> FALSE])
           /\ UNCHANGED <<active, bound, context, saved>>
  <2>1. [tool |-> "memory", ok |-> FALSE] \in Exchanges
    BY <1>1, <1>3 DEF IInv, Shape, Exchanges
  <2>2. "contract" \in Kinds /\ "none" \in ToolNames /\ {"contract"} \in SUBSET Repairs
    BY DEF Kinds, ToolNames, Repairs
  <2>3. IsRequest(Repair("contract", "none"), active)
    BY <2>2, Requests
  <2>4. /\ active \in Sessions /\ bound \in Sessions /\ context \in {"none", active}
        /\ Len(history) \in Nat
        /\ active # bound => Len(history) + 1 >= MaxToolRounds
    BY <1>1, LoopAssumption DEF IInv, Shape, TypeOK, WorksOnOneSession, Over, AtLimit
  <2> QED
    BY <1>1, <1>3, <2>1, <2>2, <2>3, <2>4, AfterResult
<1> QED
  BY <1>2, <1>3 DEF Raised

LEMMA FollowingAsks ==
  ASSUME NEW h, NEW session, pending \in Tools, Following(h, session)
  PROVE  \E next : \E repairs \in SUBSET Repairs :
            Asking(next, repairs) /\ IsRequest(next, session)
<1> DEFINE ledger == CurrentLedger(h, request.base)
           In(next) == [next EXCEPT !.session = session]
           Goal(next, repairs) == Asking(next, repairs) /\ IsRequest(next, session)
<1>1. \/ Asking(In(Repair("dayun", "dayun")), {"dayun"})
      \/ Asking(In(Repair("search", "search")), {"search"})
      \/ Asking(In(Retry(ledger, NoText)), {"retry"})
      \/ Asking(In(FollowUp(pending, ledger)), {})
  BY Zenon DEF Following
<1>2. /\ {"dayun"} \in SUBSET Repairs /\ {"search"} \in SUBSET Repairs
      /\ {"retry"} \in SUBSET Repairs /\ {} \in SUBSET Repairs
  BY DEF Repairs
<1>3. {"dayun", "search"} \subseteq Kinds /\ pending \in ToolNames
  BY DEF Kinds, ToolNames
<1>4. /\ IsRequest(In(Repair("dayun", "dayun")), session)
      /\ IsRequest(In(Repair("search", "search")), session)
      /\ IsRequest(In(Retry(ledger, NoText)), session)
      /\ IsRequest(In(FollowUp(pending, ledger)), session)
  BY <1>3, Requests
<1> HIDE DEF In, ledger
<1> QED
  BY <1>1, <1>2, <1>4

\* A result that the runtime renders ends the turn.
LEMMA TerminalKeeps ==
  ASSUME IInv, at = "tool", Late, NEW result \in Exchanges, NEW shows,
         history' = Append(history, result), at' = "done",
         outcome' = [status |-> "success", code |-> "terminal", shows |-> shows, draft |-> NoDraft],
         call' = NoCall, Leaves, bound' \in Sessions,
         UNCHANGED <<asks, active, context, saved, provider, signal>>
  PROVE  IInv'
<1>1. /\ request' = FirstRequest(active)
      /\ spent' = {} /\ pending' = "none" /\ rounds' = 0 /\ requests' = 0
  BY DEF Leaves
<1>2. late = 0 /\ rounds >= 1 /\ rounds \in Nat /\ Len(history) \in Nat
      /\ Len(history) + rounds <= Limit /\ Limit = MaxToolRounds + 2 /\ Limit \in Nat
      /\ history \in Seq(Exchanges)
  BY LoopAssumption DEF IInv, Shape, TypeOK, Tally, LateBound, LateAt, Exchanges, Limit
<1>3. LateAt("done", "idle", signal, late')
  BY <1>2, LateCounted
<1>4. history' \in Seq(Exchanges) /\ Len(history') = Len(history) + 1
      /\ Len(history') <= MaxToolRounds + 2
  BY <1>2
<1>5. CallTypeOK'
  BY <1>3, CallAssumption DEF IInv, Shape, TypeOK, CallTypeOK, NoCall, LateAt
<1>6. TypeOK'
  <2>1. request'.kind \in Kinds /\ request'.asked = "none" /\ request'.session \in Sessions
    BY <1>1 DEF FirstRequest, Kinds, IInv, Shape, TypeOK
  <2>2. outcome'.status = "success" /\ 0 \in 0..(MaxToolRounds + 2)
    BY LoopAssumption
  <2> QED
    BY <1>1, <1>4, <1>5, <2>1, <2>2 DEF IInv, Shape, TypeOK, ToolNames, Exchanges
<1>7. Tally'
  BY <1>1, <1>2, <1>4 DEF Tally
<1>8. Shape'
  BY <1>6, <1>7 DEF Shape, NoCall
<1>9. LateBound'
  BY <1>3 DEF LateBound, LateAt
<1>10. WorksOnOneSession'
  BY <1>1 DEF IInv, WorksOnOneSession, FirstRequest, Over
<1>11. Registered'
  BY DEF IInv, Registered
<1>12. Ending'
  BY DEF Ending, MayEnd
<1> QED
  BY <1>8, <1>9, <1>10, <1>11, <1>12 DEF IInv

LEMMA ReturnsKeeps == IInv /\ Returns => IInv'
<1> SUFFICES ASSUME IInv, Returns PROVE IInv'
  OBVIOUS
<1>1. PICK ok \in BOOLEAN :
        LET h == Append(history, [tool |-> pending, ok |-> ok])
            last == Len(h) >= MaxToolRounds /\ ~Spent("retry") /\ Summarised
        IN /\ at = "tool" /\ Late /\ history' = h
           /\ \/ /\ at' = "done"
                 /\ outcome' = [status |-> "success", code |-> "terminal",
                                shows |-> {Len(h)}, draft |-> NoDraft]
                 /\ call' = NoCall /\ Leaves
                 /\ bound' \in (IF pending = "session" THEN Sessions ELSE {bound})
                 /\ UNCHANGED <<asks, active, context, saved, provider, signal>>
              \/ /\ last
                 /\ Asking(Retry(Deprioritised, NoText), {"retry"})
                 /\ UNCHANGED <<active, context, saved>>
                 /\ bound' = bound \/ bound' \in Sessions
              \/ Following(h, active) /\ Stays
              \/ \E session \in Sessions : Following(h, session) /\ MovesTo(session)
  BY DEF Returns
<1> DEFINE result == [tool |-> pending, ok |-> ok]
           h == Append(history, result)
<1>2. /\ at = "tool" /\ Late /\ history' = h /\ pending \in Tools /\ result \in Exchanges
      /\ history \in Seq(Exchanges) /\ Len(history) \in Nat
      /\ active \in Sessions /\ bound \in Sessions
      /\ context \in {"none", active} /\ (\A s \in Sessions : saved[s] \in {"none", s})
      /\ (active # bound => Len(history) + 1 >= MaxToolRounds)
  BY <1>1, LoopAssumption DEF IInv, Shape, TypeOK, WorksOnOneSession, Over, AtLimit, Exchanges
<1>3. Len(h) = Len(history) + 1
  BY <1>2
<1> HIDE DEF result
<1>4. CASE /\ at' = "done"
           /\ outcome' = [status |-> "success", code |-> "terminal",
                          shows |-> {Len(h)}, draft |-> NoDraft]
           /\ call' = NoCall /\ Leaves
           /\ bound' \in (IF pending = "session" THEN Sessions ELSE {bound})
           /\ UNCHANGED <<asks, active, context, saved, provider, signal>>
  <2>1. bound' \in Sessions
    BY <1>2, <1>4
  <2> QED
    BY <1>2, <1>4, <2>1, TerminalKeeps
<1>5. CASE /\ Len(h) >= MaxToolRounds
           /\ Asking(Retry(Deprioritised, NoText), {"retry"})
           /\ UNCHANGED <<active, context, saved>>
           /\ bound' = bound \/ bound' \in Sessions
  <2>1. IsRequest(Retry(Deprioritised, NoText), active') /\ {"retry"} \in SUBSET Repairs
    BY <1>5, Requests DEF Repairs
  <2>2. bound' \in Sessions /\ active' \in Sessions /\ context' \in {"none", active'}
    BY <1>2, <1>5
  <2> QED
    BY <1>2, <1>3, <1>5, <2>1, <2>2, AfterResult
<1>6. CASE Following(h, active) /\ Stays
  <2>1. PICK next : \E repairs \in SUBSET Repairs :
               Asking(next, repairs) /\ IsRequest(next, active)
    BY <1>2, <1>6, FollowingAsks
  <2>2. /\ active' = active /\ bound' = bound /\ context' = context /\ saved' = saved
    BY <1>6 DEF Stays
  <2> QED
    BY <1>2, <2>1, <2>2, AfterResult
<1>7. CASE \E session \in Sessions : Following(h, session) /\ MovesTo(session)
  <2> PICK session \in Sessions : Following(h, session) /\ MovesTo(session)
    BY <1>7
  <2>1. PICK next : \E repairs \in SUBSET Repairs :
               Asking(next, repairs) /\ IsRequest(next, session)
    BY <1>2, FollowingAsks
  <2>2. /\ active' = session /\ bound' = session /\ saved' = saved
        /\ context' \in {"none", session}
    BY <1>2 DEF MovesTo
  <2> QED
    BY <1>2, <2>1, <2>2, AfterResult
<1> QED
  BY <1>1, <1>4, <1>5, <1>6, <1>7 DEF result

-----------------------------------------------------------------------------
(***************************************************************************)
(* The steps of a text.                                                    *)
(***************************************************************************)
\* A text that was checked, or that makes no claims, ends the turn.
LEMMA TextEnd ==
  ASSUME IInv, at = "asking", OnTime, NEW how, NEW shows, NEW draft,
         Succeeds(how, shows, draft),
         draft # NoDraft /\ how # "improved" => \A claim \in draft.claims : Confirms(history, claim)
  PROVE  IInv'
<1>1. signal' = signal
  BY DEF Succeeds, Ends
<1>2. LateAt("done", "idle", signal, late')
  BY <1>1, LateKept DEF OnTime
<1>3. MayEnd("success", how, draft)
  BY DEF MayEnd
<1> QED
  BY <1>2, <1>3, EndsKeep DEF Succeeds

\* The turn fails, with nothing that it could have told.
LEMMA TextFails ==
  ASSUME IInv, at = "asking", OnTime, NEW code \in Told, FailsWith(code),
         SafeFragments(history) = {}
  PROVE  IInv'
<1>1. signal' = signal
  BY DEF FailsWith, Ends
<1>2. LateAt("done", "idle", signal, late')
  BY <1>1, LateKept DEF OnTime
<1> QED
  BY <1>2, UntoldEnd

\* What the text is said to claim is at least what its contract says.
LEMMA InferredClaims ==
  ASSUME NEW draft \in Drafts, draft # NoDraft, NEW switched \in BOOLEAN
  PROVE  /\ Inferred(draft, switched) # NoDraft
         /\ draft.claims \subseteq Inferred(draft, switched).claims
<1>1. draft \in Contracts /\ NoDraft \notin Contracts
  BY LoopAssumption, ToolsAssumption
<1>2. CASE switched
  <2>1. Inferred(draft, switched) = [draft EXCEPT !.claims = @ \union {"session"}]
    BY <1>2 DEF Inferred
  <2>2. [draft EXCEPT !.claims = @ \union {"session"}] \in Contracts
    BY <1>1 DEF Contracts
  <2>3. draft.claims \subseteq [draft EXCEPT !.claims = @ \union {"session"}].claims
    BY <1>1 DEF Contracts
  <2> QED
    BY <1>1, <2>1, <2>2, <2>3
<1>3. CASE ~switched
  BY <1>3 DEF Inferred
<1> QED
  BY <1>2, <1>3

LEMMA FirstTextKeeps ==
  ASSUME IInv, at = "asking", OnTime, history = <<>>,
         NEW text, text.draft \in Drafts, NEW switched \in BOOLEAN, FirstText(text, switched)
  PROVE  IInv'
<1> DEFINE invalid == Violates(<<>>, text, Inferred(text.draft, switched), TRUE)
<1>1. \/ Asking(Repair("contract", "none"), {"contract"}) /\ Same
      \/ Succeeds("unchecked", {}, NoDraft)
      \/ FailsWith("unsound")
      \/ Silent
      \/ ~invalid /\ Succeeds("answer", {}, text.draft)
  BY Zenon DEF FirstText
<1>2. SafeFragments(history) = {} /\ rounds >= 1
  <2>1. DOMAIN history = {}
    OBVIOUS
  <2> QED
    BY <2>1 DEF SafeFragments, IInv, Shape, Tally
<1>3. CASE Asking(Repair("contract", "none"), {"contract"}) /\ Same
  <2>1. "contract" \in Kinds /\ "none" \in ToolNames /\ {"contract"} \in SUBSET Repairs
    BY DEF Kinds, ToolNames, Repairs
  <2> QED
    BY <1>3, <2>1, Requests, AskingKeeps
<1>4. CASE Succeeds("unchecked", {}, NoDraft)
  BY <1>4, TextEnd
<1>5. CASE FailsWith("unsound")
  BY <1>2, <1>5, TextFails DEF Told
<1>6. CASE Silent
  <2>1. CASE CanFailOver("empty") /\ FailsOver
    BY <1>2, <2>1, FailsOverKeeps DEF CanFailOver
  <2>2. CASE FailsWith("empty")
    BY <1>2, <2>2, TextFails DEF Told
  <2> QED
    BY <1>6, <2>1, <2>2 DEF Silent
<1>7. CASE ~invalid /\ Succeeds("answer", {}, text.draft)
  <2>1. ASSUME text.draft # NoDraft, NEW claim \in text.draft.claims
        PROVE  Confirms(history, claim)
    <3>1. /\ Inferred(text.draft, switched) # NoDraft
          /\ claim \in Inferred(text.draft, switched).claims
      BY <2>1, InferredClaims
    <3> QED
      BY <1>7, <3>1 DEF Violates
  <2> QED
    BY <1>7, <2>1, TextEnd
<1> QED
  BY <1>1, <1>3, <1>4, <1>5, <1>6, <1>7

LEMMA SettlesKeeps ==
  ASSUME IInv, at = "asking", OnTime, NEW text, NEW ledger, Settles(text, ledger)
  PROVE  IInv'
<1> DEFINE own == Recover(history, requests, ledger)
<1>1. \/ own = {} /\ FailsWith("empty")
      \/ Succeeds("improved", text.shows, text.draft)
      \/ Succeeds("recovered", own, NoDraft)
  BY DEF Settles
<1>2. history \in Seq(Exchanges)
  BY DEF IInv, Shape, TypeOK, Exchanges
<1>3. own = {} => SafeFragments(history) = {}
  BY <1>2, RecoverNothing
<1> HIDE DEF own
<1>4. CASE own = {} /\ FailsWith("empty")
  BY <1>3, <1>4, TextFails DEF Told
<1>5. CASE Succeeds("improved", text.shows, text.draft)
  BY <1>5, TextEnd
<1>6. CASE Succeeds("recovered", own, NoDraft)
  BY <1>6, TextEnd
<1> QED
  BY <1>1, <1>4, <1>5, <1>6

LEMMA JudgedKeeps ==
  ASSUME IInv, at = "asking", OnTime, history # <<>>, NEW text, Judged(text)
  PROVE  IInv'
<1> DEFINE ledger == Demanded(text.draft)
           first == Assess(history, requests, ledger, text, text.draft, TRUE)
           verdict == IF first = "accepted" /\ MasksFailure(history, text, ledger)
                      THEN "retryable" ELSE first
<1>1. /\ first \in {"accepted", "retryable", "unrecoverable"}
      /\ first = "accepted" => ~Violates(history, text, text.draft, TRUE)
      /\ first = "unrecoverable" /\ history # <<>> => SafeFragments(history) = {}
  BY Verdicts, Zenon
<1>2. \/ Asking(Retry(ledger, text), {"retry"}) /\ Same
      \/ Settles(text, ledger)
      \/ verdict = "unrecoverable" /\ FailsWith("empty")
      \/ verdict \notin {"retryable", "unrecoverable"} /\ Succeeds("accepted", text.shows, text.draft)
  BY Zenon DEF Judged
<1>3. verdict = "unrecoverable" => SafeFragments(history) = {}
  BY <1>1
<1>4. verdict \notin {"retryable", "unrecoverable"} => ~Violates(history, text, text.draft, TRUE)
  BY <1>1
<1> HIDE DEF ledger, first, verdict
<1>5. CASE Asking(Retry(ledger, text), {"retry"}) /\ Same
  <2>1. {"retry"} \in SUBSET Repairs
    BY DEF Repairs
  <2> QED
    BY <1>5, <2>1, Requests, AskingKeeps
<1>6. CASE Settles(text, ledger)
  BY <1>6, SettlesKeeps
<1>7. CASE verdict = "unrecoverable" /\ FailsWith("empty")
  BY <1>3, <1>7, TextFails DEF Told
<1>8. CASE /\ verdict \notin {"retryable", "unrecoverable"}
           /\ Succeeds("accepted", text.shows, text.draft)
  <2>1. text.draft # NoDraft => \A claim \in text.draft.claims : Confirms(history, claim)
    BY <1>4, <1>8 DEF Violates
  <2> QED
    BY <1>8, <2>1, TextEnd
<1> QED
  BY <1>2, <1>5, <1>6, <1>7, <1>8

LEMMA TextReplyKeeps == IInv /\ TextReply => IInv'
<1> SUFFICES ASSUME IInv, TextReply PROVE IInv'
  OBVIOUS
<1>1. Replied /\ at = "asking"
  BY DEF TextReply, Replied
<1>2. CASE Forced
  BY <1>1, <1>2, WrongKeeps DEF TextReply
<1>3. CASE ~Forced /\ Stops
  <2>1. OnTime
    BY <1>3, Zenon DEF TextReply
  <2>2. rounds >= 1
    BY <1>1 DEF IInv, Shape, Tally
  <2> QED
    BY <1>1, <1>3, <2>1, <2>2, StopsKeep
<1>4. CASE ~Forced /\ ~Stops
  <2>1. PICK text \in Written, flaw \in Flaws :
          \/ Asking(Repair("chart", "chart"), {"chart"}) /\ Same
          \/ Asking(Repair("dayun", "dayun"), {"dayun"}) /\ Same
          \/ Asking(Repair("search", "search"), {"search"}) /\ Same
          \/ Asking(Repair("output", "none"), {"output"}) /\ Same
          \/ Asking(Retry(Ledger, Text("prose", text.shows, NoDraft)), {"output"}) /\ Same
          \/ history = <<>> /\ \E switched \in BOOLEAN : FirstText(text, switched)
          \/ history # <<>> /\ Judged(text)
    BY <1>4, Zenon DEF TextReply, Answers
  <2>2. OnTime
    BY <1>4, Zenon DEF TextReply
  <2>3. text.draft \in Drafts
    BY DEF Written, Text
  <2>4. /\ {"chart", "dayun", "search", "output"} \subseteq Kinds /\ "none" \in ToolNames
        /\ \A repair \in {"chart", "dayun", "search", "output"} : {repair} \in SUBSET Repairs
    BY DEF Kinds, ToolNames, Repairs
  <2>5. CASE Asking(Repair("chart", "chart"), {"chart"}) /\ Same
    BY <1>1, <2>2, <2>4, <2>5, Requests, AskingKeeps
  <2>6. CASE Asking(Repair("dayun", "dayun"), {"dayun"}) /\ Same
    BY <1>1, <2>2, <2>4, <2>6, Requests, AskingKeeps
  <2>7. CASE Asking(Repair("search", "search"), {"search"}) /\ Same
    BY <1>1, <2>2, <2>4, <2>7, Requests, AskingKeeps
  <2>8. CASE Asking(Repair("output", "none"), {"output"}) /\ Same
    BY <1>1, <2>2, <2>4, <2>8, Requests, AskingKeeps
  <2>9. CASE Asking(Retry(Ledger, Text("prose", text.shows, NoDraft)), {"output"}) /\ Same
    BY <1>1, <2>2, <2>4, <2>9, Requests, AskingKeeps
  <2>10. CASE history = <<>> /\ \E switched \in BOOLEAN : FirstText(text, switched)
    BY <1>1, <2>2, <2>3, <2>10, FirstTextKeeps
  <2>11. CASE history # <<>> /\ Judged(text)
    BY <1>1, <2>2, <2>11, JudgedKeeps
  <2> QED
    BY <2>1, <2>5, <2>6, <2>7, <2>8, <2>9, <2>10, <2>11
<1> QED
  BY <1>2, <1>3, <1>4

-----------------------------------------------------------------------------
(***************************************************************************)
(* What a turn keeps.                                                      *)
(***************************************************************************)
LEMMA NextKeeps == IInv /\ [Next]_vars => IInv'
<1>1. IInv /\ Turn => IInv'
  BY StartKeeps, OpenKeeps, TopKeeps, CallsKeep, OnFailureKeeps, ToolReplyKeeps, RejectedKeeps,
     RaisedKeeps, ReturnsKeeps, TextReplyKeeps DEF Turn
<1>2. ASSUME IInv, UNCHANGED vars
      PROVE  IInv'
  BY <1>2 DEF vars, loopVars, callVars, IInv, Shape, TypeOK, CallTypeOK, Tally, LateBound, LateAt,
     WorksOnOneSession, Over, AtLimit, Registered, Ending, MayEnd
<1> QED
  BY <1>1, <1>2, ArrivesKeeps DEF Next, Done

LEMMA AlwaysIInv == Spec => []IInv
<1> QED
  BY InitInv, NextKeeps, PTL DEF Spec

\* The variables of a turn have their types, and the passes of its loop, its
\* requests and its tool results stay within the limit of tool rounds.
THEOREM TurnTypes == Spec => []TypeOK
<1>1. IInv => TypeOK
  BY DEF IInv, Shape
<1> QED
  BY <1>1, AlwaysIInv, PTL

\* However often a turn retries, fails over or asks for repairs, two calls at
\* most are begun after a stop or the deadline.
THEOREM FewCalls == Spec => []FewCallsAfterStop
<1>1. IInv => FewCallsAfterStop
  BY DEF IInv, Shape, TypeOK, CallTypeOK, LateBound, LateAt, FewCallsAfterStop
<1> QED
  BY <1>1, AlwaysIInv, PTL

\* Requests, compacted context and stored compactions of a turn belong to the
\* session that the conversation is bound to, for any number of switches.
THEOREM OneSession == Spec => []WorksOnOneSession
<1>1. IInv => WorksOnOneSession
  BY DEF IInv
<1> QED
  BY <1>1, AlwaysIInv, PTL

\* A turn that ends with a provider's passing failure has tried every profile
\* that can be built and that fallbacks lead to, whatever names what.
THEOREM AllProfilesTried == Spec => []FailoverExhausted
<1>1. IInv => FailoverExhausted
  BY DEF IInv, Ending, MayEnd, FailoverExhausted
<1> QED
  BY <1>1, AlwaysIInv, PTL

\* A turn that ends with an error of its own for want of a text has no result
\* that the runtime could have rendered.
THEOREM ResultsAreTold == Spec => []ResultIsTold
<1>1. IInv => ResultIsTold
  BY DEF IInv, Ending, MayEnd, Told, ResultIsTold
<1> QED
  BY <1>1, AlwaysIInv, PTL

\* A contract under which a text was accepted claims only what a successful
\* tool call of the turn confirms, for every contract a model can write.
THEOREM ClaimsAreBorneOut == Spec => []AcceptedIsBorneOut
<1>1. IInv => AcceptedIsBorneOut
  BY DEF IInv, Ending, MayEnd, AcceptedIsBorneOut
<1> QED
  BY <1>1, AlwaysIInv, PTL

=============================================================================
