------------------------------ MODULE MCFeishu ------------------------------
(* Instances of the Feishu channel for TLC.                                  *)
EXTENDS FeishuIngress

CONSTANTS user, app,  \* messages of a user and of the app itself
          chat

TwoMessages == {user, app}
\* The user's message is sent twice; the app's comes in two frames.
OneOrTwoParts == [m \in TwoMessages |-> IF m = app THEN 2 ELSE 1]
TwoOrOneCopies == [m \in TwoMessages |-> IF m = app THEN 1 ELSE 2]
ThreeTurns == {<<user, 1>>, <<user, 2>>, <<app, 1>>}
OneChat == {chat}
SameChat == [m \in TwoMessages |-> chat]
OwnTexts == [m \in TwoMessages |-> m]
App == {app}
OwnKeys == [t \in ThreeTurns |-> t[1]]

\* Either the user's message comes twice or the app's comes beside it: of what
\* does not come the bound is used up.
InitSome ==
  \E m \in TwoMessages :
    /\ DeliveryInit
    /\ conn = "fetching" /\ failures = 0
    /\ sent = [n \in TwoMessages |-> [p \in 1..Parts[n] |-> IF n = m THEN 1 ELSE 0]]
    /\ fragments = [n \in TwoMessages |-> {}]
    /\ pool = <<NoTask>> /\ at = [t \in Turns |-> "unsent"]
    /\ receipts = {} /\ recent = {}
    /\ scanned = [t \in Turns |-> {}] /\ scanning = {}
    /\ lane = [c \in Chats |-> <<>>]

SpecSome == InitSome /\ [][Next]_vars /\ Fairness
=============================================================================
