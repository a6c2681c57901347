SPECIFICATION SpecSome
CONSTANTS
  r1 = r1
  r2 = r2
  r3 = r3
  r4 = r4
  r5 = r5
  chat = chat
  group = group
  None = None
  Runs <- MCRuns
  Lanes <- MCLanes
  LaneOf <- MCLaneOf
  Messages = {"m1", "m2", "m3"}
  Triggers = {"a1", "a2"}
  Conversations = {"c1", "c2", "a"}
  Handoffs = {"expert"}
  Main = "main"
  Sessions = {"s1", "s2", "s3", "s4"}
  Flaky = {"m2", "a1"}
  Of <- Where
  User <- Whose
  Requested <- Asked
  Pinned <- NotPinned
  MaxCalls <- FewCalls
INVARIANTS ConversationsDoNotMix ExchangeFollowsUser
PROPERTIES ImplementsFairLock EveryMessageEnds
CHECK_DEADLOCK FALSE
