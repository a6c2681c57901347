SPECIFICATION Spec
CONSTANTS
  Tools = {"spawn", "memory", "session", "list", "call", "chart", "solved", "dayun", "search"}
  Rendered = {"spawn", "list", "session"}
  Listing = {"list"}
  Calling = {"call"}
  NoDraft = NoDraft
  MaxAttempts = 2
  Faults = {"overflow", "upstream"}
  MaxToolRounds = 2
  Sessions = {"s1", "s2"}
  First = "s1"
  Profiles = {"first", "broken", "second"}
  Initial = "first"
  Broken = {"broken"}
  Asks = {"chat", "birth"}
  Fallback <- MCFallback
  Drafts <- MCDrafts
INVARIANTS
  FewCallsAfterStop WorksOnOneSession FailoverExhausted ResultIsTold AcceptedIsBorneOut
