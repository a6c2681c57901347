SPECIFICATION SpecEither
CONSTANTS
  Callers = {"c1", "c2"}
  Sessions = {"s1", "s2"}
  MaxAttempts <- Attempts
  Patient = {}
  MayQuit = {"c2"}
  Requests = {"chart", "luck", "pillars"}
  Places = {"here"}
  PlaceOf <- PlaceOfRequest
  MaxCalls = 3
INVARIANTS SessionHasOwner PlaceResolvedOnce
PROPERTIES NothingHangs
CHECK_DEADLOCK FALSE
