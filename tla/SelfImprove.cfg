SPECIFICATION SpecEither
CONSTANTS
  Triggers = {"t1", "t2"}
  Fingerprints = {"f"}
  Tasks = {"k1", "k2"}
  Dispatchers = {"d1"}
  MaxFaults = 1
  MaxRestarts = 1
  AgentRuns = {"r1", "r2"}
  Questions = {"a", "b"}
  Newest = 2
  Burst = 2
  MaxFailures = 3
  Slugs = {"a"}
  MaxSkills = 2
  MaxTexts = 3
  Users = {"u1", "u2"}
  Lessons = {"l1", "l2"}
  Topic <- SameTopic
  Processors = {"p1", "p2"}
INVARIANTS BurstIsReviewed
PROPERTIES EachTriggerOnce EndSettlesTrigger DecisionsStand
CHECK_DEADLOCK FALSE
