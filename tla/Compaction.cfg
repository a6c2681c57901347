SPECIFICATION SpecAny
CONSTANTS
    left = left
    other = other
    Sessions <- Both
    NumJobs = 2
    Keep = 1
    MaxTurns = 5
    MaxRestarts = 1
    Places = {1, 2}
    Texts = {"go", "on"}
    TurnCounts = {1, 2}
    Advisory = 2
    Proactive = 3
    MaxQuestions = 4
    MaxNotes = 1
    MaxConfigs = 1
    MaxWaiting = 2
CHECK_DEADLOCK FALSE
INVARIANTS
    ContextIsWhole
PROPERTIES
    ImplementsJobQueue
    JobEndsUnlessWorkerDied
