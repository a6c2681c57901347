SPECIFICATION FairSpec
CONSTANTS
    NumTasks = 2
    MaxConcurrent = 1
    MaxQueued = 2
    Silent = {}
    Cancellers = {}
    Closers = {}
    MaxFaults = 0
CHECK_DEADLOCK FALSE
PROPERTIES
    EveryTaskEnds
