SPECIFICATION Spec
CONSTANTS
    NumTasks = 1
    MaxConcurrent = 1
    MaxQueued = 2
    Silent = {}
    Cancellers = {c1}
    Closers = {c2}
    MaxFaults = 1
CHECK_DEADLOCK FALSE
PROPERTIES
    SettledOutcomeStands
