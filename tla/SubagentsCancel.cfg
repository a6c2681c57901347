SPECIFICATION Spec
CONSTANTS
    NumTasks = 2
    MaxConcurrent = 1
    MaxQueued = 1
    Silent <- Tasks
    Cancellers = {c1}
    Closers = {}
    MaxFaults = 0
CHECK_DEADLOCK FALSE
INVARIANTS
    SlotHasOwner
    WaitsOnlyForRoom
    RunHoldsSlot
