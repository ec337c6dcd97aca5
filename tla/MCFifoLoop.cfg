CONSTANTS
    MaxHandles = 4
    MaxWhen = 2
    MaxRuns = 1
    MaxSteps = 5
    TimeLimit = {}
    CleanupLimit = 1
    Fifo = TRUE
    StopPhases = {"before", "scenario"}
SPECIFICATION Spec
PROPERTY FifoFollowsAsyncio
CHECK_DEADLOCK FALSE
