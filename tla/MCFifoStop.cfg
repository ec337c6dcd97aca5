CONSTANTS
    MaxHandles = 4
    MaxWhen = 2
    MaxRuns = 1
    MaxSteps = 5
    TimeLimit = {}
    CleanupLimit = 1
    Fifo = TRUE
    StopPhases = {}
SPECIFICATION Spec
PROPERTY StopEndsIteration
CHECK_DEADLOCK FALSE
