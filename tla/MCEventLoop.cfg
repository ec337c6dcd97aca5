CONSTANTS
    MaxHandles = 4
    MaxWhen = 2
    MaxRuns = 2
    MaxSteps = 3
    TimeLimit = {1}
    CleanupLimit = 3
    Fifo = FALSE
    StopPhases = {"scenario"}
SPECIFICATION Spec
INVARIANTS OnePlace NoLostCallback TimerAccounting TurnInReady NeverEarly NoStaleStop
PROPERTIES TimeMovesOnlyWhenIdle GivesUpHonestly ImplementsContract
CHECK_DEADLOCK FALSE
