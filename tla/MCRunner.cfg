CONSTANTS
    Task = {main, t1, t2}
    Main = main
    MaxSteps = 4
    CleanupLimit = 7
    MaxGenerators = 1
    Oracles = 1
SPECIFICATION Spec
INVARIANTS InterruptPropagates FailureReported PassingTrialIsClean
PROPERTIES FirstErrorReported Terminates
CHECK_DEADLOCK FALSE
