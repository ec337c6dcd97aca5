CONSTANTS
    Choice = {first, other}
    Setups <- MCSetups
    MaxInvariants = 2
    MaxSteps = 3
SPECIFICATION Spec
INVARIANTS TypeOK OkMeansHeld PersistentWarningReported OneVerdict ObservedAsExecuted
CHECK_DEADLOCK FALSE
