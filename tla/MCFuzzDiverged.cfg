CONSTANTS
    Signature = {a, b}
    Nothing = nothing
    MaxRank = 3
    Trials = 2
    Flaky = FALSE
    FailFast = TRUE
    Shrink = TRUE
SPECIFICATION CommandSpec
INVARIANTS FailedHasExemplar
CHECK_DEADLOCK FALSE
