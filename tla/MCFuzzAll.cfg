CONSTANTS
    Signature = {a, b}
    Nothing = nothing
    MaxRank = 3
    Trials = 2
    Flaky = FALSE
    FailFast = FALSE
    Shrink = FALSE
SPECIFICATION CommandSpec
INVARIANTS FailuresKept
CHECK_DEADLOCK FALSE
