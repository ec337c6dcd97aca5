CONSTANTS
    Signature = {a, b}
    Nothing = nothing
    MaxRank = 3
    Trials = 2
    Flaky = TRUE
    FailFast = TRUE
    Shrink = TRUE
SPECIFICATION CommandSpec
INVARIANTS CommandsTypeOK FailuresKept OldEvidenceKept PassedIsClean CodeTells ShrinkKeepsToEntry
CHECK_DEADLOCK FALSE
