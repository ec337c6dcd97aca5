SPECIFICATION Spec
CONSTANTS
    MaxLength = 3
    Widths = {1, 3}
    MaxReplays = 6
    SpanLimit = 2
    LookBack = 2
INVARIANTS
    TypeOK
    CacheSound
    BestIsProven
    ReserveKept
    NeverAccused
    Converged
PROPERTY Terminates
CHECK_DEADLOCK FALSE
