CONSTANTS
    a = a
    b = b
    Task = {a, b}
    NoTask = none
    MaxQueue = 3
    MaxLength = 2
    Setting <- MCSetting
    Edits = {TRUE, FALSE}
SPECIFICATION Spec
INVARIANTS FaithfulReplay NoSilentDivergence AcceptedReplay
CHECK_DEADLOCK FALSE
