CONSTANTS
    a = a
    b = b
    Task = {a, b}
    NoTask = none
    MaxQueue = 2
    MaxLength = 2
    Setting <- MCDuplicates
    Edits = {FALSE}
SPECIFICATION Spec
INVARIANTS FaithfulReplay
CHECK_DEADLOCK FALSE
