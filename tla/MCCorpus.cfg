CONSTANTS
    Proc = {p, q}
    MaxSignature = 2
    Entry <- MCEntry
    Keep = 1
    NoFile = NoFile
    Corrupt = Corrupt
SPECIFICATION Spec
PROPERTIES NeverTorn BetterUnlessRaced PruneKeepsBest ImplementsStore
CHECK_DEADLOCK FALSE
