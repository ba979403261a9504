SPECIFICATION Spec
CONSTANTS
    Last = 9
    Taken = {4}
    PerSector = 4
    ClusterSize = 2
    Buffer = 3
    WriteNum = 2
    MinFree = 3
    MaxFile = 1
    MaxResets = 0
    Exclusive = FALSE
INVARIANT ChainsSound
CHECK_DEADLOCK FALSE
