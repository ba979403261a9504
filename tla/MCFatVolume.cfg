SPECIFICATION Spec
CONSTANTS
    Last = 9
    Taken = {4}
    PerSector = 4
    ClusterSize = 2
    Buffer = 3
    WriteNum = 2
    MinFree = 3
    MaxFile = 2
    MaxResets = 1
    Exclusive = TRUE
INVARIANTS TypeOK ChainsSound FreeCountTrue CheckedFileFits
PROPERTIES IsFileStore
CHECK_DEADLOCK FALSE
