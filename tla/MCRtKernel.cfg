\* Lists, semaphore, timers and context switches of the kernel, and its calls.
CONSTANTS
    a = a
    b = b
    idle = idle
    Thread <- MCThread
    Idle = idle
    First = a
    Prio <- MCPrio
    Slice <- MCSlice
    Timeout = {1, 2}
    TickWrap = 8
    MaxValue = 1
SPECIFICATION FairSpec
INVARIANTS
    TypeOK
    ReadyTable
    NobodyStranded
    HighestRuns
    ContextSaved
PROPERTIES
    CallsKeepPromise
    PeersShareCpu
