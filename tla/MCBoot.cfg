SPECIFICATION FairSpec
CONSTANTS
    Writes = 3
    MaxAverage = 1
    MaxSpin = 3
    PauseLoops = 2
    SettleLoops = 2
    MaxBusy = 8
    MaxQuiet = 24
INVARIANTS WatchdogFed StartsPrepared TestLetsGoOfCard
PROPERTY BootEnds
