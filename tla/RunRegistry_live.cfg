SPECIFICATION FairSpec
CONSTANTS
    Http = http
    Sockets = {}
    Sweeper = sweeper
    NGates = 2
    NRecords = 2
    RecoverOrphans = TRUE
    MaxStops = 0
    MaxBusy = 0
    MaxFaults = 0
    MaxCrashes = 2
PROPERTIES
    InterruptedRunSettles
CHECK_DEADLOCK FALSE
