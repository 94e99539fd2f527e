SPECIFICATION Spec
CONSTANTS
    Http = http
    Sockets = {s1}
    Sweeper = sweeper
    NGates = 1
    NRecords = 2
    RecoverOrphans = FALSE
    MaxStops = 1
    MaxBusy = 0
    MaxFaults = 0
    MaxCrashes = 0
INVARIANTS
    AnnouncedCancelHolds
CHECK_DEADLOCK FALSE
