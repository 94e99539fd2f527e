SPECIFICATION Spec
CONSTANTS
    Http = http
    Sockets = {s1}
    Sweeper = sweeper
    NGates = 2
    NRecords = 2
    RecoverOrphans = TRUE
    MaxStops = 1
    MaxBusy = 0
    MaxFaults = 1
    MaxCrashes = 1
INVARIANTS
    TypeOK
    ReplyConsumedOnce
    OpenGateAnchored
    OneContinuation
    OneExecution
CHECK_DEADLOCK FALSE
