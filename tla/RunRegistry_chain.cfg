SPECIFICATION Spec
CONSTANTS
    Http = http
    Sockets = {s1, s2}
    Sweeper = sweeper
    NGates = 2
    NRecords = 2
    RecoverOrphans = FALSE
    MaxStops = 1
    MaxBusy = 1
    MaxFaults = 0
    MaxCrashes = 0
SYMMETRY Symmetry
INVARIANTS
    NoWedgedReply
PROPERTIES
    ImplementsGateProtocol
CHECK_DEADLOCK FALSE
