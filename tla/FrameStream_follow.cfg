CONSTANTS
    Runs = {r}
    Viewed = r
    RingCapacity = 4
    QueueCapacity = 1
    BatchSize = 2
    MaxFrames = 4
    MaxGroup = 2
    MaxFaults = 1
    MaxEnds = 0
    MayClose = FALSE
    SubCapacity = 2
    PageLimit = 5
    MaxDrops = 1
    MaxFetchFails = 0
SPECIFICATION StreamSpec
INVARIANTS StreamTypeOK CaughtUp
PROPERTY ShownInOrder
CHECK_DEADLOCK FALSE
