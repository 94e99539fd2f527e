CONSTANTS
    Runs = {r}
    Viewed = r
    RingCapacity = 1
    QueueCapacity = 1
    BatchSize = 2
    MaxFrames = 4
    MaxGroup = 2
    MaxFaults = 0
    MaxEnds = 1
    MayClose = FALSE
    SubCapacity = 1
    PageLimit = 2
    MaxDrops = 0
    MaxFetchFails = 1
SPECIFICATION StreamSpec
INVARIANT SkipsAreCounted
PROPERTY RowsAreFinal
CHECK_DEADLOCK FALSE
