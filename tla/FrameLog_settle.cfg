CONSTANTS
    Runs = {r1, r2}
    RingCapacity = 2
    QueueCapacity = 2
    BatchSize = 2
    MaxFrames = 2
    MaxGroup = 2
    MaxFaults = 1
    MaxEnds = 1
    MayClose = TRUE
SPECIFICATION FairSpec
INVARIANTS TypeOK LossIsCounted RowsHaveNoHole OneFrameForANumber
PROPERTY FramesSettle
CHECK_DEADLOCK FALSE
