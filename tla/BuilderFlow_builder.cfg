SPECIFICATION Spec
CONSTANTS
    MaxGraphNodes = 9
    MaxFanoutWidth = 4
    MaxCycles = 3
    MaxCycleIterations = 1
    MaxAnswers = 3
    Documents <- MCDocuments
INVARIANTS
    TypeOK
    LoopsAreCut
    JoinsDoNotStarve
    RunDelivers
    ResumeReachesItsPoint
    NothingUpstreamIsBilled
    ReviseLoopsRunAsPriced
