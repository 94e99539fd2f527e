CONSTANTS
    Bodies = {plain, broken}
    Sound = {plain}
    Runs = {r1}
    MaxVersion = 3
    MaxGates = 1
    Generations = 2
SPECIFICATION FairSpec
INVARIANTS PublishingTypeOK ServedIsStored HalvesAgree OneExecutor
PROPERTIES ImplementsDocument OrphansAreReconciled
CHECK_DEADLOCK FALSE
