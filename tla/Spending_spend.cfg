SPECIFICATION Spec
CONSTANTS
    r1 = r1
    r2 = r2
    Runs <- MCRuns
    Cap = 3
    RunCeiling = 2
    MaxQueued = 1
    MaxCall = 1
    Branches = 2
    MaxRestarts = 1
    MaxFaults = 1
    MaxPaid = 3
SYMMETRY Symmetry
INVARIANT SpendTypeOK
INVARIANT GrantsFitTheCap
INVARIANT NothingLeaks
INVARIANT SlotsBounded
INVARIANT OvershootBounded
INVARIANT MemoryIsFresher
CHECK_DEADLOCK FALSE
