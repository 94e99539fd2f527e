SPECIFICATION FairSpec
CONSTANTS
    Runs = {"r1"}
    Scripts <- MCScripts
    Nodes = {"n"}
    Calls = {"c", "d"}
    Tools = {"tool"}
    Tasks = {"t", "u"}
    Agents = {"a"}
    Answered = {"c", "d"}
    QueueCapacity = 1
    MaxLookups = 1
    Attempts = 2
    DisplaceTries = 2
    MaxDisplaced = 1
INVARIANTS EndedOnce OwnLevel
PROPERTY WaitsEnd
CHECK_DEADLOCK FALSE
