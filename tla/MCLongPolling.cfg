SPECIFICATION FairSpec
CONSTANTS
    Loads <- SomeLoads
    QueueCap = 1
    InCap = 1
    MaxStale = 1
CHECK_DEADLOCK FALSE
INVARIANTS
    InOrderOnce
    AckedOnce
PROPERTIES
    PipesSpec
    WrittenLeaves
    AckedIsRead
