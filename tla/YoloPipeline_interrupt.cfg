SPECIFICATION FairSpec
CONSTANTS
    Camera = {a1}
    PerNode = 1
    MaxNodes = 2
    JobCap = 1
    ResultCap = 1
    MaxStale = 1
    MaxPanics = 1
PROPERTIES
    InterruptStops
CHECK_DEADLOCK FALSE
