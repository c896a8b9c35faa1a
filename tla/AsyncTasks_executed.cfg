SPECIFICATION FairSpec
CONSTANTS
    Call = {c1, c2}
    c1 = c1
    c2 = c2
    t1 = t1
    t2 = t2
    t3 = t3
    m1 = m1
    m2 = m2
    Task <- MCTask
    Main <- MCMain
    MainOf <- MCMainOf
    QueueSize = 2
    MaxBatch = 2
PROPERTIES
    QueuedIsExecuted
CHECK_DEADLOCK TRUE
