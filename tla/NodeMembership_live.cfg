SPECIFICATION FairSpec
CONSTANTS
    Node = {n1}
    n1 = n1
    Call = {c1, c2}
    c1 = c1
    c2 = c2
    MaxCallbacks = 1
    MaxAttempts = 1
    None = None
INVARIANTS
    TypeOK
    AuthSurvivesRestart
    RecoveredIsRefreshed
PROPERTIES
    BeatingNodeIsServed
CHECK_DEADLOCK TRUE
