SPECIFICATION NodeHealthFairSpec
CONSTANTS
    Check = {c1, c2}
    Threshold = 3
    MaxCount = 4
PROPERTIES
    VerdictsLast
    AnsweringBecomesHealthy
    GoneBecomesUnhealthy
CHECK_DEADLOCK TRUE
