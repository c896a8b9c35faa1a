\* Liveness: no symmetry, fair goroutines.
CONSTANTS
    Node = {n1}
    Object = {o1, o2}
    Request = {r1, r2}
    Forward = {f1}
    MaxConcurrent = 1
    MaxRetries = 0
    None = None
SPECIFICATION FairSpec
PROPERTY RequestsTerminate
CHECK_DEADLOCK FALSE
