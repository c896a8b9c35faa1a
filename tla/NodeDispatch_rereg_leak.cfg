\* Registering a node again while it serves a request.
CONSTANTS
    Node = {n1}
    Object = {o1, o2}
    Request = {r1, r2}
    Forward = {f1}
    MaxConcurrent = 1
    MaxRetries = 1
    None = None
SPECIFICATION Spec
SYMMETRY Symmetry
INVARIANT IdleNodeCountsZero
CHECK_DEADLOCK FALSE
