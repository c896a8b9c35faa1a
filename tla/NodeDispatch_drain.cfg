\* GracefulShutdown with a request that polls for a node.
CONSTANTS
    Node = {n1}
    Object = {o1, o2}
    Request = {r1, r2}
    Forward = {f1}
    MaxConcurrent = 1
    MaxRetries = 1
    None = None
SPECIFICATION Spec
SYMMETRY Symmetry
INVARIANT CompletedMeansDrained
CHECK_DEADLOCK FALSE
