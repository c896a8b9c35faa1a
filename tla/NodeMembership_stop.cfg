SPECIFICATION Spec
CONSTANTS
    Node = {n1}
    n1 = n1
    Call = {c1, c2}
    c1 = c1
    c2 = c2
    MaxCallbacks = 1
    MaxAttempts = 1
    None = None
SYMMETRY Symmetry
INVARIANT
    StoppedIsGone
CHECK_DEADLOCK TRUE
