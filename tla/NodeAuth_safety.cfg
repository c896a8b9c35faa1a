SPECIFICATION Spec
CONSTANTS
    Node = {n1, n2}
    n1 = n1
    n2 = n2
    Token = {t1, t2}
    t1 = t1
    t2 = t2
    IP = {a1}
    a1 = a1
    Call = {c1, c2}
    c1 = c1
    c2 = c2
    MaxUses = 1
    FailureLimit = 2
    MaxPending = 1
    None = None
SYMMETRY Symmetry
INVARIANTS
    TypeOK
    OneTokenPerNode
    SavedIsCurrent
    UsesBounded
PROPERTIES
    NewNodeNeedsToken
CHECK_DEADLOCK TRUE
