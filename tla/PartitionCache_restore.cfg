SPECIFICATION PartitionSpec
CONSTANTS
    Node = {n1, n2, n3}
    n1 = n1
    n2 = n2
    n3 = n3
SYMMETRY Symmetry
INVARIANTS
    RestoredAtStart
CHECK_DEADLOCK TRUE
