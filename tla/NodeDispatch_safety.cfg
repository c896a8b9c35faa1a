\* Two nodes, re-registration, one retry, a YOLO forward; one VLM request per node.
CONSTANTS
    Node = {n1, n2}
    Object = {o1, o2}
    Request = {r1, r2}
    Forward = {f1}
    MaxConcurrent = 1
    MaxRetries = 1
    None = None
SPECIFICATION Spec
SYMMETRY Symmetry
INVARIANTS
    TypeOK
    SlotAccounting
    VlmCapPerObject
    RetriesVisitDistinctNodes
PROPERTY ServesVlm
CHECK_DEADLOCK FALSE
