SPECIFICATION NodeHealthSpec
CONSTANTS
    Check = {c1, c2}
    Threshold = 3
    MaxCount = 4
INVARIANTS
    DisabledStaysDisabled
CHECK_DEADLOCK TRUE
