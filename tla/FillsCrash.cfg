CONSTANTS
    Monitors = {m1}
    Operators = {o1}
    Qty = 2
    MaxCrashes = 1
SPECIFICATION Spec
INVARIANTS NoFillIsDropped
CHECK_DEADLOCK FALSE
