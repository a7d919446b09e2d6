CONSTANTS
    Monitors = {m1}
    Operators = {o1}
    Qty = 3
    MaxCrashes = 2
SPECIFICATION FairSpec
INVARIANTS TypeOK ExpiredIsFlat
PROPERTIES ImplementsCumulativeFills FillIsBooked DoubtIsFlagged
CHECK_DEADLOCK FALSE
