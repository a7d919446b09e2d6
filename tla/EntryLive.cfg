CONSTANTS
    Proposals = {p1}
    Senders = {s1}
    Monitor = monitor
    Operator = operator
    Nobody = nobody
    Ownership = TRUE
    MaxCrashes = 1
    MaxCancelled = 1
SPECIFICATION FairSpec
PROPERTIES DoubtIsResolved UnsentIsReleased LocksAreReleased
CHECK_DEADLOCK FALSE
