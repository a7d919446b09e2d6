CONSTANTS
    Proposals = {p1, p2}
    Senders = {s1}
    Monitor = monitor
    Operator = operator
    Nobody = nobody
    Ownership = TRUE
    MaxCrashes = 2
    MaxCancelled = 0
SPECIFICATION Spec
SYMMETRY Symmetric
INVARIANTS AtMostOnePost
PROPERTIES NoEntryBesideDoubt ImplementsAtMostOnceEntry
CHECK_DEADLOCK FALSE
