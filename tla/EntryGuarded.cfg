CONSTANTS
    Proposals = {p1}
    Senders = {s1, s2}
    Monitor = monitor
    Operator = operator
    Nobody = nobody
    Ownership = TRUE
    MaxCrashes = 2
    MaxCancelled = 1
SPECIFICATION Spec
SYMMETRY Symmetric
INVARIANTS EntryInv WrittenOffIsOver AlarmsAreInDoubt
 
CHECK_DEADLOCK FALSE
