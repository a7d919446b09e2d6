CONSTANTS
    Passes = {p1}
    Qty = 1
    MaxIntents = 2
    MaxCrashes = 0
    Ownership = TRUE
    LateDelivery = TRUE
SPECIFICATION FairSpec
INVARIANTS OneSubmission
