CONSTANTS
    Agents = {a1, a2}
    Epochs = {e1, e2}
    MaxFailures = 2
    MaxCrashes = 2
SPECIFICATION FairSpec
INVARIANTS RunsInv OnePass FuseHolds
PROPERTIES InterruptedIsResolved
