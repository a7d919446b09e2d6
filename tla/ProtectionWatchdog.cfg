CONSTANTS
    Positions = {p1, p2}
    Threshold = 2
SPECIFICATION FairSpec
INVARIANTS WatchdogInv
PROPERTIES IncidentEndsForCause TroubleBlocks OrphansAreSwept
