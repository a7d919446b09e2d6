CONSTANTS
    Beats = {b1, b2}
    Readings = {{}, {"failed"}, {"incident"}, {"failed", "fused"}, {"blocking"}}
    MaxDeaths = 1
SPECIFICATION FairSpec
INVARIANTS PagesInv ToldWasDelivered
PROPERTIES TroubleIsPaged
