CONSTANTS
    Passes = {p1}
    Qty = 2
    MaxIntents = 2
    MaxCrashes = 1
    Ownership = TRUE
    LateDelivery = FALSE
SPECIFICATION FairSpec
INVARIANTS NeverOversold ClosedIsFlat
PROPERTIES PostsAreBacked ImplementsExitBudget NakedIsFlagged SaleIsAccounted
