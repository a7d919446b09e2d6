CONSTANTS
    p1 = p1
    p2 = p2
    p3 = p3
    p4 = p4
    x = x
    y = y
    z = z
    Proposals = {p1, p2, p3, p4}
    Symbols = {x, y, z}
    SymbolOf <- MCSymbolOf
    Qty <- MCQty
    Equity = 3
    MaxOpen = 2
    MaxTrades = 3
    Senders = {s1, s2}
    Nobody = Nobody
SPECIFICATION Spec
INVARIANTS ExposureInv SlotsWithinLimit NoLeverage
CHECK_DEADLOCK FALSE
