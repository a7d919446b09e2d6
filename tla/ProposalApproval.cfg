CONSTANTS
    p1 = p1
    p2 = p2
    s1 = s1
    s2 = s2
    x = x
    Proposals = {p1, p2}
    SymbolOf <- MCSymbolOf
    Scans = {s1, s2}
    Operators = {o1}
    AutoMode = TRUE
    MaxAuto = 1
    MaxUnattended = 1
    Nobody = Nobody
SPECIFICATION Spec
SYMMETRY Symmetric
INVARIANTS OneOpenPerSymbol CapsHold ConsentedOnly
PROPERTIES DecidedIsNotSent
CHECK_DEADLOCK FALSE
