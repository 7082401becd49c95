SPECIFICATION AdminSpec
CONSTANTS
    a1 = a1
    a2 = a2
    p1 = p1
    p2 = p2
    NoKey = NoKey
    Admins = {a1, a2}
    Sessions = {s1, s2}
    Calls = {c1, c2}
    Positions = {p1, p2}
    Payout <- MCPayout
    VaultAtFirst = 1
    Situations <- MCSituations
SYMMETRY Interchangeable
INVARIANTS
    AdminTypeOK
    ShowsWhatWasExecuted

    
CHECK_DEADLOCK FALSE
