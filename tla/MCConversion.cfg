SPECIFICATION ConversionSpec
CONSTANTS
    LegCount = 2
    TxCount <- MCTxCount
    Calls = {c1, c2}
    MaxOutside = 1
    Tokens = {t1, t2}
    NoToken = NoToken
    ConvertPools = {p1, p2}
    FirstPool = p1
    MaxAmount = 2
    MaxPrice = 2
    Requests = {c1, c2}
    MaxTokensPerSession = 2
    MaxSwaps = 2
    MaxTurns = 4
SYMMETRY Interchangeable
INVARIANTS
    ConversionTypeOK
    ConversionAddsUp
    
PROPERTIES
    SettledIsFinal
CHECK_DEADLOCK FALSE
