SPECIFICATION SettlingSpec
CONSTANTS
    OpenTabs = {t1}
    MaxSaves = 2
    MaxFails = 1
    Officers = {o1}
    LogPools = {"p", "q", "r"}
    NoLogPool = "none"
    Tries = {"t", "u"}
    Changes = 1
    MaxFlips = 2
    Requests = {r1, r2, r3}
    Limit = 2
    Backends = {"socket", "rest"}
    CountBound = 4
    Failures = 3
    Null = Null
    Dollars <- MCDollars
    Points <- MCPoints
    Counts <- MCCounts
    DefaultRules <- MCDefaultRules
INVARIANTS
    SettlingTypeOK
    LimitsHold
PROPERTIES
    SettlesInTheEnd
CHECK_DEADLOCK FALSE
