SPECIFICATION FairRateSpec
CONSTANTS
    Requests = {r1, r2, r3}
    Limit = 2
    Backends = {"rest"}
    CountBound = 4
    Failures = 1
PROPERTIES
    LimitedNotForever
CHECK_DEADLOCK FALSE
