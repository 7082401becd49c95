SPECIFICATION PayoutSpec
CONSTANTS
    Steps = 3
    Principals = {1, 2, 3, 4, 5, 6, 7, 8, 9, 10, 11, 12, 13, 14, 15, 16, 17, 18, 19, 20, 21, 22, 23, 24}
    Aprs = {5, 12, 40}
    FeeRates = {0, 50, 250}
INVARIANTS
    ClaimIsAccepted
CHECK_DEADLOCK FALSE
