SPECIFICATION StakingSpec
CONSTANTS
    Stakes = {s1, s2}
    Tabs = {t1, t2}
    Opened = {s2}
    Blockhashes = {1, 2}
    Handlers = {t1, t2}
    MaxAsked = 2
    MaxActs = 1
SYMMETRY Interchangeable
INVARIANTS
    StakingTypeOK
    RowsBackedByChain
    EachStakeCountsOnce
    MirrorFollowsRow
    CallsKeepTheirGround
CHECK_DEADLOCK FALSE
