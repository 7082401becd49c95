SPECIFICATION AdministrationSpec
CONSTANTS
    v1 = v1
    v2 = v2
    ra = ra
    Owners = {o1}
    Seeds = {s1}
    Mints = {m1}
    RaMints = {ra}
    PayoutMints = {ra}
    Vaults = {v1, v2}
    VaultMint <- MCVaultMint
    PoolOwned = {v1, v2}
    Signers = {k1}
    AprTables <- MCAprTables
    PeriodArgs = {7}
    InputAmounts = {1}
    UsdAmounts = {1}
    RaAmounts = {0, 1}
    U64Max = 1
    InitialInput = 1
    InitialVault = 0
    MaxTime = 1
    BatchSeeds = {b1, b2}
    BatchAmounts = {0, 1, 2}
    InitialFunds = 2
    Holders = {b1, b2}
    Founders = {b1, b2}
    Edits = {y1, y2}
    Unasked = unasked
    Asks <- MCAsks
    MaxSignIns = 3
    MaxVisits = 3
    Pages = {"news", "header", "maintenance", "docs", "users", "control", "tokens", "ohlc", "ra",
             "staking", "metrics", "audit", "dashboard", "blog"}
    Runs = {1, 2}
    MaxChanges = 2
    MaxRuns = 2
SYMMETRY Interchangeable
INVARIANTS
    AdministrationTypeOK
    BatchPaysOnce
    VaultOwesNothing
    ShowsItsChanges
PROPERTIES
    AdminsStandUnraced
CHECK_DEADLOCK FALSE
