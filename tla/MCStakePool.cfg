SPECIFICATION Spec
CONSTANTS
    v1 = v1
    v2 = v2
    ra = ra
    rb = rb
    Owners = {o1}
    Seeds = {s1, s2}
    Mints = {m1}
    RaMints = {ra, rb}
    PayoutMints = {ra, rb}
    Vaults = {v1, v2}
    VaultMint <- MCVaultMint
    PoolOwned = {v1, v2}
    Signers = {k1}
    AprTables <- MCAprTables
    PeriodArgs = {7, 14, 30}
    InputAmounts = {1}
    UsdAmounts = {1, 2}
    RaAmounts = {0, 1}
    U64Max = 2
    InitialInput = 2
    InitialVault = 1
    MaxTime = 2
SYMMETRY SeedSymmetry
INVARIANTS
    TypeOK
    PaidExactlyOnce
    
    MaturedIsClaimable
PROPERTIES
    ImplementsLedger
CHECK_DEADLOCK FALSE
