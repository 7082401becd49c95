SPECIFICATION PricesSpec
CONSTANTS
    MaxId = 3
    Metas <- MCMetas
    Core <- MCCore
    Intervals = {1, 2}
    DefaultInterval = 1
    Requests = {y1, y2}
    Boot = Boot
    Tick = Tick
    NoKey = NoKey
    MaxStarts = 2
    MaxCalls = 2
    Admins = {x1, x2}
    Networks = {devnet, mainnet}
    DefaultNetwork = devnet
    Pools = {p1, p2, p3}
    NoPool = NoPool
    CorePool = p1
    Matching = {p1, p2}
    Limits = {1, 3}
    DefaultMin = 0
    DefaultMax = 2
    Addresses = {u1, u2}
    NoAddress = NoAddress
    Records = {r1, r2}
    MaxRequests = 3
    StoredIntervals = {1, 2}
    LongInterval = 4
    TickSizes = {1, 2}
    Prices = {1, 2, 3}
    BarLimit = 1
    LastTime = 9
    MaxPolls = 3
    Mints = {x1, x2}
    Flights = {f1, f2, f3}
    NoFlight = NoFlight
    Lists = {y1, y2}
    MaxTides = 1
    MaxTweaks = 1
    Widths = {1, 2}
    Steps = 3
    Principals <- MCPrincipals
    Aprs = {5, 12, 40}
    FeeRates = {0, 50, 250}
    Proxies = {x1, x2}
    Trips = {y1, y2}
    Targets = {g0, g1}
    EnvTarget = g0
    NoTarget = NoTarget
    MaxPublishings = 2
SYMMETRY Interchangeable
INVARIANTS
    PricesTypeOK
    BarsTellThePolls
PROPERTIES
    AmountsAreRounded
    OneReaderAtATime
    
CHECK_DEADLOCK FALSE
