SPECIFICATION WebSpec
CONSTANTS
    Accounts = {u1, u2}
    NoAccount = NoAccount
    Tasks = {v1, v2}
    MaxSessions = 2
    MaxMoves = 3
    Holders = {u1, u2}
    NoHolder = NoHolder
    Nets = {"devnet", "mainnet"}
    Requests = {r1, r2, r3}
    MaxSwitches = 5
    Attempts = {1, 2}
    Legs = {l1, l2}
    MinUsd = 2
    MaxUsd = 7
    Balances = {0, 4, 9}
    Quotes = {0, 1, 2}
    MaxActivities = 4
    KindOf <- AlternateKinds
    PageSize = 1
    Fetches = {"f", "g"}
    MaxAsks = 3
    Items = {"n"}
    Readers = {"a", "b"}
    Feeds = {"f", "g"}
    Slots = {v1, v2}
    MaxVotes = 2
    MaxEdits = 1
    MaxMounts = 2
    Categories = {u1, u2}
    NoCategory = NoCategory
    Titles = {v1, v2}
    NoTitle = NoTitle
    Pages = {p1, p2}
    Slugs = {s1, s2}
    NoSlug = NoSlug
    Writers = {w1, w2}
    MaxWrites = 4
    Coins = {u1, u2}
    Tickers = {SOL, v1, v2}
    Sol = SOL
    NoTicker = NoTicker
    Editors = {e1, e2}
    Icons = {i1}
    MaxTokenEdits = 3
    Wallets = {u1, u2}
    NoWallet = NoWallet
    Errands = {v1, v2}
    MaxTokens = 2
    MaxErrands = 4
SYMMETRY Interchangeable
INVARIANTS
    WebTypeOK
    
    WindowsAreTrue
    FeedStands
    VotesAreCounted
    ContentIsWhole
CHECK_DEADLOCK FALSE
