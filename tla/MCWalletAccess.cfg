SPECIFICATION AccessSpec
CONSTANTS
    Requests = {r1, r2, r3, r4}
    MaxIssued = 2
    Sessions = {s1, s2}
    Callers = {c1, c2}
    Sweepers = {w1, w2}
    NoSession = NoSession
    Timeout = 0
    MaxTime = 2
    MaxCalls = 3
    Nets = {"dev", "main"}
    Tokens = {"ra", "sol", "bonk"}
    RA = "ra"
    SOL = "sol"
    Programs = {"system", "spl"}
    ProgramOf <- MCProgramOf
    PriceOf <- MCPriceOf
    AccountsOf <- MCAccountsOf
    Listable = {"bonk"}
    Amounts = {0, 1}
    Calls2 = {c1, c2}
    MinUsd = 1
    MaxUsd = 2
    MaxTokens = 1
    MaxChanges = 2
    MaxBalanceCalls = 2
SYMMETRY Interchangeable
INVARIANTS
    AccessTypeOK
    AnsweredOnce
    
PROPERTIES
    PresenceIsTrue
CHECK_DEADLOCK FALSE
