SPECIFICATION Spec
CONSTANTS
    r1 = r1  r2 = r2  r3 = r3
    Requests = {r1, r2, r3}
    Endpoint <- MCEndpoint
    Cost <- MCCost
    ScopeLimit <- MCScopeLimit
    InitialSpend = 1
    Limit = 4
    MaxMonth = 1
    MaxFaults = 2
    NoRequest = NoRequest
INVARIANTS
    TypeOK
    SpendAccounted
    WithinBudget
    OrphanHaltsTraffic
CHECK_DEADLOCK FALSE
