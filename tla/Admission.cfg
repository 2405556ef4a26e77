SPECIFICATION FairSpec
CONSTANTS
    Reqs = {r1, r2, r3}
    IPs = {i1}
    Services = 1
    MaximumConnections = 2
    ProxyDailyLimit = 1
    MaxChecks = 3
INVARIANTS
    TypeOK
    TokensAccounted
    FailureReported
    LimitEnforced
PROPERTIES
    TokenReturns
