SPECIFICATION Spec
CONSTANTS
    Reqs = {r1, r2}
    IPs = {i1}
    Services = 0
    MaximumConnections = 2
    ProxyDailyLimit = 1
    MaxChecks = 3
INVARIANT BusyMeansFull
