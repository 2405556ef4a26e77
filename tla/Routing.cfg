SPECIFICATION Spec
CONSTANTS
    Origins <- MCOrigins
    DestsOf <- MCDestsOf
    Deployed <- MCDeployed
    NoDest = "none"
    Nodes = {m}
    Jobs = {1, 2}
    MaxDeploys = 1
    MaxFaults = 1
    Requests = {1, 2}
    Names = {"google.com"}
    Prefixes = {"google.com"}
    Host = "google.com"
INVARIANTS OriginKept
PROPERTIES RoutesConverge ProxyConverges HostConverges
CHECK_DEADLOCK FALSE
