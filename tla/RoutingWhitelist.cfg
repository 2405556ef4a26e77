SPECIFICATION Spec
CONSTANTS
    Origins <- MCOrigins
    DestsOf <- MCDestsOf
    Deployed <- MCDeployed
    NoDest = "none"
    Nodes = {m}
    Jobs = {1}
    MaxDeploys = 0
    MaxFaults = 0
    Requests = {1, 2}
    Names = {"goo", "google.com", "example.org"}
    Prefixes = {"goo", "google.com"}
    Host = "google.com"
INVARIANTS OnlyStoredHosts
CHECK_DEADLOCK FALSE
