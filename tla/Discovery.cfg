SPECIFICATION Spec
CONSTANTS
    n1 = n1
    n2 = n2
    n3 = n3
    Nodes = {n1, n2, n3}
    NoID = NoID
    Hosts <- MCHosts
    Clock <- MCClock
    WaitLimit = 2
    MaxFaults = 1
INVARIANTS TypeOK BootstrapAgreement OldestUnique NoSplitBrain EmptyListOnlyIfOldest
PROPERTY Decides
CHECK_DEADLOCK FALSE
