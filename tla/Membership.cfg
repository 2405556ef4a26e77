SPECIFICATION Spec
CONSTANTS
    Hosts = {a, b, c}
    Leaders = {a}
    MaxPending = 2
    Founders = {a, c}
    Handlers = {p, q}
    BOOTSTRAP_WAIT_S = 60
    MaxGen = 2
    MaxFaults = 2
INVARIANTS TypeOK PeerNamesMember MemberUnlessPruned
PROPERTY DeadHostPruned
CHECK_DEADLOCK FALSE
