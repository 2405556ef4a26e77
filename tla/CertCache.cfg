SPECIFICATION Spec
CONSTANTS
    Nodes = {m, n}
    Calls = {c, d}
    MaxPuts = 2
INVARIANTS GetWasStored GetNotOlderThanOwn
PROPERTY CachesConverge
