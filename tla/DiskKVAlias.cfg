SPECIFICATION Spec
CONSTANTS
    d1 = d1
    d2 = d2
    d3 = d3
    k = k
    DirNames = {d1, d2, d3}
    Keys <- MCKeys
    appliedIndexKey = appliedIndexKey
    Vals = {7}
    Cmds <- MCCmds
    Nil = Nil
    NoDir = NoDir
    Torn = Torn
    NoStream = NoStream
    FaultModes = {"kill"}
    IterValueStable = FALSE
    MaxLog = 2
    MaxFaults = 1
INVARIANT SnapshotFaithful
