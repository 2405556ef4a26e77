SPECIFICATION Spec
CONSTANTS
    p1 = p1
    p2 = p2
    Procs = {p1, p2}
    u = u
    g = g
    f = f
    h = h
    PermKeys <- MCPermKeys
    Requests <- MCRequests
    Batches <- MCBatches
    Users <- MCUsers
    PrefixUsers <- MCPrefixUsers
    Subpaths <- MCSubpaths
    NoAct = NoAct
    Nil = Nil
    CacheSeconds = 2
    PermissionCheckExact = FALSE
    MaxFailures = 1
SYMMETRY MCSymmetry
INVARIANTS
    TypeOK
    GrantBacked
    DenialJustified
    EntryExpires
