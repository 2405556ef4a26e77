SPECIFICATION Spec
CONSTANTS
    p1 = p1
    p2 = p2
    Procs = {p1}
    u = u
    g = g
    f = f
    h = h
    PermKeys <- MCPermKeys
    Requests <- MCRequests
    Batches <- MCBatches
    Users <- MCUsers
    PrefixUsers <- MCPrefixUsers
    Subpaths <- MCSubpaths
    NoAct = NoAct
    Nil = Nil
    CacheSeconds = 2
    PermissionCheckExact = TRUE
    MaxFailures = 0
INVARIANT RevokeDeletesPermissions
