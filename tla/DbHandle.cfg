SPECIFICATION FairSpec
CONSTANTS
    Readers = {r1, r2, r3}
    NoHandle = NoHandle
    MaxHandles = 3
INVARIANTS
    TypeOK
    LockedReadSafe
    RefusedOnlyOnOverlap
PROPERTIES
    CloseCompletes
