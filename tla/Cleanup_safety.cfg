SPECIFICATION FairSpec
CONSTANTS
    N = 2
    u = u
    Untracked = {u}
    None = None
    Batch = 2
    MaxChanges = 2
    MaxFaults = 3
INVARIANTS Consistent Guarded Servable
PROPERTIES OriginalsKept TrashOnlyVerified RestoreReturns
CHECK_DEADLOCK FALSE
