SPECIFICATION Spec
CONSTANTS
    N = 2
    u = u
    Untracked = {u}
    None = None
    Batch = 2
    MaxChanges = 1
    MaxFaults = 1
PROPERTIES NothingOverwritten
