SPECIFICATION FairSpec
CONSTANTS
    a = a b = b
    N = 3
    Contents = {a, b}
    None = None
    InitFiles <- MCInitFiles
    MaxChanges = 1
    MaxFaults = 2
INVARIANTS Consistent CheckpointSound PublishedCanonical
PROPERTIES ActivatesCurrent BuildRespectsCleanup WorkKept Converges
