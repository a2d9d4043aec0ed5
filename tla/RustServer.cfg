SPECIFICATION AllSpec
CONSTANTS
    a = a b = b p1 = p1 p2 = p2
    None = None
    Contents = {a, b}
    Servers = {"s1"}
    Damaged = {b}
    MaxFaults = 2
    Compilers = {p1, p2}
    Keys = {1, 2, 3, 4}
    Fanout = 2
    Width = 2
    Load = 2
    MaxSeed = 1
    RowCount = 3
    Sources = 3
    Values <- MCValues
    Requests <- MCRequests
    Tables <- MCTables
    Bundles <- MCBundles
    MaxChanges = 2
    MaxStops = 1
INVARIANTS Consistent ServerMapsOneVersion LookupExact SelectionsAgree
PROPERTIES ActivatesVerified PublicationsComeBack
CHECK_DEADLOCK FALSE
