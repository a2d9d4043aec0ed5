SPECIFICATION FairSpec
CONSTANTS
    r1 = r1 r2 = r2 w1 = w1 w2 = w2 v0 = v0 v1 = v1 v2 = v2
    o1 = o1 o2 = o2 o3 = o3 o4 = o4 o5 = o5
    Readers = {r1}
    Writers = {w1}
    Versions = {v0}
    Objects = {o1, o2}
    DbOf <- MCDbOf
    None = None
    ReaderOps = {"first"}
    WriterOps = {"reload"}
    InitMode = "sqlite"
    MaxCalls = 3
PROPERTIES TransitionsEnd
