SPECIFICATION FairSpec
CONSTANTS
    c1 = c1 c2 = c2 c3 = c3 t1 = t1 t2 = t2
    None = None
    Conns = {c1, c2, c3}
    Callers = {t1, t2}
    MaxRuns = 2
CHECK_DEADLOCK FALSE
INVARIANTS Consistent ClosedIsSilent
PROPERTY StopReturns
