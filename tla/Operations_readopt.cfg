SPECIFICATION Spec
CONSTANTS
    None = None
    Own = own
    Collections = {own, other}
    WithDatabase = {other}
    MaxStarts = 3
    MaxStamp = 1
CHECK_DEADLOCK FALSE
INVARIANT ImportServes
