SPECIFICATION Spec
CONSTANTS
    None = None
    MaxSize = 2
    MaxU64 = 2
    Buffer = 1
    MaxChanges = 4
INVARIANTS Consistent ExactLength
PROPERTIES PlayFound CopyConfirmed
