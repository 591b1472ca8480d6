CONSTANTS
    a = a
    b = b
    c = c
    None = None
    Names = {a, b, c}
    MaxIdx = 2
    Hash <- MCHash
    MaxQueue = 2
    MaxChanges = 2
SPECIFICATION Spec
INVARIANTS NewNameShown
CHECK_DEADLOCK FALSE
