CONSTANTS
    a = a
    b = b
    c = c
    None = None
    Names = {a, b, c}
    MaxIdx = 2
    Hash <- MCHash
    MaxQueue = 2
    MaxChanges = 4
SPECIFICATION FairSpec
INVARIANTS HitsAreSeen NamesResolve
 
CHECK_DEADLOCK FALSE
