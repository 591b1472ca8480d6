CONSTANTS
    MaxVer = 1
    MaxSignals = 2
SPECIFICATION Spec
INVARIANTS ClosedOnce
CHECK_DEADLOCK FALSE
