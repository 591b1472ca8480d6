CONSTANTS
    p1 = p1
    p2 = p2
    f1 = f1
    f2 = f2
    c1 = c1
    c2 = c2
    NoFile = NoFile
    NoProc = NoProc
    Procs = {p1, p2}
    Files = {f1, f2}
    Counters = {c1, c2}
    InitVal = 1
    MaxVal = 2
    MaxRuns = 3
    MaxCrash = 1
SPECIFICATION Spec
SYMMETRY Symm
INVARIANTS   NoOldHistory
CHECK_DEADLOCK FALSE
