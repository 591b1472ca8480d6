CONSTANTS
    MaxVer = 3
    MaxSignals = 4
    Hosts = {h1, h2}
    Macs = {m1, m2}
    None = None
    Sec = 2
    R = 1
    B = 2
    active_probing = 2
    negative_timeout = 2
    CntMod = 4
    MaxTime = 9
    MaxSent = 5
SPECIFICATION Arpd
INVARIANTS NoLostWakeup CleanExit DeadHostQuiet AnswerIsCurrent BucketBound
PROPERTIES HupCovered ExitEnds
CHECK_DEADLOCK FALSE
