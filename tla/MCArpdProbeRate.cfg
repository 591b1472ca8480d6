CONSTANTS
    Hosts = {h1, h2}
    Macs = {m1, m2}
    None = None
    Sec = 2
    R = 1
    B = 1
    active_probing = 1
    negative_timeout = 2
    CntMod = 4
    MaxTime = 4
    MaxSent = 2
SPECIFICATION ProbeSpec
INVARIANTS RateBound
CHECK_DEADLOCK FALSE
