CONSTANTS
    o1 = o1
    o2 = o2
    o3 = o3
    Objs = {o1, o2, o3}
    Subnet <- MCSubnet
    Commands <- MCOneLoop
    BufCap = 1
    MaxEnv = 0
SPECIFICATION Spec
INVARIANTS GoneIsIgnored
CHECK_DEADLOCK FALSE
