CONSTANTS
    o1 = o1
    o2 = o2
    o3 = o3
    Objs = {o1, o2, o3}
    Subnet <- MCSubnet
    Commands <- MCCommands
    BufCap = 2
    MaxEnv = 1
SPECIFICATION FairSpec
INVARIANTS FlushComplete FlushSucceeds
PROPERTIES FlushEnds
CHECK_DEADLOCK FALSE
