SPECIFICATION FairSpec
CONSTANTS
    Socks = {s1, s2}
    Listeners = {s2}
    NoSock = NoSock
    Capacity = 1
    MaxOps = 2
    MaxKernel = 1
CHECK_DEADLOCK FALSE
INVARIANTS TypeOK NoLostEdge
PROPERTIES ReadyWaiterRuns OpenWaiterRests
