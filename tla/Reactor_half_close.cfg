SPECIFICATION FairSpec
CONSTANTS
    Socks = {s1}
    Listeners = {}
    NoSock = NoSock
    Capacity = 1
    MaxOps = 1
    MaxKernel = 1
CHECK_DEADLOCK FALSE
PROPERTY EveryWaiterRests
