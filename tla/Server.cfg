SPECIFICATION ServerSpec
CONSTANTS
    Waiters = {w1, w2}
    Triggers = {x1, x2}
    NoWaiter = NoWaiter
    Scripts <- MCScripts
    ReadChunk = 4
    MaxHeadUnits = 2
    MaxInMemoryBody = 1
    MaxUploadSize = 2
    KeepAliveEnabled = TRUE
    MaxRequests = 3
    NumShards = 2
    Clients = {c1, c2}
    DrainTicks = 1
    Sleepers = {t1, t2}
    MaxNow = 3
    MaxTimers = 3
    Jobs = {j1, j2, j3}
    PoolWorkers = {p1, p2}
    NoJob = NoJob
CHECK_DEADLOCK FALSE
INVARIANTS ServerTypeOK NoMissedSignal SlotsExact OneLateKeepAlive StopLosesNoWork NoOversleep
PROPERTIES SignalEndsWait    BlockingAnswers
