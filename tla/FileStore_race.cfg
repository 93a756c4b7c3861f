SPECIFICATION Spec
CONSTANTS
    Keys = {k1, k2}
    Threads = {t1, t2}
    CHECKPOINT_EVERY = 2
    Policies = {"every"}
    MaxCmds = 4
    MaxFaults = 0
    MaxCrashes = 0
CHECK_DEADLOCK FALSE
INVARIANT RestartLosesNothing
