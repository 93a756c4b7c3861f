SPECIFICATION Spec
CONSTANTS
    Keys = {k1, k2}
    Threads = {t1}
    CHECKPOINT_EVERY = 2
    Policies = {"every", "batched"}
    MaxCmds = 4
    MaxFaults = 1
    MaxCrashes = 1
SYMMETRY KeySymmetry
CHECK_DEADLOCK FALSE
INVARIANTS TypeOK RestartLosesNothing CallsAreAtomic
