SPECIFICATION FairSpec
CONSTANTS
    Policies = {"every", "batched"}
    MaxCmds = 4
    MaxFaults = 1
    MaxCrashes = 2
CHECK_DEADLOCK FALSE
INVARIANTS TypeOK PromisedSurviveUnlessTorn ReplayConverges CheckpointKept
PROPERTY EveryCallResolves
