SPECIFICATION Spec
CONSTANTS
    Policies = {"every"}
    MaxCmds = 2
    MaxFaults = 0
    MaxCrashes = 1
CHECK_DEADLOCK FALSE
INVARIANT PromisedSurvive
