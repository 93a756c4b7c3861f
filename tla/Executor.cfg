CONSTANTS
    Futures = {f1, f2}
    Main = main
    IoFutures = {f2}
    NoTask = NoTask
    Loops = {"run", "block_on", "run_until_stalled"}
    MaxTasks = 2
    MaxEarly = 1
    Rounds = 2
SPECIFICATION FairSpec
CHECK_DEADLOCK FALSE
INVARIANT TypeOK
INVARIANT NoSleepOverReady
INVARIANT WokenIsQueued
INVARIANT SlabExact
INVARIANT RunLeavesNoTask
PROPERTY FiredTaskCompletes
