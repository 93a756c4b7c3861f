CONSTANTS
    Futures = {f1}
    Main = main
    IoFutures = {}
    NoTask = NoTask
    Loops = {"block_on"}
    MaxTasks = 1
    MaxEarly = 0
    Rounds = 2
SPECIFICATION FairSpec
CHECK_DEADLOCK FALSE
PROPERTY BlockOnReturns
