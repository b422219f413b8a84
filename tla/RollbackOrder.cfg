SPECIFICATION MCSpec
CONSTANTS
    Commands = {c1}
    Dirs = {"a"}
    Files = {"a/y"}
    Above <- MCAbove
    Batches <- MCBatches
    LastRuns <- MCLastRuns
    MaxQueued = 1
    MaxCommands = 3
PROPERTIES
    RollbackIsChronological
CHECK_DEADLOCK FALSE
