CONSTANTS
    NumCpus = 1
    NumTasks = 3
    NoTask = NoTask
    MayBlock = TRUE
SPECIFICATION FairSpec
INVARIANTS TypeOK QueuedOnce LoadsSavedContext NoTaskLost OnlyRunningRuns
PROPERTIES ExitedIsFinal ReadyRuns
