\* Two CPUs that steal from each other while tasks exit and are killed.  Blocking is
\* left out: only the boot CPU blocks and wakes tasks.
CONSTANTS
    NumCpus = 2
    NumTasks = 3
    NoTask = NoTask
    MayBlock = FALSE
SPECIFICATION Spec
INVARIANTS
    LoadsSavedContext
    OneRunner
    NoTaskLost
PROPERTIES
    ExitedIsFinal
