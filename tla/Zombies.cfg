CONSTANTS
    NumCpus = 1
    NumTasks = 3
    NoTask = NoTask
    MayBlock = TRUE
    MaxInput = 0
    Codes = {"ok"}
    Calls = {"fork", "exit", "kill", "stop", "poll"}
SPECIFICATION ProcSpec
PROPERTY ZombieUntilReaped
