\* Signals against blocking calls: the supervisor and two user processes that stop,
\* continue, kill and wait for each other while they read the terminal.
CONSTANTS
    NumCpus = 1
    NumTasks = 3
    NoTask = NoTask
    MayBlock = TRUE
    MaxInput = 1
    Codes = {"ok"}
    Calls = {"fork", "exit", "kill", "wait", "stop", "read"}
SPECIFICATION FairProcSpec
INVARIANTS
    TerminatedIsDead
    NoLostReader
    WaitersOnce
    LaunchSettles
PROPERTIES
    ReaderWoken
    SessionEnds
