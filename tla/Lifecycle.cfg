\* Families, address spaces and reaping: a session supervisor and three user processes that fork, vfork, kill,
\* wait for each other and exit in any order.
CONSTANTS
    NumCpus = 1
    NumTasks = 4
    NoTask = NoTask
    MayBlock = TRUE
    MaxInput = 0
    Codes = {"ok"}
    Calls = {"fork", "vfork", "exit", "kill", "wait", "poll"}
SPECIFICATION FairProcSpec
INVARIANTS
    ProcTypeOK
    FamilyConsistent
    MmRefsExact
    LoadedMm
PROPERTIES
    BlockedCallReturns
