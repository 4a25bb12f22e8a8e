SPECIFICATION Spec
CONSTANTS
    u1 = u1
    u2 = u2
    u3 = u3
    Users = {u1, u2, u3}
    Writer = 3
    LockCpus = {1, 2}
    NoOwner = NoOwner
    Permits = 2
    Waiters = {u1, u2, u3}
    LatchCount = 2
    LatchMax = 3
    RcuUsers = {u1, u2, u3}
    RcuBusy = {u3}
    NrAps = 2
    TlbCpus = {0, 1}
    Remaps = 3
    IoCallers = {u1, u2}
    Prober = u1
    Capacity = 2
    Payloads = {8}
    Wrap = 4
    CapLimit = 4
    CapChains <- Chains
    FilePids = {u1}
    FdMax = 5
    Dup2Targets = {4}
    MaxPipes = 1
    PipeBytes = 1
    FileLen = 1
    DirLen = 1
    RingLen = 3
    TrbItems = {"a", "b"}
    Ports = {1, 2}
    UsbConfigs <- Configs
    EpLimit = 2
    MaxTimeouts = 1
    KeyReaders = {u1, u2}
    Keys = {"up"}
    Arrow = "up"
    RingSlots <- KeyRingSizes
    MaxReports = 3
    MaxCalls <- Calls
INVARIANTS LocksExclude NobodyPassesEarly ReadersKeepValues CpusCoordinate DescriptorsAgree 
PROPERTY CallsReturn
CHECK_DEADLOCK FALSE
