SPECIFICATION Spec
CONSTANTS
    RbKeys = {1, 2, 3, 4, 5, 6}
    RbValues = {1}
    Radix = 3
    RdMax = 6
    RdValues = {1}
    B = 4
    BtKeys = {1, 2, 3, 4, 5, 6, 7, 8, 9, 10}
    BtValues = {1}
    Points = {0, 1, 2, 3, 4}
    MpValues = {1, 2}
    Heads = {h1, h2}
    Items = {n1, n2, n3}
    Null = Null
    LruKeys = {1, 2, 3}
    LruValues = {1, 2}
    Capacity = 2
    RingSize = 3
    RingValues = {1, 2}
    Empty = Empty
    WordBits = 3
    NBits = 7
    Base = 2
    PageUnits = 2
    MemoryMaps <- Maps
    MaxRegions = 3
    MbSizes = {1, 2}
    MbAligns = {1, 2}
    MbLimit = 7
    Zones <- TwoZones
    Holes = {0}
    MaxOrder = 3
    Cpus = {0, 1}
    PcpHigh = 1
    PcpBatch = 1
    MaxRefs = 2
    PageWords = 8
    SlabSizes <- TwoSizes
    MinObjects = 4
    HeaderWords = 1
    Requests = {1, 2, 8}
    ObjAligns = {1, 2}
    MaxLive = 2
    Segments <- TwoSegments
    MaxSegments = 1
    VmPages = {1, 2, 3, 4, 5}
    VmFrames = {1, 2, 3}
    IoFrames = {11, 12}
    VmSpaces = {p}
    VmSizes = {1, 2}
    NrSlots = 4
    SlotUnits = 2
    DmaSizes = {1, 2, 4}
    MaxMapped = 3
    DmaCallers = {a, b, c}
    DmaFrames = {1, 2}
    TrackCap = 3
    Tables = {1, 2, 3, 4, 5, 6}
    Mms = {p}
    UserPages = {0, 1}
    KernelPages = {4}
    UserFrame = 50
    KernelFrame = 60
    PtySize = 3
    LineMax = 2
    PtyInput = {"a", "nl", "cr", "hi", "erase", "kill", "eof"}
    PtyOutput = {"a", "nl", "cr", "nul"}
    PtyFlags <- FlagSets
    Tokens = {1, 2, 3}
    Names = {"a", "b"}
    PathLen = 2
    FileSystems = {"ext4", "procfs"}
    MaxMounts = 4
    TabWidth = 2
    MaxParams = 6
    MaxActions = 5
    ScreenTexts <- SomeTexts
    ColourTexts <- SomeColours
    MaxPending = 7
    CmdBufSize = 4
    HistorySize = 2
    ShellCommands <- TwoCommands
    Letters = {"a", " "}
    CommandOutputs <- Outputs
    ShellCols = 5
    ShellRows = 1
    ClusterCount = 3
    FatEntries = 6
    ClusterSize = 2
    ClusterRecords = 2
    ArchiveNames = {"a", "b"}
INVARIANTS ContainersAgree ContainerShape QueriesAgree FramesOnce AllocationsDisjoint TablesExact
CHECK_DEADLOCK FALSE
