\* Two address spaces of four pages: image, two pages of heap and mappings, stack.
CONSTANTS
    Mms = {m1, m2}
    NoMm = NoMm
    Root = m1
    Frames = {f1, f2, f3, f4}
    NoFrame = NoFrame
    NPages = 4
    ImageStart = 0
    ImageEnd = 1
    StackMin = 2
    StackStart = 3
    StackTop = 4
    FilePages = {0}
    NBackings = 1
    Mappings <- AllMappings
    Prots = {{"r"}}
    Budgets <- CheckedBudgets
SPECIFICATION Spec
INVARIANTS
    MemTypeOK
    VmasDisjoint
    FrameRefsExact
    BackingRefsExact
PROPERTY
    PrivateMemory
SYMMETRY FrameSymmetry
\* Processes may all have ended.
CHECK_DEADLOCK FALSE
