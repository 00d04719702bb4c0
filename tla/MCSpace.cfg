SPECIFICATION Spec
CONSTANTS
    NProcs = 2
    LowFrames = 10
    NSlots = 3
    HighFrames = 8
    FreeSets <- SmallFreeSets
    TableSize = 2
    UserTables = 3
    CodePage = 2
    DataPage = 3
    StackPage = 4
    StackPages = 2
    PageSize = 2
    BufLen = 4
    MsgLen = 1
    MaxLen = 5
INVARIANTS RunsOwnPages Isolated KernelMemoryMapped WindowClean CopyRight
CHECK_DEADLOCK FALSE
