SPECIFICATION FairSpec
CONSTANTS
    NFrames = 8
    LowFrames = 5
    KernFrames = 1
    PageSize = 4
    MemMaps <- AlignedMaps
    Holders = {h1, h2, h3}
    Counts = {1, 2, 3}
INVARIANTS TypeOK FramesExclusive ReservedKept NullMeansFull
PROPERTIES LowStaysLow LowReturns
