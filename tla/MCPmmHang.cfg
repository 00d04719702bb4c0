SPECIFICATION FairSpec
CONSTANTS
    NFrames = 8
    LowFrames = 5
    KernFrames = 1
    PageSize = 4
    MemMaps <- AlignedMaps
    Holders = {h1, h2}
    Counts = {1, 2}
PROPERTIES HighReturns
