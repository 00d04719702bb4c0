SPECIFICATION Spec
CONSTANTS
    NFrames = 8
    LowFrames = 5
    KernFrames = 1
    PageSize = 4
    MemMaps <- UnalignedMaps
    Holders = {h1, h2}
    Counts = {1, 2}
INVARIANTS AllRegionsKept
