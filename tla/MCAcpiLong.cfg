SPECIFICATION Spec
CONSTANTS
    Firmwares <- Machines
    LowFrames = 2
    NSlots = 2
    PageSize = 48
    CounterRange = 12
    HeaderSize = 1
    PtrSize = 1
    FadtSize = 6
    MaxLength = 13
INVARIANTS SumsTheTable
