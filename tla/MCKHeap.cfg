SPECIFICATION Spec
CONSTANTS
    HeapStart = 3
    HeapLen = 30
    Tail = 2
    Word = 268435456
    MaxBlocks = 6
    Magic = 9
    Handles = {h1, h2, h3, h4}
    Requests <- MixedRequests
SYMMETRY Symmetry
CONSTRAINT WithinLimits
INVARIANTS TypeOK HeapTiled BlocksOwned PayloadsSafe RoomIsFound
PROPERTIES ImplementsHeapSpec SmallSplitsOnly
