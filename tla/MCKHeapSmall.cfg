SPECIFICATION Spec
CONSTANTS
    HeapStart = 3
    HeapLen = 30
    Tail = 12
    Word = 268435456
    MaxBlocks = 16
    Magic = 9
    Handles = {h1, h2, h3}
    Requests <- SmallRequests
SYMMETRY Symmetry
INVARIANTS PayloadsDisjoint
