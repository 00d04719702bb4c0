SPECIFICATION Spec
CONSTANTS
    IntBits = 5
    LongLongBits = 7
    Formats <- SmallFormats
    Sizes = {4}
    Strings <- Texts
    Bases <- AllBases
INVARIANTS NumeralRight
CHECK_DEADLOCK FALSE
