SPECIFICATION Spec
CONSTANTS
    IntBits = 5
    LongLongBits = 7
    Formats <- SmallFormats
    Sizes = {0, 1, 3, 15, 16, 20}
    Strings <- Texts
    Bases <- AllBases
INVARIANTS DigitsRight BuffersKept OutputRight AstrayOnlyAfterL
PROPERTIES Ends
CHECK_DEADLOCK FALSE
