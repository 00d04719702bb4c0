SPECIFICATION Spec
CONSTANTS
    VGA_WIDTH = 2
    VGA_HEIGHT = 3
    MaxChars = 8
    MaxIrqs = 3
    Messages = {0, 2}
INVARIANTS CursorHeals OvershootBounded ShowsTail
CHECK_DEADLOCK FALSE
