SPECIFICATION Spec
CONSTANTS
    NUM_TERMINALS = 2
    NUM_COLS = 2
    NUM_ROWS = 2
    PAGE_CELLS = 5
    Printable = {"a"}
    Output <- OutputValues
    BackgroundRefusal = FALSE
INVARIANTS
    TypeOK
    EachItsOwnScreen
    CursorShown
VIEW WithoutStale
