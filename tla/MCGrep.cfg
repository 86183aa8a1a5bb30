SPECIFICATION Spec
CONSTANTS
    BUFSIZE = 3
    a = a
    b = b
    Letter = {a, b}
    NUL = NUL
    NL = NL
    Patterns <- PatternSet
    MaxFile = 7
INVARIANTS
    GrepExact
    NothingUnread
CHECK_DEADLOCK FALSE
