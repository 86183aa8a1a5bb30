SPECIFICATION FairSpec
CONSTANTS
    NUM_TERMINALS = 2
    KEYBOARD_BUFF_SIZE = 4
    Printable = {"a"}
    Request = {3}
INVARIANTS
    CopyStaysInBuffer
    NoStaleInput
    AllowedIsFresh
    EnterStillFits
PROPERTIES
    ReadReturns
