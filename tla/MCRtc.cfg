SPECIFICATION FairSpec
CONSTANTS
    NUM_TERMINALS = 3
    Freq <- FreqValues
    LaunchInIrq = FALSE
INVARIANTS
    RateAsRequested
    ReadSawInterrupt
    ArmedFlagAwaited
    NextInterruptComes
PROPERTIES
    ReadReturns
