SPECIFICATION FairSpec
CONSTANTS
    NUM_TERMINALS = 3
    Freq = {1024}
    LaunchInIrq = TRUE
PROPERTIES
    ReadReturns
