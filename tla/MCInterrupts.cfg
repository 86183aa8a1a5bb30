SPECIFICATION FairSpec
CONSTANTS
    NUM_TERMINALS = 3
    MAX_DEPTH = 2
INVARIANTS
    InServiceAccounted
    Resumable
PROPERTIES
    EveryInterruptTaken
