SPECIFICATION Spec
CONSTANTS
    MAX_NUM_PROCS = 3
    NUM_TERMINALS = 2
    BackgroundExec = TRUE
    FirstShellFaults = FALSE
PROPERTIES
    OwnedByStartingTerminal
