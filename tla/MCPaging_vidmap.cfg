SPECIFICATION PagingSpec
CONSTANTS
    MAX_NUM_PROCS = 3
    NUM_TERMINALS = 2
    BackgroundExec = FALSE
    FirstShellFaults = FALSE
    PD_ENTRIES = 7
    TASK_PDE_ENTRY = 6
    SwitchInVidmap = TRUE
INVARIANTS
    VideoFollowsDisplay
