SPECIFICATION PagingSpec
CONSTANTS
    MAX_NUM_PROCS = 3
    NUM_TERMINALS = 3
    BackgroundExec = FALSE
    FirstShellFaults = FALSE
    PD_ENTRIES = 7
    TASK_PDE_ENTRY = 6
    SwitchInVidmap = FALSE
INVARIANTS
    MemoryIsolated
    AccessAsGranted
    TlbCoherent
    KernelAlwaysMapped
