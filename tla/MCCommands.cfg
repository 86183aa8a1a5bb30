SPECIFICATION CommandsSpec
CONSTANTS
    MAX_NUM_PROCS = 3
    NUM_TERMINALS = 2
    BackgroundExec = FALSE
    FirstShellFaults = FALSE
    MAX_EXECUTE_ARG_SIZE = 5
    Line <- Lines
    Executable <- Programs
    Status <- Statuses
    BufferSize <- Sizes
INVARIANTS
    ArgumentsOwn
    AnswerTrue
