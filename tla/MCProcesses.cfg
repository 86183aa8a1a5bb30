SPECIFICATION FairSpec
CONSTANTS
    MAX_NUM_PROCS = 4
    NUM_TERMINALS = 3
    BackgroundExec = FALSE
    FirstShellFaults = FALSE
INVARIANTS
    ReadyToResume
    EveryPidAccountedFor
    ParentWaits
    OneFirstShell
    FlagMeansHandler
    VideoFollowsDisplay
    NoWildJump
PROPERTIES
    TerminalIsolation
    ImplementsSessions
    EveryTerminalServiced
    RtcNotBlocked
