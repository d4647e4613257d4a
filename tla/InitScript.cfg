CONSTANTS
    Pids <- MCPids
    Tools <- BothTools
    KillAfter = 1
    GiveUpAfter = 3
    MaxOthers = 1
    MaxCalls = 4
SPECIFICATION FairSpec
INVARIANT TypeOK
INVARIANT DaemonIsNamed
PROPERTY RestartIsInOrder
PROPERTY RestartBringsUp
PROPERTY EveryCallEnds
