CONSTANTS
    Configs <- MCConfigs
SPECIFICATION FairSpec
INVARIANT TypeOK
INVARIANT NoRelayIsLost
INVARIANT CrashOnlyWithoutListener
INVARIANT StopIsNoError
INVARIANT ExitLeavesNothingRunning
PROPERTY InterruptEnds
