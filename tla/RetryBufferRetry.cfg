CONSTANTS
    w1 = w1
    w2 = w2
    w3 = w3
    w4 = w4
    Writes = {w1, w2, w3, w4}
    Query <- MCQuery
    Auth <- MCAuth
    Size <- MCSizeTooLarge
    MaxBuffered = 5
    MaxBatch = 3
    InitialInterval = 1
    MaxInterval = 2
    Classes = {4, 5}
SPECIFICATION FairSpec
INVARIANT FlagHasCause
PROPERTY BufferingEnds
