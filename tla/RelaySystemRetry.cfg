CONSTANTS
    r1 = r1
    r2 = r2
    b1 = b1
    b2 = b2
    Requests = {r1, r2}
    Kinds <- PoolKinds
    Backends = {b1}
    Buffered = b1
    Lossy = {b1}
    Classes = {2, 4}
    MaxBuffers = 4
    Query <- OneKey
    Auth <- OneKey
    Size <- OneEmpty
    MaxBuffered = 2
    MaxBatch = 1
    InitialInterval = 1
    MaxInterval = 1
SPECIFICATION FairSysSpec
INVARIANT FalseSuccessIsAnothers
PROPERTY ReachesBuffered
PROPERTY EveryClientIsAnswered
