CONSTANTS
    r1 = r1
    r2 = r2
    b1 = b1
    b2 = b2
    b3 = b3
    Requests = {r1}
    Kinds <- AllKinds
    Backends = {b1, b2, b3}
    Classes = {2, 3, 4, 5}
    MaxBuffers = 2
SPECIFICATION FairSpec
INVARIANT TypeOK
PROPERTY ImplementsReplication
INVARIANT NoSendAfterClose
PROPERTY EveryGoroutineEnds
