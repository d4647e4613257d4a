CONSTANTS
    r1 = r1
    r2 = r2
    b1 = b1
    b2 = b2
    Requests = {r1, r2}
    Kinds <- WriteKinds
    Backends = {b1, b2}
    Buffered = b1
    Lossy = {b1}
    Classes = {2}
    MaxBuffers = 4
    Query <- OneKey
    Auth <- OneKey
    Size <- UnitSize
    MaxBuffered = 1
    MaxBatch = 1
    InitialInterval = 1
    MaxInterval = 1
SYMMETRY RequestsAlike
SPECIFICATION SysSpec
INVARIANT StoredIsIntact
