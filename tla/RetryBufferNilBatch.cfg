CONSTANTS
    w1 = w1
    w2 = w2
    w3 = w3
    w4 = w4
    Writes = {w1, w2}
    Query <- MCQuery
    Auth <- MCAuth
    Size <- MCSize
    MaxBuffered = 5
    MaxBatch = 3
    InitialInterval = 1
    MaxInterval = 1
    Classes = {2, 5}
SPECIFICATION Spec
INVARIANT NoNilBatch
