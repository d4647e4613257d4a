CONSTANTS
    p1 = p1
    p2 = p2
    p3 = p3
    Packets = {p1, p2, p3}
    Parseable = {p1, p2}
    LineSizes <- MCLineSizes
    NumBackends = 2
    MTU <- MCMTU
    QueueSize = 1
    MaxBuffers = 4
SPECIFICATION FairSpec
INVARIANT TypeOK
INVARIANT QueuedInArrivalOrder
INVARIANT DrainedOnReturn
INVARIANT StopIsNoError
INVARIANT DatagramsFit
INVARIANT LinesAreComplete
PROPERTY StopEndsRun
CHECK_DEADLOCK FALSE
