CONSTANTS
    FifoSize = 3
    Trigger = 2
    Sizes = {1, 3, 4}
    MaxBytes = 6
    MaxRead = 3
    Uses = {"read", "peek"}
    UdpObjs = {u1, u2}
    UdpCtxs = {c1, c2}
    UdpShapes <- UdpTwoShapes
    rxBufMaxDepth = 1
    pbuf_unit_size = 1
    UdpWrites = {2}
    UdpMaxIn = 3
    UdpMaxTx = 2
    UmmLast = 7
    UmmApp = {p1, p2}
    UmmIsr = {q1}
    UmmSizes = {4, 5, 13, 524297}
SPECIFICATION BuffersSpec
INVARIANTS InOrder PeekPromise UdpFramed UdpHolders UmmIntegrity UmmPromise
PROPERTIES AvailableHolds
CHECK_DEADLOCK FALSE
