CONSTANTS
    SndBuf = 2
    Wnd = 2
    MaxRx = 3
    MaxTx = 3
    MaxRefs = 2
    Syncs = {TRUE, FALSE}
SPECIFICATION FairSpec
INVARIANTS RxInOrder NoDangling WaitsForCause
PROPERTIES CallReturns
CHECK_DEADLOCK FALSE
