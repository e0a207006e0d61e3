CONSTANTS
    SndBuf = 2
    Wnd = 2
    MaxRx = 3
    MaxTx = 3
    MaxRefs = 2
    Syncs = {TRUE, FALSE}
SPECIFICATION Spec
INVARIANTS BorrowedReturned
CHECK_DEADLOCK FALSE
