CONSTANTS
    Images = {"a", "b"}
    Size <- MCSize
    Installed = "a"
    FlashEnd = 8
    SectorSize = 2
    ForeignMode = {}
    Signed = FALSE
    BufferSizes = {2}
    MaxChunk = 1
    FlashFails = TRUE
    Damageable = {}
    BootFails = FALSE
    MaxResets = 0
    PowerCuts = {}
SPECIFICATION Spec
INVARIANTS EndReports
CHECK_DEADLOCK FALSE
