CONSTANTS
    Images = {"a", "b"}
    Size <- MCSize
    Installed = "a"
    FlashEnd = 8
    SectorSize = 2
    ForeignMode = {}
    Signed = TRUE
    BufferSizes = {2}
    MaxChunk = 2
    FlashFails = TRUE
    Damageable = {2}
    BootFails = TRUE
    MaxResets = 1
    PowerCuts = {"idle", "write", "stream", "flush", "program", "verify", "command", "boot", "clear", "load"}
SPECIFICATION Spec
INVARIANTS StagedWhole
CHECK_DEADLOCK FALSE
