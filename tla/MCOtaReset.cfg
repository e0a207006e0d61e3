CONSTANTS
    Images = {"a", "b"}
    Size <- MCSizeOverlap
    Installed = "a"
    FlashEnd = 10
    SectorSize = 2
    ForeignMode = {"b"}
    Signed = FALSE
    BufferSizes = {2}
    MaxChunk = 1
    FlashFails = FALSE
    Damageable = {}
    BootFails = FALSE
    MaxResets = 1
    PowerCuts = {}
SPECIFICATION FairSpec
INVARIANTS SketchIntact StagedWhole BootsWhole
PROPERTIES StagedBoots
CHECK_DEADLOCK FALSE
