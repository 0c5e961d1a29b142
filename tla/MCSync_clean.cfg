SPECIFICATION FairSpec
CONSTANTS
    U = {a, b}
    U0 = {a, b}
    Landed = TRUE
    Fallible = FALSE
    Prompt = FALSE
    Boot = boot
    T2Chunks = 1
    BootChunks = 1
    LogCap = 2
    BatchMax = 2
    MaxEdits = 3
    MaxForced = 1
    MaxLinks = 0
    MaxLostCold = 0
    MaxLostFast = 0
INVARIANT StructureRight
CHECK_DEADLOCK FALSE
PROPERTIES StructureConverges
