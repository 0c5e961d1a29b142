SPECIFICATION Spec
CONSTANTS
    U = {a, b}
    U0 = {a}
    Landed = FALSE
    Fallible = TRUE
    Prompt = TRUE
    Boot = boot
    T2Chunks = 2
    BootChunks = 2
    LogCap = 2
    BatchMax = 2
    MaxEdits = 2
    MaxForced = 0
    MaxLinks = 1
    MaxLostCold = 1
    MaxLostFast = 2
INVARIANTS TypeOK HoleFlagged ParkedWaits HoleRecorded
CHECK_DEADLOCK FALSE
