SPECIFICATION FairSpec
CONSTANTS
    U = {a, b}
    U0 = {a}
    Landed = TRUE
    Fallible = FALSE
    Prompt = TRUE
    Boot = boot
    T2Chunks = 1
    BootChunks = 1
    LogCap = 2
    BatchMax = 1
    MaxEdits = 4
    MaxForced = 0
    MaxLinks = 0
    MaxLostCold = 0
    MaxLostFast = 1
INVARIANTS NeverSilentlyWrong
PROPERTIES NeverRegresses RepairEnds Converges
CHECK_DEADLOCK FALSE
