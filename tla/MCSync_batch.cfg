SPECIFICATION Spec
CONSTANTS
    Boot = boot
    U = {a}
    U0 = {a}
    Landed = TRUE
    Fallible = FALSE
    Prompt = TRUE
    T2Chunks = 1
    BootChunks = 1
    LogCap = 2
    BatchMax = 2
    MaxEdits = 4
    MaxForced = 0
    MaxLinks = 0
    MaxLostCold = 0
    MaxLostFast = 0
INVARIANT NeverSilentlyWrong
CHECK_DEADLOCK FALSE
