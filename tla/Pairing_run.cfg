SPECIFICATION FairSpec
CONSTANTS
    Chunks = 2
    MaxSessions = 2
    MaxArms = 1
    MaxBoots = 1
    MaxFaults = 1
    LaneCap = 2
    Overlap = FALSE
    Timely = TRUE
CHECK_DEADLOCK FALSE
INVARIANTS AnswersItsHello FileWhole
PROPERTIES PairsAgain FileArrives
