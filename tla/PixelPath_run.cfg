SPECIFICATION FairSpec
CONSTANTS
    Pics = {"black", "p"}
    MaxSessions = 2
    MaxAims = 1
    MaxLoads = 1
    MaxViews = 1
    MaxFaults = 1
INVARIANTS OneEncoder NoneAfterStop
PROPERTIES StreamComesBack
CHECK_DEADLOCK FALSE
