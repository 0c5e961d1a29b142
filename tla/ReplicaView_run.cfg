CONSTANTS
    Objs = {a, b}
    Colls = {c}
    Late = {b}
    None = None
    Places = {"p", "q"}
    Frames = {1, 2}
    MaxViews = 1
    MaxFiles = 1
    MaxShots = 2
    MaxFaults = 1
    MaxSessions = 1
    MaxEvents = 3
    MaxQueue = 2
SPECIFICATION FairSpec
INVARIANTS NeverLeftOpaque
PROPERTIES FollowsHost ShotFits KioskRight
