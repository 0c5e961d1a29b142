SPECIFICATION FairSpec
CONSTANTS
    MaxFrames = 2
    Cost <- FrameCost
    Window = 2
    QCap = 1
    PCap = 2
    WCap = 1
    RCap = 1
    MaxAddons = 2
    MaxDrops = 1
    MaxCuts = 1
    MaxDowns = 1
INVARIANTS CreditAccounted
PROPERTIES Ordered CreditsReturn
