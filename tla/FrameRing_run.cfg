SPECIFICATION FairSpec
CONSTANTS
    Slots = 3
    Sizes = {small, big}
    InFlight = 1
    Orders = {TRUE, FALSE}
    MaxPics = 4
    MaxLate = 2
    MaxFaults = 1
INVARIANTS NoTornFrame NewestIntact
PROPERTIES ClaimShields NewestShown
CHECK_DEADLOCK FALSE
