SPECIFICATION Spec
CONSTANTS
    D = {a, b}
    D0 = {a}
    Scene = Scene
    None = None
    MaxEdits = 2
    MaxBoots = 1
    MaxLost = 1
    MaxFails = 1
    MaxEvents = 4
    Leftover = FALSE
INVARIANTS InventoryTrue RepairComplete WishStands
CHECK_DEADLOCK FALSE
